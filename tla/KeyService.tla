------------------------------- MODULE KeyService -------------------------------
(***************************************************************************)
(* The API server and the configuration store it takes its key from.       *)
(* Importing the package runs load_dotenv once (recon/seer.py), which      *)
(* copies .env into the environment of the process but replaces nothing    *)
(* the process was started with.  It looks for .env from the directory of  *)
(* seer.py upwards: from a checkout that may be the file the commands      *)
(* write in their working directory, from site-packages it finds none.     *)
(* require_api_key (api/auth.py) reads the environment at every request.   *)
(* The server may be started and stopped between any two steps of the      *)
(* commands that change .env.                                              *)
(***************************************************************************)
EXTENDS ConfigStore

CONSTANTS
  Key,      \* DIH_API_KEY
  Shells,   \* what the shell or the container may set it to: values, or Unset
  Headers,  \* what clients may send as X-API-Key
  NonAscii  \* the texts with a character beyond ASCII

Missing == "(no header)"

ASSUME KeyAssumption == Key \in Names
ASSUME HeadersAssumption ==
  Missing \notin Headers /\ \A text \in DOMAIN Dotenv : Dotenv[text] # Missing

VARIABLES
  environ,  \* the key in the environment of the server, or Down
  certain   \* history: whether nobody has disturbed the last command on Key

keyVars == <<storeVars, environ, certain>>

Down == "(down)"

KeyInit ==
  /\ Init
  /\ environ = Down
  /\ certain = FALSE

EnvironAtBoot(shell, found) ==
  IF shell # Unset THEN shell
  ELSE IF found /\ Loaded(Key) # Unset THEN Loaded(Key) ELSE Empty

Boot(shell, found) ==
  /\ environ = Down
  /\ environ' = EnvironAtBoot(shell, found)
  /\ UNCHANGED <<storeVars, certain>>

Stop ==
  /\ environ # Down
  /\ environ' = Down
  /\ UNCHANGED <<storeVars, certain>>

(* Mutant: a server without a key serves everybody. *)
Answer_Open(header) ==
  IF environ = Empty THEN 200
  ELSE IF {environ, header} \cap NonAscii # {} THEN 500
  ELSE IF environ # header THEN 401 ELSE 200

(* require_api_key, whatever the endpoint behind it.  compare_digest       *)
(* raises on text beyond ASCII, and nobody catches that.                   *)
Answer(header) ==
  IF environ = Empty THEN 503
  ELSE IF header = Missing THEN 401
  ELSE IF {environ, header} \cap NonAscii # {} THEN 500
  ELSE IF environ # header THEN 401 ELSE 200

(* A command on Key makes the key certain if it works on the present file  *)
(* and finds there at most one line for it, of the shape it writes itself. *)
(* A stale replace of another variable, or an edit, may undo it.           *)
CertainAfter ==
  IF \E p \in Procs : Replaced(p) /\ command[p].name = Key
  THEN \E p \in Procs :
         /\ Replaced(p) /\ alone[p]
         /\ Len(Bindings(lines[p], Key)) <= 1
         /\ \A i \in DOMAIN lines[p] : Binds(lines[p][i], Key) => Owns(lines[p][i], Key)
  ELSE /\ certain
       /\ \A p \in Procs : Replaced(p) => alone[p]
       /\ changes' # changes => Bindings(env', Key) = Bindings(env, Key)

StoreStep ==
  /\ StoreNext
  /\ certain' = CertainAfter
  /\ UNCHANGED environ

KeyNext ==
  \/ StoreStep
  \/ \E shell \in Shells, found \in BOOLEAN : Boot(shell, found)
  \/ Stop

KeySpec == KeyInit /\ [][KeyNext]_keyVars

-------------------------------------------------------------------------------
(* The key the last command gave the service, as load_dotenv reads it. *)
Given == LET value == Last(taken[Key]) IN IF value = Unset THEN Unset ELSE Dotenv[value]

(* A key nobody can authenticate with: none, or one compare_digest chokes  *)
(* on.                                                                     *)
Useless == {Unset, Empty} \cup NonAscii

(* A rotation is complete when the server has been restarted where it      *)
(* finds the file: whatever happened between the command and the restart   *)
(* -- its own crash before the metadata, failing writes, commands on other *)
(* variables -- whoever sends the new key is served, and nobody else.  A   *)
(* key that cannot be used serves nobody, and above all not the old one.   *)
RestartCompletesRotation ==
  [][Boot(Unset, TRUE) /\ certain =>
       \A header \in Headers \cup {Missing} :
         Answer(header)' = 200 <=> header = Given /\ Given \notin Useless]_keyVars

(* The docstring of require_api_key: "Reads DIH_API_KEY at request time    *)
(* (not import time) so the key can be rotated without a process restart." *)
RotatesWithoutRestart ==
  environ \notin Useless \cup {Down} /\ certain /\ Busy = {} /\ Given \notin Useless
    => Answer(Given) = 200
=================================================================================
