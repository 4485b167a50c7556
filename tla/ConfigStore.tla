------------------------------ MODULE ConfigStore ------------------------------
(***************************************************************************)
(* The configuration store (config_store.py): `config set` and             *)
(* `config unset` over two files, .env and .env.meta.json.  Each command   *)
(* is a process of its own, reads both files before it writes them and     *)
(* locks neither; it may fail or be killed between any two file            *)
(* operations.  .env is also edited by hand.  .env is replaced in one      *)
(* rename, the metadata file is truncated and written in place.            *)
(*                                                                         *)
(* A line of .env is kept as its shape: what set_var and unset_var take    *)
(* for theirs, what list_vars parses and what python-dotenv loads are      *)
(* three different sets of lines, and what python-dotenv makes of a value  *)
(* is not always the value set_var has written.  Dates, providers and      *)
(* descriptions are left out; of the dates there remains whether a         *)
(* rotation is recorded.                                                   *)
(***************************************************************************)
EXTENDS Naturals, FiniteSets, SequencesExt

CONSTANTS
  Names,        \* the registry: KNOWN_VARS
  Secrets,      \* those of them marked secret
  Typed,        \* what operators type for each: stripped, one line, not empty
  ShortValues,  \* those of fewer than eight characters
  Dotenv,       \* what python-dotenv makes of the text behind the "="
  Procs,        \* the processes that run commands
  Files,        \* what .env may hold before the first command
  HandLines,    \* the lines an operator may add with an editor
  MaxChanges    \* bound on the commands issued and the edits by hand, together

Values == UNION {Typed[n] : n \in Names}

ASSUME RegistryAssumption ==
  Secrets \subseteq Names /\ DOMAIN Typed = Names /\ ShortValues \subseteq Values
ASSUME BoundsAssumption == MaxChanges \in Nat
ASSUME ProcsAssumption == IsFiniteSet(Procs)

VARIABLES
  env,       \* .env: its lines
  meta,      \* .env.meta.json: its entries
  document,  \* .env.meta.json as a file: "whole" JSON, "empty", or "part" of one
  tmp,       \* the processes that have a .env.tmp.* on disk
  at,        \* how far the command of each process is
  command,   \* what it was asked to do
  lines,     \* its copy of .env
  entries,   \* its copy of the metadata
  changes,   \* commands issued and edits made so far
  taken,     \* history: the values commands gave each variable, or Unset, in order
  alone,     \* history: whether nobody else has touched the files since it began
  excused    \* history: the variables whose metadata may legitimately be off

storeVars == <<env, meta, document, tmp, at, command, lines, entries, changes,
               taken, alone, excused>>

Unset == "(not set)"
Empty == ""

(* set_var refuses an empty value, so a command never writes one; only a    *)
(* line added by hand can be empty.                                        *)
ASSUME UnsetAssumption == Unset \notin Values /\ Empty \notin Values

(* python-dotenv strips quotes and an inline comment and replaces ${...};  *)
(* a line it cannot parse, such as one with a quote left open, it skips:   *)
(* Unset.                                                                  *)
ASSUME DotenvAssumption ==
  DOMAIN Dotenv = Values \cup {Empty} /\ Dotenv[Empty] = Empty

(* Foreign stands for every line none of the registry's names is on:       *)
(* comments, blank lines, variables the registry does not know.            *)
Foreign == [shape |-> "foreign"]
Assignments ==
  [shape : {"plain", "spaced", "export"}, name : Names, value : Values \cup {Empty}]
Lines == {Foreign} \cup Assignments

Plain(n, v) == [shape |-> "plain", name |-> n, value |-> v]

ASSUME FilesAssumption == Files \subseteq Seq(Lines) /\ HandLines \subseteq Lines

Mask == "****"
Last4(v) == IF v \in ShortValues THEN Mask ELSE v   \* values differ in their last four

NoEntries == [n \in {} |-> Mask]
NoCommand == [op |-> "none", name |-> "", value |-> Unset]

Commands == (UNION {[op : {"set"}, name : {n}, value : Typed[n]] : n \in Names})
              \cup [op : {"unset"}, name : Names, value : {Unset}]

Masks == {Mask} \cup (Values \ ShortValues)
EntrySets ==
  UNION {[N -> [last4 : Masks \cup {"none"}, rotated : BOOLEAN]] : N \in SUBSET Names}

TypeOK ==
  /\ env \in Seq(Lines)
  /\ meta \in EntrySets /\ document \in {"whole", "empty", "part"}
  /\ tmp \subseteq Procs
  /\ at \in [Procs -> {"idle", "reading", "writing", "replacing", "loading",
                       "truncating", "dumping", "killed"}]
  /\ command \in [Procs -> Commands \cup {NoCommand}]
  /\ lines \in [Procs -> Seq(Lines)]
  /\ entries \in [Procs -> EntrySets]
  /\ changes \in 0 .. MaxChanges
  /\ taken \in [Names -> Seq(Values \cup {Unset})]
  /\ alone \in [Procs -> BOOLEAN]
  /\ excused \subseteq Names

-------------------------------------------------------------------------------
(***************************************************************************)
(* Reading .env.                                                           *)
(***************************************************************************)
(* line.strip().startswith(f"{name}=") *)
Owns(line, n) == line.shape = "plain" /\ line.name = n

(* The lines at the positions in kept, in their order: what SelectSeq      *)
(* makes of a test, but not by recursion over the file.                    *)
Rank(i, kept) == Cardinality({j \in kept : j <= i})

Selected(file, kept) ==
  [k \in 1 .. Cardinality(kept) |-> file[CHOOSE i \in kept : Rank(i, kept) = k]]

NotOwned(file, n) == Selected(file, {i \in DOMAIN file : ~ Owns(file[i], n)})

Binds(line, n) == line # Foreign /\ line.name = n

Bindings(file, n) == Selected(file, {i \in DOMAIN file : Binds(file[i], n)})

(* Of several lines for one name the last one that is heeded counts. *)
ValueIn(file, n, heeded) ==
  LET i == SelectLastInSeq(file, LAMBDA l : l \in heeded /\ l.name = n)
  IN  IF i = 0 THEN Unset ELSE file[i].value

(* _current_values takes the line of an export for one of "export NAME". *)
ForList == {line \in Assignments : line.shape # "export"}

(* What list_vars makes of _current_values: empty is not set. *)
Listed(n) ==
  LET v == ValueIn(env, n, ForList) IN IF v = Empty THEN Unset ELSE v

ForDotenv == {line \in Assignments : Dotenv[line.value] # Unset}

(* What load_dotenv finds in this file for the process that runs it. *)
Loaded(n) ==
  LET v == ValueIn(env, n, ForDotenv) IN IF v = Unset THEN Unset ELSE Dotenv[v]

(* Mutant: a new variable goes to the top of the file. *)
WithSet_OnTop(file, n, v) ==
  LET i == SelectInSeq(file, LAMBDA l : Owns(l, n))
  IN  IF i = 0 THEN <<Plain(n, v)>> \o file ELSE ReplaceAt(file, i, Plain(n, v))

(* set_var's loop: the first line it owns, or a new one at the end. *)
WithSet(file, n, v) ==
  LET i == SelectInSeq(file, LAMBDA l : Owns(l, n))
  IN  IF i = 0 THEN Append(file, Plain(n, v)) ELSE ReplaceAt(file, i, Plain(n, v))

(* unset_var's comprehension: every line it owns goes. *)
WithUnset(file, n) == NotOwned(file, n)

Init ==
  /\ env \in Files
  /\ meta = NoEntries /\ document = "whole"
  /\ tmp = {}
  /\ at = [p \in Procs |-> "idle"]
  /\ command = [p \in Procs |-> NoCommand]
  /\ lines = [p \in Procs |-> <<>>]
  /\ entries = [p \in Procs |-> NoEntries]
  /\ changes = 0
  /\ taken = [n \in Names |-> <<>>]
  /\ alone = [p \in Procs |-> TRUE]
  /\ excused = {n \in Names : Listed(n) # Unset}

-------------------------------------------------------------------------------
(***************************************************************************)
(* One command.  Names and values it refuses are refused before any file   *)
(* is opened and are left out.                                             *)
(***************************************************************************)
Busy == {p \in Procs : at[p] \notin {"idle", "killed"}}

(* The process of p ends; its copies go with it. *)
Leave(p, how) ==
  /\ at' = [at EXCEPT ![p] = how]
  /\ command' = [command EXCEPT ![p] = NoCommand]
  /\ lines' = [lines EXCEPT ![p] = <<>>]
  /\ entries' = [entries EXCEPT ![p] = NoEntries]
  /\ alone' = [alone EXCEPT ![p] = TRUE]

Issue(p, c) ==
  /\ at[p] = "idle"
  /\ changes < MaxChanges
  /\ changes' = changes + 1
  /\ at' = [at EXCEPT ![p] = "reading"]
  /\ command' = [command EXCEPT ![p] = c]
  /\ alone' = [q \in Procs |-> q \notin Busy \cup {p} \/ Busy = {}]
  /\ UNCHANGED <<env, meta, document, tmp, lines, entries, taken, excused>>

(* _read_lines; unset_var gives up here when it owns no line. *)
Read(p) ==
  /\ at[p] = "reading"
  /\ command[p].op = "set" \/ \E i \in DOMAIN env : Owns(env[i], command[p].name)
  /\ lines' = [lines EXCEPT ![p] = env]
  /\ at' = [at EXCEPT ![p] = "writing"]
  /\ UNCHANGED <<env, meta, document, tmp, command, entries, changes, taken,
                 alone, excused>>

(* Nothing to unset, or .env cannot be read. *)
Refuse(p) ==
  /\ at[p] = "reading"
  /\ Leave(p, "idle")
  /\ UNCHANGED <<env, meta, document, tmp, changes, taken, excused>>

(* Mutant: the file itself is opened for writing, and truncated by that. *)
WriteTmp_InPlace(p) ==
  /\ at[p] = "writing"
  /\ env' = <<>>
  /\ at' = [at EXCEPT ![p] = "replacing"]
  /\ UNCHANGED <<meta, document, tmp, command, lines, entries, changes, taken,
                 alone, excused>>

(* _write_atomic: mkstemp and the write into the temporary file... *)
WriteTmp(p) ==
  /\ at[p] = "writing"
  /\ tmp' = tmp \cup {p}
  /\ at' = [at EXCEPT ![p] = "replacing"]
  /\ UNCHANGED <<env, meta, document, command, lines, entries, changes, taken,
                 alone, excused>>

(* Mutant: the exception handler only raises. *)
WriteFails_Litters(p) ==
  /\ at[p] \in {"writing", "replacing"}
  /\ Leave(p, "idle")
  /\ UNCHANGED <<env, meta, document, tmp, changes, taken, excused>>

(* Mutant: the exception is swallowed and the metadata saved all the same. *)
WriteFails_Swallowed(p) ==
  /\ at[p] \in {"writing", "replacing"}
  /\ tmp' = tmp \ {p}
  /\ at' = [at EXCEPT ![p] = "loading"]
  /\ UNCHANGED <<env, meta, document, command, lines, entries, changes, taken,
                 alone, excused>>

(* ... which is removed again when the write or the rename raises. *)
WriteFails(p) ==
  /\ at[p] \in {"writing", "replacing"}
  /\ tmp' = tmp \ {p}
  /\ Leave(p, "idle")
  /\ UNCHANGED <<env, meta, document, changes, taken, excused>>

(* os.replace.  It puts back whatever the process has read. *)
Replace(p) ==
  LET c == command[p]
  IN  /\ at[p] = "replacing"
      /\ env' = IF c.op = "set" THEN WithSet(lines[p], c.name, c.value)
                                ELSE WithUnset(lines[p], c.name)
      /\ tmp' = tmp \ {p}
      /\ at' = [at EXCEPT ![p] = "loading"]
      /\ lines' = [lines EXCEPT ![p] = <<>>]
      /\ taken' = [taken EXCEPT ![c.name] = Append(@, c.value)]
      /\ excused' = IF alone[p] THEN excused ELSE Names
      /\ UNCHANGED <<meta, document, command, entries, changes, alone>>

(* _load_meta: a document that does not parse counts as none. *)
LoadMeta(p) ==
  /\ at[p] = "loading"
  /\ entries' = [entries EXCEPT ![p] = meta]
  /\ at' = [at EXCEPT ![p] = "truncating"]
  /\ UNCHANGED <<env, meta, document, tmp, command, lines, changes, taken,
                 alone, excused>>

(* So does one that cannot be opened. *)
LoadMetaFails(p) ==
  /\ at[p] = "loading"
  /\ at' = [at EXCEPT ![p] = "truncating"]
  /\ excused' = Names
  /\ UNCHANGED <<env, meta, document, tmp, command, lines, entries, changes,
                 taken, alone>>

(* _save_meta: open(meta_path, "w") empties the file... *)
TruncateMeta(p) ==
  /\ at[p] = "truncating"
  /\ meta' = NoEntries /\ document' = "empty"
  /\ at' = [at EXCEPT ![p] = "dumping"]
  /\ UNCHANGED <<env, tmp, command, lines, entries, changes, taken, alone,
                 excused>>

(* Mutant: the last four characters are noted when the key is first set. *)
EntryAfter_NotedOnce(old, c) ==
  IF c.name \in DOMAIN old
  THEN [old[c.name] EXCEPT !.rotated = TRUE]
  ELSE [last4 |-> IF c.name \in Secrets THEN Last4(c.value) ELSE "none", rotated |-> FALSE]

(* set_var's entry; a variable that has one is being rotated. *)
EntryAfter(old, c) ==
  [last4 |-> IF c.name \in Secrets THEN Last4(c.value) ELSE "none",
   rotated |-> c.name \in DOMAIN old]

(* Mutant: an unset variable keeps an entry without contents. *)
EntriesAfter_Cleared(old, c) ==
  [n \in DOMAIN old \cup {c.name} |->
     IF n # c.name THEN old[n]
     ELSE IF c.op = "set" THEN EntryAfter(old, c) ELSE [rotated |-> FALSE]]

EntriesAfter(old, c) ==
  [n \in IF c.op = "set" THEN DOMAIN old \cup {c.name} ELSE DOMAIN old \ {c.name} |->
     IF n = c.name THEN EntryAfter(old, c) ELSE old[n]]

(* ... and json.dump fills it again, from its beginning.  If another       *)
(* command has written in between, the rest of what it wrote may be left   *)
(* behind this document.                                                   *)
DumpMeta(p) ==
  LET c == command[p]
  IN  /\ at[p] = "dumping"
      /\ document' \in IF document = "empty" THEN {"whole"} ELSE {"whole", "part"}
      /\ meta' = IF document' = "part" THEN NoEntries ELSE EntriesAfter(entries[p], c)
      /\ Leave(p, "idle")
      /\ excused' = IF alone[p] THEN excused \ {c.name} ELSE Names
      /\ UNCHANGED <<env, tmp, changes, taken>>

(* What a command leaves in doubt when it stops where it is. *)
InDoubt(p) ==
  CASE at[p] = "dumping"                   -> Names
    [] at[p] \in {"loading", "truncating"} -> {command[p].name}
    [] OTHER                               -> {}

(* A write that stops short may leave half a document. *)
LeaveMeta(p) ==
  \/ UNCHANGED <<meta, document>>
  \/ at[p] = "dumping" /\ meta' = NoEntries /\ document' = "part"

(* The metadata file cannot be opened or written. *)
SaveMetaFails(p) ==
  /\ at[p] \in {"truncating", "dumping"}
  /\ LeaveMeta(p)
  /\ excused' = excused \cup InDoubt(p)
  /\ Leave(p, "idle")
  /\ UNCHANGED <<env, tmp, changes, taken>>

(* Killed, or Ctrl-C, which no handler of this module catches. *)
Kill(p) ==
  /\ p \in Busy
  /\ LeaveMeta(p)
  /\ excused' = excused \cup InDoubt(p)
  /\ Leave(p, "killed")
  /\ UNCHANGED <<env, tmp, changes, taken>>

(* An operator saves .env from an editor: a line is added, or one goes. *)
EditByHand(file) ==
  /\ changes < MaxChanges
  /\ changes' = changes + 1
  /\ env' = file
  /\ excused' = excused \cup {n \in Names : Bindings(file, n) # Bindings(env, n)}
  /\ alone' = [q \in Procs |-> alone[q] /\ q \notin Busy]
  /\ UNCHANGED <<meta, document, tmp, at, command, lines, entries, taken>>

Edited == {Append(env, line) : line \in HandLines} \cup {RemoveAt(env, i) : i \in DOMAIN env}

-------------------------------------------------------------------------------
Step(p) ==
  \/ \E c \in Commands : Issue(p, c)
  \/ Read(p) \/ Refuse(p)
  \/ WriteTmp(p) \/ WriteFails(p) \/ Replace(p)
  \/ LoadMeta(p) \/ LoadMetaFails(p)
  \/ TruncateMeta(p) \/ DumpMeta(p) \/ SaveMetaFails(p)
  \/ Kill(p)

StoreNext ==
  \/ \E p \in Procs : Step(p)
  \/ \E file \in Edited : EditByHand(file)

StoreSpec == Init /\ [][StoreNext]_storeVars

-------------------------------------------------------------------------------
(***************************************************************************)
(* Properties.                                                             *)
(***************************************************************************)
Replaced(p) == at[p] = "replacing" /\ at'[p] = "loading"

(* "Preserves every comment and every line this module does not own": .env *)
(* changes only when it is edited or replaced, and a command that had the  *)
(* file to itself, or at least read what it now replaces, keeps every      *)
(* other line, in order.  No crash, and no failing write, changes          *)
(* anything.  (A command that read an older file puts that one back: what  *)
(* another command or an editor has saved in between is lost.)             *)
OnlyItsOwnLines ==
  [][env' # env /\ changes' = changes =>
       \E p \in Procs :
         /\ Replaced(p)
         /\ alone[p] \/ lines[p] = env =>
              NotOwned(env', command[p].name) = NotOwned(env, command[p].name)]_storeVars

(* What the next load_dotenv finds after a command.  A set counts as what  *)
(* python-dotenv makes of the value, if no other line it reads stands      *)
(* behind.  A value it cannot parse, and an unset, leave nothing to load   *)
(* exactly if no other line for the name is left: if one is, the process   *)
(* that starts next takes an older value for the new one.                  *)
CommandsTakeEffect ==
  [][\A p \in Procs : Replaced(p) =>
       LET c == command[p]
           file == lines[p]
           own == SelectInSeq(file, LAMBDA l : Owns(l, c.name))
           gone == IF c.op = "set" THEN {own} ELSE {i \in DOMAIN file : Owns(file[i], c.name)}
           left == {i \in DOMAIN file \ gone :
                      file[i] \in ForDotenv /\ file[i].name = c.name}
       IN  IF c.op = "set" /\ Dotenv[c.value] # Unset
           THEN (\A i \in left : own = 0 \/ i < own) => Loaded(c.name)' = Dotenv[c.value]
           ELSE (Loaded(c.name)' = Unset) <=> left = {}]_storeVars

(* list_vars and set_var mean different lines by the name: list_vars reads *)
(* one behind the first line set_var takes for its own, or set_var takes   *)
(* none.                                                                   *)
Shadowed(file, n) ==
  \E i \in DOMAIN file :
    /\ file[i] \in ForList /\ file[i].name = n
    /\ \/ \E j \in 1 .. i - 1 : Owns(file[j], n)
       \/ \A j \in DOMAIN file : ~ Owns(file[j], n)

(* "enough to distinguish keys": what list shows of a secret is the tail   *)
(* of the value .env holds, and a variable that is not there has no entry, *)
(* unless an edit by hand, a command cut short, or commands that ran side  *)
(* by side have put it in doubt, or list reads a line that set_var would   *)
(* not write.  One undisturbed command on the variable clears every doubt  *)
(* about it but the last, whatever state it found the files in.            *)
MaskTellsTheKey ==
  document = "whole" =>
    \A n \in Names \ excused :
      ~ Shadowed(env, n) /\ (\A p \in Busy : command[p].name # n) =>
        IF Listed(n) = Unset
        THEN n \notin DOMAIN meta
        ELSE n \in DOMAIN meta /\ (n \in Secrets => meta[n].last4 = Last4(Listed(n)))

(* Even in doubt the metadata never speaks of what was not: the tail is    *)
(* that of a value .env did hold, and a recorded rotation is of a variable *)
(* that was set more than once.                                            *)
MetadataTellsHistory ==
  \A n \in DOMAIN meta :
    /\ n \in Secrets => \E v \in Range(taken[n]) \ {Unset} : meta[n].last4 = Last4(v)
    /\ meta[n].rotated => Cardinality({i \in DOMAIN taken[n] : taken[n][i] # Unset}) > 1

(* "Values live ONLY in .env": a second copy exists only while a command   *)
(* is about to rename it, or after it was killed there.                    *)
NoStrayCopies ==
  \A p \in tmp : at[p] \in {"replacing", "killed"}
================================================================================
