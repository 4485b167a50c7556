--------------------------- MODULE KeyService_proofs ---------------------------
(***************************************************************************)
(* Proofs about the API server and its key.  The server adds nothing to    *)
(* the steps of the configuration store, so what is proved of the store    *)
(* holds beside it; what a restart makes of a rotation rests on it.        *)
(***************************************************************************)
EXTENDS KeyService, ConfigStore_proofs

(* What python-dotenv makes of what the last undisturbed command on Key    *)
(* gave it is what load_dotenv finds.                                      *)
CertainInv ==
  certain => taken[Key] # <<>> /\ Loaded(Key) = Given

LEMMA StoreSteps == [KeyNext]_keyVars => [StoreNext]_storeVars
BY DEF KeyNext, keyVars, StoreStep, Boot, Stop

LEMMA ReplacedOnce ==
  ASSUME Base, [StoreNext]_storeVars,
         NEW p \in Procs, Replaced(p), NEW q \in Procs, Replaced(q)
  PROVE  p = q
<1>1. Replace(p)
  BY ReplacedBy
<1> QED
  BY <1>1 DEF Replace, Replaced, Base, TypeOK

(* Only a rename tells the history of a value. *)
LEMMA TakenBy ==
  ASSUME Base, [StoreNext]_storeVars,
         \A p \in Procs : Replaced(p) => command[p].name # Key
  PROVE  taken'[Key] = taken[Key]
<1>1. taken \in [Names -> Seq(Values \cup {Unset})]
  BY DEF Base, TypeOK
<1>2. ASSUME NEW p \in Procs, Step(p) PROVE taken'[Key] = taken[Key]
  <2>1. CASE Replace(p)
    <3>1. Replaced(p)
      BY <2>1 DEF Replace, Replaced, Base, TypeOK
    <3> QED
      BY <1>1, <2>1, <3>1, KeyAssumption DEF Replace, KeyAssumption
  <2>2. CASE (\E c \in Commands : Issue(p, c)) \/ Read(p) \/ Refuse(p) \/ WriteTmp(p) \/ WriteFails(p)
    BY <2>2 DEF Issue, Read, Refuse, WriteTmp, WriteFails
  <2>3. CASE LoadMeta(p) \/ LoadMetaFails(p) \/ TruncateMeta(p) \/ DumpMeta(p)
             \/ SaveMetaFails(p) \/ Kill(p)
    BY <2>3 DEF LoadMeta, LoadMetaFails, TruncateMeta, DumpMeta, SaveMetaFails, Kill
  <2> QED
    BY <1>2, <2>1, <2>2, <2>3 DEF Step
<1>3. ASSUME NEW file, EditByHand(file) PROVE taken'[Key] = taken[Key]
  BY <1>3 DEF EditByHand
<1> QED
  BY <1>2, <1>3 DEF StoreNext, storeVars

LEMMA LastAppended ==
  ASSUME NEW S, NEW q \in Seq(S), NEW e \in S
  PROVE  Append(q, e) # <<>> /\ Last(Append(q, e)) = e
<1>1. /\ Append(q, e) \in Seq(S) /\ Len(Append(q, e)) = Len(q) + 1 /\ Len(q) \in Nat
      /\ Append(q, e)[Len(q) + 1] = e
  BY AppendProperties, LenProperties
<1>2. Append(q, e) # <<>>
  BY <1>1
<1> QED
  BY <1>1, <1>2 DEF Last

(* Of a file with one line for the name at most, and that one set_var's,   *)
(* no line for it is left behind a command.                                *)
LEMMA OneLine ==
  ASSUME NEW file \in Seq(Lines), NEW n, Len(Bindings(file, n)) <= 1,
         \A i \in DOMAIN file : Binds(file[i], n) => Owns(file[i], n)
  PROVE  \A i \in DOMAIN file : Binds(file[i], n) => i = Spot(file, n)
<1> DEFINE K == {i \in DOMAIN file : Binds(file[i], n)}
<1>1. Owned(file, n) = K
  BY DEF Owned, Owns, Binds, Foreign
<1>2. K \in SUBSET DOMAIN file
  OBVIOUS
<1>3. Bindings(file, n) = Selected(file, K)
  BY DEF Bindings
<1> HIDE DEF K
<1>4. IsFiniteSet(K) /\ Len(Selected(file, K)) = Cardinality(K) /\ K \in SUBSET Nat
  BY <1>2, SelectedLines
<1>5. \A i, j \in K : i = j
  <2>1. Cardinality(K) \in Nat /\ Cardinality(K) <= 1
    BY <1>3, <1>4, FS_CardinalityType
  <2>2. Cardinality(K) = 0 \/ Cardinality(K) = 1
    BY <2>1
  <2> QED
    BY <1>4, <2>2, FS_EmptySet, FS_Singleton
<1>6. ASSUME NEW i \in K PROVE i = Spot(file, n)
  BY <1>1, <1>5, SpotIsFirst
<1> QED
  BY <1>6 DEF K

(* The command that makes the key certain leaves its value to be loaded. *)
LEMMA CertainReplace ==
  ASSUME Base, Base', [StoreNext]_storeVars,
         NEW p \in Procs, Replaced(p), command[p].name = Key,
         Len(Bindings(lines[p], Key)) <= 1,
         \A i \in DOMAIN lines[p] : Binds(lines[p][i], Key) => Owns(lines[p][i], Key)
  PROVE  taken'[Key] # <<>> /\ Loaded(Key)' = Given'
<1> DEFINE c == command[p]
           file == lines[p]
           own == SelectInSeq(file, LAMBDA l : Owns(l, c.name))
           gone == IF c.op = "set" THEN {own} ELSE {i \in DOMAIN file : Owns(file[i], c.name)}
           left == {i \in DOMAIN file \ gone :
                      file[i] \in ForDotenv /\ file[i].name = c.name}
<1>1. Replace(p)
  BY ReplacedBy
<1>2. command[p] \in Commands /\ lines[p] \in Seq(Lines) /\ command'[p] = command[p]
  BY <1>1 DEF Replace, Base, Commanded, TypeOK, Busy
<1>3. taken'[Key] = Append(taken[Key], c.value)
  BY <1>1, KeyAssumption DEF Replace, KeyAssumption, Base, TypeOK
<1>4. taken[Key] \in Seq(TakenValues) /\ c.value \in TakenValues
  BY <1>2, CommandFacts, KeyAssumption DEF KeyAssumption, Base, TypeOK, TakenValues
<1>5. taken'[Key] # <<>> /\ Last(taken'[Key]) = c.value
  BY <1>3, <1>4, LastAppended
<1>6. Given' = IF c.value = Unset THEN Unset ELSE Dotenv[c.value]
  BY <1>5 DEF Given
<1>7. left = {}
  <2>1. \A i \in DOMAIN file : file[i] \in ForDotenv /\ file[i].name = c.name =>
          Binds(file[i], Key)
    BY DEF ForDotenv, Assignments, Binds, Foreign
  <2>2. \A i \in DOMAIN file : Binds(file[i], Key) => i = Spot(file, Key)
    BY <1>2, OneLine
  <2>3. own = Spot(file, Key)
    BY DEF Spot
  <2> QED
    BY <2>1, <2>2, <2>3
<1>8. IF c.op = "set" /\ Dotenv[c.value] # Unset
      THEN (\A i \in left : own = 0 \/ i < own) => Loaded(c.name)' = Dotenv[c.value]
      ELSE (Loaded(c.name)' = Unset) <=> left = {}
  BY EffectStep
<1>9. Loaded(c.name)' = Loaded(Key)'
  BY <1>2 DEF Loaded
<1> HIDE DEF left, own, gone
<1>10. CASE c.op = "set"
  <2>1. c.value # Unset
    BY <1>2, <1>10, CommandFacts, UnsetAssumption DEF UnsetAssumption
  <2> QED
    BY <1>5, <1>6, <1>7, <1>8, <1>9, <1>10, <2>1
<1>11. CASE c.op # "set"
  <2>1. c.value = Unset
    BY <1>2, <1>11, CommandFacts
  <2> QED
    BY <1>5, <1>6, <1>7, <1>8, <1>9, <1>11, <2>1
<1> QED
  BY <1>10, <1>11

(* No other step of the store disturbs it. *)
LEMMA CertainKept ==
  ASSUME Base, Base', MaskInv, [StoreNext]_storeVars,
         \A p \in Procs : Replaced(p) => command[p].name # Key /\ alone[p],
         changes' # changes => Bindings(env', Key) = Bindings(env, Key)
  PROVE  taken'[Key] = taken[Key] /\ Loaded(Key)' = Loaded(Key)
<1>1. taken'[Key] = taken[Key]
  BY TakenBy
<1>2. env \in Seq(Lines) /\ env' \in Seq(Lines) /\ ForDotenv \in SUBSET Assignments
  BY HeededSets DEF Base, TypeOK
<1>3. ValueIn(env', Key, ForDotenv) = ValueIn(env, Key, ForDotenv)
  <2>1. CASE env' = env
    BY <2>1
  <2>2. CASE changes' # changes
    BY <1>2, <2>2, BindingsDecide
  <2>3. CASE env' # env /\ changes' = changes
    <3>1. PICK p \in Procs : Replaced(p)
      BY <2>3, OwnLinesStep
    <3>2. Replace(p) /\ p \in Busy
      BY <3>1, ReplacedBy DEF Replace, Busy
    <3>3. lines[p] = env /\ command[p] \in Commands /\ Key # command[p].name
      BY <3>1, <3>2 DEF MaskInv, SoloCopies, Base, Commanded, Replace
    <3>4. command[p].name \in Names /\ (command[p].op = "set" => command[p].value \in Values)
      BY <3>3, CommandFacts
    <3>5. CASE command[p].op = "set"
      <4>1. env' = WithSet(env, command[p].name, command[p].value)
        BY <3>2, <3>3, <3>5 DEF Replace
      <4> QED
        BY <1>2, <3>3, <3>4, <3>5, <4>1, SetEffect, KeyAssumption DEF KeyAssumption
    <3>6. CASE command[p].op # "set"
      <4>1. env' = WithUnset(env, command[p].name)
        BY <3>2, <3>3, <3>6 DEF Replace
      <4> QED
        BY <1>2, <3>3, <3>4, <4>1, UnsetEffect, KeyAssumption DEF KeyAssumption
    <3> QED
      BY <3>5, <3>6
  <2> QED
    BY <2>1, <2>2, <2>3
<1> QED
  BY <1>1, <1>3 DEF Loaded

LEMMA CertainNext ==
  StoreInv /\ StoreInv' /\ CertainInv /\ [KeyNext]_keyVars => CertainInv'
<1> SUFFICES ASSUME StoreInv, StoreInv', CertainInv, [KeyNext]_keyVars, certain'
             PROVE  taken'[Key] # <<>> /\ Loaded(Key)' = Given'
  BY DEF CertainInv
<1>1. [StoreNext]_storeVars
  BY StoreSteps
<1>2. CASE StoreStep
  <2>1. CertainAfter
    BY <1>2 DEF StoreStep
  <2>2. CASE \E p \in Procs : Replaced(p) /\ command[p].name = Key
    <3>1. PICK p \in Procs : Replaced(p) /\ command[p].name = Key
      BY <2>2
    <3>2. PICK q \in Procs :
            /\ Replaced(q) /\ alone[q]
            /\ Len(Bindings(lines[q], Key)) <= 1
            /\ \A i \in DOMAIN lines[q] : Binds(lines[q][i], Key) => Owns(lines[q][i], Key)
      BY <2>1, <2>2 DEF CertainAfter
    <3>3. p = q
      BY <1>1, <3>1, <3>2, ReplacedOnce DEF StoreInv
    <3> QED
      BY <1>1, <3>1, <3>2, <3>3, CertainReplace DEF StoreInv
  <2>3. CASE ~ \E p \in Procs : Replaced(p) /\ command[p].name = Key
    <3>1. /\ certain /\ \A p \in Procs : Replaced(p) => alone[p]
          /\ changes' # changes => Bindings(env', Key) = Bindings(env, Key)
      BY <2>1, <2>3 DEF CertainAfter
    <3>2. taken'[Key] = taken[Key] /\ Loaded(Key)' = Loaded(Key)
      BY <1>1, <2>3, <3>1, CertainKept DEF StoreInv
    <3> QED
      BY <3>1, <3>2 DEF CertainInv, Given
  <2> QED
    BY <2>2, <2>3
<1>3. CASE ~ StoreStep
  <2>1. certain' = certain /\ UNCHANGED <<env, taken>>
    BY <1>3 DEF KeyNext, Boot, Stop, keyVars, storeVars
  <2> QED
    BY <2>1 DEF CertainInv, Loaded, Given
<1> QED
  BY <1>2, <1>3

(* The model of the server has no step of its own on the store, so every   *)
(* theorem about the store holds of the two together.                      *)
LEMMA ServerOnlyReads == KeySpec => StoreSpec
<1>1. KeyInit => Init
  BY DEF KeyInit
<1> QED
  BY <1>1, StoreSteps, PTL DEF KeySpec, StoreSpec

LEMMA CertainInductive == KeySpec => [](StoreInv /\ CertainInv)
<1>1. KeyInit => CertainInv
  BY DEF KeyInit, CertainInv
<1> QED
  BY <1>1, CertainNext, ServerOnlyReads, StoreInvInductive, PTL DEF KeySpec

(* What a server that starts where it finds .env answers. *)
LEMMA BootServes ==
  ASSUME StoreInv, CertainInv, Boot(Unset, TRUE), certain, NEW header
  PROVE  Answer(header)' = 200 <=> header = Given /\ Given \notin Useless
<1>1. taken[Key] \in Seq(TakenValues) /\ taken[Key] # <<>> /\ Loaded(Key) = Given
  BY KeyAssumption DEF KeyAssumption, StoreInv, Base, TypeOK, CertainInv, TakenValues
<1>2. Given # Missing
  <2>1. Last(taken[Key]) \in TakenValues
    <3>1. Len(taken[Key]) \in Nat /\ Len(taken[Key]) # 0
      BY <1>1, LenProperties, EmptySeq
    <3> QED
      BY <1>1, <3>1, ElementOfSeq DEF Last
  <2>2. CASE Last(taken[Key]) = Unset
    BY <2>2 DEF Given, Unset, Missing
  <2>3. CASE Last(taken[Key]) # Unset
    <3>1. Last(taken[Key]) \in DOMAIN Dotenv
      BY <2>1, <2>3, DotenvAssumption DEF TakenValues, DotenvAssumption
    <3> QED
      BY <2>3, <3>1, HeadersAssumption DEF HeadersAssumption, Given
  <2> QED
    BY <2>2, <2>3
<1>3. environ' = IF Given # Unset THEN Given ELSE Empty
  BY <1>1 DEF Boot, EnvironAtBoot
<1> DEFINE key == Given
           booted == environ'
<1> HIDE DEF key, booted
<1>4. Answer(header)' = IF booted = Empty THEN 503
                        ELSE IF header = Missing THEN 401
                        ELSE IF {booted, header} \cap NonAscii # {} THEN 500
                        ELSE IF booted # header THEN 401 ELSE 200
  BY DEF Answer, booted
<1>5. booted = IF key # Unset THEN key ELSE Empty
  BY <1>3 DEF key, booted
<1>6. Answer(header)' = 200 <=> header = key /\ key \notin {Unset, Empty} \cup NonAscii
  <2>1. CASE key \in {Unset, Empty}
    BY <1>4, <1>5, <2>1
  <2>2. CASE key \notin {Unset, Empty} /\ header = key
    BY <1>2, <1>4, <1>5, <2>2 DEF key
  <2>3. CASE key \notin {Unset, Empty} /\ header # key
    BY <1>4, <1>5, <2>3
  <2> QED
    BY <2>1, <2>2, <2>3
<1> QED
  BY <1>6 DEF key, Useless

(* require_api_key after a restart that finds the file: whatever happened  *)
(* between an undisturbed command on the key and the restart, a client is  *)
(* served if and only if it sends what python-dotenv makes of the new key, *)
(* and that is a key one can authenticate with.                            *)
THEOREM RestartServesTheNewKey == KeySpec => RestartCompletesRotation
<1>1. StoreInv /\ CertainInv /\ [KeyNext]_keyVars =>
        [Boot(Unset, TRUE) /\ certain =>
           \A header \in Headers \cup {Missing} :
             Answer(header)' = 200 <=> header = Given /\ Given \notin Useless]_keyVars
  BY BootServes
<1> QED
  BY <1>1, CertainInductive, PTL DEF KeySpec, RestartCompletesRotation
================================================================================
