------------------------ MODULE ExtractionEngine_proofs ------------------------
(***************************************************************************)
(* Proofs about ExtractionEngine, for every bound on the input and on the  *)
(* runs and every check interval.                                          *)
(***************************************************************************)
EXTENDS ExtractionEngine, TLAPS

-------------------------------------------------------------------------------
(* Facts about sequences of rows. *)

(* Writing the row of a later line keeps the rows in order. *)
LEMMA RowAppended ==
  ASSUME NEW s \in Seq(Nat), NEW L, NEW x \in Nat,
         Holds(s, L), \A y \in L : y < x
  PROVE  Holds(Append(s, x), L \cup {x})
<1>1. /\ DOMAIN Append(s, x) = DOMAIN s \cup {Len(s) + 1}
      /\ \A i \in DOMAIN s : Append(s, x)[i] = s[i] /\ i < Len(s) + 1
      /\ Append(s, x)[Len(s) + 1] = x
      /\ DOMAIN s \subseteq Nat /\ Len(s) \in Nat
  OBVIOUS
<1>2. \A i \in DOMAIN s : s[i] \in L
  BY DEF Holds
<1>3. InOrder(Append(s, x))
  BY <1>1, <1>2 DEF Holds, InOrder
<1>4. {Append(s, x)[i] : i \in DOMAIN Append(s, x)} = L \cup {x}
  BY <1>1 DEF Holds
<1> QED
  BY <1>3, <1>4 DEF Holds

(* What is left of the rows after a loss at the end are the rows of the    *)
(* lines up to some earlier one.                                           *)
LEMMA PrefixHolds ==
  ASSUME NEW s \in Seq(Nat), NEW n \in Nat, NEW L \in SUBSET (1 .. n), Holds(s, L),
         NEW t \in Seq(Nat), Len(t) <= Len(s), \A i \in 1 .. Len(t) : t[i] = s[i]
  PROVE  \E m \in 0 .. n : Holds(t, L \cap (1 .. m))
<1> DEFINE m == IF t = <<>> THEN 0 ELSE t[Len(t)]
<1>1. /\ DOMAIN s = 1 .. Len(s) /\ DOMAIN t = 1 .. Len(t)
      /\ Len(s) \in Nat /\ Len(t) \in Nat
      /\ t # <<>> => Len(t) \in DOMAIN t
  OBVIOUS
<1>2. \A i \in DOMAIN t : i \in DOMAIN s /\ t[i] = s[i] /\ t[i] \in L
  BY <1>1 DEF Holds
<1>3. m \in 0 .. n
  BY <1>1, <1>2
<1>4. InOrder(t)
  BY <1>1, <1>2 DEF Holds, InOrder
<1>5. \A i \in DOMAIN t : t[i] \in 1 .. m
  <2> SUFFICES ASSUME NEW i \in DOMAIN t PROVE t[i] \in 1 .. m
    OBVIOUS
  <2>1. t # <<>> /\ t[i] \in 1 .. n /\ m = t[Len(t)]
    BY <1>1, <1>2
  <2>2. i <= Len(t) /\ i \in Nat
    BY <1>1
  <2>3. i < Len(t) => t[i] < t[Len(t)]
    BY <1>1, <1>4, <2>1 DEF InOrder
  <2>4. t[i] <= m
    BY <1>1, <1>3, <2>1, <2>2, <2>3
  <2> QED
    BY <1>3, <2>1, <2>4
<1>6. ASSUME NEW y \in L \cap (1 .. m) PROVE \E i \in DOMAIN t : t[i] = y
  <2>1. t # <<>> /\ m = t[Len(t)] /\ y <= m
    OBVIOUS
  <2>2. PICK i \in DOMAIN s : s[i] = y
    BY DEF Holds
  <2>3. Len(t) \in DOMAIN s /\ s[Len(t)] = m
    BY <1>1, <1>2, <2>1
  <2>4. i <= Len(t)
    <3> SUFFICES ASSUME i > Len(t) PROVE FALSE
      BY <1>1, <2>2
    <3>1. m < y
      BY <2>2, <2>3 DEF Holds, InOrder
    <3> QED
      BY <2>1, <3>1, <1>3
  <2>5. i \in DOMAIN t
    BY <1>1, <2>2, <2>4
  <2> QED
    BY <1>2, <2>2, <2>5
<1>7. {t[i] : i \in DOMAIN t} = L \cap (1 .. m)
  BY <1>2, <1>5, <1>6
<1> QED
  BY <1>3, <1>4, <1>7 DEF Holds

(* Flushing the buffer, in part or with one more row, moves rows only.     *)
LEMMA RowsMoved ==
  ASSUME NEW a \in Seq(Nat), NEW b \in Seq(Nat)
  PROVE  /\ a \o b \in Seq(Nat)
         /\ a \o <<>> = a
         /\ \A x \in Nat : a \o Append(b, x) = Append(a \o b, x)
         /\ \A k \in 0 .. Len(b) :
              /\ a \o SubSeq(b, 1, k) \in Seq(Nat)
              /\ Len(a \o SubSeq(b, 1, k)) <= Len(a \o b)
              /\ \A i \in 1 .. Len(a \o SubSeq(b, 1, k)) :
                   (a \o SubSeq(b, 1, k))[i] = (a \o b)[i]
OBVIOUS

(* Reading one more line. *)
LEMMA RecordsGrow ==
  ASSUME NEW n \in Nat
  PROVE  /\ RecordsUpTo(n) \in SUBSET (1 .. n)
         /\ \A m \in 0 .. n : RecordsUpTo(n) \cap (1 .. m) = RecordsUpTo(m)
         /\ input[n + 1] = "record" => RecordsUpTo(n + 1) = RecordsUpTo(n) \cup {n + 1}
         /\ input[n + 1] # "record" => RecordsUpTo(n + 1) = RecordsUpTo(n)
BY DEF RecordsUpTo

-------------------------------------------------------------------------------
(***************************************************************************)
(* The inductive invariant: wherever the run is, the rows saved and the    *)
(* rows pending are together the records of the lines read.                *)
(***************************************************************************)
Written == saved \o pending

(* The run is on its normal path, between the opened writer and the end.   *)
OnCourse == pc \in {"reading", "checkpoint", "closing", "closed", "returned"}

NotBegun == pc \in {"idle", "opening", "refused", "not_found"}

Counted ==
  OnCourse => /\ Holds(Written, RecordsUpTo(total))
              /\ matched = Len(Written)
              /\ total = matched + skipped
              /\ kept = IF Transactional THEN before ELSE <<>>

Untouched ==
  NotBegun => /\ saved = <<>> /\ pending = <<>> /\ kept = before
              /\ total = 0 /\ matched = 0 /\ skipped = 0

NothingPending == pc \in Ends \cup {"closed"} => pending = <<>>

NoHoles == \E n \in 0 .. total : Holds(Written, RecordsUpTo(n))

Earlier ==
  IF Transactional THEN kept = before
  ELSE kept # <<>> => kept = before /\ saved = <<>> /\ pc # "unwinding"

Committed ==
  Transactional /\ saved # <<>> =>
    pc \in {"closed", "returned", "raised", "killed"} /\ Holds(saved, RecordsUpTo(total))

EInv ==
  /\ TypeOK /\ total <= Len(input)
  /\ Counted /\ Untouched /\ NothingPending /\ NoHoles /\ Earlier /\ Committed

-------------------------------------------------------------------------------
(* Steps that only move the program counter. *)
MovesOnly ==
  \/ InputUnavailable \/ Refuse \/ Accept \/ OpenFails \/ DecodeFails
  \/ Checkpoint \/ EndOfInput \/ CloseFails \/ Return \/ Interrupt

(* The sequence variables are typed again whatever a step does to them.    *)
LEMMA RowsTyped ==
  ASSUME TypeOK, Next
  PROVE  kept' \in Seq(Nat) /\ saved' \in Seq(Nat) /\ pending' \in Seq(Nat)
<1> USE DEF TypeOK
<1>0. <<>> \in Seq(Nat)
  OBVIOUS
<1>1. CASE WriteRecord
  <2>1. Current \in Nat
    BY DEF Current
  <2>2. Append(pending, Current) \in Seq(Nat)
    BY <2>1
  <2>3. saved \o Append(pending, Current) \in Seq(Nat)
    BY <2>2, RowsMoved
  <2>4. kept' = kept
    BY <1>1 DEF WriteRecord
  <2>5. \/ pending' = Append(pending, Current) /\ saved' = saved
        \/ pending' = <<>> /\ saved' = saved \o Append(pending, Current)
    BY <1>1 DEF WriteRecord
  <2> QED
    BY <1>0, <2>2, <2>3, <2>4, <2>5
<1>2. CASE WriteFails
  <2>1. Current \in Nat /\ Append(pending, Current) \in Seq(Nat)
    BY DEF Current
  <2> QED
    BY <1>2, <2>1 DEF WriteFails, rows
<1>3. CASE Unwind
  <2>1. kept' = kept /\ pending' = <<>>
    BY <1>3 DEF Unwind
  <2>2. \/ saved' = saved
        \/ \E n \in 0 .. Len(pending) : saved' = saved \o SubSeq(pending, 1, n)
    BY <1>3 DEF Unwind
  <2>3. \A n \in 0 .. Len(pending) : saved \o SubSeq(pending, 1, n) \in Seq(Nat)
    BY RowsMoved
  <2>4. saved' \in Seq(Nat)
    BY <2>2, <2>3
  <2> QED
    BY <1>0, <2>1, <2>4
<1>4. CASE CloseWriter
  BY <1>0, <1>4, RowsMoved DEF CloseWriter
<1>5. CASE Rerun
  BY <1>0, <1>5, RowsMoved DEF Rerun, Content
<1>6. CASE OpenWriter \/ Kill
  <2>1. kept' \in {kept, <<>>} /\ saved' = saved /\ pending' \in {pending, <<>>}
    BY <1>6 DEF OpenWriter, Kill
  <2> QED
    BY <1>0, <2>1
<1>7. CASE MovesOnly \/ SkipLine \/ DiskChanges \/ Terminated
  BY <1>7 DEF MovesOnly, InputUnavailable, Refuse, Accept, OpenFails, DecodeFails, Checkpoint,
              EndOfInput, CloseFails, Return, Interrupt, SkipLine, DiskChanges, Terminated,
              rows, vars
<1> QED
  BY <1>1, <1>2, <1>3, <1>4, <1>5, <1>6, <1>7 DEF Next, MovesOnly

LEMMA TypeInit == Init => TypeOK
<1> SUFFICES ASSUME Init PROVE TypeOK
  OBVIOUS
<1>1. input \in Seq(Kinds)
  <2>1. PICK n \in 0 .. MaxLines : input \in [1 .. n -> Kinds]
    BY ExtractionAssumption DEF Init, InputsOf, Inputs
  <2> QED
    BY <2>1, ExtractionAssumption DEF ExtractionAssumption
<1>2. <<caller, format>> \in Calls
  BY DEF Init, Calls
<1> QED
  BY <1>1, <1>2, ExtractionAssumption DEF Init, TypeOK, Steps, ExtractionAssumption

LEMMA TypeStep == TypeOK /\ [Next]_vars => TypeOK'
<1> SUFFICES ASSUME TypeOK, [Next]_vars PROVE TypeOK'
  OBVIOUS
<1>1. CASE UNCHANGED vars
  BY <1>1 DEF TypeOK, vars
<1>2. CASE Next
  <2>1. kept' \in Seq(Nat) /\ saved' \in Seq(Nat) /\ pending' \in Seq(Nat)
    BY <1>2, RowsTyped
  <2> USE DEF TypeOK, given, counters, history
  <2>3. CASE InputUnavailable
    BY <2>1, <2>3 DEF InputUnavailable, Ends, Steps
  <2>4. CASE Refuse
    BY <2>1, <2>4 DEF Refuse, Ends, Steps
  <2>5. CASE Accept
    BY <2>1, <2>5 DEF Accept, Ends, Steps
  <2>6. CASE OpenFails
    BY <2>1, <2>6 DEF OpenFails, Ends, Steps
  <2>7. CASE OpenWriter
    BY <2>1, <2>7 DEF OpenWriter, Ends, Steps
  <2>8. CASE SkipLine
    BY <2>1, <2>8 DEF SkipLine, Ends, Steps
  <2>9. CASE WriteRecord
    BY <2>1, <2>9 DEF WriteRecord, Ends, Steps
  <2>10. CASE WriteFails
    BY <2>1, <2>10 DEF WriteFails, Ends, Steps
  <2>11. CASE DecodeFails
    BY <2>1, <2>11 DEF DecodeFails, Ends, Steps
  <2>12. CASE Checkpoint
    BY <2>1, <2>12 DEF Checkpoint, Ends, Steps
  <2>13. CASE EndOfInput
    BY <2>1, <2>13 DEF EndOfInput, Ends, Steps
  <2>14. CASE CloseWriter
    BY <2>1, <2>14 DEF CloseWriter, Ends, Steps
  <2>15. CASE CloseFails
    BY <2>1, <2>15 DEF CloseFails, Ends, Steps
  <2>16. CASE Return
    BY <2>1, <2>16 DEF Return, Ends, Steps
  <2>17. CASE Interrupt
    BY <2>1, <2>17 DEF Interrupt, Ends, Steps
  <2>18. CASE Unwind
    BY <2>1, <2>18 DEF Unwind, Ends, Steps
  <2>19. CASE Kill
    BY <2>1, <2>19 DEF Kill, Ends, Steps
  <2>20. CASE DiskChanges
    BY <2>1, <2>20 DEF DiskChanges, Ends, Steps
  <2>21. CASE Rerun
    <3>1. before' = kept' /\ runs' \in 1 .. MaxRuns
      BY <2>21, ExtractionAssumption DEF Rerun, ExtractionAssumption
    <3> QED
      BY <2>1, <2>21, <3>1 DEF Rerun, Steps
  <2>22. CASE Terminated
    BY <2>1, <2>22 DEF Terminated, vars
  <2> QED
    BY <1>2, <2>3, <2>4, <2>5, <2>6, <2>7, <2>8, <2>9, <2>10, <2>11, <2>12,
       <2>13, <2>14, <2>15, <2>16, <2>17, <2>18, <2>19, <2>20, <2>21, <2>22 DEF Next
<1> QED
  BY <1>1, <1>2

(* Every variable keeps its type, whatever fails and however often the     *)
(* command is run again.                                                   *)
THEOREM TypeCorrect == Spec => []TypeOK
BY TypeInit, TypeStep, PTL DEF Spec

-------------------------------------------------------------------------------
(* The input and the format are those of the first run. *)
LEMMA GivenStable ==
  ASSUME [Next]_vars
  PROVE  /\ input' = input /\ format' = format /\ caller' = caller
         /\ Transactional' = Transactional
         /\ \A n : RecordsUpTo(n)' = RecordsUpTo(n)
<1>1. input' = input /\ format' = format /\ caller' = caller
  BY DEF Next, vars, given, InputUnavailable, Refuse, Accept, OpenFails, OpenWriter, SkipLine,
         WriteRecord, WriteFails, DecodeFails, Checkpoint, EndOfInput, CloseWriter, CloseFails,
         Return, Interrupt, Unwind, Kill, DiskChanges, Rerun, Terminated
<1> QED
  BY <1>1 DEF Transactional, RecordsUpTo

(* No row has been written: the records of no line. *)
LEMMA NoRowsYet == Holds(<<>>, RecordsUpTo(0))
BY DEF Holds, InOrder, RecordsUpTo

LEMMA InitEInv == Init => EInv
<1> SUFFICES ASSUME Init PROVE EInv
  OBVIOUS
<1>1. TypeOK
  BY TypeInit
<1>2. Written = <<>> /\ saved = <<>> /\ kept = before
  BY DEF Init, Written
<1>3. total = 0 /\ 0 \in 0 .. total /\ total <= Len(input)
  BY <1>1 DEF Init, TypeOK
<1>4. NoHoles
  BY <1>2, <1>3, NoRowsYet DEF NoHoles
<1> QED
  BY <1>1, <1>2, <1>3, <1>4
     DEF Init, EInv, Counted, Untouched, NothingPending, Earlier, Committed, OnCourse, Ends

(* A step that changes neither rows nor counters, and moves the program    *)
(* counter along one of these edges, keeps the invariant.                  *)
LEMMA MoveKeeps ==
  ASSUME EInv, MovesOnly
  PROVE  EInv'
<1>1. UNCHANGED <<total, matched, skipped, kept, saved, pending, before>>
  BY DEF MovesOnly, InputUnavailable, Refuse, Accept, OpenFails, DecodeFails, Checkpoint,
         EndOfInput, CloseFails, Return, Interrupt, counters, rows, history
<1>2. Next
  BY DEF MovesOnly, Next
<1>3. TypeOK'
  BY <1>2, TypeStep DEF EInv
<1>4. Written' = Written /\ Transactional' = Transactional /\ input' = input
  BY <1>1, <1>2, GivenStable DEF Written
<1>5. \A n : RecordsUpTo(n)' = RecordsUpTo(n)
  BY <1>2, GivenStable
<1>6. /\ OnCourse' => OnCourse
      /\ NotBegun' => NotBegun
      /\ pc' \in Ends \cup {"closed"} => pc \in {"idle", "opening", "closed"}
      /\ pc' = "unwinding" => pc \in {"reading", "checkpoint", "closing"}
      /\ pc \notin {"returned", "raised", "killed"}
      /\ pc = "closed" => pc' \in {"returned", "raised"}
  BY DEF MovesOnly, InputUnavailable, Refuse, Accept, OpenFails, DecodeFails, Checkpoint,
         EndOfInput, CloseFails, Return, Interrupt, OnCourse, NotBegun, Ends
<1>7. Counted' /\ Untouched'
  BY <1>1, <1>4, <1>5, <1>6 DEF EInv, Counted, Untouched
<1>8. NothingPending'
  BY <1>1, <1>6 DEF EInv, NothingPending, Untouched, NotBegun
<1>9. NoHoles'
  BY <1>1, <1>4, <1>5 DEF EInv, NoHoles
<1>10. Earlier' /\ Committed'
  BY <1>1, <1>4, <1>5, <1>6
     DEF EInv, Earlier, Committed, Counted, Untouched, OnCourse, NotBegun
<1>11. (total <= Len(input))'
  BY <1>1, <1>4 DEF EInv
<1> QED
  BY <1>3, <1>7, <1>8, <1>9, <1>10, <1>11 DEF EInv

(* Reading a line without a record changes no row. *)
LEMMA SkipKeeps ==
  ASSUME EInv, SkipLine
  PROVE  EInv'
<1>1. /\ pc = "reading" /\ pc' = pc /\ total < Len(input) /\ input[total + 1] = "noise"
      /\ total' = total + 1 /\ matched' = matched /\ skipped' = skipped + 1
      /\ UNCHANGED <<kept, saved, pending, before>>
  BY DEF SkipLine, Reads, Current, rows, history
<1>2. Next
  BY DEF Next
<1>3. TypeOK' /\ total \in Nat /\ matched \in Nat /\ skipped \in Nat /\ Len(input) \in Nat
  BY <1>2, TypeStep DEF EInv, TypeOK
<1>4. Written' = Written /\ Transactional' = Transactional /\ input' = input
  BY <1>1, <1>2, GivenStable DEF Written
<1>5. RecordsUpTo(total)' = RecordsUpTo(total)
  <2>1. RecordsUpTo(total)' = RecordsUpTo(total + 1)
    BY <1>1, <1>4 DEF RecordsUpTo
  <2> QED
    BY <1>1, <1>3, <2>1, RecordsGrow
<1>6. Holds(Written, RecordsUpTo(total))'
  <2>1. Holds(Written, RecordsUpTo(total))
    BY <1>1 DEF EInv, Counted, OnCourse
  <2> QED
    BY <1>4, <1>5, <2>1
<1>7. Counted' /\ Untouched' /\ NothingPending'
  BY <1>1, <1>3, <1>4, <1>6
     DEF EInv, Counted, Untouched, NothingPending, OnCourse, NotBegun, Ends
<1>8. NoHoles'
  BY <1>1, <1>3, <1>6 DEF NoHoles
<1>9. Earlier' /\ Committed'
  BY <1>1, <1>4 DEF EInv, Earlier, Committed, NotBegun
<1>10. (total <= Len(input))'
  BY <1>1, <1>3, <1>4
<1> QED
  BY <1>3, <1>7, <1>8, <1>9, <1>10 DEF EInv

(* A new row comes after all others, in the buffer or with it in the file. *)
LEMMA WriteKeeps ==
  ASSUME EInv, WriteRecord
  PROVE  EInv'
<1>1. /\ pc = "reading" /\ pc' \in {"reading", "checkpoint"}
      /\ total < Len(input) /\ input[total + 1] = "record"
      /\ total' = total + 1 /\ matched' = matched + 1 /\ skipped' = skipped
      /\ UNCHANGED <<kept, before>>
  BY DEF WriteRecord, Reads, Current, history
<1>2. \/ pending' = Append(pending, total + 1) /\ saved' = saved
      \/ ~ Transactional /\ pending' = <<>> /\ saved' = saved \o Append(pending, total + 1)
  BY DEF WriteRecord, Current
<1>3. Next
  BY DEF Next
<1>4. TypeOK' /\ total \in Nat /\ matched \in Nat /\ skipped \in Nat /\ Len(input) \in Nat
      /\ saved \in Seq(Nat) /\ pending \in Seq(Nat)
  BY <1>3, TypeStep DEF EInv, TypeOK
<1>5. Transactional' = Transactional /\ input' = input
  BY <1>3, GivenStable
<1>6. Written \in Seq(Nat) /\ Append(pending, total + 1) \in Seq(Nat)
  BY <1>4, RowsMoved DEF Written
<1>7. Written' = Append(Written, total + 1)
  <2>1. saved \o Append(pending, total + 1) = Append(saved \o pending, total + 1)
    BY <1>4, RowsMoved
  <2>2. (saved \o Append(pending, total + 1)) \o <<>> = saved \o Append(pending, total + 1)
    BY <1>4, <1>6, RowsMoved
  <2> QED
    BY <1>2, <2>1, <2>2 DEF Written
<1>8. RecordsUpTo(total)' = RecordsUpTo(total) \cup {total + 1}
  <2>1. RecordsUpTo(total)' = RecordsUpTo(total + 1)
    BY <1>1, <1>5 DEF RecordsUpTo
  <2> QED
    BY <1>1, <1>4, <2>1, RecordsGrow
<1>9. Holds(Written, RecordsUpTo(total))'
  <2>1. Holds(Written, RecordsUpTo(total))
    BY <1>1 DEF EInv, Counted, OnCourse
  <2>2. \A y \in RecordsUpTo(total) : y < total + 1
    BY <1>4 DEF RecordsUpTo
  <2>3. Holds(Append(Written, total + 1), RecordsUpTo(total) \cup {total + 1})
    BY <1>4, <1>6, <2>1, <2>2, RowAppended
  <2> QED
    BY <1>7, <1>8, <2>3
<1>10. Len(Written') = Len(Written) + 1
  BY <1>6, <1>7
<1>11. Counted' /\ Untouched' /\ NothingPending'
  BY <1>1, <1>4, <1>5, <1>9, <1>10
     DEF EInv, Counted, Untouched, NothingPending, OnCourse, NotBegun, Ends
<1>12. NoHoles'
  BY <1>1, <1>4, <1>9 DEF NoHoles
<1>13. Earlier' /\ Committed'
  BY <1>1, <1>2, <1>5 DEF EInv, Earlier, Committed, Counted, OnCourse
<1>14. (total <= Len(input))'
  BY <1>1, <1>4, <1>5
<1> QED
  BY <1>4, <1>11, <1>12, <1>13, <1>14 DEF EInv

(* A row whose write failed may stay in the buffer, as the last one. *)
LEMMA WriteFailsKeeps ==
  ASSUME EInv, WriteFails
  PROVE  EInv'
<1>1. /\ pc = "reading" /\ pc' = "unwinding"
      /\ total < Len(input) /\ input[total + 1] = "record"
      /\ total' = total + 1
      /\ UNCHANGED <<kept, saved, before>>
      /\ pending' \in {pending, Append(pending, total + 1)}
  BY DEF WriteFails, Reads, Current, history
<1>2. Next
  BY DEF Next
<1>3. TypeOK' /\ total \in Nat /\ Len(input) \in Nat
      /\ saved \in Seq(Nat) /\ pending \in Seq(Nat)
  BY <1>2, TypeStep DEF EInv, TypeOK
<1>4. Transactional' = Transactional /\ input' = input
  BY <1>2, GivenStable
<1>5. Written \in Seq(Nat) /\ Holds(Written, RecordsUpTo(total))
  BY <1>1, <1>3, RowsMoved DEF Written, EInv, Counted, OnCourse
<1>6. \A n : RecordsUpTo(n)' = RecordsUpTo(n)
  BY <1>2, GivenStable
<1>7. RecordsUpTo(total + 1) = RecordsUpTo(total) \cup {total + 1}
  BY <1>1, <1>3, RecordsGrow
<1>8. NoHoles'
  <2>1. CASE pending' = pending
    BY <1>1, <1>3, <1>5, <1>6, <2>1 DEF NoHoles, Written
  <2>2. CASE pending' = Append(pending, total + 1)
    <3>1. Written' = Append(Written, total + 1)
      <4>1. saved \o Append(pending, total + 1) = Append(saved \o pending, total + 1)
        BY <1>3, RowsMoved
      <4> QED
        BY <1>1, <2>2, <4>1 DEF Written
    <3>2. \A y \in RecordsUpTo(total) : y < total + 1
      BY <1>3 DEF RecordsUpTo
    <3>3. Holds(Append(Written, total + 1), RecordsUpTo(total) \cup {total + 1})
      BY <1>3, <1>5, <3>2, RowAppended
    <3>4. Holds(Written', RecordsUpTo(total + 1))
      BY <1>7, <3>1, <3>3
    <3> QED
      BY <1>1, <1>3, <1>6, <3>4 DEF NoHoles
  <2> QED
    BY <1>1, <2>1, <2>2
<1>9. Counted' /\ Untouched' /\ NothingPending'
  BY <1>1 DEF Counted, Untouched, NothingPending, OnCourse, NotBegun, Ends
<1>10. Earlier' /\ Committed'
  BY <1>1, <1>4 DEF EInv, Earlier, Committed, Counted, OnCourse
<1>11. (total <= Len(input))'
  BY <1>1, <1>3, <1>4
<1> QED
  BY <1>3, <1>8, <1>9, <1>10, <1>11 DEF EInv

(* The rows that survive a loss at the end. *)
LEMMA LossLeavesNoHole ==
  ASSUME EInv, NEW t \in Seq(Nat), Len(t) <= Len(Written),
         \A i \in 1 .. Len(t) : t[i] = Written[i]
  PROVE  \E m \in 0 .. total : Holds(t, RecordsUpTo(m))
<1>1. Written \in Seq(Nat) /\ total \in Nat
  BY RowsMoved DEF EInv, TypeOK, Written
<1>2. PICK n \in 0 .. total : Holds(Written, RecordsUpTo(n))
  BY DEF EInv, NoHoles
<1>3. n \in Nat /\ RecordsUpTo(n) \in SUBSET (1 .. n)
  BY <1>1, <1>2, RecordsGrow
<1>4. PICK m \in 0 .. n : Holds(t, RecordsUpTo(n) \cap (1 .. m))
  BY <1>1, <1>2, <1>3, PrefixHolds
<1>5. RecordsUpTo(n) \cap (1 .. m) = RecordsUpTo(m)
  BY <1>3, RecordsGrow
<1>6. m \in 0 .. total
  BY <1>1, <1>2, <1>3
<1> QED
  BY <1>4, <1>5, <1>6

(* A text file starts empty, a database as it was. *)
LEMMA OpenKeeps ==
  ASSUME EInv, OpenWriter
  PROVE  EInv'
<1>1. /\ pc = "opening" /\ pc' = "reading"
      /\ kept' = IF Transactional THEN kept ELSE <<>>
      /\ UNCHANGED <<total, matched, skipped, saved, pending, before>>
  BY DEF OpenWriter, counters, history
<1>2. Next
  BY DEF Next
<1>3. TypeOK'
  BY <1>2, TypeStep DEF EInv
<1>4. /\ Transactional' = Transactional /\ input' = input
      /\ \A n : RecordsUpTo(n)' = RecordsUpTo(n)
  BY <1>2, GivenStable
<1>5. saved = <<>> /\ pending = <<>> /\ kept = before /\ total = 0 /\ matched = 0 /\ skipped = 0
  BY <1>1 DEF EInv, Untouched, NotBegun
<1>6. Written = <<>> /\ Written' = <<>>
  BY <1>1, <1>5 DEF Written
<1>7. Counted' /\ NoHoles'
  BY <1>1, <1>4, <1>5, <1>6, NoRowsYet DEF Counted, NoHoles
<1>8. Untouched' /\ NothingPending' /\ Earlier' /\ Committed'
  BY <1>1, <1>4, <1>5 DEF Untouched, NothingPending, Earlier, Committed, NotBegun
<1>9. (total <= Len(input))'
  BY <1>1, <1>4 DEF EInv
<1> QED
  BY <1>3, <1>7, <1>8, <1>9 DEF EInv

(* Closing, or the commit, makes all rows durable. *)
LEMMA CloseKeeps ==
  ASSUME EInv, CloseWriter
  PROVE  EInv'
<1>1. /\ pc = "closing" /\ pc' = "closed"
      /\ saved' = Written /\ pending' = <<>>
      /\ UNCHANGED <<total, matched, skipped, kept, before>>
  BY DEF CloseWriter, counters, history, Written
<1>2. Next
  BY DEF Next
<1>3. TypeOK'
  BY <1>2, TypeStep DEF EInv
<1>4. /\ Transactional' = Transactional /\ input' = input
      /\ \A n : RecordsUpTo(n)' = RecordsUpTo(n)
  BY <1>2, GivenStable
<1>5. Written' = Written
  <2>1. Written \in Seq(Nat)
    BY RowsMoved DEF EInv, TypeOK, Written
  <2>2. Written \o <<>> = Written
    BY <2>1, RowsMoved
  <2> QED
    BY <1>1, <2>2 DEF Written
<1>6. Holds(Written, RecordsUpTo(total))
  BY <1>1 DEF EInv, Counted, OnCourse
<1>7. Counted' /\ NoHoles'
  BY <1>1, <1>4, <1>5 DEF EInv, Counted, NoHoles, OnCourse
<1>8. Untouched' /\ NothingPending' /\ Earlier' /\ Committed'
  BY <1>1, <1>4, <1>6
     DEF EInv, Counted, Untouched, NothingPending, Earlier, Committed, OnCourse, NotBegun
<1>9. (total <= Len(input))'
  BY <1>1, <1>4 DEF EInv
<1> QED
  BY <1>3, <1>7, <1>8, <1>9 DEF EInv

(* An exception rolls a transaction back and cuts a text file short. *)
LEMMA UnwindKeeps ==
  ASSUME EInv, Unwind
  PROVE  EInv'
<1>1. /\ pc = "unwinding" /\ pc' = "raised" /\ pending' = <<>>
      /\ UNCHANGED <<total, matched, skipped, kept, before>>
  BY DEF Unwind, counters, history
<1>2. \/ Transactional /\ saved' = saved
      \/ ~ Transactional /\ \E k \in 0 .. Len(pending) : saved' = saved \o SubSeq(pending, 1, k)
  BY DEF Unwind
<1>3. Next
  BY DEF Next
<1>4. TypeOK' /\ saved \in Seq(Nat) /\ pending \in Seq(Nat)
  BY <1>3, TypeStep DEF EInv, TypeOK
<1>5. /\ Transactional' = Transactional /\ input' = input
      /\ \A n : RecordsUpTo(n)' = RecordsUpTo(n)
  BY <1>3, GivenStable
<1>6. Written' = saved'
  BY <1>1, <1>4, RowsMoved DEF Written, TypeOK
<1>7. \E m \in 0 .. total : Holds(saved', RecordsUpTo(m))
  <2>1. CASE Transactional /\ saved' = saved
    <3>1. Len(saved) <= Len(Written) /\ \A i \in 1 .. Len(saved) : saved[i] = Written[i]
      BY <1>4 DEF Written
    <3> QED
      BY <1>4, <2>1, <3>1, LossLeavesNoHole
  <2>2. CASE ~ Transactional /\ \E k \in 0 .. Len(pending) : saved' = saved \o SubSeq(pending, 1, k)
    <3>1. PICK k \in 0 .. Len(pending) : saved' = saved \o SubSeq(pending, 1, k)
      BY <2>2
    <3>2. /\ saved' \in Seq(Nat) /\ Len(saved') <= Len(Written)
          /\ \A i \in 1 .. Len(saved') : saved'[i] = Written[i]
      BY <1>4, <3>1, RowsMoved DEF Written
    <3> QED
      BY <3>2, LossLeavesNoHole
  <2> QED
    BY <1>2, <2>1, <2>2
<1>8. NoHoles'
  BY <1>1, <1>5, <1>6, <1>7 DEF NoHoles
<1>9. Counted' /\ Untouched' /\ NothingPending'
  BY <1>1 DEF Counted, Untouched, NothingPending, OnCourse, NotBegun
<1>10. Earlier' /\ Committed'
  BY <1>1, <1>2, <1>5 DEF EInv, Earlier, Committed
<1>11. (total <= Len(input))'
  BY <1>1, <1>5 DEF EInv
<1> QED
  BY <1>4, <1>8, <1>9, <1>10, <1>11 DEF EInv

(* A kill loses what is not durable. *)
LEMMA KillKeeps ==
  ASSUME EInv, Kill
  PROVE  EInv'
<1>1. /\ pc \in Steps /\ pc' = "killed" /\ pending' = <<>>
      /\ UNCHANGED <<total, matched, skipped, kept, saved, before>>
  BY DEF Kill, counters, history
<1>2. Next
  BY DEF Next
<1>3. TypeOK' /\ saved \in Seq(Nat) /\ pending \in Seq(Nat)
  BY <1>2, TypeStep DEF EInv, TypeOK
<1>4. /\ Transactional' = Transactional /\ input' = input
      /\ \A n : RecordsUpTo(n)' = RecordsUpTo(n)
  BY <1>2, GivenStable
<1>5. Written' = saved
  BY <1>1, <1>3, RowsMoved DEF Written
<1>6. Len(saved) <= Len(Written) /\ \A i \in 1 .. Len(saved) : saved[i] = Written[i]
  BY <1>3 DEF Written
<1>7. NoHoles'
  BY <1>1, <1>3, <1>4, <1>5, <1>6, LossLeavesNoHole DEF NoHoles
<1>8. Counted' /\ Untouched' /\ NothingPending'
  BY <1>1 DEF Counted, Untouched, NothingPending, OnCourse, NotBegun
<1>9. Earlier' /\ Committed'
  BY <1>1, <1>4 DEF EInv, Earlier, Committed
<1>10. (total <= Len(input))'
  BY <1>1, <1>4 DEF EInv
<1> QED
  BY <1>3, <1>7, <1>8, <1>9, <1>10 DEF EInv

(* The next run begins with what the output holds. *)
LEMMA RerunKeeps ==
  ASSUME EInv, Rerun
  PROVE  EInv'
<1>1. /\ pc' = "idle" /\ total' = 0 /\ matched' = 0 /\ skipped' = 0
      /\ saved' = <<>> /\ pending' = <<>> /\ kept' = before'
  BY DEF Rerun
<1>2. Next
  BY DEF Next
<1>3. TypeOK' /\ Len(input) \in Nat
  BY <1>2, TypeStep DEF EInv, TypeOK
<1>4. input' = input /\ \A n : RecordsUpTo(n)' = RecordsUpTo(n)
  BY <1>2, GivenStable
<1>5. Written' = <<>>
  BY <1>1 DEF Written
<1>6. NoHoles'
  BY <1>1, <1>4, <1>5, NoRowsYet DEF NoHoles
<1>7. Counted' /\ Untouched' /\ NothingPending' /\ Earlier' /\ Committed'
  BY <1>1 DEF Counted, Untouched, NothingPending, Earlier, Committed, OnCourse, NotBegun, Ends
<1>8. (total <= Len(input))'
  BY <1>1, <1>3, <1>4
<1> QED
  BY <1>3, <1>6, <1>7, <1>8 DEF EInv

(* Nothing changes but the disk. *)
LEMMA StillKeeps ==
  ASSUME EInv, DiskChanges \/ Terminated \/ UNCHANGED vars
  PROVE  EInv'
<1>1. UNCHANGED <<caller, format, input, pc, total, matched, skipped, kept, saved, pending, before>>
  BY DEF DiskChanges, Terminated, vars, given, counters, rows, history
<1>2. [Next]_vars
  BY DEF Next
<1>3. TypeOK'
  BY <1>2, TypeStep DEF EInv
<1> QED
  BY <1>1, <1>3
     DEF EInv, Counted, Untouched, NothingPending, NoHoles, Earlier, Committed, Written,
         RecordsUpTo, Transactional, OnCourse, NotBegun

LEMMA EInvariant == Spec => []EInv
<1>1. EInv /\ [Next]_vars => EInv'
  BY MoveKeeps, SkipKeeps, WriteKeeps, WriteFailsKeeps, OpenKeeps, CloseKeeps, UnwindKeeps,
     KillKeeps, RerunKeeps, StillKeeps DEF Next, MovesOnly
<1> QED
  BY <1>1, InitEInv, PTL DEF Spec

-------------------------------------------------------------------------------
(***************************************************************************)
(* The theorems.                                                           *)
(***************************************************************************)
(* The audit of a run that is reported as a success is right: the rows it  *)
(* added are the records of the lines it read, in order and each once.     *)
THEOREM AuditsReconcile == Spec => []SuccessReconciles
<1>1. EInv => SuccessReconciles
  <2> SUFFICES ASSUME EInv, Success PROVE SuccessReconciles
    BY DEF SuccessReconciles
  <2>1. pc = "returned"
    BY DEF Success, Answer, Ends, EInv, TypeOK, Calls
  <2>2. pending = <<>>
    BY <2>1 DEF EInv, NothingPending, Ends
  <2>3. Written = saved
    BY <2>2, RowsMoved DEF EInv, TypeOK, Written
  <2> QED
    BY <2>1, <2>3 DEF SuccessReconciles, EInv, Counted, OnCourse
<1> QED
  BY <1>1, EInvariant, PTL

(* A database never holds part of a run. *)
THEOREM DatabaseIsAtomic == Spec => []DatabaseAllOrNothing
<1>1. EInv => DatabaseAllOrNothing
  BY DEF EInv, Earlier, Committed, DatabaseAllOrNothing
<1> QED
  BY <1>1, EInvariant, PTL

(* A text file never has a hole or rows of two runs. *)
THEOREM TextFilesAreWhole == Spec => []TextFileHasNoHoles
<1>1. EInv => TextFileHasNoHoles
  <2> SUFFICES ASSUME EInv, ~ Transactional PROVE TextFileHasNoHoles
    BY DEF TextFileHasNoHoles
  <2>1. saved \in Seq(Nat) /\ pending \in Seq(Nat)
    BY DEF EInv, TypeOK
  <2>2. Len(saved) <= Len(Written) /\ \A i \in 1 .. Len(saved) : saved[i] = Written[i]
    BY <2>1 DEF Written
  <2>3. \E n \in 0 .. total : Holds(saved, RecordsUpTo(n))
    BY <2>1, <2>2, LossLeavesNoHole
  <2> QED
    BY <2>3 DEF EInv, Earlier, TextFileHasNoHoles
<1> QED
  BY <1>1, EInvariant, PTL

(* A refused run leaves the output of earlier runs alone and is no success. *)
THEOREM RefusalsAreHarmless == Spec => []RefusedKeepsOutput
<1>1. EInv => RefusedKeepsOutput
  <2> SUFFICES ASSUME EInv, pc = "refused" PROVE RefusedKeepsOutput
    BY DEF RefusedKeepsOutput
  <2>1. saved = <<>> /\ kept = before /\ kept \in Seq(Nat)
    BY DEF EInv, TypeOK, Untouched, NotBegun
  <2>2. Content = before
    BY <2>1, RowsMoved DEF Content
  <2>3. ~ Success
    BY DEF Success, Answer, EInv, TypeOK, Calls
  <2> QED
    BY <2>2, <2>3 DEF RefusedKeepsOutput
<1> QED
  BY <1>1, EInvariant, PTL
-------------------------------------------------------------------------------
(***************************************************************************)
(* How many rows a full disk may still see, if every line is a record: as  *)
(* many as lines have gone by since the last one that was checked, or as   *)
(* all of them while none was.                                             *)
(***************************************************************************)
Dense == \A i \in DOMAIN input : input[i] = "record"

Unchecked == IF total <= Interval THEN total ELSE (total - 1) % Interval

StopInv ==
  Dense =>
    /\ ~ disk => overfull = 0
    /\ pc \in {"idle", "opening"} => overfull = 0
    /\ pc = "reading" => overfull <= Unchecked
    /\ overfull <= Interval + 1

LEMMA QuotientRemainder ==
  ASSUME NEW a \in Nat, NEW n \in Nat \ {0}
  PROVE  a % n \in 0 .. n - 1 /\ a = n * (a \div n) + (a % n) /\ a \div n \in Nat
OBVIOUS

LEMMA RemainderIs ==
  ASSUME NEW n \in Nat \ {0}, NEW q \in Nat, NEW r \in 0 .. n - 1
  PROVE  (q * n + r) % n = r
OBVIOUS

(* From one line to the next the remainder grows by one, or is zero. *)
LEMMA NextRemainder ==
  ASSUME NEW a \in Nat, NEW n \in Nat \ {0}, (a + 1) % n # 0
  PROVE  (a + 1) % n = (a % n) + 1
<1>1. PICK q \in Nat, r \in 0 .. n - 1 : a % n = r /\ a = n * q + r
  BY QuotientRemainder
<1>2. CASE r = n - 1
  <2>1. a + 1 = (q + 1) * n + 0
    BY <1>1, <1>2
  <2>2. ((q + 1) * n + 0) % n = 0
    BY RemainderIs
  <2> QED
    BY <2>1, <2>2
<1>3. CASE r # n - 1
  <2>1. a + 1 = q * n + (r + 1) /\ r + 1 \in 0 .. n - 1
    BY <1>1, <1>3
  <2>2. (q * n + (r + 1)) % n = r + 1
    BY <2>1, RemainderIs
  <2> QED
    BY <1>1, <2>1, <2>2
<1> QED
  BY <1>2, <1>3

LEMMA StopInit == Init => StopInv
BY ExtractionAssumption DEF Init, StopInv, ExtractionAssumption

LEMMA StopWrites ==
  ASSUME TypeOK, StopInv, Dense, WriteRecord
  PROVE  /\ ~ disk' => overfull' = 0
         /\ pc' = "reading" => overfull' <= Unchecked'
         /\ overfull' <= Interval + 1
<1>1. /\ total \in Nat /\ total' = total + 1 /\ overfull \in Nat /\ Interval \in Nat \ {0}
      /\ overfull <= Unchecked
  BY ExtractionAssumption DEF TypeOK, StopInv, WriteRecord, Reads, ExtractionAssumption
<1>2. overfull' <= overfull + 1 /\ (~ disk' => overfull' = 0)
  BY <1>1 DEF WriteRecord
<1>3. overfull' \in Nat
  BY <1>1 DEF WriteRecord
<1>4. pc' = "reading" => ~ (total > 0 /\ total % Interval = 0)
  BY DEF WriteRecord, ChecksAfter
<1>5. CASE total < Interval
  BY <1>1, <1>2, <1>3, <1>5 DEF Unchecked
<1>6. CASE total = Interval
  <2>1. Interval % Interval = 0
    BY <1>1
  <2>2. pc' # "reading"
    BY <1>1, <1>4, <1>6, <2>1
  <2> QED
    BY <1>1, <1>2, <1>3, <1>6, <2>2 DEF Unchecked
<1>7. CASE total > Interval
  <2>1. PICK t \in Nat : total = t + 1
    BY <1>1, <1>7
  <2>2. Unchecked = t % Interval /\ Unchecked' = (t + 1) % Interval
    BY <1>1, <1>7, <2>1 DEF Unchecked
  <2>3. t % Interval \in 0 .. Interval - 1
    BY <1>1, QuotientRemainder
  <2>4. ASSUME pc' = "reading" PROVE (t + 1) % Interval = (t % Interval) + 1
    <3>1. (t + 1) % Interval # 0
      BY <1>1, <1>4, <2>1, <2>4
    <3> QED
      BY <1>1, <3>1, NextRemainder
  <2> QED
    BY <1>1, <1>2, <1>3, <2>2, <2>3, <2>4
<1> QED
  BY <1>1, <1>5, <1>6, <1>7

LEMMA StopNext == TypeOK /\ StopInv /\ [Next]_vars => StopInv'
<1> SUFFICES ASSUME TypeOK, StopInv, [Next]_vars, Dense' PROVE StopInv'
  BY DEF StopInv
<1>1. Dense
  BY GivenStable DEF Dense
<1>2. /\ ~ disk => overfull = 0
      /\ pc \in {"idle", "opening"} => overfull = 0
      /\ pc = "reading" => overfull <= Unchecked
      /\ overfull <= Interval + 1
  BY <1>1 DEF StopInv
<1>3. total \in Nat /\ Interval \in Nat \ {0} /\ disk \in BOOLEAN
  BY ExtractionAssumption DEF TypeOK, ExtractionAssumption
<1>4. Unchecked \in Nat
  <2>1. CASE total <= Interval
    BY <1>3, <2>1 DEF Unchecked
  <2>2. CASE ~ total <= Interval
    <3>1. total - 1 \in Nat
      BY <1>3, <2>2
    <3> QED
      BY <1>3, <2>2, <3>1, QuotientRemainder DEF Unchecked
  <2> QED
    BY <2>1, <2>2
<1>5. ASSUME UNCHANGED <<disk, overfull, total>>,
             \/ pc' \notin {"idle", "opening", "reading"} \/ pc' = pc
             \/ overfull = 0
      PROVE  StopInv'
  BY <1>2, <1>3, <1>4, <1>5 DEF StopInv, Unchecked
<1>6. CASE InputUnavailable \/ Refuse \/ Accept \/ OpenFails \/ DecodeFails \/ EndOfInput
           \/ CloseFails \/ Return \/ Interrupt
  BY <1>2, <1>5, <1>6 DEF InputUnavailable, Refuse, Accept, OpenFails, DecodeFails, EndOfInput,
     CloseFails, Return, Interrupt, counters
<1>7. CASE Checkpoint
  BY <1>2, <1>5, <1>7 DEF Checkpoint, counters
<1>8. CASE CloseWriter \/ Unwind \/ Kill
  BY <1>5, <1>8 DEF CloseWriter, Unwind, Kill, counters
<1>9. CASE OpenWriter
  BY <1>2, <1>5, <1>9 DEF OpenWriter, counters
<1>10. CASE SkipLine
  <2>1. total + 1 \in DOMAIN input
    BY <1>3, <1>10 DEF SkipLine, Reads, TypeOK, Current
  <2> QED
    BY <1>1, <1>10, <2>1 DEF SkipLine, Reads, Current, Dense
<1>11. CASE WriteRecord
  <2>1. pc' \notin {"idle", "opening"}
    BY <1>11 DEF WriteRecord
  <2> QED
    BY <1>1, <1>11, <2>1, StopWrites DEF StopInv
<1>12. CASE WriteFails
  BY <1>2, <1>12 DEF WriteFails, StopInv
<1>13. CASE DiskChanges
  BY <1>3, <1>4, <1>13 DEF DiskChanges, StopInv, Unchecked, counters
<1>14. CASE Rerun
  BY <1>3, <1>14 DEF Rerun, StopInv
<1>15. CASE Terminated \/ UNCHANGED vars
  BY <1>5, <1>15 DEF Terminated, vars
<1> QED
  BY <1>6, <1>7, <1>8, <1>9, <1>10, <1>11, <1>12, <1>13, <1>14, <1>15 DEF Next

(* ResourceMonitor's check at i > 0 and i % 10_000 == 0: a disk that fills *)
(* up while every line yields a record stops the run within the interval,  *)
(* for every interval and every length of input; one more row than the     *)
(* interval, because line 0 is not checked.                                *)
THEOREM FullDiskStopsDenseFiles == Spec => []DenseFileStopsInTime
<1>1. StopInv => DenseFileStopsInTime
  BY DEF StopInv, Dense, DenseFileStopsInTime
<1> QED
  BY <1>1, StopInit, StopNext, TypeCorrect, PTL DEF Spec
================================================================================
