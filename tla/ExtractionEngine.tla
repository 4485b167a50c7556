--------------------------- MODULE ExtractionEngine ---------------------------
(***************************************************************************)
(* bulletproof_processor (extraction/engine.py) as its three callers use   *)
(* it: the command line, on a file it may have extracted before, and the   *)
(* synchronous and asynchronous API, on a temporary file of their own.     *)
(* The disk fills up and is freed at any moment, a write or a close may    *)
(* fail, the operator may press Ctrl-C and the process may be killed.      *)
(* A row of the output is the number of the line it was made from.         *)
(***************************************************************************)
EXTENDS Naturals, Sequences

CONSTANTS
  MaxLines,   \* bound on the length of the input
  Interval,   \* the 10_000 of engine.py
  MaxRuns     \* bound on the runs over the same output

ASSUME ExtractionAssumption ==
  /\ MaxLines \in Nat
  /\ Interval \in Nat \ {0}
  /\ MaxRuns \in Nat \ {0}

VARIABLES
  caller,    \* who calls the engine
  format,    \* output_format
  input,     \* what each line of the input is
  disk,      \* TRUE: usage is above disk_threshold
  pc,        \* where the run is
  total,     \* lines read
  matched,   \* records written
  skipped,   \* lines without a record
  kept,      \* rows of earlier runs the output still holds
  saved,     \* rows of this run that are durable in the output
  pending,   \* rows written but buffered, or not committed
  before,    \* what the output held when the run began
  overfull,  \* rows written since the disk went over its threshold
  runs       \* runs begun

vars == <<caller, format, input, disk, pc, total, matched, skipped,
          kept, saved, pending, before, overfull, runs>>

given    == <<caller, format, input>>
counters == <<total, matched, skipped>>
rows     == <<kept, saved, pending>>
history  == <<before, runs>>

Kinds == {"record", "noise", "broken"}   \* broken: not UTF-8

Inputs == UNION {[1 .. n -> Kinds] : n \in 0 .. MaxLines}

(* A request has some text, and was valid UTF-8 when it was written out.   *)
InputsOf(c) ==
  IF c = "cli" THEN Inputs
  ELSE {lines \in Inputs : lines # <<>> /\ \A i \in DOMAIN lines : lines[i] # "broken"}

(* The API always asks for jsonl. *)
Calls == ({"cli"} \X {"jsonl", "csv", "sqlite"}) \cup ({"sync", "job"} \X {"jsonl"})

Steps == {"idle", "opening", "reading", "checkpoint", "closing", "closed", "unwinding"}

Ends == {"refused", "returned", "not_found", "raised", "killed"}

TypeOK ==
  /\ <<caller, format>> \in Calls
  /\ input \in Seq(Kinds)
  /\ disk \in BOOLEAN
  /\ pc \in Steps \cup Ends
  /\ total \in Nat /\ matched \in Nat /\ skipped \in Nat
  /\ kept \in Seq(Nat) /\ saved \in Seq(Nat) /\ pending \in Seq(Nat)
  /\ before \in Seq(Nat)
  /\ overfull \in Nat
  /\ runs \in 1 .. MaxRuns

Init ==
  /\ \E call \in Calls : caller = call[1] /\ format = call[2]
  /\ input \in InputsOf(caller)
  /\ disk \in BOOLEAN
  /\ pc = "idle"
  /\ total = 0 /\ matched = 0 /\ skipped = 0
  /\ kept = <<>> /\ saved = <<>> /\ pending = <<>>
  /\ before = <<>>
  /\ overfull = 0
  /\ runs = 1

Content == kept \o saved

Transactional == format = "sqlite"

-------------------------------------------------------------------------------
(***************************************************************************)
(* Before the first line.                                                  *)
(***************************************************************************)
(* The CLI names a file that is not there; the API cannot write its own.   *)
InputUnavailable ==
  /\ pc = "idle"
  /\ pc' = IF caller = "cli" THEN "not_found" ELSE "raised"
  /\ UNCHANGED <<given, disk, counters, rows, history, overfull>>

(* The disk is over its threshold: summary with aborted True. *)
Refuse ==
  /\ pc = "idle"
  /\ disk
  /\ pc' = "refused"
  /\ UNCHANGED <<given, disk, counters, rows, history, overfull>>

Accept ==
  /\ pc = "idle"
  /\ ~ disk
  /\ pc' = "opening"
  /\ UNCHANGED <<given, disk, counters, rows, history, overfull>>

(* Input or output cannot be opened: the output is as it was. *)
OpenFails ==
  /\ pc = "opening"
  /\ pc' = "raised"
  /\ UNCHANGED <<given, disk, counters, rows, history, overfull>>

(* Mutant: the text formats are opened for append. *)
OpenWriter_Appends ==
  /\ pc = "opening"
  /\ pc' = "reading"
  /\ UNCHANGED <<given, disk, counters, rows, history, overfull>>

(* Text formats truncate what is there, the table is created if missing. *)
OpenWriter ==
  /\ pc = "opening"
  /\ kept' = IF Transactional THEN kept ELSE <<>>
  /\ pc' = "reading"
  /\ UNCHANGED <<given, disk, counters, saved, pending, history, overfull>>

-------------------------------------------------------------------------------
(***************************************************************************)
(* The line loop.                                                          *)
(***************************************************************************)
Current == total + 1   \* the line about to be read, counted from one

Reads(kind) ==
  /\ pc = "reading"
  /\ total < Len(input)
  /\ input[Current] = kind

(* Mutant: every line counts as matched and an unmatched one is taken back. *)
SkipLine_TakesBack ==
  /\ Reads("noise")
  /\ total' = total + 1
  /\ skipped' = skipped + 1
  /\ matched' = matched - 1
  /\ UNCHANGED <<given, disk, pc, rows, history, overfull>>

SkipLine ==
  /\ Reads("noise")
  /\ total' = total + 1
  /\ skipped' = skipped + 1
  /\ UNCHANGED <<given, disk, pc, matched, rows, history, overfull>>

(* i > 0 and i % 10_000 == 0, i counted from zero. *)
ChecksAfter(i) == i > 0 /\ i % Interval = 0

(* The buffer of a text file may be flushed by any write, an open          *)
(* transaction stays open.                                                 *)
WriteRecord ==
  /\ Reads("record")
  /\ total' = total + 1
  /\ matched' = matched + 1
  /\ \/ /\ pending' = Append(pending, Current)
        /\ UNCHANGED saved
     \/ /\ ~ Transactional
        /\ saved' = saved \o Append(pending, Current)
        /\ pending' = <<>>
  /\ overfull' = IF disk THEN overfull + 1 ELSE 0
  /\ pc' = IF ChecksAfter(total) THEN "checkpoint" ELSE "reading"
  /\ UNCHANGED <<given, disk, skipped, kept, history>>

(* A matched line that cannot be written: no space, or a bad field.  The   *)
(* row may be left in the buffer of a text file all the same.              *)
WriteFails ==
  /\ Reads("record")
  /\ total' = total + 1
  /\ pending' \in IF Transactional THEN {pending} ELSE {pending, Append(pending, Current)}
  /\ pc' = "unwinding"
  /\ UNCHANGED <<given, disk, matched, skipped, kept, saved, history, overfull>>

(* The decoder works on blocks: a broken line may stop the iteration       *)
(* before the good lines in front of it were handed out.                   *)
DecodeFails ==
  /\ pc = "reading"
  /\ \E j \in Current .. Len(input) : input[j] = "broken"
  /\ pc' = "unwinding"
  /\ UNCHANGED <<given, disk, counters, rows, history, overfull>>

(* Mutant: a full disk goes unheeded. *)
Checkpoint_Ignored ==
  /\ pc = "checkpoint"
  /\ pc' = "reading"
  /\ UNCHANGED <<given, disk, counters, rows, history, overfull>>

(* Disk over its threshold: leave the loop.  Memory pressure only pauses.  *)
Checkpoint ==
  /\ pc = "checkpoint"
  /\ pc' = IF disk THEN "closing" ELSE "reading"
  /\ UNCHANGED <<given, disk, counters, rows, history, overfull>>

EndOfInput ==
  /\ pc = "reading"
  /\ total = Len(input)
  /\ pc' = "closing"
  /\ UNCHANGED <<given, disk, counters, rows, history, overfull>>

-------------------------------------------------------------------------------
(***************************************************************************)
(* Leaving the with block.                                                 *)
(***************************************************************************)
(* Mutant: the connection is closed without a commit. *)
CloseWriter_NoCommit ==
  /\ pc = "closing"
  /\ saved' = IF Transactional THEN saved ELSE saved \o pending
  /\ pending' = <<>>
  /\ pc' = "closed"
  /\ UNCHANGED <<given, disk, counters, kept, history, overfull>>

(* Commit, or flush and close. *)
CloseWriter ==
  /\ pc = "closing"
  /\ saved' = saved \o pending
  /\ pending' = <<>>
  /\ pc' = "closed"
  /\ UNCHANGED <<given, disk, counters, kept, history, overfull>>

CloseFails ==
  /\ pc = "closing"
  /\ pc' = "unwinding"
  /\ UNCHANGED <<given, disk, counters, rows, history, overfull>>

(* The summary, with aborted False. *)
Return ==
  /\ pc = "closed"
  /\ pc' = "returned"
  /\ UNCHANGED <<given, disk, counters, rows, history, overfull>>

(* Ctrl-C reaches the main thread only, which runs the CLI. *)
Interrupt ==
  /\ caller = "cli"
  /\ \/ pc \in {"reading", "checkpoint", "closing"} /\ pc' = "unwinding"
     \/ pc \in {"opening", "closed"} /\ pc' = "raised"
  /\ UNCHANGED <<given, disk, counters, rows, history, overfull>>

(* Mutant: the transaction is committed whatever happened. *)
Unwind_Commits ==
  /\ pc = "unwinding"
  /\ saved' \in {saved \o SubSeq(pending, 1, n) : n \in 0 .. Len(pending)}
  /\ pending' = <<>>
  /\ pc' = "raised"
  /\ UNCHANGED <<given, disk, counters, kept, history, overfull>>

(* The transaction is rolled back, or dropped with its connection; a text  *)
(* file is closed, and of its buffer what still fits is written.           *)
Unwind ==
  /\ pc = "unwinding"
  /\ \/ Transactional /\ UNCHANGED saved
     \/ /\ ~ Transactional
        /\ \E n \in 0 .. Len(pending) : saved' = saved \o SubSeq(pending, 1, n)
  /\ pending' = <<>>
  /\ pc' = "raised"
  /\ UNCHANGED <<given, disk, counters, kept, history, overfull>>

(* The process dies: what was buffered or not committed is gone. *)
Kill ==
  /\ pc \in Steps \ {"idle"}
  /\ pending' = <<>>
  /\ pc' = "killed"
  /\ UNCHANGED <<given, disk, counters, kept, saved, history, overfull>>

-------------------------------------------------------------------------------
DiskChanges ==
  /\ pc \in Steps
  /\ disk' = ~ disk
  /\ overfull' = 0
  /\ UNCHANGED <<given, pc, counters, rows, history>>

(* The operator runs the same command again. *)
Rerun ==
  /\ pc \in Ends
  /\ caller = "cli"
  /\ runs < MaxRuns
  /\ runs' = runs + 1
  /\ pc' = "idle"
  /\ total' = 0 /\ matched' = 0 /\ skipped' = 0
  /\ kept' = Content /\ saved' = <<>> /\ pending' = <<>>
  /\ before' = Content
  /\ overfull' = 0
  /\ UNCHANGED <<given, disk>>

Terminated ==
  /\ pc \in Ends
  /\ caller = "cli" => runs = MaxRuns
  /\ UNCHANGED vars

Next ==
  \/ InputUnavailable \/ Refuse \/ Accept \/ OpenFails \/ OpenWriter
  \/ SkipLine \/ WriteRecord \/ WriteFails \/ DecodeFails \/ Checkpoint \/ EndOfInput
  \/ CloseWriter \/ CloseFails \/ Return \/ Interrupt \/ Unwind \/ Kill
  \/ DiskChanges \/ Rerun \/ Terminated

Spec == Init /\ [][Next]_vars

(***************************************************************************)
(* What the callers make of the way a run ended.                           *)
(***************************************************************************)
(* Mutant: the API does not look at aborted. *)
Answer_Unchecked(c, end) ==
  IF end = "killed" THEN "none"
  ELSE CASE c = "cli"  -> (CASE end = "returned" -> "exit_0" [] end = "refused" -> "exit_2"
                             [] OTHER -> "nonzero")
         [] c = "sync" -> IF end \in {"returned", "refused"} THEN "200" ELSE "500"
         [] c = "job"  -> IF end \in {"returned", "refused"} THEN "done" ELSE "failed"

Answer(c, end) ==
  IF end = "killed" THEN "none"
  ELSE CASE c = "cli"  -> (CASE end = "returned" -> "exit_0" [] end = "refused" -> "exit_2"
                             [] OTHER -> "nonzero")
         [] c = "sync" -> (CASE end = "returned" -> "200" [] end = "refused" -> "507"
                             [] OTHER -> "500")
         [] c = "job"  -> IF end = "returned" THEN "done" ELSE "failed"

(* The caller tells its own caller that all went well. *)
Success == pc \in Ends /\ Answer(caller, pc) \in {"exit_0", "200", "done"}

-------------------------------------------------------------------------------
(***************************************************************************)
(* Properties.                                                             *)
(***************************************************************************)
RecordsUpTo(n) == {i \in 1 .. n : input[i] = "record"}

InOrder(s) == \A i, j \in DOMAIN s : i < j => s[i] < s[j]

Holds(s, lines) == InOrder(s) /\ {s[i] : i \in DOMAIN s} = lines

(* Reconciliation: when a caller reports success, this run's rows in the   *)
(* output are exactly the records of the lines it read, in their order,    *)
(* each once, and the audit counts add up to them; earlier rows are there  *)
(* only in a database.  Whatever was buffered, retried or run before.      *)
SuccessReconciles ==
  Success =>
    /\ Holds(saved, RecordsUpTo(total))
    /\ matched = Len(saved)
    /\ total = matched + skipped
    /\ kept = IF Transactional THEN before ELSE <<>>

(* A refused extraction is never told as a success, and it leaves the      *)
(* output of earlier runs as it was: "aborting before corrupting output".  *)
RefusedKeepsOutput ==
  pc = "refused" => Content = before /\ ~ Success

(* A database holds all of a run or none of it, at every moment and        *)
(* through every failure, interrupt and kill; earlier runs stay in it.     *)
DatabaseAllOrNothing ==
  Transactional =>
    /\ kept = before
    /\ saved # <<>> => Holds(saved, RecordsUpTo(total)) /\ pc \notin {"reading", "unwinding"}

(* A failed run leaves a text file cut short, never with a hole, a row     *)
(* twice, or a row of the run before beside one of its own.                *)
TextFileHasNoHoles ==
  ~ Transactional =>
    /\ \E n \in 0 .. total : Holds(saved, RecordsUpTo(n))
    /\ kept # <<>> => saved = <<>> /\ kept = before

(* A run stops within an interval of the disk filling up, provided every   *)
(* line is a record: one more row than the interval, because line 0 is     *)
(* not checked.                                                            *)
DenseFileStopsInTime ==
  (\A i \in DOMAIN input : input[i] = "record") => overfull <= Interval + 1

(* "The extraction engine monitors disk and memory at 10,000-line          *)
(* intervals.  If disk exceeds [the threshold], it stops."                 *)
StopsWithinAnInterval == overfull <= Interval + 1

(* "error: extraction aborted -- disk full before completion" is exit 2;   *)
(* a disk above threshold is never reported as a success.  So a success is *)
(* the whole file.                                                         *)
SuccessMeansComplete == Success => total = Len(input)
================================================================================
