---------------------------- MODULE ReconVerdicts ----------------------------
(***************************************************************************)
(* What a recon run owes its caller, with no threads, no breaker and no    *)
(* clock: each sampled URL gets one verdict and keeps it; the channels are *)
(* told only when every verdict is in and one of them is good; the plan is *)
(* published once, and says exactly the verdicts.  A run that fails says   *)
(* so, and only such a run may leave a part of the plan.                   *)
(***************************************************************************)
EXTENDS ErrorTaxonomy

CONSTANTS Rows, Sample

VARIABLES
  verdict,    \* the status of each URL decided so far
  announced,  \* the channels that were told
  published,  \* the Status column, by row, empty until it is written
  failed      \* the caller was given an exception

Verdicts == AnalyzeStatuses \cup {"skipped_circuit_open"}

Unpublished == [r \in {} |-> r]

Decided == DOMAIN verdict

Init ==
  /\ verdict = [u \in {} |-> u]
  /\ announced = {}
  /\ published = Unpublished
  /\ failed = FALSE

Open == ~ failed /\ published = Unpublished

Decide(u, v) ==
  /\ Open
  /\ u \notin Decided
  /\ verdict' = [w \in Decided \cup {u} |-> IF w = u THEN v ELSE verdict[w]]
  /\ UNCHANGED <<announced, published, failed>>

Announce(channel) ==
  /\ Open
  /\ Decided = Sample
  /\ \E u \in Sample : verdict[u] = "ok"
  /\ channel \notin announced
  /\ announced' = announced \cup {channel}
  /\ UNCHANGED <<verdict, published, failed>>

Plan(rows) == [r \in rows |-> IF r \in Sample THEN verdict[r] ELSE "not_probed"]

Publish ==
  /\ Open
  /\ Decided = Sample
  /\ published' = Plan(Rows)
  /\ UNCHANGED <<verdict, announced, failed>>

(* Nothing was decided yet, or the plan could not be published as a whole. *)
Fail ==
  /\ Open
  /\ failed' = TRUE
  /\ \/ published' = published
     \/ Decided = Sample /\ \E rows \in SUBSET Rows : published' = Plan(rows)
  /\ Decided \in {{}, Sample}
  /\ UNCHANGED <<verdict, announced>>

Next ==
  \/ \E u \in Sample, v \in Verdicts : Decide(u, v)
  \/ \E channel \in {"slack", "discord"} : Announce(channel)
  \/ Publish
  \/ Fail

Spec == Init /\ [][Next]_<<verdict, announced, published, failed>>
==============================================================================
