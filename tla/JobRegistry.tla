------------------------------ MODULE JobRegistry ------------------------------
(***************************************************************************)
(* What the async extraction API owes its clients: a job it has accepted   *)
(* is known until it has finished, moves forward only, and is forgotten at *)
(* most when another job needs its place, or with all others at a restart. *)
(***************************************************************************)
CONSTANT Jobs

VARIABLE state   \* what the service knows of each job

Finished == {"done", "failed"}

Init == state = [j \in Jobs |-> "absent"]

(* A new job is accepted; finished ones may make room for it. *)
Accept(j, forgotten) ==
  /\ state[j] = "absent"
  /\ state' = [k \in Jobs |-> IF k = j THEN "queued"
                              ELSE IF k \in forgotten THEN "forgotten"
                              ELSE state[k]]

Start(j) ==
  /\ state[j] = "queued"
  /\ state' = [state EXCEPT ![j] = "running"]

Finish(j, end) ==
  /\ state[j] = "running"
  /\ state' = [state EXCEPT ![j] = end]

(* The service starts again and knows no job; one whose acceptance was     *)
(* under way may be over before it began.                                  *)
Restart(broken) ==
  state' = [j \in Jobs |-> IF state[j] = "absent" /\ j \notin broken THEN "absent"
                           ELSE "forgotten"]

Next ==
  \/ \E j \in Jobs :
       \/ \E forgotten \in SUBSET {k \in Jobs : state[k] \in Finished} : Accept(j, forgotten)
       \/ Start(j)
       \/ \E end \in Finished : Finish(j, end)
  \/ \E broken \in SUBSET {k \in Jobs : state[k] = "absent"} : Restart(broken)

Spec == Init /\ [][Next]_state
================================================================================
