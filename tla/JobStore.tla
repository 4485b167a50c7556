-------------------------------- MODULE JobStore --------------------------------
(***************************************************************************)
(* The asynchronous side of the API: the in-memory job store (api/jobs.py), *)
(* the endpoints POST /extract/async and GET /jobs/{id} and the two-thread *)
(* job pool (api/app.py).  Endpoints run in server threads, so creating,   *)
(* executing and polling jobs interleave.  The store's lock makes each of  *)
(* its methods one step, except _set: it assigns the attributes one by one *)
(* and a poller reads them without the lock.  All of it is memory of one   *)
(* process, which may be restarted at any moment.  What an extraction does *)
(* is not modelled here: it returns a payload or raises.                   *)
(***************************************************************************)
EXTENDS Naturals, Sequences, FiniteSets

CONSTANTS
  MaxJobs,   \* bound on the jobs created
  Clients,   \* who polls
  Sizes,     \* what max_jobs may be
  PoolSize,  \* max_workers of job_pool
  MaxRestarts \* bound on the restarts

(* A job goes by its number in the order of created_at, not by its id. *)
Jobs == 1 .. MaxJobs

ASSUME JobsAssumption == MaxJobs \in Nat \ {0}
ASSUME SizesAssumption == Sizes \subseteq Nat \ {0} /\ PoolSize \in Nat \ {0}
ASSUME RestartsAssumption == MaxRestarts \in Nat

VARIABLES
  request,   \* how far the POST of each job is
  stored,    \* the keys of JobStore._jobs
  job,       \* the attributes of each Job object
  lock,      \* the job whose _set holds the store's lock, or Free
  queue,     \* the work queue of job_pool
  execution, \* how far _execute_job is, for each job
  poll,      \* the GET each client has in progress
  reply,     \* the last response each client got
  watches,   \* the job each client polls
  max_jobs,  \* the size of the store
  restarts,  \* restarts so far
  lost       \* history: the jobs a restart has made away with

vars == <<request, stored, job, lock, queue, execution, poll, reply, watches,
          max_jobs, restarts, lost>>

storeVars     == <<watches, max_jobs, restarts, lost>>
requestVars   == <<request, stored, queue, storeVars>>
executionVars == <<job, lock, execution>>
pollVars      == <<poll, reply>>

Free == 0   \* not the number of a job

Statuses == {"queued", "running", "done", "failed"}

Contents == [status : Statuses, result : {"none", "payload"}, error : {"none", "reason"}]

NoReply == [status |-> "none", result |-> "none", error |-> "none"]
NotFound == [NoReply EXCEPT !.status = "404"]

TypeOK ==
  /\ request \in [Jobs -> {"absent", "stamped", "inserted", "submitted", "broken"}]
  /\ stored \subseteq Jobs
  /\ job \in [Jobs -> Contents]
  /\ lock \in Jobs \cup {Free}
  /\ queue \in Seq(Jobs)
  /\ execution \in [Jobs -> {"waiting", "taken", "extracting", "setting", "over"}]
  /\ poll \in [Clients -> [at : {"idle", "holding", "read_status", "read_result"},
                           status : Statuses \cup {"none"}, result : {"none", "payload"}]]
  /\ reply \in [Clients -> Contents \cup {NoReply, NotFound}]
  /\ watches \in [Clients -> Jobs]
  /\ max_jobs \in Sizes
  /\ restarts \in 0 .. MaxRestarts
  /\ lost \subseteq Jobs

Idle == [at |-> "idle", status |-> "none", result |-> "none"]

Init ==
  /\ request = [j \in Jobs |-> "absent"]
  /\ stored = {}
  /\ job = [j \in Jobs |-> [status |-> "queued", result |-> "none", error |-> "none"]]
  /\ lock = Free
  /\ queue = <<>>
  /\ execution = [j \in Jobs |-> "waiting"]
  /\ poll = [c \in Clients |-> Idle]
  /\ reply = [c \in Clients |-> NoReply]
  /\ watches \in [Clients -> Jobs]
  /\ max_jobs \in Sizes
  /\ restarts = 0
  /\ lost = {}

-------------------------------------------------------------------------------
(***************************************************************************)
(* POST /extract/async.                                                    *)
(***************************************************************************)
(* create() builds the Job, and with it created_at, before taking the lock. *)
Stamp(j) ==
  /\ request[j] = "absent"
  /\ \A k \in Jobs : k < j => request[k] # "absent"
  /\ request' = [request EXCEPT ![j] = "stamped"]
  /\ UNCHANGED <<stored, queue, storeVars, executionVars, pollVars>>

IsFinished(j) == job[j].status \in {"done", "failed"}

(* Mutant: any old job goes, running or not. *)
Evicted_AnyStatus ==
  {j \in stored :
     Cardinality({k \in stored : k < j}) < Cardinality(stored) + 1 - max_jobs}

(* Mutant: the newest finished job goes first. *)
Evicted_NewestFirst ==
  {j \in stored :
     /\ IsFinished(j)
     /\ Cardinality({k \in stored : IsFinished(k) /\ j < k})
          < Cardinality(stored) + 1 - max_jobs}

(* _evict_if_needed: the oldest finished jobs, as many as it takes to get  *)
(* the store below its bound.                                              *)
Evicted ==
  {j \in stored :
     /\ IsFinished(j)
     /\ Cardinality({k \in stored : IsFinished(k) /\ k < j})
          < Cardinality(stored) + 1 - max_jobs}

Insert(j) ==
  /\ request[j] = "stamped"
  /\ lock = Free
  /\ stored' = (stored \ Evicted) \cup {j}
  /\ request' = [request EXCEPT ![j] = "inserted"]
  /\ UNCHANGED <<queue, storeVars, executionVars, pollVars>>

(* Mutant: the 202 goes out for a job the store has never seen. *)
Submit_Unstored(j) ==
  /\ request[j] = "stamped"
  /\ queue' = Append(queue, j)
  /\ request' = [request EXCEPT ![j] = "submitted"]
  /\ UNCHANGED <<stored, storeVars, executionVars, pollVars>>

(* job_pool.submit, and the 202 that tells the client the id. *)
Submit(j) ==
  /\ request[j] = "inserted"
  /\ queue' = Append(queue, j)
  /\ request' = [request EXCEPT ![j] = "submitted"]
  /\ UNCHANGED <<stored, storeVars, executionVars, pollVars>>

-------------------------------------------------------------------------------
(***************************************************************************)
(* _execute_job, in a thread of the pool.                                  *)
(***************************************************************************)
Active == {j \in Jobs : execution[j] \notin {"waiting", "over"}}

Take ==
  /\ queue # <<>>
  /\ Cardinality(Active) < PoolSize
  /\ execution' = [execution EXCEPT ![Head(queue)] = "taken"]
  /\ queue' = Tail(queue)
  /\ UNCHANGED <<request, stored, storeVars, job, lock, pollVars>>

(* Mutant: the job is not marked running. *)
MarkRunning_Forgotten(j) ==
  /\ execution[j] = "taken"
  /\ lock = Free
  /\ execution' = [execution EXCEPT ![j] = "extracting"]
  /\ UNCHANGED <<requestVars, job, lock, pollVars>>

(* _set does nothing for a job that is no longer in the store. *)
MarkRunning(j) ==
  /\ execution[j] = "taken"
  /\ lock = Free
  /\ job' = [job EXCEPT ![j].status = IF j \in stored THEN "running" ELSE @]
  /\ execution' = [execution EXCEPT ![j] = "extracting"]
  /\ UNCHANGED <<requestVars, lock, pollVars>>

(* Mutant: an extraction that raised is started over. *)
SetStatus_Requeues(j, status) ==
  /\ execution[j] = "extracting"
  /\ lock = Free
  /\ job' = [job EXCEPT ![j].status = IF status = "failed" THEN "queued" ELSE status]
  /\ execution' = [execution EXCEPT ![j] = IF status = "failed" THEN "taken" ELSE "setting"]
  /\ lock' = IF status = "failed" THEN Free ELSE j
  /\ UNCHANGED <<requestVars, pollVars>>

(* Mutant: the exception of an extraction ends the thread unnoticed. *)
SetStatus_Uncaught(j, status) ==
  /\ execution[j] = "extracting"
  /\ lock = Free
  /\ job' = [job EXCEPT ![j].status = IF status = "failed" THEN @ ELSE status]
  /\ execution' = [execution EXCEPT ![j] = IF status = "failed" THEN "over" ELSE "setting"]
  /\ lock' = IF status = "failed" THEN Free ELSE j
  /\ UNCHANGED <<requestVars, pollVars>>

(* The extraction returns or raises, and mark_done or mark_failed is       *)
(* called: _set takes the lock and assigns the status...                   *)
SetStatus(j, status) ==
  /\ execution[j] = "extracting"
  /\ lock = Free
  /\ IF j \in stored
     THEN /\ job' = [job EXCEPT ![j].status = status]
          /\ lock' = j
          /\ execution' = [execution EXCEPT ![j] = "setting"]
     ELSE /\ execution' = [execution EXCEPT ![j] = "over"]
          /\ UNCHANGED <<job, lock>>
  /\ UNCHANGED <<requestVars, pollVars>>

(* Mutant: the reason of a failure is filed as its result. *)
SetPayload_WrongField(j) ==
  /\ execution[j] = "setting"
  /\ job' = [job EXCEPT ![j].result = IF job[j].status = "done" THEN "payload" ELSE "reason"]
  /\ lock' = Free
  /\ execution' = [execution EXCEPT ![j] = "over"]
  /\ UNCHANGED <<requestVars, pollVars>>

(* ... then the result, or the error, and releases it. *)
SetPayload(j) ==
  /\ execution[j] = "setting"
  /\ job' = [job EXCEPT ![j].result = IF job[j].status = "done" THEN "payload" ELSE @,
                        ![j].error = IF job[j].status = "failed" THEN "reason" ELSE @]
  /\ lock' = Free
  /\ execution' = [execution EXCEPT ![j] = "over"]
  /\ UNCHANGED <<requestVars, pollVars>>

-------------------------------------------------------------------------------
(***************************************************************************)
(* GET /jobs/{id}: get() finds the Job under the lock; its attributes are  *)
(* read afterwards, one at a time, from an object others may be assigning  *)
(* to or that has left the store meanwhile.                                *)
(***************************************************************************)
Get(c) ==
  /\ poll[c].at = "idle"
  /\ request[watches[c]] = "submitted"
  /\ lock = Free
  /\ IF watches[c] \in stored
     THEN /\ poll' = [poll EXCEPT ![c].at = "holding"]
          /\ UNCHANGED reply
     ELSE /\ reply' = [reply EXCEPT ![c] = NotFound]
          /\ UNCHANGED poll
  /\ UNCHANGED <<requestVars, executionVars>>

ReadStatus(c) ==
  /\ poll[c].at = "holding"
  /\ poll' = [poll EXCEPT ![c] = [at |-> "read_status", status |-> job[watches[c]].status,
                                  result |-> "none"]]
  /\ UNCHANGED <<requestVars, executionVars, reply>>

ReadResult(c) ==
  /\ poll[c].at = "read_status"
  /\ poll' = [poll EXCEPT ![c].at = "read_result", ![c].result = job[watches[c]].result]
  /\ UNCHANGED <<requestVars, executionVars, reply>>

(* The error is read last and the response is sent. *)
Respond(c) ==
  /\ poll[c].at = "read_result"
  /\ reply' = [reply EXCEPT ![c] = [status |-> poll[c].status, result |-> poll[c].result,
                                    error |-> job[watches[c]].error]]
  /\ poll' = [poll EXCEPT ![c] = Idle]
  /\ UNCHANGED <<requestVars, executionVars>>

-------------------------------------------------------------------------------
(***************************************************************************)
(* The process is restarted, by a crash or by the orchestrator.  The new   *)
(* one has an empty store and idle threads; requests in progress break off.*)
(***************************************************************************)
Restart ==
  /\ restarts < MaxRestarts
  /\ restarts' = restarts + 1
  /\ lost' = lost \cup {j \in Jobs : request[j] # "absent"}
  /\ request' = [j \in Jobs |-> IF request[j] \in {"stamped", "inserted"} THEN "broken"
                               ELSE request[j]]
  /\ stored' = {} /\ queue' = <<>> /\ lock' = Free
  /\ execution' = [j \in Jobs |-> IF request[j] = "absent" THEN "waiting" ELSE "over"]
  /\ poll' = [c \in Clients |-> Idle]
  /\ UNCHANGED <<job, reply, watches, max_jobs>>

-------------------------------------------------------------------------------
RequestStep(j) == Stamp(j) \/ Insert(j) \/ Submit(j)

PoolStep(j) ==
  \/ MarkRunning(j)
  \/ \E status \in {"done", "failed"} : SetStatus(j, status)
  \/ SetPayload(j)

ClientStep(c) == Get(c) \/ ReadStatus(c) \/ ReadResult(c) \/ Respond(c)

Next ==
  \/ \E j \in Jobs : RequestStep(j) \/ PoolStep(j)
  \/ Take
  \/ \E c \in Clients : ClientStep(c)
  \/ Restart

Spec == Init /\ [][Next]_vars

(***************************************************************************)
(* As long as a thread of the process can go on, one of them eventually    *)
(* does, and an extraction ends.  No thread is preferred: each job takes a *)
(* bounded number of steps, so the others come to their turn in any case.  *)
(* Nobody is obliged to send a request, to poll, or to restart anything.   *)
(***************************************************************************)
ServerStep == Take \/ \E j \in Jobs : Submit(j) \/ PoolStep(j)

Fairness == WF_vars(ServerStep)

FairSpec == Spec /\ Fairness

-------------------------------------------------------------------------------
(***************************************************************************)
(* Properties.                                                             *)
(***************************************************************************)
Accepted(j) == request[j] \in {"inserted", "submitted"}

(* "Never evict queued/running jobs -- losing an in-flight job means a     *)
(* client polls a 404 for work the server accepted."  Whoever creates a    *)
(* job, and whatever the pool is doing at that moment; a restart alone     *)
(* loses one.                                                              *)
InFlightIsStored ==
  \A j \in Jobs \ lost : Accepted(j) /\ ~ IsFinished(j) => j \in stored

(* A finished job, and the result its client may not have fetched yet,     *)
(* leaves the store only when max_jobs others need the room, all of them   *)
(* newer or unfinished, even though created_at is taken outside the lock   *)
(* and so is not the order of insertion.  In turn the store outgrows its   *)
(* bound by unfinished jobs only.                                          *)
OldestMakeRoom ==
  [][restarts' = restarts /\ stored' # stored =>
       /\ \A j \in stored \ stored' :
            Cardinality({k \in stored' : j < k \/ ~ IsFinished(k)}) >= max_jobs
       /\ Cardinality(stored') > max_jobs => \A j \in stored' : ~ IsFinished(j)]_vars

(* What a client is told never goes back: not from running to queued, not  *)
(* from an outcome to another one, and after a 404 it stays a 404.         *)
Rank(status) ==
  CASE status = "none"                 -> 0
    [] status = "queued"               -> 1
    [] status = "running"              -> 2
    [] status \in {"done", "failed"}   -> 3
    [] status = "404"                  -> 4

PollsMoveForward ==
  [][\A c \in Clients :
       \/ reply'[c].status = reply[c].status
       \/ Rank(reply'[c].status) > Rank(reply[c].status)]_vars

(* A 404 is the answer for a finished job that was evicted or for one a    *)
(* restart has lost, never for one whose work is still to come.            *)
NotFoundIsOver ==
  \A c \in Clients : reply[c].status = "404" => IsFinished(watches[c]) \/ watches[c] \in lost

(* Every job that was accepted ends, and its outcome is recorded, unless a *)
(* restart loses it: again and again there is a moment when nothing that   *)
(* was accepted is open.  What a restart has lost holds no thread and no   *)
(* place in the store against the jobs that come after it.                 *)
AcceptedEnds ==
  []<>(\A j \in Jobs : Accepted(j) => IsFinished(j) \/ j \in lost)

Registry == INSTANCE JobRegistry WITH
              state <- [j \in Jobs |-> IF ~ Accepted(j) /\ j \notin lost THEN "absent"
                                       ELSE IF j \notin stored THEN "forgotten"
                                       ELSE job[j].status]

RegistryKept == Registry!Spec

(* A client that is told "done" is given the result with it.               *)
DoneHasResult ==
  \A c \in Clients : reply[c].status = "done" => reply[c].result = "payload"
=================================================================================
