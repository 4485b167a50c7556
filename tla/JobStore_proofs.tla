----------------------------- MODULE JobStore_proofs -----------------------------
(***************************************************************************)
(* Proofs about JobStore, for any number of jobs, clients, threads and     *)
(* restarts, and any sizes of the store.                                   *)
(***************************************************************************)
EXTENDS JobStore, FiniteSetTheorems, WellFoundedInduction, TLAPS

-------------------------------------------------------------------------------
(***************************************************************************)
(* The invariant: what the three kinds of thread know of one another.      *)
(***************************************************************************)
(* The pool's queue holds a job once, and only before its execution. *)
QueueInv ==
  /\ \A i \in DOMAIN queue : request[queue[i]] = "submitted" /\ execution[queue[i]] = "waiting"
  /\ \A i, k \in DOMAIN queue : queue[i] = queue[k] => i = k

(* How far the execution of a job is fixes its status, and a restart has   *)
(* lost exactly the jobs it cut off.                                       *)
WorkInv ==
  \A j \in Jobs :
    /\ request[j] \in {"absent", "stamped", "inserted"} => execution[j] = "waiting" /\ j \notin lost
    /\ request[j] = "broken" => j \in lost
    /\ execution[j] = "waiting" => job[j].status = "queued"
    /\ execution[j] = "taken" => job[j].status = "queued"
    /\ execution[j] = "extracting" => job[j].status = "running"
    /\ execution[j] = "setting" => IsFinished(j) /\ lock = j
    /\ execution[j] = "over" => IsFinished(j) \/ j \in lost
    /\ j \in lost => execution[j] = "over"

(* The lock is held across a step only by a _set that is half done. *)
LockInv == lock # Free => execution[lock] = "setting"

StoredInv == \A j \in stored : Accepted(j) /\ j \notin lost

(* a may be told before b. *)
Behind(a, b) == a = b \/ Rank(a) < Rank(b)

(* What a client was told, what its GET in progress has read and what the  *)
(* Job object says come in this order; after a 404 the job cannot return.  *)
PollInv ==
  \A c \in Clients :
    /\ reply[c].status = "404" =>
         /\ poll[c].at = "idle"
         /\ request[watches[c]] \in {"submitted", "broken"}
         /\ watches[c] \notin stored
    /\ reply[c].status # "404" => Behind(reply[c].status, job[watches[c]].status)
    /\ poll[c].at \in {"read_status", "read_result"} =>
         /\ poll[c].status \in Statuses
         /\ Behind(reply[c].status, poll[c].status)
         /\ Behind(poll[c].status, job[watches[c]].status)

JobInv ==
  /\ TypeOK
  /\ QueueInv
  /\ WorkInv
  /\ LockInv
  /\ StoredInv
  /\ PollInv
  /\ InFlightIsStored
  /\ NotFoundIsOver

-------------------------------------------------------------------------------
(* Facts about the operators. *)

LEMMA JobsAreNumbers == Jobs \subseteq Nat /\ Free \notin Jobs /\ IsFiniteSet(Jobs)
BY JobsAssumption, FS_Interval DEF JobsAssumption, Jobs, Free

LEMMA ContentsChange ==
  ASSUME NEW x \in Contents, NEW s \in Statuses
  PROVE  [x EXCEPT !.status = s] \in Contents
BY DEF Contents

(* Statuses come in the order in which a job goes through them. *)
LEMMA StatusOrder ==
  ASSUME NEW a, NEW b, NEW d
  PROVE  /\ Behind(a, a)
         /\ \A s \in Statuses : Behind("none", s)
         /\ \A s \in {"running", "done", "failed"} : Behind("queued", s)
         /\ \A s \in {"done", "failed"} : Behind("running", s)
BY DEF Behind, Rank, Statuses

LEMMA BehindTransitive ==
  ASSUME NEW a \in Statuses \cup {"none"}, NEW b \in Statuses \cup {"none"},
         NEW d \in Statuses \cup {"none"}, Behind(a, b), Behind(b, d)
  PROVE  Behind(a, d)
BY DEF Behind, Rank, Statuses

LEMMA JobInvInit == Init => JobInv
<1> SUFFICES ASSUME Init PROVE JobInv
  OBVIOUS
<1>1. TypeOK
  BY JobsAreNumbers, RestartsAssumption
     DEF Init, TypeOK, Contents, Statuses, NoReply, Idle, Free, RestartsAssumption
<1>2. QueueInv /\ WorkInv /\ LockInv /\ StoredInv
  BY DEF Init, QueueInv, WorkInv, LockInv, StoredInv
<1>3. InFlightIsStored /\ NotFoundIsOver
  BY DEF Init, InFlightIsStored, Accepted, NotFoundIsOver, NoReply
<1>4. PollInv
  BY StatusOrder DEF Init, PollInv, NoReply, Idle, Statuses
<1> QED
  BY <1>1, <1>2, <1>3, <1>4 DEF JobInv

-------------------------------------------------------------------------------
(* The POST: stamping, inserting and submitting a job. *)

LEMMA JobInvStamp ==
  ASSUME JobInv, NEW j \in Jobs, Stamp(j)
  PROVE  JobInv'
<1> USE DEF JobInv, Stamp, storeVars, executionVars, pollVars
<1>1. TypeOK'
  BY DEF TypeOK
<1>2. request' \in [Jobs -> {"absent", "stamped", "inserted", "submitted", "broken"}]
      /\ \A k \in Jobs : request'[k] = IF k = j THEN "stamped" ELSE request[k]
  BY DEF TypeOK
<1>3. QueueInv'
  <2>1. \A i \in DOMAIN queue : queue[i] \in Jobs
    BY DEF TypeOK
  <2> QED
    BY <1>2, <2>1 DEF QueueInv
<1>4. WorkInv' /\ LockInv'
  BY <1>2 DEF WorkInv, LockInv, IsFinished
<1>5. StoredInv' /\ InFlightIsStored'
  BY <1>2 DEF TypeOK, StoredInv, InFlightIsStored, Accepted, IsFinished
<1>6. PollInv' /\ NotFoundIsOver'
  BY <1>2 DEF TypeOK, PollInv, NotFoundIsOver, IsFinished
<1> QED
  BY <1>1, <1>3, <1>4, <1>5, <1>6

LEMMA JobInvInsert ==
  ASSUME JobInv, NEW j \in Jobs, Insert(j)
  PROVE  JobInv'
<1> USE DEF JobInv, Insert, storeVars, executionVars, pollVars
<1>1. TypeOK'
  BY DEF TypeOK, Evicted
<1>2. \A k \in Jobs : request'[k] = IF k = j THEN "inserted" ELSE request[k]
  BY DEF TypeOK
<1>3. QueueInv'
  <2>1. \A i \in DOMAIN queue : queue[i] \in Jobs
    BY DEF TypeOK
  <2> QED
    BY <1>2, <2>1 DEF QueueInv
<1>4. WorkInv' /\ LockInv'
  BY <1>2 DEF WorkInv, LockInv, IsFinished
<1>5. j \notin lost
  BY DEF WorkInv
<1>6. StoredInv'
  BY <1>2, <1>5 DEF TypeOK, StoredInv, Accepted
<1>7. InFlightIsStored'
  BY <1>2 DEF InFlightIsStored, Accepted, IsFinished, Evicted
<1>8. PollInv' /\ NotFoundIsOver'
  BY <1>2 DEF TypeOK, PollInv, NotFoundIsOver, IsFinished
<1> QED
  BY <1>1, <1>3, <1>4, <1>6, <1>7, <1>8

LEMMA JobInvSubmit ==
  ASSUME JobInv, NEW j \in Jobs, Submit(j)
  PROVE  JobInv'
<1> USE DEF JobInv, Submit, storeVars, executionVars, pollVars
<1>1. TypeOK'
  BY DEF TypeOK
<1>2. \A k \in Jobs : request'[k] = IF k = j THEN "submitted" ELSE request[k]
  BY DEF TypeOK
<1>3. QueueInv'
  <2>1. /\ DOMAIN queue' = DOMAIN queue \cup {Len(queue) + 1}
        /\ \A i \in DOMAIN queue : queue'[i] = queue[i] /\ queue[i] \in Jobs
        /\ queue'[Len(queue) + 1] = j
    BY DEF TypeOK
  <2>2. \A i \in DOMAIN queue : queue[i] # j
    BY DEF QueueInv
  <2>3. execution[j] = "waiting"
    BY DEF WorkInv
  <2> QED
    BY <1>2, <2>1, <2>2, <2>3 DEF QueueInv
<1>4. WorkInv' /\ LockInv'
  BY <1>2 DEF WorkInv, LockInv, IsFinished
<1>5. StoredInv' /\ InFlightIsStored'
  BY <1>2 DEF TypeOK, StoredInv, InFlightIsStored, Accepted, IsFinished
<1>6. PollInv' /\ NotFoundIsOver'
  BY <1>2 DEF TypeOK, PollInv, NotFoundIsOver, IsFinished
<1> QED
  BY <1>1, <1>3, <1>4, <1>5, <1>6

-------------------------------------------------------------------------------
(* The pool: taking a job off the queue, and the three parts of executing  *)
(* it.                                                                     *)

LEMMA JobInvTake ==
  ASSUME JobInv, Take
  PROVE  JobInv'
<1> USE DEF JobInv, Take, storeVars, pollVars
<1> DEFINE j == Head(queue)
<1>1. /\ queue \in Seq(Jobs) /\ queue # <<>>
      /\ j = queue[1] /\ 1 \in DOMAIN queue /\ j \in Jobs
      /\ Tail(queue) \in Seq(Jobs)
      /\ \A i \in DOMAIN Tail(queue) : i + 1 \in DOMAIN queue /\ i + 1 # 1
                                       /\ Tail(queue)[i] = queue[i + 1]
  BY DEF TypeOK
<1>2. TypeOK'
  BY <1>1 DEF TypeOK
<1>3. \A k \in Jobs : execution'[k] = IF k = j THEN "taken" ELSE execution[k]
  BY DEF TypeOK
<1>4. request[j] = "submitted" /\ execution[j] = "waiting"
  BY <1>1 DEF QueueInv
<1>5. QueueInv'
  <2>1. \A i \in DOMAIN queue' : /\ queue'[i] # j /\ queue'[i] \in Jobs
                                 /\ request[queue'[i]] = "submitted"
                                 /\ execution[queue'[i]] = "waiting"
    BY <1>1 DEF QueueInv
  <2>2. ASSUME NEW i \in DOMAIN queue', NEW k \in DOMAIN queue', queue'[i] = queue'[k]
        PROVE  i = k
    <3>1. i + 1 = k + 1
      BY <1>1, <2>2 DEF QueueInv
    <3>2. i \in Nat /\ k \in Nat
      BY <1>1
    <3> QED
      BY <3>1, <3>2
  <2> QED
    BY <1>3, <2>1, <2>2 DEF QueueInv
<1>6. WorkInv'
  BY <1>3, <1>4 DEF WorkInv, IsFinished
<1>7. LockInv'
  BY <1>3, <1>4 DEF TypeOK, LockInv
<1>8. StoredInv' /\ InFlightIsStored' /\ PollInv' /\ NotFoundIsOver'
  BY DEF StoredInv, InFlightIsStored, Accepted, IsFinished, PollInv, NotFoundIsOver
<1> QED
  BY <1>2, <1>5, <1>6, <1>7, <1>8

(* A job that moves forward keeps every client behind it. *)
LEMMA PollsStayBehind ==
  ASSUME JobInv, NEW j \in Jobs, TypeOK',
         \A k \in Jobs \ {j} : job'[k].status = job[k].status,
         Behind(job[j].status, job'[j].status),
         UNCHANGED <<requestVars, pollVars>>
  PROVE  PollInv'
<1> USE DEF requestVars, storeVars, pollVars
<1> SUFFICES ASSUME NEW c \in Clients
             PROVE  /\ reply[c].status = "404" =>
                         /\ poll[c].at = "idle"
                         /\ request[watches[c]] \in {"submitted", "broken"}
                         /\ watches[c] \notin stored
                    /\ reply[c].status # "404" => Behind(reply[c].status, job'[watches[c]].status)
                    /\ poll[c].at \in {"read_status", "read_result"} =>
                         /\ poll[c].status \in Statuses
                         /\ Behind(reply[c].status, poll[c].status)
                         /\ Behind(poll[c].status, job'[watches[c]].status)
  BY DEF PollInv
<1>1. /\ watches[c] \in Jobs
      /\ job[watches[c]].status \in Statuses /\ job'[watches[c]].status \in Statuses
      /\ reply[c].status \in Statuses \cup {"none", "404"}
  BY DEF JobInv, TypeOK, Contents, NoReply, NotFound
<1>2. Behind(job[watches[c]].status, job'[watches[c]].status)
  BY <1>1, StatusOrder
<1> QED
  BY <1>1, <1>2, BehindTransitive DEF JobInv, PollInv

LEMMA JobInvMarkRunning ==
  ASSUME JobInv, NEW j \in Jobs, MarkRunning(j)
  PROVE  JobInv'
<1> USE DEF JobInv, MarkRunning, requestVars, storeVars, pollVars
<1>1. TypeOK'
  <2>1. job[j] \in Contents
    BY DEF TypeOK
  <2>2. [job[j] EXCEPT !.status = IF j \in stored THEN "running" ELSE @] \in Contents
    BY <2>1, ContentsChange DEF Contents, Statuses
  <2>3. job' \in [Jobs -> Contents]
    BY <2>2 DEF TypeOK
  <2> QED
    BY <2>3 DEF TypeOK
<1>2. /\ request[j] = "submitted" /\ j \notin lost /\ job[j].status = "queued"
      /\ j \in stored
  BY DEF TypeOK, WorkInv, InFlightIsStored, Accepted, IsFinished
<1>3. /\ \A k \in Jobs : execution'[k] = IF k = j THEN "extracting" ELSE execution[k]
      /\ \A k \in Jobs : job'[k].status = IF k = j THEN "running" ELSE job[k].status
  BY <1>2 DEF TypeOK, Contents
<1>4. QueueInv'
  <2>1. \A i \in DOMAIN queue : queue[i] \in Jobs /\ queue[i] # j
    BY DEF TypeOK, QueueInv
  <2> QED
    BY <1>3, <2>1 DEF QueueInv
<1>5. WorkInv'
  BY <1>2, <1>3 DEF WorkInv, IsFinished
<1>6. LockInv'
  BY <1>3 DEF TypeOK, LockInv
<1>7. StoredInv' /\ InFlightIsStored'
  BY <1>2, <1>3 DEF StoredInv, InFlightIsStored, Accepted, IsFinished
<1>8. PollInv'
  BY <1>1, <1>2, <1>3, PollsStayBehind, StatusOrder
<1>9. NotFoundIsOver'
  BY <1>2, <1>3 DEF TypeOK, NotFoundIsOver, IsFinished
<1> QED
  BY <1>1, <1>4, <1>5, <1>6, <1>7, <1>8, <1>9

(* A job that is being executed is still in the store, so that its outcome *)
(* is never dropped.                                                       *)
LEMMA JobInvSetStatus ==
  ASSUME JobInv, NEW j \in Jobs, NEW status \in {"done", "failed"}, SetStatus(j, status)
  PROVE  JobInv'
<1> USE DEF JobInv, requestVars, storeVars, pollVars
<1>1. /\ request[j] = "submitted" /\ j \notin lost /\ job[j].status = "running"
      /\ j \in stored
  BY DEF SetStatus, TypeOK, WorkInv, InFlightIsStored, Accepted, IsFinished
<1>2. /\ execution[j] = "extracting" /\ lock = Free /\ lock' = j
      /\ execution' = [execution EXCEPT ![j] = "setting"]
      /\ job' = [job EXCEPT ![j].status = status]
      /\ UNCHANGED <<requestVars, pollVars>>
  BY <1>1 DEF SetStatus
<1>3. TypeOK'
  <2>1. [job[j] EXCEPT !.status = status] \in Contents
    <3>1. job[j] \in Contents /\ status \in Statuses
      BY DEF TypeOK, Statuses
    <3> QED
      BY <3>1, ContentsChange
  <2>2. job' \in [Jobs -> Contents]
    BY <1>2, <2>1 DEF TypeOK
  <2> QED
    BY <1>2, <2>2 DEF TypeOK
<1>4. /\ \A k \in Jobs : execution'[k] = IF k = j THEN "setting" ELSE execution[k]
      /\ \A k \in Jobs : job'[k].status = IF k = j THEN status ELSE job[k].status
  BY <1>2 DEF TypeOK, Contents
<1>5. QueueInv'
  <2>1. \A i \in DOMAIN queue : queue[i] \in Jobs /\ queue[i] # j
    BY <1>2 DEF TypeOK, QueueInv
  <2> QED
    BY <1>2, <1>4, <2>1 DEF QueueInv
<1>6. WorkInv' /\ LockInv'
  BY <1>1, <1>2, <1>4, JobsAreNumbers DEF WorkInv, LockInv, IsFinished
<1>7. StoredInv' /\ InFlightIsStored'
  BY <1>1, <1>2, <1>4 DEF StoredInv, InFlightIsStored, Accepted, IsFinished
<1>8. PollInv'
  BY <1>1, <1>2, <1>3, <1>4, PollsStayBehind, StatusOrder
<1>9. NotFoundIsOver'
  BY <1>2, <1>4 DEF TypeOK, NotFoundIsOver, IsFinished
<1> QED
  BY <1>3, <1>5, <1>6, <1>7, <1>8, <1>9

LEMMA JobInvSetPayload ==
  ASSUME JobInv, NEW j \in Jobs, SetPayload(j)
  PROVE  JobInv'
<1> USE DEF JobInv, SetPayload, requestVars, storeVars, pollVars
<1>1. TypeOK'
  <2>1. [job[j] EXCEPT !.result = IF job[j].status = "done" THEN "payload" ELSE @,
                       !.error = IF job[j].status = "failed" THEN "reason" ELSE @] \in Contents
    <3> DEFINE r == IF job[j].status = "done" THEN "payload" ELSE job[j].result
               e == IF job[j].status = "failed" THEN "reason" ELSE job[j].error
    <3>1. job[j] \in Contents /\ r \in {"none", "payload"} /\ e \in {"none", "reason"}
      BY DEF TypeOK, Contents
    <3> HIDE DEF r, e
    <3>2. [job[j] EXCEPT !.result = r, !.error = e] \in Contents
      BY <3>1 DEF Contents
    <3> QED
      BY <3>2 DEF r, e
  <2>2. job' \in [Jobs -> Contents]
    BY <2>1 DEF TypeOK
  <2> QED
    BY <2>2 DEF TypeOK
<1>2. /\ \A k \in Jobs : execution'[k] = IF k = j THEN "over" ELSE execution[k]
      /\ \A k \in Jobs : job'[k].status = job[k].status
  BY DEF TypeOK, Contents
<1>3. IsFinished(j) /\ lock = j
  BY DEF WorkInv
<1>4. QueueInv'
  <2>1. \A i \in DOMAIN queue : queue[i] \in Jobs /\ queue[i] # j
    BY DEF TypeOK, QueueInv
  <2> QED
    BY <1>2, <2>1 DEF QueueInv
<1>5. WorkInv'
  <2>1. UNCHANGED <<request, lost>>
    OBVIOUS
  <2>2. \A k \in Jobs \ {j} : execution[k] # "setting"
    BY <1>3 DEF WorkInv
  <2> HIDE DEF SetPayload
  <2> QED
    BY <1>2, <1>3, <2>1, <2>2 DEF WorkInv, IsFinished
<1>6. LockInv'
  BY DEF LockInv
<1>7. StoredInv' /\ InFlightIsStored'
  BY <1>2 DEF StoredInv, InFlightIsStored, Accepted, IsFinished
<1>8. PollInv'
  BY <1>1, <1>2, PollsStayBehind, StatusOrder
<1>9. NotFoundIsOver'
  BY <1>2 DEF TypeOK, NotFoundIsOver, IsFinished
<1> QED
  BY <1>1, <1>4, <1>5, <1>6, <1>7, <1>8, <1>9

-------------------------------------------------------------------------------
(* The GET, and the restart. *)

(* A GET moves no job, so only its own client's part is at stake. *)
LEMMA JobInvPoll ==
  ASSUME JobInv, NEW c \in Clients, ClientStep(c)
  PROVE  JobInv'
<1> USE DEF JobInv, requestVars, storeVars, executionVars
<1>1. UNCHANGED <<requestVars, executionVars>>
  BY DEF ClientStep, Get, ReadStatus, ReadResult, Respond
<1>2. /\ watches[c] \in Jobs
      /\ job[watches[c]] \in Contents
      /\ reply[c] \in Contents \cup {NoReply, NotFound}
      /\ poll[c] \in [at : {"idle", "holding", "read_status", "read_result"},
                      status : Statuses \cup {"none"}, result : {"none", "payload"}]
  BY DEF TypeOK
<1>3. /\ poll \in [Clients -> [at : {"idle", "holding", "read_status", "read_result"},
                              status : Statuses \cup {"none"}, result : {"none", "payload"}]]
      /\ reply \in [Clients -> Contents \cup {NoReply, NotFound}]
  BY DEF TypeOK
<1>4. QueueInv' /\ WorkInv' /\ LockInv' /\ StoredInv' /\ InFlightIsStored'
  BY <1>1 DEF QueueInv, WorkInv, LockInv, StoredInv, InFlightIsStored, Accepted, IsFinished
<1>5. /\ NoReply.status = "none" /\ NotFound.status = "404"
      /\ \A x \in Contents : x.status \in Statuses
  BY DEF NoReply, NotFound, Contents
<1>6. /\ reply' \in [Clients -> Contents \cup {NoReply, NotFound}]
      /\ poll' \in [Clients -> [at : {"idle", "holding", "read_status", "read_result"},
                                status : Statuses \cup {"none"}, result : {"none", "payload"}]]
      /\ \A d \in Clients \ {c} : reply'[d] = reply[d] /\ poll'[d] = poll[d]
      /\ \/ /\ poll'[c] = poll[c] /\ poll[c].at = "idle"
            /\ reply'[c] = NotFound
            /\ watches[c] \notin stored /\ request[watches[c]] = "submitted"
         \/ /\ reply'[c] = reply[c] /\ poll'[c].at = "holding"
            /\ watches[c] \in stored
         \/ /\ reply'[c] = reply[c] /\ poll'[c].at = "read_status"
            /\ poll[c].at # "idle" /\ poll'[c].status = job[watches[c]].status
         \/ /\ reply'[c] = reply[c] /\ poll'[c].at = "read_result"
            /\ poll[c].at = "read_status" /\ poll'[c].status = poll[c].status
         \/ /\ poll[c].at = "read_result" /\ poll'[c].at = "idle"
            /\ reply'[c].status = poll[c].status
            /\ poll[c].status \in Statuses
  <2>1. CASE Get(c)
    <3>1. CASE watches[c] \in stored
      <4>1. [poll[c] EXCEPT !.at = "holding"] \in
               [at : {"idle", "holding", "read_status", "read_result"},
                status : Statuses \cup {"none"}, result : {"none", "payload"}]
        BY <1>2
      <4> QED
        BY <1>3, <2>1, <3>1, <4>1 DEF Get
    <3>2. CASE watches[c] \notin stored
      BY <1>3, <2>1, <3>2 DEF Get
    <3> QED
      BY <3>1, <3>2
  <2>2. CASE ReadStatus(c)
    <3>1. [at |-> "read_status", status |-> job[watches[c]].status, result |-> "none"] \in
             [at : {"idle", "holding", "read_status", "read_result"},
              status : Statuses \cup {"none"}, result : {"none", "payload"}]
      BY <1>2, <1>5
    <3> QED
      BY <1>3, <2>2, <3>1 DEF ReadStatus
  <2>3. CASE ReadResult(c)
    <3> DEFINE r == job[watches[c]].result
    <3>1. r \in {"none", "payload"}
      BY <1>2 DEF Contents
    <3>2. [poll[c] EXCEPT !.at = "read_result", !.result = r] \in
             [at : {"idle", "holding", "read_status", "read_result"},
              status : Statuses \cup {"none"}, result : {"none", "payload"}]
      <4> HIDE DEF r
      <4> QED
        BY <1>2, <3>1
    <3>3. poll'[c] = [poll[c] EXCEPT !.at = "read_result", !.result = r]
      BY <1>3, <2>3 DEF ReadResult
    <3>4. poll'[c].at = "read_result" /\ poll'[c].status = poll[c].status
      BY <1>2, <3>3
    <3>5. poll' \in [Clients -> [at : {"idle", "holding", "read_status", "read_result"},
                                status : Statuses \cup {"none"}, result : {"none", "payload"}]]
      BY <1>3, <2>3, <3>2 DEF ReadResult
    <3> QED
      BY <1>3, <2>3, <3>4, <3>5 DEF ReadResult
  <2>4. CASE Respond(c)
    <3>1. poll[c].status \in Statuses
      BY <2>4 DEF Respond, PollInv
    <3>2. [status |-> poll[c].status, result |-> poll[c].result,
           error |-> job[watches[c]].error] \in Contents
      BY <1>2, <3>1 DEF Contents
    <3>3. Idle \in [at : {"idle", "holding", "read_status", "read_result"},
                    status : Statuses \cup {"none"}, result : {"none", "payload"}]
          /\ Idle.at = "idle"
      BY DEF Idle
    <3> QED
      BY <1>3, <2>4, <3>1, <3>2, <3>3 DEF Respond
  <2> QED
    BY <2>1, <2>2, <2>3, <2>4 DEF ClientStep
<1>7. TypeOK'
  BY <1>1, <1>6 DEF TypeOK
<1>8. request[watches[c]] = "submitted" /\ watches[c] \notin stored
        => IsFinished(watches[c]) \/ watches[c] \in lost
  BY <1>2 DEF InFlightIsStored, Accepted
<1>9. NotFoundIsOver'
  <2>1. \A d \in Clients \ {c} : reply'[d].status = "404" =>
            IsFinished(watches[d]) \/ watches[d] \in lost
    BY <1>6 DEF NotFoundIsOver
  <2>2. reply'[c].status = "404" => IsFinished(watches[c]) \/ watches[c] \in lost
    BY <1>6, <1>8 DEF NotFoundIsOver, Statuses
  <2> QED
    BY <1>1, <2>1, <2>2 DEF NotFoundIsOver, IsFinished
<1>10. PollInv'
  <2>1. \A d \in Clients \ {c} :
          /\ reply'[d].status = "404" =>
               /\ poll'[d].at = "idle"
               /\ request[watches[d]] \in {"submitted", "broken"}
               /\ watches[d] \notin stored
          /\ reply'[d].status # "404" => Behind(reply'[d].status, job[watches[d]].status)
          /\ poll'[d].at \in {"read_status", "read_result"} =>
               /\ poll'[d].status \in Statuses
               /\ Behind(reply'[d].status, poll'[d].status)
               /\ Behind(poll'[d].status, job[watches[d]].status)
    BY <1>6 DEF PollInv
  <2>2. /\ reply[c].status = "404" =>
             poll[c].at = "idle" /\ watches[c] \notin stored
        /\ reply[c].status # "404" => Behind(reply[c].status, job[watches[c]].status)
        /\ poll[c].at \in {"read_status", "read_result"} =>
             /\ poll[c].status \in Statuses
             /\ Behind(reply[c].status, poll[c].status)
             /\ Behind(poll[c].status, job[watches[c]].status)
    BY DEF PollInv
  <2>3. /\ reply'[c].status = "404" =>
             /\ poll'[c].at = "idle"
             /\ request[watches[c]] \in {"submitted", "broken"}
             /\ watches[c] \notin stored
        /\ reply'[c].status # "404" => Behind(reply'[c].status, job[watches[c]].status)
        /\ poll'[c].at \in {"read_status", "read_result"} =>
             /\ poll'[c].status \in Statuses
             /\ Behind(reply'[c].status, poll'[c].status)
             /\ Behind(poll'[c].status, job[watches[c]].status)
    <3>1. Behind(job[watches[c]].status, job[watches[c]].status)
      BY StatusOrder
    <3>2. "404" \notin Statuses /\ job[watches[c]].status \in Statuses
      BY <1>2, <1>5 DEF Statuses
    <3> QED
      BY <1>5, <1>6, <2>2, <3>1, <3>2
  <2> QED
    BY <1>1, <2>1, <2>3 DEF PollInv
<1> QED
  BY <1>4, <1>7, <1>9, <1>10

(* A restart leaves no thread, no queue and no GET; every job that had     *)
(* been begun is lost.                                                     *)
LEMMA JobInvRestart ==
  ASSUME JobInv, Restart
  PROVE  JobInv'
<1> USE DEF JobInv, Restart
<1>1. TypeOK'
  <2>1. restarts' \in 0 .. MaxRestarts
    BY RestartsAssumption DEF TypeOK, RestartsAssumption
  <2>2. Idle \in [at : {"idle", "holding", "read_status", "read_result"},
                  status : Statuses \cup {"none"}, result : {"none", "payload"}]
    BY DEF Idle
  <2>3. request' \in [Jobs -> {"absent", "stamped", "inserted", "submitted", "broken"}]
        /\ execution' \in [Jobs -> {"waiting", "taken", "extracting", "setting", "over"}]
    BY DEF TypeOK
  <2>4. poll' \in [Clients -> [at : {"idle", "holding", "read_status", "read_result"},
                               status : Statuses \cup {"none"}, result : {"none", "payload"}]]
    BY <2>2
  <2> QED
    BY <2>1, <2>3, <2>4 DEF TypeOK
<1>2. \A j \in Jobs :
        /\ request'[j] = IF request[j] \in {"stamped", "inserted"} THEN "broken" ELSE request[j]
        /\ execution'[j] = IF request[j] = "absent" THEN "waiting" ELSE "over"
        /\ j \in lost' <=> j \in lost \/ request[j] # "absent"
  OBVIOUS
<1>3. \A j \in Jobs : j \in lost => request[j] # "absent"
  BY DEF WorkInv
<1>4. QueueInv' /\ LockInv' /\ StoredInv'
  BY DEF QueueInv, LockInv, StoredInv
<1>5. WorkInv'
  <2>1. UNCHANGED job
    OBVIOUS
  <2>2. \A j \in Jobs : request[j] = "absent" => job[j].status = "queued"
    BY DEF WorkInv
  <2>3. request \in [Jobs -> {"absent", "stamped", "inserted", "submitted", "broken"}]
    BY DEF TypeOK
  <2> HIDE DEF Restart, JobInv
  <2> QED
    BY <1>2, <1>3, <2>1, <2>2, <2>3 DEF WorkInv, IsFinished
<1>6. InFlightIsStored'
  BY <1>2 DEF InFlightIsStored, Accepted
<1>7. NotFoundIsOver'
  BY DEF NotFoundIsOver, IsFinished
<1>8. PollInv'
  <2>1. \A c \in Clients : poll'[c].at = "idle" /\ watches[c] \in Jobs
    BY DEF Idle, TypeOK
  <2> QED
    BY <1>2, <2>1 DEF PollInv
<1> QED
  BY <1>1, <1>4, <1>5, <1>6, <1>7, <1>8

LEMMA JobInvNext ==
  ASSUME JobInv, [Next]_vars
  PROVE  JobInv'
<1>1. CASE UNCHANGED vars
  BY <1>1 DEF vars, storeVars, JobInv, TypeOK, QueueInv, WorkInv, LockInv, StoredInv, PollInv,
     InFlightIsStored, NotFoundIsOver, Accepted, IsFinished
<1>2. ASSUME NEW j \in Jobs, RequestStep(j) PROVE JobInv'
  BY <1>2, JobInvStamp, JobInvInsert, JobInvSubmit DEF RequestStep
<1>3. ASSUME NEW j \in Jobs, PoolStep(j) PROVE JobInv'
  BY <1>3, JobInvMarkRunning, JobInvSetStatus, JobInvSetPayload DEF PoolStep
<1> QED
  BY <1>1, <1>2, <1>3, JobInvTake, JobInvPoll, JobInvRestart DEF Next

LEMMA JobInvariant == Spec => []JobInv
BY JobInvInit, JobInvNext, PTL DEF Spec

(* Every variable of the job store keeps its type, whoever calls it.       *)
THEOREM TypeCorrect == Spec => []TypeOK
<1>1. JobInv => TypeOK
  BY DEF JobInv
<1> QED
  BY <1>1, JobInvariant, PTL

(* No job that was accepted leaves the store before it has finished,       *)
(* whatever its bound and however many jobs come in; a restart alone loses *)
(* one.                                                                    *)
THEOREM InFlightIsNeverEvicted == Spec => []InFlightIsStored
<1>1. JobInv => InFlightIsStored
  BY DEF JobInv
<1> QED
  BY <1>1, JobInvariant, PTL

(* A client that is told 404 has missed nothing that is still to come.     *)
THEOREM NotFoundMeansOver == Spec => []NotFoundIsOver
<1>1. JobInv => NotFoundIsOver
  BY DEF JobInv
<1> QED
  BY <1>1, JobInvariant, PTL

-------------------------------------------------------------------------------
(* What a client is told moves forward only: an answer is made of a status *)
(* that was read after the previous answer, and a 404 comes last.          *)
THEOREM AnswersMoveForward == Spec => PollsMoveForward
<1> DEFINE Forward(c) == \/ reply'[c].status = reply[c].status
                         \/ Rank(reply'[c].status) > Rank(reply[c].status)
<1>1. ASSUME JobInv, JobInv', [Next]_vars, NEW c \in Clients PROVE Forward(c)
  <2>1. /\ reply[c].status \in Statuses \cup {"none", "404"}
        /\ \A d \in Clients : reply'[d].status \in Statuses \cup {"none", "404"}
    BY <1>1 DEF JobInv, TypeOK, Contents, NoReply, NotFound
  <2>2. CASE reply' = reply
    BY <2>2
  <2>3. ASSUME NEW d \in Clients, ClientStep(d), d # c PROVE Forward(c)
    <3>1. reply'[c] = reply[c]
      BY <1>1, <2>3 DEF ClientStep, Get, ReadStatus, ReadResult, Respond, JobInv, TypeOK
    <3> QED
      BY <3>1
  <2>4. CASE ClientStep(c)
    <3>1. CASE reply'[c] = NotFound
      BY <2>1, <3>1 DEF Rank, Statuses, NotFound, NoReply
    <3>2. CASE Respond(c)
      <4>1. /\ reply'[c].status = poll[c].status
            /\ poll[c].at = "read_result"
        BY <1>1, <3>2 DEF Respond, JobInv, TypeOK
      <4>2. Behind(reply[c].status, poll[c].status)
        BY <1>1, <4>1 DEF JobInv, PollInv
      <4>3. poll[c].status \in Statuses /\ reply[c].status # "404"
        BY <1>1, <4>1 DEF JobInv, PollInv
      <4> QED
        BY <2>1, <4>1, <4>2, <4>3 DEF Behind, Rank, Statuses
    <3>3. CASE reply' = reply
      BY <3>3
    <3>4. reply' = reply \/ reply'[c] = NotFound \/ Respond(c)
      BY <1>1, <2>4 DEF ClientStep, Get, ReadStatus, ReadResult, JobInv, TypeOK
    <3> QED
      BY <3>1, <3>2, <3>3, <3>4
  <2>5. reply' = reply \/ \E d \in Clients : ClientStep(d)
    BY <1>1 DEF Next, vars, RequestStep, Stamp, Insert, Submit, PoolStep, MarkRunning, SetStatus,
       SetPayload, Take, Restart, pollVars
  <2> QED
    BY <2>2, <2>3, <2>4, <2>5
<1>2. JobInv /\ JobInv' /\ [Next]_vars => \A c \in Clients : Forward(c)
  BY <1>1
<1> QED
  BY <1>2, JobInvariant, PTL DEF Spec, PollsMoveForward

-------------------------------------------------------------------------------
(***************************************************************************)
(* JobStore implements JobRegistry: inserting a job accepts it and forgets *)
(* what was evicted, marking it running starts it, the status of its _set  *)
(* finishes it, a restart forgets; everything else is a stutter.           *)
(***************************************************************************)
Known(j) ==
  IF ~ Accepted(j) /\ j \notin lost THEN "absent"
  ELSE IF j \notin stored THEN "forgotten"
  ELSE job[j].status

known == [j \in Jobs |-> Known(j)]

LEMMA RegistryInit == Init => Registry!Init
BY DEF Init, Registry!Init, Accepted

(* What decides what is known of a job. *)
LEMMA SameKnown ==
  ASSUME NEW k \in Jobs, Accepted(k)' <=> Accepted(k), (k \in lost') <=> (k \in lost),
         (k \in stored') <=> (k \in stored), job'[k].status = job[k].status
  PROVE  Known(k)' = Known(k)
BY DEF Known

LEMMA InsertAccepts ==
  ASSUME JobInv, NEW j \in Jobs, Insert(j)
  PROVE  Registry!Next
<1> USE DEF Insert, storeVars, executionVars, pollVars
<1>1. \A k \in Jobs : request'[k] = IF k = j THEN "inserted" ELSE request[k]
  BY DEF JobInv, TypeOK
<1>2. /\ request[j] = "stamped" /\ j \notin lost /\ j \notin stored
      /\ job[j].status = "queued"
  BY DEF JobInv, WorkInv, StoredInv, Accepted
<1>3. known[j] = "absent" /\ Known(j)' = "queued"
  BY <1>1, <1>2 DEF known, Known, Accepted
<1>4. Evicted \subseteq stored /\ stored \subseteq Jobs
  BY DEF Evicted, JobInv, TypeOK
<1>5. Evicted \subseteq {k \in Jobs : known[k] \in {"done", "failed"}}
  <2> SUFFICES ASSUME NEW k \in Evicted PROVE known[k] \in {"done", "failed"}
    BY <1>4
  <2>1. k \in stored /\ IsFinished(k) /\ Accepted(k)
    BY DEF Evicted, JobInv, StoredInv
  <2> QED
    BY <1>4, <2>1 DEF known, Known, IsFinished
<1>6. ASSUME NEW k \in Jobs, k # j
      PROVE  Known(k)' = IF k \in Evicted THEN "forgotten" ELSE known[k]
  <2>1. (Accepted(k)' <=> Accepted(k)) /\ lost' = lost /\ job' = job
    BY <1>1, <1>6 DEF Accepted
  <2>2. CASE k \in Evicted
    <3>1. k \in stored /\ Accepted(k) /\ k \notin stored'
      BY <1>4, <1>6, <2>2 DEF JobInv, StoredInv
    <3> QED
      BY <2>1, <2>2, <3>1 DEF Known
  <2>3. CASE k \notin Evicted
    <3>1. (k \in stored') <=> (k \in stored)
      BY <1>6, <2>3
    <3> QED
      BY <2>1, <2>3, <3>1, SameKnown DEF known
  <2> QED
    BY <2>2, <2>3
<1>7. known' = [k \in Jobs |-> IF k = j THEN "queued"
                               ELSE IF k \in Evicted THEN "forgotten" ELSE known[k]]
  BY <1>3, <1>6 DEF known
<1>8. PICK E : E = Evicted
  OBVIOUS
<1>9. Registry!Accept(j, E)
  BY <1>3, <1>7, <1>8 DEF Registry!Accept, known, Known
<1>10. E \in SUBSET {k \in Jobs : known[k] \in Registry!Finished}
  BY <1>5, <1>8 DEF Registry!Finished
<1> QED
  BY <1>9, <1>10 DEF Registry!Next, known, Known

(* A step that moves one job only. *)
LEMMA KnownOne ==
  ASSUME NEW j \in Jobs, NEW s, Known(j)' = s,
         \A k \in Jobs \ {j} : Known(k)' = Known(k)
  PROVE  known' = [known EXCEPT ![j] = s]
BY DEF known

LEMMA PoolStepMoves ==
  ASSUME JobInv, NEW j \in Jobs, PoolStep(j)
  PROVE  Registry!Next \/ UNCHANGED known
<1> USE DEF requestVars, storeVars, pollVars
<1>1. /\ UNCHANGED <<request, stored, lost>>
      /\ \A k \in Jobs : Accepted(k)' <=> Accepted(k)
      /\ job \in [Jobs -> Contents]
  BY DEF PoolStep, MarkRunning, SetStatus, SetPayload, Accepted, JobInv, TypeOK
<1>2. \A k \in Jobs \ {j} : job'[k] = job[k]
  BY <1>1 DEF PoolStep, MarkRunning, SetStatus, SetPayload
<1>3. \A k \in Jobs \ {j} : Known(k)' = Known(k)
  BY <1>1, <1>2, SameKnown
<1>4. CASE MarkRunning(j)
  <2>1. /\ request[j] = "submitted" /\ j \notin lost /\ job[j].status = "queued"
        /\ j \in stored
    BY <1>4 DEF MarkRunning, JobInv, TypeOK, WorkInv, InFlightIsStored, Accepted, IsFinished
  <2>2. job'[j].status = "running"
    BY <1>1, <1>4, <2>1 DEF MarkRunning, Contents
  <2>3. known[j] = "queued" /\ Known(j)' = "running"
    BY <1>1, <2>1, <2>2 DEF known, Known, Accepted
  <2>4. known' = [known EXCEPT ![j] = "running"]
    BY <1>3, <2>3, KnownOne
  <2>5. Registry!Start(j)
    BY <2>3, <2>4 DEF Registry!Start, known, Known
  <2> QED
    BY <2>5 DEF Registry!Next
<1>5. ASSUME NEW status \in {"done", "failed"}, SetStatus(j, status)
      PROVE  Registry!Next
  <2>1. /\ request[j] = "submitted" /\ j \notin lost /\ job[j].status = "running"
        /\ j \in stored
    BY <1>5 DEF SetStatus, JobInv, TypeOK, WorkInv, InFlightIsStored, Accepted, IsFinished
  <2>2. job'[j].status = status
    BY <1>1, <1>5, <2>1 DEF SetStatus, Contents
  <2>3. known[j] = "running" /\ Known(j)' = status
    BY <1>1, <2>1, <2>2 DEF known, Known, Accepted
  <2>4. known' = [known EXCEPT ![j] = status]
    BY <1>3, <2>3, KnownOne
  <2>5. Registry!Finish(j, status)
    BY <2>3, <2>4 DEF Registry!Finish, known, Known
  <2> QED
    BY <2>5 DEF Registry!Next, Registry!Finished
<1>6. CASE SetPayload(j)
  <2>1. job'[j].status = job[j].status
    BY <1>1, <1>6 DEF SetPayload, Contents
  <2>2. Known(j)' = Known(j)
    BY <1>1, <2>1, SameKnown
  <2> QED
    BY <1>3, <2>2 DEF known
<1> QED
  BY <1>4, <1>5, <1>6 DEF PoolStep

(* The new process knows nothing of any job that had been begun. *)
LEMMA RestartForgets ==
  ASSUME JobInv, Restart
  PROVE  Registry!Next
<1> DEFINE broken == {j \in Jobs : request[j] = "stamped"}
<1> USE DEF Restart
<1>1. \A j \in Jobs :
        /\ request'[j] = IF request[j] \in {"stamped", "inserted"} THEN "broken" ELSE request[j]
        /\ j \in lost' <=> j \in lost \/ request[j] # "absent"
        /\ j \notin stored'
  OBVIOUS
<1>2. ASSUME NEW j \in Jobs
      PROVE  /\ j \in broken => known[j] = "absent"
             /\ Known(j)' = IF known[j] = "absent" /\ j \notin broken THEN "absent"
                            ELSE "forgotten"
  <2>1. /\ request[j] \in {"absent", "stamped", "inserted"} => j \notin lost
        /\ request[j] = "broken" => j \in lost
        /\ request[j] \in {"absent", "stamped", "inserted", "submitted", "broken"}
        /\ job[j].status # "absent"
    BY DEF JobInv, WorkInv, TypeOK, Contents, Statuses
  <2>2. known[j] = "absent" <=> request[j] \in {"absent", "stamped"}
    BY <2>1 DEF known, Known, Accepted
  <2>3. Known(j)' = IF request[j] = "absent" THEN "absent" ELSE "forgotten"
    BY <1>1, <2>1 DEF Known, Accepted
  <2> QED
    BY <2>2, <2>3
<1>3. known' = [j \in Jobs |-> IF known[j] = "absent" /\ j \notin broken THEN "absent"
                               ELSE "forgotten"]
  BY <1>2 DEF known
<1>4. broken \in SUBSET {k \in Jobs : known[k] = "absent"}
  BY <1>2
<1> HIDE DEF broken, Restart
<1>5. PICK B : B = broken
  OBVIOUS
<1>6. Registry!Restart(B)
  BY <1>3, <1>5 DEF Registry!Restart, known, Known
<1>7. B \in SUBSET {k \in Jobs : known[k] = "absent"}
  BY <1>4, <1>5
<1> QED
  BY <1>6, <1>7 DEF Registry!Next, known, Known

LEMMA RegistryStep ==
  ASSUME JobInv, [Next]_vars
  PROVE  Registry!Next \/ UNCHANGED known
<1>1. ASSUME UNCHANGED <<stored, lost, job>>,
             \A j \in Jobs : Accepted(j)' <=> Accepted(j)
      PROVE  UNCHANGED known
  <2>1. \A j \in Jobs : Known(j)' = Known(j)
    BY <1>1, SameKnown
  <2> QED
    BY <2>1 DEF known
<1>2. ASSUME NEW j \in Jobs, Stamp(j) \/ Submit(j) PROVE UNCHANGED known
  <2>1. /\ \A k \in Jobs \ {j} : request'[k] = request[k]
        /\ Accepted(j)' <=> Accepted(j)
    BY <1>2 DEF JobInv, TypeOK, Stamp, Submit, Accepted
  <2>2. \A k \in Jobs : Accepted(k)' <=> Accepted(k)
    BY <2>1 DEF Accepted
  <2> QED
    BY <1>1, <1>2, <2>2 DEF Stamp, Submit, storeVars, executionVars
<1>3. ASSUME NEW c \in Clients, ClientStep(c) PROVE UNCHANGED known
  <2>1. UNCHANGED <<request, stored, lost, job>>
    BY <1>3 DEF ClientStep, Get, ReadStatus, ReadResult, Respond, requestVars, storeVars,
       executionVars
  <2> QED
    BY <1>1, <2>1 DEF Accepted
<1>4. CASE Take
  BY <1>1, <1>4 DEF Take, Accepted, storeVars
<1>5. CASE UNCHANGED vars
  BY <1>1, <1>5 DEF vars, Accepted, storeVars
<1> QED
  BY <1>2, <1>3, <1>4, <1>5, InsertAccepts, PoolStepMoves, RestartForgets DEF Next, RequestStep

(* The store keeps what the API owes its clients: an accepted job is known *)
(* until it has finished, moves forward only, and is forgotten at most     *)
(* when another job needs its place or at a restart.                       *)
THEOREM StoreKeepsRegistry == Spec => RegistryKept
<1>1. JobInv /\ [Next]_vars => [Registry!Next]_known
  BY RegistryStep
<1> QED
  BY <1>1, RegistryInit, JobInvariant, PTL DEF Spec, RegistryKept, Registry!Spec, known, Known

-------------------------------------------------------------------------------
(***************************************************************************)
(* What makes room.  Evicted is defined by counting: the finished jobs     *)
(* with fewer finished ones below them than places are needed.  Its        *)
(* largest member bounds its size from above, and the smallest finished    *)
(* job that stays bounds it from below.                                    *)
(***************************************************************************)
LEMMA SmallestElement ==
  ASSUME NEW S \in SUBSET Nat, S # {}
  PROVE  \E m \in S : \A k \in S : m <= k
<1> DEFINE R == OpToRel(<, Nat)
<1>1. PICK m \in S : \A k \in S : ~ (<<k, m>> \in R)
  <2>1. IsWellFoundedOn(R, Nat)
    BY NatLessThanWellFounded, Zenon
  <2> HIDE DEF R
  <2> QED
    BY <2>1, WFMin
<1>2. R = {p \in Nat \X Nat : p[1] < p[2]}
  BY Zenon DEF OpToRel
<1> HIDE DEF R
<1>3. \A k \in S : ~ (k < m)
  BY <1>1, <1>2
<1> QED
  BY <1>3

LEMMA LargestJob ==
  ASSUME NEW S \in SUBSET Jobs, S # {}
  PROVE  \E m \in S : \A k \in S : k <= m
<1> DEFINE T == {MaxJobs - k : k \in S}
<1>1. \A k \in S : k \in Int /\ 1 <= k /\ k <= MaxJobs
  BY DEF Jobs
<1>2. T \in SUBSET Nat /\ T # {}
  BY <1>1, JobsAssumption DEF JobsAssumption
<1>3. PICK t \in T : \A u \in T : t <= u
  BY <1>2, SmallestElement
<1>4. PICK m \in S : t = MaxJobs - m
  OBVIOUS
<1>5. \A k \in S : MaxJobs - m <= MaxJobs - k
  BY <1>3, <1>4
<1>6. \A k \in S : k <= m
  BY <1>1, <1>5, JobsAssumption DEF JobsAssumption
<1> QED
  BY <1>6

LEMMA JobSets ==
  ASSUME NEW S \in SUBSET Jobs, NEW T \in SUBSET S
  PROVE  /\ IsFiniteSet(S) /\ Cardinality(S) \in Nat
         /\ IsFiniteSet(T) /\ Cardinality(T) \in Nat
         /\ Cardinality(T) <= Cardinality(S)
BY JobsAreNumbers, FS_Subset, FS_CardinalityType

Needed == Cardinality(stored) + 1 - max_jobs

FinishedBelow(j) == {k \in stored : IsFinished(k) /\ k < j}

(* No more jobs are evicted than places are needed. *)
LEMMA EvictedFits ==
  ASSUME stored \subseteq Jobs, max_jobs \in Nat, Evicted # {}
  PROVE  Cardinality(Evicted) <= Needed
<1>1. Evicted \subseteq stored /\ Evicted \in SUBSET Jobs
  BY DEF Evicted
<1>2. PICK m \in Evicted : \A k \in Evicted : k <= m
  BY <1>1, LargestJob
<1>3. Evicted \ {m} \subseteq FinishedBelow(m)
  <2> SUFFICES ASSUME NEW k \in Evicted, k # m PROVE k \in FinishedBelow(m)
    OBVIOUS
  <2>1. k \in stored /\ IsFinished(k) /\ k \in Nat /\ m \in Nat
    BY <1>1, JobsAreNumbers DEF Evicted
  <2> QED
    BY <1>2, <2>1 DEF FinishedBelow
<1>4. Cardinality(Evicted \ {m}) = Cardinality(Evicted) - 1
  BY <1>1, <1>2, JobSets, FS_RemoveElement
<1>5. FinishedBelow(m) \in SUBSET Jobs
  BY DEF FinishedBelow
<1>6. Cardinality(Evicted \ {m}) <= Cardinality(FinishedBelow(m))
  BY <1>3, <1>5, JobSets
<1>7. Cardinality(FinishedBelow(m)) < Needed
  BY <1>2 DEF Evicted, FinishedBelow, Needed
<1>8. /\ Cardinality(stored) \in Nat /\ Cardinality(Evicted) \in Nat
      /\ Cardinality(FinishedBelow(m)) \in Nat
  BY <1>1, <1>5, JobSets
<1> QED
  BY <1>4, <1>6, <1>7, <1>8 DEF Needed

(* A finished job stays only when enough others make room. *)
LEMMA EvictedSuffice ==
  ASSUME stored \subseteq Jobs, max_jobs \in Nat,
         NEW j \in stored \ Evicted, IsFinished(j)
  PROVE  Cardinality(Evicted) >= Needed
<1> DEFINE Staying == {k \in stored \ Evicted : IsFinished(k)}
<1>1. Staying \in SUBSET Nat /\ Staying # {}
  BY JobsAreNumbers
<1>2. PICK m \in Staying : \A k \in Staying : m <= k
  BY <1>1, SmallestElement
<1>3. FinishedBelow(m) \subseteq Evicted
  BY <1>1, <1>2 DEF FinishedBelow
<1>4. Evicted \in SUBSET Jobs /\ stored \in SUBSET Jobs
  BY DEF Evicted
<1>5. Cardinality(FinishedBelow(m)) <= Cardinality(Evicted)
  BY <1>3, <1>4, JobSets
<1>6. ~ (Cardinality(FinishedBelow(m)) < Needed)
  BY <1>2 DEF Evicted, FinishedBelow, Needed
<1>7. /\ Cardinality(stored) \in Nat /\ Cardinality(Evicted) \in Nat
      /\ Cardinality(FinishedBelow(m)) \in Nat
  BY <1>3, <1>4, JobSets
<1> QED
  BY <1>5, <1>6, <1>7 DEF Needed

(* A finished job is evicted only for max_jobs others that are newer or    *)
(* unfinished, and the store outgrows its bound by unfinished jobs only.   *)
THEOREM OnlyTheOldestMakeRoom == Spec => OldestMakeRoom
<1> DEFINE Room ==
      restarts' = restarts /\ stored' # stored =>
       /\ \A j \in stored \ stored' :
            Cardinality({k \in stored' : j < k \/ ~ IsFinished(k)}) >= max_jobs
       /\ Cardinality(stored') > max_jobs => \A j \in stored' : ~ IsFinished(j)
<1>1. ASSUME JobInv, [Next]_vars PROVE Room
  <2> SUFFICES ASSUME restarts' = restarts, stored' # stored
               PROVE  /\ \A j \in stored \ stored' :
                           Cardinality({k \in stored' : j < k \/ ~ IsFinished(k)}) >= max_jobs
                      /\ Cardinality(stored') > max_jobs => \A j \in stored' : ~ IsFinished(j)
    OBVIOUS
  <2>1. PICK new \in Jobs : Insert(new)
    <3>1. ~ Restart
      BY <1>1 DEF Restart, JobInv, TypeOK
    <3> QED
      BY <1>1, <3>1 DEF Next, vars, RequestStep, Stamp, Submit, PoolStep, MarkRunning, SetStatus,
         SetPayload, Take, ClientStep, Get, ReadStatus, ReadResult, Respond, requestVars
  <2>2. /\ stored \in SUBSET Jobs /\ max_jobs \in Nat
        /\ new \notin stored /\ ~ IsFinished(new)
    BY <1>1, <2>1, SizesAssumption
       DEF Insert, JobInv, TypeOK, StoredInv, WorkInv, Accepted, IsFinished, SizesAssumption
  <2>3. /\ stored' = (stored \ Evicted) \cup {new}
        /\ Evicted \subseteq stored
    BY <2>1 DEF Insert, Evicted
  <2>4. /\ stored' \in SUBSET Jobs
        /\ Cardinality(stored') = Cardinality(stored) - Cardinality(Evicted) + 1
    <3>1. IsFiniteSet(stored) /\ IsFiniteSet(stored \ Evicted)
      BY <2>2, JobSets
    <3>2. Cardinality(stored \ Evicted) = Cardinality(stored) - Cardinality(stored \cap Evicted)
      BY <3>1, FS_Difference
    <3>3. stored \cap Evicted = Evicted /\ new \notin stored \ Evicted
      BY <2>2, <2>3
    <3>4. Cardinality(stored') = Cardinality(stored \ Evicted) + 1
      BY <2>3, <3>1, <3>3, FS_AddElement
    <3> QED
      BY <2>2, <2>3, <3>2, <3>3, <3>4
  <2>5. Cardinality(stored) \in Nat /\ Cardinality(Evicted) \in Nat
    BY <2>2, <2>3, JobSets
  <2>6. ASSUME NEW j \in stored \ stored'
        PROVE  Cardinality({k \in stored' : j < k \/ ~ IsFinished(k)}) >= max_jobs
    <3>1. j \in Evicted
      BY <2>3, <2>6
    <3>2. ASSUME NEW k \in stored \ Evicted, IsFinished(k) PROVE j < k
      <4>1. j \in Nat /\ k \in Nat
        BY <2>2, <2>6, <3>2, JobsAreNumbers
      <4>2. ASSUME k < j PROVE FALSE
        <5>1. FinishedBelow(k) \subseteq FinishedBelow(j)
          <6> SUFFICES ASSUME NEW i \in stored, IsFinished(i), i < k PROVE i < j
            BY DEF FinishedBelow
          <6>1. i \in Nat
            BY <2>2, JobsAreNumbers
          <6> QED
            BY <4>1, <4>2, <6>1
        <5>2. FinishedBelow(j) \in SUBSET Jobs
          BY <2>2 DEF FinishedBelow
        <5>3. /\ Cardinality(FinishedBelow(k)) <= Cardinality(FinishedBelow(j))
              /\ Cardinality(FinishedBelow(k)) \in Nat /\ Cardinality(FinishedBelow(j)) \in Nat
          BY <5>1, <5>2, JobSets
        <5>4. Cardinality(FinishedBelow(j)) < Needed /\ ~ (Cardinality(FinishedBelow(k)) < Needed)
          BY <3>1, <3>2 DEF Evicted, FinishedBelow, Needed
        <5> QED
          BY <2>2, <2>5, <5>3, <5>4 DEF Needed
      <4> QED
        BY <3>1, <3>2, <4>1, <4>2
    <3>3. {k \in stored' : j < k \/ ~ IsFinished(k)} = stored'
      BY <2>2, <2>3, <3>2
    <3>4. Cardinality(Evicted) <= Needed
      BY <2>2, <3>1, EvictedFits
    <3>5. Cardinality(stored') >= max_jobs
      BY <2>2, <2>4, <2>5, <3>4 DEF Needed
    <3> QED
      BY <3>3, <3>5
  <2>7. ASSUME Cardinality(stored') > max_jobs, NEW j \in stored', IsFinished(j)
        PROVE  FALSE
    <3>1. j \in stored \ Evicted
      BY <2>2, <2>3, <2>7
    <3>2. Cardinality(Evicted) >= Needed
      BY <2>2, <2>7, <3>1, EvictedSuffice
    <3> QED
      BY <2>2, <2>4, <2>5, <2>7, <3>2 DEF Needed
  <2> QED
    BY <2>6, <2>7
<1>2. JobInv /\ [Next]_vars => Room
  BY <1>1
<1> QED
  BY <1>2, JobInvariant, PTL DEF Spec, OldestMakeRoom
==================================================================================
