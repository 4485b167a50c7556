--------------------------- MODULE ReconPromise_proofs ---------------------------
(***************************************************************************)
(* What a recon run publishes is what its probes ended with, nothing moves *)
(* after the pool has drained, and ReconRun implements ReconVerdicts: for  *)
(* every sample, pool size, threshold and subset of outcomes, and with     *)
(* sockets that may hang.                                                  *)
(***************************************************************************)
EXTENDS ReconRun_proofs

-------------------------------------------------------------------------------
(***************************************************************************)
(* The verdicts a sequence of results gives, in a state or the next one.   *)
(***************************************************************************)
UrlsIn(s) == {s[i].url : i \in DOMAIN s}

VerdictsIn(s) ==
  [u \in UrlsIn(s) |->
     LET last == CHOOSE i \in DOMAIN s :
                   /\ s[i].url = u
                   /\ \A j \in DOMAIN s : s[j].url = u => j <= i
     IN  s[last].status]

AddVerdict(verdicts, u, v) ==
  [w \in DOMAIN verdicts \cup {u} |-> IF w = u THEN v ELSE verdicts[w]]

OnePerUrl(s) == \A i, j \in DOMAIN s : s[i].url = s[j].url => i = j

LEMMA VerdictsOfResults ==
  /\ Collected = UrlsIn(results) /\ Collected' = UrlsIn(results')
  /\ StatusMap = VerdictsIn(results) /\ StatusMap' = VerdictsIn(results')
  /\ OneResultPerUrl <=> OnePerUrl(results)
BY DEF Collected, StatusMap, OneResultPerUrl, UrlsIn, VerdictsIn, OnePerUrl

(* With one result per URL, the verdict of a URL is its result. *)
LEMMA VerdictIsResult ==
  ASSUME NEW T, NEW s \in Seq(T), OnePerUrl(s), NEW i \in DOMAIN s
  PROVE  s[i].url \in UrlsIn(s) /\ VerdictsIn(s)[s[i].url] = s[i].status
<1> DEFINE IsLast(k) == /\ s[k].url = s[i].url
                        /\ \A j \in DOMAIN s : s[j].url = s[i].url => j <= k
           last == CHOOSE k \in DOMAIN s : IsLast(k)
<1>1. \A k \in DOMAIN s : s[k].url = s[i].url => k = i
  BY DEF OnePerUrl
<1>2. IsLast(i)
  BY <1>1
<1>3. last \in DOMAIN s /\ IsLast(last)
  BY <1>2
<1>4. last = i
  BY <1>1, <1>3
<1>5. s[i].url \in UrlsIn(s)
  BY DEF UrlsIn
<1> QED
  BY <1>4, <1>5 DEF VerdictsIn

(* Appending the first result of a URL adds its verdict and leaves the     *)
(* others alone.                                                           *)
LEMMA OneMoreVerdict ==
  ASSUME NEW T, NEW s \in Seq(T), OnePerUrl(s), NEW e \in T, e.url \notin UrlsIn(s)
  PROVE  /\ UrlsIn(Append(s, e)) = UrlsIn(s) \cup {e.url}
         /\ VerdictsIn(Append(s, e)) = AddVerdict(VerdictsIn(s), e.url, e.status)
<1> DEFINE t == Append(s, e)
<1>1. /\ t \in Seq(T)
      /\ DOMAIN t = DOMAIN s \cup {Len(s) + 1}
      /\ \A i \in DOMAIN s : t[i] = s[i]
      /\ t[Len(s) + 1] = e
  BY AppendResult
<1> HIDE DEF t
<1>2. UrlsIn(t) = UrlsIn(s) \cup {e.url}
  BY <1>1 DEF UrlsIn
<1>3. OnePerUrl(t)
  <2>1. \A i \in DOMAIN s : s[i].url # e.url
    BY DEF UrlsIn
  <2> QED
    BY <1>1, <2>1 DEF OnePerUrl
<1>4. VerdictsIn(t)[e.url] = e.status
  BY <1>1, <1>3, VerdictIsResult
<1>5. ASSUME NEW w \in UrlsIn(s) PROVE VerdictsIn(t)[w] = VerdictsIn(s)[w]
  <2>1. PICK i \in DOMAIN s : s[i].url = w
    BY DEF UrlsIn
  <2>2. VerdictsIn(s)[w] = s[i].status
    BY <2>1, VerdictIsResult
  <2>3. i \in DOMAIN t /\ t[i] = s[i]
    BY <1>1
  <2>4. VerdictsIn(t)[w] = s[i].status
    BY <1>1, <1>3, <2>1, <2>3, VerdictIsResult
  <2> QED
    BY <2>2, <2>4
<1>6. VerdictsIn(t) = [w \in UrlsIn(t) |-> VerdictsIn(t)[w]]
  BY DEF VerdictsIn
<1>7. \A w \in UrlsIn(t) : VerdictsIn(t)[w] = IF w = e.url THEN e.status ELSE VerdictsIn(s)[w]
  BY <1>2, <1>4, <1>5
<1>8. DOMAIN VerdictsIn(s) = UrlsIn(s)
  BY DEF VerdictsIn
<1> QED
  BY <1>2, <1>6, <1>7, <1>8 DEF t, AddVerdict

-------------------------------------------------------------------------------
(***************************************************************************)
(* The invariant.  A worker can only move a future that is not done, the   *)
(* loop and the sweep read outcomes only off done ones, so a result that   *)
(* is not made up by the clock stays the result of its future for ever;    *)
(* one that is made up is of a URL whose future was not done when it was   *)
(* swept, and so was not done when the clock expired.  The rest records    *)
(* what the main thread knows at each of its phases.                       *)
(***************************************************************************)
ResultsAreReal ==
  \A i \in DOMAIN results :
    \/ results[i].status = "timeout" /\ results[i].url \in late
    \/ future[results[i].url] = "done" /\ results[i] = ResultOf(results[i].url)

LateSinceExpiry ==
  /\ phase \in {"preflight", "collecting"} => late = {}
  /\ phase = "sweeping" => NotDone \subseteq late

IdleOutsidePool == ~ PoolRunning => Busy = {}

NotifiedInOrder ==
  /\ phase \in {"preflight", "collecting", "sweeping", "draining", "reporting", "slack"}
       => notified = {}
  /\ phase = "discord" => "discord" \notin notified
  /\ phase \in Channels => AnyOk

Verdict(r) == IF r \in Sample THEN StatusMap[r] ELSE "not_probed"

FileIsOfThePlan ==
  /\ output = "untouched" => csv = NoRows
  /\ output # "untouched" => /\ Collected = Sample
                             /\ \A r \in DOMAIN csv : csv[r] = Verdict(r)
  /\ output = "whole" => phase = "returned" /\ DOMAIN csv = Rows
  /\ output = "partial" => phase = "raised"

VerdictInv ==
  /\ RunInv
  /\ ResultsAreReal
  /\ LateSinceExpiry
  /\ IdleOutsidePool
  /\ NotifiedInOrder
  /\ FileIsOfThePlan

LEMMA VerdictInvInit == Init => VerdictInv
<1> SUFFICES ASSUME Init PROVE VerdictInv
  OBVIOUS
<1>1. RunInv
  BY RunInvInit
<1>2. Busy = {}
  BY DEF Init, Busy
<1> QED
  BY <1>1, <1>2 DEF Init, VerdictInv, ResultsAreReal, LateSinceExpiry, IdleOutsidePool,
     NotifiedInOrder, FileIsOfThePlan, Channels

(* A worker moves one future that is not done, and only while the pool     *)
(* runs.                                                                   *)
LEMMA WorkerFrame ==
  ASSUME VerdictInv, NEW u \in Sample, WorkerStep(u) \/ ProbeHangs(u)
  PROVE  /\ PoolRunning
         /\ future[u] # "done"
         /\ \A v \in Sample \ {u} : future'[v] = future[v] /\ outcome'[v] = outcome[v]
         /\ UNCHANGED mainVars
<1> USE DEF VerdictInv, RunInv, TypeOK
<1>1. future[u] \in {"probing", "answered"} => PoolRunning
  BY DEF IdleOutsidePool, Busy
<1>2. CASE LaunchProbe(u) \/ SkipOpenCircuit(u)
  BY <1>2 DEF LaunchProbe, SkipOpenCircuit, FreeWorkerFor
<1>3. CASE \E s \in Outcomes : ProbeReturns(u, s)
  BY <1>1, <1>3 DEF ProbeReturns
<1>4. CASE StoreResult(u) \/ ProbeRaises(u) \/ ProbeHangs(u)
  BY <1>1, <1>4 DEF StoreResult, ProbeRaises, ProbeHangs
<1> QED
  BY <1>2, <1>3, <1>4 DEF WorkerStep

LEMMA VerdictInvWorker ==
  ASSUME VerdictInv, NEW u \in Sample, WorkerStep(u) \/ ProbeHangs(u)
  PROVE  VerdictInv'
<1>1. RunInv'
  BY RunInvWorker DEF VerdictInv
<1>2. /\ PoolRunning
      /\ future[u] # "done"
      /\ \A v \in Sample \ {u} : future'[v] = future[v] /\ outcome'[v] = outcome[v]
      /\ UNCHANGED <<phase, late, results, notified, output, csv>>
  BY WorkerFrame DEF mainVars, loopVars, fileVars
<1>3. ResultsAreReal'
  <2> SUFFICES ASSUME NEW i \in DOMAIN results,
                      ~ (results[i].status = "timeout" /\ results[i].url \in late)
               PROVE  future'[results[i].url] = "done"
                      /\ results[i] = ResultOf(results[i].url)'
    BY <1>2 DEF ResultsAreReal, ResultOf
  <2>1. results[i] \in [url : Sample, status : ResultStatuses]
    BY ElementType DEF VerdictInv, RunInv, TypeOK
  <2>2. future[results[i].url] = "done" /\ results[i] = ResultOf(results[i].url)
    BY DEF VerdictInv, ResultsAreReal
  <2>3. results[i].url \in Sample \ {u}
    BY <1>2, <2>1, <2>2
  <2> QED
    BY <1>2, <2>2, <2>3 DEF ResultOf
<1>4. Collected' = Collected /\ StatusMap' = StatusMap /\ (AnyOk' <=> AnyOk)
  BY <1>2, VerdictsOfResults DEF AnyOk
<1>5. NotDone' \subseteq NotDone
  BY <1>2 DEF NotDone
<1>6. LateSinceExpiry' /\ IdleOutsidePool' /\ NotifiedInOrder'
  BY <1>2, <1>4, <1>5 DEF VerdictInv, LateSinceExpiry, IdleOutsidePool, PoolRunning, NotifiedInOrder
<1>7. FileIsOfThePlan'
  BY <1>2, <1>4 DEF VerdictInv, FileIsOfThePlan, Verdict
<1> QED
  BY <1>1, <1>3, <1>6, <1>7 DEF VerdictInv

(* The loop and the sweep: what is added was read off a done future, or    *)
(* says of a late one that the clock ran out.                              *)
LEMMA VerdictInvCollect ==
  ASSUME VerdictInv, NEW u \in Sample, Collect(u) \/ Sweep(u)
  PROVE  VerdictInv'
<1> DEFINE T == [url : Sample, status : ResultStatuses]
<1>1. /\ phase \in {"collecting", "sweeping"}
      /\ phase = "collecting" => future[u] = "done"
      /\ UNCHANGED <<workerVars, phase, late, notified, fileVars>>
  BY DEF Collect, Sweep
<1>2. RunInv'
  BY LoopStep DEF VerdictInv
<1>3. LateSinceExpiry' /\ IdleOutsidePool' /\ NotifiedInOrder' /\ FileIsOfThePlan'
  <2>1. LateSinceExpiry' /\ IdleOutsidePool'
    BY <1>1 DEF VerdictInv, LateSinceExpiry, NotDone, IdleOutsidePool, PoolRunning, Busy, workerVars
  <2>2. NotifiedInOrder'
    BY <1>1 DEF VerdictInv, NotifiedInOrder, Channels
  <2>3. output = "untouched" /\ csv = NoRows
    BY <1>1 DEF VerdictInv, RunInv, TypeOK, FileIsOfThePlan
  <2>4. FileIsOfThePlan'
    BY <1>1, <2>3 DEF FileIsOfThePlan, fileVars, NoRows
  <2> QED
    BY <2>1, <2>2, <2>4
<1>4. CASE results' = results
  <2>1. ResultsAreReal'
    BY <1>1, <1>4 DEF VerdictInv, ResultsAreReal, ResultOf, workerVars
  <2> QED
    BY <1>2, <1>3, <2>1 DEF VerdictInv
<1>5. ASSUME NEW e \in T, e = IF future[u] = "done" THEN ResultOf(u) ELSE TimedOut(u),
             e.url = u, results' = Append(results, e)
      PROVE  VerdictInv'
  <2>1. results \in Seq(T)
    BY DEF VerdictInv, RunInv, TypeOK
  <2>2. /\ DOMAIN results' = DOMAIN results \cup {Len(results) + 1}
        /\ \A i \in DOMAIN results : results'[i] = results[i]
        /\ results'[Len(results) + 1] = e
    BY <1>5, <2>1, AppendResult
  <2>3. \/ e.status = "timeout" /\ u \in late
        \/ future[u] = "done" /\ e = ResultOf(u)
    BY <1>1, <1>5 DEF VerdictInv, LateSinceExpiry, NotDone, TimedOut
  <2>4. ResultsAreReal'
    <3> SUFFICES ASSUME NEW i \in DOMAIN results'
                 PROVE  \/ results'[i].status = "timeout" /\ results'[i].url \in late
                        \/ future[results'[i].url] = "done" /\ results'[i] = ResultOf(results'[i].url)
      BY <1>1 DEF ResultsAreReal, ResultOf, workerVars
    <3>1. CASE i \in DOMAIN results
      <4>1. results'[i] = results[i]
        BY <2>2, <3>1
      <4> QED
        BY <3>1, <4>1 DEF VerdictInv, ResultsAreReal
    <3>2. CASE i = Len(results) + 1
      BY <1>5, <2>2, <2>3, <3>2
    <3> QED
      BY <2>2, <3>1, <3>2
  <2> QED
    BY <1>2, <1>3, <2>4 DEF VerdictInv
<1> QED
  BY <1>4, <1>5, LoopStep DEF VerdictInv

(* Saving: what reaches the file are rows of the plan, and the plan is     *)
(* made of the verdicts.                                                   *)
LEMMA VerdictInvSave ==
  ASSUME VerdictInv, SaveCsv \/ SaveBreaksOff
  PROVE  VerdictInv'
<1>1. RunInv'
  BY RunInvMain DEF VerdictInv, MainStep
<1>2. /\ phase = "saving"
      /\ UNCHANGED <<workerVars, loopVars, notified>>
      /\ \/ phase' = "returned" /\ output' = "whole"
         \/ phase' = "raised" /\ output' = "partial"
  BY DEF SaveCsv, SaveBreaksOff
<1>3. Collected = Sample
  BY <1>2 DEF VerdictInv, RunInv, LoopInv
<1>4. Collected' = Collected /\ StatusMap' = StatusMap /\ (AnyOk' <=> AnyOk)
  BY <1>2, VerdictsOfResults DEF AnyOk, loopVars
<1>5. Plan = [r \in Rows |-> Verdict(r)]
  BY <1>3 DEF Plan, Verdict
<1>6. /\ \A r \in DOMAIN csv' : csv'[r] = Verdict(r)
      /\ output' = "whole" => DOMAIN csv' = Rows
  <2>1. CASE SaveCsv
    BY <1>5, <2>1 DEF SaveCsv
  <2>2. CASE SaveBreaksOff
    <3>1. PICK rows \in CutShort : csv' = [r \in rows |-> Plan[r]]
      BY <2>2 DEF SaveBreaksOff, Restricted
    <3>2. rows \subseteq Rows
      BY CutShortAssumption DEF CutShortAssumption
    <3> QED
      BY <1>5, <2>2, <3>1, <3>2 DEF SaveBreaksOff
  <2> QED
    BY <2>1, <2>2
<1>7. FileIsOfThePlan'
  BY <1>2, <1>3, <1>4, <1>6 DEF FileIsOfThePlan, Verdict
<1>8. ResultsAreReal' /\ LateSinceExpiry' /\ IdleOutsidePool' /\ NotifiedInOrder'
  BY <1>2, <1>4 DEF VerdictInv, ResultsAreReal, ResultOf, LateSinceExpiry, IdleOutsidePool,
     PoolRunning, Busy, workerVars, loopVars, NotifiedInOrder, Channels
<1> QED
  BY <1>1, <1>7, <1>8 DEF VerdictInv

(* The other steps of the main thread add no result and write nothing.     *)
LEMMA VerdictInvMain ==
  ASSUME VerdictInv, MainStep
  PROVE  VerdictInv'
<1>1. RunInv'
  BY RunInvMain DEF VerdictInv
<1>2. CASE \E u \in Sample : Collect(u) \/ Sweep(u)
  BY <1>2, VerdictInvCollect
<1>3. CASE SaveCsv \/ SaveBreaksOff
  BY <1>3, VerdictInvSave
<1>4. CASE WallClockExpires
  <2>1. UNCHANGED <<workerVars, results, notified, fileVars>>
    BY <1>4 DEF WallClockExpires
  <2>2. Collected' = Collected /\ StatusMap' = StatusMap /\ (AnyOk' <=> AnyOk)
    BY <2>1, VerdictsOfResults DEF AnyOk
  <2>3. LateSinceExpiry'
    BY <1>4 DEF WallClockExpires, LateSinceExpiry, NotDone, workerVars
  <2>4. ResultsAreReal'
    BY <1>4, <2>1 DEF WallClockExpires, VerdictInv, LateSinceExpiry, ResultsAreReal, ResultOf, workerVars
  <2>5. IdleOutsidePool' /\ NotifiedInOrder' /\ FileIsOfThePlan'
    BY <1>4, <2>1, <2>2 DEF WallClockExpires, VerdictInv, IdleOutsidePool, PoolRunning, NotifiedInOrder,
       FileIsOfThePlan, Verdict, fileVars, Channels
  <2> QED
    BY <1>1, <2>3, <2>4, <2>5 DEF VerdictInv
<1>5. CASE UNCHANGED <<workerVars, late, results, fileVars>> /\ phase # "sweeping" /\ phase' # "sweeping"
  <2>1. Collected' = Collected /\ StatusMap' = StatusMap /\ (AnyOk' <=> AnyOk)
    BY <1>5, VerdictsOfResults DEF AnyOk
  <2>2. ResultsAreReal'
    BY <1>5 DEF VerdictInv, ResultsAreReal, ResultOf, workerVars
  <2>3. Busy' = Busy
    BY <1>5 DEF Busy, workerVars
  <2> USE DEF VerdictInv, LateSinceExpiry, IdleOutsidePool, PoolRunning,
              NotifiedInOrder, FileIsOfThePlan, Verdict, fileVars, Channels
  <2>4. CASE RejectInput \/ GiveUpQuietly \/ SubmitSample \/ LeaveLoop \/ SaveFails
    BY <1>1, <1>5, <2>1, <2>2, <2>3, <2>4
       DEF RejectInput, GiveUpQuietly, SubmitSample, LeaveLoop, SaveFails
  <2>5. CASE PoolShutDown
    <3>1. Busy = {}
      BY <2>5 DEF PoolShutDown, Busy, NotDone
    <3> QED
      BY <1>1, <1>5, <2>1, <2>2, <2>3, <2>5, <3>1 DEF PoolShutDown
  <2>6. CASE Report
    BY <1>1, <1>5, <2>1, <2>2, <2>3, <2>6 DEF Report
  <2>7. CASE NotifySlack \/ NotifyDiscord \/ NotifyRaises
    BY <1>1, <1>5, <2>1, <2>2, <2>3, <2>7 DEF NotifySlack, NotifyDiscord, Notify, NotifyRaises
  <2> QED
    BY <1>2, <1>3, <1>4, <2>4, <2>5, <2>6, <2>7 DEF MainStep
<1>6. CASE LeaveLoop /\ phase = "sweeping"
  <2>1. UNCHANGED <<workerVars, late, results, notified, fileVars>> /\ phase' = "draining"
    BY <1>6 DEF LeaveLoop, loopVars
  <2>2. Collected' = Collected /\ StatusMap' = StatusMap /\ (AnyOk' <=> AnyOk)
    BY <2>1, VerdictsOfResults DEF AnyOk
  <2>3. ResultsAreReal'
    BY <2>1 DEF VerdictInv, ResultsAreReal, ResultOf, workerVars
  <2> QED
    BY <1>1, <1>6, <2>1, <2>2, <2>3 DEF VerdictInv, LateSinceExpiry, IdleOutsidePool, PoolRunning,
       NotifiedInOrder, FileIsOfThePlan, Verdict, fileVars, Channels
<1>7. \/ \E u \in Sample : Collect(u) \/ Sweep(u)
      \/ SaveCsv \/ SaveBreaksOff \/ WallClockExpires
      \/ LeaveLoop /\ phase = "sweeping"
      \/ UNCHANGED <<workerVars, late, results, fileVars>> /\ phase # "sweeping" /\ phase' # "sweeping"
  BY DEF MainStep, RejectInput, GiveUpQuietly, SubmitSample, LeaveLoop, PoolShutDown, Report,
         NotifySlack, NotifyDiscord, Notify, NotifyRaises, SaveFails, loopVars, Channels
<1> QED
  BY <1>2, <1>3, <1>4, <1>5, <1>6, <1>7

LEMMA VerdictInvNext ==
  ASSUME VerdictInv, [Next]_vars
  PROVE  VerdictInv'
<1>1. CASE UNCHANGED vars
  <2>1. RunInv'
    BY <1>1, RunInvNext DEF VerdictInv
  <2>2. Collected' = Collected /\ StatusMap' = StatusMap /\ (AnyOk' <=> AnyOk)
    BY <1>1, VerdictsOfResults DEF AnyOk, vars
  <2> QED
    BY <1>1, <2>1, <2>2 DEF vars, VerdictInv, ResultsAreReal, ResultOf, LateSinceExpiry, NotDone,
       IdleOutsidePool, PoolRunning, Busy, NotifiedInOrder, FileIsOfThePlan, Verdict
<1> QED
  BY <1>1, VerdictInvWorker, VerdictInvMain DEF Next, Terminated

LEMMA VerdictInvariant == Spec => []VerdictInv
BY VerdictInvInit, VerdictInvNext, PTL DEF Spec

(* A published Status is what the probe of that URL ended with, unless the *)
(* clock expired before it was done; without an expiry nothing else can    *)
(* put "timeout" there, whole plan or part of it.                          *)
THEOREM PublishedIsWhatWasProbed == Spec => []PublishedIsProbed
<1>1. VerdictInv => PublishedIsProbed
  <2> SUFFICES ASSUME VerdictInv, NEW r \in DOMAIN csv
               PROVE  IF r \in Sample
                      THEN csv[r] = ResultOf(r).status \/ (csv[r] = "timeout" /\ r \in late)
                      ELSE csv[r] = "not_probed"
    BY DEF PublishedIsProbed
  <2>1. output # "untouched"
    BY DEF VerdictInv, FileIsOfThePlan, NoRows
  <2>2. csv[r] = Verdict(r) /\ Collected = Sample
    BY <2>1 DEF VerdictInv, FileIsOfThePlan
  <2>3. ASSUME r \in Sample
        PROVE  StatusMap[r] = ResultOf(r).status \/ (StatusMap[r] = "timeout" /\ r \in late)
    <3>1. PICK i \in DOMAIN results : results[i].url = r
      BY <2>2, <2>3 DEF Collected
    <3>2. StatusMap[r] = results[i].status
      BY <3>1, StatusMapIsResult DEF VerdictInv, RunInv, TypeOK
    <3> QED
      BY <3>1, <3>2 DEF VerdictInv, ResultsAreReal
  <2> QED
    BY <2>2, <2>3 DEF Verdict
<1> QED
  BY <1>1, VerdictInvariant, PTL

(* Once the pool has drained, no worker moves and no result is added.      *)
THEOREM NothingMovesAfterDrain == Spec => QuietAfterDrain
<1> DEFINE Drained == phase \in {"reporting", "slack", "discord", "saving", "returned"}
<1>1. VerdictInv /\ [Next]_vars => (Drained => UNCHANGED <<workerVars, loopVars>>)
  <2> SUFFICES ASSUME VerdictInv, [Next]_vars, Drained PROVE UNCHANGED <<workerVars, loopVars>>
    OBVIOUS
  <2>1. ~ PoolRunning
    BY DEF PoolRunning
  <2>2. ~ \E u \in Sample : WorkerStep(u) \/ ProbeHangs(u)
    BY <2>1, WorkerFrame
  <2>3. MainStep => UNCHANGED <<workerVars, loopVars>>
    BY DEF MainStep, RejectInput, GiveUpQuietly, SubmitSample, Collect, Sweep, WallClockExpires,
           LeaveLoop, PoolShutDown, Report, NotifySlack, NotifyDiscord, Notify, NotifyRaises,
           SaveCsv, SaveBreaksOff, SaveFails
  <2> QED
    BY <2>2, <2>3 DEF Next, Terminated, vars, workerVars, loopVars
<1> QED
  BY <1>1, VerdictInvariant, PTL DEF Spec, QuietAfterDrain

-------------------------------------------------------------------------------
(***************************************************************************)
(* ReconRun implements ReconVerdicts: a result that is collected or swept  *)
(* decides a URL, a post announces, saving publishes, an exception fails,  *)
(* and every other step of the threads is a stutter.                       *)
(***************************************************************************)
promiseVars == <<StatusMap, notified, csv, phase = "raised">>

LEMMA PromiseInit == Init => Promise!Init
<1> SUFFICES ASSUME Init PROVE Promise!Init
  OBVIOUS
<1>1. Collected = {}
  BY DEF Init, Collected
<1>2. StatusMap = [u \in {} |-> u]
  BY <1>1 DEF StatusMap
<1> QED
  BY <1>2 DEF Init, Promise!Init, Promise!Unpublished, NoRows

(* Until the run is over its promise is open, and the verdicts are of the  *)
(* URLs that have a result.                                                *)
LEMMA PromiseOpen ==
  ASSUME VerdictInv
  PROVE  /\ ~ Finished => Promise!Open
         /\ Promise!Decided = Collected
<1>1. ~ Finished => phase # "raised" /\ csv = NoRows
  BY DEF VerdictInv, RunInv, TypeOK, FileIsOfThePlan, Finished
<1> QED
  BY <1>1 DEF Promise!Open, Promise!Unpublished, NoRows, Promise!Decided, StatusMap

(* The loop and the sweep decide: a URL gets a verdict of the taxonomy, and *)
(* no URL that had one is touched.                                         *)
LEMMA CollectDecides ==
  ASSUME VerdictInv, NEW u \in Sample, Collect(u) \/ Sweep(u)
  PROVE  Promise!Next \/ UNCHANGED promiseVars
<1> DEFINE T == [url : Sample, status : ResultStatuses]
<1>1. ~ Finished /\ UNCHANGED <<phase, notified, csv>>
  BY DEF Collect, Sweep, Finished, fileVars
<1>2. CASE results' = results
  BY <1>1, <1>2, VerdictsOfResults DEF promiseVars
<1>3. ASSUME NEW e \in T, e.url = u, u \notin Collected, results' = Append(results, e)
      PROVE  Promise!Next
  <2>1. results \in Seq(T) /\ OnePerUrl(results) /\ e.url \notin UrlsIn(results)
    BY <1>3, VerdictsOfResults DEF VerdictInv, RunInv, TypeOK
  <2>2. VerdictsIn(Append(results, e)) = AddVerdict(VerdictsIn(results), e.url, e.status)
    BY <2>1, OneMoreVerdict
  <2>3. StatusMap' = AddVerdict(StatusMap, u, e.status)
    BY <1>3, <2>2, VerdictsOfResults
  <2>4. DOMAIN StatusMap = Collected
    BY DEF StatusMap
  <2>5. e.status \in Promise!Verdicts
    BY OutcomesAssumption DEF OutcomesAssumption, ResultStatuses, AnalyzeStatuses,
       RequestsStatuses, Promise!Verdicts, Promise!AnalyzeStatuses, Promise!RequestsStatuses
  <2>6. Promise!Decide(u, e.status)
    BY <1>1, <1>3, <2>3, <2>4, PromiseOpen DEF AddVerdict, Promise!Decide, Promise!Decided
  <2> QED
    BY <2>5, <2>6 DEF Promise!Next
<1> QED
  BY <1>2, <1>3, LoopStep DEF VerdictInv

(* A post announces, on a channel that was not told before and with every  *)
(* verdict in; a post that fails is a stutter.                             *)
LEMMA NotifyAnnounces ==
  ASSUME VerdictInv, NotifySlack \/ NotifyDiscord
  PROVE  Promise!Next \/ UNCHANGED promiseVars
<1> DEFINE channel == phase
<1>1. /\ phase \in {"slack", "discord"}
      /\ phase' # "raised"
      /\ notified' \in {notified, notified \cup {channel}}
      /\ UNCHANGED <<results, csv>>
  BY DEF NotifySlack, NotifyDiscord, Notify, loopVars, fileVars
<1>2. StatusMap' = StatusMap
  BY <1>1, VerdictsOfResults
<1>3. Collected = Sample /\ DOMAIN StatusMap = Sample
  BY <1>1 DEF VerdictInv, RunInv, LoopInv, StatusMap
<1>4. \E u \in Sample : StatusMap[u] = "ok"
  <2>1. PICK i \in DOMAIN results : results[i].status = "ok"
    BY <1>1 DEF VerdictInv, NotifiedInOrder, Channels, AnyOk
  <2>2. results[i].url \in Sample
    BY <1>3, <2>1 DEF Collected
  <2>3. StatusMap[results[i].url] = "ok"
    BY <2>1, StatusMapIsResult DEF VerdictInv, RunInv, TypeOK
  <2> QED
    BY <2>2, <2>3
<1>5. channel \notin notified
  BY <1>1 DEF VerdictInv, NotifiedInOrder
<1>6. Promise!Open
  BY <1>1, PromiseOpen DEF Finished
<1>7. CASE notified' = notified
  <2>1. (phase = "raised")' = (phase = "raised")
    BY <1>1
  <2> QED
    BY <1>1, <1>2, <1>7, <2>1 DEF promiseVars
<1>8. CASE notified' = notified \cup {channel}
  <2>1. (phase = "raised")' = (phase = "raised")
    BY <1>1
  <2>2. Promise!Announce(channel)
    BY <1>1, <1>2, <1>3, <1>4, <1>5, <1>6, <1>8, <2>1 DEF Promise!Announce, Promise!Decided
  <2> QED
    BY <1>1, <2>2 DEF Promise!Next
<1> QED
  BY <1>1, <1>7, <1>8

(* Writing the file publishes the plan; a write that breaks off publishes  *)
(* a part of it and fails.                                                 *)
LEMMA SavePublishes ==
  ASSUME VerdictInv, SaveCsv \/ SaveBreaksOff
  PROVE  Promise!Next
<1>1. phase = "saving" /\ UNCHANGED <<results, notified>>
  BY DEF SaveCsv, SaveBreaksOff, loopVars
<1>2. StatusMap' = StatusMap
  BY <1>1, VerdictsOfResults
<1>3. Promise!Open /\ Collected = Sample /\ Promise!Decided = Sample
  BY <1>1, PromiseOpen DEF Finished, VerdictInv, RunInv, LoopInv
<1>4. Plan = [r \in Rows |-> IF r \in Sample THEN StatusMap[r] ELSE "not_probed"]
  BY <1>3 DEF Plan
<1>5. CASE SaveCsv
  <2>1. (phase = "raised")' = (phase = "raised")
    BY <1>1, <1>5 DEF SaveCsv
  <2>2. csv' = Promise!Plan(Rows)
    BY <1>4, <1>5 DEF SaveCsv, Promise!Plan
  <2>3. Promise!Publish
    BY <1>1, <1>2, <1>3, <2>1, <2>2 DEF Promise!Publish
  <2> QED
    BY <2>3 DEF Promise!Next
<1>6. CASE SaveBreaksOff
  <2>1. PICK rows \in SUBSET Rows : csv' = [r \in rows |-> Plan[r]]
    BY <1>6, CutShortAssumption DEF SaveBreaksOff, Restricted, CutShortAssumption
  <2>2. csv' = Promise!Plan(rows)
    BY <1>4, <2>1 DEF Promise!Plan
  <2>3. (phase = "raised")' = TRUE
    BY <1>6 DEF SaveBreaksOff
  <2>4. Promise!Fail
    BY <1>1, <1>2, <1>3, <2>2, <2>3 DEF Promise!Fail
  <2> QED
    BY <2>4 DEF Promise!Next
<1> QED
  BY <1>5, <1>6

(* The two exceptions that leave the output file alone.                    *)
LEMMA ExceptionFails ==
  ASSUME VerdictInv, RejectInput \/ SaveFails
  PROVE  Promise!Next
<1>1. /\ phase \in {"preflight", "saving"}
      /\ phase' = "raised"
      /\ UNCHANGED <<results, notified, csv>>
  BY DEF RejectInput, SaveFails, loopVars, fileVars
<1>2. StatusMap' = StatusMap
  BY <1>1, VerdictsOfResults
<1>3. Promise!Open /\ Promise!Decided \in {{}, Sample}
  BY <1>1, PromiseOpen DEF Finished, VerdictInv, RunInv, LoopInv
<1>4. (phase = "raised")' = TRUE
  BY <1>1
<1>5. Promise!Fail
  BY <1>1, <1>2, <1>3, <1>4 DEF Promise!Fail
<1> QED
  BY <1>5 DEF Promise!Next

LEMMA PromiseStep ==
  ASSUME VerdictInv, [Next]_vars
  PROVE  Promise!Next \/ UNCHANGED promiseVars
<1>1. CASE UNCHANGED <<results, notified, csv>> /\ (phase' = "raised" <=> phase = "raised")
  BY <1>1, VerdictsOfResults DEF promiseVars
<1>2. CASE \E u \in Sample : Collect(u) \/ Sweep(u)
  BY <1>2, CollectDecides
<1>3. CASE NotifySlack \/ NotifyDiscord
  BY <1>3, NotifyAnnounces
<1>4. CASE SaveCsv \/ SaveBreaksOff
  BY <1>4, SavePublishes
<1>5. CASE RejectInput \/ SaveFails
  BY <1>5, ExceptionFails
<1>6. ASSUME NEW u \in Sample, WorkerStep(u) \/ ProbeHangs(u)
      PROVE  UNCHANGED <<phase, results, notified, csv>>
  BY <1>6, WorkerFrame DEF mainVars, loopVars, fileVars
<1>7. MainStep => \/ UNCHANGED <<results, notified, csv>> /\ (phase' = "raised" <=> phase = "raised")
                  \/ \E u \in Sample : Collect(u) \/ Sweep(u)
                  \/ NotifySlack \/ NotifyDiscord
                  \/ SaveCsv \/ SaveBreaksOff
                  \/ RejectInput \/ SaveFails
  BY DEF MainStep, GiveUpQuietly, SubmitSample, WallClockExpires, LeaveLoop,
         PoolShutDown, Report, NotifyRaises, Channels, loopVars, fileVars
<1> QED
  BY <1>1, <1>2, <1>3, <1>4, <1>5, <1>6, <1>7 DEF Next, Terminated, vars

(* A recon run keeps its promise: each URL gets one verdict and keeps it,  *)
(* the channels hear of it only when all are in and one is good, the plan  *)
(* is published once and says exactly the verdicts, and a part of it is    *)
(* left behind only by a run that gave its caller an exception.            *)
THEOREM RunKeepsItsPromise == Spec => PromiseKept
<1>1. VerdictInv /\ [Next]_vars => [Promise!Next]_promiseVars
  BY PromiseStep
<1> QED
  BY <1>1, PromiseInit, VerdictInvariant, PTL DEF Spec, PromiseKept, Promise!Spec, promiseVars
==================================================================================
