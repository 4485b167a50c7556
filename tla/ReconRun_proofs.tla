---------------------------- MODULE ReconRun_proofs ----------------------------
(***************************************************************************)
(* Proofs about ReconRun, for every sample, pool size, threshold and       *)
(* subset of outcomes.                                                     *)
(***************************************************************************)
EXTENDS ReconRun, FiniteSetTheorems, TLAPS

-------------------------------------------------------------------------------
(* Facts about the constants and the operators. *)

(* The size of the pool is a number, and finite sets of URLs have sizes. *)
LEMMA WorkersType == Workers \in Nat
BY SampleAssumption, PoolAssumption, FS_CardinalityType
   DEF SampleAssumption, PoolAssumption, Workers

LEMMA SampleSubset ==
  ASSUME NEW S \in SUBSET Sample
  PROVE  IsFiniteSet(S) /\ Cardinality(S) \in Nat
BY SampleAssumption, FS_Subset, FS_CardinalityType DEF SampleAssumption

(* None of the markers of the model is a status a probe can return. *)
LEMMA OutcomesDistinct ==
  /\ "none" \notin Outcomes
  /\ "raised" \notin Outcomes
  /\ "skipped_circuit_open" \notin Outcomes
BY OutcomesAssumption DEF OutcomesAssumption, AnalyzeStatuses, RequestsStatuses

(* Appending a result touches no earlier one. *)
LEMMA AppendResult ==
  ASSUME NEW T, NEW s \in Seq(T), NEW e \in T
  PROVE  /\ Append(s, e) \in Seq(T)
         /\ DOMAIN Append(s, e) = DOMAIN s \cup {Len(s) + 1}
         /\ Len(s) + 1 \notin DOMAIN s
         /\ \A i \in DOMAIN s : Append(s, e)[i] = s[i]
         /\ Append(s, e)[Len(s) + 1] = e
OBVIOUS

LEMMA ElementType ==
  ASSUME NEW T, NEW s \in Seq(T), NEW i \in DOMAIN s
  PROVE  s[i] \in T
OBVIOUS

(* No URL has two results. *)
OneResultPerUrl ==
  \A i, j \in DOMAIN results : results[i].url = results[j].url => i = j

(* With one result per URL, the last result of u is the result of u. *)
LEMMA StatusMapIsResult ==
  ASSUME OneResultPerUrl, NEW i \in DOMAIN results, results \in Seq([url : Sample, status : ResultStatuses])
  PROVE  StatusMap[results[i].url] = results[i].status
<1> DEFINE u == results[i].url
           IsLast(k) == /\ results[k].url = u
                        /\ \A j \in DOMAIN results : results[j].url = u => j <= k
           last == CHOOSE k \in DOMAIN results : IsLast(k)
<1>1. \A k \in DOMAIN results : results[k].url = u => k = i
  BY DEF OneResultPerUrl
<1>2. IsLast(i)
  BY <1>1
<1>3. last \in DOMAIN results /\ IsLast(last)
  BY <1>2
<1>4. last = i
  BY <1>1, <1>3
<1>5. u \in Collected
  BY DEF Collected
<1> QED
  BY <1>4, <1>5 DEF StatusMap

(* What a future answers is a status the results may hold. *)
LEMMA ResultOfType ==
  ASSUME TypeOK, NEW u \in Sample, outcome[u] # "none"
  PROVE  ResultOf(u) \in [url : Sample, status : ResultStatuses]
BY DEF TypeOK, ResultOf, ResultStatuses

-------------------------------------------------------------------------------
(***************************************************************************)
(* Types, and what the worker threads and the main thread agree on: an     *)
(* outcome is known exactly when a future is past its probe, and a result  *)
(* is read only off a done future or made up by the wall clock.            *)
(***************************************************************************)
HasOutcome ==
  \A u \in Sample : future[u] \in {"answered", "done"} => outcome[u] # "none"

(***************************************************************************)
(* Where the two loops are.  While collecting, what as_completed has left  *)
(* to yield is what has no result yet; while sweeping, the results are of  *)
(* the URLs in done_urls and of those the sweep has come to.  That is why  *)
(* an URL the sweep comes to and does not find in done_urls has none.      *)
(***************************************************************************)
LoopInv ==
  /\ phase = "preflight" => Collected = {}
  /\ phase = "collecting" => remaining = Sample \ Collected
  /\ phase = "sweeping" => Collected = doneUrls \cup (Sample \ remaining)
  /\ phase \in {"draining", "reporting", "slack", "discord", "saving"} => Collected = Sample

RunInv == TypeOK /\ HasOutcome /\ OneResultPerUrl /\ LoopInv

LEMMA RunInvInit == Init => RunInv
BY DEF Init, RunInv, TypeOK, HasOutcome, OneResultPerUrl, LoopInv, Collected, Phases, Channels,
   NoRows

(* The steps of a worker. *)
LEMMA RunInvWorker ==
  ASSUME RunInv, NEW u \in Sample, WorkerStep(u) \/ ProbeHangs(u)
  PROVE  RunInv'
<1>1. UNCHANGED mainVars
  BY DEF WorkerStep, LaunchProbe, SkipOpenCircuit, ProbeReturns, StoreResult, ProbeRaises, ProbeHangs
<1>2. LoopInv' /\ OneResultPerUrl'
  <2>1. UNCHANGED <<phase, remaining, doneUrls, results>>
    BY <1>1 DEF mainVars, loopVars
  <2>2. Collected' = Collected
    BY <2>1 DEF Collected
  <2> QED
    BY <2>1, <2>2 DEF RunInv, LoopInv, OneResultPerUrl
<1>3. TypeOK' /\ HasOutcome'
  <2> USE DEF RunInv, TypeOK, HasOutcome, mainVars, loopVars, fileVars
  <2>1. CASE LaunchProbe(u)
    BY <2>1 DEF LaunchProbe
  <2>2. CASE SkipOpenCircuit(u)
    BY <2>2 DEF SkipOpenCircuit
  <2>3. ASSUME NEW s \in Outcomes, ProbeReturns(u, s) PROVE TypeOK' /\ HasOutcome'
    <3>1. StrikesAfter(HostOf[u], s) \in Nat
      BY SampleAssumption DEF SampleAssumption, StrikesAfter
    <3> QED
      BY <2>3, <3>1, OutcomesDistinct DEF ProbeReturns
  <2>4. CASE StoreResult(u)
    BY <2>4 DEF StoreResult
  <2>5. CASE ProbeRaises(u)
    BY <2>5 DEF ProbeRaises
  <2>6. CASE ProbeHangs(u)
    BY <2>6 DEF ProbeHangs
  <2> QED
    BY <2>1, <2>2, <2>3, <2>4, <2>5, <2>6 DEF WorkerStep
<1> QED
  BY <1>2, <1>3 DEF RunInv

(* A result for a URL that has none keeps the results one per URL. *)
LEMMA OneMoreResult ==
  ASSUME RunInv, NEW e \in [url : Sample, status : ResultStatuses],
         e.url \notin Collected, results' = Append(results, e)
  PROVE  /\ results' \in Seq([url : Sample, status : ResultStatuses])
         /\ OneResultPerUrl'
         /\ Collected' = Collected \cup {e.url}
<1>1. results \in Seq([url : Sample, status : ResultStatuses])
  BY DEF RunInv, TypeOK
<1>2. \A i \in DOMAIN results : results[i].url # e.url
  BY DEF Collected
<1>3. /\ results' \in Seq([url : Sample, status : ResultStatuses])
      /\ DOMAIN results' = DOMAIN results \cup {Len(results) + 1}
      /\ \A i \in DOMAIN results : results'[i] = results[i]
      /\ results'[Len(results) + 1] = e
  BY <1>1, AppendResult
<1>4. Collected' = Collected \cup {e.url}
  BY <1>3 DEF Collected
<1> QED
  BY <1>2, <1>3, <1>4 DEF RunInv, OneResultPerUrl

(* What is collected is sampled. *)
LEMMA CollectedSampled == TypeOK => Collected \subseteq Sample
<1> SUFFICES ASSUME TypeOK, NEW i \in DOMAIN results PROVE results[i].url \in Sample
  BY DEF Collected
<1>1. results[i] \in [url : Sample, status : ResultStatuses]
  BY ElementType DEF TypeOK
<1> QED
  BY <1>1

(* The URL a loop comes to has no result, unless done_urls says so; the    *)
(* loop adds what it reads off the future, or the timeout.                 *)
LEMMA LoopStep ==
  ASSUME RunInv, NEW u \in Sample, Collect(u) \/ Sweep(u)
  PROVE  /\ RunInv'
         /\ \/ phase = "sweeping" /\ u \in doneUrls /\ results' = results
            \/ /\ u \notin Collected
               /\ \E e \in [url : Sample, status : ResultStatuses] :
                    /\ e = IF future[u] = "done" THEN ResultOf(u) ELSE TimedOut(u)
                    /\ e.url = u
                    /\ results' = Append(results, e)
<1> DEFINE e == IF future[u] = "done" THEN ResultOf(u) ELSE TimedOut(u)
<1> USE DEF RunInv, HasOutcome, workerVars, fileVars
<1>1. e \in [url : Sample, status : ResultStatuses] /\ e.url = u
  BY ResultOfType DEF ResultOf, TimedOut, ResultStatuses
<1>2. CASE Collect(u)
  <2>1. u \notin Collected /\ results' = Append(results, e)
    BY <1>2 DEF Collect, LoopInv
  <2>2. /\ results' \in Seq([url : Sample, status : ResultStatuses])
        /\ OneResultPerUrl'
        /\ Collected' = Collected \cup {u}
    BY <1>1, <2>1, OneMoreResult
  <2>3. LoopInv'
    BY <1>2, <2>2 DEF Collect, LoopInv
  <2>4. TypeOK'
    BY <1>2, <2>2 DEF Collect, TypeOK
  <2> QED
    BY <1>1, <1>2, <2>1, <2>2, <2>3, <2>4 DEF Collect
<1>3. CASE Sweep(u) /\ u \in doneUrls
  <2>1. results' = results /\ Collected' = Collected
    BY <1>3 DEF Sweep, Collected
  <2>2. LoopInv'
    BY <1>3, <2>1 DEF Sweep, LoopInv
  <2>3. TypeOK' /\ OneResultPerUrl'
    BY <1>3, <2>1 DEF Sweep, TypeOK, OneResultPerUrl
  <2> QED
    BY <1>3, <2>1, <2>2, <2>3 DEF Sweep
<1>4. CASE Sweep(u) /\ u \notin doneUrls
  <2>1. u \notin Collected /\ results' = Append(results, e)
    BY <1>4 DEF Sweep, LoopInv
  <2>2. /\ results' \in Seq([url : Sample, status : ResultStatuses])
        /\ OneResultPerUrl'
        /\ Collected' = Collected \cup {u}
    BY <1>1, <2>1, OneMoreResult
  <2>3. LoopInv'
    BY <1>4, <2>2 DEF Sweep, LoopInv
  <2>4. TypeOK'
    BY <1>4, <2>2 DEF Sweep, TypeOK
  <2> QED
    BY <1>1, <1>4, <2>1, <2>2, <2>3, <2>4 DEF Sweep
<1> QED
  BY <1>2, <1>3, <1>4

(* What is put into the plan is a status, or not_probed. *)
LEMMA PlanType ==
  ASSUME RunInv
  PROVE  /\ DOMAIN Plan = Rows
         /\ \A r \in Rows : Plan[r] \in ResultStatuses \cup {"not_probed"}
<1>1. ASSUME NEW r \in Collected PROVE StatusMap[r] \in ResultStatuses
  <2>1. PICK i \in DOMAIN results : results[i].url = r
    BY <1>1 DEF Collected
  <2>2. results[i] \in [url : Sample, status : ResultStatuses]
    BY <2>1, ElementType DEF RunInv, TypeOK
  <2> QED
    BY <2>1, <2>2, StatusMapIsResult DEF RunInv, TypeOK
<1> QED
  BY <1>1 DEF Plan

(* The steps of the main thread. *)
LEMMA RunInvMain ==
  ASSUME RunInv, MainStep
  PROVE  RunInv'
<1> USE DEF RunInv, HasOutcome, workerVars
<1>1. ASSUME NEW u \in Sample, Collect(u) \/ Sweep(u) PROVE RunInv'
  BY <1>1, LoopStep
<1>2. CASE SaveCsv \/ SaveBreaksOff
  <2>1. Collected' = Collected
    BY <1>2 DEF SaveCsv, SaveBreaksOff, loopVars, Collected
  <2>2. PICK rows \in SUBSET Rows : csv' = [r \in rows |-> Plan[r]]
    <3>1. CASE SaveCsv
      <4>1. csv' = Plan
        BY <3>1 DEF SaveCsv
      <4>2. Plan = [r \in Rows |-> Plan[r]]
        BY DEF Plan
      <4> QED
        BY <4>1, <4>2
    <3>2. CASE SaveBreaksOff
      BY <3>2, CutShortAssumption DEF SaveBreaksOff, Restricted, CutShortAssumption
    <3> QED
      BY <1>2, <3>1, <3>2
  <2>3. /\ DOMAIN csv' \subseteq Rows
        /\ \A r \in DOMAIN csv' : csv'[r] \in ResultStatuses \cup {"not_probed"}
    BY <2>2, PlanType
  <2> QED
    BY <1>2, <2>1, <2>3 DEF SaveCsv, SaveBreaksOff, loopVars, TypeOK, OneResultPerUrl, LoopInv, Phases
<1>3. CASE SubmitSample \/ WallClockExpires \/ LeaveLoop
  <2>1. Collected' = Collected
    BY <1>3 DEF SubmitSample, WallClockExpires, LeaveLoop, loopVars, Collected
  <2>2. LoopInv'
    BY <1>3, <2>1, CollectedSampled DEF SubmitSample, WallClockExpires, LeaveLoop, loopVars, LoopInv
  <2> QED
    BY <1>3, <2>2, CollectedSampled DEF SubmitSample, WallClockExpires, LeaveLoop, loopVars, fileVars,
       TypeOK, OneResultPerUrl, Phases, NotDone
<1>4. CASE RejectInput \/ GiveUpQuietly \/ PoolShutDown \/ Report \/ SaveFails
  BY <1>4 DEF RejectInput, GiveUpQuietly, PoolShutDown, Report, SaveFails, loopVars, fileVars,
     TypeOK, OneResultPerUrl, LoopInv, Collected, Phases
<1>5. CASE NotifySlack \/ NotifyDiscord \/ NotifyRaises
  <2>1. Collected' = Collected
    BY <1>5 DEF NotifySlack, NotifyDiscord, NotifyRaises, Notify, loopVars, Collected
  <2>2. LoopInv'
    BY <1>5, <2>1 DEF NotifySlack, NotifyDiscord, NotifyRaises, Notify, loopVars, LoopInv, Channels
  <2>3. TypeOK' /\ OneResultPerUrl'
    BY <1>5 DEF NotifySlack, NotifyDiscord, NotifyRaises, Notify, loopVars, fileVars,
       TypeOK, OneResultPerUrl, Phases, Channels
  <2> QED
    BY <1>5, <2>2, <2>3 DEF NotifySlack, NotifyDiscord, NotifyRaises, Notify
<1> QED
  BY <1>1, <1>2, <1>3, <1>4, <1>5 DEF MainStep

LEMMA RunInvNext ==
  ASSUME RunInv, [Next]_vars
  PROVE  RunInv'
<1>1. CASE UNCHANGED vars
  <2>1. Collected' = Collected
    BY <1>1 DEF vars, Collected
  <2>2. TypeOK'
    BY <1>1 DEF vars, RunInv, TypeOK
  <2> QED
    BY <1>1, <2>1, <2>2 DEF vars, RunInv, HasOutcome, OneResultPerUrl, LoopInv
<1> QED
  BY <1>1, RunInvWorker, RunInvMain DEF Next, Terminated

LEMMA RunInvariant == Spec => []RunInv
BY RunInvInit, RunInvNext, PTL DEF Spec

(* Every variable of the run keeps its type, whatever the threads do. *)
THEOREM TypeCorrect == Spec => []TypeOK
<1>1. RunInv => TypeOK
  BY DEF RunInv
<1> QED
  BY <1>1, RunInvariant, PTL

(* Between the two loops over the futures no URL is lost or counted twice, *)
(* whenever the wall clock expires and whatever finishes meanwhile.        *)
THEOREM EveryUrlHasItsResult == Spec => []EachUrlOnce
<1>1. RunInv => EachUrlOnce
  <2> SUFFICES ASSUME RunInv, phase \in {"draining", "reporting", "slack", "discord", "saving"},
                      NEW u \in Sample
               PROVE  \E i \in DOMAIN results :
                        \A j \in DOMAIN results : results[j].url = u <=> j = i
    BY DEF EachUrlOnce
  <2>1. u \in Collected
    BY DEF RunInv, LoopInv
  <2>2. PICK i \in DOMAIN results : results[i].url = u
    BY <2>1 DEF Collected
  <2>3. \A j \in DOMAIN results : results[j].url = u <=> j = i
    BY <2>2 DEF RunInv, OneResultPerUrl
  <2> QED
    BY <2>3
<1> QED
  BY <1>1, RunInvariant, PTL

-------------------------------------------------------------------------------
(***************************************************************************)
(* The circuit breaker.  DamageCap and SkipJustified speak of outcomes;    *)
(* what is inductive is the budget of a host: its strikes, plus the probes *)
(* of it that could still become strikes, never exceed one short of the    *)
(* threshold plus a full pool.  A probe is only launched below the         *)
(* threshold and by a free worker, so the budget can grow up to that and   *)
(* no further; a probe that returns moves at most from one term to the     *)
(* other; and a success can only shrink it.                                *)
(***************************************************************************)
InFlight(h) == {u \in Sample : HostOf[u] = h /\ future[u] = "probing"}

(* A future that has not been answered has no outcome. *)
NoEarlyOutcome ==
  \A u \in Sample : future[u] \in {"queued", "probing", "hung"} => outcome[u] = "none"

PoolBound == Cardinality(Busy) <= Workers

Budget ==
  \A h \in Hosts : strikes[h] + Cardinality(InFlight(h)) <= (Threshold - 1) + Workers

(* The counter is the number of strikes, less those a success forgave. *)
StrikesCounted ==
  \A h \in Hosts :
    /\ strikes[h] <= Cardinality(Struck(h))
    /\ ~ Answered(h) => strikes[h] = Cardinality(Struck(h))

BreakerInv ==
  /\ TypeOK
  /\ NoEarlyOutcome
  /\ PoolBound
  /\ Budget
  /\ StrikesCounted
  /\ SkipJustified

LEMMA BreakerInvInit == Init => BreakerInv
<1> SUFFICES ASSUME Init PROVE BreakerInv
  OBVIOUS
<1>1. TypeOK
  BY RunInvInit DEF RunInv
<1>2. Busy = {} /\ \A h \in Hosts : InFlight(h) = {} /\ Struck(h) = {}
  BY DEF Init, Busy, InFlight, Struck, CircuitStrikeStatuses
<1>3. Threshold - 1 + Workers \in Nat
  BY PoolAssumption, WorkersType DEF PoolAssumption
<1>4. Cardinality({}) = 0
  BY FS_EmptySet
<1>5. PoolBound
  BY <1>2, <1>4, WorkersType DEF PoolBound
<1>6. \A h \in Hosts : /\ strikes[h] = 0
                      /\ Cardinality(InFlight(h)) = 0
                      /\ Cardinality(Struck(h)) = 0
  <2>1. strikes = [h \in Hosts |-> 0]
    BY DEF Init
  <2> QED
    BY <1>2, <1>4, <2>1
<1>8. Budget /\ StrikesCounted
  BY <1>3, <1>6 DEF Budget, StrikesCounted
<1>7. NoEarlyOutcome /\ SkipJustified
  BY DEF Init, NoEarlyOutcome, SkipJustified
<1> QED
  BY <1>1, <1>5, <1>7, <1>8 DEF BreakerInv

(* Dequeuing u: the pool had a free thread, and u joins the flight. *)
LEMMA BreakerInvLaunch ==
  ASSUME BreakerInv, TypeOK', NEW u \in Sample, LaunchProbe(u)
  PROVE  BreakerInv'
<1> USE DEF LaunchProbe, FreeWorkerFor, mainVars
<1>1. HostOf[u] \in Hosts /\ \A h \in Hosts : strikes[h] \in Nat
  BY SampleAssumption DEF SampleAssumption, BreakerInv, TypeOK
<1>2. \A v \in Sample : future'[v] = IF v = u THEN "probing" ELSE future[v]
  BY DEF BreakerInv, TypeOK
<1>3. Busy' = Busy \cup {u} /\ u \notin Busy
  BY <1>2 DEF Busy
<1>4. PoolBound'
  <2>1. Cardinality(Busy') = Cardinality(Busy) + 1
    BY <1>3, SampleSubset, FS_AddElement DEF Busy
  <2> QED
    BY <2>1, SampleSubset, WorkersType DEF PoolBound, Workers, Busy
<1>5. Budget'
  <2> SUFFICES ASSUME NEW h \in Hosts
               PROVE  strikes'[h] + Cardinality(InFlight(h)') <= (Threshold - 1) + Workers
    BY DEF Budget, Workers
  <2>1. CASE h = HostOf[u]
    <3>1. InFlight(h)' = InFlight(h) \cup {u} /\ u \notin InFlight(h)
      BY <1>2, <2>1 DEF InFlight
    <3>2. Cardinality(InFlight(h)') = Cardinality(InFlight(h)) + 1
      BY <3>1, SampleSubset, FS_AddElement DEF InFlight
    <3>3. Cardinality(InFlight(h)) <= Cardinality(Busy)
      BY SampleSubset, FS_Subset DEF InFlight, Busy
    <3>4. /\ Cardinality(InFlight(h)) \in Nat
          /\ Cardinality(Busy) \in Nat
      BY SampleSubset DEF InFlight, Busy
    <3> QED
      BY <1>1, <2>1, <3>2, <3>3, <3>4, WorkersType, PoolAssumption DEF IsOpen, PoolAssumption
  <2>2. CASE h # HostOf[u]
    <3>1. InFlight(h)' = InFlight(h)
      BY <1>2, <2>2 DEF InFlight
    <3> QED
      BY <3>1 DEF BreakerInv, Budget
  <2> QED
    BY <2>1, <2>2
<1>6. NoEarlyOutcome' /\ StrikesCounted' /\ SkipJustified'
  BY <1>2 DEF BreakerInv, NoEarlyOutcome, StrikesCounted, SkipJustified, Struck, Answered
<1> QED
  BY <1>4, <1>5, <1>6 DEF BreakerInv

(* Recording a status: a strike moves from the flight to the counter, a    *)
(* success clears the counter.                                             *)
LEMMA BreakerInvReturn ==
  ASSUME BreakerInv, TypeOK', NEW u \in Sample, NEW s \in Outcomes, ProbeReturns(u, s)
  PROVE  BreakerInv'
<1> USE DEF ProbeReturns, mainVars
<1>1. HostOf[u] \in Hosts /\ \A h \in Hosts : strikes[h] \in Nat
  BY SampleAssumption DEF SampleAssumption, BreakerInv, TypeOK
<1>2. /\ future'[u] = "answered" /\ outcome'[u] = s
      /\ \A v \in Sample \ {u} : future'[v] = future[v] /\ outcome'[v] = outcome[v]
  <2>1. /\ future \in [Sample -> {"queued", "probing", "hung", "answered", "done"}]
        /\ outcome \in [Sample -> Outcomes \cup {"none", "raised", "skipped_circuit_open"}]
    BY DEF BreakerInv, TypeOK
  <2> QED
    BY <2>1
<1>3. \A h \in Hosts :
        strikes'[h] = IF h = HostOf[u] THEN StrikesAfter(h, s) ELSE strikes[h]
  BY DEF BreakerInv, TypeOK
<1>4. outcome[u] = "none"
  BY DEF BreakerInv, NoEarlyOutcome
<1>5. PoolBound'
  <2>1. Busy' = Busy
    BY <1>2 DEF Busy
  <2> QED
    BY <2>1 DEF BreakerInv, PoolBound, Workers
<1>6. \A h \in Hosts \ {HostOf[u]} : /\ InFlight(h)' = InFlight(h)
                                     /\ Struck(h)' = Struck(h)
                                     /\ Answered(h)' = Answered(h)
  BY <1>2 DEF InFlight, Struck, Answered
<1> DEFINE g == HostOf[u]
<1>7. Cardinality(InFlight(g)') = Cardinality(InFlight(g)) - 1
  <2>1. InFlight(g)' = InFlight(g) \ {u} /\ u \in InFlight(g)
    BY <1>2 DEF InFlight
  <2> QED
    BY <2>1, SampleSubset, FS_RemoveElement DEF InFlight
<1>8. Cardinality(Struck(g)') = IF s \in CircuitStrikeStatuses
                                THEN Cardinality(Struck(g)) + 1
                                ELSE Cardinality(Struck(g))
  <2>1. u \notin Struck(g)
    BY <1>4 DEF Struck, CircuitStrikeStatuses
  <2>2. Struck(g)' = IF s \in CircuitStrikeStatuses THEN Struck(g) \cup {u} ELSE Struck(g)
    <3>1. \A v \in Sample : v \in Struck(g)' <=>
             HostOf[v] = g /\ outcome'[v] \in CircuitStrikeStatuses
      BY DEF Struck
    <3>2. Struck(g) \subseteq Sample /\ Struck(g)' \subseteq Sample
      BY DEF Struck
    <3>3. \A v \in Sample : v \in Struck(g) <=>
             HostOf[v] = g /\ outcome[v] \in CircuitStrikeStatuses
      BY DEF Struck
    <3>4. CASE s \in CircuitStrikeStatuses
      BY <1>2, <2>1, <3>1, <3>2, <3>3, <3>4
    <3>5. CASE s \notin CircuitStrikeStatuses
      BY <1>2, <2>1, <3>1, <3>2, <3>3, <3>5
    <3> QED
      BY <3>4, <3>5
  <2> QED
    BY <2>1, <2>2, SampleSubset, FS_AddElement DEF Struck
<1>9. Answered(g)' <=> (s = "ok" \/ Answered(g))
  <2>1. CASE s = "ok"
    BY <1>2, <2>1 DEF Answered
  <2>2. ASSUME s # "ok", Answered(g)' PROVE Answered(g)
    BY <1>2, <2>2 DEF Answered
  <2>3. ASSUME Answered(g) PROVE Answered(g)'
    BY <1>2, <1>4, <2>3 DEF Answered
  <2> QED
    BY <2>1, <2>2, <2>3
<1>10. \A h \in Hosts : /\ Cardinality(InFlight(h)) \in Nat
                         /\ Cardinality(Struck(h)) \in Nat
  BY SampleSubset DEF InFlight, Struck
<1>11. "ok" \notin CircuitStrikeStatuses
  BY DEF CircuitStrikeStatuses
<1>12. Budget'
  <2>1. \A h \in Hosts \ {g} :
          strikes'[h] + Cardinality(InFlight(h)') <= (Threshold - 1) + Workers
    BY <1>3, <1>6 DEF BreakerInv, Budget
  <2>2. strikes'[g] + Cardinality(InFlight(g)') <= (Threshold - 1) + Workers
    <3>1. strikes[g] + Cardinality(InFlight(g)) <= (Threshold - 1) + Workers
      BY <1>1 DEF BreakerInv, Budget
    <3>2. strikes'[g] <= strikes[g] + 1 /\ strikes'[g] \in Nat
      BY <1>1, <1>3 DEF StrikesAfter
    <3> QED
      BY <1>1, <1>7, <1>10, <3>1, <3>2, WorkersType, PoolAssumption DEF PoolAssumption
  <2> QED
    BY <2>1, <2>2 DEF Budget, Workers
<1>13. StrikesCounted'
  <2>1. \A h \in Hosts \ {g} :
          /\ strikes'[h] <= Cardinality(Struck(h)')
          /\ ~ Answered(h)' => strikes'[h] = Cardinality(Struck(h)')
    BY <1>3, <1>6 DEF BreakerInv, StrikesCounted
  <2>2. /\ strikes'[g] <= Cardinality(Struck(g)')
        /\ ~ Answered(g)' => strikes'[g] = Cardinality(Struck(g)')
    <3>1. /\ strikes[g] <= Cardinality(Struck(g))
          /\ ~ Answered(g) => strikes[g] = Cardinality(Struck(g))
      BY <1>1 DEF BreakerInv, StrikesCounted
    <3> QED
      BY <1>1, <1>3, <1>8, <1>9, <1>10, <1>11, <3>1 DEF StrikesAfter
  <2> QED
    BY <2>1, <2>2 DEF StrikesCounted
<1>14. SkipJustified'
  <2> SUFFICES ASSUME NEW v \in Sample, outcome'[v] = "skipped_circuit_open"
               PROVE  Cardinality(Struck(HostOf[v])') >= Threshold
    BY DEF SkipJustified
  <2>1. Cardinality(Struck(HostOf[v])) >= Threshold
    BY <1>2, OutcomesDistinct DEF BreakerInv, SkipJustified
  <2>2. HostOf[v] \in Hosts
    BY SampleAssumption DEF SampleAssumption
  <2> QED
    BY <1>6, <1>8, <1>10, <2>1, <2>2, PoolAssumption DEF PoolAssumption
<1>15. NoEarlyOutcome'
  BY <1>2 DEF BreakerInv, NoEarlyOutcome
<1> QED
  BY <1>5, <1>12, <1>13, <1>14, <1>15 DEF BreakerInv

(* The steps that leave the counters alone: skipping, storing, raising,    *)
(* hanging.                                                                *)
LEMMA BreakerInvOther ==
  ASSUME BreakerInv, TypeOK', NEW u \in Sample,
         SkipOpenCircuit(u) \/ StoreResult(u) \/ ProbeRaises(u) \/ ProbeHangs(u)
  PROVE  BreakerInv'
<1> USE DEF SkipOpenCircuit, StoreResult, ProbeRaises, ProbeHangs, FreeWorkerFor, mainVars
<1>1. HostOf[u] \in Hosts /\ \A h \in Hosts : strikes[h] \in Nat
  BY SampleAssumption DEF SampleAssumption, BreakerInv, TypeOK
<1>2. /\ strikes' = strikes
      /\ \A v \in Sample \ {u} : future'[v] = future[v] /\ outcome'[v] = outcome[v]
  BY DEF BreakerInv, TypeOK
<1>3. \/ future[u] = "queued" /\ future'[u] = "answered" /\ outcome'[u] = "skipped_circuit_open"
      \/ future[u] = "answered" /\ future'[u] = "done" /\ outcome'[u] = outcome[u]
      \/ future[u] = "probing" /\ future'[u] = "done" /\ outcome'[u] = "raised"
      \/ future[u] = "probing" /\ future'[u] = "hung" /\ outcome'[u] = outcome[u]
  BY DEF BreakerInv, TypeOK
<1>4. future[u] \in {"queued", "probing"} => outcome[u] = "none"
  BY DEF BreakerInv, NoEarlyOutcome
<1>5. \A h \in Hosts : Struck(h)' = Struck(h) /\ Answered(h)' = Answered(h)
  BY <1>2, <1>3, <1>4 DEF Struck, Answered, CircuitStrikeStatuses
<1>6. \A h \in Hosts : Cardinality(InFlight(h)') <= Cardinality(InFlight(h))
  <2> SUFFICES ASSUME NEW h \in Hosts
               PROVE  Cardinality(InFlight(h)') <= Cardinality(InFlight(h))
    OBVIOUS
  <2>1. InFlight(h)' \subseteq InFlight(h)
    BY <1>2, <1>3 DEF InFlight
  <2> QED
    BY <2>1, SampleSubset, FS_Subset DEF InFlight
<1>7. Budget'
  <2> SUFFICES ASSUME NEW h \in Hosts
               PROVE  strikes[h] + Cardinality(InFlight(h)') <= (Threshold - 1) + Workers
    BY <1>2 DEF Budget, Workers
  <2>1. /\ Cardinality(InFlight(h)) \in Nat
        /\ Cardinality(InFlight(h)') \in Nat
    BY SampleSubset DEF InFlight
  <2>2. strikes[h] + Cardinality(InFlight(h)) <= (Threshold - 1) + Workers
    BY DEF BreakerInv, Budget
  <2> QED
    BY <1>1, <1>6, <2>1, <2>2, WorkersType, PoolAssumption DEF PoolAssumption
<1>8. PoolBound'
  <2>1. CASE SkipOpenCircuit(u)
    <3>1. Busy' = Busy \cup {u} /\ u \notin Busy
      BY <1>2, <1>3, <2>1 DEF Busy
    <3>2. Cardinality(Busy') = Cardinality(Busy) + 1 /\ Cardinality(Busy) \in Nat
      BY <3>1, SampleSubset, FS_AddElement DEF Busy
    <3> QED
      BY <2>1, <3>2, WorkersType DEF PoolBound, Workers
  <2>2. CASE ~ SkipOpenCircuit(u)
    <3>1. Busy' \subseteq Busy
      BY <1>2, <1>3, <2>2 DEF Busy
    <3>2. Cardinality(Busy') <= Cardinality(Busy) /\ Cardinality(Busy') \in Nat /\ Cardinality(Busy) \in Nat
      BY <3>1, SampleSubset, FS_Subset DEF Busy
    <3> QED
      BY <3>2, WorkersType DEF BreakerInv, PoolBound, Workers
  <2> QED
    BY <2>1, <2>2
<1>9. StrikesCounted'
  BY <1>2, <1>5 DEF BreakerInv, StrikesCounted
<1>10. SkipJustified'
  <2> SUFFICES ASSUME NEW v \in Sample, outcome'[v] = "skipped_circuit_open"
               PROVE  Cardinality(Struck(HostOf[v])') >= Threshold
    BY DEF SkipJustified
  <2>1. HostOf[v] \in Hosts
    BY SampleAssumption DEF SampleAssumption
  <2>2. CASE outcome[v] = "skipped_circuit_open"
    BY <1>5, <2>1, <2>2 DEF BreakerInv, SkipJustified
  <2>3. CASE outcome[v] # "skipped_circuit_open"
    <3>1. v = u /\ SkipOpenCircuit(u)
      BY <1>2, <1>3, <2>3
    <3>2. strikes[HostOf[v]] <= Cardinality(Struck(HostOf[v])) /\ Cardinality(Struck(HostOf[v])) \in Nat
      BY <2>1, SampleSubset DEF BreakerInv, StrikesCounted, Struck
    <3> QED
      BY <1>1, <1>5, <3>1, <3>2, PoolAssumption DEF IsOpen, PoolAssumption
  <2> QED
    BY <2>2, <2>3
<1>11. NoEarlyOutcome'
  BY <1>2, <1>3 DEF BreakerInv, NoEarlyOutcome
<1> QED
  BY <1>7, <1>8, <1>9, <1>10, <1>11 DEF BreakerInv

LEMMA BreakerInvNext ==
  ASSUME BreakerInv, TypeOK', [Next]_vars
  PROVE  BreakerInv'
<1>1. CASE UNCHANGED workerVars
  BY <1>1 DEF workerVars, BreakerInv, NoEarlyOutcome, PoolBound, Budget, StrikesCounted,
              SkipJustified, Busy, InFlight, Struck, Answered, Workers
<1>2. ASSUME NEW u \in Sample, WorkerStep(u) \/ ProbeHangs(u) PROVE BreakerInv'
  BY <1>2, BreakerInvLaunch, BreakerInvReturn, BreakerInvOther DEF WorkerStep
<1>3. MainStep => UNCHANGED workerVars
  BY DEF MainStep, RejectInput, GiveUpQuietly, SubmitSample, Collect, WallClockExpires, Sweep,
         LeaveLoop, PoolShutDown, Report, NotifySlack, NotifyDiscord, Notify, NotifyRaises,
         SaveCsv, SaveBreaksOff, SaveFails
<1>4. UNCHANGED vars => UNCHANGED workerVars
  BY DEF vars, workerVars
<1> QED
  BY <1>1, <1>2, <1>3, <1>4 DEF Next, Terminated

LEMMA BreakerInvariant == Spec => []BreakerInv
BY BreakerInvInit, BreakerInvNext, TypeCorrect, PTL DEF Spec

(* For every sample, pool and threshold: a host that never answers costs   *)
(* at most Threshold - 1 strikes and one wave of workers.                  *)
THEOREM BreakerCapsDamage == Spec => []DamageCap
<1>1. BreakerInv => DamageCap
  <2> SUFFICES ASSUME BreakerInv, NEW h \in Hosts, ~ Answered(h)
               PROVE  Cardinality(Struck(h)) <= (Threshold - 1) + Workers
    BY DEF DamageCap
  <2>1. strikes[h] = Cardinality(Struck(h))
    BY DEF BreakerInv, StrikesCounted
  <2>2. Cardinality(InFlight(h)) \in Nat /\ Cardinality(Struck(h)) \in Nat
    BY SampleSubset DEF InFlight, Struck
  <2> QED
    BY <2>1, <2>2, WorkersType, PoolAssumption DEF BreakerInv, Budget, PoolAssumption
<1> QED
  BY <1>1, BreakerInvariant, PTL

(* A URL is skipped only on the evidence of a full threshold of strikes.   *)
THEOREM SkipsAreJustified == Spec => []SkipJustified
<1>1. BreakerInv => SkipJustified
  BY DEF BreakerInv
<1> QED
  BY <1>1, BreakerInvariant, PTL
=================================================================================
