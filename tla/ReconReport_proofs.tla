--------------------------- MODULE ReconReport_proofs ---------------------------
(***************************************************************************)
(* What the channels were told agrees with the plan that is written after  *)
(* them, for every sample, pool size, set of pages and wall clock.         *)
(***************************************************************************)
EXTENDS ReconReport, ReconPromise_proofs, FunctionTheorems

-------------------------------------------------------------------------------
(***************************************************************************)
(* The vote is over before the plan exists, on the results themselves;     *)
(* with one result per URL it comes to the same.                           *)
(***************************************************************************)
Voted == phase \in {"slack", "discord"} \/ notified # {}

Elected ==
  /\ winner \in MostFrequent
  /\ warned <=> NoMajority(winner)

ElectInv ==
  Voted => /\ phase \notin {"preflight", "collecting", "sweeping", "draining", "reporting"}
           /\ Elected

LEMMA ReportInvInit == ReportInit => ElectInv
BY DEF ReportInit, Init, ElectInv, Voted

(* Outside the pool no probe answers, so no page is classified. *)
LEMMA VoteStands ==
  ASSUME VerdictInv, [ReportNext]_reportVars,
         phase \notin {"preflight", "collecting", "sweeping", "draining"}
  PROVE  /\ UNCHANGED <<workerVars, results, tech>>
         /\ \/ phase' = phase
            \/ phase' \notin {"preflight", "collecting", "sweeping", "draining", "reporting"}
<1>1. [Next]_vars
  BY DEF ReportNext, reportVars
<1>2. ~ PoolRunning
  BY DEF PoolRunning
<1>3. ~ \E u \in Sample : WorkerStep(u) \/ ProbeHangs(u)
  BY <1>2, WorkerFrame
<1>4. MainStep =>
        /\ UNCHANGED <<workerVars, results>>
        /\ phase' \notin {"preflight", "collecting", "sweeping", "draining", "reporting"}
  BY DEF MainStep, RejectInput, GiveUpQuietly, SubmitSample, Collect, Sweep, WallClockExpires,
         LeaveLoop, PoolShutDown, Report, NotifySlack, NotifyDiscord, Notify, NotifyRaises,
         SaveCsv, SaveBreaksOff, SaveFails, loopVars
<1>5. /\ UNCHANGED <<workerVars, results>>
      /\ \/ phase' = phase
         \/ phase' \notin {"preflight", "collecting", "sweeping", "draining", "reporting"}
  BY <1>1, <1>3, <1>4 DEF Next, Terminated, vars, workerVars
<1>6. tech' = tech
  <2>1. {u \in Sample : outcome[u] = "none" /\ outcome'[u] = "ok"} = {}
    BY <1>5 DEF workerVars
  <2>2. ReportNext => tech' = tech
    BY <2>1 DEF ReportNext, Classify
  <2> QED
    BY <2>2 DEF reportVars
<1> QED
  BY <1>5, <1>6

(* The result of the vote depends on the results and the stacks found. *)
LEMMA SameVote ==
  ASSUME UNCHANGED <<results, tech>>
  PROVE  MostFrequent' = MostFrequent /\ \A s : NoMajority(s)' = NoMajority(s)
<1>1. OkResults' = OkResults
  BY DEF OkResults
<1>2. \A s : Count(s)' = Count(s)
  BY <1>1 DEF Count
<1>3. Detected' = Detected
  BY <1>1 DEF Detected
<1> QED
  BY <1>1, <1>2, <1>3 DEF MostFrequent, NoMajority

LEMMA ElectNext == VerdictInv /\ ElectInv /\ [ReportNext]_reportVars => ElectInv'
<1> SUFFICES ASSUME VerdictInv, ElectInv, [ReportNext]_reportVars, Voted'
             PROVE  /\ phase' \notin {"preflight", "collecting", "sweeping", "draining", "reporting"}
                    /\ Elected'
  BY DEF ElectInv
<1>1. CASE Voted
  <2>1. /\ phase \notin {"preflight", "collecting", "sweeping", "draining", "reporting"}
        /\ Elected
    BY <1>1 DEF ElectInv
  <2>2. /\ UNCHANGED <<results, tech>>
        /\ phase' \notin {"preflight", "collecting", "sweeping", "draining", "reporting"}
    BY <2>1, VoteStands
  <2>3. UNCHANGED <<winner, warned>>
    BY <2>1 DEF ReportNext, Elect, Report, reportVars
  <2>4. MostFrequent' = MostFrequent /\ NoMajority(winner)' = NoMajority(winner)
    BY <2>2, <2>3, SameVote DEF NoMajority, Count
  <2> QED
    BY <2>1, <2>2, <2>3, <2>4 DEF Elected
<1>2. CASE ~ Voted
  <2>1. ReportNext /\ Next
    BY <1>2 DEF ReportNext, reportVars, vars, Voted
  <2>2. ~ \E u \in Sample : WorkerStep(u) \/ ProbeHangs(u)
    <3> SUFFICES ASSUME NEW u \in Sample, WorkerStep(u) \/ ProbeHangs(u) PROVE FALSE
      OBVIOUS
    <3>1. UNCHANGED <<phase, notified>>
      BY WorkerFrame DEF mainVars
    <3> QED
      BY <1>2, <3>1 DEF Voted
  <2>3. Report /\ AnyOk
    BY <1>2, <2>1, <2>2 DEF Voted, Next, Terminated, vars, MainStep, RejectInput, GiveUpQuietly,
       SubmitSample, Collect, Sweep, WallClockExpires, LeaveLoop, PoolShutDown, Report,
       NotifySlack, NotifyDiscord, Notify, NotifyRaises, SaveCsv, SaveBreaksOff, SaveFails
  <2>4. phase = "reporting" /\ phase' = "slack"
    BY <2>3 DEF Report
  <2>5. UNCHANGED <<results, tech>>
    BY <2>4, VoteStands
  <2>6. winner' \in MostFrequent /\ warned' = NoMajority(winner')
    BY <2>1, <2>3 DEF ReportNext, Elect
  <2>7. MostFrequent' = MostFrequent /\ NoMajority(winner)' = NoMajority(winner')
    BY <2>5, SameVote DEF NoMajority, Count, OkResults
  <2> QED
    BY <2>4, <2>6, <2>7 DEF Elected
<1> QED
  BY <1>1, <1>2

-------------------------------------------------------------------------------
(* Counting results and counting their URLs is the same. *)
UrlsOf(I) == {results[i].url : i \in I}

LEMMA SameNumber ==
  ASSUME RunInv, NEW I \in SUBSET DOMAIN results
  PROVE  Cardinality(I) = Cardinality(UrlsOf(I)) /\ Cardinality(I) \in Nat
<1> DEFINE f == [i \in I |-> results[i].url]
           T == [url : Sample, status : ResultStatuses]
<1>1. results \in Seq(T) /\ \A i, j \in DOMAIN results : results[i].url = results[j].url => i = j
  BY DEF RunInv, TypeOK, OneResultPerUrl
<1>2. IsFiniteSet(I)
  <2>1. DOMAIN results = 1 .. Len(results) /\ Len(results) \in Nat
    BY <1>1
  <2>2. IsFiniteSet(1 .. Len(results))
    BY <2>1, FS_Interval
  <2> QED
    BY <2>1, <2>2, FS_Subset
<1>3. f \in [I -> UrlsOf(I)]
  BY DEF UrlsOf
<1>4. \A i, j \in I : f[i] = f[j] => i = j
  BY <1>1
<1>5. \A u \in UrlsOf(I) : \E i \in I : f[i] = u
  BY DEF UrlsOf
<1>6. f \in Bijection(I, UrlsOf(I))
  BY <1>3, <1>4, <1>5, Fun_IsBij
<1>7. ExistsBijection(I, UrlsOf(I))
  BY <1>6 DEF ExistsBijection
<1> QED
  BY <1>2, <1>7, FS_Bijection, FS_CardinalityType

OkUrls == {u \in Sample : csv[u] = "ok"}

(* The rows that say ok are those of the successful results. *)
LEMMA OkRows ==
  ASSUME VerdictInv, output = "whole"
  PROVE  /\ OkUrls = UrlsOf(OkResults)
         /\ \A s : {u \in OkUrls : tech[u] = s}
                     = UrlsOf({i \in OkResults : tech[results[i].url] = s})
<1>1. Collected = Sample /\ DOMAIN csv = Rows /\ \A r \in Rows : csv[r] = Verdict(r)
  BY DEF VerdictInv, FileIsOfThePlan
<1>2. \A i \in DOMAIN results : results[i].url \in Sample /\ csv[results[i].url] = results[i].status
  <2> SUFFICES ASSUME NEW i \in DOMAIN results
               PROVE  results[i].url \in Sample /\ csv[results[i].url] = results[i].status
    OBVIOUS
  <2>1. results[i].url \in Sample
    BY <1>1 DEF Collected
  <2>2. StatusMap[results[i].url] = results[i].status
    BY StatusMapIsResult DEF VerdictInv, RunInv, TypeOK
  <2> QED
    BY <1>1, <2>1, <2>2, SampleAssumption DEF Verdict, SampleAssumption
<1>3. \A u \in Sample : \E i \in DOMAIN results : results[i].url = u
  BY <1>1 DEF Collected
<1>4. OkUrls = UrlsOf(OkResults)
  BY <1>2, <1>3 DEF OkUrls, UrlsOf, OkResults
<1>5. ASSUME NEW s
      PROVE  {u \in OkUrls : tech[u] = s}
               = UrlsOf({i \in OkResults : tech[results[i].url] = s})
  BY <1>4 DEF UrlsOf
<1> QED
  BY <1>4, <1>5

LEMMA VotesCounted ==
  ASSUME VerdictInv, output = "whole"
  PROVE  /\ Cardinality(OkUrls) = Cardinality(OkResults)
         /\ \A s : Cardinality({u \in OkUrls : tech[u] = s}) = Count(s)
<1>1. RunInv /\ OkResults \in SUBSET DOMAIN results
  BY DEF VerdictInv, OkResults
<1>2. ASSUME NEW s PROVE Cardinality({u \in OkUrls : tech[u] = s}) = Count(s)
  <2>1. {i \in OkResults : tech[results[i].url] = s} \in SUBSET DOMAIN results
    BY <1>1
  <2> QED
    BY <1>1, <2>1, OkRows, SameNumber DEF Count
<1> QED
  BY <1>1, <1>2, OkRows, SameNumber

LEMMA ElectedInThePlan == VerdictInv /\ ElectInv => ElectedByThePlan
<1> SUFFICES ASSUME VerdictInv, ElectInv, output = "whole", notified # {}
             PROVE  /\ \E u \in OkUrls : tech[u] = winner
                    /\ \A u \in OkUrls :
                         Cardinality({v \in OkUrls : tech[v] = tech[u]})
                           <= Cardinality({v \in OkUrls : tech[v] = winner})
                    /\ 2 * Cardinality({v \in OkUrls : tech[v] = winner}) < Cardinality(OkUrls)
                         => warned
                    /\ 2 * Cardinality({v \in OkUrls : tech[v] = winner}) > Cardinality(OkUrls)
                         => ~ warned
  BY DEF ElectedByThePlan, OkUrls
<1>1. Elected
  BY DEF ElectInv, Voted
<1>2. Detected = {tech[u] : u \in OkUrls}
  BY OkRows DEF Detected, UrlsOf
<1>3. /\ \A s : Cardinality({u \in OkUrls : tech[u] = s}) = Count(s)
      /\ Cardinality(OkUrls) = Cardinality(OkResults)
  BY VotesCounted
<1>4. \E u \in OkUrls : tech[u] = winner
  BY <1>1, <1>2 DEF Elected, MostFrequent
<1>5. \A u \in OkUrls : Count(tech[u]) <= Count(winner)
  BY <1>1, <1>2 DEF Elected, MostFrequent
<1>6. Count(winner) \in Nat /\ Cardinality(OkResults) \in Nat
  <2>1. /\ OkResults \in SUBSET DOMAIN results
        /\ {i \in OkResults : tech[results[i].url] = winner} \in SUBSET DOMAIN results
    BY DEF OkResults
  <2> QED
    BY <2>1, SameNumber DEF VerdictInv, Count
<1>7. warned <=> 2 * Count(winner) < Cardinality(OkResults)
  BY <1>1 DEF Elected, NoMajority
<1> QED
  BY <1>3, <1>4, <1>5, <1>6, <1>7

-------------------------------------------------------------------------------
(* A run with its report is a run.                                         *)
LEMMA ReportOnlyWatches == ReportSpec => Spec
<1>1. ReportInit => Init
  BY DEF ReportInit
<1>2. [ReportNext]_reportVars => [Next]_vars
  BY DEF ReportNext, reportVars
<1> QED
  BY <1>1, <1>2, PTL DEF ReportSpec, Spec

(* _majority_stack: whatever stack the channels were told, the published   *)
(* plan bears it out, in whatever order the probes ended around the wall   *)
(* clock; the log warns when it has less than half of the plan's ok rows   *)
(* and does not when it has more than half.                                *)
THEOREM PlanBearsOutTheElection == ReportSpec => []ElectedByThePlan
<1>1. ReportSpec => []VerdictInv
  BY ReportOnlyWatches, VerdictInvariant, PTL
<1> QED
  BY <1>1, ReportInvInit, ElectNext, ElectedInThePlan, PTL DEF ReportSpec
================================================================================
