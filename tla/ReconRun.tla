------------------------------- MODULE ReconRun -------------------------------
(***************************************************************************)
(* One call of clean_and_optimize_map (recon/seer.py): the main thread     *)
(* submits the sampled URLs to a thread pool, collects their futures until *)
(* a wall clock expires, sweeps up what is left, leaves the pool, notifies *)
(* and writes the CSV.  The worker threads share the per-host circuit      *)
(* breaker.  What happens inside one probe is module FallbackChain; here a *)
(* probe is a call that returns one of Outcomes, raises, or hangs.         *)
(*                                                                         *)
(* Sample and Rows are sets: the pool's queue, the sweep and the rows of   *)
(* the CSV are taken in any order, which includes the order of the CSV.    *)
(***************************************************************************)
EXTENDS ErrorTaxonomy, Naturals, FiniteSets, Sequences

CONSTANTS
  Rows,           \* the URLs of the CSV after drop_duplicates
  Sample,         \* the first sample_size of them: the URLs to probe
  Hosts,          \* the network locations of the sample
  HostOf,         \* _HostCircuitBreaker._host, on the sample
  PoolSize,       \* the 10 of min(10, len(sample_urls))
  Threshold,      \* CIRCUIT_BREAKER_THRESHOLD
  Outcomes,       \* the statuses a probe may return in this instance
  SocketsMayHang, \* TRUE: a network call may never return
  CutShort        \* the rows a to_csv that breaks off may have written

ASSUME SampleAssumption ==
  /\ Sample \subseteq Rows
  /\ Sample # {}
  /\ IsFiniteSet(Sample)
  /\ HostOf \in [Sample -> Hosts]

ASSUME PoolAssumption ==
  /\ PoolSize \in Nat \ {0}
  /\ Threshold \in Nat \ {0}
  /\ SocketsMayHang \in BOOLEAN

ASSUME OutcomesAssumption == Outcomes \subseteq AnalyzeStatuses

ASSUME CutShortAssumption == CutShort \subseteq SUBSET Rows

VARIABLES
  phase,     \* where the main thread is
  future,    \* how far the future of each sampled URL is
  outcome,   \* what _probe made of it: a status, "raised", or "none" yet
  strikes,   \* _HostCircuitBreaker._strikes, 0 for an absent host
  remaining, \* the URLs whose futures the current loop has not come to
  doneUrls,  \* done_urls, computed once when the wall clock has expired
  late,      \* history: the URLs that were not done when it expired
  results,   \* all_results, in the order of its appends
  notified,  \* the channels the report was posted to
  output,    \* what became of the output file
  csv        \* the Status column of the rows this run wrote to it

vars == <<phase, future, outcome, strikes, remaining, doneUrls, late,
          results, notified, output, csv>>

workerVars == <<future, outcome, strikes>>
loopVars   == <<remaining, doneUrls, late, results>>
fileVars   == <<output, csv>>
mainVars   == <<phase, loopVars, notified, fileVars>>

-------------------------------------------------------------------------------
Phases == {"preflight", "collecting", "sweeping", "draining", "reporting",
           "slack", "discord", "saving", "returned", "raised"}

Channels == {"slack", "discord"}

NoRows == [r \in {} |-> r]

ResultStatuses == Outcomes \cup {"skipped_circuit_open", "http_other", "timeout"}

TypeOK ==
  /\ phase \in Phases
  /\ future \in [Sample -> {"queued", "probing", "hung", "answered", "done"}]
  /\ outcome \in [Sample -> Outcomes \cup {"none", "raised", "skipped_circuit_open"}]
  /\ strikes \in [Hosts -> Nat]
  /\ remaining \subseteq Sample
  /\ doneUrls \subseteq Sample
  /\ late \subseteq Sample
  /\ results \in Seq([url : Sample, status : ResultStatuses])
  /\ notified \subseteq Channels
  /\ output \in {"untouched", "partial", "whole"}
  /\ DOMAIN csv \subseteq Rows
  /\ \A r \in DOMAIN csv : csv[r] \in ResultStatuses \cup {"not_probed"}

Init ==
  /\ phase = "preflight"
  /\ future = [u \in Sample |-> "queued"]
  /\ outcome = [u \in Sample |-> "none"]
  /\ strikes = [h \in Hosts |-> 0]
  /\ remaining = {}
  /\ doneUrls = {}
  /\ late = {}
  /\ results = <<>>
  /\ notified = {}
  /\ output = "untouched"
  /\ csv = NoRows

-------------------------------------------------------------------------------
(***************************************************************************)
(* The circuit breaker.  is_open and record each hold its lock for their   *)
(* whole body, so each is one atomic operation.                            *)
(***************************************************************************)
(* Mutant: > for >=. *)
IsOpen_Late(h) == strikes[h] > Threshold

(* Mutant: the strike before the last one opens the circuit. *)
IsOpen_Early(h) == strikes[h] >= Threshold - 1

IsOpen(h) == strikes[h] >= Threshold

(* Mutant: a success takes one strike off, floor forgotten. *)
StrikesAfter_Decrement(h, status) ==
  IF status \in CircuitStrikeStatuses THEN strikes[h] + 1
  ELSE IF status = "ok" THEN strikes[h] - 1
  ELSE strikes[h]

StrikesAfter(h, status) ==
  IF status \in CircuitStrikeStatuses THEN strikes[h] + 1
  ELSE IF status = "ok" THEN 0
  ELSE strikes[h]

(***************************************************************************)
(* The pool.  Its threads exist from the first submit until the main       *)
(* thread has left the with block; nothing cancels a queued future.        *)
(***************************************************************************)
Workers == IF Cardinality(Sample) < PoolSize THEN Cardinality(Sample) ELSE PoolSize

PoolRunning == phase \in {"collecting", "sweeping", "draining"}

Busy == {u \in Sample : future[u] \in {"probing", "hung", "answered"}}

FreeWorkerFor(u) ==
  /\ PoolRunning
  /\ future[u] = "queued"
  /\ Cardinality(Busy) < Workers

(* A free worker dequeues u, finds the circuit closed and starts probing. *)
LaunchProbe(u) ==
  /\ FreeWorkerFor(u)
  /\ ~ IsOpen(HostOf[u])
  /\ future' = [future EXCEPT ![u] = "probing"]
  /\ UNCHANGED <<outcome, strikes, mainVars>>

(* Mutant: the URL waits for its circuit to close again. *)
SkipOpenCircuit_Waits(u) ==
  /\ FreeWorkerFor(u)
  /\ IsOpen(HostOf[u])
  /\ UNCHANGED vars

(* ... or finds it open and answers for u without a network call. *)
SkipOpenCircuit(u) ==
  /\ FreeWorkerFor(u)
  /\ IsOpen(HostOf[u])
  /\ future' = [future EXCEPT ![u] = "answered"]
  /\ outcome' = [outcome EXCEPT ![u] = "skipped_circuit_open"]
  /\ UNCHANGED <<strikes, mainVars>>

(* Mutant: one counter for all hosts. *)
ProbeReturns_OneCounter(u, status) ==
  /\ future[u] = "probing"
  /\ future' = [future EXCEPT ![u] = "answered"]
  /\ outcome' = [outcome EXCEPT ![u] = status]
  /\ strikes' = [h \in Hosts |-> StrikesAfter(h, status)]
  /\ UNCHANGED mainVars

(* analyze_tech_stack returns and the breaker records the status.          *)
ProbeReturns(u, status) ==
  /\ future[u] = "probing"
  /\ future' = [future EXCEPT ![u] = "answered"]
  /\ outcome' = [outcome EXCEPT ![u] = status]
  /\ strikes' = [strikes EXCEPT ![HostOf[u]] = StrikesAfter(HostOf[u], status)]
  /\ UNCHANGED mainVars

(* The executor stores what _probe returned: the future is now done().     *)
StoreResult(u) ==
  /\ future[u] = "answered"
  /\ future' = [future EXCEPT ![u] = "done"]
  /\ UNCHANGED <<outcome, strikes, mainVars>>

(* analyze_tech_stack raises: the breaker never hears of it. *)
ProbeRaises(u) ==
  /\ future[u] = "probing"
  /\ future' = [future EXCEPT ![u] = "done"]
  /\ outcome' = [outcome EXCEPT ![u] = "raised"]
  /\ UNCHANGED <<strikes, mainVars>>

(* A socket that never answers: the thread stays in the call for ever. *)
ProbeHangs(u) ==
  /\ SocketsMayHang
  /\ future[u] = "probing"
  /\ future' = [future EXCEPT ![u] = "hung"]
  /\ UNCHANGED <<outcome, strikes, mainVars>>

-------------------------------------------------------------------------------
(***************************************************************************)
(* The main thread.                                                        *)
(***************************************************************************)
(* Bad argument, missing file, missing column, malformed URL. *)
RejectInput ==
  /\ phase = "preflight"
  /\ phase' = "raised"
  /\ UNCHANGED <<workerVars, loopVars, notified, fileVars>>

(* Disk above 95%, or nothing to probe: return without an output file. *)
GiveUpQuietly ==
  /\ phase = "preflight"
  /\ phase' = "returned"
  /\ UNCHANGED <<workerVars, loopVars, notified, fileVars>>

(* Every URL is submitted and as_completed is waiting for all of them. *)
SubmitSample ==
  /\ phase = "preflight"
  /\ phase' = "collecting"
  /\ remaining' = Sample
  /\ UNCHANGED <<workerVars, doneUrls, late, results, notified, fileVars>>

Collected == {results[i].url : i \in DOMAIN results}

(* What the main thread reads off a finished future. *)
ResultOf(u) ==
  [url |-> u, status |-> IF outcome[u] = "raised" THEN "http_other" ELSE outcome[u]]

TimedOut(u) == [url |-> u, status |-> "timeout"]

(* as_completed yields a finished future. *)
Collect(u) ==
  /\ phase = "collecting"
  /\ u \in remaining
  /\ future[u] = "done"
  /\ remaining' = remaining \ {u}
  /\ results' = Append(results, ResultOf(u))
  /\ UNCHANGED <<workerVars, phase, doneUrls, late, notified, fileVars>>

NotDone == {u \in Sample : future[u] # "done"}

(* Mutant: the clock is looked at only when no probe is in flight. *)
WallClockExpires_WhenIdle ==
  /\ phase = "collecting"
  /\ remaining # {}
  /\ Busy = {}
  /\ phase' = "sweeping"
  /\ remaining' = Sample
  /\ doneUrls' = Collected
  /\ late' = NotDone
  /\ UNCHANGED <<workerVars, results, notified, fileVars>>

(* Mutant: done_urls holds what has finished, not what was collected. *)
WallClockExpires_Finished ==
  /\ phase = "collecting"
  /\ remaining # {}
  /\ phase' = "sweeping"
  /\ remaining' = Sample
  /\ doneUrls' = Sample \ NotDone
  /\ late' = NotDone
  /\ UNCHANGED <<workerVars, results, notified, fileVars>>

(* as_completed raises TimeoutError while it has futures left to yield,    *)
(* even if they have finished; a second loop goes over all of them.        *)
WallClockExpires ==
  /\ phase = "collecting"
  /\ remaining # {}
  /\ phase' = "sweeping"
  /\ remaining' = Sample
  /\ doneUrls' = Collected
  /\ late' = NotDone
  /\ UNCHANGED <<workerVars, results, notified, fileVars>>

(* Mutant: the sweep takes every URL it did not collect for a timeout. *)
Sweep_Unread(u) ==
  /\ phase = "sweeping"
  /\ u \in remaining
  /\ remaining' = remaining \ {u}
  /\ results' = IF u \in doneUrls THEN results ELSE Append(results, TimedOut(u))
  /\ UNCHANGED <<workerVars, phase, doneUrls, late, notified, fileVars>>

(* One iteration of the sweep: future.done() is read now, while the        *)
(* workers are still running; done_urls is what it was at the deadline.    *)
Sweep(u) ==
  /\ phase = "sweeping"
  /\ u \in remaining
  /\ remaining' = remaining \ {u}
  /\ results' = IF u \in doneUrls THEN results
                ELSE Append(results, IF future[u] = "done" THEN ResultOf(u) ELSE TimedOut(u))
  /\ UNCHANGED <<workerVars, phase, doneUrls, late, notified, fileVars>>

(* The loop, or the sweep, is over: the with block calls shutdown. *)
LeaveLoop ==
  /\ phase \in {"collecting", "sweeping"}
  /\ remaining = {}
  /\ phase' = "draining"
  /\ UNCHANGED <<workerVars, loopVars, notified, fileVars>>

(* Mutant: shutdown(wait=False). *)
PoolShutDown_NoWait ==
  /\ phase = "draining"
  /\ phase' = "reporting"
  /\ UNCHANGED <<workerVars, loopVars, notified, fileVars>>

(* shutdown(wait=True) returns once every submitted future has run. *)
PoolShutDown ==
  /\ phase = "draining"
  /\ NotDone = {}
  /\ phase' = "reporting"
  /\ UNCHANGED <<workerVars, loopVars, notified, fileVars>>

AnyOk == \E i \in DOMAIN results : results[i].status = "ok"

(* Mutant: the report goes out before it is known whether a probe worked. *)
Report_Always ==
  /\ phase = "reporting"
  /\ phase' = "slack"
  /\ UNCHANGED <<workerVars, loopVars, notified, fileVars>>

(* Without a successful probe there is no report to send. *)
Report ==
  /\ phase = "reporting"
  /\ phase' = IF AnyOk THEN "slack" ELSE "saving"
  /\ UNCHANGED <<workerVars, loopVars, notified, fileVars>>

(* notify_all posts to Slack, then to Discord.  A channel that is not      *)
(* configured, or whose post fails, returns False.                         *)
Notify(channel, next) ==
  /\ phase = channel
  /\ phase' = next
  /\ notified' \in {notified, notified \cup {channel}}
  /\ UNCHANGED <<workerVars, loopVars, fileVars>>

NotifySlack   == Notify("slack", "discord")
NotifyDiscord == Notify("discord", "saving")

(* Mutant: nothing around notify_all catches. *)
NotifyRaises_Uncaught ==
  /\ phase \in Channels
  /\ phase' = "raised"
  /\ UNCHANGED <<workerVars, loopVars, notified, fileVars>>

(* An exception the notifiers do not catch is swallowed by the caller. *)
NotifyRaises ==
  /\ phase \in Channels
  /\ phase' = "saving"
  /\ UNCHANGED <<workerVars, loopVars, notified, fileVars>>

(* status_map: the last result of a URL wins. *)
StatusMap ==
  [u \in Collected |->
     LET last == CHOOSE i \in DOMAIN results :
                   /\ results[i].url = u
                   /\ \A j \in DOMAIN results : results[j].url = u => j <= i
     IN  results[last].status]

Plan == [r \in Rows |-> IF r \in Collected THEN StatusMap[r] ELSE "not_probed"]

Restricted(plan, rows) == [r \in rows |-> plan[r]]

(* to_csv truncates the output file and writes the rows into it. *)
SaveCsv ==
  /\ phase = "saving"
  /\ phase' = "returned"
  /\ output' = "whole"
  /\ csv' = Plan
  /\ UNCHANGED <<workerVars, loopVars, notified>>

(* Mutant: a write that fails is logged, and the run comes to its end. *)
SaveBreaksOff_Swallowed ==
  /\ phase = "saving"
  /\ phase' = "returned"
  /\ output' = "partial"
  /\ \E rows \in CutShort : csv' = Restricted(Plan, rows)
  /\ UNCHANGED <<workerVars, loopVars, notified>>

(* The disk fills up on the way: what the file held is gone, some rows of  *)
(* the plan are there, and the exception reaches the caller.               *)
SaveBreaksOff ==
  /\ phase = "saving"
  /\ phase' = "raised"
  /\ output' = "partial"
  /\ \E rows \in CutShort : csv' = Restricted(Plan, rows)
  /\ UNCHANGED <<workerVars, loopVars, notified>>

(* The output path cannot be opened: the exception reaches the caller. *)
SaveFails ==
  /\ phase = "saving"
  /\ phase' = "raised"
  /\ UNCHANGED <<workerVars, loopVars, notified, fileVars>>

-------------------------------------------------------------------------------
Finished == phase \in {"returned", "raised"}

(* The call has returned: nothing more happens. *)
Terminated == Finished /\ UNCHANGED vars

WorkerStep(u) ==
  \/ LaunchProbe(u)
  \/ SkipOpenCircuit(u)
  \/ \E s \in Outcomes : ProbeReturns(u, s)
  \/ StoreResult(u)
  \/ ProbeRaises(u)

MainStep ==
  \/ RejectInput
  \/ GiveUpQuietly
  \/ SubmitSample
  \/ \E u \in Sample : Collect(u)
  \/ WallClockExpires
  \/ \E u \in Sample : Sweep(u)
  \/ LeaveLoop
  \/ PoolShutDown
  \/ Report
  \/ NotifySlack
  \/ NotifyDiscord
  \/ NotifyRaises
  \/ SaveCsv
  \/ SaveBreaksOff
  \/ SaveFails

Next ==
  \/ \E u \in Sample : WorkerStep(u) \/ ProbeHangs(u)
  \/ MainStep
  \/ Terminated

Spec == Init /\ [][Next]_vars

(***************************************************************************)
(* Threads are scheduled, and a call that does not hang returns or raises. *)
(* Nothing makes a hung call come back.                                    *)
(***************************************************************************)
Fairness ==
  /\ \A u \in Sample : WF_vars(WorkerStep(u))
  /\ WF_vars(MainStep)

FairSpec == Spec /\ Fairness

-------------------------------------------------------------------------------
(***************************************************************************)
(* Properties.                                                             *)
(***************************************************************************)
Struck(h) == {u \in Sample : HostOf[u] = h /\ outcome[u] \in CircuitStrikeStatuses}

Answered(h) == \E u \in Sample : HostOf[u] = h /\ outcome[u] = "ok"

(* The breaker's promise (_HostCircuitBreaker): a host that never answers  *)
(* costs at most one wave of workers beyond the strikes that were needed   *)
(* to open its circuit, whatever the order in which the workers check,     *)
(* probe and record.                                                       *)
DamageCap ==
  \A h \in Hosts :
    ~ Answered(h) => Cardinality(Struck(h)) <= (Threshold - 1) + Workers

(* No URL is given up without evidence: when a row says the circuit was    *)
(* open, a full threshold of probes of that very host came back as         *)
(* strikes, although successes reset the count and workers race on it.     *)
SkipJustified ==
  \A u \in Sample : outcome[u] = "skipped_circuit_open" =>
    Cardinality(Struck(HostOf[u])) >= Threshold

(* The loop and the sweep go over the same futures while the workers go    *)
(* on: when they are over, each sampled URL has one result, whether the    *)
(* loop or the sweep took it; none is lost between the two or taken twice, *)
(* so the status counts of the report add up to the sample.                *)
EachUrlOnce ==
  phase \in {"draining", "reporting", "slack", "discord", "saving"} =>
    \A u \in Sample : \E i \in DOMAIN results :
      \A j \in DOMAIN results : results[j].url = u <=> j = i

(* A row says what the probe of its URL really ended with.  "timeout" may  *)
(* stand there instead only if the wall clock expired before that probe    *)
(* was done; one that had finished by then, read by the loop or not, is    *)
(* never given up.  An unsampled row is given no verdict.                  *)
PublishedIsProbed ==
  \A r \in DOMAIN csv :
    IF r \in Sample
    THEN csv[r] = ResultOf(r).status \/ (csv[r] = "timeout" /\ r \in late)
    ELSE csv[r] = "not_probed"

(* The report and the CSV are made when no probe runs any more: nothing a  *)
(* worker does can disagree with them later.                               *)
QuietAfterDrain ==
  [][(phase \in {"reporting", "slack", "discord", "saving", "returned"})
        => UNCHANGED <<workerVars, loopVars>>]_vars

(* If every call to the network comes back, so does the run.               *)
Terminates == [](\A u \in Sample : future[u] # "hung") => <>Finished

(* A failing notification costs nobody the CSV: once the pool has drained, *)
(* the run gets to writing it, whatever the notifiers do.                  *)
SavedDespiteNotifier == (phase = "reporting") ~> (phase = "saving")

(* The wall clock works: a hung socket cannot keep the collecting loop.    *)
ClockEndsCollection == (phase = "collecting") ~> (phase = "draining")

(***************************************************************************)
(* What the run promises its caller is module ReconVerdicts.               *)
(***************************************************************************)
Promise == INSTANCE ReconVerdicts WITH
             verdict   <- StatusMap,
             announced <- notified,
             published <- csv,
             failed    <- phase = "raised"

PromiseKept == Promise!Spec

(* What CHANGELOG 4.0.0 and the comment on _wall_clock say: the wall clock  *)
(* keeps a hung socket from freezing the process.                          *)
HungSocketDoesNotFreeze ==
  (\E u \in Sample : future[u] = "hung") ~> Finished

===============================================================================
