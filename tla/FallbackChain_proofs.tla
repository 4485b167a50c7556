--------------------------- MODULE FallbackChain_proofs ---------------------------
(***************************************************************************)
(* Proofs about FallbackChain, for every timeout, every set of HTTP codes, *)
(* every way the optional modules are installed and however long the calls *)
(* of requests wait.                                                       *)
(***************************************************************************)
EXTENDS FallbackChain, SequenceTheorems, TLAPS

-------------------------------------------------------------------------------
(* What the probes make of an answer. *)

RequestsFailures ==
  TLSBlocked \cup RateLimited \cup {"js_required", "http_401", "http_other", "connection_error"}

(* The except clauses of requests_probe are in an order that gives each    *)
(* exception its own status: a connect timeout counts as slow, not as      *)
(* dead, and a TLS error as blocked.                                       *)
LEMMA ClausesInOrder ==
  ASSUME NEW a \in Answers, Raised(a)
  PROVE  HandledBy(RequestsClauses, a) =
           CASE a.raised = "SSLError"                          -> "ssl_error"
             [] a.raised \in {"ConnectTimeout", "ReadTimeout"} -> "timeout"
             [] a.raised = "ConnectionError"                   -> "connection_error"
             [] a.raised = "TooManyRedirects"                  -> "http_other"
             [] a.raised = "Unexpected"                        -> "propagates"
<1> DEFINE matching == {i \in 1 .. 4 : IsA(a, RequestsClauses[i][1])}
           IsFirst(i) == \A j \in matching : i <= j
<1>1. DOMAIN RequestsClauses = 1 .. 4
  BY DEF RequestsClauses
<1>2. /\ RequestsClauses[1] = <<"SSLError", "ssl_error">>
      /\ RequestsClauses[2] = <<"Timeout", "timeout">>
      /\ RequestsClauses[3] = <<"ConnectionError", "connection_error">>
      /\ RequestsClauses[4] = <<"RequestException", "http_other">>
  BY DEF RequestsClauses
<1>3. HandledBy(RequestsClauses, a) =
        IF matching = {} THEN "propagates"
        ELSE RequestsClauses[CHOOSE i \in matching : IsFirst(i)][2]
  BY <1>1 DEF HandledBy
<1>4. a.raised \in {"SSLError", "ConnectTimeout", "ReadTimeout", "ConnectionError",
                    "TooManyRedirects", "Unexpected"}
  BY DEF Answers, Raised, Classes
<1>5. ASSUME NEW i \in matching, IsFirst(i)
      PROVE  (CHOOSE k \in matching : IsFirst(k)) = i
  <2>1. \A k \in matching : IsFirst(k) => k = i
    BY <1>5
  <2> QED
    BY <1>5, <2>1
<1>6. \A i \in 1 .. 4 : i \in matching <=> RequestsClauses[i][1] \in Classes[a.raised]
  BY DEF IsA
<1> USE DEF Classes
<1>7. CASE a.raised = "SSLError"
  <2>1. 1 \in matching /\ IsFirst(1)
    BY <1>2, <1>6, <1>7
  <2> QED
    BY <1>2, <1>3, <1>5, <1>7, <2>1
<1>8. CASE a.raised \in {"ConnectTimeout", "ReadTimeout"}
  <2>1. 2 \in matching /\ 1 \notin matching
    BY <1>2, <1>6, <1>8
  <2>2. IsFirst(2)
    BY <2>1
  <2> QED
    BY <1>2, <1>3, <1>5, <1>8, <2>1, <2>2
<1>9. CASE a.raised = "ConnectionError"
  <2>1. 3 \in matching /\ 1 \notin matching /\ 2 \notin matching
    BY <1>2, <1>6, <1>9
  <2>2. IsFirst(3)
    BY <2>1
  <2> QED
    BY <1>2, <1>3, <1>5, <1>9, <2>1, <2>2
<1>10. CASE a.raised = "TooManyRedirects"
  <2>1. 4 \in matching /\ 1 \notin matching /\ 2 \notin matching /\ 3 \notin matching
    BY <1>2, <1>6, <1>10
  <2>2. IsFirst(4)
    BY <2>1
  <2> QED
    BY <1>2, <1>3, <1>5, <1>10, <2>1, <2>2
<1>11. CASE a.raised = "Unexpected"
  <2>1. matching = {}
    BY <1>6, <1>11
  <2> QED
    BY <1>3, <1>11, <2>1
<1> QED
  BY <1>4, <1>7, <1>8, <1>9, <1>10, <1>11

LEMMA RequestsProbeType ==
  ASSUME NEW a \in Answers
  PROVE  RequestsProbe(a) \in RequestsFailures \cup {"ok", "propagates"}
<1>1. CASE Raised(a)
  <2>1. a.raised \in {"SSLError", "ConnectTimeout", "ReadTimeout", "ConnectionError",
                      "TooManyRedirects", "Unexpected"}
    BY <1>1 DEF Answers, Raised, Classes
  <2> QED
    BY <1>1, <2>1, ClausesInOrder DEF RequestsProbe, RequestsFailures, TLSBlocked, RateLimited
<1>2. CASE ~ Raised(a)
  BY <1>2 DEF RequestsProbe, HttpStatus, RequestsFailures, TLSBlocked, RateLimited
<1> QED
  BY <1>1, <1>2

(* A code of 400 and above is a status of the taxonomy of the levels.      *)
LEMMA HttpStatusType ==
  ASSUME NEW a \in Answers, ~ Raised(a), a.code >= 400
  PROVE  /\ HttpStatus(a.code) \in ProbeStatuses
         /\ HttpStatus(a.code) \notin {"ok", "propagates"}
<1>1. a.code \in Codes
  BY DEF Answers, Raised, Classes
<1> QED
  BY <1>1, CodesAssumption DEF CodesAssumption, ProbeStatuses, HttpStatus

LEMMA ProbesType ==
  ASSUME TypeOK, NEW a \in Answers
  PROVE  {CurlCffiProbe(a), FlareSolverrProbe(a), ProxyProbe(a), PlaywrightProbe(a)}
           \subseteq ProbeStatuses \cup {"ok", "propagates"}
<1>1. {"ok", "http_other", "module_unavailable", "http_429"} \subseteq ProbeStatuses
  BY DEF ProbeStatuses, RequestsStatuses
<1>2. CurlCffiProbe(a) \in ProbeStatuses /\ PlaywrightProbe(a) \in ProbeStatuses
  BY <1>1 DEF CurlCffiProbe, PlaywrightProbe
<1>3. FlareSolverrProbe(a) \in ProbeStatuses
  BY <1>1, HttpStatusType DEF FlareSolverrProbe
<1>4. ProxyProbe(a) \in ProbeStatuses \cup {"propagates"}
  <2>1. deploy.proxy \in {"none", "generic", "scrapfly"}
    BY DEF TypeOK, Deployments
  <2>2. ViaScrapfly(a) \in ProbeStatuses
    BY <1>1 DEF ViaScrapfly
  <2>3. ViaGenericProxy(a) \in ProbeStatuses \cup {"propagates"}
    <3>1. ~ Raised(a) => a.code \in Codes
      BY DEF Answers, Raised, Classes
    <3>2. ~ Raised(a) /\ RaisesForStatus(a) => a.code >= 400
      BY <3>1, CodesAssumption DEF CodesAssumption, RaisesForStatus
    <3>3. Raised(a) => HandledBy(<< <<"RequestException", "http_other">> >>, a)
                         \in {"http_other", "propagates"}
      BY DEF HandledBy
    <3> QED
      BY <1>1, <3>2, <3>3, HttpStatusType DEF ViaGenericProxy
  <2> QED
    BY <1>1, <2>1, <2>2, <2>3 DEF ProxyProbe
<1> QED
  BY <1>2, <1>3, <1>4

-------------------------------------------------------------------------------
(***************************************************************************)
(* The invariant.  At every level the log names the levels tried so far    *)
(* and its first entry is the verdict; in the retry loop every entry is of *)
(* a limited or slow site, and there is an attempt left.                   *)
(***************************************************************************)
After(failures) ==
  /\ result.error_detail # <<>>
  /\ StatusAt(1) \in failures
  /\ result.status = StatusAt(1)
  /\ result.fallback_module = FallbackFor(StatusAt(1))

Retried(n) ==
  /\ Len(result.error_detail) = n + 1
  /\ \A i \in 2 .. n + 1 : Tried[i] = "retry"

Position ==
  /\ pc \in {"validate", "requests"} => result.error_detail = <<>> /\ attempt = 0
  /\ pc = "curl_cffi" => After(TLSBlocked) /\ Tried = <<"requests">>
  /\ pc = "flaresolverr" => After(TLSBlocked) /\ Tried = <<"requests", "curl_cffi">>
  /\ pc = "proxy" => After(TLSBlocked) /\ Tried = <<"requests", "curl_cffi", "flaresolverr">>
  /\ pc = "playwright" => After({"js_required"}) /\ Tried = <<"requests">>
  /\ pc \in {"backoff", "retry"} =>
       /\ After(RateLimited)
       /\ attempt < BACKOFF_MAX_RETRIES
       /\ Retried(attempt)
       /\ \A i \in 2 .. attempt + 1 : StatusAt(i) \in RateLimited
  /\ Failed => After(RequestsFailures)

ChainInv ==
  /\ TypeOK
  /\ Position
  /\ StrikeMeansExhausted
  /\ RetriesStopOnChange
  /\ TerminalAtOnce

LevelsOf(log) == [i \in DOMAIN log |-> log[i].level]

(* Appending to a log touches no earlier entry. *)
LEMMA AppendEntry ==
  ASSUME NEW E, NEW d \in Seq(E), NEW e \in E
  PROVE  /\ Append(d, e) \in Seq(E)
         /\ Append(d, e) # <<>>
         /\ Len(d) \in Nat
         /\ DOMAIN d = 1 .. Len(d)
         /\ Len(Append(d, e)) = Len(d) + 1
         /\ DOMAIN Append(d, e) = 1 .. Len(d) + 1
         /\ \A i \in 1 .. Len(d) : Append(d, e)[i] = d[i]
         /\ Append(d, e)[Len(d) + 1] = e
OBVIOUS

LEMMA AppendFunction ==
  ASSUME NEW S, NEW n \in Nat, NEW f \in [1 .. n -> S], NEW x \in S
  PROVE  Append(f, x) = [i \in 1 .. n + 1 |-> IF i = n + 1 THEN x ELSE f[i]]
<1>1. f \in Seq(S) /\ Len(f) = n
  OBVIOUS
<1>2. /\ Append(f, x) \in Seq(S) /\ Len(Append(f, x)) = n + 1
      /\ Append(f, x)[n + 1] = x
      /\ \A i \in 1 .. n : Append(f, x)[i] = f[i]
  BY <1>1, AppendProperties
<1>3. Append(f, x) = [i \in 1 .. n + 1 |-> Append(f, x)[i]]
  BY <1>2, LenProperties
<1>4. \A i \in 1 .. n + 1 : Append(f, x)[i] = IF i = n + 1 THEN x ELSE f[i]
  BY <1>2
<1> QED
  BY <1>3, <1>4

LEMMA LevelsAppend ==
  ASSUME NEW E, NEW L, \A x \in E : x.level \in L, NEW d \in Seq(E), NEW e \in E
  PROVE  LevelsOf(Append(d, e)) = Append(LevelsOf(d), e.level)
<1> DEFINE n == Len(d)
           t == Append(d, e)
           f == LevelsOf(d)
<1>1. /\ n \in Nat /\ DOMAIN d = 1 .. n /\ DOMAIN t = 1 .. n + 1
      /\ \A i \in 1 .. n : t[i] = d[i]
      /\ t[n + 1] = e
      /\ \A i \in 1 .. n : d[i] \in E
  BY AppendEntry
<1> HIDE DEF n, t
<1>2. f \in [1 .. n -> L]
  BY <1>1 DEF LevelsOf
<1> HIDE DEF f
<1>3. Append(f, e.level) = [i \in 1 .. n + 1 |-> IF i = n + 1 THEN e.level ELSE f[i]]
  BY <1>1, <1>2, AppendFunction
<1>4. LevelsOf(t) = [i \in 1 .. n + 1 |-> t[i].level]
  BY <1>1 DEF LevelsOf
<1>5. \A i \in 1 .. n + 1 : t[i].level = IF i = n + 1 THEN e.level ELSE f[i]
  BY <1>1 DEF LevelsOf, f
<1> QED
  BY <1>3, <1>4, <1>5 DEF t, f

Entries == [level : Levels, status : ProbeStatuses]

Results ==
  [status : AnalyzeStatuses \cup {"none"},
   fallback_module : {"", "curl_cffi", "delay_retry", "playwright"},
   error_detail : Seq(Entries)]

(* An entry noted in the log follows the ones before it, and is all that   *)
(* changes.                                                                *)
LEMMA NotedEntry ==
  ASSUME TypeOK, NEW level \in Levels, NEW status \in ProbeStatuses,
         result' = Noted(level, status)
  PROVE  /\ result' \in Results
         /\ result'.status = result.status
         /\ result'.fallback_module = result.fallback_module
         /\ result'.error_detail # <<>>
         /\ Len(result.error_detail) \in Nat
         /\ Len(result'.error_detail) = Len(result.error_detail) + 1
         /\ LevelsOf(result'.error_detail) = Append(LevelsOf(result.error_detail), level)
         /\ \A i \in 1 .. Len(result.error_detail) :
              result'.error_detail[i] = result.error_detail[i]
         /\ result'.error_detail[Len(result.error_detail) + 1]
              = [level |-> level, status |-> status]
<1> DEFINE d == result.error_detail
           e == [level |-> level, status |-> status]
<1>1. result \in Results /\ d \in Seq(Entries) /\ e \in Entries
  BY DEF TypeOK, Results, Entries
<1>2. result' = [result EXCEPT !.error_detail = Append(d, e)]
  BY DEF Noted
<1>3. Append(d, e) \in Seq(Entries)
  BY <1>1, AppendEntry
<1>4. \A x \in Entries : x.level \in Levels
  BY DEF Entries
<1>5. e.level = level
  OBVIOUS
<1> HIDE DEF e
<1>6. /\ result' \in Results
      /\ result'.status = result.status
      /\ result'.fallback_module = result.fallback_module
      /\ result'.error_detail = Append(d, e)
  BY <1>1, <1>2, <1>3 DEF Results
<1>7. LevelsOf(Append(d, e)) = Append(LevelsOf(d), level)
  BY <1>1, <1>4, <1>5, LevelsAppend
<1>8. /\ Append(d, e) # <<>>
      /\ Len(d) \in Nat
      /\ Len(Append(d, e)) = Len(d) + 1
      /\ \A i \in 1 .. Len(d) : Append(d, e)[i] = d[i]
      /\ Append(d, e)[Len(d) + 1] = e
  BY <1>1, AppendEntry
<1> QED
  BY <1>6, <1>7, <1>8, Zenon DEF e

(* Time only adds up. *)
LEMMA WaitingType ==
  ASSUME NEW timeout \in Nat
  PROVE  Waiting(timeout) \subseteq Nat
<1>1. \A w \in Waits : w \in Nat
  BY WaitsAssumption DEF WaitsAssumption
<1>2. \A w \in Nat : w * timeout \in Nat
  OBVIOUS
<1> QED
  BY <1>1, <1>2 DEF Waiting

LEMMA SpendType ==
  ASSUME NEW times \in SUBSET Nat, elapsed \in Nat, Spend(times)
  PROVE  elapsed' \in Nat
BY DEF Spend

LEMMA SecondsType ==
  ASSUME TypeOK, NEW level \in {"curl_cffi", "flaresolverr", "proxy", "playwright"}
  PROVE  Seconds(level) \subseteq Nat
<1>1. deploy.proxy \in {"none", "generic", "scrapfly"}
  BY DEF TypeOK, Deployments
<1>2. RequestTimeout \in Nat
  BY TimeoutAssumption DEF TimeoutAssumption
<1>3. /\ RequestTimeout + CHALLENGE_TIMEOUT_BUFFER \in Nat
      /\ RequestTimeout + ScrapflyBuffer \in Nat
      /\ BrowserLaunch + RequestTimeout \in Nat
  BY <1>2 DEF CHALLENGE_TIMEOUT_BUFFER, ScrapflyBuffer, BrowserLaunch
<1>4. /\ Waiting(RequestTimeout) \subseteq Nat
      /\ Waiting(RequestTimeout + CHALLENGE_TIMEOUT_BUFFER) \subseteq Nat
      /\ Waiting(RequestTimeout + ScrapflyBuffer) \subseteq Nat
  BY <1>2, <1>3, WaitingType
<1>5. CASE level = "curl_cffi"
  BY <1>2, <1>5 DEF Seconds
<1>6. CASE level = "flaresolverr"
  BY <1>4, <1>6 DEF Seconds
<1>7. CASE level = "proxy"
  BY <1>1, <1>4, <1>7 DEF Seconds
<1>8. CASE level = "playwright"
  BY <1>3, <1>8 DEF Seconds
<1> QED
  BY <1>5, <1>6, <1>7, <1>8

(* The waits: 5, 10 and 20 seconds. *)
LEMMA Backoffs ==
  ASSUME attempt \in 0 .. 2
  PROVE  Backoff \in {5, 10, 20}
<1>1. 2 ^ 0 = 1 /\ 2 ^ 1 = 2 /\ 2 ^ 2 = 4
  OBVIOUS
<1> USE DEF Backoff, BACKOFF_BASE, BACKOFF_MULTIPLIER, BACKOFF_CAP
<1>2. CASE attempt = 0
  BY <1>1, <1>2
<1>3. CASE attempt = 1
  BY <1>1, <1>3
<1>4. CASE attempt = 2
  BY <1>1, <1>4
<1> QED
  BY <1>2, <1>3, <1>4

LEMMA ChainInvInit == Init => ChainInv
<1> SUFFICES ASSUME Init PROVE ChainInv
  OBVIOUS
<1>1. TypeOK
  <2>1. result \in Results
    <3>1. <<>> \in Seq(Entries)
      OBVIOUS
    <3> QED
      BY <3>1 DEF Init, Results
  <2>2. attempt \in 0 .. BACKOFF_MAX_RETRIES /\ elapsed \in Nat
    <3>1. attempt = 0 /\ elapsed = 0
      BY DEF Init
    <3> QED
      BY <3>1 DEF BACKOFF_MAX_RETRIES
  <2> QED
    BY <2>1, <2>2 DEF Init, TypeOK, Results, Entries
<1>2. Position
  BY DEF Init, Position, Failed
<1>3. StrikeMeansExhausted /\ RetriesStopOnChange /\ TerminalAtOnce
  BY DEF Init, StrikeMeansExhausted, RetriesStopOnChange, TerminalAtOnce, Failed
<1> QED
  BY <1>1, <1>2, <1>3 DEF ChainInv

-------------------------------------------------------------------------------
(* The steps. *)

(* The way a call ends with a page, or with an exception. *)
LEMMA ChainInvEnd ==
  ASSUME ChainInv, TypeOK',
         \/ pc' = "returned" /\ result'.status \in {"ok", "invalid_url"}
         \/ pc' = "raised"
  PROVE  ChainInv'
<1>1. Position'
  BY DEF Position, Failed
<1>2. StrikeMeansExhausted' /\ RetriesStopOnChange' /\ TerminalAtOnce'
  BY DEF StrikeMeansExhausted, RetriesStopOnChange, TerminalAtOnce, Failed
<1> QED
  BY <1>1, <1>2 DEF ChainInv

LEMMA SucceedType ==
  ASSUME TypeOK, Succeed
  PROVE  /\ pc' \in {"returned", "raised"}
         /\ result' \in Results
         /\ pc' = "returned" => result'.status = "ok"
<1>1. result \in Results
  BY DEF TypeOK, Results, Entries
<1>2. [status |-> "ok", fallback_module |-> "", error_detail |-> <<>>] \in Results
  <2>1. <<>> \in Seq(Entries)
    OBVIOUS
  <2>2. "ok" \in AnalyzeStatuses
    BY DEF AnalyzeStatuses, RequestsStatuses
  <2> QED
    BY <2>1, <2>2 DEF Results
<1>3. CASE /\ result' = [status |-> "ok", fallback_module |-> "", error_detail |-> <<>>]
           /\ pc' = "returned"
  <2>1. result'.status = "ok"
    BY <1>3
  <2> QED
    BY <1>2, <1>3, <2>1
<1>4. CASE pc' = "raised" /\ UNCHANGED result
  BY <1>1, <1>4
<1> QED
  BY <1>3, <1>4 DEF Succeed

LEMMA ChainInvValidate ==
  ASSUME ChainInv, InvalidUrl \/ ValidUrl
  PROVE  ChainInv'
<1>1. result \in Results
  BY DEF ChainInv, TypeOK, Results, Entries
<1>2. CASE InvalidUrl
  <2>1. /\ result' \in Results /\ result'.status = "invalid_url"
        /\ pc' = "returned" /\ UNCHANGED <<deploy, attempt, elapsed>>
    BY <1>1, <1>2 DEF InvalidUrl, Results, AnalyzeStatuses
  <2>2. TypeOK'
    BY <2>1 DEF ChainInv, TypeOK, Results, Entries
  <2> QED
    BY <2>1, <2>2, ChainInvEnd
<1>3. CASE ValidUrl
  BY <1>3 DEF ValidUrl, ChainInv, TypeOK, Position, Failed, StrikeMeansExhausted,
     RetriesStopOnChange, TerminalAtOnce, Levels
<1> QED
  BY <1>2, <1>3

(* Where the first failure leads. *)
LEMMA Routes ==
  ASSUME NEW s \in RequestsFailures
  PROVE  /\ FallbackFor(s) \in {"", "curl_cffi", "delay_retry", "playwright"}
         /\ s \in TLSBlocked => Route(FallbackFor(s)) = "curl_cffi"
         /\ s \in RateLimited => Route(FallbackFor(s)) = "backoff"
         /\ s = "js_required" => Route(FallbackFor(s)) = "playwright"
         /\ s \in {"http_401", "http_other", "connection_error"}
              => Route(FallbackFor(s)) = "returned"
BY DEF RequestsFailures, TLSBlocked, RateLimited, FallbackFor, FALLBACK_MAP, Route

LEMMA FailureClasses ==
  /\ RequestsFailures = TLSBlocked \cup RateLimited \cup {"js_required"}
                          \cup {"http_401", "http_other", "connection_error"}
  /\ RequestsFailures \subseteq AnalyzeStatuses \cap ProbeStatuses
  /\ "ok" \notin RequestsFailures /\ "invalid_url" \notin RequestsFailures
  /\ "propagates" \notin RequestsFailures
  /\ TLSBlocked \cap RateLimited = {}
  /\ "js_required" \notin TLSBlocked \cup RateLimited
  /\ {"http_401", "http_other", "connection_error"} \cap (TLSBlocked \cup RateLimited) = {}
BY DEF RequestsFailures, TLSBlocked, RateLimited, AnalyzeStatuses, ProbeStatuses, RequestsStatuses

(* The first fetch: a failure gets its verdict and its fallback. *)
LEMMA ChainInvFirst ==
  ASSUME ChainInv, NEW a \in Answers, FirstProbe(a)
  PROVE  ChainInv'
<1> DEFINE s == RequestsProbe(a)
<1>1. /\ pc = "requests" /\ attempt = 0
      /\ UNCHANGED <<deploy, attempt>>
      /\ s \in RequestsFailures \cup {"ok", "propagates"}
  BY RequestsProbeType DEF FirstProbe, ChainInv, Position
<1>2. elapsed' \in Nat
  <2>1. Waiting(RequestTimeout) \subseteq Nat
    BY WaitingType, TimeoutAssumption DEF TimeoutAssumption
  <2>2. {PoliteSleep + t : t \in Waiting(RequestTimeout)} \in SUBSET Nat
    BY <2>1 DEF PoliteSleep
  <2>3. elapsed \in Nat /\ Spend({PoliteSleep + t : t \in Waiting(RequestTimeout)})
    BY DEF ChainInv, TypeOK, FirstProbe
  <2> QED
    BY <2>2, <2>3, SpendType
<1>3. result \in Results
  BY DEF ChainInv, TypeOK, Results, Entries
<1>4. CASE Succeed \/ Propagate
  <2>1. /\ pc' \in {"returned", "raised"} /\ result' \in Results
        /\ pc' = "returned" => result'.status = "ok"
    BY <1>3, <1>4, SucceedType DEF ChainInv, Propagate
  <2>2. TypeOK'
    BY <1>1, <1>2, <2>1 DEF ChainInv, TypeOK, Results, Entries
  <2> QED
    BY <2>1, <2>2, ChainInvEnd
<1>5. CASE /\ s \notin {"ok", "propagates"}
           /\ result' = [status |-> s, fallback_module |-> FallbackFor(s),
                         error_detail |-> << [level |-> "requests", status |-> s] >>]
           /\ pc' = Route(FallbackFor(s))
  <2>1. s \in RequestsFailures
    BY <1>1, <1>5
  <2> HIDE DEF s
  <2>2. << [level |-> "requests", status |-> s] >> \in Seq(Entries)
    BY <2>1, FailureClasses DEF Entries, Levels
  <2>3. result' \in Results
    BY <1>5, <2>1, <2>2, Routes, FailureClasses DEF Results
  <2>4. /\ result'.error_detail = << [level |-> "requests", status |-> s] >>
        /\ result'.error_detail # <<>>
        /\ Len(result'.error_detail) = 1
        /\ StatusAt(1)' = s
        /\ result'.status = s
        /\ result'.fallback_module = FallbackFor(s)
    BY <1>5 DEF StatusAt
  <2>5. Tried' = <<"requests">>
    BY <2>4 DEF Tried
  <2>6. pc' \in {"curl_cffi", "backoff", "playwright", "returned"}
    BY <1>5, <2>1, Routes, FailureClasses
  <2>7. TypeOK'
    BY <1>1, <1>2, <2>3, <2>6 DEF ChainInv, TypeOK, Results, Entries, Levels
  <2>8. Position'
    <3>1. /\ pc' = "curl_cffi" => s \in TLSBlocked
          /\ pc' = "playwright" => s = "js_required"
          /\ pc' = "backoff" => s \in RateLimited
      BY <1>5, <2>1, Routes, FailureClasses
    <3>2. /\ pc' = "curl_cffi" => After(TLSBlocked)'
          /\ pc' = "playwright" => After({"js_required"})'
          /\ pc' = "backoff" => After(RateLimited)'
          /\ After(RequestsFailures)'
      BY <2>1, <2>4, <3>1 DEF After
    <3>3. attempt' = 0 /\ attempt' < BACKOFF_MAX_RETRIES /\ 2 .. attempt' + 1 = {}
      BY <1>1 DEF BACKOFF_MAX_RETRIES
    <3>4. Retried(attempt)'
      BY <2>4, <3>3 DEF Retried
    <3> QED
      BY <2>5, <2>6, <3>2, <3>3, <3>4 DEF Position
  <2>9. StrikeMeansExhausted' /\ RetriesStopOnChange' /\ TerminalAtOnce'
    BY <1>5, <2>1, <2>4, <2>5, Routes, FailureClasses
       DEF Failed, StrikeMeansExhausted, RetriesStopOnChange, TerminalAtOnce
  <2> QED
    BY <2>7, <2>8, <2>9 DEF ChainInv
<1> QED
  BY <1>4, <1>5 DEF FirstProbe

(* What the levels have in common: a page ends the call, a failure is      *)
(* noted after the ones before it and hands over to the next level.        *)
LEMMA LevelStep ==
  ASSUME ChainInv, NEW level \in {"curl_cffi", "flaresolverr", "proxy", "playwright"},
         NEW status \in ProbeStatuses \cup {"ok", "propagates"},
         NEW next, TryLevel(level, status, next), result.error_detail # <<>>
  PROVE  /\ UNCHANGED <<deploy, attempt>>
         /\ elapsed' \in Nat
         /\ result' \in Results
         /\ \/ pc' = "returned" /\ result'.status = "ok"
            \/ pc' = "raised"
            \/ /\ pc' = next
               /\ result'.status = result.status
               /\ result'.fallback_module = result.fallback_module
               /\ result'.error_detail # <<>>
               /\ StatusAt(1)' = StatusAt(1)
               /\ Tried' = Append(Tried, level)
<1>1. TypeOK /\ result \in Results
  BY DEF ChainInv, TypeOK, Results, Entries
<1>2. UNCHANGED <<deploy, attempt>> /\ elapsed' \in Nat /\ level \in Levels
  <2>1. Seconds(level) \in SUBSET Nat
    BY <1>1, SecondsType
  <2>2. elapsed \in Nat /\ Spend(Seconds(level))
    BY <1>1 DEF TypeOK, TryLevel
  <2>3. elapsed' \in Nat
    BY <2>1, <2>2, SpendType
  <2> QED
    BY <2>3 DEF TryLevel, Levels
<1>3. CASE Succeed \/ Propagate
  BY <1>1, <1>2, <1>3, SucceedType DEF Propagate
<1>4. CASE /\ status \notin {"ok", "propagates"}
           /\ result' = Noted(level, status)
           /\ pc' = next
  <2>1. status \in ProbeStatuses
    BY <1>4
  <2> DEFINE d == result.error_detail
             e == result'.error_detail
  <2>2. /\ result' \in Results
        /\ result'.status = result.status
        /\ result'.fallback_module = result.fallback_module
        /\ e # <<>>
        /\ LevelsOf(e) = Append(LevelsOf(d), level)
        /\ \A i \in 1 .. Len(d) : e[i] = d[i]
    BY <1>1, <1>2, <1>4, <2>1, NotedEntry
  <2>3. 1 \in 1 .. Len(d)
    <3>1. d \in Seq(Entries)
      BY <1>1 DEF Results
    <3> QED
      BY <3>1
  <2>4. e[1] = d[1]
    BY <2>2, <2>3
  <2> QED
    BY <1>2, <1>4, <2>2, <2>4 DEF Tried, LevelsOf, StatusAt
<1> QED
  BY <1>3, <1>4 DEF TryLevel

(* Appending to a tuple makes the longer tuple. *)
LEMMA AppendIs ==
  ASSUME NEW S, NEW s \in Seq(S), NEW x \in S, NEW t \in Seq(S),
         Len(t) = Len(s) + 1, t[Len(s) + 1] = x, \A i \in 1 .. Len(s) : t[i] = s[i]
  PROVE  Append(s, x) = t
<1>1. /\ Append(s, x) \in Seq(S) /\ Len(s) \in Nat /\ Len(Append(s, x)) = Len(s) + 1
      /\ Append(s, x)[Len(s) + 1] = x
  BY AppendProperties
<1>2. \A i \in 1 .. Len(s) : Append(s, x)[i] = t[i]
  BY AppendProperties
<1>3. \A i \in 1 .. Len(t) : Append(s, x)[i] = t[i]
  BY <1>1, <1>2
<1> QED
  BY <1>1, <1>3, SeqEqual

LEMMA TupleGrows ==
  ASSUME NEW S, NEW a \in S, NEW b \in S, NEW c \in S, NEW d \in S
  PROVE  /\ Append(<<a>>, b) = <<a, b>>
         /\ Append(<<a, b>>, c) = <<a, b, c>>
         /\ Append(<<a, b, c>>, d) = <<a, b, c, d>>
<1> DEFINE one == <<a>>
           two == <<a, b>>
           three == <<a, b, c>>
           four == <<a, b, c, d>>
<1>1. one \in Seq(S) /\ Len(one) = 1 /\ one[1] = a
  OBVIOUS
<1>2. two \in Seq(S) /\ Len(two) = 2 /\ two[1] = a /\ two[2] = b
  OBVIOUS
<1>3. three \in Seq(S) /\ Len(three) = 3 /\ three[1] = a /\ three[2] = b /\ three[3] = c
  OBVIOUS
<1>4. /\ four \in Seq(S) /\ Len(four) = 4
      /\ four[1] = a /\ four[2] = b /\ four[3] = c /\ four[4] = d
  OBVIOUS
<1> HIDE DEF one, two, three, four
<1>5. Append(one, b) = two
  <2>1. /\ Len(two) = Len(one) + 1 /\ two[Len(one) + 1] = b
        /\ \A i \in 1 .. Len(one) : two[i] = one[i]
    BY <1>1, <1>2
  <2> QED
    BY <1>1, <1>2, <2>1, AppendIs, Zenon
<1>6. Append(two, c) = three
  <2>1. /\ Len(three) = Len(two) + 1 /\ three[Len(two) + 1] = c
        /\ \A i \in 1 .. Len(two) : three[i] = two[i]
    BY <1>2, <1>3
  <2> QED
    BY <1>2, <1>3, <2>1, AppendIs, Zenon
<1>7. Append(three, d) = four
  <2>1. /\ Len(four) = Len(three) + 1 /\ four[Len(three) + 1] = d
        /\ \A i \in 1 .. Len(three) : four[i] = three[i]
    BY <1>3, <1>4
  <2> QED
    BY <1>3, <1>4, <2>1, AppendIs, Zenon
<1> QED
  BY <1>5, <1>6, <1>7 DEF one, two, three, four

LEMMA LevelOrder ==
  /\ Append(<<"requests">>, "curl_cffi") = <<"requests", "curl_cffi">>
  /\ Append(<<"requests", "curl_cffi">>, "flaresolverr")
       = <<"requests", "curl_cffi", "flaresolverr">>
  /\ Append(<<"requests", "curl_cffi", "flaresolverr">>, "proxy")
       = <<"requests", "curl_cffi", "flaresolverr", "proxy">>
<1>1. /\ "requests" \in Levels /\ "curl_cffi" \in Levels
      /\ "flaresolverr" \in Levels /\ "proxy" \in Levels
  BY DEF Levels
<1> QED
  BY <1>1, TupleGrows

LEMMA ChainInvLevels ==
  ASSUME ChainInv, NEW a \in Answers,
         CurlCffi(a) \/ FlareSolverr(a) \/ Proxy(a) \/ Playwright(a)
  PROVE  ChainInv'
<1> DEFINE Ends == \/ pc' = "returned" /\ result'.status = "ok"
                   \/ pc' = "raised"
           Kept == /\ result'.status = result.status
                   /\ result'.fallback_module = result.fallback_module
                   /\ result'.error_detail # <<>>
                   /\ StatusAt(1)' = StatusAt(1)
<1>1. TypeOK /\ Position
  BY DEF ChainInv
<1>2. ASSUME UNCHANGED <<deploy, attempt>>, result' \in Results,
             pc' \in {"flaresolverr", "proxy", "returned", "raised"}, elapsed' \in Nat
      PROVE  TypeOK'
  BY <1>1, <1>2 DEF TypeOK, Results, Entries, Levels
<1>3. CASE CurlCffi(a)
  <2>1. PICK s \in ProbeStatuses \cup {"ok", "propagates"} : s = CurlCffiProbe(a)
    BY <1>1, ProbesType
  <2>2. TryLevel("curl_cffi", s, "flaresolverr") /\ pc = "curl_cffi"
    BY <1>3, <2>1 DEF CurlCffi, TryLevel
  <2>3. /\ After(TLSBlocked) /\ Tried = <<"requests">>
    BY <1>1, <2>2 DEF Position
  <2>4. /\ UNCHANGED <<deploy, attempt>>
        /\ elapsed' \in Nat
        /\ result' \in Results
        /\ \/ Ends
           \/ pc' = "flaresolverr" /\ Kept /\ Tried' = Append(Tried, "curl_cffi")
    BY <2>2, <2>3, LevelStep DEF After
  <2>5. TypeOK'
    BY <1>2, <2>4
  <2>6. CASE Ends
    BY <2>5, <2>6, ChainInvEnd
  <2>7. CASE pc' = "flaresolverr" /\ Kept /\ Tried' = Append(Tried, "curl_cffi")
    <3>1. Tried' = <<"requests", "curl_cffi">>
      BY <2>3, <2>7, LevelOrder
    <3>2. After(TLSBlocked)'
      BY <2>3, <2>7 DEF After
    <3>3. Position'
      BY <2>7, <3>1, <3>2 DEF Position, Failed
    <3>4. StrikeMeansExhausted' /\ RetriesStopOnChange' /\ TerminalAtOnce'
      BY <2>7 DEF Failed, StrikeMeansExhausted, RetriesStopOnChange, TerminalAtOnce
    <3> QED
      BY <2>5, <3>3, <3>4 DEF ChainInv
  <2> QED
    BY <2>4, <2>6, <2>7
<1>4. CASE FlareSolverr(a)
  <2>1. PICK s \in ProbeStatuses \cup {"ok", "propagates"} : s = FlareSolverrProbe(a)
    BY <1>1, ProbesType
  <2>2. TryLevel("flaresolverr", s, "proxy") /\ pc = "flaresolverr"
    BY <1>4, <2>1 DEF FlareSolverr, TryLevel
  <2>3. /\ After(TLSBlocked) /\ Tried = <<"requests", "curl_cffi">>
    BY <1>1, <2>2 DEF Position
  <2>4. /\ UNCHANGED <<deploy, attempt>>
        /\ elapsed' \in Nat
        /\ result' \in Results
        /\ \/ Ends
           \/ pc' = "proxy" /\ Kept /\ Tried' = Append(Tried, "flaresolverr")
    BY <2>2, <2>3, LevelStep DEF After
  <2>5. TypeOK'
    BY <1>2, <2>4
  <2>6. CASE Ends
    BY <2>5, <2>6, ChainInvEnd
  <2>7. CASE pc' = "proxy" /\ Kept /\ Tried' = Append(Tried, "flaresolverr")
    <3>1. Tried' = <<"requests", "curl_cffi", "flaresolverr">>
      BY <2>3, <2>7, LevelOrder
    <3>2. After(TLSBlocked)'
      BY <2>3, <2>7 DEF After
    <3>3. Position'
      BY <2>7, <3>1, <3>2 DEF Position, Failed
    <3>4. StrikeMeansExhausted' /\ RetriesStopOnChange' /\ TerminalAtOnce'
      BY <2>7 DEF Failed, StrikeMeansExhausted, RetriesStopOnChange, TerminalAtOnce
    <3> QED
      BY <2>5, <3>3, <3>4 DEF ChainInv
  <2> QED
    BY <2>4, <2>6, <2>7
<1>5. CASE Proxy(a)
  <2>1. PICK s \in ProbeStatuses \cup {"ok", "propagates"} : s = ProxyProbe(a)
    BY <1>1, ProbesType
  <2>2. TryLevel("proxy", s, "returned") /\ pc = "proxy"
    BY <1>5, <2>1 DEF Proxy, TryLevel
  <2>3. /\ After(TLSBlocked) /\ Tried = <<"requests", "curl_cffi", "flaresolverr">>
    BY <1>1, <2>2 DEF Position
  <2>4. /\ UNCHANGED <<deploy, attempt>>
        /\ elapsed' \in Nat
        /\ result' \in Results
        /\ \/ Ends
           \/ pc' = "returned" /\ Kept /\ Tried' = Append(Tried, "proxy")
    BY <2>2, <2>3, LevelStep DEF After
  <2>5. TypeOK'
    BY <1>2, <2>4
  <2>6. CASE Ends
    BY <2>5, <2>6, ChainInvEnd
  <2>7. CASE pc' = "returned" /\ Kept /\ Tried' = Append(Tried, "proxy")
    <3>1. Tried' = <<"requests", "curl_cffi", "flaresolverr", "proxy">>
      BY <2>3, <2>7, LevelOrder
    <3>2. After(RequestsFailures)' /\ result'.status \in TLSBlocked
      BY <2>3, <2>7, FailureClasses DEF After
    <3>3. StrikeMeansExhausted' /\ RetriesStopOnChange' /\ TerminalAtOnce'
      BY <3>1, <3>2, FailureClasses DEF StrikeMeansExhausted, RetriesStopOnChange, TerminalAtOnce
    <3> QED
      BY <2>5, <2>7, <3>2, <3>3 DEF ChainInv, Position
  <2> QED
    BY <2>4, <2>6, <2>7
<1>6. CASE Playwright(a)
  <2>1. PICK s \in ProbeStatuses \cup {"ok", "propagates"} : s = PlaywrightProbe(a)
    BY <1>1, ProbesType
  <2>2. TryLevel("playwright", s, "returned") /\ pc = "playwright"
    BY <1>6, <2>1 DEF Playwright, TryLevel
  <2>3. After({"js_required"})
    BY <1>1, <2>2 DEF Position
  <2>4. /\ UNCHANGED <<deploy, attempt>>
        /\ elapsed' \in Nat
        /\ result' \in Results
        /\ \/ Ends
           \/ pc' = "returned" /\ Kept
    BY <2>2, <2>3, LevelStep DEF After
  <2>5. TypeOK'
    BY <1>2, <2>4
  <2>6. CASE Ends
    BY <2>5, <2>6, ChainInvEnd
  <2>7. CASE pc' = "returned" /\ Kept
    <3>1. After(RequestsFailures)' /\ result'.status = "js_required"
      BY <2>3, <2>7, FailureClasses DEF After
    <3>2. StrikeMeansExhausted' /\ RetriesStopOnChange' /\ TerminalAtOnce'
      BY <3>1, FailureClasses DEF StrikeMeansExhausted, RetriesStopOnChange, TerminalAtOnce
    <3> QED
      BY <2>5, <2>7, <3>1, <3>2 DEF ChainInv, Position
  <2> QED
    BY <2>4, <2>6, <2>7
<1> QED
  BY <1>3, <1>4, <1>5, <1>6

(* The wait before a retry. *)
LEMMA ChainInvBackoff ==
  ASSUME ChainInv, SleepBackoff
  PROVE  ChainInv'
<1>1. /\ pc = "backoff" /\ pc' = "retry" /\ UNCHANGED <<deploy, result, attempt>>
      /\ Spend({Backoff + Jitter})
  BY DEF SleepBackoff
<1>2. TypeOK /\ Position
  BY DEF ChainInv
<1>3. elapsed' \in Nat
  <2>1. attempt \in 0 .. 3 /\ attempt < 3
    BY <1>1, <1>2 DEF TypeOK, Position, BACKOFF_MAX_RETRIES
  <2>2. Backoff \in {5, 10, 20}
    BY <2>1, Backoffs
  <2>3. {Backoff + Jitter} \in SUBSET Nat
    BY <2>2 DEF Jitter
  <2> QED
    BY <1>1, <1>2, <2>3, SpendType DEF TypeOK
<1>4. TypeOK'
  BY <1>1, <1>2, <1>3 DEF TypeOK, Levels
<1>5. Position'
  BY <1>1, <1>2 DEF Position, After, Retried, StatusAt, Tried, Failed
<1>6. StrikeMeansExhausted' /\ RetriesStopOnChange' /\ TerminalAtOnce'
  BY <1>1 DEF Failed, StrikeMeansExhausted, RetriesStopOnChange, TerminalAtOnce
<1> QED
  BY <1>4, <1>5, <1>6 DEF ChainInv

(* The retry: its failure is the last, unless more waiting can help. *)
LEMMA ChainInvRetry ==
  ASSUME ChainInv, NEW a \in Answers, Retry(a)
  PROVE  ChainInv'
<1>1. PICK s \in RequestsFailures \cup {"ok", "propagates"} : s = RequestsProbe(a)
  BY RequestsProbeType
<1>2. /\ pc = "retry" /\ Spend(Waiting(RequestTimeout)) /\ UNCHANGED deploy
      /\ \/ s = "ok" /\ Succeed /\ UNCHANGED attempt
         \/ s = "propagates" /\ Propagate /\ UNCHANGED attempt
         \/ /\ s \notin {"ok", "propagates"}
            /\ result' = Noted("retry", s)
            /\ attempt' = attempt + 1
            /\ pc' = IF s \in RateLimited /\ attempt + 1 < 3 THEN "backoff" ELSE "returned"
  BY <1>1 DEF Retry, GoesOn, AttemptsAfter, RateLimited, BACKOFF_MAX_RETRIES
<1>3. TypeOK /\ Position
  BY DEF ChainInv
<1>4. attempt \in 0 .. 2 /\ elapsed \in Nat /\ result \in Results
  <2>1. attempt \in 0 .. 3 /\ elapsed \in Nat /\ result \in Results
    BY <1>3 DEF TypeOK, BACKOFF_MAX_RETRIES, Results, Entries
  <2>2. attempt < 3
    BY <1>2, <1>3 DEF Position, BACKOFF_MAX_RETRIES
  <2> QED
    BY <2>1, <2>2
<1>5. elapsed' \in Nat
  <2>1. Waiting(RequestTimeout) \in SUBSET Nat
    BY WaitingType, TimeoutAssumption DEF TimeoutAssumption
  <2> QED
    BY <1>2, <1>4, <2>1, SpendType
<1>6. CASE (Succeed \/ Propagate) /\ UNCHANGED attempt
  <2>1. /\ pc' \in {"returned", "raised"} /\ result' \in Results
        /\ pc' = "returned" => result'.status = "ok"
    BY <1>3, <1>4, <1>6, SucceedType DEF Propagate
  <2>2. TypeOK'
    BY <1>2, <1>3, <1>5, <1>6, <2>1 DEF TypeOK, Results, Entries
  <2> QED
    BY <2>1, <2>2, ChainInvEnd
<1>7. CASE /\ s \notin {"ok", "propagates"}
           /\ result' = Noted("retry", s)
           /\ attempt' = attempt + 1
           /\ pc' = IF s \in RateLimited /\ attempt + 1 < 3 THEN "backoff" ELSE "returned"
  <2> DEFINE d == result.error_detail
             e == result'.error_detail
  <2>1. s \in RequestsFailures /\ s \in ProbeStatuses /\ "retry" \in Levels
    BY <1>1, <1>7, FailureClasses DEF Levels
  <2>2. /\ result' \in Results
        /\ result'.status = result.status
        /\ result'.fallback_module = result.fallback_module
        /\ e # <<>>
        /\ Len(e) = Len(d) + 1
        /\ \A i \in 1 .. Len(d) : e[i] = d[i]
        /\ e[Len(d) + 1] = [level |-> "retry", status |-> s]
    BY <1>3, <1>7, <2>1, NotedEntry
  <2>3. /\ After(RateLimited) /\ Len(d) = attempt + 1
        /\ \A i \in 2 .. attempt + 1 : Tried[i] = "retry" /\ StatusAt(i) \in RateLimited
    BY <1>2, <1>3 DEF Position, Retried
  <2>4. /\ DOMAIN d = 1 .. attempt + 1 /\ DOMAIN e = 1 .. attempt + 2
        /\ Len(e) = attempt + 2 /\ Len(d) + 1 = attempt + 2
    <3>1. d \in Seq(Entries) /\ e \in Seq(Entries)
      BY <1>4, <2>2 DEF Results
    <3> HIDE DEF d, e
    <3> QED
      BY <1>4, <2>2, <2>3, <3>1, LenProperties
  <2>5. After(RateLimited)'
    BY <1>4, <2>2, <2>3 DEF After, StatusAt
  <2>6. \A i \in 2 .. attempt + 2 : Tried'[i] = "retry"
    <3>1. \A i \in 1 .. attempt + 2 : Tried'[i] = e[i].level
      BY <2>4 DEF Tried
    <3>2. \A i \in 1 .. attempt + 1 : Tried[i] = d[i].level
      BY <2>4 DEF Tried
    <3>3. \A i \in 2 .. attempt + 1 : Tried'[i] = "retry"
      BY <1>4, <2>2, <2>3, <3>1, <3>2
    <3>4. Tried'[attempt + 2] = "retry"
      BY <1>4, <2>2, <2>4, <3>1
    <3> QED
      BY <1>4, <3>3, <3>4
  <2>7. /\ \A i \in 2 .. attempt + 1 : e[i].status \in RateLimited
        /\ e[attempt + 2].status = s
    <3>1. \A i \in 2 .. attempt + 1 : e[i].status \in RateLimited
      BY <1>4, <2>2, <2>3 DEF StatusAt
    <3>2. e[attempt + 2].status = s
      BY <2>2, <2>4
    <3> QED
      BY <3>1, <3>2
  <2>8. attempt' \in 0 .. BACKOFF_MAX_RETRIES /\ pc' \in {"backoff", "returned"}
    BY <1>4, <1>7 DEF BACKOFF_MAX_RETRIES
  <2>9. TypeOK'
    BY <1>2, <1>3, <1>5, <2>2, <2>8 DEF TypeOK, Results, Entries
  <2>10. CASE pc' = "backoff"
    <3>1. s \in RateLimited /\ attempt' < BACKOFF_MAX_RETRIES
      BY <1>7, <2>10 DEF BACKOFF_MAX_RETRIES
    <3>2. Retried(attempt)'
      BY <1>4, <1>7, <2>4, <2>6 DEF Retried
    <3>3. \A i \in 2 .. attempt' + 1 : StatusAt(i)' \in RateLimited
      <4>1. \A i \in 2 .. attempt + 2 : e[i].status \in RateLimited
        BY <1>4, <2>7, <3>1
      <4> QED
        BY <1>4, <1>7, <4>1 DEF StatusAt
    <3>4. Position'
      BY <2>5, <2>10, <3>1, <3>2, <3>3 DEF Position, Failed
    <3> QED
      BY <2>9, <2>10, <3>4
         DEF ChainInv, Failed, StrikeMeansExhausted, RetriesStopOnChange, TerminalAtOnce
  <2>11. CASE pc' = "returned"
    <3>1. attempt + 1 < 3 => s \notin RateLimited
      BY <1>7, <2>11
    <3>2. After(RequestsFailures)' /\ result'.status \in RateLimited
      BY <2>5, FailureClasses DEF After
    <3>3. RetriesStopOnChange'
      <4>1. Len(e) - 1 = attempt + 1 /\ attempt + 1 \in 1 .. BACKOFF_MAX_RETRIES
        BY <1>4, <2>4 DEF BACKOFF_MAX_RETRIES
      <4>2. /\ \A i \in 2 .. (attempt + 1) + 1 : Tried'[i] = "retry"
            /\ attempt + 1 < BACKOFF_MAX_RETRIES => e[(attempt + 1) + 1].status \notin RateLimited
        BY <1>4, <2>6, <2>7, <3>1 DEF BACKOFF_MAX_RETRIES
      <4> HIDE DEF e
      <4>3. LET retries == Len(e) - 1
            IN  /\ retries \in 1 .. BACKOFF_MAX_RETRIES
                /\ \A i \in 2 .. retries + 1 : Tried'[i] = "retry"
                /\ \A i \in 2 .. retries : e[i].status \in RateLimited
                /\ retries < BACKOFF_MAX_RETRIES => e[retries + 1].status \notin RateLimited
        BY <2>7, <4>1, <4>2
      <4> QED
        BY <4>3 DEF e, RetriesStopOnChange, StatusAt
    <3>4. StrikeMeansExhausted' /\ TerminalAtOnce'
      BY <3>2, FailureClasses DEF StrikeMeansExhausted, TerminalAtOnce
    <3> QED
      BY <2>9, <2>11, <3>2, <3>3, <3>4 DEF ChainInv, Position
  <2> QED
    BY <2>8, <2>10, <2>11
<1> QED
  BY <1>2, <1>6, <1>7

LEMMA ChainInvNext == ChainInv /\ [Next]_vars => ChainInv'
<1> SUFFICES ASSUME ChainInv, [Next]_vars PROVE ChainInv'
  OBVIOUS
<1>1. CASE InvalidUrl \/ ValidUrl
  BY <1>1, ChainInvValidate
<1>2. CASE SleepBackoff
  BY <1>2, ChainInvBackoff
<1>3. CASE \E a \in Answers :
             \/ FirstProbe(a) \/ CurlCffi(a) \/ FlareSolverr(a) \/ Proxy(a)
             \/ Playwright(a) \/ Retry(a)
  BY <1>3, ChainInvFirst, ChainInvLevels, ChainInvRetry
<1>4. CASE UNCHANGED vars
  <2> USE <1>4 DEF vars
  <2>1. TypeOK'
    BY DEF ChainInv, TypeOK
  <2>2. Tried' = Tried /\ Failed' = Failed
    BY DEF Tried, Failed
  <2>3. Position'
    BY <2>2 DEF ChainInv, Position, After, Retried, StatusAt
  <2>4. StrikeMeansExhausted' /\ TerminalAtOnce'
    BY <2>2 DEF ChainInv, StrikeMeansExhausted, TerminalAtOnce
  <2>5. RetriesStopOnChange'
    BY <2>2 DEF ChainInv, RetriesStopOnChange, StatusAt
  <2> QED
    BY <2>1, <2>3, <2>4, <2>5 DEF ChainInv
<1> QED
  BY <1>1, <1>2, <1>3, <1>4 DEF Next, Terminated

LEMMA ChainInvariant == Spec => []ChainInv
BY ChainInvInit, ChainInvNext, PTL DEF Spec

-------------------------------------------------------------------------------
(* The theorems. *)

(* A call of analyze_tech_stack stays within its types; above all, every   *)
(* status it returns is one the taxonomy declares.                         *)
THEOREM TypeCorrect == Spec => []TypeOK
<1>1. ChainInv => TypeOK
  BY DEF ChainInv
<1> QED
  BY <1>1, ChainInvariant, PTL

(* However the fallbacks fail, the result a call returns keeps the class   *)
(* of the first failure (analyze_tech_stack only appends to error_detail). *)
THEOREM VerdictIsTheFirst == Spec => []FirstVerdictKept
<1>1. ChainInv => FirstVerdictKept
  BY DEF ChainInv, Position, After, FirstVerdictKept
<1> QED
  BY <1>1, ChainInvariant, PTL

(* A TLS-class failure is returned only after curl_cffi, FlareSolverr and  *)
(* the proxy were tried, in that order, whatever is installed.             *)
THEOREM StrikesAreEarned == Spec => []StrikeMeansExhausted
<1>1. ChainInv => StrikeMeansExhausted
  BY DEF ChainInv
<1> QED
  BY <1>1, ChainInvariant, PTL

(* The retry loop of analyze_tech_stack makes one to three retries and     *)
(* stops with the first that fails in another way.                         *)
THEOREM RetriesAreBounded == Spec => []RetriesStopOnChange
<1>1. ChainInv => RetriesStopOnChange
  BY DEF ChainInv
<1> QED
  BY <1>1, ChainInvariant, PTL

(* A terminal failure is returned after one fetch.                         *)
THEOREM NoFallbackForTerminal == Spec => []TerminalAtOnce
<1>1. ChainInv => TerminalAtOnce
  BY DEF ChainInv
<1> QED
  BY <1>1, ChainInvariant, PTL

(* An exception of class Timeout, a connect timeout included, leads to the *)
(* backoff loop: requests_probe names Timeout before ConnectionError.      *)
THEOREM TimeoutsAreRetried == Spec => SlowIsRetried
<1>1. ASSUME NEW a \in Answers, IsA(a, "Timeout"), FirstProbe(a)
      PROVE  pc' = "backoff"
  <2>1. a.raised \in {"ConnectTimeout", "ReadTimeout"} /\ Raised(a)
    BY <1>1 DEF IsA, Answers, Raised, Classes
  <2>2. RequestsProbe(a) = "timeout"
    BY <2>1, ClausesInOrder DEF RequestsProbe
  <2>3. pc' = Route(FallbackFor("timeout"))
    BY <1>1, <2>2 DEF FirstProbe
  <2> QED
    BY <2>3 DEF Route, FallbackFor, FALLBACK_MAP, TLSBlocked, RateLimited
<1>2. \A a \in Answers : IsA(a, "Timeout") /\ FirstProbe(a) => pc' = "backoff"
  BY <1>1
<1> QED
  BY <1>2, PTL DEF SlowIsRetried
==================================================================================
