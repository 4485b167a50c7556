----------------------------- MODULE FallbackChain -----------------------------
(***************************************************************************)
(* One call of analyze_tech_stack (recon/seer.py) and of the probe modules *)
(* it calls: a plain fetch, and, when that fails, the fallbacks            *)
(* FALLBACK_MAP names.  The network answers each fetch as it likes; which  *)
(* modules are installed or configured is fixed before the call.           *)
(* A call may take any time its timeouts leave it: requests applies the    *)
(* timeout to the connect, to each read and to each redirect separately,   *)
(* so one of its calls may wait that long several times over.              *)
(***************************************************************************)
EXTENDS ErrorTaxonomy, Integers, Sequences

CONSTANTS
  Codes,           \* the HTTP status codes that may come back
  RequestTimeout,  \* the timeout argument, in seconds
  Waits            \* how often a call of requests may wait for its server

ASSUME TimeoutAssumption == RequestTimeout \in Nat \ {0}
ASSUME WaitsAssumption == Waits \subseteq Nat \ {0} /\ Waits # {}
ASSUME CodesAssumption == Codes \subseteq {200, 401, 403, 404, 429, 521, 999}

VARIABLES
  pc,        \* the level about to be tried, or how the call ended
  deploy,    \* what the operator installed and configured
  result,    \* the ProbeResult under construction
  attempt,   \* retries made so far
  elapsed    \* seconds spent in sleeping and in waiting for timeouts

vars == <<pc, deploy, result, attempt, elapsed>>

BACKOFF_BASE        == 5
BACKOFF_MULTIPLIER  == 2
BACKOFF_CAP         == 60
BACKOFF_MAX_RETRIES == 3
Jitter              == 1    \* random.uniform(0, 1), rounded up
PoliteSleep         == 4    \* random.uniform(1.2, 3.5), rounded up
CHALLENGE_TIMEOUT_BUFFER == 60
ScrapflyBuffer      == 30
BrowserLaunch       == 30   \* Playwright's own timeout for the launch

Levels == {"requests", "curl_cffi", "flaresolverr", "proxy", "playwright", "retry"}

Deployments ==
  [curl_cffi : BOOLEAN, playwright : BOOLEAN, flaresolverr : BOOLEAN,
   proxy : {"none", "generic", "scrapfly"}]

HttpStatus(code) ==
  CASE code = 401 -> "http_401" [] code = 403 -> "http_403" [] code = 404 -> "http_404"
    [] code = 429 -> "http_429" [] code = 521 -> "http_521" [] code = 999 -> "http_999"

ProbeStatuses ==
  RequestsStatuses \cup {"module_unavailable"} \cup {HttpStatus(c) : c \in Codes \ {200}}

TypeOK ==
  /\ pc \in Levels \cup {"validate", "backoff", "returned", "raised"}
  /\ deploy \in Deployments
  /\ result \in [status : AnalyzeStatuses \cup {"none"},
                 fallback_module : {"", "curl_cffi", "delay_retry", "playwright"},
                 error_detail : Seq([level : Levels, status : ProbeStatuses])]
  /\ attempt \in 0 .. BACKOFF_MAX_RETRIES
  /\ elapsed \in Nat

(* error_detail is kept as what it reports: the levels tried, in order,    *)
(* with the status each ended in.                                          *)
Init ==
  /\ pc = "validate"
  /\ deploy \in Deployments
  /\ result = [status |-> "none", fallback_module |-> "", error_detail |-> <<>>]
  /\ attempt = 0
  /\ elapsed = 0

-------------------------------------------------------------------------------
(***************************************************************************)
(* What the network does with a fetch: it answers with a code and a body,  *)
(* or the client library raises.                                           *)
(***************************************************************************)
Bodies == {"page", "js_shell", "empty"}

Classes ==
  [SSLError         |-> {"SSLError", "ConnectionError", "RequestException"},
   ConnectTimeout   |-> {"ConnectionError", "Timeout", "RequestException"},
   ReadTimeout      |-> {"Timeout", "RequestException"},
   ConnectionError  |-> {"ConnectionError", "RequestException"},
   TooManyRedirects |-> {"RequestException"},
   Unexpected       |-> {}]

Answers ==
  [raised : {"nothing"}, code : Codes, body : Bodies]
    \cup [raised : DOMAIN Classes, code : {0}, body : {"empty"}]

Raised(a) == a.raised # "nothing"

IsA(a, class) == Raised(a) /\ class \in Classes[a.raised]

(* requests: raise_for_status raises from 400 up to 599 only. *)
RaisesForStatus(a) == a.code \in 400 .. 599

(* The except clauses of a probe, tried in order; none may match. *)
HandledBy(clauses, a) ==
  LET matching == {i \in DOMAIN clauses : IsA(a, clauses[i][1])}
      first    == CHOOSE i \in matching : \A j \in matching : i <= j
  IN  IF matching = {} THEN "propagates" ELSE clauses[first][2]

(* Mutant: the clauses in alphabetical order. *)
RequestsClauses_Alphabetical ==
  << <<"ConnectionError", "connection_error">>, <<"SSLError", "ssl_error">>,
     <<"Timeout", "timeout">>, <<"RequestException", "http_other">> >>

RequestsClauses ==
  << <<"SSLError", "ssl_error">>, <<"Timeout", "timeout">>,
     <<"ConnectionError", "connection_error">>, <<"RequestException", "http_other">> >>

RequestsProbe(a) ==
  IF Raised(a) THEN HandledBy(RequestsClauses, a)
  ELSE IF RaisesForStatus(a)
       THEN IF a.code \in {401, 403, 429, 521} THEN HttpStatus(a.code) ELSE "http_other"
  ELSE IF a.body = "js_shell" THEN "js_required" ELSE "ok"

(* Every exception is http_other; curl_cffi is content below 400 only. *)
CurlCffiProbe(a) ==
  IF ~ deploy.curl_cffi THEN "module_unavailable"
  ELSE IF Raised(a) \/ a.code >= 400 THEN "http_other" ELSE "ok"

(* a is what the solver's endpoint did; its code is the solution's. *)
FlareSolverrProbe(a) ==
  IF ~ deploy.flaresolverr \/ IsA(a, "ConnectionError") THEN "module_unavailable"
  ELSE IF Raised(a) THEN "http_other"
  ELSE IF a.code >= 400 THEN HttpStatus(a.code) ELSE "ok"

ViaGenericProxy(a) ==
  IF Raised(a) THEN HandledBy(<< <<"RequestException", "http_other">> >>, a)
  ELSE IF RaisesForStatus(a) THEN HttpStatus(a.code) ELSE "ok"

ViaScrapfly(a) ==
  IF RaisesForStatus(a) /\ a.code = 429 THEN "http_429"
  ELSE IF Raised(a) \/ RaisesForStatus(a) \/ a.body = "empty" THEN "http_other"
  ELSE "ok"

ProxyProbe(a) ==
  CASE deploy.proxy = "none"     -> "module_unavailable"
    [] deploy.proxy = "generic"  -> ViaGenericProxy(a)
    [] deploy.proxy = "scrapfly" -> ViaScrapfly(a)

(* The browser renders whatever page comes, error pages included. *)
PlaywrightProbe(a) ==
  IF ~ deploy.playwright THEN "module_unavailable"
  ELSE IF Raised(a) THEN "http_other" ELSE "ok"

-------------------------------------------------------------------------------
(***************************************************************************)
(* The chain.                                                              *)
(***************************************************************************)
Spend(times) == \E seconds \in times : elapsed' = elapsed + seconds

(* What a call of requests with this timeout may take. *)
Waiting(timeout) == {w * timeout : w \in Waits}

(* _build_probe_result of a good fetch; parsing the page may raise. *)
Succeed ==
  \/ /\ result' = [status |-> "ok", fallback_module |-> "", error_detail |-> <<>>]
     /\ pc' = "returned"
  \/ /\ pc' = "raised"
     /\ UNCHANGED result

Propagate == pc' = "raised" /\ UNCHANGED result

(* Mutant: the fallback's own failure replaces the first one. *)
Noted_Overwrites(level, status) ==
  [result EXCEPT !.status = IF status \in AnalyzeStatuses THEN status ELSE @,
                 !.error_detail = Append(@, [level |-> level, status |-> status])]

(* result.error_detail += " | level: ..." *)
Noted(level, status) ==
  [result EXCEPT !.error_detail = Append(@, [level |-> level, status |-> status])]

InvalidUrl ==
  /\ pc = "validate"
  /\ result' = [result EXCEPT !.status = "invalid_url"]
  /\ pc' = "returned"
  /\ UNCHANGED <<deploy, attempt, elapsed>>

ValidUrl ==
  /\ pc = "validate"
  /\ pc' = "requests"
  /\ UNCHANGED <<deploy, result, attempt, elapsed>>

(* Mutant: the fallback of a terminal failure defaults to the TLS chain. *)
Route_Default(fallback) ==
  CASE fallback = "playwright"  -> "playwright"
    [] fallback = "delay_retry" -> "backoff"
    [] OTHER                    -> "curl_cffi"

Route(fallback) ==
  CASE fallback = "curl_cffi"   -> "curl_cffi"
    [] fallback = "playwright"  -> "playwright"
    [] fallback = "delay_retry" -> "backoff"
    [] OTHER                    -> "returned"

FirstProbe(a) ==
  LET status == RequestsProbe(a)
  IN  /\ pc = "requests"
      /\ Spend({PoliteSleep + t : t \in Waiting(RequestTimeout)})
      /\ \/ status = "ok" /\ Succeed
         \/ status = "propagates" /\ Propagate
         \/ /\ status \notin {"ok", "propagates"}
            /\ result' = [status |-> status, fallback_module |-> FallbackFor(status),
                          error_detail |-> << [level |-> "requests", status |-> status] >>]
            /\ pc' = Route(FallbackFor(status))
      /\ UNCHANGED <<deploy, attempt>>

(* What a fallback level may take: nothing when it is not there.  The      *)
(* timeout of curl_cffi is for the whole call; a browser has to be         *)
(* launched before it goes to the page.                                    *)
Seconds(level) ==
  CASE level = "curl_cffi"    -> IF deploy.curl_cffi THEN {RequestTimeout} ELSE {0}
    [] level = "flaresolverr" -> IF deploy.flaresolverr
                                 THEN Waiting(RequestTimeout + CHALLENGE_TIMEOUT_BUFFER) ELSE {0}
    [] level = "playwright"   -> IF deploy.playwright THEN {BrowserLaunch + RequestTimeout} ELSE {0}
    [] level = "proxy"        -> CASE deploy.proxy = "none"     -> {0}
                                   [] deploy.proxy = "generic"  -> Waiting(RequestTimeout)
                                   [] deploy.proxy = "scrapfly" -> Waiting(RequestTimeout + ScrapflyBuffer)

(* One fallback level: return its page, or note its failure and go on. *)
TryLevel(level, status, next) ==
  /\ pc = level
  /\ Spend(Seconds(level))
  /\ \/ status = "ok" /\ Succeed
     \/ status = "propagates" /\ Propagate
     \/ /\ status \notin {"ok", "propagates"}
        /\ result' = Noted(level, status)
        /\ pc' = next
  /\ UNCHANGED <<deploy, attempt>>

(* Mutant: without curl_cffi the chain is given up. *)
CurlCffi_GivesUp(a) ==
  TryLevel("curl_cffi", CurlCffiProbe(a),
           IF deploy.curl_cffi THEN "flaresolverr" ELSE "returned")

CurlCffi(a)     == TryLevel("curl_cffi", CurlCffiProbe(a), "flaresolverr")
FlareSolverr(a) == TryLevel("flaresolverr", FlareSolverrProbe(a), "proxy")
Proxy(a)        == TryLevel("proxy", ProxyProbe(a), "returned")
Playwright(a)   == TryLevel("playwright", PlaywrightProbe(a), "returned")

Backoff ==
  LET delay == BACKOFF_BASE * BACKOFF_MULTIPLIER ^ attempt
  IN  IF delay < BACKOFF_CAP THEN delay ELSE BACKOFF_CAP

SleepBackoff ==
  /\ pc = "backoff"
  /\ Spend({Backoff + Jitter})
  /\ pc' = "retry"
  /\ UNCHANGED <<deploy, result, attempt>>

(* Mutant: only an answer uses up an attempt. *)
AttemptsAfter_AnswersOnly(status) == IF status = "timeout" THEN attempt ELSE attempt + 1

AttemptsAfter(status) == attempt + 1

(* Mutant: one retry too many. *)
GoesOn_OneMore(status) ==
  status \in {"http_429", "timeout"} /\ AttemptsAfter(status) <= BACKOFF_MAX_RETRIES

(* Mutant: a retry that fails differently is retried like the others. *)
GoesOn_Always(status) == AttemptsAfter(status) < BACKOFF_MAX_RETRIES

(* More waiting helps only while the site is limiting or slow. *)
GoesOn(status) ==
  status \in {"http_429", "timeout"} /\ AttemptsAfter(status) < BACKOFF_MAX_RETRIES

(* The plain probe again, without its polite sleep. *)
Retry(a) ==
  LET status == RequestsProbe(a)
  IN  /\ pc = "retry"
      /\ Spend(Waiting(RequestTimeout))
      /\ \/ status = "ok" /\ Succeed /\ UNCHANGED attempt
         \/ status = "propagates" /\ Propagate /\ UNCHANGED attempt
         \/ /\ status \notin {"ok", "propagates"}
            /\ result' = Noted("retry", status)
            /\ attempt' = AttemptsAfter(status)
            /\ pc' = IF GoesOn(status) THEN "backoff" ELSE "returned"
      /\ UNCHANGED deploy

-------------------------------------------------------------------------------
Ended == pc \in {"returned", "raised"}

Terminated == Ended /\ UNCHANGED vars

Next ==
  \/ InvalidUrl
  \/ ValidUrl
  \/ SleepBackoff
  \/ \E a \in Answers :
       \/ FirstProbe(a) \/ CurlCffi(a) \/ FlareSolverr(a) \/ Proxy(a)
       \/ Playwright(a) \/ Retry(a)
  \/ Terminated

Spec == Init /\ [][Next]_vars

-------------------------------------------------------------------------------
(***************************************************************************)
(* Properties.                                                             *)
(***************************************************************************)
Tried == [i \in DOMAIN result.error_detail |-> result.error_detail[i].level]

StatusAt(i) == result.error_detail[i].status

Failed == pc = "returned" /\ result.status \notin {"ok", "invalid_url"}

(* A failed result keeps the class of the FIRST failure, the one the       *)
(* fallback was chosen for, however the levels after it failed: that class *)
(* is what the breaker counts and the CSV publishes.                       *)
FirstVerdictKept ==
  Failed => /\ result.error_detail # <<>>
            /\ result.status = StatusAt(1)
            /\ result.fallback_module = FallbackFor(StatusAt(1))

(* "http_403 here means the full fallback chain was already exhausted": a  *)
(* TLS-class failure is returned only after all three levels were tried,   *)
(* in their order, also on an installation that has none of them.          *)
StrikeMeansExhausted ==
  Failed /\ result.status \in TLSBlocked =>
    Tried = <<"requests", "curl_cffi", "flaresolverr", "proxy">>

(* A rate-limited or slow site is retried at most three times, and not     *)
(* once more after it fails in another way; nothing else is tried on it.   *)
RetriesStopOnChange ==
  Failed /\ result.status \in RateLimited =>
    LET retries == Len(result.error_detail) - 1
    IN  /\ retries \in 1 .. BACKOFF_MAX_RETRIES
        /\ \A i \in 2 .. retries + 1 : Tried[i] = "retry"
        /\ \A i \in 2 .. retries : StatusAt(i) \in RateLimited
        /\ retries < BACKOFF_MAX_RETRIES => StatusAt(retries + 1) \notin RateLimited

(* A terminal failure costs one fetch: bad credentials and dead hosts get  *)
(* no fallback.                                                            *)
TerminalAtOnce ==
  Failed /\ result.status \in {"http_401", "connection_error", "http_other"} =>
    Tried = <<"requests">>

(* A host that lets the connect or the wait for its answer time out is     *)
(* retried: no slow host is buried as dead, although a connect timeout is  *)
(* also a ConnectionError.  (One that stalls in the body of its answer is  *)
(* not: requests reports that as a ConnectionError and no Timeout.)        *)
SlowIsRetried ==
  [][\A a \in Answers : IsA(a, "Timeout") /\ FirstProbe(a) => pc' = "backoff"]_vars

(* The comment on the wall clock: "Worst-case per-URL: requests(T) +       *)
(* curl_cffi(T) + flaresolverr(T+60) + proxy(T+30) + jitter", which the    *)
(* formula takes for 4T+100: no call of the chain lasts longer as long as  *)
(* everything it calls keeps to its timeout.                               *)
BudgetCovers == elapsed <= 4 * RequestTimeout + 100
================================================================================
