---------------------------- MODULE ErrorTaxonomy ----------------------------
(***************************************************************************)
(* The vocabulary the recon subsystem shares: what one fetch can come back *)
(* with, which fallback module each failure calls for, and which failures  *)
(* count against a host.  Statuses are the strings of the source.          *)
(***************************************************************************)

(* What requests_probe.probe puts in the "status" of its fetch dict. *)
RequestsStatuses ==
  {"ok", "js_required", "http_401", "http_403", "http_429", "http_521",
   "http_other", "ssl_error", "timeout", "connection_error"}

TLSBlocked  == {"http_403", "http_521", "ssl_error"}
RateLimited == {"http_429", "timeout"}

(* The failures a fallback exists for, and the fallback. *)
FALLBACK_MAP ==
  [s \in TLSBlocked \cup RateLimited \cup {"js_required"} |->
     CASE s \in TLSBlocked  -> "curl_cffi"
       [] s \in RateLimited -> "delay_retry"
       [] OTHER             -> "playwright"]

(* FALLBACK_MAP.get(status, ""): an unlisted failure is terminal. *)
FallbackFor(s) == IF s \in DOMAIN FALLBACK_MAP THEN FALLBACK_MAP[s] ELSE ""

(* The failures that prove the host itself is blocking or dead. *)
CircuitStrikeStatuses ==
  {"http_403", "http_401", "ssl_error", "connection_error"}

(* Every status analyze_tech_stack returns (FallbackChain!TypeOK).         *)
AnalyzeStatuses == RequestsStatuses \cup {"invalid_url"}

==============================================================================
