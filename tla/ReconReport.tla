------------------------------ MODULE ReconReport ------------------------------
(***************************************************************************)
(* What a recon run (module ReconRun) reports: every page that was fetched *)
(* is classified by _identify_stack, and _majority_stack elects one stack  *)
(* from the successful results for the console and both channels.  A page  *)
(* is kept as the markers _identify_stack looks for in it.                 *)
(***************************************************************************)
EXTENDS ReconRun, SequencesExt

CONSTANT Pages   \* the pages the sampled URLs may serve

(* What _identify_stack looks for, in its order. *)
Markers == <<"json", "next", "react", "vtex", "squarespace">>

ASSUME PagesAssumption == Pages \subseteq SUBSET Range(Markers)

VARIABLES
  tech,     \* the stack identified at each sampled URL, or NoStack
  winner,   \* the stack elected, or NoStack
  warned    \* whether the log says that it has no majority

reportVars == <<vars, tech, winner, warned>>

NoStack == "none"

ReportInit ==
  /\ Init
  /\ tech = [u \in Sample |-> NoStack]
  /\ winner = NoStack
  /\ warned = FALSE

(* The order is load-bearing: a JSON document may contain any marker, and  *)
(* every Next.js page carries those of React.  A stack goes by its marker. *)
IdentifyStack(page) ==
  LET first == SelectInSeq(Markers, LAMBDA marker : marker \in page)
  IN  IF first = 0 THEN "static" ELSE Markers[first]

(* Mutant: every result has a vote, whatever became of its probe. *)
OkResults_All == DOMAIN results

OkResults == {i \in DOMAIN results : results[i].status = "ok"}

Detected == {tech[results[i].url] : i \in OkResults}

Count(stack) == Cardinality({i \in OkResults : tech[results[i].url] = stack})

(* max(set(stacks), key=stacks.count): of several that are counted equally *)
(* often, the one the iteration over the set comes to first.               *)
MostFrequent == {s \in Detected : \A t \in Detected : Count(t) <= Count(s)}

(* stacks.count(majority) < len(stacks) / 2 *)
NoMajority(stack) == 2 * Count(stack) < Cardinality(OkResults)

(* A probe that returns ok has classified its page. *)
Classify ==
  LET answering == {u \in Sample : outcome[u] = "none" /\ outcome'[u] = "ok"}
  IN  IF answering = {} THEN UNCHANGED tech
      ELSE \E page \in Pages :
             tech' = [u \in Sample |-> IF u \in answering THEN IdentifyStack(page) ELSE tech[u]]

Elect ==
  IF Report /\ AnyOk
  THEN winner' \in MostFrequent /\ warned' = NoMajority(winner')
  ELSE UNCHANGED <<winner, warned>>

ReportNext == Next /\ Classify /\ Elect

ReportSpec == ReportInit /\ [][ReportNext]_reportVars

-------------------------------------------------------------------------------
(* What the channels were told can be read off the published plan: the     *)
(* stack was found at a URL whose row says ok, no other one was found at   *)
(* more of them; the log warns if it was found at fewer than half of them, *)
(* and does not if at more.  (Exactly half is no absolute majority either, *)
(* and the code is silent.)  Probes end in any order, around the wall      *)
(* clock, and late ones are discarded: the vote has to be of the results   *)
(* the plan has.                                                           *)
ElectedByThePlan ==
  output = "whole" /\ notified # {} =>
    LET ok       == {u \in Sample : csv[u] = "ok"}
        Votes(s) == Cardinality({u \in ok : tech[u] = s})
    IN  /\ \E u \in ok : tech[u] = winner
        /\ \A u \in ok : Votes(tech[u]) <= Votes(winner)
        /\ 2 * Votes(winner) < Cardinality(ok) => warned
        /\ 2 * Votes(winner) > Cardinality(ok) => ~ warned
================================================================================
