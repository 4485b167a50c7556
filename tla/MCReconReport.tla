----------------------------- MODULE MCReconReport -----------------------------
(* An instance of ReconReport for TLC: one host with more URLs than the       *)
(* breaker lets through, one row outside the sample.                          *)
EXTENDS ReconReport, TLC

CONSTANTS a1, a2, a3, a4, rest, hostA

OneHostSample == {a1, a2, a3, a4}
OneHostRows   == OneHostSample \cup {rest}
OneHostOf     == [u \in OneHostSample |-> hostA]

(* A JSON document, a Next.js page with the marker of React, a static page. *)
MCPages == {{"json"}, {"next", "react"}, {}}

(* A save breaks off before the last row. *)
FirstRows == {OneHostSample}

(* The URLs of the host are interchangeable. *)
SameHost == Permutations(OneHostSample)
================================================================================
