----------------------------- MODULE MCKeyService -----------------------------
(* Instances of KeyService, and of the ConfigStore in it, for TLC.           *)
EXTENDS KeyService, TLC

CONSTANTS p1, p2

(* A key with an umlaut, one with a comment behind it, and one with a quote  *)
(* that is never closed.                                                     *)
MCTyped == [KEY |-> {"schluessel", "pin #2", "'open"}, SIZE |-> {"50"}]

(* Two keys that can be used. *)
UsableTyped == [KEY |-> {"secret", "pin #2"}, SIZE |-> {"50"}]

MCDotenv ==
  [v \in Values \cup {Empty} |->
     CASE v = "pin #2" -> "pin" [] v = "'open" -> Unset [] OTHER -> v]

(* No .env yet, and a copy of .env.example: a comment and empty variables. *)
MCFiles == {<<>>, <<Foreign, Plain("KEY", Empty)>>}

MCHandLines == [shape : {"plain", "spaced", "export"}, name : {"KEY"}, value : {"schluessel"}]

(* Selected is SelectSeq, on every file of up to three lines of one name.    *)
MCLines == {Foreign} \cup [shape : {"plain", "export"}, name : {"KEY"}, value : {Empty, "pin #2"}]

ASSUME SelectedIsSelectSeq ==
  \A file \in BoundedSeq(MCLines, 3) :
    /\ NotOwned(file, "KEY") = SelectSeq(file, LAMBDA l : ~ Owns(l, "KEY"))
    /\ Bindings(file, "KEY") = SelectSeq(file, LAMBDA l : Binds(l, "KEY"))

MCShells == {Unset, "pin"}
OnlyDotenv == {Unset}

MCHeaders == {"pin", "pin #2", "'open", "schluessel"}

(* Processes differ in nothing but their name. *)
Alike == Permutations({p1, p2})
===============================================================================
