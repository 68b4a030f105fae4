------------------------------ MODULE MCCifStore ------------------------------
(* Constants for model-checking CifStore with TLC.                            *)
EXTENDS CifStore, TLC

\* Codes are compared without case; an empty one is invalid.
MCCodeSpelling == {"A", "a", ""}

MCNormCode == ("A" :> "a") @@ ("a" :> "a") @@ ("" :> "invalid")

\* One code, and one name in two spellings
OneCode == "A" :> "a"
OneName == ("_a" :> "_a") @@ ("_A" :> "_a")

\* Two names, and one that lacks the underscore and so is invalid
ThreeSpellings == {"_a", "_b", "b"}
TwoNames == ("_a" :> "_a") @@ ("_b" :> "_b") @@ ("b" :> "invalid")

AllLists == {<<>>} \cup [1..1 -> ItemSpelling] \cup [1..2 -> ItemSpelling]

AllPackets == UNION {[S -> Value] : S \in SUBSET ItemName}

\* The variable ret is an output: no action reads it.
View == <<db, autocommit, saved, cont, lh, iters>>

Slots == Permutations(Slot)
=============================================================================
