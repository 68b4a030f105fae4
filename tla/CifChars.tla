------------------------------- MODULE CifChars -------------------------------
(***************************************************************************)
(* Characters, as far as texts are told apart by them.  A text is a        *)
(* sequence of characters; the prefixes data_ and save_ and the keywords   *)
(* are characters of their own.                                            *)
(***************************************************************************)
EXTENDS Naturals, Sequences

Brackets   == {"[", "]", "{", "}"}
Blanks     == {" ", "tab"}
Whitespace == Blanks \cup {"nl", "cr"}
Has(t, S)  == \E i \in DOMAIN t : t[i] \in S

\* cif_is_reserved_string
Reserved(t) ==
    \/ Head(t) \in {"_", "#", "$", "'", "\"", "data_", "save_"}
    \/ t \in {<<"global_">>, <<"loop_">>, <<"stop_">>}

\* The marks of an unknown and of a not-applicable value
UnkText == <<"?">>
NaText  == <<".">>

=============================================================================
