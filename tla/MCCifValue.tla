----------------------------- MODULE MCCifValue -----------------------------
(* Instances of CifValue: texts and the arguments of calls are sequences. *)
EXTENDS CifValue

\* Texts that are numbers and that are not, that can be unquoted and that cannot.
MCTexts ==
    {<<>>, <<"?">>, <<".">>, <<"a">>, <<"a", " ">>, <<"a", "]">>, <<"_", "a">>, <<"$">>,
     <<"data_", "a">>, <<"loop_">>, <<"loop_", "a">>, <<"5">>, <<"0", "5", ".">>, <<"+", ".", "5">>,
     <<"-", "0", ".", "5", "0", "(", "0", "2", ")">>, <<"5", "e", "2">>, <<"5", ".", "0", "E", "-", "1">>,
     <<"5", "e">>, <<"5", "(", ")">>, <<".", "e", "1">>, <<"5", "(", "1">>, <<"5", ".", ".">>}

\* Numbers on both sides of a tie, a power of ten and zero; scales that cut off
\* all digits and that need more than one digit of the base.
MCInits == {-804, -44, -32, -1, 0, 1, 4, 7, 12, 79, 84, 7999} \X {0, 3, 84, 799} \X (-2..3) \X {0, 2}
MCAutos == {-13, 0, 808} \X {0, 1, 3, 20, 21, 76, 84, 150, 160, 796, 799} \X {2, 9, 19, 28}

\* With several objects: a text that can be unquoted, and a number without digits.
MCCommonTexts == {<<>>, <<"a">>, <<"-", "0", "e", "+", "0", "1">>}
MCCommonInits == {<<-32, 0, -1, 0>>}

=============================================================================
