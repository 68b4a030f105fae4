----------------------------- MODULE MCCifWriter -----------------------------
(* Instances of CifWriter: texts are sequences, put together from pieces. *)
EXTENDS CifWriter

a(n) == [i \in 1..n |-> "a"]

\* Four of the pieces that delimiting, folding and prefixing tell apart
Pieces == {<<>>, a(1), a(5), a(9), <<";">>, <<" ">>, <<"\\">>, <<"nl">>, <<"'">>, <<"\"">>}
Composed == {p \o q \o r : p \in Pieces, q \in Pieces, r \in Pieces}

Special ==
    {<<"'", "'", "'", "\"", "nl", "a", "a">>, <<"'", "\"", "\"", "\"", "nl", "a", "a">>,
     <<"'", "'", "'", "nl", "\"", "\"", "\"">>, <<"[", "a">>, <<"a", "]">>, <<"$", "a">>, <<"loop_">>,
     <<"data_", "a">>, <<"save_">>, <<"stop_">>, <<"global_">>, <<"?">>, <<".">>, <<"_", "a">>, <<"#">>,
     <<"u">>, <<":">>, [i \in 1..13 |-> ";"], <<"a">> \o [i \in 1..13 |-> ";"]}

Quoted_(texts) == {Scalar("char", t, TRUE) : t \in texts}
Bare_(texts)   == {Scalar("char", t, FALSE) : t \in {u \in texts : Plain(u) \/ (u # <<>> /\ Head(u) = ";" /\ ~Has(u, Whitespace))}}
Number(n)      == Scalar("numb", [i \in 1..n |-> "5"], FALSE)
List(elements) == [kind |-> "list", elements |-> elements]
Table(entries) == [kind |-> "table", entries |-> entries]
Entry(key, v)  == [key |-> key, val |-> v]

Few == Quoted_({<<>>, a(10), a(12), a(13), <<"nl">>, <<"a", "nl", ";">>, <<"'", "nl", "a", "a">>})
       \cup {Scalar("char", a(7), FALSE), Number(1), Number(11), Unk}
Few2 == {List(<<>>), List(<<Na>>), Table(<<>>)} \cup Few

Nested ==
    {List(<<v, w>>) : v \in Few2, w \in Few2}
    \cup {Table(<<Entry(k, v)>>) : k \in {a(3), a(6), a(9), a(10), <<"'">>, <<"'", "\"">>}, v \in Few2}
    \cup {Table(<<Entry(<<"'", "nl", "b">>, v), Entry(a(2), w)>>) : v \in Few, w \in Few2}
    \cup {List(<<Table(<<Entry(<<"a">>, v)>>)>>) : v \in Few}
    \cup {Table(<<Entry(<<"a">>, List(<<v>>))>>) : v \in Few}

MCValues == Quoted_(Composed \cup Special) \cup Bare_(Composed \cup Special) \cup Nested
            \cup {Unk, Na, Number(1), Number(13)}
MCCommon == {Unk, Scalar("char", a(6), TRUE), Scalar("char", <<"a", "nl", "a">>, TRUE),
             Scalar("char", a(14), TRUE)}

x == <<"_", "x">>
y == <<"_">> \o a(11)
MCNames == {<<x>>, <<x, y>>, <<<<"_", "u">>>>}
MCCodes == {<<"b">>, <<"u">>}

=============================================================================
