------------------------------ MODULE MCCifWalk ------------------------------
(* A CIF to walk: a block with two frames, a loop of two packets and an empty *)
(* loop; an empty loop in a frame too; and an empty block.                    *)
EXTENDS CifWalk, TLC

Tree == ("cif" :> <<"b1", "b2">>) @@ ("b1" :> <<"f1", "f2", "l1", "l2">>)
          @@ ("f1" :> <<"l3">>) @@ ("l1" :> <<"p1", "p2">>)
          @@ ("p1" :> <<"i1", "i2">>) @@ ("p2" :> <<"i3">>)

MCNode == {"cif", "b1", "b2", "f1", "f2", "l1", "l2", "l3", "p1", "p2", "i1", "i2",
           "i3"}

MCChildren == [n \in MCNode |-> IF n \in DOMAIN Tree THEN Tree[n] ELSE <<>>]

MCKind == [n \in MCNode |->
             CASE n = "cif" -> "cif"
               [] n \in {"b1", "b2"} -> "block"
               [] n \in {"f1", "f2"} -> "frame"
               [] n \in {"l1", "l2", "l3"} -> "loop"
               [] n \in {"p1", "p2"} -> "packet"
               [] n \in {"i1", "i2", "i3"} -> "item"]
=============================================================================
