-------------------------- MODULE MCIterateOverlap --------------------------
(* Two iterations at once, and reports whose highest price comes first, last,  *)
(* or from a zone that is not available.                                       *)
EXTENDS IterateOverlap

LOCAL Point(z, p) == [option |-> <<"t1", z>>, price |-> p]

MCReport ==
    {[available |-> {"z1"}, history |-> <<Point("z1", 2), Point("z1", 1)>>],
     [available |-> {"z1"}, history |-> <<Point("z2", 2), Point("z1", 2)>>]}
=============================================================================
