----------------------------- MODULE MCSpiBus -----------------------------
(* Instances of SpiBus for TLC: AT answers queue one deep, packets two     *)
(* deep where that is affordable.                                          *)
EXTENDS SpiBus

MCShallow == [t \in Bound |-> 1]
MCDeep == [t \in Bound |-> IF t = AtType THEN 1 ELSE 2]
=============================================================================
