--------------------------- MODULE MCMemoryBroker ---------------------------
(* Instances of MemoryBroker for TLC. *)
EXTENDS MemoryBroker

CONSTANTS m1, m2, a, b, other

MCMembers == {m1, m2}
MCEvents == {a, b, other}
MCWanted == {a, b}
=============================================================================
