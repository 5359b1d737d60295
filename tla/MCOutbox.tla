------------------------------ MODULE MCOutbox ------------------------------
(* Instances of Outbox for TLC. *)
EXTENDS Outbox, TLC

CONSTANTS t1, t2, r1, r2

MCTxs == {t1, t2}
MCTwoRelays == {r1, r2}
MCOneRelay == {r1}
TwoRelaySymmetry == Permutations({t1, t2}) \cup Permutations({r1, r2})
=============================================================================
