------------------------------ MODULE MCInbox -------------------------------
(* An instance of Inbox for TLC: two members of one consumer, one message. *)
EXTENDS Inbox

CONSTANTS m1, m2, billing, d1, e

MCGroup == [m \in {m1, m2} |-> billing]
MCOne == [d \in {d1} |-> e]
=============================================================================
