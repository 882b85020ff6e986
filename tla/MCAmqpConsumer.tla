--------------------------- MODULE MCAmqpConsumer ---------------------------
(* Instances of AmqpConsumer for TLC. *)
EXTENDS AmqpConsumer, TLC

CONSTANTS m1, m2, m3, m4, w1, w2

=============================================================================
