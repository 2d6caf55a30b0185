-------------------------- MODULE MCDirectTriggers --------------------------
(* DirectTriggers for TLC: two users of one key, an account each. *)
EXTENDS DirectTriggers, TLC

CONSTANTS a, b, alice, bob, conn1, conn2

MCEntity == a :> alice @@ b :> bob
MCOwner == conn1 :> alice @@ conn2 :> bob

=============================================================================
