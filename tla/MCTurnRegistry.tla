---------------------------- MODULE MCTurnRegistry ----------------------------
(* Finite instances of TurnRegistry: which call is for which thread, carries *)
(* which key and is served by which replica.                                 *)
EXTENDS TurnRegistry, TLC

CONSTANTS u1, u2, u3, t1, k1, r1, r2

\* A send and its retry on two replicas, and another tab's message.
ThreeOnOneThread == [u \in {u1, u2, u3} |-> t1]
RetryAndOther == (u1 :> k1) @@ (u2 :> k1) @@ (u3 :> None)
TwoHomes == (u1 :> r1) @@ (u2 :> r2) @@ (u3 :> r1)

\* Two turns one after the other on one thread, each on its own replica.
TwoOnOneThread == [u \in {u1, u2} |-> t1]
NoKeys == [u \in {u1, u2} |-> None]
HomeEach == (u1 :> r1) @@ (u2 :> r2)

\* One turn.
OnOneThread == [u \in {u1} |-> t1]
NoKey == [u \in {u1} |-> None]
OnOneReplica == [u \in {u1} |-> r1]
==============================================================================
