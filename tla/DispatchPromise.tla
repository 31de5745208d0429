--------------------------- MODULE DispatchPromise ---------------------------
(***************************************************************************)
(* What execute_dispatch of Backend/tta_backend/services/                  *)
(* dispatch_executor.py promises one chat turn, without rounds, slots or   *)
(* steps: each distinct request runs once, a list that does not fit in the *)
(* budget is refused whole, and every item of an accepted list is answered *)
(* with its request's one outcome, by the call that started it as its own  *)
(* and by every other as a duplicate.                                      *)
(***************************************************************************)
EXTENDS Integers, FiniteSets, Sequences

CONSTANTS
    Calls,      \* dispatch tool calls of a turn
    Requests,   \* distinct requests, by canonical_key
    Lists,      \* the request lists a call may carry
    MaxRuns,    \* supervisor_max_requests_per_turn
    None        \* no call

VARIABLES
    asked,      \* the list of each call that was dealt with, else <<>>
    owner,      \* the call that started each request's run, or None
    outcome,    \* of each request's run
    items       \* the items each call was answered with, else <<>>

vars == <<asked, owner, outcome, items>>

Keys(l) == {l[i] : i \in DOMAIN l}
Started == {r \in Requests : owner[r] # None}
New(l) == Keys(l) \ Started
Over(r) == outcome[r] \in {"ok", "error"}

\* The first place of a request in the list of the call that started it.
Owns(c, l, i) == owner[l[i]] = c /\ \A j \in 1..(i - 1) : l[j] # l[i]

Answers(c, l) ==
    [i \in DOMAIN l |-> [status |-> IF Owns(c, l, i) THEN outcome[l[i]]
                                    ELSE "duplicate",
                         result |-> outcome[l[i]]]]

Rejections(l) == [i \in DOMAIN l |-> [status |-> "rejected", result |-> "none"]]

Init ==
    /\ asked = [c \in Calls |-> <<>>]
    /\ owner = [r \in Requests |-> None]
    /\ outcome = [r \in Requests |-> "none"]
    /\ items = [c \in Calls |-> <<>>]

Refuse(c, l) ==
    /\ asked[c] = <<>>
    /\ Cardinality(Started) + Cardinality(New(l)) > MaxRuns
    /\ New(l) # {}
    /\ asked' = [asked EXCEPT ![c] = l]
    /\ items' = [items EXCEPT ![c] = Rejections(l)]
    /\ UNCHANGED <<owner, outcome>>

Accept(c, l) ==
    /\ asked[c] = <<>>
    /\ Cardinality(Started) + Cardinality(New(l)) <= MaxRuns
    /\ asked' = [asked EXCEPT ![c] = l]
    /\ owner' = [r \in Requests |-> IF r \in New(l) THEN c ELSE owner[r]]
    /\ outcome' = [r \in Requests |-> IF r \in New(l) THEN "pending"
                                      ELSE outcome[r]]
    /\ UNCHANGED items

Finish(r) ==
    /\ outcome[r] = "pending"
    /\ \E o \in {"ok", "error"} : outcome' = [outcome EXCEPT ![r] = o]
    /\ UNCHANGED <<asked, owner, items>>

Answer(c) ==
    /\ asked[c] # <<>>
    /\ items[c] = <<>>
    /\ \A r \in Keys(asked[c]) : Over(r)
    /\ items' = [items EXCEPT ![c] = Answers(c, asked[c])]
    /\ UNCHANGED <<asked, owner, outcome>>

\* The turn is stopped: what was pending never comes out.
Withdraw ==
    /\ outcome' = [r \in Requests |-> IF outcome[r] = "pending" THEN "cancelled"
                                      ELSE outcome[r]]
    /\ UNCHANGED <<asked, owner, items>>

Next ==
    \/ \E c \in Calls : Answer(c) \/ \E l \in Lists : Refuse(c, l) \/ Accept(c, l)
    \/ \E r \in Requests : Finish(r)
    \/ Withdraw

Spec == Init /\ [][Next]_vars
=============================================================================
