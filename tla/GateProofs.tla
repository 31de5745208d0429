------------------------------ MODULE GateProofs ------------------------------
(***************************************************************************)
(* Theorems of Admission, JwksCache, ConnectionManager and ToolCall, what  *)
(* stands between a request and its work: the limiter, the key set its     *)
(* token is checked with, the connection its tools come from, and the      *)
(* breaker and the credential of the calls it makes; for every number of   *)
(* callers, permits, export workers, requests and calls, and every         *)
(* threshold.                                                              *)
(* The limiter's inductive invariant joins the type invariant, what the    *)
(* program counter says about permit and job, and the three counting       *)
(* invariants; every named theorem is read off it. The key set's needs     *)
(* what a request carries from the moment it began to the moment it is     *)
(* judged; the connection's needs a ready state to be known of at the      *)
(* places of the loop where the reader is promised nothing. The calls'     *)
(* needs two things: while the breaker is open its clock runs from the     *)
(* last failure, and a read that no longer matches the stored row is one   *)
(* the history calls raced.                                                *)
(***************************************************************************)
EXTENDS Admission, JwksCache, ConnectionManager, ToolCall, FiniteSetTheorems, TLAPS

\* What being somewhere in a call says about its permit and its job.
ShapeOf(c) ==
    /\ permit[c] = "caller" <=> pc[c] \in {"working", "cancelling"}
    /\ permit[c] \in {"thread", "scheduled"}
          <=> c \in Heavy /\ pc[c] = "orphaned"
    /\ permit[c] = "thread" => job[c] = "running"
    /\ permit[c] = "scheduled" => job[c] = "none"
    /\ job[c] # "none" => pc[c] \in {"working", "cancelling", "orphaned"}

Shape == \A c \in Callers : ShapeOf(c)

IInv ==
    /\ TypeOK
    /\ Shape
    /\ PermitsConserved
    /\ QueueCountExact
    /\ NoLostWakeup

-----------------------------------------------------------------------------
(* Counting subsets of Callers.                                            *)

\* Sets of callers are finite, and their cardinalities are numbers.
LEMMA SubsetFinite ==
    ASSUME NEW S \in SUBSET Callers
    PROVE  IsFiniteSet(S) /\ Cardinality(S) \in Nat
<1>1. IsFiniteSet(Callers)
  BY FS_Union, CallersAssumption DEF Callers
<1>2. IsFiniteSet(S)
  BY <1>1, FS_Subset
<1>3. QED
  BY <1>2, FS_CardinalityType

\* A caller that joins a set adds one to its cardinality.
LEMMA CountAdd ==
    ASSUME NEW S \in SUBSET Callers, NEW c \in Callers, c \notin S
    PROVE  Cardinality(S \cup {c}) = Cardinality(S) + 1
BY SubsetFinite, FS_AddElement

\* A caller that leaves a set takes one off its cardinality.
LEMMA CountRemove ==
    ASSUME NEW S \in SUBSET Callers, NEW c \in S
    PROVE  Cardinality(S \ {c}) = Cardinality(S) - 1
BY SubsetFinite, FS_RemoveElement

\* Disjoint sets of callers add up.
LEMMA CountUnion ==
    ASSUME NEW S \in SUBSET Callers, NEW T \in SUBSET Callers, S \cap T = {}
    PROVE  Cardinality(S \cup T) = Cardinality(S) + Cardinality(T)
<1>1. IsFiniteSet(S) /\ IsFiniteSet(T)
  BY SubsetFinite
<1>2. Cardinality(S \cap T) = 0
  BY FS_EmptySet
<1>3. Cardinality(S) \in Nat /\ Cardinality(T) \in Nat
  BY SubsetFinite
<1>4. Cardinality(S \cup T)
        = Cardinality(S) + Cardinality(T) - Cardinality(S \cap T)
  BY <1>1, FS_Union
<1>5. QED
  BY <1>2, <1>3, <1>4

-----------------------------------------------------------------------------
(* The two ways a permit changes hands.                                    *)

\* A waiter leaves the deque: the free permits it saw are still free or now
\* reserved, and none is free while somebody pends.
LEMMA LeaveDequeLemma ==
    ASSUME TypeOK, NEW c \in Callers, pc[c] \in WaitingStates,
           NEW v \in Nat, NEW next \in {"working", "out"},
           LeaveDeque(c, v, next)
    PROVE  /\ pc' \in [Callers -> PcStates]
           /\ ahead' \in [Callers -> SUBSET Callers]
           /\ value' \in Nat
           /\ Waiting' = Waiting \ {c}
           /\ value' + Cardinality(Reserved') = v + Cardinality(Reserved \ {c})
           /\ value' > 0 => Pending' = {}
           /\ pc'[c] = next
           /\ \A d \in Callers \ {c} : pc'[d] = pc[d]
                                    \/ (pc[d] = "pending" /\ pc'[d] = "woken")
<1>1. PICK W \in SUBSET (Pending \ {c}) :
        /\ Woken(W, Pending \ {c}, v)
        /\ value' = v - Cardinality(W)
        /\ ahead' = [d \in Callers |-> IF d = c THEN {} ELSE ahead[d] \ {c}]
        /\ pc' = [d \in Callers |-> IF d = c THEN next
                                    ELSE IF d \in W THEN "woken" ELSE pc[d]]
  BY DEF LeaveDeque
<1>2. W \in SUBSET Callers /\ W \in SUBSET Pending /\ c \notin W
  BY <1>1 DEF Pending
<1>3. Cardinality(W) \in Nat /\ Cardinality(W) <= v
  BY <1>1, <1>2, SubsetFinite DEF Woken
<1>4. value' \in Nat
  BY <1>1, <1>3
<1>5. Reserved' = (Reserved \ {c}) \cup W
  BY <1>1, <1>2 DEF Reserved, ReservedStates, Pending, TypeOK
<1>6. (Reserved \ {c}) \cap W = {}
  BY <1>2 DEF Reserved, ReservedStates, Pending
<1>7. Cardinality(Reserved') = Cardinality(Reserved \ {c}) + Cardinality(W)
  <2>1. Reserved \ {c} \in SUBSET Callers
    BY DEF Reserved
  <2>2. QED
    BY <1>2, <1>5, <1>6, <2>1, CountUnion
<1>8. Cardinality(Reserved \ {c}) \in Nat
  BY SubsetFinite DEF Reserved
<1>9. Waiting' = Waiting \ {c}
  BY <1>1, <1>2 DEF Waiting, WaitingStates, Pending, TypeOK
<1>10. value' > 0 => Pending' = {}
  <2>1. SUFFICES ASSUME value' > 0 PROVE Pending' = {}
    OBVIOUS
  <2>2. Cardinality(W) < v
    BY <1>1, <1>3, <2>1
  <2>3. W = Pending \ {c}
    BY <1>1, <2>2 DEF Woken
  <2>4. QED
    BY <1>1, <2>3 DEF Pending, TypeOK
<1>11. /\ pc' \in [Callers -> PcStates]
       /\ ahead' \in [Callers -> SUBSET Callers]
  BY <1>1 DEF TypeOK, PcStates, WaitingStates
<1>12. /\ pc'[c] = next
       /\ \A d \in Callers \ {c} : pc'[d] = pc[d]
                                \/ (pc[d] = "pending" /\ pc'[d] = "woken")
  BY <1>1, <1>2 DEF Pending
<1>13. QED
  BY <1>1, <1>3, <1>4, <1>7, <1>8, <1>9, <1>10, <1>11, <1>12

\* A permit is returned: it is free, or reserved for the one waiter it woke.
LEMMA ReleaseLemma ==
    ASSUME IInv, NEW c \in Callers, permit[c] # "none",
           NEW next \in {"out", "orphaned"}, ReleasePermit(c, next)
    PROVE  /\ pc' \in [Callers -> PcStates]
           /\ permit' \in [Callers -> {"none", "caller", "thread", "scheduled"}]
           /\ value' \in Nat
           /\ inFlight' \in Nat
           /\ Waiting' = Waiting
           /\ PermitsConserved'
           /\ NoLostWakeup'
           /\ pc'[c] = next /\ permit'[c] = "none"
           /\ \A d \in Callers \ {c} :
                 /\ permit'[d] = permit[d]
                 /\ pc'[d] = pc[d] \/ (pc[d] = "pending" /\ pc'[d] = "woken")
<1> USE DEF IInv
<1>1. PICK W \in SUBSET Pending :
        /\ Woken(W, Pending, 1)
        /\ value' = value + 1 - Cardinality(W)
        /\ pc' = [d \in Callers |-> IF d = c THEN next
                                    ELSE IF d \in W THEN "woken" ELSE pc[d]]
  BY DEF ReleasePermit
<1>2. /\ permit' = [permit EXCEPT ![c] = "none"]
      /\ inFlight' = inFlight - 1
  BY DEF ReleasePermit
<1>3. pc[c] \notin WaitingStates
  BY DEF Shape, ShapeOf, TypeOK, WaitingStates
<1>4. W \in SUBSET Callers /\ c \notin W
  BY <1>1, <1>3 DEF Pending, WaitingStates
<1>5. Cardinality(W) \in Nat /\ Cardinality(W) <= 1
  BY <1>1, <1>4, SubsetFinite DEF Woken
<1>6. value \in Nat /\ value' \in Nat
  BY <1>1, <1>5, SizesAssumption DEF TypeOK
<1>7. c \in Holders /\ Holders' = Holders \ {c}
  BY <1>2 DEF Holders, TypeOK
<1>8. Cardinality(Holders') = Cardinality(Holders) - 1
  BY <1>7, CountRemove DEF Holders
<1>9. Reserved' = Reserved \cup W /\ Reserved \cap W = {}
  BY <1>1, <1>3, <1>4 DEF Reserved, ReservedStates, WaitingStates, Pending, TypeOK
<1>10. Cardinality(Reserved') = Cardinality(Reserved) + Cardinality(W)
  <2>1. Reserved \in SUBSET Callers
    BY DEF Reserved
  <2>2. QED
    BY <1>4, <1>9, <2>1, CountUnion
<1>11. Cardinality(Reserved) \in Nat /\ Cardinality(Holders) \in Nat
  BY SubsetFinite DEF Reserved, Holders
<1>12. PermitsConserved'
  <2>1. value' + Cardinality(Reserved') + Cardinality(Holders') = Limit
    BY <1>1, <1>5, <1>6, <1>8, <1>10, <1>11, SizesAssumption DEF PermitsConserved
  <2>2. inFlight' = Cardinality(Holders')
    BY <1>2, <1>8 DEF PermitsConserved
  <2>3. QED
    BY <2>1, <2>2 DEF PermitsConserved
<1>13. Cardinality(Holders') \in Nat
  BY SubsetFinite, <1>7 DEF Holders
<1>14. inFlight' \in Nat
  BY <1>12, <1>13 DEF PermitsConserved
<1>15. Waiting' = Waiting
  BY <1>1, <1>3, <1>4 DEF Waiting, WaitingStates, Pending, TypeOK
<1>16. NoLostWakeup'
  <2>1. CASE W = {}
    <3>1. Cardinality(W) = 0
      BY <2>1, FS_EmptySet
    <3>2. Pending = {}
      BY <1>1, <2>1, <3>1 DEF Woken
    <3>3. Pending' = {}
      BY <1>1, <2>1, <3>2 DEF Pending, TypeOK
    <3>4. QED
      BY <3>3 DEF NoLostWakeup
  <2>2. CASE W # {}
    <3>1. PICK d \in W : TRUE
      BY <2>2
    <3>2. d \in Callers /\ d # c /\ pc'[d] = "woken"
      BY <1>1, <1>4, <3>1
    <3>3. d \in Waiting'
      BY <3>2 DEF Waiting, WaitingStates
    <3>4. QED
      BY <3>2, <3>3 DEF NoLostWakeup
  <2>3. QED
    BY <2>1, <2>2
<1>17. /\ pc' \in [Callers -> PcStates]
       /\ permit' \in [Callers -> {"none", "caller", "thread", "scheduled"}]
  BY <1>1, <1>2 DEF TypeOK, PcStates, WaitingStates
<1>18. /\ pc'[c] = next /\ permit'[c] = "none"
       /\ \A d \in Callers \ {c} :
             /\ permit'[d] = permit[d]
             /\ pc'[d] = pc[d] \/ (pc[d] = "pending" /\ pc'[d] = "woken")
  BY <1>1, <1>2, <1>4 DEF Pending, TypeOK
<1>19. QED
  BY <1>6, <1>12, <1>14, <1>15, <1>16, <1>17, <1>18

-----------------------------------------------------------------------------
(* The inductive step, one lemma per group of actions.                     *)

\* Shape and the counts look at a permit and a job only through these facts:
\* a step that changes neither pc, value nor the counters of a caller that
\* keeps holding (or not holding) its permit preserves the counting part.
LEMMA CountsUnchanged ==
    ASSUME IInv, TypeOK', Shape',
           Reserved' = Reserved, Holders' = Holders, Waiting' = Waiting,
           \/ Pending' = Pending
           \/ \E c \in Waiting' : pc'[c] # "pending",
           UNCHANGED <<value, queued, inFlight>>
    PROVE  IInv'
BY DEF IInv, PermitsConserved, QueueCountExact, NoLostWakeup, queue_capacity,
       Waiting, Pending

\* Initially all permits are free and nobody is anywhere.
LEMMA InitIInv == Init => IInv
<1> SUFFICES ASSUME Init PROVE IInv
  OBVIOUS
<1>1. TypeOK
  BY SizesAssumption DEF Init, TypeOK, PcStates
<1>2. Shape
  BY DEF Init, Shape, ShapeOf
<1>3. Reserved = {} /\ Holders = {} /\ Waiting = {} /\ Pending = {}
  BY DEF Init, Reserved, ReservedStates, Holders, Waiting, WaitingStates, Pending
<1>4. PermitsConserved
  BY <1>3, FS_EmptySet, SizesAssumption DEF Init, PermitsConserved
<1>5. QueueCountExact
  BY <1>3, FS_EmptySet, SizesAssumption DEF Init, QueueCountExact, queue_capacity
<1>6. NoLostWakeup
  BY <1>3 DEF NoLostWakeup
<1>7. QED
  BY <1>1, <1>2, <1>4, <1>5, <1>6 DEF IInv

\* Steps that touch neither the semaphore nor a permit's being out.
LEMMA LocalSteps ==
    ASSUME IInv, NEW c \in Callers,
           \/ Shed(c) \/ Leave(c) \/ Cancel(c) \/ JobStarts(c) \/ JobStops(c)
           \/ HeavyOrphans(c) \/ ExportHops(c) \/ ExportResumes(c)
    PROVE  IInv'
<1> USE DEF IInv
<1>1. CASE Shed(c) \/ Leave(c)
  <2>1. TypeOK'
    BY <1>1 DEF Shed, Leave, TypeOK, PcStates
  <2>2. Shape'
    BY <1>1 DEF Shed, Leave, TypeOK, Shape, ShapeOf
  <2>3. /\ Reserved' = Reserved /\ Holders' = Holders
        /\ Waiting' = Waiting /\ Pending' = Pending
    BY <1>1 DEF Shed, Leave, TypeOK, Reserved, ReservedStates, Holders,
                Waiting, WaitingStates, Pending
  <2>4. QED
    BY <1>1, <2>1, <2>2, <2>3, CountsUnchanged DEF Shed, Leave
<1>2. CASE Cancel(c)
  <2>1. TypeOK'
    BY <1>2 DEF Cancel, TypeOK, PcStates, WaitingStates
  <2>2. Shape'
    BY <1>2 DEF Cancel, TypeOK, Shape, ShapeOf
  <2>3. /\ Reserved' = Reserved /\ Holders' = Holders /\ Waiting' = Waiting
    BY <1>2 DEF Cancel, TypeOK, Reserved, ReservedStates, Holders,
                Waiting, WaitingStates
  <2>4. Pending' = Pending \/ \E d \in Waiting' : pc'[d] # "pending"
    BY <1>2 DEF Cancel, TypeOK, Waiting, WaitingStates, Pending
  <2>5. QED
    BY <1>2, <2>1, <2>2, <2>3, <2>4, CountsUnchanged DEF Cancel
<1>3. CASE JobStarts(c) \/ ExportHops(c) \/ ExportResumes(c)
  <2>1. TypeOK'
    BY <1>3 DEF JobStarts, ExportHops, ExportResumes, TypeOK
  <2>2. Shape'
    BY <1>3, CallersAssumption
    DEF JobStarts, ExportHops, ExportResumes, TypeOK, Shape, ShapeOf
  <2>3. /\ Reserved' = Reserved /\ Holders' = Holders
        /\ Waiting' = Waiting /\ Pending' = Pending
    BY <1>3 DEF JobStarts, ExportHops, ExportResumes, Reserved, Holders,
                Waiting, Pending
  <2>4. QED
    BY <1>3, <2>1, <2>2, <2>3, CountsUnchanged
    DEF JobStarts, ExportHops, ExportResumes
<1>4. CASE JobStops(c)
  <2>1. TypeOK'
    BY <1>4 DEF JobStops, TypeOK, PcStates
  <2>2. Shape'
    BY <1>4, CallersAssumption DEF JobStops, TypeOK, Shape, ShapeOf
  <2>3. /\ Reserved' = Reserved /\ Holders' = Holders
        /\ Waiting' = Waiting /\ Pending' = Pending
    BY <1>4 DEF JobStops, TypeOK, Reserved, ReservedStates, Holders,
                Waiting, WaitingStates, Pending
  <2>4. QED
    BY <1>4, <2>1, <2>2, <2>3, CountsUnchanged DEF JobStops
<1>5. CASE HeavyOrphans(c)
  <2>1. TypeOK'
    BY <1>5 DEF HeavyOrphans, TypeOK, PcStates
  <2>2. Shape'
    BY <1>5 DEF HeavyOrphans, TypeOK, Shape, ShapeOf
  <2>3. /\ Reserved' = Reserved /\ Holders' = Holders
        /\ Waiting' = Waiting /\ Pending' = Pending
    BY <1>5 DEF HeavyOrphans, TypeOK, Shape, ShapeOf, Reserved, ReservedStates, Holders,
                Waiting, WaitingStates, Pending
  <2>4. QED
    BY <1>5, <2>1, <2>2, <2>3, CountsUnchanged DEF HeavyOrphans
<1>6. QED
  BY <1>1, <1>2, <1>3, <1>4, <1>5

\* Steps that return a permit.
LEMMA ReturningSteps ==
    ASSUME IInv, NEW c \in Callers,
           \/ HeavyReturns(c) \/ HeavyWithdraws(c) \/ OrphanReleases(c)
           \/ ExportLeaves(c)
    PROVE  IInv'
<1> USE DEF IInv
<1>1. PICK next \in {"out", "orphaned"} :
         /\ ReleasePermit(c, next)
         /\ next = "orphaned" <=> c \in Exports /\ job[c] = "running"
         /\ job' = [job EXCEPT ![c] = IF next = "orphaned" THEN @ ELSE "none"]
  <2>1. CASE HeavyReturns(c) \/ HeavyWithdraws(c)
    BY <2>1, CallersAssumption DEF HeavyReturns, HeavyWithdraws
  <2>2. CASE OrphanReleases(c)
    <3>1. job[c] = "none" /\ job' = [job EXCEPT ![c] = "none"]
      BY <2>2 DEF OrphanReleases, Shape, ShapeOf, TypeOK
    <3>2. QED
      BY <2>2, <3>1 DEF OrphanReleases
  <2>3. CASE ExportLeaves(c)
    <3>1. CASE job[c] = "running"
      BY <2>3, <3>1 DEF ExportLeaves, TypeOK
    <3>2. CASE job[c] # "running"
      BY <2>3, <3>2 DEF ExportLeaves, TypeOK
    <3>3. QED
      BY <3>1, <3>2
  <2>4. QED
    BY <2>1, <2>2, <2>3
<1>2. permit[c] # "none"
  BY DEF HeavyReturns, HeavyWithdraws, OrphanReleases, ExportLeaves, Shape, ShapeOf, TypeOK
<1>3. /\ pc' \in [Callers -> PcStates]
      /\ permit' \in [Callers -> {"none", "caller", "thread", "scheduled"}]
      /\ value' \in Nat /\ inFlight' \in Nat
      /\ Waiting' = Waiting
      /\ PermitsConserved' /\ NoLostWakeup'
      /\ pc'[c] = next /\ permit'[c] = "none"
      /\ \A d \in Callers \ {c} :
            /\ permit'[d] = permit[d]
            /\ pc'[d] = pc[d] \/ (pc[d] = "pending" /\ pc'[d] = "woken")
  BY <1>1, <1>2, ReleaseLemma
<1>4. ahead' = ahead /\ queued' = queued
  BY <1>1 DEF ReleasePermit
<1>5. value' <= Limit
  <2>1. Cardinality(Reserved') \in Nat /\ Cardinality(Holders') \in Nat
    BY <1>3, SubsetFinite DEF Reserved, Holders
  <2>2. QED
    BY <1>3, <2>1, SizesAssumption DEF PermitsConserved
<1>6. job' \in [Callers -> {"none", "queued", "running", "done"}]
  BY <1>1 DEF TypeOK
<1>7. TypeOK'
  BY <1>3, <1>4, <1>5, <1>6, SizesAssumption DEF TypeOK
<1>8. Shape'
  <2> SUFFICES ASSUME NEW d \in Callers PROVE ShapeOf(d)'
    BY DEF Shape
  <2>1. CASE d = c
    BY <1>1, <1>3, <2>1, CallersAssumption DEF TypeOK, ShapeOf
  <2>2. CASE d # c
    BY <1>1, <1>3, <2>2 DEF TypeOK, Shape, ShapeOf
  <2>3. QED
    BY <2>1, <2>2
<1>9. QueueCountExact'
  BY <1>3, <1>4 DEF QueueCountExact, queue_capacity
<1>10. QED
  BY <1>3, <1>7, <1>8, <1>9

\* A newcomer that finds a permit free.
LEMMA AdmitStep ==
    ASSUME IInv, NEW c \in Callers, Admit(c)
    PROVE  IInv'
<1> USE DEF IInv
<1>1. /\ pc[c] = "out" /\ ~Locked
      /\ value' = value - 1 /\ inFlight' = inFlight + 1
      /\ pc' = [pc EXCEPT ![c] = "working"]
      /\ permit' = [permit EXCEPT ![c] = "caller"]
      /\ job' = [job EXCEPT ![c] = IF c \in Heavy THEN "queued" ELSE "none"]
      /\ UNCHANGED <<ahead, queued>>
  BY DEF Admit, TakePermit
<1>2. value # 0 /\ Pending = {}
  BY <1>1 DEF Locked, Pending, WaitingStates
<1>3. value \in Nat /\ value' \in 0..Limit
  BY <1>1, <1>2, SizesAssumption DEF TypeOK
<1>4. TypeOK'
  BY <1>1, <1>3 DEF TypeOK, PcStates
<1>5. Shape'
  BY <1>1 DEF Shape, ShapeOf, TypeOK
<1>6. c \notin Holders /\ Holders' = Holders \cup {c}
  BY <1>1 DEF Holders, TypeOK, Shape, ShapeOf
<1>7. Reserved' = Reserved /\ Waiting' = Waiting /\ Pending' = Pending
  BY <1>1 DEF Reserved, ReservedStates, Waiting, WaitingStates, Pending, TypeOK
<1>8. Cardinality(Holders') = Cardinality(Holders) + 1
  BY <1>6, CountAdd DEF Holders
<1>9. Cardinality(Holders) \in Nat /\ Cardinality(Reserved) \in Nat
  BY SubsetFinite DEF Holders, Reserved
<1>10. PermitsConserved'
  BY <1>1, <1>3, <1>7, <1>8, <1>9, SizesAssumption DEF PermitsConserved
<1>11. QueueCountExact' /\ NoLostWakeup'
  BY <1>1, <1>2, <1>7 DEF QueueCountExact, queue_capacity, NoLostWakeup
<1>12. QED
  BY <1>4, <1>5, <1>10, <1>11

\* A newcomer that has to wait.
LEMMA EnqueueStep ==
    ASSUME IInv, NEW c \in Callers, Enqueue(c)
    PROVE  IInv'
<1> USE DEF IInv
<1>1. /\ pc[c] = "out" /\ Locked /\ queued < queue_capacity
      /\ queued' = queued + 1
      /\ pc' = [pc EXCEPT ![c] = "pending"]
      /\ ahead' = [ahead EXCEPT ![c] = Waiting]
      /\ UNCHANGED <<value, permit, job, inFlight>>
  BY DEF Enqueue
<1>2. TypeOK'
  BY <1>1 DEF TypeOK, PcStates, WaitingStates, Waiting
<1>3. Shape'
  BY <1>1 DEF Shape, ShapeOf, TypeOK
<1>4. Reserved' = Reserved /\ Holders' = Holders
  BY <1>1 DEF Reserved, ReservedStates, Holders, TypeOK
<1>5. c \notin Waiting /\ Waiting' = Waiting \cup {c}
  BY <1>1 DEF Waiting, WaitingStates, TypeOK
<1>6. Cardinality(Waiting') = Cardinality(Waiting) + 1
  BY <1>5, CountAdd DEF Waiting
<1>7. PermitsConserved'
  BY <1>1, <1>4 DEF PermitsConserved
<1>8. QueueCountExact'
  <2>1. queue_capacity \in Nat /\ queued \in Nat
    BY SizesAssumption DEF queue_capacity, TypeOK
  <2>2. queued' <= queue_capacity'
    BY <1>1, <2>1 DEF queue_capacity
  <2>3. QED
    BY <1>1, <1>6, <2>2 DEF QueueCountExact
<1>9. NoLostWakeup'
  <2>1. SUFFICES ASSUME value > 0 PROVE \E d \in Waiting' : pc'[d] # "pending"
    BY <1>1 DEF NoLostWakeup
  <2>2. PICK d \in Callers : pc[d] \in WaitingStates \ {"dropped"}
    BY <1>1, <2>1 DEF Locked, TypeOK
  <2>3. CASE pc[d] = "pending"
    <3>1. PICK e \in Waiting : pc[e] # "pending"
      BY <2>1, <2>2, <2>3 DEF NoLostWakeup, Pending
    <3>2. e # c /\ pc'[e] = pc[e]
      BY <1>1, <1>5, <3>1 DEF Waiting, TypeOK
    <3>3. QED
      BY <1>5, <3>1, <3>2
  <2>4. CASE pc[d] # "pending"
    <3>1. d \in Waiting /\ d # c /\ pc'[d] = pc[d]
      BY <1>1, <2>2 DEF Waiting, WaitingStates, TypeOK
    <3>2. QED
      BY <1>5, <2>4, <3>1
  <2>5. QED
    BY <2>3, <2>4
<1>10. QED
  BY <1>2, <1>3, <1>7, <1>8, <1>9

\* A waiter that resumes, with its permit or with CancelledError.
LEMMA LeavingSteps ==
    ASSUME IInv, NEW c \in Callers, Resume(c) \/ Abandon(c)
    PROVE  IInv'
<1> USE DEF IInv
<1> DEFINE v == IF pc[c] = "wokenCancelled" THEN value + 1 ELSE value
           next == IF pc[c] = "woken" THEN "working" ELSE "out"
<1>1. /\ pc[c] \in WaitingStates \ {"pending"}
      /\ LeaveDeque(c, v, next)
      /\ queued' = queued - 1
      /\ pc[c] = "woken" => TakePermit(c)
      /\ pc[c] # "woken" => UNCHANGED <<permit, job, inFlight>>
  BY DEF Resume, Abandon, WaitingStates
<1>2. v \in Nat /\ next \in {"working", "out"} /\ pc[c] \in WaitingStates
  BY <1>1 DEF TypeOK
<1> HIDE DEF v, next
<1>3. /\ pc' \in [Callers -> PcStates]
      /\ ahead' \in [Callers -> SUBSET Callers]
      /\ value' \in Nat
      /\ Waiting' = Waiting \ {c}
      /\ value' + Cardinality(Reserved') = v + Cardinality(Reserved \ {c})
      /\ value' > 0 => Pending' = {}
      /\ pc'[c] = next
      /\ \A d \in Callers \ {c} : pc'[d] = pc[d]
                               \/ (pc[d] = "pending" /\ pc'[d] = "woken")
  BY <1>1, <1>2, LeaveDequeLemma
<1>4. Cardinality(Waiting') = Cardinality(Waiting) - 1
  BY <1>1, <1>3, CountRemove DEF Waiting
<1>5. /\ Cardinality(Reserved) \in Nat /\ Cardinality(Reserved') \in Nat
      /\ Cardinality(Holders) \in Nat /\ Cardinality(Holders') \in Nat
      /\ Cardinality(Waiting) \in Nat /\ Cardinality(Waiting') \in Nat
  BY <1>3, SubsetFinite DEF Reserved, Holders, Waiting
<1>6. QueueCountExact'
  <2>1. queue_capacity' = queue_capacity /\ queue_capacity \in Nat
    BY SizesAssumption DEF queue_capacity
  <2>2. QED
    BY <1>1, <1>4, <1>5, <2>1 DEF QueueCountExact
<1>7. queued' \in Nat
  BY <1>5, <1>6 DEF QueueCountExact
<1>8. NoLostWakeup'
  BY <1>3 DEF NoLostWakeup
<1>9. CASE pc[c] = "woken"
  <2>1. /\ permit' = [permit EXCEPT ![c] = "caller"]
        /\ inFlight' = inFlight + 1
        /\ job' = [job EXCEPT ![c] = IF c \in Heavy THEN "queued" ELSE "none"]
        /\ v = value /\ next = "working"
    BY <1>1, <1>9 DEF TakePermit, v, next
  <2>2. c \notin Holders /\ Holders' = Holders \cup {c}
    BY <1>9, <2>1 DEF Holders, TypeOK, Shape, ShapeOf
  <2>3. Cardinality(Holders') = Cardinality(Holders) + 1
    BY <2>2, CountAdd DEF Holders
  <2>4. Cardinality(Reserved \ {c}) = Cardinality(Reserved) - 1
    BY <1>9, CountRemove DEF Reserved, ReservedStates
  <2>5. PermitsConserved'
    BY <1>3, <1>5, <2>1, <2>3, <2>4, SizesAssumption
    DEF PermitsConserved, TypeOK
  <2>6. TypeOK'
    BY <1>3, <1>5, <1>7, <2>1, <2>5, SizesAssumption
    DEF TypeOK, PermitsConserved
  <2>7. Shape'
    <3> SUFFICES ASSUME NEW d \in Callers PROVE ShapeOf(d)'
      BY DEF Shape
    <3>1. CASE d = c
      BY <1>3, <2>1, <3>1 DEF TypeOK, ShapeOf
    <3>2. CASE d # c
      BY <1>3, <2>1, <3>2 DEF TypeOK, Shape, ShapeOf
    <3>3. QED
      BY <3>1, <3>2
  <2>8. QED
    BY <1>6, <1>8, <2>5, <2>6, <2>7
<1>10. CASE pc[c] # "woken"
  <2>1. UNCHANGED <<permit, job, inFlight>> /\ next = "out"
    BY <1>1, <1>10 DEF next
  <2>2. Holders' = Holders
    BY <2>1 DEF Holders
  <2>3. v + Cardinality(Reserved \ {c}) = value + Cardinality(Reserved)
    <3>1. CASE pc[c] = "wokenCancelled"
      <4>1. Cardinality(Reserved \ {c}) = Cardinality(Reserved) - 1
        BY <3>1, CountRemove DEF Reserved, ReservedStates
      <4>2. v = value + 1
        BY <3>1 DEF v
      <4>3. QED
        BY <1>5, <4>1, <4>2 DEF TypeOK
    <3>2. CASE pc[c] # "wokenCancelled"
      <4>1. Reserved \ {c} = Reserved
        BY <1>10, <3>2 DEF Reserved, ReservedStates
      <4>2. QED
        BY <3>2, <4>1 DEF v
    <3>3. QED
      BY <3>1, <3>2
  <2>4. PermitsConserved'
    BY <1>3, <1>5, <2>1, <2>2, <2>3, SizesAssumption
    DEF PermitsConserved, TypeOK
  <2>5. TypeOK'
    BY <1>3, <1>5, <1>7, <2>1, <2>4, SizesAssumption
    DEF TypeOK, PermitsConserved
  <2>6. Shape'
    <3> SUFFICES ASSUME NEW d \in Callers PROVE ShapeOf(d)'
      BY DEF Shape
    <3>1. CASE d = c
      BY <1>1, <1>3, <2>1, <3>1 DEF TypeOK, Shape, ShapeOf, WaitingStates
    <3>2. CASE d # c
      BY <1>3, <2>1, <3>2 DEF TypeOK, Shape, ShapeOf
    <3>3. QED
      BY <3>1, <3>2
  <2>7. QED
    BY <1>6, <1>8, <2>4, <2>5, <2>6
<1>11. QED
  BY <1>9, <1>10

-----------------------------------------------------------------------------
(* Theorems.                                                               *)

\* The inductive invariant holds in every state.
LEMMA Invariance == Spec => []IInv
<1>1. IInv /\ [Next]_vars => IInv'
  <2> SUFFICES ASSUME IInv, [Next]_vars PROVE IInv'
    OBVIOUS
  <2>1. CASE Next
    <3>1. PICK c \in Callers : Step(c)
      BY <2>1 DEF Next
    <3>2. CASE \/ Shed(c) \/ Leave(c) \/ Cancel(c) \/ JobStarts(c)
               \/ JobStops(c) \/ HeavyOrphans(c) \/ ExportHops(c)
               \/ ExportResumes(c)
      BY <3>2, LocalSteps
    <3>3. CASE HeavyReturns(c) \/ HeavyWithdraws(c) \/ OrphanReleases(c)
               \/ ExportLeaves(c)
      BY <3>3, ReturningSteps
    <3>4. CASE Admit(c)
      BY <3>4, AdmitStep
    <3>5. CASE Enqueue(c)
      BY <3>5, EnqueueStep
    <3>6. CASE Resume(c) \/ Abandon(c)
      BY <3>6, LeavingSteps
    <3>7. QED
      BY <3>1, <3>2, <3>3, <3>4, <3>5, <3>6 DEF Step
  <2>2. CASE UNCHANGED vars
    BY <2>2 DEF vars, IInv, TypeOK, Shape, ShapeOf, PermitsConserved,
                QueueCountExact, NoLostWakeup, Reserved, Holders, Waiting,
                Pending, queue_capacity
  <2>3. QED
    BY <2>1, <2>2
<1>2. QED
  BY InitIInv, <1>1, PTL DEF Spec

\* The variables keep their types; in particular the semaphore's counter
\* stays between zero and the number of permits, whatever is cancelled when.
THEOREM TypeCorrect == Spec => []TypeOK
<1>1. IInv => TypeOK
  BY DEF IInv
<1>2. QED
  BY <1>1, Invariance, PTL

\* No permit is ever leaked or returned twice, by any interleaving of
\* arrivals, wake-ups, cancellations and threads that outlive their callers.
THEOREM NoPermitLeaks == Spec => []PermitsConserved
<1>1. IInv => PermitsConserved
  BY DEF IInv
<1>2. QED
  BY <1>1, Invariance, PTL

\* The counter that decides shedding counts the callers that wait.
THEOREM SheddingIsExact == Spec => []QueueCountExact
<1>1. IInv => QueueCountExact
  BY DEF IInv
<1>2. QED
  BY <1>1, Invariance, PTL

\* A free permit is always about to reach a pending waiter.
THEOREM WakeupsAreNotLost == Spec => []NoLostWakeup
<1>1. IInv => NoLostWakeup
  BY DEF IInv
<1>2. QED
  BY <1>1, Invariance, PTL

\* A heavy job in the pool always has a permit out for it, also after its
\* caller was cancelled.
LEMMA HeavyJobsHoldPermits == IInv => HeavyMemoryAccounted
BY DEF IInv, Shape, ShapeOf, HeavyMemoryAccounted, Callers, TypeOK

\* The memory of a cancelled reduction stays accounted for.
THEOREM OrphansStayAccounted == Spec => []HeavyMemoryAccounted
BY HeavyJobsHoldPermits, Invariance, PTL

\* Jobs in the heavy pool never outnumber its workers, so no admitted call
\* waits where nothing counts it: permits bound jobs, and permits are Limit.
THEOREM SubmitNeverWaits == Spec => []NobodyWaitsInSubmit
<1>1. IInv => NobodyWaitsInSubmit
  <2> SUFFICES ASSUME IInv PROVE NobodyWaitsInSubmit
    OBVIOUS
  <2> DEFINE Jobs == {c \in Heavy : job[c] \in {"queued", "running"}}
  <2>1. Jobs \in SUBSET Holders
    BY HeavyJobsHoldPermits DEF HeavyMemoryAccounted, Holders, Callers
  <2>2. Holders \in SUBSET Callers
    BY DEF Holders
  <2>3. IsFiniteSet(Holders) /\ Cardinality(Holders) \in Nat
    BY <2>2, SubsetFinite
  <2>4. Cardinality(Jobs) <= Cardinality(Holders)
    BY <2>1, <2>3, FS_Subset
  <2>5. Cardinality(Reserved) \in Nat /\ Cardinality(Jobs) \in Nat
    <3>1. Reserved \in SUBSET Callers /\ Jobs \in SUBSET Callers
      BY <2>1, <2>2 DEF Reserved
    <3>2. QED
      BY <3>1, SubsetFinite
  <2>6. Cardinality(Holders) <= Limit
    BY <2>3, <2>5, SizesAssumption DEF IInv, TypeOK, PermitsConserved
  <2>7. Cardinality(Jobs) <= Limit
    BY <2>3, <2>4, <2>5, <2>6, SizesAssumption
  <2>8. QED
    BY <2>7 DEF NobodyWaitsInSubmit
<1>2. QED
  BY <1>1, Invariance, PTL

\* A newcomer is admitted at once only when nobody else waits uncancelled.
THEOREM FirstComeFirstServed == Spec => NoOvertaking
<1> DEFINE A == \A c \in Callers :
                   pc[c] = "out" /\ pc'[c] = "working"
                      => \A d \in Waiting : pc[d] = "dropped"
<1>1. IInv /\ [Next]_vars => [A]_vars
  <2> SUFFICES ASSUME IInv, Next,
                      NEW c \in Callers, pc[c] = "out", pc'[c] = "working"
               PROVE  \A d \in Waiting : pc[d] = "dropped"
    OBVIOUS
  <2>1. PICK e \in Callers : Step(e)
    BY DEF Next
  <2>2. CASE Admit(e)
    BY <2>2 DEF Admit, Locked, Waiting
  <2>3. CASE \/ HeavyReturns(e) \/ HeavyWithdraws(e) \/ OrphanReleases(e)
             \/ ExportLeaves(e)
    <3>1. PICK next \in {"out", "orphaned"} : ReleasePermit(e, next)
      BY <2>3 DEF HeavyReturns, HeavyWithdraws, OrphanReleases, ExportLeaves
    <3>2. pc'[c] \in {next, "woken", pc[c]}
      BY <3>1 DEF ReleasePermit
    <3>3. QED
      BY <3>2
  <2>4. CASE Resume(e) \/ Abandon(e)
    <3>1. PICK v, next : LeaveDeque(e, v, next)
      BY <2>4 DEF Resume, Abandon
    <3>2. (e # c /\ pc'[c] \in {"woken", pc[c]}) \/ e = c
      BY <3>1 DEF LeaveDeque
    <3>3. e # c
      BY <2>4 DEF Resume, Abandon
    <3>4. QED
      BY <3>2, <3>3
  <2>5. CASE \/ Shed(e) \/ Leave(e) \/ Cancel(e) \/ JobStarts(e) \/ Enqueue(e)
             \/ JobStops(e) \/ HeavyOrphans(e) \/ ExportHops(e)
             \/ ExportResumes(e)
    <3>1. pc \in [Callers -> PcStates]
      BY DEF IInv, TypeOK
    <3>2. pc'[c] # "working"
      BY <2>5, <3>1 DEF Shed, Leave, Cancel, JobStarts, Enqueue, JobStops,
                        HeavyOrphans, ExportHops, ExportResumes
    <3>3. QED
      BY <3>2
  <2>6. QED
    BY <2>1, <2>2, <2>3, <2>4, <2>5 DEF Step
<1>2. QED
  BY <1>1, Invariance, PTL DEF Spec, NoOvertaking
\* All safety of the limiter at once, for every number of callers, permits and
\* export workers.
THEOREM LimiterStaysSound == Spec => []LimiterIsSound
<1>1. TypeOK /\ PermitsConserved /\ QueueCountExact /\ HeavyMemoryAccounted /\ NobodyWaitsInSubmit
        => LimiterIsSound
  BY DEF LimiterIsSound
<1> QED
  BY <1>1, TypeCorrect, NoPermitLeaks, SheddingIsExact, OrphansStayAccounted, SubmitNeverWaits, PTL

-----------------------------------------------------------------------------
(* The key set. *)

\* What a request was told when it began is still so: a cached key set is never
\* lost again, and a key set it fetched is no older than the moment it began.
RequestsRemember ==
    \A r \in Requests :
        /\ req[r].cached => entry.set # 0
        /\ req[r].since <= rotation
        /\ At(r, "store") => req[r].got \in 1..rotation /\ req[r].since <= req[r].got

JwksInv == JwksTypeOK /\ OutageSparesUsers /\ RefusalIsExcused /\ RequestsRemember

Answer == {"none", "accepted", "refused", "unavailable"}
Place == {"idle", "claim", "fetch", "store", "stale", "done"}
Reason == {"none", "throttled", "stale", "fetched"}
Request ==
    [pc : Place, kid : -1..MaxVersion, forced : BOOLEAN, got : 0..MaxVersion,
     since : 0..MaxVersion, cached : BOOLEAN, answer : Answer, why : Reason]

\* What the invariant asks of one request, given the rotation and whether a key
\* set is cached.
Sound(q, now, set) ==
    /\ q \in Request
    /\ q.answer = "unavailable" => ~q.cached
    /\ q.answer = "refused" /\ q.why = "fetched" => q.kid \notin HeldBy(q.since) \cap HeldBy(now)
    /\ q.cached => set # 0
    /\ q.since <= now
    /\ q.pc = "store" => q.got \in 1..now /\ q.since <= q.got

\* The part of the invariant that is not about requests.
CacheShape ==
    /\ rotation \in 1..MaxVersion /\ up \in BOOLEAN /\ outages \in 0..MaxOutages
    /\ entry \in [set : 0..MaxVersion, left : 0..(IF Ttl > Retry THEN Ttl ELSE Retry)]
    /\ cold \in 0..Retry /\ window \in 0..Cooldown

LEMMA InvIsPerRequest ==
    JwksInv <=> /\ CacheShape
                /\ req \in [Requests -> Request]
                /\ \A r \in Requests : Sound(req[r], rotation, entry.set)
BY DEF JwksInv, JwksTypeOK, OutageSparesUsers, RefusalIsExcused, RequestsRemember, CacheShape, Sound,
       Request, Answer, Place, Reason, At

LEMMA InvIsPerRequestNext ==
    JwksInv' <=> /\ CacheShape'
                 /\ req' \in [Requests -> Request]
                 /\ \A r \in Requests : Sound(req'[r], rotation', entry'.set)
BY DEF JwksInv, JwksTypeOK, OutageSparesUsers, RefusalIsExcused, RequestsRemember, CacheShape, Sound,
       Request, Answer, Place, Reason, At

\* A sound request that is judged by a key set at least as new as its beginning
\* stays sound, whatever the reason given, unless it lies about a fetch.
LEMMA JudgementIsSound ==
    ASSUME NEW q, NEW now \in 1..MaxVersion, NEW set \in 0..MaxVersion, NEW by \in 0..MaxVersion,
           NEW why \in Reason, Sound(q, now, set),
           why = "fetched" => q.since <= by /\ by <= now
    PROVE  Sound(Judged(q, by, why), now, set)
<1> USE JwksAssumption DEF Sound, Request, Place, Answer, Reason
<1>1. CASE q.kid \in HeldBy(by) \/ q.kid = Warming
  BY <1>1 DEF Judged
<1>2. CASE ~(q.kid \in HeldBy(by) \/ q.kid = Warming) /\ q.forced
  <2>1. why = "fetched" => q.kid \notin HeldBy(q.since) \cap HeldBy(now)
    BY <1>2 DEF HeldBy
  <2>2. Judged(q, by, why) = [q EXCEPT !.pc = "done", !.answer = "refused", !.why = why]
    BY <1>2 DEF Judged
  <2> QED
    BY <2>1, <2>2
<1>3. CASE ~(q.kid \in HeldBy(by) \/ q.kid = Warming) /\ ~q.forced
  BY <1>3 DEF Judged
<1> QED
  BY <1>1, <1>2, <1>3

LEMMA JwksStarts == JwksInit => JwksInv
BY JwksAssumption
   DEF JwksInit, JwksInv, JwksTypeOK, OutageSparesUsers, RefusalIsExcused, RequestsRemember, Idle, Forged, At

\* A step of one request leaves the others sound when the cache stays filled.
LEMMA OneRequestMoves ==
    ASSUME JwksInv, NEW r \in Requests, NEW q, req' = [req EXCEPT ![r] = q],
           CacheShape', rotation' = rotation, entry.set # 0 => entry'.set # 0,
           Sound(q, rotation, entry'.set)
    PROVE  JwksInv'
<1>1. /\ req \in [Requests -> Request]
      /\ \A s \in Requests : Sound(req[s], rotation, entry.set)
  BY InvIsPerRequest
<1>2. q \in Request
  BY DEF Sound
<1>3. \A s \in Requests : Sound(req'[s], rotation', entry'.set)
  BY <1>1 DEF Sound
<1> QED
  BY <1>1, <1>2, <1>3, InvIsPerRequestNext

LEMMA JwksStepsKeep == JwksInv /\ [JwksNext]_JwksVars => JwksInv'
<1> SUFFICES ASSUME JwksInv, [JwksNext]_JwksVars PROVE JwksInv'
  OBVIOUS
<1>a. /\ CacheShape /\ req \in [Requests -> Request]
      /\ \A r \in Requests : Sound(req[r], rotation, entry.set)
  BY InvIsPerRequest
<1> USE JwksAssumption
<1>1. ASSUME NEW r \in Requests, NEW kid \in -1..rotation, Begins(r, kid) PROVE JwksInv'
  <2> DEFINE q == [Idle EXCEPT !.kid = kid, !.forced = kid = Warming,
                               !.since = rotation, !.cached = entry.set # 0]
             away == [q EXCEPT !.pc = "done", !.answer = "unavailable"]
             fetching == [q EXCEPT !.pc = "fetch"]
  <2>a. Idle \in Request /\ Idle.pc = "idle" /\ Idle.answer = "none"
    BY DEF Idle, Forged, Request, Place, Answer, Reason
  <2>b. kid \in -1..MaxVersion /\ rotation \in 0..MaxVersion
    BY <1>a DEF CacheShape
  <2>c. ASSUME NEW warming \in BOOLEAN, NEW filled \in BOOLEAN, NEW p,
               p = [Idle EXCEPT !.kid = kid, !.forced = warming, !.since = rotation, !.cached = filled]
        PROVE  /\ p \in Request
               /\ p.since = rotation /\ p.pc = "idle" /\ p.answer = "none" /\ p.cached = filled
    BY <2>a, <2>b, <2>c DEF Request
  <2>0. /\ q \in Request
        /\ q.since = rotation /\ q.pc = "idle" /\ q.answer = "none" /\ q.cached = (entry.set # 0)
    BY <2>c, Zenon
  <2>e. q.cached => entry.set # 0
    BY <2>0
  <2> HIDE DEF q
  <2>1. Sound(q, rotation, entry.set)
    <3>1. q.since <= rotation
      BY <2>0, <1>a DEF CacheShape
    <3> QED
      BY <2>0, <2>e, <3>1 DEF Sound
  <2>2. Sound(Judged(q, entry.set, "none"), rotation, entry.set)
    BY <2>1, <1>a, JudgementIsSound DEF CacheShape, Reason
  <2>3. entry.set = 0 => Sound(away, rotation, entry.set)
    BY <2>0, <2>1 DEF Sound, Request, Place, Answer
  <2>4. Sound(fetching, rotation, entry.set)
    BY <2>0, <2>1 DEF Sound, Request, Place
  <2>5. PICK next : req' = [req EXCEPT ![r] = next] /\ Sound(next, rotation, entry.set)
    BY <1>1, <2>2, <2>3, <2>4 DEF Begins, q
  <2>6. CacheShape' /\ rotation' = rotation /\ entry' = entry
    BY <1>1, <1>a DEF Begins, provider, CacheShape
  <2> QED
    BY <2>5, <2>6, OneRequestMoves
<1>2. ASSUME NEW r \in Requests, Fetches(r) PROVE JwksInv'
  <2> DEFINE fetched == [req[r] EXCEPT !.pc = "store", !.got = rotation]
             failed == [req[r] EXCEPT !.pc = "stale"]
  <2>1. Sound(fetched, rotation, entry.set)
    <3>1. /\ req[r] \in Request /\ Sound(req[r], rotation, entry.set)
          /\ rotation \in 0..MaxVersion /\ rotation \in 1..rotation
      BY <1>a DEF CacheShape, Sound
    <3>2. fetched \in Request
      BY <3>1 DEF Request, Place
    <3>3. /\ fetched.kid = req[r].kid /\ fetched.since = req[r].since /\ fetched.cached = req[r].cached
          /\ fetched.answer = req[r].answer /\ fetched.why = req[r].why /\ fetched.got = rotation
      BY <3>1 DEF Request
    <3> HIDE DEF fetched
    <3> QED
      BY <3>1, <3>2, <3>3 DEF Sound
  <2>2. Sound(failed, rotation, entry.set)
    BY <1>a DEF Sound, CacheShape, Request, Place
  <2>3. req' = [req EXCEPT ![r] = fetched] \/ req' = [req EXCEPT ![r] = failed]
    BY <1>2, <1>a DEF Fetches
  <2>4. CacheShape' /\ rotation' = rotation /\ entry' = entry
    BY <1>2, <1>a DEF Fetches, provider, CacheShape
  <2> QED
    BY <2>1, <2>2, <2>3, <2>4, OneRequestMoves
<1>3. ASSUME NEW r \in Requests, Stores(r) PROVE JwksInv'
  <2> DEFINE q == Judged(req[r], req[r].got, "fetched")
  <2>1. req[r].got \in 1..rotation /\ req[r].since <= req[r].got
    BY <1>3, <1>a DEF Stores, At, Sound
  <2>2. entry' = [set |-> req[r].got, left |-> Ttl]
    BY <1>3 DEF Stores
  <2>3. Sound(req[r], rotation, entry'.set)
    BY <1>a, <2>1, <2>2 DEF Sound, CacheShape
  <2>4. Sound(q, rotation, entry'.set)
    BY <1>a, <2>1, <2>2, <2>3, JudgementIsSound DEF CacheShape, Reason
  <2>5. CacheShape'
    BY <1>3, <1>a, <2>1, <2>2 DEF Stores, CacheShape, provider
  <2>6. req' = [req EXCEPT ![r] = q] /\ rotation' = rotation
    BY <1>3 DEF Stores, Judges, provider
  <2>7. entry'.set # 0
    BY <2>1, <2>2, <1>a DEF CacheShape
  <2> HIDE DEF q
  <2> QED
    BY <2>4, <2>5, <2>6, <2>7, OneRequestMoves
<1>4. ASSUME NEW r \in Requests, ServesStale(r) PROVE JwksInv'
  <2>1. CASE entry.set = 0
    <3> DEFINE q == [req[r] EXCEPT !.pc = "done", !.answer = "unavailable", !.why = "none"]
    <3>1. Sound(q, rotation, entry.set)
      BY <1>a, <2>1 DEF Sound, Request, Place, Answer, Reason
    <3>2. req' = [req EXCEPT ![r] = q]
      BY <1>4, <1>a, <2>1 DEF ServesStale, Answers
    <3>3. CacheShape' /\ rotation' = rotation /\ entry' = entry
      BY <1>4, <1>a, <2>1 DEF ServesStale, provider, CacheShape
    <3> HIDE DEF q
    <3> QED
      BY <3>1, <3>2, <3>3, OneRequestMoves
  <2>2. CASE entry.set # 0
    <3> DEFINE q == Judged(req[r], entry.set, "stale")
    <3>1. Sound(q, rotation, entry.set)
      BY <1>a, JudgementIsSound DEF CacheShape, Reason
    <3>2. CacheShape' /\ entry'.set = entry.set
      BY <1>4, <1>a, <2>2 DEF ServesStale, CacheShape, provider
    <3> QED
      BY <1>4, <2>2, <3>1, <3>2, OneRequestMoves DEF ServesStale, Judges, provider
  <2> QED
    BY <2>1, <2>2
<1>5. ASSUME NEW r \in Requests, Claims(r) PROVE JwksInv'
  <2> DEFINE told == [req[r] EXCEPT !.pc = "done", !.answer = "refused", !.why = "throttled"]
             claimed == [req[r] EXCEPT !.pc = "fetch", !.forced = TRUE]
  <2>1. Sound(told, rotation, entry.set) /\ Sound(claimed, rotation, entry.set)
    BY <1>a DEF Sound, Request, Place, Answer, Reason
  <2>2. req' = [req EXCEPT ![r] = told] \/ req' = [req EXCEPT ![r] = claimed]
    BY <1>5, <1>a DEF Claims, Answers
  <2>3. CacheShape'
    BY <1>5, <1>a DEF Claims, provider, CacheShape
  <2> QED
    BY <1>5, <2>1, <2>2, <2>3, OneRequestMoves DEF Claims, provider
<1>6. ASSUME NEW r \in Requests, Withdraws(r) PROVE JwksInv'
  <2>1. Sound(Idle, rotation, entry.set)
    BY <1>a DEF Sound, CacheShape, Idle, Forged, Request, Place, Answer, Reason
  <2> QED
    BY <1>6, <1>a, <2>1, OneRequestMoves DEF Withdraws, provider, CacheShape
<1>7. CASE Tick
  <2>1. CacheShape' /\ entry'.set = entry.set
    BY <1>7, <1>a DEF Tick, Less, provider, CacheShape
  <2> QED
    BY <1>7, <1>a, <2>1, InvIsPerRequestNext DEF Tick, provider
<1>8. CASE Rotates
  <2>1. CacheShape'
    BY <1>8, <1>a DEF Rotates, CacheShape
  <2>2. \A r \in Requests : Sound(req[r], rotation + 1, entry.set)
    <3> SUFFICES ASSUME NEW r \in Requests PROVE Sound(req[r], rotation + 1, entry.set)
      OBVIOUS
    <3>1. Sound(req[r], rotation, entry.set)
      BY <1>a
    <3>2. req[r].kid \notin HeldBy(req[r].since) \cap HeldBy(rotation)
            => req[r].kid \notin HeldBy(req[r].since) \cap HeldBy(rotation + 1)
      BY <3>1, <1>a DEF HeldBy, Sound, CacheShape, Request
    <3> QED
      BY <3>1, <3>2, <1>a DEF Sound, CacheShape, Request
  <2> QED
    BY <1>8, <1>a, <2>1, <2>2, InvIsPerRequestNext DEF Rotates
<1>9. CASE GoesDown
  <2>1. up' \in BOOLEAN
    BY <1>9 DEF GoesDown
  <2>2. CacheShape'
    BY <1>9, <1>a, <2>1 DEF GoesDown, CacheShape
  <2> QED
    BY <1>9, <1>a, <2>2, InvIsPerRequestNext DEF GoesDown
<1>11. CASE ComesUp
  <2>1. up' \in BOOLEAN
    BY <1>11 DEF ComesUp
  <2>2. CacheShape'
    BY <1>11, <1>a, <2>1 DEF ComesUp, CacheShape
  <2> QED
    BY <1>11, <1>a, <2>2, InvIsPerRequestNext DEF ComesUp
<1>10. CASE UNCHANGED JwksVars
  BY <1>10, <1>a, InvIsPerRequestNext DEF JwksVars, CacheShape
<1> QED
  BY <1>1, <1>2, <1>3, <1>4, <1>5, <1>6, <1>7, <1>8, <1>9, <1>10, <1>11 DEF JwksNext, Steps

LEMMA JwksInvariance == JwksSpec => []JwksInv
BY JwksStarts, JwksStepsKeep, PTL DEF JwksSpec

\* Users with a good token are let in through outages and rotations, for any
\* number of requests at once and any deadlines.
THEOREM UsersStayServed == JwksSpec => []UsersAreServed
<1>1. JwksInv => UsersAreServed
  BY DEF JwksInv, UsersAreServed
<1> QED
  BY <1>1, JwksInvariance, PTL

-----------------------------------------------------------------------------
(* The connection. *)

\* Only a loop that beats, or has just stopped beating, leaves the state ready,
\* and it holds a session from the handshake to the last heartbeat.
ReadyOnlyBeating ==
    /\ state = "ready" => loop \in {"beating", "failed", "stopped"}
    /\ loop \in {"open", "bound", "beating"} => session # 0

\* A loop that beats has probes left before it gives up.
ProbesLeft == loop = "beating" => misses = probed /\ misses < Threshold

ConnectionInv == ConnectionTypeOK /\ ReadyMeansBound /\ ReadyOnlyBeating /\ ProbesLeft

LEMMA ConnectionStarts == ConnectionInit => ConnectionInv
BY ConnectionAssumption
   DEF ConnectionInit, ConnectionInv, ConnectionTypeOK, ReadyMeansBound, ReadyOnlyBeating, ProbesLeft

LEMMA ConnectionStepsKeep == ConnectionInv /\ [ConnectionNext]_ConnectionVars => ConnectionInv'
<1> SUFFICES ASSUME ConnectionInv, [ConnectionNext]_ConnectionVars PROVE ConnectionInv'
  OBVIOUS
<1> USE ConnectionAssumption
        DEF ConnectionInv, ConnectionTypeOK, ReadyMeansBound, ReadyOnlyBeating, ProbesLeft, outside, published
<1>1. CASE Opens
  <2>1. sessions' \in 1..MaxSessions
    BY <1>1 DEF Opens
  <2> QED
    BY <1>1, <2>1 DEF Opens
<1>2. CASE OpenFails
  BY <1>2 DEF OpenFails, Falls, Doubled
<1>3. CASE Checks
  BY <1>3 DEF Checks, Doubled
<1>4. CASE Publishes
  BY <1>4 DEF Publishes, Live
<1>5. CASE Recovers
  BY <1>5 DEF Recovers, Falls, Doubled
<1>6. CASE ProbeAnswers
  BY <1>6 DEF ProbeAnswers
<1>7. CASE ProbeMisses
  BY <1>7 DEF ProbeMisses
<1>8. CASE Leaves
  BY <1>8 DEF Leaves
<1>9. CASE WaitEnds
  BY <1>9 DEF WaitEnds
<1>10. CASE Breaks
  BY <1>10 DEF Breaks, Live
<1>11. CASE Stops
  BY <1>11 DEF Stops
<1>12. CASE ServerTurns
  BY <1>12 DEF ServerTurns
<1>13. CASE UNCHANGED ConnectionVars
  BY <1>13 DEF ConnectionVars
<1> QED
  BY <1>1, <1>2, <1>3, <1>4, <1>5, <1>6, <1>7, <1>8, <1>9, <1>10, <1>11, <1>12, <1>13
     DEF ConnectionNext, LoopSteps

LEMMA ConnectionInvariance == ConnectionSpec => []ConnectionInv
BY ConnectionStarts, ConnectionStepsKeep, PTL DEF ConnectionSpec

\* A state read as ready comes with tools, shared and the manager's own, bound
\* to the session that is held.
THEOREM ReadyStaysHonest == ConnectionSpec => []ReadyIsHonest
<1>1. ConnectionInv => ReadyIsHonest
  BY DEF ConnectionInv, ReadyIsHonest
<1> QED
  BY <1>1, ConnectionInvariance, PTL

\* The toolset is taken away only after Threshold probes failed in a row.
THEOREM MissesAreForgiven == ConnectionSpec => OneMissIsForgiven
<1> DEFINE Taken == state = "ready" /\ state' = "unavailable" /\ loop # "failed"
<1>1. ConnectionInv /\ [ConnectionNext]_ConnectionVars => [Taken => probed' = Threshold]_ConnectionVars
  <2> SUFFICES ASSUME ConnectionInv, ConnectionNext, Taken PROVE probed' = Threshold
    OBVIOUS
  <2>1. loop \in {"beating", "stopped"}
    BY DEF ConnectionInv, ReadyOnlyBeating
  <2>2. ProbeMisses
    BY <2>1 DEF ConnectionNext, LoopSteps, Opens, OpenFails, Checks, Publishes, Recovers, ProbeAnswers,
                Leaves, WaitEnds, Breaks, Stops, ServerTurns, published
  <2> QED
    BY <2>2, ConnectionAssumption
       DEF ProbeMisses, ConnectionInv, ConnectionTypeOK, ProbesLeft
<1> QED
  BY <1>1, ConnectionInvariance, PTL DEF ConnectionSpec, OneMissIsForgiven

-----------------------------------------------------------------------------
(* The calls to the server.                                                *)

Rearmed == tripped => ticks = rest

ReadsRaced == \A c \in Calls : CallAt(c, "read") /\ call[c].row # row => raced

BreakerInv == TripIsEarned /\ Rearmed
ShadowInv == ReadsRaced /\ StaleOnlyByRace

ToolCallInv == ToolCallTypeOK /\ BreakerInv /\ ShadowInv

-----------------------------------------------------------------------------
Places == {"idle", "asking", "read", "flying", "flagging"}
Call == [at : Places, row : Rows, age : 0..TTL, token : Tokens]

\* The locals of a call are well-formed wherever it goes.
LEMMA CallTypes ==
    /\ NoRow \in Rows
    /\ IdleCall \in Call /\ Asking \in Call /\ Flagging \in Call
    /\ \A t \in Tokens : Flying(t) \in Call
    /\ \A r \in Rows : Usable(r) \in Tokens
<1>1. 0 \in Tokens /\ 0 \in 0..TTL
  BY LimitsAssumption DEF Tokens
<1>2. NoRow \in Rows
  BY <1>1 DEF NoRow, Rows
<1>3. IdleCall \in Call
  BY <1>1, <1>2 DEF IdleCall, Call, Places
<1>4. Asking \in Call /\ Flagging \in Call
  BY <1>3 DEF Asking, Flagging, Call, Places
<1>5. \A t \in Tokens : Flying(t) \in Call
  BY <1>3 DEF Flying, Call, Places
<1>6. \A r \in Rows : Usable(r) \in Tokens
  BY <1>1 DEF Usable, Rows
<1>7. QED
  BY <1>2, <1>3, <1>4, <1>5, <1>6

\* A call that is sent or refused keeps the types of what the breaker touches.
LEMMA SendTypes ==
    ASSUME ToolCallTypeOK, NEW c \in Calls, NEW t \in Tokens, Send(c, t)
    PROVE  /\ call' \in [Calls -> Call]
           /\ broken' \in SUBSET Calls
           /\ ticks' = ticks
BY CallTypes DEF ToolCallTypeOK, Send, Refuse, Transmit, Call, Places

\* Every step keeps the types.
LEMMA TypesKept == ToolCallTypeOK /\ [ToolCallNext]_ToolCallVars => ToolCallTypeOK'
<1> SUFFICES ASSUME ToolCallTypeOK, [ToolCallNext]_ToolCallVars PROVE ToolCallTypeOK'
  OBVIOUS
<1>0. /\ Ceiling \in Nat /\ RecoveryCooldown \in Nat /\ TTL \in Nat /\ TTL > 0 /\ MaxWrites \in Nat
      /\ MaxDbFaults \in Nat /\ Ceiling > 0
  BY LimitsAssumption
<1>1. ASSUME NEW c \in Calls, CallStep(c) PROVE ToolCallTypeOK'
  <2>1. CASE CallShared(c)
    <3>1. 0 \in Tokens
      BY <1>0 DEF Tokens
    <3>2. call' \in [Calls -> Call] /\ broken' \in SUBSET Calls /\ ticks' = ticks
      BY <2>1, <3>1, SendTypes DEF CallShared
    <3>3. QED
      BY <2>1, <3>2 DEF CallShared, ToolCallTypeOK, connector, Call, Places
  <2>2. CASE CallCached(c)
    <3>1. cached.row \in Rows
      BY <2>2 DEF CallCached, ToolCallTypeOK
    <3>2. call' \in [Calls -> Call] /\ broken' \in SUBSET Calls /\ ticks' = ticks
      BY <2>2, <3>1, CallTypes, SendTypes DEF CallCached
    <3>3. QED
      BY <2>2, <3>2 DEF CallCached, ToolCallTypeOK, connector, Call, Places
  <2>3. CASE Ask(c)
    BY <2>3, CallTypes DEF Ask, ToolCallTypeOK, breaker, connector, Call, Places
  <2>4. CASE ReadRow(c)
    <3>1. call' \in [Calls -> Call]
      BY <2>4 DEF ReadRow, ToolCallTypeOK, Call, Places
    <3>2. QED
      BY <2>4, <3>1 DEF ReadRow, ToolCallTypeOK, breaker, connector, Call, Places
  <2>5. CASE StoreRow(c)
    <3>1. call[c].row \in Rows /\ call[c].age \in 0..TTL
      BY DEF ToolCallTypeOK
    <3>2. call' \in [Calls -> Call] /\ broken' \in SUBSET Calls /\ ticks' = ticks
      BY <2>5, <3>1, CallTypes, SendTypes DEF StoreRow
    <3>3. cached' \in [row : Rows, age : 0..(TTL - 1)] \cup {None}
      BY <1>0, <2>5, <3>1 DEF StoreRow, Fresh
    <3>4. QED
      BY <2>5, <3>2, <3>3 DEF StoreRow, ToolCallTypeOK, Call, Places
  <2>6. CASE ReadFails(c) \/ FlagFails(c)
    <3>1. call' \in [Calls -> Call]
      BY <2>6, CallTypes DEF ReadFails, FlagFails, ToolCallTypeOK, Call, Places
    <3>2. dbFaults' \in 0..MaxDbFaults
      BY <1>0, <2>6 DEF ReadFails, FlagFails, ToolCallTypeOK
    <3>3. QED
      BY <2>6, <3>1, <3>2 DEF ReadFails, FlagFails, ToolCallTypeOK, breaker, connector, Call, Places
  <2>7. CASE Accepted(c) \/ Rejected(c)
    <3>1. call' \in [Calls -> Call]
      BY <2>7, CallTypes DEF Accepted, Rejected, ToolCallTypeOK, Call, Places
    <3>2. streak' \in 0..Ceiling /\ tripped' \in BOOLEAN /\ ticks' \in 0..RecoveryCooldown
      <4>1. Answered(c)
        BY <2>7 DEF Accepted, Rejected
      <4>2. streak' = 0 /\ ticks' = RecoveryCooldown
        BY <4>1 DEF Answered
      <4>3. tripped' \in BOOLEAN
        BY <4>1, Zenon DEF Answered
      <4>4. QED
        BY <1>0, <4>2, <4>3
    <3>3. QED
      BY <2>7, <3>1, <3>2 DEF Accepted, Rejected, ToolCallTypeOK, connector, Call, Places
  <2>8. CASE Flag(c)
    <3>1. call' \in [Calls -> Call]
      BY <2>8, CallTypes DEF Flag, ToolCallTypeOK, Call, Places
    <3>2. row' \in Rows
      BY <2>8 DEF Flag, ToolCallTypeOK, Rows
    <3>3. raced' \in BOOLEAN
      BY <2>8, Zenon DEF Flag, ToolCallTypeOK
    <3>4. QED
      BY <2>8, <3>1, <3>2, <3>3 DEF Flag, ToolCallTypeOK, breaker, Call, Places
  <2>9. CASE Broke(c)
    <3>1. call' \in [Calls -> Call] /\ broken' \in SUBSET Calls
      BY <2>9, CallTypes DEF Broke, ToolCallTypeOK, Call, Places
    <3>2. streak' \in 0..Ceiling
      BY <1>0, <2>9 DEF Broke, NoteFailure, Later, ToolCallTypeOK
    <3>3. tripped' \in BOOLEAN
      BY <2>9, Zenon DEF Broke, NoteFailure, ToolCallTypeOK
    <3>4. ticks' \in 0..RecoveryCooldown /\ rest' \in 0..RecoveryCooldown
      BY <1>0, <2>9 DEF Broke, NoteFailure, ToolCallTypeOK
    <3>5. QED
      BY <2>9, <3>1, <3>2, <3>3, <3>4 DEF Broke, ToolCallTypeOK, connector, Call, Places
  <2>10. QED
    BY <1>1, <2>1, <2>2, <2>3, <2>4, <2>5, <2>6, <2>7, <2>8, <2>9 DEF CallStep
<1>2. CASE NextTurn
  <2>1. call' \in [Calls -> Call]
    BY <1>2, CallTypes DEF NextTurn
  <2>2. streak' \in 0..Ceiling /\ ticks' \in 0..RecoveryCooldown
    BY <1>0, <1>2 DEF NextTurn
  <2>3. tripped' \in BOOLEAN /\ broken' \in SUBSET Calls
    BY <1>2, Zenon DEF NextTurn
  <2>4. QED
    BY <1>2, <2>1, <2>2, <2>3 DEF NextTurn, ToolCallTypeOK, connector, Call, Places
<1>3. CASE Endpoint
  <2>1. CASE EndpointWrites
    <3>1. writes' \in 0..MaxWrites
      BY <1>0, <2>1 DEF EndpointWrites, ToolCallTypeOK
    <3>2. row' \in Rows
      <4>1. writes + 1 \in Tokens
        BY <1>0, <2>1 DEF EndpointWrites, ToolCallTypeOK, Tokens
      <4>2. [token |-> writes + 1, ok |-> TRUE] \in Rows
        BY <4>1 DEF Rows
      <4>3. QED
        BY <2>1, <4>2, CallTypes DEF EndpointWrites
    <3>3. raced' \in BOOLEAN
      BY <2>1 DEF EndpointWrites, ReadOut
    <3>4. QED
      BY <2>1, <3>1, <3>2, <3>3 DEF EndpointWrites, ToolCallTypeOK, breaker
  <2>2. CASE EndpointReturns
    BY <2>2 DEF EndpointReturns, ToolCallTypeOK, breaker
  <2>3. QED
    BY <1>3, <2>1, <2>2 DEF Endpoint
<1>4. CASE Server
  BY <1>4 DEF Server, ServerFails, ServerReturns, ToolCallTypeOK, breaker, connector
<1>5. CASE ToolCallTick
  <2>1. \A n \in 0..TTL : Later(n, TTL) \in 0..TTL
    BY <1>0 DEF Later
  <2>2. call' \in [Calls -> Call]
    BY <1>5, <2>1 DEF ToolCallTick, ToolCallTypeOK, Call, Places
  <2>3. ticks' \in 0..RecoveryCooldown /\ rest' \in 0..RecoveryCooldown
    BY <1>0, <1>5 DEF ToolCallTick, Later, ToolCallTypeOK
  <2>4. cached' \in [row : Rows, age : 0..(TTL - 1)] \cup {None}
    BY <1>0, <1>5 DEF ToolCallTick, Fresh, ToolCallTypeOK
  <2>5. QED
    BY <1>5, <2>2, <2>3, <2>4 DEF ToolCallTick, ToolCallTypeOK, Call, Places
<1>6. CASE UNCHANGED ToolCallVars
  BY <1>6 DEF ToolCallVars, ToolCallTypeOK, breaker, connector
<1>7. QED
  BY <1>1, <1>2, <1>3, <1>4, <1>5, <1>6 DEF ToolCallNext
-----------------------------------------------------------------------------
\* The breaker opens with the last failure, and its clock with it.
LEMMA BreakerKept == ToolCallTypeOK /\ BreakerInv /\ [ToolCallNext]_ToolCallVars => BreakerInv'
<1> SUFFICES ASSUME ToolCallTypeOK, BreakerInv, [ToolCallNext]_ToolCallVars PROVE BreakerInv'
  OBVIOUS
<1> USE DEF BreakerInv, TripIsEarned, Rearmed
<1>0. Ceiling \in Nat /\ Ceiling > 0 /\ streak \in 0..Ceiling /\ tripped \in BOOLEAN
  BY LimitsAssumption DEF ToolCallTypeOK
<1>1. ASSUME NEW c \in Calls, CallStep(c) PROVE BreakerInv'
  <2>1. CASE CallShared(c) \/ CallCached(c) \/ StoreRow(c)
    BY <2>1 DEF CallShared, CallCached, StoreRow, Send, Refuse, Transmit
  <2>2. CASE Ask(c) \/ ReadRow(c) \/ ReadFails(c) \/ Flag(c) \/ FlagFails(c)
    BY <2>2 DEF Ask, ReadRow, ReadFails, Flag, FlagFails, breaker
  <2>3. CASE Accepted(c) \/ Rejected(c)
    BY <1>0, <2>3 DEF Accepted, Rejected, Answered
  <2>4. CASE Broke(c)
    <3>1. NoteFailure /\ rest' = 0
      BY <2>4 DEF Broke
    <3>2. tripped => streak' = Ceiling
      BY <1>0, <3>1 DEF NoteFailure, Later
    <3>3. tripped' <=> streak' = Ceiling
      BY <3>1, <3>2 DEF NoteFailure
    <3>4. QED
      BY <3>1, <3>3 DEF NoteFailure
  <2>5. QED
    BY <1>1, <2>1, <2>2, <2>3, <2>4 DEF CallStep
<1>2. CASE NextTurn
  BY <1>0, <1>2 DEF NextTurn
<1>3. CASE Endpoint \/ Server
  BY <1>3 DEF Endpoint, EndpointWrites, EndpointReturns, Server, ServerFails, ServerReturns, breaker
<1>4. CASE ToolCallTick
  BY <1>4 DEF ToolCallTick
<1>5. CASE UNCHANGED ToolCallVars
  BY <1>5 DEF ToolCallVars, breaker
<1>6. QED
  BY <1>1, <1>2, <1>3, <1>4, <1>5 DEF ToolCallNext

\* A call that is sent or refused has left no read behind.
LEMMA SendReads ==
    ASSUME ToolCallTypeOK, NEW c \in Calls, NEW t, Send(c, t)
    PROVE  /\ call'[c].at # "read"
           /\ \A d \in Calls \ {c} : call'[d] = call[d]
<1>1. PICK v : call' = [call EXCEPT ![c] = v] /\ (v = IdleCall \/ v = Flying(t))
  BY DEF Send, Refuse, Transmit
<1>2. v.at # "read"
  <2>1. CASE v = IdleCall
    BY <2>1 DEF IdleCall
  <2>2. CASE v = Flying(t)
    BY <2>2 DEF Flying, IdleCall
  <2>3. QED
    BY <1>1, <2>1, <2>2
<1>3. QED
  BY <1>1, <1>2 DEF ToolCallTypeOK

\* A step that lets calls read no more, and changes neither the row nor the
\* history of races, keeps the reads raced.
LEMMA ReadsKept ==
    ASSUME ReadsRaced, UNCHANGED <<row, raced>>,
           \A c \in Calls : CallAt(c, "read")' => CallAt(c, "read") /\ call'[c].row = call[c].row
    PROVE  ReadsRaced'
BY DEF ReadsRaced

\* Whatever shadows the stored row got there by a race.
LEMMA ShadowKept == ToolCallTypeOK /\ ShadowInv /\ [ToolCallNext]_ToolCallVars => ShadowInv'
<1> SUFFICES ASSUME ToolCallTypeOK, ShadowInv, [ToolCallNext]_ToolCallVars PROVE ShadowInv'
  OBVIOUS
<1> USE DEF ShadowInv, StaleOnlyByRace, Shadowed
<1>1. ASSUME NEW c \in Calls, CallStep(c) PROVE ShadowInv'
  <2>1. CASE CallShared(c)
    <3>1. ReadsRaced'
      BY <2>1, SendReads, ReadsKept DEF CallShared, connector, CallAt
    <3>2. QED
      BY <2>1, <3>1 DEF CallShared, connector
  <2>2. CASE CallCached(c)
    <3>1. ReadsRaced'
      BY <2>2, SendReads, ReadsKept DEF CallCached, connector, CallAt
    <3>2. QED
      BY <2>2, <3>1 DEF CallCached, connector
  <2>3. CASE StoreRow(c)
    <3>1. ReadsRaced'
      BY <2>3, SendReads, ReadsKept DEF StoreRow, CallAt
    <3>2. cached' # None => cached'.row = call[c].row
      BY <2>3 DEF StoreRow
    <3>3. call[c].row # row => raced
      BY <2>3 DEF StoreRow, ReadsRaced
    <3>4. QED
      BY <2>3, <3>1, <3>2, <3>3 DEF StoreRow
  <2>4. CASE Ask(c)
    BY <2>4 DEF Ask, connector, ReadsRaced, ToolCallTypeOK, Asking, IdleCall, CallAt
  <2>5. CASE ReadRow(c)
    BY <2>5 DEF ReadRow, connector, ReadsRaced, ToolCallTypeOK, CallAt
  <2>6. CASE ReadFails(c) \/ FlagFails(c) \/ Accepted(c) \/ Broke(c)
    BY <2>6 DEF ReadFails, FlagFails, Accepted, Broke, connector, ReadsRaced, ToolCallTypeOK, IdleCall, CallAt
  <2>7. CASE Rejected(c)
    BY <2>7 DEF Rejected, ReadsRaced, ToolCallTypeOK, Flagging, IdleCall, CallAt
  <2>8. CASE Flag(c)
    <3>1. CASE row.ok
      <4>1. raced' <=> cached # None \/ ReadOut
        BY <2>8, <3>1 DEF Flag
      <4>2. (\E d \in Calls : CallAt(d, "read")') => ReadOut
        BY <2>8 DEF Flag, ToolCallTypeOK, IdleCall, CallAt, ReadOut
      <4>3. QED
        BY <2>8, <4>1, <4>2 DEF Flag, ReadsRaced
    <3>2. CASE ~row.ok
      <4>1. row' = row
        BY <2>8, <3>2 DEF Flag, ToolCallTypeOK, Rows
      <4>2. QED
        BY <2>8, <3>2, <4>1 DEF Flag, ReadsRaced, ToolCallTypeOK, IdleCall, CallAt
    <3>3. QED
      BY <3>1, <3>2
  <2>9. QED
    BY <1>1, <2>1, <2>2, <2>3, <2>4, <2>5, <2>6, <2>7, <2>8 DEF CallStep
<1>2. CASE NextTurn
  BY <1>2 DEF NextTurn, connector, ReadsRaced, IdleCall, CallAt
<1>3. CASE EndpointWrites
  BY <1>3 DEF EndpointWrites, ReadsRaced, ReadOut, CallAt
<1>4. CASE EndpointReturns
  BY <1>4 DEF EndpointReturns, ReadsRaced, CallAt
<1>5. CASE Server
  BY <1>5 DEF Server, ServerFails, ServerReturns, connector, ReadsRaced, CallAt
<1>6. CASE ToolCallTick
  <2>1. \A c \in Calls : call'[c].at = call[c].at /\ call'[c].row = call[c].row
    BY <1>6 DEF ToolCallTick, ToolCallTypeOK
  <2>2. ReadsRaced'
    BY <1>6, <2>1, ReadsKept DEF ToolCallTick, CallAt
  <2>3. cached' # None => cached # None /\ cached'.row = cached.row
    BY <1>6 DEF ToolCallTick, ToolCallTypeOK
  <2>4. QED
    BY <1>6, <2>2, <2>3 DEF ToolCallTick
<1>7. CASE UNCHANGED ToolCallVars
  BY <1>7 DEF ToolCallVars, connector, ReadsRaced, CallAt
<1>8. QED
  BY <1>1, <1>2, <1>3, <1>4, <1>5, <1>6, <1>7 DEF ToolCallNext, Endpoint

-----------------------------------------------------------------------------
\* The invariant holds at the start and is kept by every step.
THEOREM ToolCallInvariance == ToolCallSpec => []ToolCallInv
<1>1. ToolCallInit => ToolCallInv
  <2> SUFFICES ASSUME ToolCallInit PROVE ToolCallInv
    OBVIOUS
  <2>1. ToolCallTypeOK
    <3>1. call \in [Calls -> Call]
      BY CallTypes DEF ToolCallInit
    <3>2. streak \in 0..Ceiling /\ ticks \in 0..RecoveryCooldown /\ rest \in 0..RecoveryCooldown
          /\ writes \in 0..MaxWrites /\ dbFaults \in 0..MaxDbFaults
      BY LimitsAssumption DEF ToolCallInit
    <3>3. answering \in BOOLEAN /\ tripped \in BOOLEAN /\ raced \in BOOLEAN /\ broken \in SUBSET Calls
      BY Zenon DEF ToolCallInit
    <3>4. QED
      BY <3>1, <3>2, <3>3, CallTypes DEF ToolCallInit, ToolCallTypeOK, Call, Places
  <2>2. BreakerInv
    BY LimitsAssumption DEF ToolCallInit, BreakerInv, TripIsEarned, Rearmed
  <2>3. ShadowInv
    BY DEF ToolCallInit, ShadowInv, ReadsRaced, StaleOnlyByRace, Shadowed, IdleCall, CallAt
  <2>4. QED
    BY <2>1, <2>2, <2>3 DEF ToolCallInv
<1>2. ToolCallInv /\ [ToolCallNext]_ToolCallVars => ToolCallInv'
  BY TypesKept, BreakerKept, ShadowKept DEF ToolCallInv
<1>3. QED
  BY <1>1, <1>2, PTL DEF ToolCallSpec

\* Every variable keeps its type, whatever the number of calls and the limits.
THEOREM ToolCallTypesKept == ToolCallSpec => []ToolCallTypeOK
BY ToolCallInvariance, PTL DEF ToolCallInv

\* The breaker of call_tool is open exactly while failures have come one after
\* the other, for any number of calls under way when it opens.
THEOREM BreakerIsEarned == ToolCallSpec => []TripIsEarned
BY ToolCallInvariance, PTL DEF ToolCallInv, BreakerInv

\* The credential cache differs from the stored row only by a race.
THEOREM CacheIsHonest == ToolCallSpec => []StaleOnlyByRace
BY ToolCallInvariance, PTL DEF ToolCallInv, ShadowInv

\* Only Transmit sends a call, and it waits out the cooldown of an open breaker,
\* whose clock was set back by every failure since.
THEOREM FailuresAreGivenRest == ToolCallSpec => QuietAfterFailure
<1> DEFINE Quiet == \A c \in Calls : ~CallAt(c, "flying") /\ CallAt(c, "flying")'
                                   => ~tripped \/ rest = RecoveryCooldown
<1>1. ToolCallInv /\ [ToolCallNext]_ToolCallVars => [Quiet]_ToolCallVars
  <2> SUFFICES ASSUME ToolCallInv, ToolCallNext, NEW c \in Calls, ~CallAt(c, "flying"), CallAt(c, "flying")'
               PROVE  ~tripped \/ rest = RecoveryCooldown
    OBVIOUS
  <2>1. ticks \in 0..RecoveryCooldown /\ (tripped => ticks = rest)
    BY DEF ToolCallInv, ToolCallTypeOK, BreakerInv, Rearmed
  <2>2. ~CoolingDown
    <3>1. ASSUME NEW d \in Calls, CallStep(d) PROVE \E t : Transmit(d, t)
      <4>1. ASSUME NEW t, Send(d, t) PROVE Transmit(d, t)
        BY <4>1 DEF Send, Refuse, ToolCallInv, ToolCallTypeOK, CallAt, IdleCall
      <4>2. CASE CallShared(d) \/ CallCached(d) \/ StoreRow(d)
        BY <4>1, <4>2 DEF CallShared, CallCached, StoreRow
      <4>3. CASE ~(CallShared(d) \/ CallCached(d) \/ StoreRow(d))
        BY <3>1, <4>3 DEF CallStep, Ask, ReadRow, ReadFails, Accepted, Rejected, Flag, FlagFails,
           Broke, ToolCallInv, ToolCallTypeOK, CallAt, IdleCall, Asking, Flagging
      <4>4. QED
        BY <4>2, <4>3
    <3>2. CASE NextTurn
      BY <3>2 DEF NextTurn, CallAt, IdleCall
    <3>3. CASE Endpoint \/ Server
      BY <3>3 DEF Endpoint, EndpointWrites, EndpointReturns, Server, ServerFails, ServerReturns, CallAt
    <3>4. CASE ToolCallTick
      BY <3>4 DEF ToolCallTick, ToolCallInv, ToolCallTypeOK, CallAt
    <3>5. QED
      BY <3>1, <3>2, <3>3, <3>4 DEF ToolCallNext, Transmit
  <2>3. ~tripped \/ ~(ticks < RecoveryCooldown)
    BY <2>2 DEF CoolingDown
  <2>4. QED
    BY <2>1, <2>3, LimitsAssumption
<1>2. QED
  BY <1>1, ToolCallInvariance, PTL DEF QuietAfterFailure, ToolCallSpec

\* The breaker is well-typed and open exactly when that many failures in a row
\* have earned it.
THEOREM BreakerStaysHonest == ToolCallSpec => []BreakerIsHonest
<1>1. ToolCallTypeOK /\ TripIsEarned => BreakerIsHonest
  BY DEF BreakerIsHonest
<1> QED
  BY <1>1, ToolCallTypesKept, BreakerIsEarned, PTL
=============================================================================
