------------------------------ MODULE Admission ------------------------------
(***************************************************************************)
(* Memory admission of the backend: Backend/tta_backend/services/          *)
(* admission.py, with the two kinds of caller it serves.                   *)
(*                                                                         *)
(*   - a Heavy call (run_heavy) takes a permit, submits one job to the     *)
(*     heavy pool, which has as many workers as there are permits, and     *)
(*     hands the permit to the worker thread when it is cancelled while    *)
(*     that thread runs;                                                   *)
(*   - an Export call (admit, through hold_admission or the PNG route)     *)
(*     holds its permit for the length of a block whose grid work hops to  *)
(*     the export pool, one job at a time.                                 *)
(*                                                                         *)
(* One action is one uninterrupted run of the event loop between two       *)
(* awaits, or one step of a worker thread. Telemetry is left out, and so   *)
(* is reset_admission, which only the tests call.                          *)
(***************************************************************************)
EXTENDS Integers, FiniteSets

CONSTANTS
    Heavy,          \* callers of run_heavy
    Exports,        \* callers of admit whose block hops to the export pool
    Limit,          \* N: permits, and workers of the heavy pool
    QueueMultiple,  \* _QUEUE_DEPTH_MULTIPLE (3 in the code)
    ExportWorkers   \* _EXPORT_MAX_WORKERS (4 in the code)

ASSUME CallersAssumption ==
    /\ IsFiniteSet(Heavy)
    /\ IsFiniteSet(Exports)
    /\ Heavy \cap Exports = {}

\* _derive_limit never returns less than one.
ASSUME SizesAssumption ==
    /\ Limit \in Nat \ {0}
    /\ QueueMultiple \in Nat \ {0}
    /\ ExportWorkers \in Nat \ {0}

Callers == Heavy \cup Exports

VARIABLES
    value,      \* the semaphore's counter
    ahead,      \* ahead[c]: who is before c in the semaphore's deque
    pc,         \* where each caller is
    permit,     \* who will return the caller's permit
    job,        \* the caller's job in its pool
    queued,     \* the limiter's counter of waiting callers
    inFlight    \* the limiter's counter of permits out

vars == <<value, ahead, pc, permit, job, queued, inFlight>>

-----------------------------------------------------------------------------
(* A caller is out, or in the deque, or inside its section.                *)
(*   pending         its future is not done                                *)
(*   woken           its future has a result; it has not resumed yet       *)
(*   dropped         cancelled while pending                               *)
(*   wokenCancelled  cancelled after it was woken                          *)
(*   working         inside the section                                    *)
(*   cancelling      CancelledError is on its way into the section         *)
(*   orphaned        the call has unwound, its thread has not stopped      *)
(*   shed            told the queue is full                                *)

WaitingStates  == {"pending", "woken", "dropped", "wokenCancelled"}
ReservedStates == {"woken", "wokenCancelled"}
PcStates == WaitingStates
              \cup {"out", "shed", "working", "cancelling", "orphaned"}

Pending  == {c \in Callers : pc[c] = "pending"}
Waiting  == {c \in Callers : pc[c] \in WaitingStates}
Reserved == {c \in Callers : pc[c] \in ReservedStates}
Holders  == {c \in Callers : permit[c] # "none"}

queue_capacity == Limit * QueueMultiple

TypeOK ==
    /\ value \in 0..Limit
    /\ ahead \in [Callers -> SUBSET Callers]
    /\ pc \in [Callers -> PcStates]
    /\ permit \in [Callers -> {"none", "caller", "thread", "scheduled"}]
    /\ job \in [Callers -> {"none", "queued", "running", "done"}]
    /\ queued \in Nat
    /\ inFlight \in Nat

Init ==
    /\ value = Limit
    /\ ahead = [c \in Callers |-> {}]
    /\ pc = [c \in Callers |-> "out"]
    /\ permit = [c \in Callers |-> "none"]
    /\ job = [c \in Callers |-> "none"]
    /\ queued = 0
    /\ inFlight = 0

-----------------------------------------------------------------------------
(* asyncio.Semaphore of Python 3.12.                                       *)

\* Mutant of Locked: only the counter is looked at.
LockedByCount == value = 0

Locked == value = 0 \/ \E c \in Callers : pc[c] \in WaitingStates \ {"dropped"}

\* W is what up to k calls of _wake_up_next wake: the oldest of waiters, the
\* pending ones, and all of them when they are fewer than k.
Woken(W, waiters, k) ==
    /\ W \subseteq waiters
    /\ \A c \in W : ahead[c] \cap waiters \subseteq W
    /\ Cardinality(W) <= k
    /\ Cardinality(W) < k => W = waiters

\* Mutant of LeaveDeque: the free permits are not passed on.
LeaveDequeSilently(c, v, next) ==
    /\ value' = v
    /\ ahead' = [d \in Callers |-> IF d = c THEN {} ELSE ahead[d] \ {c}]
    /\ pc' = [pc EXCEPT ![c] = next]

\* acquire()'s "finally": c leaves the deque, and v free permits go to as
\* many of those still pending as there are.
LeaveDeque(c, v, next) ==
    \E W \in SUBSET (Pending \ {c}) :
        /\ Woken(W, Pending \ {c}, v)
        /\ value' = v - Cardinality(W)
        /\ ahead' = [d \in Callers |-> IF d = c THEN {} ELSE ahead[d] \ {c}]
        /\ pc' = [d \in Callers |-> IF d = c THEN next
                                    ELSE IF d \in W THEN "woken" ELSE pc[d]]

\* Mutant of ReleasePermit: the counter goes up and nobody is woken.
ReleasePermitSilently(c, next) ==
    /\ permit' = [permit EXCEPT ![c] = "none"]
    /\ inFlight' = inFlight - 1
    /\ value' = value + 1
    /\ pc' = [pc EXCEPT ![c] = next]
    /\ UNCHANGED <<ahead, queued>>

\* semaphore.release() inside _release: one more free permit, at most one
\* waiter woken. The caller of the step moves to "next".
ReleasePermit(c, next) ==
    /\ permit' = [permit EXCEPT ![c] = "none"]
    /\ inFlight' = inFlight - 1
    /\ \E W \in SUBSET Pending :
          /\ Woken(W, Pending, 1)
          /\ value' = value + 1 - Cardinality(W)
          /\ pc' = [d \in Callers |-> IF d = c THEN next
                                      ELSE IF d \in W THEN "woken" ELSE pc[d]]
    /\ UNCHANGED <<ahead, queued>>

\* The rest of _acquire once the permit is had, and run_heavy's submit.
TakePermit(c) ==
    /\ inFlight' = inFlight + 1
    /\ permit' = [permit EXCEPT ![c] = "caller"]
    /\ job' = [job EXCEPT ![c] = IF c \in Heavy THEN "queued" ELSE "none"]

-----------------------------------------------------------------------------
(* _acquire                                                                *)

Shed(c) ==
    /\ pc[c] = "out"
    /\ queued >= queue_capacity
    /\ pc' = [pc EXCEPT ![c] = "shed"]
    /\ UNCHANGED <<value, ahead, permit, job, queued, inFlight>>

Leave(c) ==
    /\ pc[c] = "shed"
    /\ pc' = [pc EXCEPT ![c] = "out"]
    /\ UNCHANGED <<value, ahead, permit, job, queued, inFlight>>

\* The permit is free: queued goes up and down again without an await.
Admit(c) ==
    /\ pc[c] = "out"
    /\ queued < queue_capacity
    /\ ~Locked
    /\ value' = value - 1
    /\ pc' = [pc EXCEPT ![c] = "working"]
    /\ TakePermit(c)
    /\ UNCHANGED <<ahead, queued>>

Enqueue(c) ==
    /\ pc[c] = "out"
    /\ queued < queue_capacity
    /\ Locked
    /\ queued' = queued + 1
    /\ ahead' = [ahead EXCEPT ![c] = Waiting]
    /\ pc' = [pc EXCEPT ![c] = "pending"]
    /\ UNCHANGED <<value, permit, job, inFlight>>

\* A woken waiter resumes with the permit that was reserved for it.
Resume(c) ==
    /\ pc[c] = "woken"
    /\ LeaveDeque(c, value, "working")
    /\ queued' = queued - 1
    /\ TakePermit(c)

\* A cancelled waiter resumes; one that had been woken hands its permit on.
Abandon(c) ==
    /\ pc[c] \in {"dropped", "wokenCancelled"}
    /\ LeaveDeque(c, IF pc[c] = "wokenCancelled" THEN value + 1 ELSE value, "out")
    /\ queued' = queued - 1
    /\ UNCHANGED <<permit, job, inFlight>>

-----------------------------------------------------------------------------
(* The sections, their pools, and cancellation.                            *)

\* task.cancel(), at any await of the call.
Cancel(c) ==
    /\ pc[c] \in {"pending", "woken", "working"}
    /\ pc' = [pc EXCEPT ![c] = CASE pc[c] = "pending" -> "dropped"
                                 [] pc[c] = "woken"   -> "wokenCancelled"
                                 [] pc[c] = "working" -> "cancelling"]
    /\ UNCHANGED <<value, ahead, permit, job, queued, inFlight>>

RunningIn(pool) == {c \in pool : job[c] = "running"}

\* A free worker of the pool picks a job up. Which one does not matter.
JobStarts(c) ==
    /\ job[c] = "queued"
    /\ \/ /\ c \in Heavy
          /\ Cardinality(RunningIn(Heavy)) < Limit
       \/ /\ c \in Exports
          /\ Cardinality(RunningIn(Exports)) < ExportWorkers
    /\ job' = [job EXCEPT ![c] = "running"]
    /\ UNCHANGED <<value, ahead, pc, permit, queued, inFlight>>

\* The thread stops, with a result or an exception. A job whose permit was
\* handed to the thread schedules the release on the loop.
JobStops(c) ==
    /\ job[c] = "running"
    /\ job' = [job EXCEPT ![c] = IF pc[c] = "orphaned" THEN "none" ELSE "done"]
    /\ permit' = [permit EXCEPT ![c] = IF @ = "thread" THEN "scheduled" ELSE @]
    /\ pc' = [pc EXCEPT ![c] = IF @ = "orphaned" /\ c \in Exports
                               THEN "out" ELSE @]
    /\ UNCHANGED <<value, ahead, queued, inFlight>>

\* run_heavy returns or re-raises: future.done(), so the permit is returned.
HeavyReturns(c) ==
    /\ c \in Heavy
    /\ pc[c] \in {"working", "cancelling"}
    /\ job[c] = "done"
    /\ job' = [job EXCEPT ![c] = "none"]
    /\ ReleasePermit(c, "out")

\* run_heavy unwinds before a worker picked the job up: future.cancel() works.
HeavyWithdraws(c) ==
    /\ c \in Heavy
    /\ pc[c] = "cancelling"
    /\ job[c] = "queued"
    /\ job' = [job EXCEPT ![c] = "none"]
    /\ ReleasePermit(c, "out")

\* Mutant of HeavyOrphans: the permit goes back with the caller.
HeavyOrphansRelease(c) ==
    /\ c \in Heavy
    /\ pc[c] = "cancelling"
    /\ job[c] = "running"
    /\ ReleasePermit(c, "orphaned")
    /\ UNCHANGED job

\* _hold_permit_until_thread_stops
HeavyOrphans(c) ==
    /\ c \in Heavy
    /\ pc[c] = "cancelling"
    /\ job[c] = "running"
    /\ permit' = [permit EXCEPT ![c] = "thread"]
    /\ pc' = [pc EXCEPT ![c] = "orphaned"]
    /\ UNCHANGED <<value, ahead, job, queued, inFlight>>

\* The loop runs the _release that the stopped thread scheduled.
OrphanReleases(c) ==
    /\ permit[c] = "scheduled"
    /\ ReleasePermit(c, "out")
    /\ UNCHANGED job

\* _to_export_thread: the block hops to the export pool and comes back.
ExportHops(c) ==
    /\ c \in Exports
    /\ pc[c] = "working"
    /\ job[c] = "none"
    /\ job' = [job EXCEPT ![c] = "queued"]
    /\ UNCHANGED <<value, ahead, pc, permit, queued, inFlight>>

ExportResumes(c) ==
    /\ c \in Exports
    /\ pc[c] = "working"
    /\ job[c] = "done"
    /\ job' = [job EXCEPT ![c] = "none"]
    /\ UNCHANGED <<value, ahead, pc, permit, queued, inFlight>>

\* admit's "finally": the block is left, normally or by cancellation, and
\* the permit goes back. A job still in the pool is withdrawn when no worker
\* has it; one that runs is left running.
ExportLeaves(c) ==
    /\ c \in Exports
    /\ \/ pc[c] = "working" /\ job[c] = "none"
       \/ pc[c] = "cancelling"
    /\ job' = [job EXCEPT ![c] = IF @ = "running" THEN @ ELSE "none"]
    /\ ReleasePermit(c, IF job[c] = "running" THEN "orphaned" ELSE "out")

-----------------------------------------------------------------------------
Step(c) ==
    \/ Shed(c) \/ Leave(c) \/ Admit(c) \/ Enqueue(c) \/ Resume(c) \/ Abandon(c)
    \/ Cancel(c) \/ JobStarts(c) \/ JobStops(c)
    \/ HeavyReturns(c) \/ HeavyWithdraws(c) \/ HeavyOrphans(c)
    \/ OrphanReleases(c)
    \/ ExportHops(c) \/ ExportResumes(c) \/ ExportLeaves(c)

Next == \E c \in Callers : Step(c)

Spec == Init /\ [][Next]_vars

\* The loop runs what is ready, threads stop, and a block is left in the end.
\* Nothing obliges a caller to arrive, to be cancelled or to hop again.
Fairness ==
    \A c \in Callers :
        /\ WF_vars(Resume(c))
        /\ WF_vars(Abandon(c))
        /\ WF_vars(JobStarts(c))
        /\ WF_vars(JobStops(c))
        /\ WF_vars(HeavyReturns(c) \/ HeavyWithdraws(c) \/ HeavyOrphans(c))
        /\ WF_vars(OrphanReleases(c))
        /\ WF_vars(ExportResumes(c))
        /\ SF_vars(ExportLeaves(c))

FairSpec == Spec /\ Fairness

-----------------------------------------------------------------------------
(* Properties                                                              *)

\* Every permit is free, reserved for a woken waiter, or out; the counter
\* that reports occupancy counts exactly those out. A leak would take one
\* unit of capacity away for the life of the process.
PermitsConserved ==
    /\ value + Cardinality(Reserved) + Cardinality(Holders) = Limit
    /\ inFlight = Cardinality(Holders)

\* The counter that decides shedding is the number of callers that really
\* wait, cancelled ones included until they resume, and stays within the cap.
QueueCountExact ==
    /\ queued = Cardinality(Waiting)
    /\ queued <= queue_capacity

\* An admitted heavy call never waits inside the pool: the jobs of the heavy
\* pool, orphans included, never outnumber its workers.
NobodyWaitsInSubmit ==
    Cardinality({c \in Heavy : job[c] \in {"queued", "running"}}) <= Limit

\* A free permit and a pending waiter coexist only while some other waiter
\* is about to resume and pass the permit on: no wake-up is lost.
NoLostWakeup ==
    value > 0 /\ Pending # {} => \E c \in Waiting : pc[c] # "pending"

\* A newcomer never takes a permit past somebody who already waits for one.
NoOvertaking ==
    [][\A c \in Callers :
          pc[c] = "out" /\ pc'[c] = "working"
              => \A d \in Waiting : pc[d] = "dropped"]_vars

\* A permit is out for as long as a thread works under it: the memory of a
\* cancelled reduction stays accounted for until its thread stops.
HeavyMemoryAccounted ==
    \A c \in Heavy : job[c] \in {"queued", "running"} => permit[c] # "none"

\* A caller that queues is admitted or gives up; it never waits for ever.
WaitersProgress ==
    \A c \in Callers : pc[c] = "pending" ~> pc[c] # "pending"

\* Once the callers have left, every permit comes back, orphans' included.
PermitsComeBack ==
    \A c \in Callers : pc[c] \in {"cancelling", "orphaned"} ~> permit[c] = "none"

\* What the limiter promises at every moment, whoever leaves where: each permit
\* is free or held once, shedding decides on the true number of waiting callers,
\* a thread's memory stays under a permit although its caller is gone, and an
\* admitted job never waits in the pool (_acquire, _release, run_heavy).
LimiterIsSound ==
    /\ TypeOK /\ PermitsConserved /\ QueueCountExact
    /\ HeavyMemoryAccounted /\ NobodyWaitsInSubmit

\* Under fair scheduling callers that queue are admitted or give up, and permits
\* come back, orphaned threads' included.
EverybodyMovesOn == WaitersProgress /\ PermitsComeBack
=============================================================================
