-------------------------- MODULE DispatchExecutor --------------------------
(***************************************************************************)
(* One chat turn of the supervisor and its sub-agent runs: Backend/        *)
(* tta_backend/services/dispatch_executor.py, with the tool and the        *)
(* middleware of agents/supervisor_agent.py that drive it.                 *)
(*                                                                         *)
(* A model step offers the dispatch tool or not; the model answers, or     *)
(* emits calls that run together; each call checks the turn's limits and   *)
(* starts its runs, waits for all of them, and saves what they learnt in   *)
(* the thread's context. One action is one uninterrupted run of the event  *)
(* loop. Slots and locks are handed out in no particular order, where      *)
(* asyncio is first come first served. The ground monitor, saved whole by  *)
(* one statement, and the charts' checkpoint are left out.                 *)
(***************************************************************************)
EXTENDS Integers, FiniteSets, Sequences

CONSTANTS
    Calls,          \* dispatch tool calls the model may emit in the turn
    Requests,       \* distinct requests, by canonical_key
    Satellite,      \* those for the satellite agent
    Lists,          \* the request lists a call may carry
    MaxRuns,        \* supervisor_max_requests_per_turn
    MaxRounds,      \* supervisor_max_dispatch_rounds
    MaxTotal,       \* supervisor_max_concurrency
    MaxSatellite,   \* supervisor_max_satellite_concurrency
    MaxFaults,      \* bound: failed database calls
    None            \* no call

ASSUME RequestsAssumption ==
    /\ IsFiniteSet(Requests)
    /\ Satellite \subseteq Requests
    /\ Lists \subseteq Seq(Requests) \ {<<>>}
    /\ None \notin Calls

ASSUME LimitsAssumption ==
    /\ MaxRuns \in Nat \ {0}
    /\ MaxRounds \in Nat \ {0}
    /\ MaxTotal \in Nat \ {0}
    /\ MaxSatellite \in Nat \ {0}
    /\ MaxFaults \in Nat

VARIABLES
    phase,      \* of the turn
    list,       \* the list of each call the model emitted, else <<>>
    pc,         \* where each call is
    items,      \* the items each call was answered with, else <<>>
    \* _TurnState; runs is owner and outcome together
    owner,      \* the call that started each request's run, or None
    outcome,    \* of that run
    slots,      \* the slots it holds
    runsUsed, roundsUsed, step, roundStep, stepCalls, stepNewRuns, closed,
    lock,       \* the call that holds persist_lock
    \* the thread's satellite context
    handed,     \* the runs that handed a context back
    context,    \* the runs the saved context tells of
    prior,      \* what each saving call has read of it
    faults      \* bound

runs == <<owner, outcome, slots>>
budget == <<runsUsed, roundsUsed, roundStep, stepCalls, stepNewRuns>>
steps == <<step, closed>>
memory == <<lock, context, prior, faults>>
vars == <<phase, list, pc, items, runs, budget, steps, handed, memory>>

-----------------------------------------------------------------------------
Keys(l) == {l[i] : i \in DOMAIN l}
Started == {r \in Requests : owner[r] # None}

\* Mutant of New: only a finished run is found.
NewUnlessFinished(c) ==
    Keys(list[c]) \ {r \in Requests : outcome[r] \in {"ok", "error"}}

New(c) == Keys(list[c]) \ Started

\* The caps a run takes, and how many of each there are.
Needs(r) == IF r \in Satellite THEN {"satellite", "total"} ELSE {"total"}
Cap(s) == IF s = "total" THEN MaxTotal ELSE MaxSatellite
Holding(s) == {r \in Requests : s \in slots[r]}
Running(r) == outcome[r] = "pending" /\ slots[r] = Needs(r)
Finished(r) == outcome[r] \in {"ok", "error"}

\* The calls whose coroutine has begun and not returned.
InFlight == {"gathering", "locking", "loading", "saving"}

\* The contexts a call has to save.
Captured(c) == {r \in handed \cap Satellite : owner[r] = c}

Item == [status : {"ok", "error", "duplicate", "rejected"},
         result : {"ok", "error", "none"}]

TypeOK ==
    /\ phase \in {"between", "thinking", "dispatching", "answered", "stopped"}
    /\ list \in [Calls -> Lists \cup {<<>>}]
    /\ pc \in [Calls -> InFlight \cup {"unused", "emitted", "over", "cancelled"}]
    /\ items \in [Calls -> Seq(Item)]
    /\ owner \in [Requests -> Calls \cup {None}]
    /\ outcome \in [Requests -> {"none", "pending", "ok", "error", "cancelled"}]
    /\ slots \in [Requests -> SUBSET {"satellite", "total"}]
    /\ {runsUsed, roundsUsed, step, stepCalls, stepNewRuns} \subseteq Nat
    /\ roundStep \in Nat \cup {-1}
    /\ closed \in BOOLEAN
    /\ lock \in Calls \cup {None}
    /\ handed \in SUBSET Requests
    /\ context \in SUBSET Requests
    /\ prior \in [Calls -> SUBSET Requests]
    /\ faults \in 0..MaxFaults

Init ==
    /\ phase = "between"
    /\ list = [c \in Calls |-> <<>>]
    /\ pc = [c \in Calls |-> "unused"]
    /\ items = [c \in Calls |-> <<>>]
    /\ owner = [r \in Requests |-> None]
    /\ outcome = [r \in Requests |-> "none"]
    /\ slots = [r \in Requests |-> {}]
    /\ runsUsed = 0 /\ roundsUsed = 0 /\ step = 0 /\ roundStep = -1
    /\ stepCalls = 0 /\ stepNewRuns = 0
    /\ closed = FALSE
    /\ lock = None
    /\ handed = {}
    /\ context = {}
    /\ prior = [c \in Calls |-> {}]
    /\ faults = 0

-----------------------------------------------------------------------------
(* The supervisor's loop.                                                  *)

\* begin_model_step, and the model call after it.
BeginModelStep ==
    LET stalled == stepCalls > 0 /\ stepNewRuns = 0 IN
    /\ phase = "between"
    /\ closed' = (closed \/ stalled \/ roundsUsed >= MaxRounds
                         \/ runsUsed >= MaxRuns)
    /\ step' = step + 1
    /\ stepCalls' = 0 /\ stepNewRuns' = 0
    /\ phase' = "thinking"
    /\ UNCHANGED <<list, pc, items, runs, runsUsed, roundsUsed, roundStep>>
    /\ UNCHANGED <<handed, memory>>

\* The model answers: always allowed, and all it can do once closed.
ModelAnswers ==
    /\ phase = "thinking"
    /\ phase' = "answered"
    /\ UNCHANGED <<list, pc, items, runs, budget, steps, handed, memory>>

\* One message with one or more dispatch calls, which ToolNode starts together.
ModelDispatches ==
    /\ phase = "thinking"
    /\ ~closed
    /\ \E C \in (SUBSET {c \in Calls : pc[c] = "unused"}) \ {{}} :
          /\ \E l \in [C -> Lists] :
                list' = [c \in Calls |-> IF c \in C THEN l[c] ELSE list[c]]
          /\ pc' = [c \in Calls |-> IF c \in C THEN "emitted" ELSE pc[c]]
    /\ phase' = "dispatching"
    /\ UNCHANGED <<items, runs, budget, steps, handed, memory>>

\* Every call of the message has returned.
ToolsReturn ==
    /\ phase = "dispatching"
    /\ \A c \in Calls : pc[c] \in {"unused", "over"}
    /\ phase' = "between"
    /\ UNCHANGED <<list, pc, items, runs, budget, steps, handed, memory>>

\* The turn is stopped: its task is cancelled and every task below it.
Stop ==
    /\ phase \in {"between", "thinking", "dispatching"}
    /\ phase' = "stopped"
    /\ pc' = [c \in Calls |-> IF pc[c] \in InFlight THEN "cancelled" ELSE pc[c]]
    /\ outcome' = [r \in Requests |-> IF outcome[r] = "pending" THEN "cancelled"
                                      ELSE outcome[r]]
    /\ slots' = [r \in Requests |-> {}]
    /\ lock' = None
    /\ UNCHANGED <<list, items, owner, budget, steps, handed, context, prior>>
    /\ UNCHANGED faults

-----------------------------------------------------------------------------
(* execute_dispatch                                                        *)

OpensRound == roundStep # step

\* Mutant of Refused: the budget is looked at, and not what the list needs.
RefusedWhenSpent(c) ==
    \/ OpensRound /\ roundsUsed >= MaxRounds
    \/ runsUsed >= MaxRuns

\* _TurnState.refusal is not None.
Refused(c) ==
    \/ OpensRound /\ roundsUsed >= MaxRounds
    \/ runsUsed + Cardinality(New(c)) > MaxRuns

\* Nothing in a refused list is run.
Reject(c) ==
    /\ pc[c] = "emitted"
    /\ New(c) # {}
    /\ Refused(c)
    /\ stepCalls' = stepCalls + 1
    /\ items' = [items EXCEPT ![c] = [i \in DOMAIN list[c] |->
                    [status |-> "rejected", result |-> "none"]]]
    /\ pc' = [pc EXCEPT ![c] = "over"]
    /\ UNCHANGED <<phase, list, runs, runsUsed, roundsUsed, roundStep>>
    /\ UNCHANGED <<stepNewRuns, steps, handed, memory>>

\* Checked, reserved and registered with no await in between.
Start(c) ==
    /\ pc[c] = "emitted"
    /\ New(c) # {}
    /\ ~Refused(c)
    /\ stepCalls' = stepCalls + 1
    /\ roundsUsed' = IF OpensRound THEN roundsUsed + 1 ELSE roundsUsed
    /\ roundStep' = step
    /\ runsUsed' = runsUsed + Cardinality(New(c))
    /\ stepNewRuns' = stepNewRuns + Cardinality(New(c))
    /\ owner' = [r \in Requests |-> IF r \in New(c) THEN c ELSE owner[r]]
    /\ outcome' = [r \in Requests |-> IF r \in New(c) THEN "pending"
                                      ELSE outcome[r]]
    /\ pc' = [pc EXCEPT ![c] = "gathering"]
    /\ UNCHANGED <<phase, list, items, slots, steps, handed, memory>>

\* Every request of the list has a run already.
Repeat(c) ==
    /\ pc[c] = "emitted"
    /\ New(c) = {}
    /\ stepCalls' = stepCalls + 1
    /\ pc' = [pc EXCEPT ![c] = "gathering"]
    /\ UNCHANGED <<phase, list, items, runs, runsUsed, roundsUsed, roundStep>>
    /\ UNCHANGED <<stepNewRuns, steps, handed, memory>>

\* Where the call reports its own run of a request: the first place it has.
OwnPlace(c, i) ==
    /\ owner[list[c][i]] = c
    /\ \A j \in DOMAIN list[c] : list[c][j] = list[c][i] => i <= j

\* asyncio.gather over the runs of the list, and its items in request order.
Gather(c) ==
    /\ pc[c] = "gathering"
    /\ \A r \in Keys(list[c]) : Finished(r)
    /\ items' = [items EXCEPT ![c] = [i \in DOMAIN list[c] |->
                    [status |-> IF OwnPlace(c, i) THEN outcome[list[c][i]]
                                ELSE "duplicate",
                     result |-> outcome[list[c][i]]]]]
    /\ pc' = [pc EXCEPT ![c] =
                 IF \E r \in Requests : owner[r] = c THEN "locking" ELSE "over"]
    /\ UNCHANGED <<phase, list, runs, budget, steps, handed, memory>>

-----------------------------------------------------------------------------
(* One run: _run_in_lane                                                   *)

\* The agent's own cap, then the shared one.
TakeSlot(r) ==
    /\ outcome[r] = "pending"
    /\ \E s \in Needs(r) \ slots[r] :
          /\ s = "total" => Needs(r) \ {"total"} \subseteq slots[r]
          /\ Cardinality(Holding(s)) < Cap(s)
          /\ slots' = [slots EXCEPT ![r] = @ \cup {s}]
    /\ UNCHANGED <<phase, list, pc, items, owner, outcome, budget, steps>>
    /\ UNCHANGED <<handed, memory>>

\* Mutant of Finish: a failed run keeps its slots.
FinishHoarding(r) ==
    /\ Running(r)
    /\ \E o \in {"ok", "error"} :
          /\ outcome' = [outcome EXCEPT ![r] = o]
          /\ slots' = [slots EXCEPT ![r] = IF o = "ok" THEN {} ELSE @]
          /\ \/ o = "ok" /\ handed' = handed \cup {r}
             \/ UNCHANGED handed
    /\ UNCHANGED <<phase, list, pc, items, owner, budget, steps, memory>>

\* run_one returns or raises, and both slots are given back. A run that
\* returns may have a context to hand back; one that raises has none.
Finish(r) ==
    /\ Running(r)
    /\ \E o \in {"ok", "error"} :
          /\ outcome' = [outcome EXCEPT ![r] = o]
          /\ \/ o = "ok" /\ handed' = handed \cup {r}
             \/ UNCHANGED handed
    /\ slots' = [slots EXCEPT ![r] = {}]
    /\ UNCHANGED <<phase, list, pc, items, owner, budget, steps, memory>>

-----------------------------------------------------------------------------
(* The tool's save of what its runs learnt: persist_dispatch_contexts.     *)

TakeLock(c) ==
    /\ pc[c] = "locking"
    /\ lock = None
    /\ lock' = c
    /\ pc' = [pc EXCEPT ![c] = "loading"]
    /\ UNCHANGED <<phase, list, items, runs, budget, steps, handed>>
    /\ UNCHANGED <<context, prior, faults>>

\* No run of the batch had a satellite context to save.
SkipSave(c) ==
    /\ pc[c] = "loading"
    /\ Captured(c) = {}
    /\ lock' = None
    /\ pc' = [pc EXCEPT ![c] = "over"]
    /\ UNCHANGED <<phase, list, items, runs, budget, steps, handed>>
    /\ UNCHANGED <<context, prior, faults>>

\* _load_satellite_context: a failed read counts as an empty context.
Load(c) ==
    /\ pc[c] = "loading"
    /\ Captured(c) # {}
    /\ \/ prior' = [prior EXCEPT ![c] = context] /\ UNCHANGED faults
       \/ /\ faults < MaxFaults
          /\ faults' = faults + 1
          /\ prior' = [prior EXCEPT ![c] = {}]
    /\ pc' = [pc EXCEPT ![c] = "saving"]
    /\ UNCHANGED <<phase, list, items, runs, budget, steps, handed, lock>>
    /\ UNCHANGED context

\* _persist_satellite_context: a failed write is logged.
Save(c) ==
    /\ pc[c] = "saving"
    /\ \/ context' = prior[c] \cup Captured(c) /\ UNCHANGED faults
       \/ /\ faults < MaxFaults
          /\ faults' = faults + 1
          /\ UNCHANGED context
    /\ lock' = None
    /\ pc' = [pc EXCEPT ![c] = "over"]
    /\ UNCHANGED <<phase, list, items, runs, budget, steps, handed, prior>>

-----------------------------------------------------------------------------
TurnStep == BeginModelStep \/ ModelAnswers \/ ModelDispatches \/ ToolsReturn \/ Stop

CallStep(c) ==
    \/ Reject(c) \/ Start(c) \/ Repeat(c) \/ Gather(c)
    \/ TakeLock(c) \/ SkipSave(c) \/ Load(c) \/ Save(c)

RunStep(r) == TakeSlot(r) \/ Finish(r)

Next ==
    \/ TurnStep
    \/ \E c \in Calls : phase = "dispatching" /\ CallStep(c)
    \/ \E r \in Requests : RunStep(r)

Spec == Init /\ [][Next]_vars

\* The loop runs what is ready, a sub-agent run ends (its own recursion limit
\* and timeouts see to it), and the model says something.
Fairness ==
    /\ WF_vars(BeginModelStep)
    /\ WF_vars(ModelAnswers \/ ModelDispatches)
    /\ WF_vars(ToolsReturn)
    /\ \A c \in Calls : WF_vars(CallStep(c))
    /\ \A r \in Requests : WF_vars(TakeSlot(r)) /\ WF_vars(Finish(r))

FairSpec == Spec /\ Fairness

-----------------------------------------------------------------------------
(* Properties                                                              *)

\* What the turn has spent is exactly the runs it started, within its budget,
\* however sibling calls interleave.
BudgetExact ==
    /\ runsUsed = Cardinality(Started)
    /\ runsUsed <= MaxRuns
    /\ roundsUsed <= MaxRounds

\* A run's outcome is reported as such in one place of one call's answer, by
\* the call that started it; every other place says duplicate.
ReportedOnce ==
    \A c, d \in Calls : \A i \in DOMAIN items[c], j \in DOMAIN items[d] :
        /\ items[c][i].status \in {"ok", "error"}
        /\ items[d][j].status \in {"ok", "error"}
        /\ list[c][i] = list[d][j]
        => c = d /\ i = j

\* A refused list is refused whole: it is the owner of no run.
RefusedWhole ==
    \A c \in Calls : \A i \in DOMAIN items[c] :
        items[c][i].status = "rejected" => \A r \in Requests : owner[r] # c

\* A run queued behind the satellite cap holds no slot that a ground run
\* could use: whoever has one of the shared slots is running.
NoSlotIdles ==
    \A r \in Requests : "total" \in slots[r] => Running(r)

\* The model cannot loop on dispatch: every step that does not close it opens
\* a round, so it gets one step more than there are rounds.
ModelMustAnswer == step <= MaxRounds + 1

\* Sibling calls save one after the other: what a run handed back is in the
\* thread's context once its call has returned.
ContextsKept ==
    faults = 0 =>
        \A c \in Calls : pc[c] = "over" => Captured(c) \subseteq context

\* A message of calls is always answered, or the turn stopped: the two caps
\* and the lock never wait for each other.
CallsReturn == phase = "dispatching" ~> phase # "dispatching"

\* The executor keeps what it promises (DispatchPromise).
Asked == [c \in Calls |-> IF pc[c] \in {"unused", "emitted"} THEN <<>> ELSE list[c]]

Promise == INSTANCE DispatchPromise WITH asked <- Asked

KeepsPromise == Promise!Spec

\* The turn's books balance whatever its calls ask, repeat and overlap: budget
\* and rounds are those of the runs started, each run is reported once, lists
\* are refused whole, no shared slot is held by a run that waits, the model is
\* made to answer, and what runs handed back is saved.
BooksBalance ==
    /\ TypeOK /\ BudgetExact /\ ReportedOnce /\ RefusedWhole
    /\ NoSlotIdles /\ ModelMustAnswer /\ ContextsKept
=============================================================================
