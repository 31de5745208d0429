---------------------------- MODULE TurnRegistry ----------------------------
(***************************************************************************)
(* Who runs a chat turn, who may stop it, and when its thread is free:     *)
(* Backend/tta_backend/services/turn_registry.py on several replicas that  *)
(* share one Redis.                                                        *)
(*                                                                         *)
(* A call of begin() is identified with the turn id it mints. One action   *)
(* is one Redis command taking effect, or one uninterrupted run of a       *)
(* replica's event loop between two awaits. A reply is processed in the    *)
(* action of its command, except where the order of the two matters: the   *)
(* terminal entry a turn writes (marking, then marked) and the renewal of  *)
(* claims (a snapshot, then EXPIRE). Redis itself never fails; a round     *)
(* trip may, at the points FaultPoints names.                              *)
(***************************************************************************)
EXTENDS Integers, FiniteSets, Sequences

CONSTANTS
    Turns,          \* calls of begin(), and the ids they mint
    Threads,
    Keys,           \* idempotency keys
    Replicas,
    None,           \* no turn, or no key
    ThreadOf,       \* the thread of each call
    KeyOf,          \* its Idempotency-Key header, or None
    HomeOf,         \* the replica that serves it
    TTL,            \* ticks a claim lives without renewal
    MaxLate,        \* bound: ticks that overtake a replica's watch loop
    MaxFaults,      \* bound: failed round trips
    FaultPoints,    \* which round trips may fail
    Stoppable,      \* turns a user may stop
    Drainable,      \* replicas that may shut down
    Crashable,      \* replicas that may be killed
    Fading          \* threads whose last_turn may expire

ASSUME ConstantsAssumption ==
    /\ None \notin Turns \cup Keys
    /\ ThreadOf \in [Turns -> Threads]
    /\ KeyOf \in [Turns -> Keys \cup {None}]
    /\ HomeOf \in [Turns -> Replicas]
    /\ TTL \in Nat \ {0, 1}
    /\ MaxLate \in Nat
    /\ MaxFaults \in Nat
    /\ FaultPoints \subseteq
          {"claim", "flag", "produce", "mark", "release", "drain", "recheck", "renew"}
    /\ Stoppable \subseteq Turns
    /\ Drainable \subseteq Replicas
    /\ Crashable \subseteq Replicas
    /\ Fading \subseteq Threads

VARIABLES
    \* Redis
    sent,       \* send:{key}:turn
    active,     \* thread:{id}:active_turn
    ttl,        \* ticks until active lapses
    last,       \* thread:{id}:last_turn
    flag,       \* turns with turn:{id}:stop set
    terminals,  \* the kinds of the terminal entries of each turn's log
    \* one call of begin()
    call,       \* where it is, and its outcome
    answer,     \* the turn id it returned
    \* one turn
    run,        \* its _run task
    consumer,   \* its _produce task
    kind,       \* its entry in _cancelling
    stopReq,    \* the stop() call for it
    \* one replica
    rep,        \* up, draining, exited or crashed
    watch,      \* its _watch_turns loop
    renewing,   \* the turns of that loop's last snapshot of _threads
    awaited,    \* turns that a drain cancelled and waits for
    \* bounds
    late, faults,
    \* history
    skipped,    \* passes of a watch loop that renewed nothing
    crossed,    \* turns cancelled between their ending's XADD and its reply
    faded       \* threads whose last_turn has expired since it was last set

redis == <<sent, active, ttl, last, flag, terminals>>
calls == <<call, answer>>
tasks == <<run, consumer, kind>>
loops == <<rep, watch, renewing, awaited>>
bounds == <<late, faults>>
history == <<skipped, crossed, faded>>
vars == <<redis, calls, tasks, stopReq, loops, bounds, history>>

-----------------------------------------------------------------------------
Alive == {r \in Replicas : rep[r] \in {"up", "draining"}}
OnLive(u) == HomeOf[u] \in Alive

\* _threads holds a turn from begin() until its "finally" pops it, and
\* _consumers from the first step of _run until then.
Listed(u) == run[u] \in {"spawned", "checking", "awaiting", "ending", "raised"}
Registered(u) == Listed(u) /\ run[u] # "spawned"
Producing(u) == consumer[u] \in {"producing", "marking", "marked"}

MayFail(point) == point \in FaultPoints /\ faults < MaxFaults

TypeOK ==
    /\ sent \in [Keys -> Turns \cup {None}]
    /\ active \in [Threads -> Turns \cup {None}]
    /\ ttl \in [Threads -> 0..TTL]
    /\ last \in [Threads -> Turns \cup {None}]
    /\ flag \in SUBSET Turns
    /\ \A u \in Turns :
          /\ terminals[u] \in Seq({"done", "stopped", "interrupted"})
          /\ call[u] \in {"new", "keyed", "duplicating", "refusing", "looking",
                          "started", "duplicate", "already", "refused", "lost"}
          /\ answer[u] \in Turns \cup {None}
          /\ run[u] \in {"none", "spawned", "checking", "awaiting", "ending",
                         "raised", "releasing", "unpointing", "over", "dead"}
          /\ consumer[u] \in {"none", "producing", "marking", "marked", "done",
                              "failed", "cancelled", "dead"}
          /\ kind[u] \in {None, "stopped", "interrupted"}
          /\ stopReq[u] \in {"idle", "flagged", "announced", "over"}
    /\ rep \in [Replicas -> {"up", "draining", "exited", "crashed"}]
    /\ watch \in [Replicas -> {"asleep", "recheck", "refresh"}]
    /\ renewing \in [Replicas -> SUBSET Turns]
    /\ awaited \in SUBSET Turns
    /\ late \in 0..MaxLate
    /\ faults \in 0..MaxFaults
    /\ skipped \in 0..faults
    /\ crossed \in SUBSET Turns
    /\ faded \in SUBSET Threads

Init ==
    /\ sent = [k \in Keys |-> None]
    /\ active = [t \in Threads |-> None]
    /\ ttl = [t \in Threads |-> 0]
    /\ last = [t \in Threads |-> None]
    /\ flag = {}
    /\ terminals = [u \in Turns |-> <<>>]
    /\ call = [u \in Turns |-> "new"]
    /\ answer = [u \in Turns |-> None]
    /\ run = [u \in Turns |-> "none"]
    /\ consumer = [u \in Turns |-> "none"]
    /\ kind = [u \in Turns |-> None]
    /\ stopReq = [u \in Turns |-> "idle"]
    /\ rep = [r \in Replicas |-> "up"]
    /\ watch = [r \in Replicas |-> "asleep"]
    /\ renewing = [r \in Replicas |-> {}]
    /\ awaited = {}
    /\ late = 0
    /\ faults = 0
    /\ skipped = 0
    /\ crossed = {}
    /\ faded = {}

-----------------------------------------------------------------------------
(* begin()                                                                 *)

BeginRefused(u) ==
    /\ call[u] = "new"
    /\ rep[HomeOf[u]] = "draining"
    /\ call' = [call EXCEPT ![u] = "refused"]
    /\ UNCHANGED <<redis, answer, tasks, stopReq, loops, bounds, history>>

\* SET send:{key}:turn NX, when the caller sent a key.
ClaimSend(u) ==
    LET k == KeyOf[u] IN
    /\ call[u] = "new"
    /\ rep[HomeOf[u]] = "up"
    /\ IF k = None \/ sent[k] = None
       THEN /\ call' = [call EXCEPT ![u] = "keyed"]
            /\ sent' = [j \in Keys |-> IF j = k THEN u ELSE sent[j]]
       ELSE /\ call' = [call EXCEPT ![u] = "duplicating"]
            /\ UNCHANGED sent
    /\ UNCHANGED <<active, ttl, last, flag, terminals>>
    /\ UNCHANGED <<answer, tasks, stopReq, loops, bounds, history>>

AnswerDuplicate(u) ==
    /\ call[u] = "duplicating"
    /\ call' = [call EXCEPT ![u] = "duplicate"]
    /\ answer' = [answer EXCEPT ![u] = sent[KeyOf[u]]]
    /\ UNCHANGED <<redis, tasks, stopReq, loops, bounds, history>>

\* SET thread:{id}:active_turn NX EX. The turn is listed and its task created
\* in the same run of the loop that reads the reply.
ClaimThread(u) ==
    LET t == ThreadOf[u] IN
    /\ call[u] = "keyed"
    /\ IF active[t] = None
       THEN /\ active' = [active EXCEPT ![t] = u]
            /\ ttl' = [ttl EXCEPT ![t] = TTL]
            /\ call' = [call EXCEPT ![u] = "started"]
            /\ answer' = [answer EXCEPT ![u] = u]
            /\ run' = [run EXCEPT ![u] = "spawned"]
       ELSE /\ call' = [call EXCEPT ![u] = IF KeyOf[u] = None THEN "looking"
                                           ELSE "refusing"]
            /\ UNCHANGED <<active, ttl, answer, run>>
    /\ UNCHANGED <<sent, last, flag, terminals, consumer, kind>>
    /\ UNCHANGED <<stopReq, loops, bounds, history>>

\* The SET lands and its reply does not: a claim with nobody behind it.
ClaimLost(u) ==
    LET t == ThreadOf[u] IN
    /\ call[u] = "keyed"
    /\ active[t] = None
    /\ MayFail("claim")
    /\ faults' = faults + 1
    /\ active' = [active EXCEPT ![t] = u]
    /\ ttl' = [ttl EXCEPT ![t] = TTL]
    /\ call' = [call EXCEPT ![u] = "lost"]
    /\ UNCHANGED <<sent, last, flag, terminals, answer, tasks>>
    /\ UNCHANGED <<stopReq, loops, late, history>>

\* The send bought nothing, so its key is not spent.
ForgetSend(u) ==
    /\ call[u] = "refusing"
    /\ call' = [call EXCEPT ![u] = "looking"]
    /\ sent' = [sent EXCEPT ![KeyOf[u]] = None]
    /\ UNCHANGED <<active, ttl, last, flag, terminals>>
    /\ UNCHANGED <<answer, tasks, stopReq, loops, bounds, history>>

AnswerAlreadyRunning(u) ==
    /\ call[u] = "looking"
    /\ call' = [call EXCEPT ![u] = "already"]
    /\ answer' = [answer EXCEPT ![u] = active[ThreadOf[u]]]
    /\ UNCHANGED <<redis, tasks, stopReq, loops, bounds, history>>

-----------------------------------------------------------------------------
(* Cancelling a turn that this replica runs.                               *)

\* Mutant of CancelLocal: the kind argument is not passed on.
CancelLocalAlwaysStopped(S, why) ==
    LET C == {u \in S : Registered(u) /\ run[u] # "ending"} IN
    /\ kind' = [u \in Turns |-> IF u \in C THEN "stopped" ELSE kind[u]]
    /\ consumer' = [u \in Turns |-> IF u \in C /\ Producing(u)
                                    THEN "cancelled" ELSE consumer[u]]
    /\ crossed' = crossed \cup {u \in C : consumer[u] = "marked"}

\* _cancel_local for every turn of S. A consumer that has finished is not
\* affected by cancel(), but the kind is recorded. One that comes while the
\* turn already ends has no effect: _run has read its kind.
CancelLocal(S, why) ==
    LET C == {u \in S : Registered(u) /\ run[u] # "ending"} IN
    /\ kind' = [u \in Turns |-> IF u \in C THEN why ELSE kind[u]]
    /\ consumer' = [u \in Turns |-> IF u \in C /\ Producing(u)
                                    THEN "cancelled" ELSE consumer[u]]
    /\ crossed' = crossed \cup {u \in C : consumer[u] = "marked"}

-----------------------------------------------------------------------------
(* _run and _produce                                                       *)

\* The consumer is created and registered before the first await.
RunStarts(u) ==
    /\ run[u] = "spawned"
    /\ run' = [run EXCEPT ![u] = "checking"]
    /\ consumer' = [consumer EXCEPT ![u] = "producing"]
    /\ UNCHANGED <<redis, calls, kind, stopReq, loops, bounds, history>>

\* EXISTS turn:{id}:stop
RunReadsFlag(u) ==
    /\ run[u] = "checking"
    /\ run' = [run EXCEPT ![u] = "awaiting"]
    /\ IF u \in flag THEN CancelLocal({u}, "stopped")
                     ELSE UNCHANGED <<kind, consumer, crossed>>
    /\ UNCHANGED <<redis, calls, stopReq, loops, bounds, skipped, faded>>

\* The EXISTS stands before the "try", so nothing is popped or released.
RunFlagReadFails(u) ==
    /\ run[u] = "checking"
    /\ MayFail("flag")
    /\ faults' = faults + 1
    /\ run' = [run EXCEPT ![u] = "raised"]
    /\ UNCHANGED <<redis, calls, consumer, kind, stopReq, loops, late, history>>

\* The turn has said all it will say; its closing frame (done or error) is
\* sent as the terminal entry.
ProduceCloses(u) ==
    /\ consumer[u] = "producing"
    /\ consumer' = [consumer EXCEPT ![u] = "marking"]
    /\ UNCHANGED <<redis, calls, run, kind, stopReq, loops, bounds, history>>

ProduceMarks(u) ==
    /\ consumer[u] = "marking"
    /\ consumer' = [consumer EXCEPT ![u] = "marked"]
    /\ terminals' = [terminals EXCEPT ![u] = Append(@, "done")]
    /\ UNCHANGED <<sent, active, ttl, last, flag>>
    /\ UNCHANGED <<calls, run, kind, stopReq, loops, bounds, history>>

ProduceReturns(u) ==
    /\ consumer[u] = "marked"
    /\ consumer' = [consumer EXCEPT ![u] = "done"]
    /\ UNCHANGED <<redis, calls, run, kind, stopReq, loops, bounds, history>>

\* A write to the log raises, and with it the consumer.
ProduceFails(u) ==
    /\ Producing(u)
    /\ MayFail("produce")
    /\ faults' = faults + 1
    /\ consumer' = [consumer EXCEPT ![u] = "failed"]
    /\ UNCHANGED <<redis, calls, run, kind, stopReq, loops, late, history>>

\* The consumer ended by itself: straight to the "finally".
RunSeesEnd(u) ==
    /\ run[u] = "awaiting"
    /\ consumer[u] \in {"done", "failed"}
    /\ run' = [run EXCEPT ![u] = "releasing"]
    /\ kind' = [kind EXCEPT ![u] = None]
    /\ UNCHANGED <<redis, calls, consumer, stopReq, loops, bounds, history>>

RunSeesCancel(u) ==
    /\ run[u] = "awaiting"
    /\ consumer[u] = "cancelled"
    /\ run' = [run EXCEPT ![u] = "ending"]
    /\ UNCHANGED <<redis, calls, consumer, kind, stopReq, loops, bounds, history>>

\* _cancel_orphaned_jobs, which changes nothing here, and mark_terminal with
\* the kind read when the cancel arrived.
RunMarks(u) ==
    /\ run[u] = "ending"
    /\ run' = [run EXCEPT ![u] = "releasing"]
    /\ terminals' = [terminals EXCEPT ![u] = Append(@, kind[u])]
    /\ kind' = [kind EXCEPT ![u] = None]
    /\ UNCHANGED <<sent, active, ttl, last, flag>>
    /\ UNCHANGED <<calls, consumer, stopReq, loops, bounds, history>>

RunMarkFails(u) ==
    /\ run[u] = "ending"
    /\ MayFail("mark")
    /\ faults' = faults + 1
    /\ run' = [run EXCEPT ![u] = "releasing"]
    /\ kind' = [kind EXCEPT ![u] = None]
    /\ UNCHANGED <<redis, calls, consumer, stopReq, loops, late, history>>

\* Mutant of RunPoints: the claim goes and no pointer is left behind.
RunPointsNowhere(u) ==
    /\ run[u] = "releasing"
    /\ run' = [run EXCEPT ![u] = "unpointing"]
    /\ UNCHANGED <<redis, calls, consumer, kind, stopReq, loops, bounds, history>>

\* The first command of the releasing pipeline: SET last_turn.
RunPoints(u) ==
    /\ run[u] = "releasing"
    /\ run' = [run EXCEPT ![u] = "unpointing"]
    /\ last' = [last EXCEPT ![ThreadOf[u]] = u]
    /\ faded' = faded \ {ThreadOf[u]}
    /\ UNCHANGED <<sent, active, ttl, flag, terminals>>
    /\ UNCHANGED <<calls, consumer, kind, stopReq, loops, bounds, skipped, crossed>>

\* The second: DEL active_turn, whoever holds it.
RunReleases(u) ==
    /\ run[u] = "unpointing"
    /\ run' = [run EXCEPT ![u] = "over"]
    /\ active' = [active EXCEPT ![ThreadOf[u]] = None]
    /\ ttl' = [ttl EXCEPT ![ThreadOf[u]] = 0]
    /\ UNCHANGED <<sent, last, flag, terminals>>
    /\ UNCHANGED <<calls, consumer, kind, stopReq, loops, bounds, history>>

RunReleaseFails(u) ==
    /\ run[u] \in {"releasing", "unpointing"}
    /\ MayFail("release")
    /\ faults' = faults + 1
    /\ run' = [run EXCEPT ![u] = "over"]
    /\ UNCHANGED <<redis, calls, consumer, kind, stopReq, loops, late, history>>

-----------------------------------------------------------------------------
(* stop(), the stop channel, and the watch loop.                           *)

StopFlags(u) ==
    /\ stopReq[u] = "idle"
    /\ u \in Stoppable
    /\ call[u] = "started"
    /\ stopReq' = [stopReq EXCEPT ![u] = "flagged"]
    /\ flag' = flag \cup {u}
    /\ UNCHANGED <<sent, active, ttl, last, terminals>>
    /\ UNCHANGED <<calls, tasks, loops, bounds, history>>

\* PUBLISH: the owner's listener has the message coming, or is away.
StopAnnounces(u) ==
    /\ stopReq[u] = "flagged"
    /\ \E to \in {"announced", "over"} : stopReq' = [stopReq EXCEPT ![u] = to]
    /\ UNCHANGED <<redis, calls, tasks, loops, bounds, history>>

\* Mutant of StopHeard: whoever hears of the stop writes the ending himself.
StopHeardMarks(u) ==
    /\ stopReq[u] = "announced"
    /\ OnLive(u)
    /\ stopReq' = [stopReq EXCEPT ![u] = "over"]
    /\ terminals' = [terminals EXCEPT ![u] = Append(@, "stopped")]
    /\ CancelLocal({u}, "stopped")
    /\ UNCHANGED <<sent, active, ttl, last, flag, calls, run, loops, bounds, skipped, faded>>

\* _listen on the owner, or the direct _cancel_local of a stop() called there.
StopHeard(u) ==
    /\ stopReq[u] = "announced"
    /\ OnLive(u)
    /\ stopReq' = [stopReq EXCEPT ![u] = "over"]
    /\ CancelLocal({u}, "stopped")
    /\ UNCHANGED <<redis, calls, run, loops, bounds, skipped, faded>>

\* Mutant of WatchRechecks: the flags are not re-read.
WatchTrustsChannel(r) ==
    /\ watch[r] = "recheck"
    /\ r \in Alive
    /\ renewing' = [renewing EXCEPT ![r] = {u \in Turns : HomeOf[u] = r /\ Listed(u)}]
    /\ watch' = [watch EXCEPT ![r] = "refresh"]
    /\ UNCHANGED <<redis, calls, tasks, stopReq, rep, awaited, bounds, history>>

\* One pass of _recheck_stops (also run on resubscribing), and the snapshot
\* _refresh_claims takes of _threads right after it.
WatchRechecks(r) ==
    /\ watch[r] = "recheck"
    /\ r \in Alive
    /\ CancelLocal({u \in flag : HomeOf[u] = r}, "stopped")
    /\ renewing' = [renewing EXCEPT ![r] = {u \in Turns : HomeOf[u] = r /\ Listed(u)}]
    /\ watch' = [watch EXCEPT ![r] = "refresh"]
    /\ UNCHANGED <<redis, calls, run, stopReq, rep, awaited, bounds, skipped, faded>>

\* The MGET fails and the pass goes on: no flag is seen.
WatchRecheckFails(r) ==
    /\ watch[r] = "recheck"
    /\ r \in Alive
    /\ MayFail("recheck")
    /\ faults' = faults + 1
    /\ renewing' = [renewing EXCEPT ![r] = {u \in Turns : HomeOf[u] = r /\ Listed(u)}]
    /\ watch' = [watch EXCEPT ![r] = "refresh"]
    /\ UNCHANGED <<redis, calls, tasks, stopReq, rep, awaited, late, history>>

\* Mutant of WatchRefreshes: no renewal.
WatchRenewsNothing(r) ==
    /\ watch[r] = "refresh"
    /\ r \in Alive
    /\ renewing' = [renewing EXCEPT ![r] = {}]
    /\ watch' = [watch EXCEPT ![r] = "asleep"]
    /\ UNCHANGED <<redis, calls, tasks, stopReq, rep, awaited, bounds, history>>

\* EXPIRE on the claim of every thread of the snapshot; on a key that is gone
\* it does nothing.
WatchRefreshes(r) ==
    /\ watch[r] = "refresh"
    /\ r \in Alive
    /\ LET renewed == {ThreadOf[u] : u \in renewing[r]} IN
          ttl' = [t \in Threads |-> IF t \in renewed /\ active[t] # None
                                    THEN TTL ELSE ttl[t]]
    /\ renewing' = [renewing EXCEPT ![r] = {}]
    /\ watch' = [watch EXCEPT ![r] = "asleep"]
    /\ UNCHANGED <<sent, active, last, flag, terminals, calls, tasks, stopReq>>
    /\ UNCHANGED <<rep, awaited, bounds, history>>

\* The pipeline of EXPIREs fails and the loop goes on: no claim is renewed.
WatchRefreshFails(r) ==
    /\ watch[r] = "refresh"
    /\ r \in Alive
    /\ MayFail("renew")
    /\ faults' = faults + 1
    /\ skipped' = skipped + 1
    /\ renewing' = [renewing EXCEPT ![r] = {}]
    /\ watch' = [watch EXCEPT ![r] = "asleep"]
    /\ UNCHANGED <<redis, calls, tasks, stopReq, rep, awaited, late, crossed, faded>>

-----------------------------------------------------------------------------
(* Time, shutdown and crashes.                                             *)

\* A replica keeps time when its watch loop is asleep again and its release
\* round trips are answered before the next tick.
KeepsTime(r) ==
    /\ watch[r] = "asleep"
    /\ \A u \in Turns : HomeOf[u] = r => run[u] \notin {"releasing", "unpointing"}

\* A tick is one DEFAULT_STOP_POLL_SECONDS. TTL of them stand for the fifteen
\* a claim really survives; only a stalled replica lets two pass (late).
Tick ==
    /\ IF \A r \in Alive : KeepsTime(r) THEN UNCHANGED late
       ELSE late < MaxLate /\ late' = late + 1
    /\ ttl' = [t \in Threads |-> IF ttl[t] > 0 THEN ttl[t] - 1 ELSE 0]
    /\ active' = [t \in Threads |-> IF ttl[t] <= 1 THEN None ELSE active[t]]
    /\ watch' = [r \in Replicas |->
                    IF r \in Alive /\ watch[r] = "asleep" THEN "recheck" ELSE watch[r]]
    /\ UNCHANGED <<sent, last, flag, terminals, calls, tasks, stopReq>>
    /\ UNCHANGED <<rep, renewing, awaited, faults, history>>

\* last_turn outlives the turn by TTL_MARGIN_SECONDS, which is longer than the
\* two commands of a release are apart.
PointerLapses(t) ==
    /\ t \in Fading
    /\ last[t] # None
    /\ \A u \in Turns : ThreadOf[u] = t => run[u] # "unpointing"
    /\ last' = [last EXCEPT ![t] = None]
    /\ faded' = faded \cup {t}
    /\ UNCHANGED <<sent, active, ttl, flag, terminals>>
    /\ UNCHANGED <<calls, tasks, stopReq, loops, bounds, skipped, crossed>>

\* What goes with a replica's process: its calls, its tasks, its loops.
Vanish(r) ==
    /\ call' = [u \in Turns |-> IF HomeOf[u] = r
                  /\ call[u] \in {"keyed", "duplicating", "refusing", "looking"}
                  THEN "lost" ELSE call[u]]
    /\ run' = [u \in Turns |-> IF HomeOf[u] = r /\ run[u] \notin {"none", "over"}
                               THEN "dead" ELSE run[u]]
    /\ consumer' = [u \in Turns |-> IF HomeOf[u] = r /\ Producing(u)
                                    THEN "dead" ELSE consumer[u]]
    /\ watch' = [watch EXCEPT ![r] = "asleep"]
    /\ renewing' = [renewing EXCEPT ![r] = {}]

\* drain(). The server has cancelled the requests still in flight by then
\* (--timeout-graceful-shutdown), so no begin() of this replica is halfway,
\* and a created task has had its first step.
Drain(r) ==
    /\ r \in Drainable
    /\ rep[r] = "up"
    /\ \A u \in Turns : HomeOf[u] = r => run[u] # "spawned"
    /\ rep' = [rep EXCEPT ![r] = "draining"]
    /\ LET live == {u \in Turns : HomeOf[u] = r /\ Registered(u)} IN
          /\ CancelLocal(live, "interrupted")
          /\ awaited' = awaited \cup live
    /\ call' = [u \in Turns |-> IF HomeOf[u] = r
                  /\ call[u] \in {"keyed", "duplicating", "refusing", "looking"}
                  THEN "lost" ELSE call[u]]
    /\ UNCHANGED <<redis, answer, run, stopReq, watch, renewing, bounds, skipped, faded>>

\* drain() has waited for the tasks of the drained turns, or for
\* DEFAULT_DRAIN_TIMEOUT_SECONDS; aclose() goes on and the process ends.
Exit(r) ==
    /\ rep[r] = "draining"
    /\ \/ /\ \A u \in awaited : HomeOf[u] = r => run[u] \in {"over", "raised"}
          /\ UNCHANGED faults
       \/ MayFail("drain") /\ faults' = faults + 1
    /\ rep' = [rep EXCEPT ![r] = "exited"]
    /\ Vanish(r)
    /\ UNCHANGED <<redis, answer, kind, stopReq, awaited, late, history>>

Crash(r) ==
    /\ r \in Crashable
    /\ r \in Alive
    /\ rep' = [rep EXCEPT ![r] = "crashed"]
    /\ Vanish(r)
    /\ UNCHANGED <<redis, answer, kind, stopReq, awaited, bounds, history>>

-----------------------------------------------------------------------------
TurnStep(u) ==
    \/ BeginRefused(u) \/ ClaimSend(u) \/ AnswerDuplicate(u) \/ ClaimThread(u)
    \/ ClaimLost(u) \/ ForgetSend(u) \/ AnswerAlreadyRunning(u)
    \/ RunStarts(u) \/ RunReadsFlag(u) \/ RunFlagReadFails(u)
    \/ ProduceCloses(u) \/ ProduceMarks(u) \/ ProduceReturns(u) \/ ProduceFails(u)
    \/ RunSeesEnd(u) \/ RunSeesCancel(u) \/ RunMarks(u) \/ RunMarkFails(u)
    \/ RunPoints(u) \/ RunReleases(u) \/ RunReleaseFails(u)
    \/ StopFlags(u) \/ StopAnnounces(u) \/ StopHeard(u)

ReplicaStep(r) ==
    \/ WatchRechecks(r) \/ WatchRecheckFails(r)
    \/ WatchRefreshes(r) \/ WatchRefreshFails(r)
    \/ Drain(r) \/ Exit(r) \/ Crash(r)

Next ==
    \/ \E u \in Turns : TurnStep(u)
    \/ \E r \in Replicas : ReplicaStep(r)
    \/ \E t \in Threads : PointerLapses(t)
    \/ Tick

Spec == Init /\ [][Next]_vars

\* What the event loops and Redis do by themselves. Nothing obliges a user to
\* send or to stop, a turn to come to its end, or a replica to go down.
Fairness ==
    /\ WF_vars(Tick)
    /\ \A u \in Turns :
          /\ WF_vars(RunStarts(u) \/ RunReadsFlag(u) \/ RunSeesEnd(u)
                       \/ RunSeesCancel(u) \/ RunMarks(u) \/ RunPoints(u)
                       \/ RunReleases(u))
          /\ WF_vars(ProduceMarks(u) \/ ProduceReturns(u))
    /\ \A r \in Replicas :
          /\ WF_vars(WatchRechecks(r) \/ WatchRecheckFails(r))
          /\ WF_vars(WatchRefreshes(r) \/ WatchRefreshFails(r))

FairSpec == Spec /\ Fairness

-----------------------------------------------------------------------------
(* Properties                                                              *)

\* While replicas keep time and fewer renewals fail than a claim outlives, a
\* turn that runs holds its thread's claim from begin() until it lets go: so a
\* thread never has two turns, and no release or lapse takes the claim of a turn
\* that still runs.
RunningTurnHoldsClaim ==
    late = 0 /\ skipped <= TTL - 2 =>
        \A u \in Turns : Listed(u) /\ OnLive(u) => active[ThreadOf[u]] = u

\* However its retries interleave, one send starts at most one turn.
OneTurnPerSend ==
    \A u, v \in Turns :
        /\ KeyOf[u] = KeyOf[v] /\ KeyOf[u] # None
        /\ call[u] = "started" /\ call[v] = "started"
        => u = v

\* A turn is marked stopped only if somebody asked for that, interrupted only
\* if its replica was going down. It has one ending, and if it has a second, that
\* is the mark of the one cancel that met its own ending on the wire: after the
\* XADD and before its reply.
EndingsAreHonest ==
    \A u \in Turns :
        /\ \A i \in DOMAIN terminals[u] :
              /\ terminals[u][i] = "stopped" => u \in flag
              /\ terminals[u][i] = "interrupted" => rep[HomeOf[u]] # "up"
        /\ Len(terminals[u]) > 1 =>
              u \in crossed /\ Len(terminals[u]) = 2 /\ terminals[u][1] = "done"

\* "What keeps interrupted off a turn that already ended": drain's comment says
\* that a delivered answer is never relabelled. It is, by the mark that follows a
\* drain between the ending's XADD and its reply.
DeliveredAnswersStand ==
    \A u \in Turns : \A i \in DOMAIN terminals[u] :
        terminals[u][i] = "interrupted" => i = 1

\* Once a turn is handing its thread back its log is closed: a stop or a
\* shutdown that comes later leaves the ending alone.
EndedTurnsStaySilent ==
    [][\A u \in Turns : run[u] \in {"releasing", "unpointing", "over"}
                            => terminals'[u] = terminals[u]]_vars

\* A reader that asks for the thread's turn finds one at every moment after a
\* turn began, also between the end of its claim and the next turn; only long
\* after a turn is over, when its pointer has lapsed, may there be none.
ReaderFindsTurn ==
    faults = 0 /\ late = 0 =>
        \A u \in Turns : run[u] \notin {"none", "dead"} =>
            \/ active[ThreadOf[u]] # None \/ last[ThreadOf[u]] # None
            \/ run[u] = "over" /\ ThreadOf[u] \in faded

\* A shutdown that ran to its end left every turn it found marked, and
\* handed their threads back.
DrainSaysSo ==
    faults = 0 =>
        \A u \in awaited : rep[HomeOf[u]] = "exited" =>
            terminals[u] # <<>> /\ active[ThreadOf[u]] # u

\* A stop lands, whatever the channel loses and whenever it is pressed.
StopIsCertain == \A u \in Turns : u \in flag ~> [](~Producing(u))

\* A turn that no longer produces gives its thread back, by its own release
\* or because nobody renews the claim: no thread stays wedged.
ThreadComesBack ==
    \A u \in Turns :
        \/ consumer[u] \in {"done", "failed", "cancelled", "dead"}
        \/ run[u] = "dead"
        \/ call[u] = "lost"
        ~> active[ThreadOf[u]] # u

\* One turn per send and no two live turns of a thread, although sends are
\* retried on another replica, calls and renewals fail, claims lapse and
\* replicas die.
OneTurnAtATime == TypeOK /\ RunningTurnHoldsClaim /\ OneTurnPerSend

\* A turn's marks agree with what happened to it, also when a stop, a drain and
\* its own end race, and a finished drain leaves no turn unmarked.
EndingsAreTold == EndingsAreHonest /\ DrainSaysSo

\* A pressed Stop ends the turn, and however a turn ends its thread can be
\* written to again.
TurnsLetGo == StopIsCertain /\ ThreadComesBack
=============================================================================
