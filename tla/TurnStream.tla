----------------------------- MODULE TurnStream -----------------------------
(***************************************************************************)
(* One chat turn as the client hears it: chat_stream_service.py's two      *)
(* routes over utils/streaming.py.                                         *)
(*                                                                         *)
(* On the supervisor's route the agent's task feeds the queue that the     *)
(* turn reads.  On the fast path a runner task does; for the satellite     *)
(* agent it forwards what it reads from a stream of its own, the ground    *)
(* agent says nothing before its result.  The turn is an asynchronous      *)
(* generator: a frame it yields is appended to the log by the task that    *)
(* drives it (turn_registry._produce), and that task may be cancelled, by  *)
(* a Stop or by the turn's own deadline, while the generator waits for the *)
(* frame to be taken.                                                      *)
(*                                                                         *)
(* An item is [kind, name, status]; a "draft" is a chart still to be       *)
(* stored, and "back" the write into the supervisor's thread.  Time is in  *)
(* ticks of HEARTBEAT_CHECK_SECONDS.                                       *)
(***************************************************************************)
EXTENDS Integers, Sequences, FiniteSets, SequencesExt, Subsequences

CONSTANTS
    Jobs,
    Charts,
    Interval,       \* HEARTBEAT_INTERVAL_SECONDS
    Deadline,       \* chat_turn_timeout_seconds
    MaxEvents,      \* bound: events the agent publishes
    MaxStoreFaults  \* bound: charts the database refuses

ASSUME TurnStreamAssumption ==
    /\ Interval \in Nat \ {0} /\ Deadline \in Nat \ {0}
    /\ MaxEvents \in Nat /\ MaxStoreFaults \in Nat

VARIABLES
    route,
    agent, runner,      \* the two tasks: "none", "running", "done", "stopped"
    timers,             \* the live ones of "watchdog", "heartbeat"
    stream,             \* stream_response's queue inside the runner
    queue,              \* the queue the turn reads
    streamIdle, idle,   \* ticks since each timer saw activity
    clock,
    phase,              \* "loop", "tail", "failing"; "ended", "stopped", "dead"
    todo,               \* what the turn still does with the item it took
    result,             \* the runner's result was taken
    seen,               \* charts the runner's result lists, in order
    known,              \* job_statuses
    emitted,            \* emitted_chart_ids
    named,              \* jobs the timeout answer says are still running
    log,                \* frames the driver has appended
    spoken,             \* what the agent published
    quiet,              \* ticks the client heard nothing while the turn waited
    storeFaults

tasksOf == <<agent, runner, timers>>
queues == <<stream, queue>>
time == <<streamIdle, idle, clock, quiet>>
turnOf == <<phase, todo, result, known, emitted, named>>
streamVars == <<route, tasksOf, queues, time, turnOf, seen, log, spoken, storeFaults>>

Fast == route \in {"ground", "satellite"}
Item(kind, name, status) == [kind |-> kind, name |-> name, status |-> status]
Plain(kind) == Item(kind, "none", "none")
Frames == {"status", "job", "chart", "text", "error", "done"}
Over == phase \in {"ended", "stopped", "dead"}

StreamTypeOK ==
    /\ route \in {"ground", "satellite", "supervisor"}
    /\ agent \in {"none", "running", "done", "stopped"}
    /\ runner \in {"none", "running", "done", "stopped"}
    /\ timers \subseteq {"watchdog", "heartbeat"}
    /\ clock \in 0 .. Deadline
    /\ phase \in {"loop", "tail", "failing", "ended", "stopped", "dead"}
    /\ result \in BOOLEAN
    /\ known \in [Jobs -> {"none", "running", "ready"}]
    /\ emitted \subseteq Charts
    /\ named \subseteq Jobs
    /\ \A i \in DOMAIN log : log[i].kind \in Frames

StreamInit ==
    /\ route \in {"ground", "satellite", "supervisor"}
    /\ agent = IF route = "ground" THEN "none" ELSE "running"
    /\ runner = IF Fast THEN "running" ELSE "none"
    /\ timers = (IF route = "ground" THEN {} ELSE {"watchdog"})
                \cup (IF Fast THEN {"heartbeat"} ELSE {})
    /\ stream = <<>> /\ queue = <<>>
    /\ streamIdle = 0 /\ idle = 0 /\ clock = 0 /\ quiet = 0
    /\ phase = "loop" /\ todo = <<>> /\ result = FALSE
    /\ seen = <<>> /\ known = [j \in Jobs |-> "none"] /\ emitted = {} /\ named = {}
    /\ log = <<>> /\ spoken = <<>> /\ storeFaults = 0

-----------------------------------------------------------------------------
(* The agent and the runner. *)

\* Where stream_response puts its items.
Feeds(items) ==
    IF route = "satellite" THEN stream' = stream \o items /\ UNCHANGED queue
    ELSE queue' = queue \o items /\ UNCHANGED stream

\* publish and its kin: a job's progress, a chart, a piece of text.
Publishes(item) ==
    /\ agent = "running" /\ Len(spoken) < MaxEvents
    /\ Feeds(<<item>>)
    /\ spoken' = Append(spoken, item)
    /\ streamIdle' = 0
    /\ UNCHANGED <<route, tasksOf, idle, clock, quiet, turnOf, seen, log, storeFaults>>

StatusNow(j) == LET said == SelectSeq(spoken, LAMBDA e : e.kind = "job" /\ e.name = j)
                IN  IF said = <<>> THEN "none" ELSE Last(said).status

Speaks ==
    \/ \E j \in Jobs : \/ StatusNow(j) = "none" /\ Publishes(Item("job", j, "running"))
                       \/ StatusNow(j) = "running" /\ Publishes(Item("job", j, "ready"))
    \/ \E c \in Charts : Item("draft", c, "none") \notin ToSet(spoken)
                         /\ Publishes(Item("draft", c, "none"))
    \/ Publishes(Plain("text"))

\* produce ends: its sentinel, after the exception it may have met, here one of
\* its own or admission's refusal.
AgentEnds ==
    /\ agent = "running"
    /\ \E why \in {"none", "failed", "overloaded"} :
          Feeds((IF why = "none" THEN <<>> ELSE <<Item("error", why, "none")>>) \o <<Plain("last")>>)
    /\ agent' = "done"
    /\ UNCHANGED <<route, runner, timers, time, turnOf, seen, log, spoken, storeFaults>>

\* A result, or what was raised outside the run's own handlers.
Outcomes == {<<Plain("result")>>, <<Item("error", "failed", "none")>>}
RunnerEnds(items) ==
    /\ queue' = queue \o items \o <<Plain("last")>>
    /\ runner' = "done"

\* run_satellite's loop: everything goes on to the turn, and charts are
\* gathered for the result besides.
RunnerForwards ==
    /\ runner = "running" /\ stream # <<>> /\ Head(stream).kind \notin {"last", "error"}
    /\ stream' = Tail(stream)
    /\ queue' = Append(queue, Head(stream))
    /\ seen' = IF Head(stream).kind = "draft" THEN Append(seen, Head(stream)) ELSE seen
    /\ UNCHANGED <<route, tasksOf, time, turnOf, log, spoken, storeFaults>>

\* The stream ended, or raised, which run_satellite answers for itself.
RunnerFinishes ==
    /\ runner = "running" /\ route = "satellite"
    /\ stream # <<>> /\ Head(stream).kind \in {"last", "error"}
    /\ stream' = <<>> /\ timers' = timers \ {"watchdog"}
    /\ \E outcome \in Outcomes : RunnerEnds(outcome)
    /\ UNCHANGED <<route, agent, time, turnOf, seen, log, spoken, storeFaults>>

\* The ground agent answered.
RunnerReturns ==
    /\ runner = "running" /\ route = "ground"
    /\ \E outcome \in Outcomes : RunnerEnds(outcome)
    /\ UNCHANGED <<route, agent, timers, stream, time, turnOf, seen, log, spoken, storeFaults>>

-----------------------------------------------------------------------------
(* The turn. *)

\* Mutant of StopsAll.
StopsTimers == timers' = {} /\ UNCHANGED <<agent, runner>>
\* The tasks the turn's finally blocks cancel.
StopsAll ==
    /\ agent' = IF agent = "running" THEN "stopped" ELSE agent
    /\ runner' = IF runner = "running" THEN "stopped" ELSE runner
    /\ timers' = {}

\* The jobs not yet in a terminal state.
Running(statuses) == {j \in Jobs : statuses[j] = "running"}

\* Mutant of Failing.
FailingOnward(why) ==
    /\ phase' = "tail" /\ named' = {}
    /\ todo' = <<Item("error", why, "none"), Plain("text"), Plain("done")>>
\* _failure_events: the closing frames of a turn that raised.
Failing(why) ==
    /\ phase' = "failing"
    /\ todo' = <<Item("error", why, "none")>> \o (IF why = "failed" THEN <<>> ELSE <<Plain("done")>>)
    /\ named' = IF why = "timeout" THEN Running(known) ELSE {}

\* The next item is a piece of news for the client, handed on as it is.
TakesNews ==
    /\ phase = "loop" /\ todo = <<>> /\ queue # <<>>
    /\ LET item == Head(queue) IN
       /\ item.kind \in {"status", "job", "draft", "text"}
       /\ todo' = IF Fast /\ item.kind = "text" THEN <<>> ELSE <<item>>
       /\ known' = IF item.kind = "job" THEN [known EXCEPT ![item.name] = item.status] ELSE known
    /\ queue' = Tail(queue) /\ idle' = 0
    /\ UNCHANGED <<route, tasksOf, stream, streamIdle, clock, quiet, phase, result, seen,
                   emitted, named, log, spoken, storeFaults>>

TakesResult ==
    /\ phase = "loop" /\ todo = <<>> /\ queue # <<>> /\ Head(queue).kind = "result"
    /\ queue' = Tail(queue) /\ idle' = 0 /\ result' = TRUE
    /\ UNCHANGED <<route, tasksOf, stream, streamIdle, clock, quiet, phase, todo, seen, known,
                   emitted, named, log, spoken, storeFaults>>

TakesError ==
    /\ phase = "loop" /\ todo = <<>> /\ queue # <<>> /\ Head(queue).kind = "error"
    /\ Failing(Head(queue).name)
    /\ queue' = Tail(queue) /\ idle' = 0
    /\ StopsAll
    /\ UNCHANGED <<route, stream, streamIdle, clock, quiet, result, seen, known, emitted, log,
                   spoken, storeFaults>>

\* The loop ends.  The fast path has its result's charts, text and checkpoint
\* still to do, outside the deadline and the except block.
TakesLast ==
    /\ phase = "loop" /\ todo = <<>> /\ queue # <<>> /\ Head(queue).kind = "last"
    /\ phase' = "tail"
    /\ todo' = (IF Fast THEN seen \o <<Plain("text"), Plain("back")>> ELSE <<>>)
               \o <<Plain("done")>>
    /\ queue' = Tail(queue) /\ idle' = 0
    /\ StopsAll
    /\ UNCHANGED <<route, stream, streamIdle, clock, quiet, result, seen, known, emitted, named,
                   log, spoken, storeFaults>>

Doing(kind) == ~Over /\ todo # <<>> /\ Head(todo).kind = kind

\* _emit_chart_once, when the database takes the chart.
Stores ==
    /\ Doing("draft")
    /\ LET c == Head(todo).name IN
       /\ todo' = (IF c \in emitted THEN <<>> ELSE <<Item("chart", c, "none")>>) \o Tail(todo)
       /\ emitted' = emitted \cup {c}
    /\ UNCHANGED <<route, tasksOf, queues, time, phase, result, seen, known, named, log, spoken,
                   storeFaults>>

\* It does not.  In the tail of the fast path nothing catches that; in the
\* supervisor's loop the agent's stream is left for the collector.
StoreFails ==
    /\ Doing("draft") \/ (Doing("back") /\ seen # <<>>)
    /\ Head(todo).name \notin emitted
    /\ storeFaults < MaxStoreFaults /\ storeFaults' = storeFaults + 1
    /\ IF Fast /\ phase = "tail"
       THEN phase' = "dead" /\ todo' = <<>> /\ UNCHANGED <<named, tasksOf>>
       ELSE Failing("failed") /\ IF Fast THEN StopsAll ELSE UNCHANGED tasksOf
    /\ UNCHANGED <<route, queues, time, result, seen, known, emitted, log, spoken>>

\* _write_back_turn succeeds, or fails where it swallows the failure.
WritesBack ==
    /\ Doing("back")
    /\ todo' = Tail(todo)
    /\ UNCHANGED <<route, tasksOf, queues, time, phase, result, seen, known, emitted, named, log,
                   spoken, storeFaults>>

\* The driver appends the frame and asks for the next.
Appends ==
    /\ ~Over /\ todo # <<>> /\ Head(todo).kind \in Frames
    /\ log' = Append(log, Head(todo))
    /\ todo' = Tail(todo)
    /\ quiet' = 0
    /\ phase' = IF Tail(todo) = <<>> /\ phase \in {"tail", "failing"} THEN "ended" ELSE phase
    /\ UNCHANGED <<route, tasksOf, queues, streamIdle, idle, clock, result, seen, known, emitted,
                   named, spoken, storeFaults>>

\* Inside the generator a cancellation finds a get, a store or the write-back.
Inside == todo = <<>> \/ Head(todo).kind \in {"draft", "back"}
\* The finally blocks run at once when the cancellation meets the generator that
\* has them.
Unwinds == IF Inside /\ (Fast \/ todo = <<>>) THEN StopsAll ELSE UNCHANGED tasksOf
\* asyncio.timeout's block.
Guarded == phase = "loop" \/ (~Fast /\ phase = "tail")

\* The deadline cancels the task that drives the turn.  Caught inside the block
\* it becomes the timeout answer; caught in the driver's append it ends the
\* driver, and the generator is left for the collector.
DeadlineFires ==
    /\ Guarded /\ clock = Deadline
    /\ IF Inside THEN Failing("timeout") ELSE phase' = "dead" /\ todo' = <<>> /\ UNCHANGED named
    /\ Unwinds
    /\ UNCHANGED <<route, queues, time, result, seen, known, emitted, log, spoken, storeFaults>>

\* A Stop or a shutdown cancels it too; neither is an Exception.
Cancelled ==
    /\ ~Over
    /\ phase' = "stopped" /\ todo' = <<>>
    /\ Unwinds
    /\ UNCHANGED <<route, queues, time, result, seen, known, emitted, named, log, spoken,
                   storeFaults>>

\* The interpreter closes a generator nobody holds.
Collects ==
    /\ Over \/ (phase = "failing" /\ ~Fast)
    /\ "running" \in {agent, runner} \/ timers # {}
    /\ StopsAll
    /\ UNCHANGED <<route, queues, time, turnOf, seen, log, spoken, storeFaults>>

-----------------------------------------------------------------------------
(* Time: one check of each timer. *)

Waiting == phase = "loop" /\ todo = <<>>
Settled == stream = <<>> /\ ~(Waiting /\ queue # <<>>)

\* Long enough a silence for a word that the turn still works.
Beats(silence) == silence >= Interval

Ticks ==
    /\ Settled /\ clock < Deadline /\ ~Over
    /\ clock' = clock + 1
    /\ LET watch == "watchdog" \in timers /\ Beats(streamIdle + 1)
           heart == "heartbeat" \in timers /\ Beats(idle + 1)
           ofWatch == IF watch THEN <<Plain("status")>> ELSE <<>>
           ofHeart == IF heart THEN <<Plain("status")>> ELSE <<>>
       IN  /\ streamIdle' = IF watch THEN 0 ELSE streamIdle + 1
           /\ stream' = IF route = "satellite" THEN stream \o ofWatch ELSE stream
           /\ queue' = queue \o ofHeart \o (IF route = "satellite" THEN <<>> ELSE ofWatch)
    /\ idle' = idle + 1
    /\ quiet' = IF Waiting THEN quiet + 1 ELSE quiet
    /\ UNCHANGED <<route, tasksOf, turnOf, seen, log, spoken, storeFaults>>

TurnMoves ==
    \/ TakesNews \/ TakesResult \/ TakesError \/ TakesLast \/ Stores \/ WritesBack \/ Appends
    \/ DeadlineFires
RunnerMoves == RunnerForwards \/ RunnerFinishes
StreamNext ==
    \/ Speaks \/ AgentEnds \/ RunnerMoves \/ RunnerReturns
    \/ TurnMoves \/ StoreFails \/ Cancelled \/ Collects \/ Ticks
StreamSpec == StreamInit /\ [][StreamNext]_streamVars

\* The loop runs what is ready and time passes; what the agent does, and how
\* long it takes, is nobody's promise.
StreamFairness ==
    /\ WF_streamVars(TurnMoves) /\ WF_streamVars(RunnerMoves)
    /\ WF_streamVars(Collects) /\ WF_streamVars(Ticks)

-----------------------------------------------------------------------------
(* Properties. *)

KindsIn(s) == {s[i].kind : i \in DOMAIN s}
Only(s, kind) == Subsequence(s, {i \in 1 .. Len(s) : s[i].kind = kind})

\* The client never reads past an ending: done is the last frame and nothing
\* but done follows an error, though beats, events and charts were queued.
EndingsClose ==
    \A i \in DOMAIN log :
        /\ log[i].kind = "done" => i = Len(log)
        /\ log[i].kind = "error" => KindsIn(SubSeq(log, i + 1, Len(log))) \subseteq {"done"}

\* A turn that closes without an error has told every job event the agent
\* published, in order, and shown each chart exactly once, whether it came
\* live, with the result or both.
AnswersAreComplete ==
    "done" \in KindsIn(log) /\ "error" \notin KindsIn(log)
        => /\ (Fast => result)
           /\ Only(log, "job") = Only(spoken, "job")
           /\ \A c \in Charts :
                 Cardinality({i \in DOMAIN log : log[i] = Item("chart", c, "none")})
                     = (IF Item("draft", c, "none") \in ToSet(spoken) THEN 1 ELSE 0)

\* The timeout answer calls exactly those jobs running that the client was last
\* told are running.
ToldRunning(j, frames) ==
    \E i \in DOMAIN frames :
        /\ frames[i] = Item("job", j, "running")
        /\ \A k \in DOMAIN frames : k > i /\ frames[k].kind = "job" => frames[k].name # j
TimeoutNamesJobs ==
    Item("error", "timeout", "none") \in ToSet(log) =>
        named = {j \in Jobs : ToldRunning(j, log)}

\* A client of a turn that waits for its agent is never left without a word for
\* longer than the interval.  (The satellite fast path is not so kind: text
\* the turn takes and does not forward puts the next beat off.)
BeatsCoverSilence == route # "satellite" => quiet <= Interval

\* Only two things end a turn without a word: its deadline passing while its
\* driver appends a frame, and the fast path's answer failing to be stored.
UntoldEndingsAreTwo ==
    phase \in {"ended", "dead"} /\ (log = <<>> \/ Last(log).kind \notin {"done", "error"})
        => clock = Deadline \/ (Fast /\ storeFaults > 0)

\* Whatever ends a turn, nothing of it runs on for good.
TasksStop ==
    Over ~> ("running" \notin {agent, runner} /\ timers = {})

\* A turn ends although its agent may never answer.
TurnStops == <>Over

\* What the client hears of a turn: an ending closes it, an answer without error
\* is complete, a timeout names the jobs still running, silence is broken in
\* time, and only two things end a turn without a word.
EndingsAreWhole ==
    /\ StreamTypeOK /\ EndingsClose /\ AnswersAreComplete /\ TimeoutNamesJobs
    /\ BeatsCoverSilence /\ UntoldEndingsAreTwo
=============================================================================
