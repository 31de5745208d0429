---------------------------- MODULE TurnEventLog ----------------------------
(***************************************************************************)
(* One turn's event log and one reader of it: Backend/tta_backend/         *)
(* services/turn_event_log.py with its two users in turn_registry.py, the  *)
(* consumer that writes (_produce, and _run for a stopped turn) and the    *)
(* follower that reads (follow).                                           *)
(*                                                                         *)
(* On the writing side three tasks share a lock: the producer, the flush   *)
(* timer and, after a stop, the task that marks the ending. On the other   *)
(* side a reader attaches, polls, and may go away and come back with a     *)
(* resume point it was given. A frame is the number of its emission; an    *)
(* entry's id is its place in the log, trimmed entries included. The       *)
(* closing frame travels in the terminal entry and has no number.          *)
(***************************************************************************)
EXTENDS Integers, Sequences, SequencesExt, Subsequences

CONSTANTS
    MaxFrames,      \* bound: frames the turn emits
    MaxEntries,     \* DEFAULT_MAX_ENTRIES (4000 in the code)
    MaxFaults,      \* bound: failed writes
    FaultKinds,     \* "lost": the XADD fails; "unheard": only its reply does
    MayStop,        \* whether the turn may be stopped
    MayPause        \* whether a live turn may be silent for STALE_AFTER_SECONDS

ASSUME LogAssumption ==
    /\ MaxFrames \in Nat
    /\ MaxEntries \in Nat \ {0}
    /\ MaxFaults \in Nat
    /\ FaultKinds \subseteq {"lost", "unheard"}
    /\ MayStop \in BOOLEAN
    /\ MayPause \in BOOLEAN

VARIABLES
    \* the writing replica
    alive,
    emitted,    \* how many frames the turn has emitted
    producer,   \* the _produce task
    ender,      \* the task marking a stopped turn
    buffer,     \* _buffered_text
    timer,      \* the entry of _flush_timers
    waiting,    \* tasks waiting for the lock, first come first served
    holder,     \* the task that has it
    work,       \* the entries the holder still has to write
    landed,     \* whether the first of them is in the log already
    lastId,     \* _written[turn].last_id, 0 for None
    \* Redis
    log,        \* every entry ever added
    trimmed,    \* how many of the oldest are gone
    quiet,      \* whether the last write is older than STALE_AFTER_SECONDS
    \* the reader
    at,         \* where its follow() call is
    cursor,     \* the last entry it has read
    start,      \* the resume point it attached with
    rendered,   \* frames this attachment has shown
    told,       \* the last frame of the gaps it was told of
    stored,     \* the resume point it keeps
    faults      \* bound

writer == <<alive, emitted, producer, ender, buffer, timer, waiting, holder,
            work, landed, lastId>>
redis == <<log, trimmed, quiet>>
reader == <<at, cursor, start, rendered, told, stored>>
vars == <<writer, redis, reader, faults>>

-----------------------------------------------------------------------------
Kinds == {"none", "done", "stopped"}
Frames == 1..MaxFrames

FramesUpTo(i) == UNION {Range(log[j].frames) : j \in 1..i}
LastFrame(i) == Max(FramesUpTo(i) \cup {0})

Producing == producer \in {"ready", "appending", "closing"}

\* Nothing will be written any more unless the turn resumes.
Abandoned == ~alive \/ producer = "failed" \/ ender = "failed"

TypeOK ==
    /\ alive \in BOOLEAN
    /\ emitted \in 0..MaxFrames
    /\ producer \in {"ready", "appending", "closing", "done", "failed", "cancelled"}
    /\ ender \in {"none", "marking", "done", "failed"}
    /\ buffer \in Seq(Frames)
    /\ timer \in {"none", "asleep", "due"}
    /\ waiting \in Seq({"producer", "timer", "ender"})
    /\ holder \in {"nobody", "producer", "timer", "ender"}
    /\ work \in Seq([frames : Seq(Frames), terminal : Kinds])
    /\ landed \in BOOLEAN
    /\ log \in Seq([frames : Seq(Frames), terminal : Kinds, prev : Nat])
    /\ lastId \in 0..Len(log)
    /\ trimmed \in 0..Len(log)
    /\ Len(log) - trimmed <= MaxEntries
    /\ quiet \in BOOLEAN
    /\ at \in {"away", "reading", "tail", "ended", "hungup", "stale"}
    /\ {cursor, start, stored} \subseteq 0..Len(log)
    /\ rendered \subseteq Frames
    /\ told \in 0..MaxFrames
    /\ faults \in 0..MaxFaults

Init ==
    /\ alive = TRUE
    /\ emitted = 0
    /\ producer = "ready"
    /\ ender = "none"
    /\ buffer = <<>>
    /\ timer = "none"
    /\ waiting = <<>>
    /\ holder = "nobody"
    /\ work = <<>>
    /\ landed = FALSE
    /\ lastId = 0
    /\ log = <<>>
    /\ trimmed = 0
    /\ quiet = FALSE
    /\ at = "away"
    /\ cursor = 0
    /\ start = 0
    /\ rendered = {}
    /\ told = 0
    /\ stored = 0
    /\ faults = 0

-----------------------------------------------------------------------------
(* The turn speaks.                                                        *)

\* append_text: the token is buffered, and a timer bounds its stay there.
EmitText ==
    /\ alive
    /\ producer = "ready"
    /\ emitted < MaxFrames
    /\ emitted' = emitted + 1
    /\ buffer' = Append(buffer, emitted + 1)
    /\ timer' = IF timer = "none" THEN "asleep" ELSE timer
    /\ UNCHANGED <<alive, producer, ender, waiting, holder, work, landed, lastId>>
    /\ UNCHANGED <<redis, reader, faults>>

\* append: a structural frame asks for the lock at once.
EmitFrame ==
    /\ alive
    /\ producer = "ready"
    /\ emitted < MaxFrames
    /\ emitted' = emitted + 1
    /\ producer' = "appending"
    /\ waiting' = Append(waiting, "producer")
    /\ UNCHANGED <<alive, ender, buffer, timer, holder, work, landed, lastId>>
    /\ UNCHANGED <<redis, reader, faults>>

\* The generator is exhausted with its closing frame held: mark_terminal.
Close ==
    /\ alive
    /\ producer = "ready"
    /\ producer' = "closing"
    /\ waiting' = Append(waiting, "producer")
    /\ UNCHANGED <<alive, emitted, ender, buffer, timer, holder, work, landed>>
    /\ UNCHANGED <<lastId, redis, reader, faults>>

\* consumer.cancel(), at whatever await the producer is, for a stop or for a
\* shutdown. An XADD under way may have landed; its reply is not processed.
Stop ==
    /\ alive
    /\ MayStop
    /\ Producing
    /\ producer' = "cancelled"
    /\ waiting' = Without(waiting, {"producer"})
    /\ IF holder = "producer"
       THEN holder' = "nobody" /\ work' = <<>> /\ landed' = FALSE
       ELSE UNCHANGED <<holder, work, landed>>
    /\ UNCHANGED <<alive, emitted, ender, buffer, timer, lastId>>
    /\ UNCHANGED <<redis, reader, faults>>

\* _run marks the turn it found cancelled ("stopped" stands for both kinds).
MarkStopped ==
    /\ alive
    /\ producer = "cancelled"
    /\ ender = "none"
    /\ ender' = "marking"
    /\ waiting' = Append(waiting, "ender")
    /\ UNCHANGED <<alive, emitted, producer, buffer, timer, holder, work, landed>>
    /\ UNCHANGED <<lastId, redis, reader, faults>>

\* _flush_later after its sleep.
TimerFires ==
    /\ alive
    /\ timer = "asleep"
    /\ timer' = "due"
    /\ waiting' = Append(waiting, "timer")
    /\ UNCHANGED <<alive, emitted, producer, ender, buffer, holder, work, landed>>
    /\ UNCHANGED <<lastId, redis, reader, faults>>

-----------------------------------------------------------------------------
(* The lock and the writes under it.                                       *)

Entry(frames, terminal) == [frames |-> frames, terminal |-> terminal]

\* What a task writes for itself, after the buffered text.
OwnEntries(task) ==
    CASE task = "timer" -> <<>>
      [] task = "ender" -> <<Entry(<<>>, "stopped")>>
      [] task = "producer" /\ producer = "appending" -> <<Entry(<<emitted>>, "none")>>
      [] task = "producer" /\ producer = "closing" -> <<Entry(<<>>, "done")>>

\* Mutant of TakeLock: the task's own entries overtake the buffered text,
\* which waits for its timer.
TakeLockOvertaking ==
    /\ alive
    /\ holder = "nobody" /\ waiting # <<>>
    /\ LET task == Head(waiting) IN
          /\ holder' = task
          /\ waiting' = Tail(waiting)
          /\ IF task = "timer"
             THEN work' = <<Entry(buffer, "none")>> /\ buffer' = <<>> /\ timer' = "none"
             ELSE work' = OwnEntries(task) /\ UNCHANGED <<buffer, timer>>
    /\ UNCHANGED <<alive, emitted, producer, ender, landed, lastId>>
    /\ UNCHANGED <<redis, reader, faults>>

\* The lock goes to who waited longest, and _flush_holding_lock takes the
\* buffer and cancels the timer before the first await.
TakeLock ==
    /\ alive
    /\ holder = "nobody" /\ waiting # <<>>
    /\ LET task == Head(waiting) IN
          /\ holder' = task
          /\ work' = (IF buffer = <<>> THEN <<>> ELSE <<Entry(buffer, "none")>>)
                       \o OwnEntries(task)
          /\ waiting' = Without(Tail(waiting), {"timer"})
    /\ buffer' = <<>>
    /\ timer' = "none"
    /\ UNCHANGED <<alive, emitted, producer, ender, landed, lastId>>
    /\ UNCHANGED <<redis, reader, faults>>

\* XADD with an exact MAXLEN: the oldest entries go as the new one comes.
Land ==
    /\ alive
    /\ holder # "nobody" /\ ~landed
    /\ log' = Append(log, [frames |-> Head(work).frames,
                           terminal |-> Head(work).terminal,
                           prev |-> lastId])
    /\ trimmed' = Max({trimmed, Len(log) + 1 - MaxEntries})
    /\ quiet' = FALSE
    /\ landed' = TRUE
    /\ UNCHANGED <<alive, emitted, producer, ender, buffer, timer, waiting>>
    /\ UNCHANGED <<holder, work, lastId, reader, faults>>

\* The task with the lock is through with its writes.
HolderLeaves(outcome) ==
    /\ holder' = "nobody"
    /\ work' = <<>>
    /\ landed' = FALSE
    /\ producer' = IF holder = "producer" THEN outcome ELSE producer
    /\ ender' = IF holder = "ender" THEN outcome ELSE ender

\* The reply gives the entry's id. mark_terminal drops the turn's record.
Acknowledge ==
    /\ alive
    /\ holder # "nobody" /\ landed
    /\ lastId' = IF Head(work).terminal = "none" THEN Len(log) ELSE 0
    /\ IF Len(work) > 1
       THEN /\ work' = Tail(work)
            /\ landed' = FALSE
            /\ UNCHANGED <<holder, producer, ender>>
       ELSE HolderLeaves(IF producer = "appending" /\ holder = "producer"
                         THEN "ready" ELSE "done")
    /\ UNCHANGED <<alive, emitted, buffer, timer, waiting, redis, reader, faults>>

\* The round trip raises. A producer or an ender raises with it; the timer's
\* failure is logged. Whatever was still to be written is gone.
WriteFails ==
    /\ alive
    /\ holder # "nobody"
    /\ (IF landed THEN "unheard" ELSE "lost") \in FaultKinds
    /\ faults < MaxFaults
    /\ faults' = faults + 1
    /\ HolderLeaves("failed")
    /\ UNCHANGED <<alive, emitted, buffer, timer, waiting, lastId, redis, reader>>

Crash ==
    /\ alive
    /\ alive' = FALSE
    /\ UNCHANGED <<emitted, producer, ender, buffer, timer, waiting, holder>>
    /\ UNCHANGED <<work, landed, lastId, redis, reader, faults>>

\* STALE_AFTER_SECONDS without a write. The heartbeats of a live turn are
\* among its frames, so only a turn that pauses or is abandoned lets it pass.
TimePasses ==
    /\ ~quiet
    /\ Abandoned \/ MayPause
    /\ quiet' = TRUE
    /\ UNCHANGED <<writer, log, trimmed, reader, faults>>

-----------------------------------------------------------------------------
(* follow()                                                                *)

\* A tab attaches, from the beginning or from the resume point it kept. On an
\* empty log the silence is measured from now.
Attach ==
    /\ at \in {"away", "hungup", "stale"}
    /\ \E from \in {0, stored} : start' = from /\ cursor' = from
    /\ at' = "reading"
    /\ rendered' = {}
    /\ told' = 0
    /\ quiet' = (quiet /\ log # <<>>)
    /\ UNCHANGED <<log, trimmed, stored, writer, faults>>

Detach ==
    /\ at \in {"reading", "tail"}
    /\ at' = "away"
    /\ UNCHANGED <<cursor, start, rendered, told, stored, redis, writer, faults>>

\* The first entry an XRANGE after the cursor returns, if there is one.
First == Max({cursor, trimmed}) + 1

\* Mutant of Truncated: measured against the beginning of the log.
TruncatedFromStart == First <= Len(log) /\ log[First].prev > 0 /\ cursor = 0

\* read: its predecessor is newer than the cursor only if it is gone.
Truncated == First <= Len(log) /\ log[First].prev > cursor

\* The client keeps each resume point it is given, or only some
\* (CURSOR_PERSIST_MS).
Keeps(c) == \/ stored' = c
            \/ UNCHANGED stored

\* Everything after the cursor, and the ending or a new resume point with it.
\* An empty page is followed by a look at the tail.
ReadPage ==
    LET page == First..Len(log)
        ends == \E i \in page : log[i].terminal # "none"
    IN
    /\ at = "reading"
    /\ cursor' = Max({cursor, Len(log)})
    /\ rendered' = rendered \cup UNION {Range(log[i].frames) : i \in page}
    /\ told' = IF Truncated THEN LastFrame(First - 1) ELSE told
    /\ IF ends \/ page = {} THEN UNCHANGED stored ELSE Keeps(cursor')
    /\ at' = IF ends THEN "ended"
             ELSE IF page = {} THEN "tail" ELSE "reading"
    /\ UNCHANGED <<start, writer, redis, faults>>

\* Mutant of ReadTail: silence is not measured.
ReadTailForEver ==
    /\ at = "tail"
    /\ at' = IF log # <<>> /\ Last(log).terminal # "none" THEN "hungup" ELSE "reading"
    /\ UNCHANGED <<cursor, start, rendered, told, stored, writer, redis, faults>>

\* tail: a separate round trip, on the last entry there is by then.
ReadTail ==
    /\ at = "tail"
    /\ at' = IF log # <<>> /\ Last(log).terminal # "none" THEN "hungup"
             ELSE IF quiet THEN "stale" ELSE "reading"
    /\ UNCHANGED <<cursor, start, rendered, told, stored, writer, redis, faults>>

-----------------------------------------------------------------------------
WriterStep ==
    \/ EmitText \/ EmitFrame \/ Close \/ Stop \/ MarkStopped \/ TimerFires
    \/ TakeLock \/ Land \/ Acknowledge \/ WriteFails \/ Crash

ReaderStep == Attach \/ Detach \/ ReadPage \/ ReadTail

Next == WriterStep \/ ReaderStep \/ TimePasses

Spec == Init /\ [][Next]_vars

\* The event loops and Redis go on. Nobody is obliged to speak, to close, to
\* attach, to stop, or to crash.
Fairness ==
    /\ WF_vars(TimerFires)
    /\ WF_vars(TakeLock)
    /\ WF_vars(Land)
    /\ WF_vars(Acknowledge)
    /\ WF_vars(MarkStopped)
    /\ WF_vars(TimePasses)
    /\ WF_vars(ReadPage \/ ReadTail)

FairSpec == Spec /\ Fairness

-----------------------------------------------------------------------------
(* Properties                                                              *)

\* A structural frame never overtakes the text before it, whichever of the
\* timer, the producer and the ender wrote them: the log is in the order the
\* turn spoke.
LogKeepsOrder ==
    /\ \A i \in DOMAIN log : \A p, q \in DOMAIN log[i].frames :
          p < q => log[i].frames[p] < log[i].frames[q]
    /\ \A i, j \in DOMAIN log : \A f \in Range(log[i].frames), g \in Range(log[j].frames) :
          i < j => f < g

\* A turn that ended by itself has written all it said.
NothingLeftBehind ==
    faults = 0 /\ producer = "done" => FramesUpTo(Len(log)) = 1..emitted

\* A reader is shown everything between its resume point and where it is, or
\* is told that some of it is gone.
GapsAreTold ==
    \A f \in FramesUpTo(cursor) \ FramesUpTo(start) : f \in rendered \/ f <= told

\* No resume point lies at or past an ending, where a reader coming back would
\* find neither frames nor an ending.
ResumePointsPrecedeEnding ==
    \A i \in DOMAIN log : log[i].terminal # "none" => stored < i

\* Buffered text gets out, written or lost with a failed write, also when the
\* turn says nothing more for as long as it likes.
TextGetsOut == buffer # <<>> ~> buffer = <<>> \/ ~alive

\* Once a turn is over, in whatever way and marked or not, its follower ends.
FollowerEnds ==
    /\ at = "reading"
    /\ ~alive \/ producer \in {"closing", "done", "failed", "cancelled"}
    ~> at \notin {"reading", "tail"}

\* The stream is the turn in the order it spoke, text included, and nothing the
\* turn said stays behind in the buffer when it has ended.
LogIsTheTurn == TypeOK /\ LogKeepsOrder /\ NothingLeftBehind

\* A reader that leaves and comes back knows of everything it missed, and never
\* comes back to a place beyond the ending.
ReadersMissNothing == GapsAreTold /\ ResumePointsPrecedeEnding

\* Buffered text gets out and a reader of an ended turn is released.
LogDrains == TextGetsOut /\ FollowerEnds
=============================================================================
