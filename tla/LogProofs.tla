----------------------------- MODULE LogProofs -----------------------------
EXTENDS TurnEventLog, SubsequenceProofs, SequenceTheorems

(***************************************************************************)
(* One turn's event log (TurnEventLog): the inductive invariant.           *)
(***************************************************************************)

Tasks == {"producer", "timer", "ender"}
Ascending(frames) == \A p, q \in DOMAIN frames : p < q => frames[p] < frames[q]
Works == [frames : Seq(Frames), terminal : Kinds]
Entries == [frames : Seq(Frames), terminal : Kinds, prev : Nat]

LogTypes ==
    /\ alive \in BOOLEAN /\ emitted \in 0 .. MaxFrames
    /\ producer \in {"ready", "appending", "closing", "done", "failed", "cancelled"}
    /\ ender \in {"none", "marking", "done", "failed"}
    /\ buffer \in Seq(Frames) /\ timer \in {"none", "asleep", "due"}
    /\ waiting \in Seq(Tasks) /\ holder \in Tasks \cup {"nobody"}
    /\ work \in Seq(Works) /\ landed \in BOOLEAN
    /\ log \in Seq(Entries) /\ lastId \in 0 .. Len(log)
    /\ trimmed \in 0 .. Len(log) /\ (trimmed = 0 \/ trimmed <= Len(log) - MaxEntries)
    /\ Len(log) - trimmed <= MaxEntries
    /\ quiet \in BOOLEAN /\ at \in {"away", "reading", "tail", "ended", "hungup", "stale"}
    /\ cursor \in 0 .. Len(log) /\ start \in 0 .. Len(log) /\ stored \in 0 .. Len(log)
    /\ rendered \subseteq Frames /\ told \in 0 .. MaxFrames /\ faults \in 0 .. MaxFaults

\* A task waits for the lock when, and only when, it has something to write and
\* does not hold it; who ends the turn took the buffered text along.
TaskInv ==
    /\ IsInjective(waiting)
    /\ "producer" \in ToSet(waiting) <=> producer \in {"appending", "closing"} /\ holder # "producer"
    /\ "ender" \in ToSet(waiting) <=> ender = "marking" /\ holder # "ender"
    /\ "timer" \in ToSet(waiting) <=> timer = "due"
    /\ holder = "producer" => producer \in {"appending", "closing"}
    /\ holder = "ender" => ender = "marking"
    /\ ender # "none" => producer = "cancelled"
    /\ buffer = << >> <=> timer = "none"
    /\ \/ holder \in {"producer", "ender"} \/ producer \in {"done", "failed"} \/ ender \in {"done", "failed"}
       => buffer = << >>
    /\ producer \in {"done", "failed"} \/ ender \in {"done", "failed"} => holder = "nobody"

\* The entries the holder has still to add.
Open == {i \in DOMAIN work : landed => i # 1}
WorkInv ==
    /\ holder = "nobody" <=> work = << >>
    /\ landed => work # << >>
    /\ \A i \in DOMAIN work : work[i].terminal # "none" =>
          i = Len(work) /\ holder # "timer" /\ (holder = "producer" => producer = "closing")
    /\ holder = "ender" \/ (holder = "producer" /\ producer = "closing")
         => work[Len(work)].terminal # "none"

\* What is said is on its way in the order it was said: first the log, then the
\* work, the buffer, and the frame the producer waits to append.
InLog(f) == \E i \in DOMAIN log : f \in Range(log[i].frames)
InWork(f) == \E i \in Open : f \in Range(work[i].frames)
InBuffer(f) == f \in Range(buffer)
Pending == IF producer = "appending" /\ holder # "producer" THEN {emitted} ELSE {}

LogAscends ==
    /\ \A i \in DOMAIN log : Ascending(log[i].frames)
    /\ \A i, j \in DOMAIN log : \A f \in Range(log[i].frames), g \in Range(log[j].frames) : i < j => f < g
WorkAscends ==
    /\ \A i \in Open : Ascending(work[i].frames)
    /\ \A i, j \in Open : \A f \in Range(work[i].frames), g \in Range(work[j].frames) : i < j => f < g
OneAfterAnother ==
    \A f, g \in Frames : /\ InLog(f) /\ InWork(g) => f < g
                         /\ InLog(f) /\ InBuffer(g) => f < g
                         /\ InWork(f) /\ InBuffer(g) => f < g
OrderInv == LogAscends /\ WorkAscends /\ Ascending(buffer) /\ OneAfterAnother

\* Nothing is said before it is emitted, and all that is emitted is somewhere.
EmittedInv ==
    /\ producer = "appending" => emitted # 0
    /\ \A f \in Frames : InLog(f) \/ InWork(f) \/ InBuffer(f) => f <= emitted /\ f \notin Pending
WholeInv ==
    faults = 0 /\ producer # "cancelled" =>
        \A f \in 1 .. emitted : InLog(f) \/ InWork(f) \/ InBuffer(f) \/ f \in Pending

\* After an ending come only endings.
EndInv ==
    /\ \A i, j \in DOMAIN log : i < j /\ log[i].terminal # "none" => log[j].terminal # "none"
    /\ \A i \in DOMAIN log : log[i].terminal # "none" =>
          /\ stored < i /\ buffer = << >> /\ producer \notin {"ready", "appending"}
          /\ \A k \in Open : work[k].terminal # "none"

\* Every entry knows the one before it, but for the ending of a turn that was
\* stopped while it was being told of one.
Linked == IF landed THEN lastId + 1 = Len(log) ELSE lastId = Len(log)
LastWords == holder = "ender" /\ Len(work) = 1
Over == producer = "done" \/ ender \in {"done", "failed"}
ChainInv ==
    /\ \/ Linked \/ Over \/ LastWords
       \/ producer = "cancelled" /\ buffer = << >> /\ holder = "nobody"
    /\ \A j \in DOMAIN log : log[j].prev # j - 1 =>
          j = Len(log) /\ (ender \in {"done", "failed"} \/ (LastWords /\ landed))
ReaderInv ==
    /\ told = 0 \/ told \in FramesUpTo(cursor)
    /\ \A f \in FramesUpTo(cursor) \ FramesUpTo(start) : f \in rendered \/ f <= told

-----------------------------------------------------------------------------
(* What the steps do to the queue, the work and the log. *)

LEMMA LogConstants ==
    MaxFrames \in Nat /\ MaxEntries \in Nat /\ 1 <= MaxEntries /\ MaxFaults \in Nat
  BY LogAssumption

LEMMA MaxOfTwo ==
    ASSUME NEW a \in Int, NEW b \in Int
    PROVE  Max({a, b}) = IF a >= b THEN a ELSE b
  BY DEF Max

\* Sequences of one element and of two.
LEMMA ShortSequences ==
    ASSUME NEW S, NEW a \in S, NEW b \in S
    PROVE  /\ <<a>> \in Seq(S) /\ Len(<<a>>) = 1 /\ <<a>>[1] = a /\ DOMAIN <<a>> = {1}
           /\ << >> \o <<a>> = <<a>> /\ <<a>> \o << >> = <<a>>
           /\ <<a>> \o <<b>> \in Seq(S) /\ Len(<<a>> \o <<b>>) = 2
           /\ (<<a>> \o <<b>>)[1] = a /\ (<<a>> \o <<b>>)[2] = b
<1>1. <<a>> \in Seq(S) /\ Len(<<a>>) = 1 /\ <<a>>[1] = a /\ DOMAIN <<a>> = {1}
  OBVIOUS
<1>2. <<b>> \in Seq(S) /\ Len(<<b>>) = 1 /\ <<b>>[1] = b
  OBVIOUS
<1>3. << >> \o <<a>> = <<a>> /\ <<a>> \o << >> = <<a>>
  OBVIOUS
<1> DEFINE A == <<a>>
           B == <<b>>
<1> HIDE DEF A, B
<1>4. /\ A \o B \in Seq(S) /\ Len(A \o B) = 1 + 1
      /\ \A i \in 1 .. 1 + 1 : (A \o B)[i] = IF i <= 1 THEN A[i] ELSE B[i - 1]
  BY <1>1, <1>2, ConcatProperties DEF A, B
<1>5. (A \o B)[1] = A[1] /\ (A \o B)[2] = B[1]
  BY <1>4
<1> QED
  BY <1>1, <1>2, <1>3, <1>4, <1>5 DEF A, B

LEMMA EntryTypes ==
    ASSUME LogTypes
    PROVE  /\ Entry(buffer, "none") \in Works /\ Entry(<< >>, "stopped") \in Works
           /\ Entry(<< >>, "done") \in Works
           /\ emitted # 0 => Entry(<<emitted>>, "none") \in Works /\ <<emitted>> \in Seq(Frames)
           /\ Range(<<emitted>>) = {emitted} /\ Range(<< >>) = {}
           /\ Ascending(<<emitted>>) /\ Ascending(<< >>)
<1>1. emitted # 0 => emitted \in Frames
  BY LogConstants DEF LogTypes, Frames
<1>2. emitted # 0 => <<emitted>> \in Seq(Frames)
  BY <1>1
<1>3. << >> \in Seq(Frames) /\ buffer \in Seq(Frames)
  BY DEF LogTypes
<1>4. Range(<<emitted>>) = {emitted} /\ Range(<< >>) = {} /\ Ascending(<<emitted>>) /\ Ascending(<< >>)
  BY DEF Range, Ascending
<1> QED
  BY <1>2, <1>3, <1>4 DEF Entry, Works, Kinds

\* The frame a waiting producer holds has been emitted.
LEMMA LandEffect ==
    ASSUME LogTypes, WorkInv, Land
    PROVE  /\ work # << >> /\ Len(work) \in Nat /\ 1 \in DOMAIN work /\ work[1] \in Works
           /\ work' = work /\ Open = DOMAIN work /\ Open' = Open \ {1} /\ ~landed
           /\ log' \in Seq(Entries) /\ Len(log) \in Nat /\ Len(log') = Len(log) + 1
           /\ DOMAIN log = 1 .. Len(log) /\ DOMAIN log' = 1 .. (Len(log) + 1)
           /\ \A i \in 1 .. Len(log) : log'[i] = log[i]
           /\ log'[Len(log) + 1].frames = work[1].frames
           /\ log'[Len(log) + 1].terminal = work[1].terminal
           /\ log'[Len(log) + 1].prev = lastId
<1>1. /\ log' = Append(log, [frames |-> Head(work).frames, terminal |-> Head(work).terminal,
                             prev |-> lastId])
      /\ holder # "nobody" /\ ~landed /\ landed' = TRUE /\ work' = work
  BY DEF Land
<1>2. work # << >> /\ work \in Seq(Works) /\ log \in Seq(Entries) /\ lastId \in Nat
  BY <1>1 DEF WorkInv, LogTypes
<1>3. Head(work) = work[1] /\ work[1] \in Works /\ 1 \in DOMAIN work /\ Len(work) \in Nat
  BY <1>2
<1> DEFINE e == [frames |-> work[1].frames, terminal |-> work[1].terminal, prev |-> lastId]
<1>4. e \in Entries /\ e.frames = work[1].frames /\ e.terminal = work[1].terminal /\ e.prev = lastId
  BY <1>2, <1>3 DEF Works, Entries
<1>5. log' = Append(log, e)
  BY <1>1, <1>3
<1> HIDE DEF e
<1>6. /\ log' \in Seq(Entries) /\ Len(log) \in Nat /\ Len(log') = Len(log) + 1
      /\ \A i \in 1 .. Len(log) : log'[i] = log[i]
      /\ log'[Len(log) + 1] = e
  BY <1>2, <1>4, <1>5, AppendLaws
<1>7. DOMAIN log = 1 .. Len(log) /\ DOMAIN log' = 1 .. (Len(log) + 1)
  BY <1>2, <1>6
<1>8. Open = DOMAIN work /\ Open' = Open \ {1}
  BY <1>1 DEF Open
<1> QED
  BY <1>1, <1>2, <1>3, <1>4, <1>6, <1>7, <1>8

LEMMA AcknowledgeEffect ==
    ASSUME LogTypes, WorkInv, Acknowledge
    PROVE  /\ landed /\ landed' = FALSE /\ work # << >> /\ work[1] \in Works /\ log' = log
           /\ lastId' = IF work[1].terminal = "none" THEN Len(log) ELSE 0
           /\ \/ /\ Len(work) > 1 /\ work' \in Seq(Works) /\ work' # << >>
                 /\ Len(work') = Len(work) - 1 /\ Len(work) \in Nat
                 /\ Open' = DOMAIN work' /\ DOMAIN work' = 1 .. Len(work')
                 /\ \A i \in DOMAIN work' : i + 1 \in Open /\ work'[i] = work[i + 1]
                 /\ \A i \in Open : i - 1 \in DOMAIN work' /\ work'[i - 1] = work[i]
                 /\ UNCHANGED <<holder, producer, ender>>
              \/ /\ Len(work) = 1 /\ work' = << >> /\ Open' = {} /\ Open = {}
                 /\ HolderLeaves(IF producer = "appending" /\ holder = "producer"
                                 THEN "ready" ELSE "done")
<1>1. landed /\ holder # "nobody" /\ log' = log
  BY DEF Acknowledge, redis
<1>2. work # << >> /\ work \in Seq(Works)
  BY <1>1 DEF WorkInv, LogTypes
<1>3. /\ Head(work) = work[1] /\ work[1] \in Works /\ Len(work) \in Nat /\ Len(work) >= 1
      /\ DOMAIN work = 1 .. Len(work)
  BY <1>2
<1>4. lastId' = IF work[1].terminal = "none" THEN Len(log) ELSE 0
  BY <1>3 DEF Acknowledge
<1>5. CASE Len(work) > 1
  <2>1. work' = Tail(work) /\ landed' = FALSE /\ UNCHANGED <<holder, producer, ender>>
    BY <1>5 DEF Acknowledge
  <2>2. /\ work' \in Seq(Works) /\ Len(work') = Len(work) - 1
        /\ \A i \in 1 .. Len(work') : work'[i] = work[i + 1]
    BY <1>2, <2>1, TailLaws
  <2>3. DOMAIN work' = 1 .. Len(work') /\ work' # << >>
    BY <1>3, <1>5, <2>2
  <2>4. Open' = DOMAIN work' /\ Open = 2 .. Len(work)
    BY <1>1, <1>3, <2>1 DEF Open
  <2> QED
    BY <1>1, <1>2, <1>3, <1>4, <1>5, <2>1, <2>2, <2>3, <2>4
<1>6. CASE ~(Len(work) > 1)
  <2>1. HolderLeaves(IF producer = "appending" /\ holder = "producer" THEN "ready" ELSE "done")
    BY <1>6 DEF Acknowledge
  <2>2. work' = << >> /\ landed' = FALSE
    BY <2>1 DEF HolderLeaves
  <2>3. Len(work) = 1 /\ Open = {} /\ Open' = {}
    BY <1>1, <1>3, <1>6, <2>2 DEF Open
  <2> QED
    BY <1>1, <1>2, <1>3, <1>4, <2>1, <2>2, <2>3
<1> QED
  BY <1>5, <1>6

\* Whoever takes the lock takes the buffer, and its own words after it.
Own(task) ==
    IF task = "ender" THEN Entry(<< >>, "stopped")
    ELSE IF producer = "appending" THEN Entry(<<emitted>>, "none") ELSE Entry(<< >>, "done")

LEMMA TakeLockEffect ==
    ASSUME LogTypes, TaskInv, WorkInv, producer = "appending" => emitted # 0, TakeLock
    PROVE  /\ holder = "nobody" /\ waiting # << >> /\ holder' = Head(waiting)
           /\ holder' \in ToSet(waiting)
           /\ ~landed /\ landed' = FALSE /\ Open = {} /\ Open' = DOMAIN work'
           /\ work' \in Seq(Works) /\ work' # << >> /\ Len(work') \in 1 .. 2
           /\ DOMAIN work' = 1 .. Len(work')
           /\ buffer' = << >> /\ timer' = "none" /\ Range(buffer') = {}
           /\ waiting' \in Seq(Tasks) /\ IsInjective(waiting')
           /\ ToSet(waiting') = ToSet(waiting) \ {holder', "timer"}
           /\ \/ /\ holder' = "timer" /\ Len(work') = 1 /\ work'[1] = Entry(buffer, "none")
              \/ /\ holder' # "timer" /\ buffer = << >> /\ Len(work') = 1 /\ work'[1] = Own(holder')
              \/ /\ holder' # "timer" /\ buffer # << >> /\ Len(work') = 2
                 /\ work'[1] = Entry(buffer, "none") /\ work'[2] = Own(holder')
<1> DEFINE task == Head(waiting)
<1>1. /\ holder = "nobody" /\ waiting # << >> /\ holder' = task
      /\ work' = (IF buffer = << >> THEN << >> ELSE <<Entry(buffer, "none")>>) \o OwnEntries(task)
      /\ waiting' = Without(Tail(waiting), {"timer"}) /\ landed' = landed
      /\ buffer' = << >> /\ timer' = "none"
  BY DEF TakeLock
<1>2. waiting \in Seq(Tasks) /\ IsInjective(waiting)
  BY DEF LogTypes, TaskInv
<1>3. /\ Tail(waiting) \in Seq(Tasks) /\ IsInjective(Tail(waiting))
      /\ task \in ToSet(waiting) /\ ToSet(Tail(waiting)) = ToSet(waiting) \ {task} /\ task \in Tasks
  BY <1>1, <1>2, TailLaws
<1>4. /\ waiting' \in Seq(Tasks) /\ IsInjective(waiting')
      /\ ToSet(waiting') = ToSet(waiting) \ {task, "timer"}
  <2> DEFINE rest == Tail(waiting)
  <2>1. waiting' = Without(rest, {"timer"}) /\ rest \in Seq(Tasks) /\ IsInjective(rest)
    BY <1>1, <1>3
  <2> HIDE DEF rest
  <2>2. /\ waiting' \in Seq(Tasks) /\ IsInjective(waiting')
        /\ ToSet(waiting') = ToSet(rest) \ {"timer"}
    BY <2>1, WithoutProperties
  <2> QED
    BY <1>3, <2>2 DEF rest
<1>5. ~landed /\ landed' = FALSE /\ work = << >> /\ Open = {} /\ Open' = DOMAIN work'
  BY <1>1 DEF WorkInv, LogTypes, Open
<1> HIDE DEF task
<1>6. OwnEntries(task) = IF task = "timer" THEN << >> ELSE <<Own(task)>>
  <2>1. task = "producer" => producer \in {"appending", "closing"}
    BY <1>3 DEF TaskInv
  <2> QED
    BY <1>3, <2>1 DEF OwnEntries, Own, Tasks
<1>7. Entry(buffer, "none") \in Works /\ (task # "timer" => Own(task) \in Works)
  BY EntryTypes DEF Own
<1>8. task = "timer" => buffer # << >>
  BY <1>3 DEF TaskInv
<1>9. Range(buffer') = {}
  BY <1>1 DEF Range
<1> DEFINE E == Entry(buffer, "none")
           O == Own(task)
<1> HIDE DEF E, O
<1> DEFINE Shape == /\ work' \in Seq(Works) /\ work' # << >> /\ Len(work') \in 1 .. 2
                    /\ DOMAIN work' = 1 .. Len(work')
                    /\ \/ task = "timer" /\ Len(work') = 1 /\ work'[1] = E
                       \/ task # "timer" /\ buffer = << >> /\ Len(work') = 1 /\ work'[1] = O
                       \/ /\ task # "timer" /\ buffer # << >> /\ Len(work') = 2
                          /\ work'[1] = E /\ work'[2] = O
<1>10. ASSUME task = "timer"
       PROVE  Shape
  <2>1. work' = <<E>> /\ E \in Works
    BY <1>1, <1>6, <1>7, <1>8, <1>10, ShortSequences DEF E
  <2> QED
    BY <1>10, <2>1
<1>11. ASSUME task # "timer", buffer = << >>
       PROVE  Shape
  <2>1. work' = <<O>> /\ O \in Works
    BY <1>1, <1>6, <1>7, <1>11, ShortSequences DEF O
  <2> QED
    BY <1>11, <2>1
<1>12. ASSUME task # "timer", buffer # << >>
       PROVE  Shape
  <2>1. work' = <<E>> \o <<O>> /\ E \in Works /\ O \in Works
    BY <1>1, <1>6, <1>7, <1>12 DEF E, O
  <2>2. work' \in Seq(Works) /\ Len(work') = 2 /\ work'[1] = E /\ work'[2] = O
    BY <2>1, ShortSequences
  <2> QED
    BY <1>12, <2>2
<1>13. Shape
  BY <1>10, <1>11, <1>12
<1>14. \/ holder' = "timer" /\ Len(work') = 1 /\ work'[1] = Entry(buffer, "none")
       \/ holder' # "timer" /\ buffer = << >> /\ Len(work') = 1 /\ work'[1] = Own(holder')
       \/ /\ holder' # "timer" /\ buffer # << >> /\ Len(work') = 2
          /\ work'[1] = Entry(buffer, "none") /\ work'[2] = Own(holder')
  BY <1>1, <1>13 DEF E, O, Own
<1>15. ToSet(waiting') = ToSet(waiting) \ {holder', "timer"}
  BY <1>1, <1>4
<1> QED
  BY <1>1, <1>3, <1>4, <1>5, <1>9, <1>13, <1>14, <1>15 DEF task

-----------------------------------------------------------------------------
(* Each part of the invariant is kept. *)

LEMMA ReaderLeavesWriter ==
    ReaderStep \/ TimePasses => UNCHANGED <<writer, log, trimmed, faults>>
  BY DEF ReaderStep, Attach, Detach, ReadPage, ReadTail, TimePasses, redis

LEMMA WriterLeavesReader == WriterStep => UNCHANGED reader
  BY DEF WriterStep, EmitText, EmitFrame, Close, Stop, MarkStopped, TimerFires, TakeLock, Land,
     Acknowledge, WriteFails, Crash

LEMMA LogWriters ==
    Next => Land \/ UNCHANGED <<log, trimmed>>
  BY ReaderLeavesWriter DEF Next, WriterStep, EmitText, EmitFrame, Close, Stop, MarkStopped,
     TimerFires, TakeLock, Acknowledge, WriteFails, Crash, redis

LEMMA EmissionWriters ==
    Next => EmitText \/ EmitFrame \/ UNCHANGED emitted
  BY ReaderLeavesWriter DEF Next, WriterStep, Close, Stop, MarkStopped, TimerFires, TakeLock, Land,
     Acknowledge, WriteFails, Crash, writer

LEMMA BufferWriters ==
    Next => EmitText \/ TakeLock \/ UNCHANGED buffer
  BY ReaderLeavesWriter DEF Next, WriterStep, EmitFrame, Close, Stop, MarkStopped, TimerFires, Land,
     Acknowledge, WriteFails, Crash, writer

LEMMA WorkWriters ==
    Next => \/ Stop \/ TakeLock \/ Land \/ Acknowledge \/ WriteFails
            \/ UNCHANGED <<holder, work, landed>>
  BY ReaderLeavesWriter DEF Next, WriterStep, EmitText, EmitFrame, Close, MarkStopped, TimerFires,
     Crash, writer

\* The work of a writer that leaves is over, whichever of its entries got out.
LEMMA LeavesEffect ==
    ASSUME NEW outcome, HolderLeaves(outcome)
    PROVE  holder' = "nobody" /\ work' = << >> /\ landed' = FALSE /\ Open' = {}
  BY DEF HolderLeaves, Open

LEMMA StopEffect ==
    ASSUME LogTypes, TaskInv, Stop
    PROVE  /\ producer \in {"ready", "appending", "closing"} /\ producer' = "cancelled"
           /\ waiting' \in Seq(Tasks) /\ IsInjective(waiting')
           /\ ToSet(waiting') = ToSet(waiting) \ {"producer"}
           /\ \/ /\ holder = "producer" /\ holder' = "nobody" /\ work' = << >> /\ landed' = FALSE
                 /\ Open' = {}
              \/ /\ holder # "producer" /\ holder' = holder /\ work' = work /\ landed' = landed
                 /\ Open' = Open
           /\ UNCHANGED <<ender, buffer, timer, emitted, lastId, log, trimmed, faults>>
<1>1. waiting' = Without(waiting, {"producer"}) /\ waiting \in Seq(Tasks) /\ IsInjective(waiting)
  BY DEF Stop, LogTypes, TaskInv
<1>2. /\ waiting' \in Seq(Tasks) /\ IsInjective(waiting')
      /\ ToSet(waiting') = ToSet(waiting) \ {"producer"}
  BY <1>1, WithoutProperties
<1> QED
  BY <1>2 DEF Stop, Producing, Open, redis

\* A task that asks for the lock joins the end of the queue.
LEMMA Joins ==
    ASSUME LogTypes, TaskInv, NEW task \in Tasks, task \notin ToSet(waiting),
           waiting' = Append(waiting, task)
    PROVE  waiting' \in Seq(Tasks) /\ IsInjective(waiting') /\ ToSet(waiting') = ToSet(waiting) \cup {task}
  BY AppendLaws DEF LogTypes, TaskInv

LEMMA TaskKept == LogTypes /\ TaskInv /\ WorkInv /\ EmittedInv /\ Next => TaskInv' /\ waiting' \in Seq(Tasks)
<1> SUFFICES ASSUME LogTypes, TaskInv, WorkInv, EmittedInv, Next
             PROVE  TaskInv' /\ waiting' \in Seq(Tasks)
  OBVIOUS
<1>0. waiting \in Seq(Tasks)
  BY DEF LogTypes
<1>1. CASE EmitText
  <2>1. UNCHANGED <<waiting, producer, ender, holder>> /\ producer = "ready"
    BY <1>1 DEF EmitText
  <2>2. timer' # "none" /\ (timer' = "due" <=> timer = "due")
    BY <1>1 DEF EmitText
  <2>3. buffer' # << >>
    <3>1. buffer \in Seq(Nat) /\ buffer' = Append(buffer, emitted + 1) /\ emitted + 1 \in Nat
      BY <1>1, LogConstants DEF EmitText, LogTypes, Frames
    <3>2. Len(buffer') = Len(buffer) + 1 /\ Len(buffer) \in Nat
      BY <3>1, AppendLaws
    <3> QED
      BY <3>2
  <2> QED
    BY <1>0, <2>1, <2>2, <2>3 DEF TaskInv
<1>2. CASE EmitFrame \/ Close
  <2>1. /\ producer = "ready" /\ producer' \in {"appending", "closing"}
        /\ waiting' = Append(waiting, "producer")
        /\ UNCHANGED <<ender, holder, buffer, timer>>
    BY <1>2 DEF EmitFrame, Close
  <2>2. "producer" \notin ToSet(waiting)
    BY <2>1 DEF TaskInv
  <2>3. /\ waiting' \in Seq(Tasks) /\ IsInjective(waiting')
        /\ ToSet(waiting') = ToSet(waiting) \cup {"producer"}
    BY <2>1, <2>2, Joins DEF Tasks
  <2> QED
    BY <2>1, <2>3 DEF TaskInv
<1>3. CASE Stop
  BY <1>3, StopEffect DEF TaskInv
<1>4. CASE MarkStopped
  <2>1. /\ producer = "cancelled" /\ ender = "none" /\ ender' = "marking"
        /\ waiting' = Append(waiting, "ender")
        /\ UNCHANGED <<producer, holder, buffer, timer>>
    BY <1>4 DEF MarkStopped
  <2>2. "ender" \notin ToSet(waiting) /\ holder # "ender"
    BY <2>1 DEF TaskInv
  <2>3. /\ waiting' \in Seq(Tasks) /\ IsInjective(waiting')
        /\ ToSet(waiting') = ToSet(waiting) \cup {"ender"}
    BY <2>1, <2>2, Joins DEF Tasks
  <2> QED
    BY <2>1, <2>2, <2>3 DEF TaskInv
<1>5. CASE TimerFires
  <2>1. /\ timer = "asleep" /\ timer' = "due" /\ waiting' = Append(waiting, "timer")
        /\ UNCHANGED <<producer, ender, holder, buffer>>
    BY <1>5 DEF TimerFires
  <2>2. "timer" \notin ToSet(waiting)
    BY <2>1 DEF TaskInv
  <2>3. /\ waiting' \in Seq(Tasks) /\ IsInjective(waiting')
        /\ ToSet(waiting') = ToSet(waiting) \cup {"timer"}
    BY <2>1, <2>2, Joins DEF Tasks
  <2> QED
    BY <2>1, <2>3 DEF TaskInv
<1>6. CASE TakeLock
  <2>1. UNCHANGED <<producer, ender>>
    BY <1>6 DEF TakeLock
  <2>2. producer = "appending" => emitted # 0
    BY DEF EmittedInv
  <2>3. /\ holder = "nobody" /\ holder' \in ToSet(waiting)
        /\ buffer' = << >> /\ timer' = "none"
        /\ waiting' \in Seq(Tasks) /\ IsInjective(waiting')
        /\ ToSet(waiting') = ToSet(waiting) \ {holder', "timer"}
    BY <1>6, <2>2, TakeLockEffect
  <2>4. holder' \in Tasks
    BY <1>0, <2>3 DEF ToSet
  <2>5. /\ holder' = "producer" => producer \in {"appending", "closing"}
        /\ holder' = "ender" => ender = "marking"
    BY <2>3 DEF TaskInv
  <2>6. ~(producer \in {"done", "failed"} \/ ender \in {"done", "failed"})
    BY <2>3, <2>4, <2>5 DEF TaskInv, Tasks
  <2>7. /\ "producer" \in ToSet(waiting') <=> producer \in {"appending", "closing"} /\ holder' # "producer"
        /\ "ender" \in ToSet(waiting') <=> ender = "marking" /\ holder' # "ender"
        /\ "timer" \notin ToSet(waiting')
    BY <2>3 DEF TaskInv
  <2> QED
    BY <2>1, <2>3, <2>5, <2>6, <2>7 DEF TaskInv
<1>7. CASE Acknowledge
  <2>1. UNCHANGED <<waiting, buffer, timer>>
    BY <1>7 DEF Acknowledge
  <2>2. CASE UNCHANGED <<holder, producer, ender>>
    BY <1>0, <2>1, <2>2 DEF TaskInv
  <2>3. CASE HolderLeaves(IF producer = "appending" /\ holder = "producer" THEN "ready" ELSE "done")
    BY <1>0, <2>1, <2>3 DEF TaskInv, HolderLeaves
  <2> QED
    BY <1>7, <2>2, <2>3, AcknowledgeEffect
<1>8. CASE WriteFails
  BY <1>0, <1>8 DEF WriteFails, HolderLeaves, TaskInv
<1>9. CASE Land \/ Crash \/ ReaderStep \/ TimePasses
  <2>1. UNCHANGED <<waiting, producer, ender, holder, buffer, timer>>
    BY <1>9, ReaderLeavesWriter DEF Land, Crash, writer
  <2> QED
    BY <1>0, <2>1 DEF TaskInv
<1> QED
  BY <1>1, <1>2, <1>3, <1>4, <1>5, <1>6, <1>7, <1>8, <1>9 DEF Next, WriterStep

LEMMA WorkKept == LogTypes /\ TaskInv /\ WorkInv /\ EmittedInv /\ Next => WorkInv'
<1> SUFFICES ASSUME LogTypes, TaskInv, WorkInv, EmittedInv, Next PROVE WorkInv'
  OBVIOUS
<1>1. CASE Stop
  <2>1. CASE holder' = "nobody" /\ work' = << >> /\ landed' = FALSE
    BY <2>1 DEF WorkInv
  <2>2. CASE holder # "producer" /\ holder' = holder /\ work' = work /\ landed' = landed
    BY <2>2 DEF WorkInv
  <2> QED
    BY <1>1, <2>1, <2>2, StopEffect
<1>2. CASE TakeLock
  <2>1. producer' = producer /\ (producer = "appending" => emitted # 0)
    BY <1>2 DEF TakeLock, EmittedInv
  <2>2. /\ work' # << >> /\ Len(work') \in 1 .. 2 /\ DOMAIN work' = 1 .. Len(work')
        /\ holder' \in ToSet(waiting) /\ landed' = FALSE
        /\ \/ /\ holder' = "timer" /\ Len(work') = 1 /\ work'[1] = Entry(buffer, "none")
           \/ /\ holder' # "timer" /\ buffer = << >> /\ Len(work') = 1 /\ work'[1] = Own(holder')
           \/ /\ holder' # "timer" /\ Len(work') = 2
              /\ work'[1] = Entry(buffer, "none") /\ work'[2] = Own(holder')
    BY <1>2, <2>1, TakeLockEffect
  <2>3. holder' \in Tasks
    BY <2>2 DEF LogTypes, ToSet
  <2>4. /\ Entry(buffer, "none").terminal = "none"
        /\ holder' = "ender" => Own(holder').terminal # "none"
        /\ holder' = "producer" => (Own(holder').terminal # "none" <=> producer # "appending")
    BY DEF Own, Entry
  <2>5. holder' = "producer" => producer \in {"appending", "closing"}
    BY <2>2 DEF TaskInv
  <2> QED
    BY <2>1, <2>2, <2>3, <2>4, <2>5 DEF WorkInv, Tasks
<1>3. CASE Land
  <2>1. UNCHANGED <<holder, producer>> /\ work' = work /\ work # << >>
    BY <1>3, LandEffect DEF Land
  <2> QED
    BY <2>1 DEF WorkInv
<1>4. CASE Acknowledge
  <2>1. CASE /\ Len(work) > 1 /\ work' \in Seq(Works) /\ work' # << >>
             /\ Len(work') = Len(work) - 1 /\ Len(work) \in Nat
             /\ Open' = DOMAIN work' /\ DOMAIN work' = 1 .. Len(work')
             /\ \A i \in DOMAIN work' : i + 1 \in Open /\ work'[i] = work[i + 1]
             /\ UNCHANGED <<holder, producer, ender>>
    <3>1. \A i \in DOMAIN work' : i + 1 \in DOMAIN work /\ (i + 1 = Len(work) <=> i = Len(work'))
      BY <2>1 DEF Open
    <3>2. Len(work') \in DOMAIN work' /\ work'[Len(work')] = work[Len(work)]
      BY <2>1, <3>1
    <3>3. landed' = FALSE
      BY <1>4, AcknowledgeEffect
    <3> QED
      BY <2>1, <3>1, <3>2, <3>3 DEF WorkInv
  <2>2. CASE HolderLeaves(IF producer = "appending" /\ holder = "producer" THEN "ready" ELSE "done")
    BY <2>2 DEF WorkInv, HolderLeaves
  <2> QED
    BY <1>4, <2>1, <2>2, AcknowledgeEffect
<1>5. CASE WriteFails
  BY <1>5 DEF WriteFails, HolderLeaves, WorkInv
<1>6. CASE UNCHANGED <<holder, work, landed>>
  <2>1. holder = "producer" => producer' = producer \/ Stop
    <3>1. holder = "producer" => producer # "ready"
      BY DEF TaskInv
    <3> QED
      BY <1>6, <3>1, ReaderLeavesWriter DEF Next, WriterStep, EmitText, EmitFrame, Close,
         MarkStopped, TimerFires, TakeLock, Land, Acknowledge, HolderLeaves, WriteFails, Crash,
         writer
  <2>2. CASE ~Stop
    BY <1>6, <2>1, <2>2 DEF WorkInv
  <2> QED
    BY <1>1, <2>2
<1> QED
  BY <1>1, <1>2, <1>3, <1>4, <1>5, <1>6, WorkWriters

\* The parts of the types that only one side writes.
WriterTypes ==
    /\ alive \in BOOLEAN /\ emitted \in 0 .. MaxFrames
    /\ producer \in {"ready", "appending", "closing", "done", "failed", "cancelled"}
    /\ ender \in {"none", "marking", "done", "failed"}
    /\ buffer \in Seq(Frames) /\ timer \in {"none", "asleep", "due"}
    /\ holder \in Tasks \cup {"nobody"} /\ work \in Seq(Works) /\ landed \in BOOLEAN
    /\ faults \in 0 .. MaxFaults
RedisTypes ==
    /\ log \in Seq(Entries) /\ lastId \in 0 .. Len(log)
    /\ trimmed \in 0 .. Len(log) /\ (trimmed = 0 \/ trimmed <= Len(log) - MaxEntries)
    /\ Len(log) - trimmed <= MaxEntries /\ quiet \in BOOLEAN
ReaderTypes ==
    /\ at \in {"away", "reading", "tail", "ended", "hungup", "stale"}
    /\ cursor \in 0 .. Len(log) /\ start \in 0 .. Len(log) /\ stored \in 0 .. Len(log)
    /\ rendered \subseteq Frames /\ told \in 0 .. MaxFrames

LEMMA TypesFromParts ==
    LogTypes <=> WriterTypes /\ RedisTypes /\ ReaderTypes /\ waiting \in Seq(Tasks)
  BY DEF LogTypes, WriterTypes, RedisTypes, ReaderTypes

LEMMA WriterTypesKept == LogTypes /\ TaskInv /\ WorkInv /\ EmittedInv /\ Next => WriterTypes'
<1> SUFFICES ASSUME LogTypes, TaskInv, WorkInv, EmittedInv, Next PROVE WriterTypes'
  OBVIOUS
<1>0. WriterTypes
  BY TypesFromParts
<1>1. CASE EmitText \/ EmitFrame
  <2>1. /\ emitted < MaxFrames /\ emitted' = emitted + 1
        /\ producer' \in {"ready", "appending"} /\ timer' \in {timer, "asleep"}
        /\ buffer' \in {buffer, Append(buffer, emitted + 1)}
        /\ UNCHANGED <<alive, ender, holder, work, landed, faults>>
    BY <1>1 DEF EmitText, EmitFrame
  <2>2. emitted' \in 0 .. MaxFrames /\ emitted + 1 \in Frames
    BY <2>1, LogConstants DEF LogTypes, Frames
  <2>3. buffer' \in Seq(Frames)
    BY <1>0, <2>1, <2>2, AppendLaws DEF WriterTypes
  <2> QED
    BY <1>0, <2>1, <2>2, <2>3 DEF WriterTypes
<1>2. CASE Close \/ MarkStopped \/ TimerFires \/ Crash
  BY <1>0, <1>2 DEF Close, MarkStopped, TimerFires, Crash, WriterTypes
<1>3. CASE Stop
  <2>1. alive' = alive
    BY <1>3 DEF Stop
  <2>2. << >> \in Seq(Works)
    OBVIOUS
  <2> QED
    BY <1>0, <1>3, <2>1, <2>2, StopEffect DEF WriterTypes
<1>4. CASE TakeLock
  <2>1. producer = "appending" => emitted # 0
    BY DEF EmittedInv
  <2>2. /\ holder' \in ToSet(waiting) /\ work' \in Seq(Works) /\ landed' = FALSE
        /\ buffer' = << >> /\ timer' = "none"
    BY <1>4, <2>1, TakeLockEffect
  <2>3. holder' \in Tasks
    BY <2>2 DEF LogTypes, ToSet
  <2>4. UNCHANGED <<alive, emitted, producer, ender, faults>>
    BY <1>4 DEF TakeLock
  <2>5. << >> \in Seq(Frames)
    OBVIOUS
  <2> QED
    BY <1>0, <2>2, <2>3, <2>4, <2>5 DEF WriterTypes
<1>5. CASE Land
  BY <1>0, <1>5 DEF Land, WriterTypes
<1>6. CASE Acknowledge
  <2>1. UNCHANGED <<alive, emitted, buffer, timer, faults>> /\ landed' = FALSE
    BY <1>6, AcknowledgeEffect DEF Acknowledge
  <2>2. \/ work' \in Seq(Works) /\ UNCHANGED <<holder, producer, ender>>
        \/ HolderLeaves(IF producer = "appending" /\ holder = "producer" THEN "ready" ELSE "done")
    BY <1>6, AcknowledgeEffect
  <2>3. << >> \in Seq(Works)
    OBVIOUS
  <2>4. CASE HolderLeaves(IF producer = "appending" /\ holder = "producer" THEN "ready" ELSE "done")
    <3>1. ender' \in {ender, "done"}
      BY <2>4 DEF HolderLeaves
    <3>2. producer' \in {producer, "ready", "done"} /\ holder' = "nobody" /\ work' = << >>
      BY <2>4 DEF HolderLeaves
    <3> QED
      BY <1>0, <2>1, <2>3, <3>1, <3>2 DEF WriterTypes
  <2> QED
    BY <1>0, <2>1, <2>2, <2>4 DEF WriterTypes
<1>7. CASE WriteFails
  <2>1. << >> \in Seq(Works)
    OBVIOUS
  <2>2. faults' \in 0 .. MaxFaults
    BY <1>0, <1>7, LogConstants DEF WriteFails, WriterTypes
  <2> QED
    BY <1>0, <1>7, <2>1, <2>2 DEF WriteFails, HolderLeaves, WriterTypes
<1>8. CASE ReaderStep \/ TimePasses
  BY <1>0, <1>8, ReaderLeavesWriter DEF writer, WriterTypes
<1> QED
  BY <1>1, <1>2, <1>3, <1>4, <1>5, <1>6, <1>7, <1>8 DEF Next, WriterStep

LEMMA TrimEffect ==
    ASSUME LogTypes, WorkInv, Land
    PROVE  trimmed' = IF trimmed >= Len(log) + 1 - MaxEntries THEN trimmed ELSE Len(log) + 1 - MaxEntries
<1>1. trimmed \in Int /\ Len(log) + 1 - MaxEntries \in Int
  BY LogConstants DEF LogTypes
<1> QED
  BY <1>1, MaxOfTwo DEF Land

LEMMA RedisTypesKept == LogTypes /\ WorkInv /\ Next => RedisTypes'
<1> SUFFICES ASSUME LogTypes, WorkInv, Next PROVE RedisTypes'
  OBVIOUS
<1>0. RedisTypes /\ Len(log) \in Nat
  BY TypesFromParts DEF LogTypes
<1>1. CASE Land
  <2>1. log' \in Seq(Entries) /\ Len(log') = Len(log) + 1
    BY <1>1, LandEffect
  <2>2. lastId' = lastId
    BY <1>1 DEF Land
  <2>3. /\ trimmed \in Nat /\ trimmed <= Len(log) /\ MaxEntries \in Nat /\ 1 <= MaxEntries
        /\ trimmed = 0 \/ trimmed <= Len(log) - MaxEntries
        /\ Len(log) - trimmed <= MaxEntries
        /\ trimmed' = IF trimmed >= Len(log) + 1 - MaxEntries THEN trimmed ELSE Len(log) + 1 - MaxEntries
    BY <1>0, <1>1, TrimEffect, LogConstants DEF RedisTypes
  <2>4. /\ trimmed' \in 0 .. Len(log) + 1
        /\ trimmed' = 0 \/ trimmed' <= Len(log) + 1 - MaxEntries
        /\ Len(log) + 1 - trimmed' <= MaxEntries
    BY <1>0, <2>3
  <2>5. lastId \in 0 .. Len(log) + 1
    BY <1>0 DEF RedisTypes
  <2>6. /\ lastId' \in 0 .. Len(log') /\ trimmed' \in 0 .. Len(log')
        /\ trimmed' = 0 \/ trimmed' <= Len(log') - MaxEntries
        /\ Len(log') - trimmed' <= MaxEntries
    <3>1. Len(log') = Len(log) + 1
      BY <2>1
    <3>2. lastId' \in 0 .. Len(log')
      BY <2>2, <2>5, <3>1
    <3> QED
      BY <1>0, <2>3, <2>4, <3>1, <3>2
  <2>7. quiet' \in BOOLEAN
    BY <1>1 DEF Land
  <2> QED
    BY <2>1, <2>6, <2>7 DEF RedisTypes
<1>2. CASE UNCHANGED <<log, trimmed>>
  <2>1. lastId' = lastId \/ lastId' \in {0, Len(log)}
    BY ReaderLeavesWriter DEF Next, WriterStep, EmitText, EmitFrame, Close, Stop, MarkStopped,
       TimerFires, TakeLock, Land, Acknowledge, WriteFails, Crash, writer
  <2>2. quiet' \in BOOLEAN
    <3>1. CASE Attach
      BY <1>0, <3>1 DEF Attach, RedisTypes
    <3>2. CASE ~Attach
      BY <1>0, <3>2 DEF Next, WriterStep, EmitText, EmitFrame, Close, Stop, MarkStopped, TimerFires,
         TakeLock, Land, Acknowledge, WriteFails, Crash, ReaderStep, Detach, ReadPage, ReadTail,
         TimePasses, redis, RedisTypes
    <3> QED
      BY <3>1, <3>2
  <2> QED
    BY <1>0, <1>2, <2>1, <2>2 DEF RedisTypes
<1> QED
  BY <1>1, <1>2, LogWriters

\* The greatest of finitely many numbers.
LEMMA MaxOfMany ==
    ASSUME NEW n \in Nat, NEW S \in SUBSET (0 .. n), S # {}
    PROVE  Max(S) \in S /\ \A x \in S : x <= Max(S)
<1> DEFINE T == {n - x : x \in S}
<1>1. T \in SUBSET Nat /\ T # {}
  <2>1. \A x \in S : n - x \in Nat
    OBVIOUS
  <2> QED
    BY <2>1
<1>2. \E m \in T : \A x \in T : m <= x
  <2> HIDE DEF T
  <2> QED
    BY <1>1, LeastNatural
<1>3. PICK m \in S : \A x \in S : n - m <= n - x
  BY <1>2
<1>4. m \in S /\ \A x \in S : m >= x
  BY <1>3
<1> QED
  BY <1>4 DEF Max

LEMMA LastFrameLaws ==
    ASSUME LogTypes, NEW i \in 0 .. Len(log)
    PROVE  /\ LastFrame(i) \in 0 .. MaxFrames
           /\ (LastFrame(i) = 0 \/ LastFrame(i) \in FramesUpTo(i))
           /\ \A f \in FramesUpTo(i) : f <= LastFrame(i)
           /\ FramesUpTo(i) \subseteq Frames
<1>1. FramesUpTo(i) \subseteq Frames
  <2>1. \A j \in 1 .. i : log[j] \in Entries
    BY DEF LogTypes
  <2>2. \A e \in Entries : Range(e.frames) \subseteq Frames
    BY DEF Entries, Range
  <2> QED
    BY <2>1, <2>2 DEF FramesUpTo
<1> DEFINE S == FramesUpTo(i) \cup {0}
<1>2. S \in SUBSET (0 .. MaxFrames) /\ S # {} /\ MaxFrames \in Nat
  BY <1>1, LogConstants DEF Frames
<1>3. Max(S) \in S /\ \A x \in S : x <= Max(S)
  <2> HIDE DEF S
  <2> QED
    BY <1>2, MaxOfMany
<1> QED
  BY <1>1, <1>2, <1>3 DEF LastFrame

LEMMA FirstLaws ==
    ASSUME LogTypes
    PROVE  /\ First = (IF cursor >= trimmed THEN cursor ELSE trimmed) + 1
           /\ First \in 1 .. (Len(log) + 1) /\ cursor < First /\ trimmed < First /\ Len(log) \in Nat
           /\ Max({cursor, Len(log)}) = Len(log)
<1>1. /\ cursor \in 0 .. Len(log) /\ trimmed \in 0 .. Len(log) /\ Len(log) \in Nat
      /\ cursor \in Int /\ trimmed \in Int /\ Len(log) \in Int
  BY DEF LogTypes
<1>2. /\ Max({cursor, trimmed}) = IF cursor >= trimmed THEN cursor ELSE trimmed
      /\ Max({cursor, Len(log)}) = IF cursor >= Len(log) THEN cursor ELSE Len(log)
  BY <1>1, MaxOfTwo
<1> QED
  BY <1>1, <1>2 DEF First

LEMMA ReaderTypesKept == LogTypes /\ WorkInv /\ Next => ReaderTypes'
<1> SUFFICES ASSUME LogTypes, WorkInv, Next PROVE ReaderTypes'
  OBVIOUS
<1>0. ReaderTypes /\ Len(log) \in Nat
  BY TypesFromParts DEF LogTypes
<1>1. CASE WriterStep \/ TimePasses
  <2>1. UNCHANGED reader
    BY <1>1, WriterLeavesReader DEF TimePasses
  <2>2. Len(log') \in Nat /\ Len(log) <= Len(log')
    BY <1>0, LogWriters, LandEffect
  <2> QED
    BY <1>0, <2>1, <2>2 DEF ReaderTypes, reader
<1>2. CASE Attach \/ Detach \/ ReadTail
  <2>1. log' = log
    BY <1>2, ReaderLeavesWriter DEF ReaderStep
  <2>2. 0 \in 0 .. MaxFrames
    BY LogConstants
  <2> QED
    BY <1>0, <1>2, <2>1, <2>2 DEF Attach, Detach, ReadTail, ReaderTypes
<1>3. CASE ReadPage
  <2>1. log' = log /\ start' = start /\ cursor' = Len(log)
    BY <1>3, FirstLaws, ReaderLeavesWriter DEF ReaderStep, ReadPage
  <2>2. stored' \in {stored, cursor'} /\ at' \in {"ended", "tail", "reading"}
    BY <1>3 DEF ReadPage, Keeps
  <2>3. told' \in 0 .. MaxFrames
    <3>1. First - 1 \in 0 .. Len(log)
      BY FirstLaws
    <3>2. LastFrame(First - 1) \in 0 .. MaxFrames
      BY <3>1, LastFrameLaws
    <3> QED
      BY <1>0, <1>3, <3>2 DEF ReadPage, ReaderTypes
  <2>4. rendered' \subseteq Frames
    <3>1. \A j \in First .. Len(log) : log[j] \in Entries
      BY FirstLaws DEF LogTypes
    <3>2. \A e \in Entries : Range(e.frames) \subseteq Frames
      BY DEF Entries, Range
    <3>3. rendered' = rendered \cup UNION {Range(log[i].frames) : i \in First .. Len(log)}
      BY <1>3 DEF ReadPage
    <3> QED
      BY <1>0, <3>1, <3>2, <3>3 DEF ReaderTypes
  <2> QED
    BY <1>0, <2>1, <2>2, <2>3, <2>4 DEF ReaderTypes
<1> QED
  BY <1>1, <1>2, <1>3 DEF Next, ReaderStep

\* Where a frame is after a step. What a step leaves alone stays where it was.
LEMMA FlowKept ==
    ASSUME UNCHANGED <<log, work, landed, buffer>>, NEW f
    PROVE  (InLog(f)' <=> InLog(f)) /\ (InWork(f)' <=> InWork(f)) /\ (InBuffer(f)' <=> InBuffer(f))
  BY DEF InLog, InWork, InBuffer, Open

LEMMA LandFlow ==
    ASSUME LogTypes, WorkInv, Land, NEW f
    PROVE  /\ InLog(f)' <=> InLog(f) \/ f \in Range(work[1].frames)
           /\ InWork(f) <=> InWork(f)' \/ f \in Range(work[1].frames)
           /\ InBuffer(f)' <=> InBuffer(f)
<1>1. /\ work' = work /\ Open = DOMAIN work /\ Open' = Open \ {1} /\ 1 \in DOMAIN work
      /\ Len(log) \in Nat /\ DOMAIN log = 1 .. Len(log) /\ DOMAIN log' = 1 .. (Len(log) + 1)
      /\ \A i \in 1 .. Len(log) : log'[i] = log[i]
      /\ log'[Len(log) + 1].frames = work[1].frames
  BY LandEffect
<1>2. InBuffer(f)' <=> InBuffer(f)
  BY DEF Land, InBuffer
<1>3. InWork(f) <=> InWork(f)' \/ f \in Range(work[1].frames)
  BY <1>1 DEF InWork
<1>4. InLog(f)' <=> \E i \in 1 .. (Len(log) + 1) : f \in Range(log'[i].frames)
  BY <1>1 DEF InLog
<1>5. \A i \in 1 .. (Len(log) + 1) : i \in 1 .. Len(log) \/ i = Len(log) + 1
  BY <1>1
<1>6. Len(log) + 1 \in 1 .. (Len(log) + 1) /\ \A i \in 1 .. Len(log) : i \in 1 .. (Len(log) + 1)
  BY <1>1
<1>7. InLog(f)' <=> InLog(f) \/ f \in Range(work[1].frames)
  BY <1>1, <1>4, <1>5, <1>6 DEF InLog
<1> QED
  BY <1>2, <1>3, <1>7

LEMMA AcknowledgeFlow ==
    ASSUME LogTypes, WorkInv, Acknowledge, NEW f
    PROVE  (InLog(f)' <=> InLog(f)) /\ (InWork(f)' <=> InWork(f)) /\ (InBuffer(f)' <=> InBuffer(f))
<1>1. InLog(f)' <=> InLog(f)
  BY AcknowledgeEffect DEF InLog
<1>2. InBuffer(f)' <=> InBuffer(f)
  BY DEF Acknowledge, InBuffer
<1>3. CASE /\ Open' = DOMAIN work'
           /\ \A i \in DOMAIN work' : i + 1 \in Open /\ work'[i] = work[i + 1]
           /\ \A i \in Open : i - 1 \in DOMAIN work' /\ work'[i - 1] = work[i]
  BY <1>1, <1>2, <1>3 DEF InWork
<1>4. CASE Open' = {} /\ Open = {}
  BY <1>1, <1>2, <1>4 DEF InWork
<1> QED
  BY <1>3, <1>4, AcknowledgeEffect

\* A writer that is stopped or fails takes what it had with it.
LEMMA DropFlow ==
    ASSUME LogTypes, TaskInv, Stop \/ WriteFails, NEW f
    PROVE  (InLog(f)' <=> InLog(f)) /\ (InWork(f)' => InWork(f)) /\ (InBuffer(f)' <=> InBuffer(f))
<1>1. UNCHANGED <<log, buffer>>
  BY StopEffect DEF WriteFails, redis
<1>2. Open' = {} \/ (Open' = Open /\ work' = work)
  BY StopEffect, LeavesEffect DEF WriteFails
<1> QED
  BY <1>1, <1>2 DEF InLog, InWork, InBuffer

LEMMA OwnFrames ==
    ASSUME LogTypes, NEW task \in {"producer", "ender"}
    PROVE  /\ Ascending(Own(task).frames)
           /\ Range(Own(task).frames) =
                IF task = "producer" /\ producer = "appending" THEN {emitted} ELSE {}
<1>1. Range(<<emitted>>) = {emitted} /\ Range(<< >>) = {} /\ Ascending(<<emitted>>) /\ Ascending(<< >>)
  BY EntryTypes
<1> QED
  BY <1>1 DEF Own, Entry

LEMMA TakeLockFlow ==
    ASSUME LogTypes, TaskInv, WorkInv, EmittedInv, TakeLock, NEW f
    PROVE  /\ (InLog(f)' <=> InLog(f)) /\ ~InWork(f) /\ ~InBuffer(f)'
           /\ InWork(f)' <=> InBuffer(f) \/ (holder' = "producer" /\ f \in Pending)
           /\ Pending' = IF holder' = "producer" THEN {} ELSE Pending
<1>1. /\ holder = "nobody" /\ holder' \in ToSet(waiting) /\ Open = {} /\ Open' = DOMAIN work'
      /\ DOMAIN work' = 1 .. Len(work') /\ Range(buffer') = {}
      /\ \/ /\ holder' = "timer" /\ Len(work') = 1 /\ work'[1] = Entry(buffer, "none")
         \/ /\ holder' # "timer" /\ buffer = << >> /\ Len(work') = 1 /\ work'[1] = Own(holder')
         \/ /\ holder' # "timer" /\ Len(work') = 2
            /\ work'[1] = Entry(buffer, "none") /\ work'[2] = Own(holder')
  BY TakeLockEffect DEF EmittedInv
<1>2. UNCHANGED <<log, producer, emitted>>
  BY DEF TakeLock, redis
<1>3. holder' \in Tasks
  BY <1>1 DEF LogTypes, ToSet
<1>4. Pending = IF producer = "appending" THEN {emitted} ELSE {}
  BY <1>1 DEF Pending
<1>5. Entry(buffer, "none").frames = buffer /\ Range(<< >>) = {}
  BY EntryTypes DEF Entry
<1>6. holder' # "timer" =>
        Range(Own(holder').frames) = IF holder' = "producer" THEN Pending ELSE {}
  <2> DEFINE task == holder'
  <2>1. task # "timer" => task \in {"producer", "ender"}
    BY <1>3 DEF Tasks
  <2>2. task # "timer" => Own(task) = Own(holder')
    BY DEF Own
  <2> HIDE DEF task
  <2>3. task # "timer" => Range(Own(task).frames) =
          IF task = "producer" /\ producer = "appending" THEN {emitted} ELSE {}
    BY <2>1, OwnFrames
  <2> QED
    BY <1>4, <2>2, <2>3 DEF task
<1>7. Pending' = IF holder' = "producer" THEN {} ELSE Pending
  BY <1>1, <1>2 DEF Pending
<1>8. (InLog(f)' <=> InLog(f)) /\ ~InWork(f) /\ ~InBuffer(f)'
  BY <1>1, <1>2 DEF InLog, InWork, InBuffer
<1>9. InWork(f)' <=> \E i \in 1 .. Len(work') : f \in Range(work'[i].frames)
  BY <1>1 DEF InWork
<1>10. CASE holder' = "timer" /\ Len(work') = 1 /\ work'[1] = Entry(buffer, "none")
  <2>1. InWork(f)' <=> f \in Range(work'[1].frames)
    BY <1>9, <1>10
  <2> QED
    BY <1>5, <1>7, <1>8, <1>10, <2>1 DEF InBuffer
<1>11. CASE holder' # "timer" /\ buffer = << >> /\ Len(work') = 1 /\ work'[1] = Own(holder')
  <2>1. InWork(f)' <=> f \in Range(work'[1].frames)
    BY <1>9, <1>11
  <2> QED
    BY <1>5, <1>6, <1>7, <1>8, <1>11, <2>1 DEF InBuffer
<1>12. CASE /\ holder' # "timer" /\ Len(work') = 2
            /\ work'[1] = Entry(buffer, "none") /\ work'[2] = Own(holder')
  <2>1. InWork(f)' <=> f \in Range(work'[1].frames) \/ f \in Range(work'[2].frames)
    <3>1. 1 .. 2 = {1, 2}
      OBVIOUS
    <3> QED
      BY <1>9, <1>12, <3>1
  <2> QED
    BY <1>5, <1>6, <1>7, <1>8, <1>12, <2>1 DEF InBuffer
<1> QED
  BY <1>1, <1>10, <1>11, <1>12

LEMMA EmitFlow ==
    ASSUME LogTypes, EmitText, NEW f
    PROVE  /\ (InLog(f)' <=> InLog(f)) /\ (InWork(f)' <=> InWork(f))
           /\ InBuffer(f)' <=> InBuffer(f) \/ f = emitted + 1
<1>1. UNCHANGED <<log, work, landed>> /\ buffer' = Append(buffer, emitted + 1)
  BY DEF EmitText, redis
<1>2. buffer \in Seq(Nat) /\ emitted + 1 \in Nat
  BY LogConstants DEF LogTypes, Frames
<1>3. Range(buffer') = Range(buffer) \cup {emitted + 1}
  <2>1. ToSet(buffer') = ToSet(buffer) \cup {emitted + 1}
    BY <1>1, <1>2, AppendLaws
  <2> QED
    BY <2>1 DEF ToSet, Range
<1> QED
  BY <1>1, <1>3 DEF InLog, InWork, InBuffer, Open

LEMMA FramesTyped ==
    ASSUME LogTypes, NEW f
    PROVE  /\ InLog(f) \/ InWork(f) \/ InBuffer(f) => f \in Frames /\ f \in Nat
           /\ \A i \in DOMAIN log : f \in Range(log[i].frames) => f \in Frames /\ InLog(f)
           /\ \A i \in Open : f \in Range(work[i].frames) => f \in Frames /\ InWork(f)
<1>1. /\ \A e \in Works : e.frames \in Seq(Frames)
      /\ \A e \in Entries : e.frames \in Seq(Frames)
  BY DEF Works, Entries
<1>2. \A s \in Seq(Frames) : Range(s) \subseteq Frames
  BY DEF Range
<1>3. Frames \subseteq Nat
  BY DEF Frames
<1>4. \A i \in DOMAIN log : log[i] \in Entries
  BY DEF LogTypes
<1>5. \A i \in Open : work[i] \in Works
  BY DEF LogTypes, Open
<1>6. buffer \in Seq(Frames)
  BY DEF LogTypes
<1> QED
  BY <1>1, <1>2, <1>3, <1>4, <1>5, <1>6 DEF InLog, InWork, InBuffer

LEMMA EmittedKept ==
    LogTypes /\ TaskInv /\ WorkInv /\ EmittedInv /\ Next => EmittedInv'
<1> SUFFICES ASSUME LogTypes, TaskInv, WorkInv, EmittedInv, Next PROVE EmittedInv'
  OBVIOUS
<1>0. emitted \in Nat /\ MaxFrames \in Nat /\ \A f \in Frames : f \in Nat
  BY LogConstants DEF LogTypes, Frames
<1>1. CASE EmitText
  <2>1. /\ producer = "ready" /\ producer' = "ready" /\ emitted' = emitted + 1
    BY <1>1 DEF EmitText
  <2>2. Pending' = {}
    BY <2>1 DEF Pending
  <2>3. ASSUME NEW f \in Frames, InLog(f)' \/ InWork(f)' \/ InBuffer(f)'
        PROVE  f <= emitted' /\ f \notin Pending'
    BY <1>0, <1>1, <2>1, <2>2, <2>3, EmitFlow DEF EmittedInv
  <2> QED
    BY <2>1, <2>3 DEF EmittedInv
<1>2. CASE EmitFrame
  <2>1. emitted' = emitted + 1 /\ UNCHANGED <<log, work, landed, buffer>>
    BY <1>2 DEF EmitFrame, redis
  <2>2. Pending' \subseteq {emitted + 1}
    BY <2>1 DEF Pending
  <2>3. ASSUME NEW f \in Frames, InLog(f)' \/ InWork(f)' \/ InBuffer(f)'
        PROVE  f <= emitted' /\ f \notin Pending'
    <3>1. f <= emitted
      BY <2>1, <2>3, FlowKept DEF EmittedInv
    <3> QED
      BY <1>0, <2>1, <2>2, <3>1
  <2> QED
    BY <1>0, <2>1, <2>3 DEF EmittedInv
<1>3. CASE ~EmitText /\ ~EmitFrame
  <2>1. emitted' = emitted
    BY <1>3, EmissionWriters
  <2>2. producer' = "appending" => producer = "appending"
    BY <1>3, ReaderLeavesWriter DEF Next, WriterStep, Close, Stop, MarkStopped, TimerFires,
       TakeLock, Land, Acknowledge, HolderLeaves, WriteFails, Crash, writer
  <2>3. producer' = "appending" /\ holder' # "producer" => holder # "producer"
    BY <1>3, ReaderLeavesWriter DEF Next, WriterStep, Close, Stop, MarkStopped, TimerFires,
       TakeLock, Land, Acknowledge, HolderLeaves, WriteFails, Crash, writer
  <2>4. Pending' \subseteq Pending
    BY <2>1, <2>2, <2>3 DEF Pending
  <2>5. ASSUME NEW f \in Frames, InLog(f)' \/ InWork(f)' \/ InBuffer(f)'
        PROVE  f <= emitted' /\ f \notin Pending'
    <3>1. CASE InLog(f) \/ InWork(f) \/ InBuffer(f)
      BY <2>1, <2>4, <3>1 DEF EmittedInv
    <3>2. CASE TakeLock
      <4>1. \/ InLog(f) \/ InBuffer(f)
            \/ holder' = "producer" /\ f \in Pending /\ Pending' = {}
        BY <2>5, <3>2, TakeLockFlow
      <4>2. f \in Pending => f <= emitted
        BY <1>0 DEF Pending
      <4> QED
        BY <2>1, <3>1, <4>1, <4>2
    <3>3. CASE ~TakeLock
      <4>1. Land => InLog(f) \/ InWork(f) \/ InBuffer(f)
        BY <2>5, LandFlow
      <4>2. Acknowledge => InLog(f) \/ InWork(f) \/ InBuffer(f)
        BY <2>5, AcknowledgeFlow
      <4>3. Stop \/ WriteFails => InLog(f) \/ InWork(f) \/ InBuffer(f)
        BY <2>5, DropFlow
      <4>4. UNCHANGED <<log, work, landed, buffer>> => InLog(f) \/ InWork(f) \/ InBuffer(f)
        BY <2>5, FlowKept
      <4> QED
        BY <1>3, <3>1, <3>3, <4>1, <4>2, <4>3, <4>4, LogWriters, WorkWriters, BufferWriters
    <3> QED
      BY <3>2, <3>3
  <2> QED
    BY <2>1, <2>2, <2>5 DEF EmittedInv
<1> QED
  BY <1>1, <1>2, <1>3

LEMMA WholeKept ==
    LogTypes /\ TaskInv /\ WorkInv /\ EmittedInv /\ WholeInv /\ Next => WholeInv'
<1> SUFFICES ASSUME LogTypes, TaskInv, WorkInv, EmittedInv, WholeInv, Next,
                    faults' = 0, producer' # "cancelled", NEW f \in 1 .. emitted'
             PROVE  InLog(f)' \/ InWork(f)' \/ InBuffer(f)' \/ f \in Pending'
  BY DEF WholeInv
<1>0. emitted \in Nat /\ faults \in Nat
  BY DEF LogTypes
<1>1. ~Stop /\ ~WriteFails /\ faults = 0 /\ producer # "cancelled"
  <2>1. ~Stop /\ ~WriteFails
    BY <1>0 DEF Stop, WriteFails
  <2>2. faults = 0
    BY <2>1, ReaderLeavesWriter DEF Next, WriterStep, EmitText, EmitFrame, Close, MarkStopped,
       TimerFires, TakeLock, Land, Acknowledge, Crash
  <2>3. producer = "cancelled" => holder # "producer"
    BY DEF TaskInv
  <2> QED
    BY <2>1, <2>2, <2>3, ReaderLeavesWriter DEF Next, WriterStep, EmitText, EmitFrame, Close,
       MarkStopped, TimerFires, TakeLock, Land, Acknowledge, HolderLeaves, Crash, writer
<1>2. f <= emitted => InLog(f) \/ InWork(f) \/ InBuffer(f) \/ f \in Pending
  <2>1. f <= emitted => f \in 1 .. emitted
    BY <1>0
  <2> QED
    BY <1>1, <2>1 DEF WholeInv
<1>3. CASE EmitText
  <2>1. producer = "ready" /\ emitted' = emitted + 1
    BY <1>3 DEF EmitText
  <2>2. f <= emitted \/ f = emitted + 1
    BY <1>0, <2>1
  <2>3. Pending = {}
    BY <2>1 DEF Pending
  <2> QED
    BY <1>2, <1>3, <2>2, <2>3, EmitFlow
<1>4. CASE EmitFrame
  <2>1. /\ producer = "ready" /\ emitted' = emitted + 1 /\ producer' = "appending"
        /\ UNCHANGED <<log, work, landed, buffer, holder>>
    BY <1>4 DEF EmitFrame, redis
  <2>2. f <= emitted \/ f = emitted + 1
    BY <1>0, <2>1
  <2>3. Pending = {} /\ holder # "producer"
    BY <2>1 DEF Pending, TaskInv
  <2>4. Pending' = {emitted + 1}
    BY <2>1, <2>3 DEF Pending
  <2> QED
    BY <1>2, <2>1, <2>2, <2>3, <2>4, FlowKept
<1>5. CASE ~EmitText /\ ~EmitFrame
  <2>1. f <= emitted
    BY <1>0, <1>5, EmissionWriters
  <2>2. CASE TakeLock
    BY <1>2, <2>1, <2>2, TakeLockFlow
  <2>3. CASE ~TakeLock
    <3>1. Pending \subseteq Pending'
      BY <1>1, <1>5, <2>3, EmissionWriters, ReaderLeavesWriter DEF Next, WriterStep, Close,
         MarkStopped, TimerFires, Land, Acknowledge, HolderLeaves, Crash, writer, Pending
    <3>2. Land => InLog(f)' \/ InWork(f)' \/ InBuffer(f)' \/ f \in Pending'
      BY <1>2, <2>1, <3>1, LandFlow
    <3>3. Acknowledge => InLog(f)' \/ InWork(f)' \/ InBuffer(f)' \/ f \in Pending'
      BY <1>2, <2>1, <3>1, AcknowledgeFlow
    <3>4. UNCHANGED <<log, work, landed, buffer>>
            => InLog(f)' \/ InWork(f)' \/ InBuffer(f)' \/ f \in Pending'
      BY <1>2, <2>1, <3>1, FlowKept
    <3> QED
      BY <1>1, <1>5, <2>3, <3>2, <3>3, <3>4, LogWriters, WorkWriters, BufferWriters
  <2> QED
    BY <2>2, <2>3
<1> QED
  BY <1>3, <1>4, <1>5

\* Landing moves the first entry of the work to the end of the log.
LEMMA LandKeepsOrder == LogTypes /\ WorkInv /\ OrderInv /\ Land => OrderInv'
<1> SUFFICES ASSUME LogTypes, WorkInv, OrderInv, Land PROVE OrderInv'
  OBVIOUS
<1>0. LogAscends /\ WorkAscends /\ Ascending(buffer) /\ OneAfterAnother
  BY DEF OrderInv
<1>1. /\ work' = work /\ Open = DOMAIN work /\ Open' = Open \ {1} /\ 1 \in DOMAIN work
      /\ Len(log) \in Nat /\ DOMAIN log = 1 .. Len(log) /\ DOMAIN log' = 1 .. (Len(log) + 1)
      /\ \A i \in 1 .. Len(log) : log'[i] = log[i]
      /\ log'[Len(log) + 1].frames = work[1].frames
  BY LandEffect
<1>2. buffer' = buffer
  BY DEF Land
<1>3. \A k \in Open' : k \in Open /\ 1 \in Open /\ 1 < k
  <2>1. work \in Seq(Works)
    BY DEF LogTypes
  <2> QED
    BY <1>1, <2>1
<1>4. LogAscends'
  <2>1. ASSUME NEW i \in 1 .. (Len(log) + 1) PROVE Ascending(log'[i].frames)
    <3>1. i \in 1 .. Len(log) \/ i = Len(log) + 1
      BY <1>1
    <3>2. Ascending(work[1].frames)
      BY <1>0, <1>1 DEF WorkAscends
    <3>3. i \in 1 .. Len(log) => Ascending(log[i].frames)
      BY <1>0, <1>1 DEF LogAscends
    <3> QED
      BY <1>1, <3>1, <3>2, <3>3
  <2>2. ASSUME NEW i \in 1 .. (Len(log) + 1), NEW j \in 1 .. (Len(log) + 1), i < j,
               NEW f \in Range(log'[i].frames), NEW g \in Range(log'[j].frames)
        PROVE  f < g
    <3>1. i \in 1 .. Len(log) /\ (j \in 1 .. Len(log) \/ j = Len(log) + 1)
      BY <1>1, <2>2
    <3>2. f \in Range(log[i].frames) /\ f \in Frames /\ InLog(f)
      BY <1>1, <2>2, <3>1, FramesTyped
    <3>3. CASE j \in 1 .. Len(log)
      BY <1>0, <1>1, <2>2, <3>1, <3>2, <3>3 DEF LogAscends
    <3>4. CASE j = Len(log) + 1
      <4>1. g \in Range(work[1].frames)
        BY <1>1, <2>2, <3>4
      <4>2. g \in Frames /\ InWork(g)
        BY <1>1, <4>1, FramesTyped
      <4> QED
        BY <1>0, <3>2, <4>2 DEF OneAfterAnother
    <3> QED
      BY <3>1, <3>3, <3>4
  <2> QED
    BY <1>1, <2>1, <2>2 DEF LogAscends
<1>5. WorkAscends'
  BY <1>0, <1>1 DEF WorkAscends
<1>6. OneAfterAnother'
  <2>1. ASSUME NEW f \in Frames, NEW g \in Frames, f \in Range(work[1].frames), InWork(g)'
        PROVE  f < g
    <3>1. PICK k \in Open' : g \in Range(work'[k].frames)
      BY <2>1 DEF InWork
    <3>2. g \in Range(work[k].frames)
      BY <1>1, <3>1
    <3> QED
      BY <1>0, <1>3, <2>1, <3>2 DEF WorkAscends
  <2>2. ASSUME NEW f \in Frames, NEW g \in Frames
        PROVE  /\ InLog(f)' <=> InLog(f) \/ f \in Range(work[1].frames)
               /\ InWork(f) <=> InWork(f)' \/ f \in Range(work[1].frames)
               /\ InWork(g) <=> InWork(g)' \/ g \in Range(work[1].frames)
               /\ InBuffer(g)' <=> InBuffer(g)
    BY LandFlow
  <2>3. ASSUME NEW f \in Frames, NEW g \in Frames
        PROVE  /\ InLog(f)' /\ InWork(g)' => f < g
               /\ InLog(f)' /\ InBuffer(g)' => f < g
               /\ InWork(f)' /\ InBuffer(g)' => f < g
    BY <1>0, <2>1, <2>2 DEF OneAfterAnother
  <2> QED
    BY <2>3 DEF OneAfterAnother
<1> QED
  BY <1>0, <1>2, <1>4, <1>5, <1>6 DEF OrderInv

\* The one who takes the lock writes the buffered text before its own words.
LEMMA TakeLockKeepsOrder == LogTypes /\ TaskInv /\ WorkInv /\ EmittedInv /\ OrderInv /\ TakeLock => OrderInv'
<1> SUFFICES ASSUME LogTypes, TaskInv, WorkInv, EmittedInv, OrderInv, TakeLock PROVE OrderInv'
  OBVIOUS
<1>0. /\ LogAscends /\ WorkAscends /\ Ascending(buffer) /\ OneAfterAnother
      /\ emitted \in Nat /\ Frames \subseteq Nat
  BY DEF OrderInv, LogTypes, Frames
<1>1. log' = log /\ buffer' = << >>
  BY DEF TakeLock, redis
<1>2. LogAscends' /\ Ascending(buffer')
  BY <1>0, <1>1 DEF LogAscends, Ascending
<1>3. ASSUME NEW f \in Frames
      PROVE  /\ (InLog(f)' <=> InLog(f)) /\ ~InBuffer(f)'
             /\ InWork(f)' => InBuffer(f) \/ f \in Pending
  BY TakeLockFlow
<1>4. ASSUME NEW f \in Frames, NEW g \in Pending, InLog(f) \/ InBuffer(f)
      PROVE  f < g
  <2>1. f <= emitted /\ f \notin Pending /\ g = emitted
    BY <1>4 DEF EmittedInv, Pending
  <2> QED
    BY <1>0, <1>4, <2>1
<1>5. OneAfterAnother'
  <2>1. ASSUME NEW f \in Frames, NEW g \in Frames
        PROVE  /\ InLog(f)' /\ InWork(g)' => f < g
               /\ InLog(f)' /\ InBuffer(g)' => f < g
               /\ InWork(f)' /\ InBuffer(g)' => f < g
    BY <1>0, <1>3, <1>4 DEF OneAfterAnother
  <2> QED
    BY <2>1 DEF OneAfterAnother
<1>6. WorkAscends'
  <2>1. /\ Open' = DOMAIN work' /\ DOMAIN work' = 1 .. Len(work') /\ holder' \in ToSet(waiting)
        /\ holder = "nobody"
        /\ \/ /\ holder' = "timer" /\ Len(work') = 1 /\ work'[1] = Entry(buffer, "none")
           \/ /\ holder' # "timer" /\ buffer = << >> /\ Len(work') = 1 /\ work'[1] = Own(holder')
           \/ /\ holder' # "timer" /\ Len(work') = 2
              /\ work'[1] = Entry(buffer, "none") /\ work'[2] = Own(holder')
    BY TakeLockEffect DEF EmittedInv
  <2>2. Entry(buffer, "none").frames = buffer
    BY DEF Entry
  <2>3. holder' # "timer" =>
          Ascending(Own(holder').frames) /\ Range(Own(holder').frames) \subseteq Pending
    <3> DEFINE task == holder'
    <3>1. task # "timer" => task \in {"producer", "ender"}
      BY <2>1 DEF LogTypes, ToSet, Tasks
    <3>2. Own(task) = Own(holder')
      BY DEF Own
    <3> HIDE DEF task
    <3>3. task # "timer" =>
            /\ Ascending(Own(task).frames)
            /\ Range(Own(task).frames) =
                 IF task = "producer" /\ producer = "appending" THEN {emitted} ELSE {}
      BY <3>1, OwnFrames
    <3> QED
      BY <2>1, <3>2, <3>3 DEF task, Pending
  <2>4. CASE Len(work') = 1
    <3>1. Open' = {1} /\ Ascending(work'[1].frames)
      BY <1>0, <2>1, <2>2, <2>3, <2>4
    <3> QED
      BY <3>1 DEF WorkAscends
  <2>5. CASE holder' # "timer" /\ Len(work') = 2
             /\ work'[1] = Entry(buffer, "none") /\ work'[2] = Own(holder')
    <3>1. Open' = {1, 2}
      BY <2>1, <2>5
    <3>2. /\ Ascending(work'[1].frames) /\ work'[1].frames = buffer
          /\ Ascending(work'[2].frames) /\ Range(work'[2].frames) \subseteq Pending
      BY <1>0, <2>2, <2>3, <2>5
    <3>3. ASSUME NEW f \in Range(buffer), NEW g \in Pending PROVE f < g
      <4>1. f \in Frames /\ InBuffer(f)
        BY FramesTyped DEF InBuffer
      <4> QED
        BY <1>4, <4>1
    <3>4. \A i, j \in {1, 2} : i < j => i = 1 /\ j = 2
      OBVIOUS
    <3>5. ASSUME NEW i \in Open', NEW j \in Open', i < j,
                 NEW f \in Range(work'[i].frames), NEW g \in Range(work'[j].frames)
          PROVE  f < g
      <4>1. i = 1 /\ j = 2
        BY <3>1, <3>4, <3>5
      <4> QED
        BY <3>2, <3>3, <3>5, <4>1
    <3> QED
      BY <3>1, <3>2, <3>5 DEF WorkAscends
  <2> QED
    BY <2>1, <2>4, <2>5
<1> QED
  BY <1>2, <1>5, <1>6 DEF OrderInv

LEMMA OrderKept ==
    LogTypes /\ TaskInv /\ WorkInv /\ EmittedInv /\ OrderInv /\ Next => OrderInv'
<1> SUFFICES ASSUME LogTypes, TaskInv, WorkInv, EmittedInv, OrderInv, Next PROVE OrderInv'
  OBVIOUS
<1>0. /\ LogAscends /\ WorkAscends /\ Ascending(buffer) /\ OneAfterAnother
      /\ emitted \in Nat /\ Frames \subseteq Nat
  BY DEF OrderInv, LogTypes, Frames
<1>1. CASE EmitText
  <2>1. UNCHANGED <<log, work, landed>> /\ buffer' = Append(buffer, emitted + 1)
    BY <1>1 DEF EmitText, redis
  <2>2. LogAscends' /\ WorkAscends'
    BY <1>0, <2>1 DEF LogAscends, WorkAscends, Open
  <2>3. ASSUME NEW f, InLog(f) \/ InWork(f) \/ InBuffer(f)
        PROVE  f < emitted + 1
    <3>1. f \in Frames /\ f \in Nat
      BY <2>3, FramesTyped
    <3>2. f <= emitted
      BY <2>3, <3>1 DEF EmittedInv
    <3> QED
      BY <1>0, <3>1, <3>2
  <2>4. Ascending(buffer')
    <3>1. buffer \in Seq(Nat) /\ emitted + 1 \in Nat
      BY LogConstants DEF LogTypes, Frames
    <3>2. /\ Len(buffer) \in Nat /\ DOMAIN buffer = 1 .. Len(buffer)
          /\ DOMAIN buffer' = 1 .. (Len(buffer) + 1)
          /\ \A i \in 1 .. Len(buffer) : buffer'[i] = buffer[i] /\ InBuffer(buffer[i])
          /\ buffer'[Len(buffer) + 1] = emitted + 1
      <4>1. /\ buffer' \in Seq(Nat) /\ Len(buffer') = Len(buffer) + 1
            /\ \A i \in 1 .. Len(buffer) : buffer'[i] = buffer[i]
            /\ buffer'[Len(buffer) + 1] = emitted + 1
        BY <2>1, <3>1, AppendLaws
      <4> QED
        BY <3>1, <4>1 DEF InBuffer, Range
    <3>3. ASSUME NEW p \in 1 .. (Len(buffer) + 1), NEW q \in 1 .. (Len(buffer) + 1), p < q
          PROVE  buffer'[p] < buffer'[q]
      <4>1. p \in 1 .. Len(buffer) /\ (q \in 1 .. Len(buffer) \/ q = Len(buffer) + 1)
        BY <3>2, <3>3
      <4>2. buffer'[p] = buffer[p] /\ buffer[p] < emitted + 1
        BY <2>3, <3>2, <4>1
      <4>3. q \in 1 .. Len(buffer) => buffer[p] < buffer[q] /\ buffer'[q] = buffer[q]
        BY <1>0, <3>2, <3>3, <4>1 DEF Ascending
      <4> QED
        BY <3>2, <4>1, <4>2, <4>3
    <3> QED
      BY <3>2, <3>3 DEF Ascending
  <2>5. OneAfterAnother'
    <3>1. ASSUME NEW f \in Frames, NEW g \in Frames
          PROVE  /\ InLog(f)' /\ InWork(g)' => f < g
                 /\ InLog(f)' /\ InBuffer(g)' => f < g
                 /\ InWork(f)' /\ InBuffer(g)' => f < g
      <4>1. /\ (InLog(f)' <=> InLog(f)) /\ (InWork(f)' <=> InWork(f)) /\ (InWork(g)' <=> InWork(g))
            /\ InBuffer(g)' <=> InBuffer(g) \/ g = emitted + 1
        BY <1>1, EmitFlow
      <4> QED
        BY <1>0, <2>3, <4>1 DEF OneAfterAnother
    <3> QED
      BY <3>1 DEF OneAfterAnother
  <2> QED
    BY <2>2, <2>4, <2>5 DEF OrderInv
<1>2. CASE Acknowledge
  <2>1. log' = log /\ buffer' = buffer
    BY <1>2 DEF Acknowledge, redis
  <2>2. LogAscends' /\ Ascending(buffer')
    BY <1>0, <2>1 DEF LogAscends
  <2>3. OneAfterAnother'
    <3>1. ASSUME NEW f \in Frames
          PROVE  (InLog(f)' <=> InLog(f)) /\ (InWork(f)' <=> InWork(f)) /\ (InBuffer(f)' <=> InBuffer(f))
      BY <1>2, AcknowledgeFlow
    <3> QED
      BY <1>0, <3>1 DEF OneAfterAnother
  <2>4. WorkAscends'
    <3>1. CASE /\ Open' = DOMAIN work' /\ DOMAIN work' = 1 .. Len(work')
               /\ \A i \in DOMAIN work' : i + 1 \in Open /\ work'[i] = work[i + 1]
      <4>1. ASSUME NEW i \in Open', NEW j \in Open', i < j
            PROVE  i + 1 < j + 1
        BY <3>1, <4>1
      <4> QED
        BY <1>0, <3>1, <4>1 DEF WorkAscends
    <3>2. CASE Open' = {}
      BY <3>2 DEF WorkAscends
    <3> QED
      BY <1>2, <3>1, <3>2, AcknowledgeEffect
  <2> QED
    BY <2>2, <2>3, <2>4 DEF OrderInv
<1>3. CASE Stop \/ WriteFails
  <2>1. UNCHANGED <<log, buffer>>
    BY <1>3, StopEffect DEF WriteFails, redis
  <2>2. Open' = {} \/ (Open' = Open /\ work' = work)
    BY <1>3, StopEffect, LeavesEffect DEF WriteFails
  <2>3. LogAscends' /\ Ascending(buffer') /\ WorkAscends'
    BY <1>0, <2>1, <2>2 DEF LogAscends, WorkAscends
  <2>4. OneAfterAnother'
    <3>1. ASSUME NEW f \in Frames
          PROVE  (InLog(f)' <=> InLog(f)) /\ (InWork(f)' => InWork(f)) /\ (InBuffer(f)' <=> InBuffer(f))
      BY <1>3, DropFlow
    <3> QED
      BY <1>0, <3>1 DEF OneAfterAnother
  <2> QED
    BY <2>3, <2>4 DEF OrderInv
<1>4. CASE UNCHANGED <<log, work, landed, buffer>>
  BY <1>4 DEF OrderInv, LogAscends, WorkAscends, OneAfterAnother, InLog, InWork, InBuffer, Open
<1>5. CASE Land \/ TakeLock
  BY <1>5, LandKeepsOrder, TakeLockKeepsOrder
<1> QED
  BY <1>1, <1>2, <1>3, <1>4, <1>5, LogWriters, WorkWriters, BufferWriters

LEMMA EndKept ==
    LogTypes /\ TaskInv /\ WorkInv /\ EmittedInv /\ EndInv /\ Next => EndInv'
<1> SUFFICES ASSUME LogTypes, TaskInv, WorkInv, EmittedInv, EndInv, Next PROVE EndInv'
  OBVIOUS
<1> DEFINE Ended == \E i \in DOMAIN log : log[i].terminal # "none"
<1>0. /\ Len(log) \in Nat /\ DOMAIN log = 1 .. Len(log) /\ stored \in 0 .. Len(log)
      /\ \A i \in DOMAIN log : i \in Nat
  BY DEF LogTypes
<1>1. Ended => /\ buffer = << >> /\ producer \notin {"ready", "appending"}
               /\ \A k \in Open : work[k].terminal # "none"
  BY DEF EndInv
<1>2. CASE Land
  <2>1. /\ work' = work /\ Open = DOMAIN work /\ Open' = Open \ {1} /\ 1 \in DOMAIN work
        /\ DOMAIN log' = 1 .. (Len(log) + 1)
        /\ \A i \in 1 .. Len(log) : log'[i] = log[i]
        /\ log'[Len(log) + 1].terminal = work[1].terminal
    BY <1>2, LandEffect
  <2>2. UNCHANGED <<buffer, producer, stored>> /\ holder # "nobody"
    BY <1>2 DEF Land, reader
  <2>3. ASSUME NEW i \in 1 .. (Len(log) + 1), NEW j \in 1 .. (Len(log) + 1), i < j,
               log'[i].terminal # "none"
        PROVE  log'[j].terminal # "none"
    <3>1. i \in 1 .. Len(log) /\ (j \in 1 .. Len(log) \/ j = Len(log) + 1)
      BY <1>0, <2>3
    <3>2. log[i].terminal # "none"
      BY <2>1, <2>3, <3>1
    <3>3. CASE j \in 1 .. Len(log)
      BY <1>0, <2>1, <2>3, <3>1, <3>2, <3>3 DEF EndInv
    <3>4. CASE j = Len(log) + 1
      BY <1>0, <1>1, <2>1, <3>1, <3>2, <3>4
    <3> QED
      BY <3>1, <3>3, <3>4
  <2>4. ASSUME NEW i \in 1 .. (Len(log) + 1), log'[i].terminal # "none"
        PROVE  /\ stored < i /\ buffer = << >> /\ producer \notin {"ready", "appending"}
               /\ \A k \in Open' : work[k].terminal # "none"
    <3>1. CASE i \in 1 .. Len(log)
      <4>1. log[i].terminal # "none"
        BY <2>1, <2>4, <3>1
      <4> QED
        BY <1>0, <2>1, <3>1, <4>1 DEF EndInv
    <3>2. CASE i = Len(log) + 1
      <4>1. work[1].terminal # "none"
        BY <2>1, <2>4, <3>2
      <4>2. 1 = Len(work) /\ holder # "timer" /\ (holder = "producer" => producer = "closing")
        BY <2>1, <4>1 DEF WorkInv
      <4>3. holder \in {"producer", "ender"}
        BY <2>2, <4>2 DEF LogTypes, Tasks
      <4>4. buffer = << >> /\ producer \notin {"ready", "appending"}
        BY <4>2, <4>3 DEF TaskInv
      <4>5. Open' = {}
        <5>1. DOMAIN work = 1 .. 1
          BY <4>2 DEF LogTypes
        <5> QED
          BY <2>1, <5>1
      <4>6. stored < i
        BY <1>0, <3>2
      <4> QED
        BY <4>4, <4>5, <4>6
    <3> QED
      BY <1>0, <3>1, <3>2
  <2> QED
    BY <2>1, <2>2, <2>3, <2>4 DEF EndInv
<1>3. CASE UNCHANGED log /\ ~Ended
  BY <1>3 DEF EndInv
<1>4. CASE UNCHANGED log /\ Ended /\ UNCHANGED stored
  <2>1. ~EmitText /\ ~EmitFrame /\ ~Close
    BY <1>1, <1>4 DEF EmitText, EmitFrame, Close
  <2>2. buffer' = << >>
    BY <1>1, <1>4, <2>1, BufferWriters DEF TakeLock
  <2>3. producer' \notin {"ready", "appending"}
    BY <1>1, <1>4, <2>1, ReaderLeavesWriter DEF Next, WriterStep, Stop, MarkStopped,
       TimerFires, TakeLock, Land, Acknowledge, HolderLeaves, WriteFails, Crash, writer
  <2>4. ASSUME NEW k \in Open'
        PROVE  work'[k].terminal # "none"
    <3>1. CASE TakeLock
      <4>1. /\ Open' = DOMAIN work' /\ DOMAIN work' = 1 .. Len(work') /\ holder' \in ToSet(waiting)
            /\ \/ /\ holder' = "timer" /\ Len(work') = 1 /\ work'[1] = Entry(buffer, "none")
               \/ /\ holder' # "timer" /\ buffer = << >> /\ Len(work') = 1 /\ work'[1] = Own(holder')
               \/ /\ holder' # "timer" /\ buffer # << >> /\ Len(work') = 2
        BY <3>1, TakeLockEffect DEF EmittedInv
      <4>2. holder' # "timer"
        BY <1>1, <1>4, <4>1 DEF TaskInv
      <4>3. Len(work') = 1 /\ work'[1] = Own(holder') /\ k = 1
        BY <1>1, <1>4, <2>4, <4>1, <4>2
      <4> QED
        BY <1>1, <1>4, <4>3 DEF Own, Entry
    <3>2. CASE Acknowledge
      <4>1. CASE /\ Open' = DOMAIN work'
                 /\ \A i \in DOMAIN work' : i + 1 \in Open /\ work'[i] = work[i + 1]
        BY <1>1, <1>4, <2>4, <4>1
      <4>2. CASE Open' = {}
        BY <2>4, <4>2
      <4> QED
        BY <3>2, <4>1, <4>2, AcknowledgeEffect
    <3>3. CASE Stop \/ WriteFails
      <4>1. Open' = {} \/ (Open' = Open /\ work' = work)
        BY <3>3, StopEffect, LeavesEffect DEF WriteFails
      <4> QED
        BY <1>1, <1>4, <2>4, <4>1
    <3>4. CASE UNCHANGED <<work, landed>>
      BY <1>1, <1>4, <2>4, <3>4 DEF Open
    <3>5. CASE Land
      <4>1. Open' = Open \ {1} /\ work' = work
        BY <3>5, LandEffect
      <4> QED
        BY <1>1, <1>4, <2>4, <4>1
    <3> QED
      BY <3>1, <3>2, <3>3, <3>4, <3>5, WorkWriters
  <2> QED
    BY <1>4, <2>2, <2>3, <2>4 DEF EndInv
<1>5. CASE ReadPage
  <2>1. UNCHANGED <<log, buffer, producer, work, landed>>
    BY <1>5 DEF ReadPage, writer, redis
  <2>2. stored' = stored \/ ~Ended
    <3> DEFINE page == First .. Len(log)
    <3>1. \/ stored' = stored
          \/ page # {} /\ ~(\E i \in page : log[i].terminal # "none")
      BY <1>5 DEF ReadPage, Keeps
    <3>2. ASSUME Ended, page # {}
          PROVE  \E i \in page : log[i].terminal # "none"
      <4>1. PICK i \in DOMAIN log : log[i].terminal # "none"
        BY <3>2
      <4>2. First \in Nat /\ 1 <= First /\ First <= Len(log)
        BY <1>0, <3>2, FirstLaws
      <4>3. Len(log) \in page /\ Len(log) \in DOMAIN log
        BY <1>0, <4>2
      <4>4. log[Len(log)].terminal # "none"
        <5>1. i = Len(log) \/ i < Len(log)
          BY <1>0, <4>1
        <5> QED
          BY <4>1, <4>3, <5>1 DEF EndInv
      <4> QED
        BY <4>3, <4>4
    <3> QED
      BY <3>1, <3>2
  <2> QED
    BY <1>3, <1>4, <2>1, <2>2
<1>6. stored' = stored \/ ReadPage
  BY WriterLeavesReader DEF Next, ReaderStep, Attach, Detach, ReadTail, TimePasses, reader
<1> QED
  BY <1>2, <1>3, <1>4, <1>5, <1>6, LogWriters

LEMMA ChainKept ==
    "unheard" \notin FaultKinds
    /\ LogTypes /\ TaskInv /\ WorkInv /\ EmittedInv /\ ChainInv /\ Next => ChainInv'
<1> SUFFICES ASSUME "unheard" \notin FaultKinds, LogTypes, TaskInv, WorkInv, EmittedInv, ChainInv,
                    Next
             PROVE  ChainInv'
  OBVIOUS
<1> DEFINE Lost(j) == log[j].prev # j - 1
<1>0. /\ Len(log) \in Nat /\ DOMAIN log = 1 .. Len(log) /\ lastId \in Nat
      /\ landed \in BOOLEAN
  BY DEF LogTypes
<1>1. \/ Linked \/ Over \/ LastWords
      \/ producer = "cancelled" /\ buffer = << >> /\ holder = "nobody"
  BY DEF ChainInv
<1>2. \A j \in DOMAIN log : Lost(j) =>
          j = Len(log) /\ (ender \in {"done", "failed"} \/ (LastWords /\ landed))
  BY DEF ChainInv
<1>3. holder # "nobody" => ~Over
  BY DEF TaskInv, Over
<1>4. Over => ender \notin {"none", "marking"} \/ producer = "done"
  BY DEF Over
<1>5. CASE Land
  <2>1. /\ work' = work /\ ~landed /\ landed' = TRUE
        /\ Len(log') = Len(log) + 1 /\ DOMAIN log' = 1 .. (Len(log) + 1)
        /\ \A i \in 1 .. Len(log) : log'[i] = log[i]
        /\ log'[Len(log) + 1].prev = lastId
    BY <1>5, LandEffect DEF Land
  <2>2. holder # "nobody" /\ UNCHANGED <<holder, producer, ender, buffer, lastId>>
    BY <1>5 DEF Land
  <2>3. lastId = Len(log) \/ LastWords
    BY <1>1, <1>3, <2>1, <2>2 DEF Linked
  <2>4. LastWords' <=> LastWords
    BY <2>1, <2>2 DEF LastWords
  <2>5. \A j \in 1 .. Len(log) : log'[j].prev = j - 1
    BY <1>0, <1>2, <1>3, <2>1, <2>2 DEF Over
  <2>6. ASSUME NEW j \in 1 .. (Len(log) + 1), log'[j].prev # j - 1
        PROVE  j = Len(log) + 1 /\ LastWords
    <3>1. j = Len(log) + 1
      BY <1>0, <2>5, <2>6
    <3>2. lastId # Len(log)
      <4>1. log'[j].prev = lastId /\ j - 1 = Len(log)
        BY <1>0, <2>1, <3>1
      <4> QED
        BY <2>6, <4>1
    <3> QED
      BY <2>3, <3>1, <3>2
  <2>7. Linked' \/ LastWords'
    BY <1>0, <2>1, <2>2, <2>3, <2>4 DEF Linked
  <2> QED
    BY <2>1, <2>4, <2>6, <2>7 DEF ChainInv
<1>6. CASE Acknowledge
  <2>1. /\ landed /\ landed' = FALSE /\ log' = log /\ work # << >>
        /\ lastId' = IF work[1].terminal = "none" THEN Len(log) ELSE 0
        /\ Len(work) = 1 => HolderLeaves(IF producer = "appending" /\ holder = "producer"
                                         THEN "ready" ELSE "done")
    BY <1>6, AcknowledgeEffect
  <2>2. holder \in Tasks /\ 1 \in DOMAIN work
    <3>1. holder # "nobody"
      BY <1>6 DEF Acknowledge
    <3>2. 1 \in DOMAIN work
      BY <2>1, TailLaws DEF LogTypes
    <3> QED
      BY <3>1, <3>2 DEF LogTypes
  <2>3. ASSUME work[1].terminal # "none"
        PROVE  Over'
    <3>1. 1 = Len(work) /\ holder # "timer" /\ (holder = "producer" => producer = "closing")
      BY <2>2, <2>3 DEF WorkInv
    <3> QED
      BY <2>1, <2>2, <3>1 DEF HolderLeaves, Over, Tasks
  <2>4. LastWords => ender' = "done"
    <3>1. LastWords => holder = "ender" /\ producer = "cancelled"
      BY DEF LastWords, TaskInv
    <3> QED
      BY <2>1, <3>1 DEF LastWords, HolderLeaves
  <2>5. ASSUME NEW j \in DOMAIN log, Lost(j)
        PROVE  j = Len(log) /\ ender' = "done"
    BY <1>2, <1>3, <2>2, <2>4, <2>5 DEF Over, Tasks
  <2>6. Linked' \/ Over'
    BY <2>1, <2>3 DEF Linked
  <2> QED
    BY <2>1, <2>5, <2>6 DEF ChainInv
<1>7. CASE WriteFails
  <2>1. /\ holder # "nobody" /\ ~landed /\ HolderLeaves("failed")
        /\ UNCHANGED <<lastId, log>>
    BY <1>7 DEF WriteFails, redis
  <2>2. \A j \in DOMAIN log : ~Lost(j)
    BY <1>2, <1>3, <2>1 DEF Over
  <2>3. lastId = Len(log) \/ LastWords
    BY <1>1, <1>3, <2>1 DEF Linked
  <2>4. LastWords => Over'
    BY <2>1 DEF LastWords, HolderLeaves, Over
  <2>5. landed' = FALSE
    BY <2>1, LeavesEffect
  <2>6. Linked' \/ Over'
    BY <2>1, <2>3, <2>4, <2>5 DEF Linked
  <2> QED
    BY <2>1, <2>2, <2>6 DEF ChainInv
<1>8. CASE Stop
  <2>1. /\ producer \in {"ready", "appending", "closing"} /\ producer' = "cancelled"
        /\ UNCHANGED <<ender, buffer, lastId, log>>
        /\ \/ holder = "producer" /\ holder' = "nobody" /\ landed' = FALSE
           \/ holder # "producer" /\ holder' = holder /\ landed' = landed
    BY <1>8, StopEffect
  <2>2. ender = "none" /\ holder # "ender"
    BY <2>1 DEF TaskInv, LogTypes
  <2>3. Linked
    BY <1>1, <2>1, <2>2 DEF Over, LastWords
  <2>4. holder = "producer" => buffer = << >>
    BY DEF TaskInv
  <2>5. \/ Linked'
        \/ producer' = "cancelled" /\ buffer' = << >> /\ holder' = "nobody"
    BY <2>1, <2>3, <2>4 DEF Linked
  <2>6. \A j \in DOMAIN log : ~Lost(j)
    BY <1>2, <2>2 DEF LastWords
  <2> QED
    BY <2>1, <2>5, <2>6 DEF ChainInv
<1>9. CASE TakeLock
  <2>1. /\ holder = "nobody" /\ ~landed /\ landed' = FALSE /\ holder' \in ToSet(waiting)
        /\ \/ holder' = "timer"
           \/ buffer = << >> /\ Len(work') = 1
           \/ buffer # << >>
    BY <1>9, TakeLockEffect DEF EmittedInv
  <2>2. UNCHANGED <<producer, ender, lastId, log>>
    BY <1>9 DEF TakeLock, redis
  <2>3. ASSUME producer = "cancelled", buffer = << >>
        PROVE  LastWords'
    <3>1. holder' # "timer" /\ holder' # "producer"
      BY <2>1, <2>3 DEF TaskInv
    <3>2. holder' \in Tasks
      BY <2>1 DEF LogTypes, ToSet
    <3> QED
      BY <2>1, <2>3, <3>1, <3>2 DEF LastWords, Tasks
  <2>4. ~LastWords
    BY <2>1 DEF LastWords
  <2>5. Over' <=> Over
    BY <2>2 DEF Over
  <2>6. Linked' \/ Over' \/ LastWords'
    BY <1>1, <2>1, <2>2, <2>3, <2>4, <2>5 DEF Linked
  <2>7. \A j \in DOMAIN log : Lost(j) => j = Len(log) /\ ender \in {"done", "failed"}
    BY <1>2, <2>4
  <2> QED
    BY <2>2, <2>6, <2>7 DEF ChainInv
<1>10. CASE UNCHANGED <<holder, work, landed, log>> /\ ~Acknowledge /\ ~Stop /\ ~TakeLock /\ ~WriteFails /\ ~Land
  <2>1. lastId' = lastId
    BY <1>10, ReaderLeavesWriter DEF Next, WriterStep, EmitText, EmitFrame, Close, MarkStopped,
       TimerFires, Crash, writer
  <2>2. /\ producer = "done" => producer' = "done"
        /\ ender \in {"done", "failed"} => ender' = ender
        /\ producer = "cancelled" => producer' = "cancelled" /\ buffer' = buffer
    BY <1>10, ReaderLeavesWriter DEF Next, WriterStep, EmitText, EmitFrame, Close, MarkStopped,
       TimerFires, Crash, writer
  <2>3. (LastWords' <=> LastWords) /\ (Over => Over')
    BY <1>10, <2>2 DEF LastWords, Over
  <2>4. \A j \in DOMAIN log : Lost(j) =>
          j = Len(log) /\ (ender' \in {"done", "failed"} \/ (LastWords /\ landed))
    BY <1>2, <2>2
  <2>5. \/ Linked \/ Over' \/ LastWords
        \/ producer' = "cancelled" /\ buffer' = << >> /\ holder = "nobody"
    BY <1>1, <2>2, <2>3
  <2> QED
    BY <1>10, <2>1, <2>3, <2>4, <2>5 DEF ChainInv, Linked
<1> QED
  BY <1>5, <1>6, <1>7, <1>8, <1>9, <1>10, LogWriters, WorkWriters

\* The log only grows, so what an entry number stands for does not change.
LEMMA FramesUpToKept ==
    ASSUME LogTypes, WorkInv, Next
    PROVE  /\ Len(log) <= Len(log') /\ Len(log) \in Nat /\ Len(log') \in Nat
           /\ \A i \in 0 .. Len(log) : UNION {Range(log'[j].frames) : j \in 1 .. i} = FramesUpTo(i)
<1>1. CASE Land
  <2>1. /\ Len(log) \in Nat /\ Len(log') = Len(log) + 1
        /\ \A j \in 1 .. Len(log) : log'[j] = log[j]
    BY <1>1, LandEffect
  <2>2. ASSUME NEW i \in 0 .. Len(log)
        PROVE  UNION {Range(log'[j].frames) : j \in 1 .. i} = FramesUpTo(i)
    <3>1. \A j \in 1 .. i : j \in 1 .. Len(log)
      BY <2>1
    <3> QED
      BY <2>1, <3>1 DEF FramesUpTo
  <2> QED
    BY <2>1, <2>2
<1>2. CASE log' = log
  BY <1>2 DEF FramesUpTo, LogTypes
<1> QED
  BY <1>1, <1>2, LogWriters

LEMMA FramesUpToGrows ==
    ASSUME NEW i \in Nat, NEW j \in Nat, i <= j
    PROVE  /\ FramesUpTo(i) \subseteq FramesUpTo(j)
           /\ FramesUpTo(j) = FramesUpTo(i) \cup UNION {Range(log[k].frames) : k \in (i + 1) .. j}
<1>1. \A k : k \in 1 .. j <=> k \in 1 .. i \/ k \in (i + 1) .. j
  OBVIOUS
<1> QED
  BY <1>1 DEF FramesUpTo

LEMMA ReaderKept ==
    MaxEntries >= 2 /\ LogTypes /\ TaskInv /\ WorkInv /\ ChainInv /\ ReaderInv /\ Next => ReaderInv'
<1> SUFFICES ASSUME MaxEntries >= 2, LogTypes, TaskInv, WorkInv, ChainInv, ReaderInv, Next
             PROVE  ReaderInv'
  OBVIOUS
<1>0. /\ Len(log) \in Nat /\ cursor \in 0 .. Len(log) /\ start \in 0 .. Len(log)
      /\ trimmed \in 0 .. Len(log)
      /\ DOMAIN log = 1 .. Len(log) /\ MaxEntries \in Nat
  BY LogConstants DEF LogTypes
<1>1. CASE UNCHANGED reader
  <2>1. FramesUpTo(cursor)' = FramesUpTo(cursor) /\ FramesUpTo(start)' = FramesUpTo(start)
    <3>1. /\ UNION {Range(log'[j].frames) : j \in 1 .. cursor} = FramesUpTo(cursor)
          /\ UNION {Range(log'[j].frames) : j \in 1 .. start} = FramesUpTo(start)
      BY <1>0, FramesUpToKept
    <3>2. cursor' = cursor /\ start' = start
      BY <1>1 DEF reader
    <3> QED
      BY <3>1, <3>2 DEF FramesUpTo
  <2> QED
    BY <1>1, <2>1 DEF ReaderInv, reader
<1>2. CASE Attach
  <2>1. told' = 0 /\ start' = cursor'
    BY <1>2 DEF Attach
  <2>2. FramesUpTo(start)' = FramesUpTo(cursor)'
    BY <2>1 DEF FramesUpTo
  <2> QED
    BY <2>1, <2>2 DEF ReaderInv
<1>3. CASE Detach \/ ReadTail
  <2>1. UNCHANGED <<log, told, cursor, start, rendered>>
    BY <1>3, ReaderLeavesWriter DEF ReaderStep, Detach, ReadTail
  <2> QED
    BY <2>1 DEF ReaderInv, FramesUpTo
<1>4. CASE ReadPage
  <2>1. /\ log' = log /\ start' = start /\ cursor' = Len(log)
        /\ rendered' = rendered \cup UNION {Range(log[i].frames) : i \in First .. Len(log)}
        /\ told' = IF Truncated THEN LastFrame(First - 1) ELSE told
    BY <1>4, FirstLaws, ReaderLeavesWriter DEF ReaderStep, ReadPage
  <2>2. /\ FramesUpTo(cursor)' = FramesUpTo(Len(log))
        /\ FramesUpTo(start)' = FramesUpTo(start)
    BY <2>1 DEF FramesUpTo
  <2>3. /\ First = (IF cursor >= trimmed THEN cursor ELSE trimmed) + 1
        /\ First \in 1 .. (Len(log) + 1) /\ First - 1 \in 0 .. Len(log)
    BY FirstLaws
  <2>4. /\ FramesUpTo(Len(log)) = FramesUpTo(First - 1) \cup UNION {Range(log[k].frames) : k \in First .. Len(log)}
        /\ FramesUpTo(First - 1) \subseteq FramesUpTo(Len(log))
        /\ FramesUpTo(cursor) \subseteq FramesUpTo(Len(log))
    <3> DEFINE m == First - 1
    <3>1. m \in Nat /\ m <= Len(log) /\ m + 1 = First
      BY <1>0, <2>3
    <3>2. cursor \in Nat /\ cursor <= Len(log)
      BY <1>0
    <3> HIDE DEF m
    <3>3. /\ FramesUpTo(m) \subseteq FramesUpTo(Len(log))
          /\ FramesUpTo(Len(log)) = FramesUpTo(m) \cup UNION {Range(log[k].frames) : k \in (m + 1) .. Len(log)}
      BY <1>0, <3>1, FramesUpToGrows
    <3>4. FramesUpTo(cursor) \subseteq FramesUpTo(Len(log))
      BY <1>0, <3>2, FramesUpToGrows
    <3> QED
      BY <3>1, <3>3, <3>4 DEF m
  <2>5. ~Truncated => First - 1 = cursor
    <3>1. trimmed = 0 \/ trimmed <= Len(log) - MaxEntries
      BY DEF LogTypes
    <3>2. SUFFICES ASSUME ~Truncated, cursor < trimmed PROVE FALSE
      BY <1>0, <2>3
    <3>3. First = trimmed + 1 /\ First <= Len(log) - 1 /\ First \in DOMAIN log
      BY <1>0, <2>3, <3>1, <3>2
    <3>4. log[First].prev = First - 1
      BY <1>0, <3>3 DEF ChainInv
    <3>5. ~(log[First].prev > cursor)
      BY <1>0, <3>2, <3>3 DEF Truncated
    <3> QED
      BY <1>0, <3>2, <3>3, <3>4, <3>5
  <2>6. /\ LastFrame(First - 1) = 0 \/ LastFrame(First - 1) \in FramesUpTo(First - 1)
        /\ \A f \in FramesUpTo(First - 1) : f <= LastFrame(First - 1)
    BY <2>3, LastFrameLaws
  <2>7. told' = 0 \/ told' \in FramesUpTo(Len(log))
    BY <2>1, <2>4, <2>6 DEF ReaderInv
  <2>8. ASSUME NEW f \in FramesUpTo(Len(log)) \ FramesUpTo(start)
        PROVE  f \in rendered' \/ f <= told'
    <3>1. f \in rendered' \/ f \in FramesUpTo(First - 1)
      BY <2>1, <2>4
    <3>2. CASE f \in FramesUpTo(First - 1) /\ Truncated
      BY <2>1, <2>6, <3>2
    <3>3. CASE f \in FramesUpTo(First - 1) /\ ~Truncated
      BY <2>1, <2>5, <2>8, <3>3 DEF ReaderInv
    <3> QED
      BY <3>1, <3>2, <3>3
  <2> QED
    BY <2>2, <2>7, <2>8 DEF ReaderInv
<1> QED
  BY <1>1, <1>2, <1>3, <1>4, WriterLeavesReader DEF Next, ReaderStep, TimePasses

-----------------------------------------------------------------------------
(* The theorems. *)

LEMMA InitHolds ==
    Init => /\ LogTypes /\ TaskInv /\ WorkInv /\ OrderInv /\ EmittedInv /\ WholeInv /\ EndInv
            /\ ChainInv /\ ReaderInv
<1> SUFFICES ASSUME Init
             PROVE  /\ LogTypes /\ TaskInv /\ WorkInv /\ OrderInv /\ EmittedInv /\ WholeInv
                    /\ EndInv
                    /\ ChainInv /\ ReaderInv
  OBVIOUS
<1>1. /\ log = << >> /\ work = << >> /\ buffer = << >> /\ waiting = << >> /\ emitted = 0
      /\ Len(log) = 0 /\ DOMAIN log = {} /\ DOMAIN work = {} /\ Open = {} /\ Range(buffer) = {}
      /\ ToSet(waiting) = {} /\ DOMAIN buffer = {} /\ DOMAIN waiting = {}
  BY DEF Init, Open, Range, ToSet
<1>2. LogTypes
  <2>1. << >> \in Seq(Frames) /\ << >> \in Seq(Tasks) /\ << >> \in Seq(Works) /\ << >> \in Seq(Entries)
    OBVIOUS
  <2>2. alive \in BOOLEAN /\ landed \in BOOLEAN /\ quiet \in BOOLEAN
    BY DEF Init
  <2>3. 0 \in 0 .. MaxFrames /\ 0 \in 0 .. MaxFaults /\ 0 \in 0 .. Len(log) /\ Len(log) - 0 <= MaxEntries
    BY <1>1, LogConstants
  <2>4. lastId = 0 /\ trimmed = 0 /\ cursor = 0 /\ start = 0 /\ stored = 0 /\ told = 0 /\ faults = 0
    BY DEF Init
  <2> QED
    BY <1>1, <2>1, <2>2, <2>3, <2>4 DEF Init, LogTypes, Tasks
<1>3. TaskInv
  BY <1>1 DEF Init, TaskInv, IsInjective
<1>4. WorkInv
  BY <1>1 DEF Init, WorkInv
<1>5. \A f : ~InLog(f) /\ ~InWork(f) /\ ~InBuffer(f)
  BY <1>1 DEF InLog, InWork, InBuffer
<1>6. OrderInv
  BY <1>1, <1>5 DEF OrderInv, LogAscends, WorkAscends, OneAfterAnother, Ascending
<1>7. EmittedInv /\ WholeInv
  BY <1>1, <1>5 DEF Init, EmittedInv, WholeInv
<1>8. EndInv /\ ChainInv
  BY <1>1 DEF Init, EndInv, ChainInv, Linked
<1>9. ReaderInv
  BY DEF Init, ReaderInv
<1> QED
  BY <1>2, <1>3, <1>4, <1>6, <1>7, <1>8, <1>9

\* The inductive invariant: whoever holds the lock, and wherever a write failed,
\* what the turn has said lies in the log, in the work under the lock, in the
\* buffer and in the hand of the waiting producer, in the order it was said.
LogIInv == LogTypes /\ TaskInv /\ WorkInv /\ OrderInv /\ EmittedInv /\ WholeInv /\ EndInv

THEOREM LogInvariant == Spec => []LogIInv
<1>1. Init => LogIInv
  BY InitHolds DEF LogIInv
<1>2. LogIInv /\ [Next]_vars => LogIInv'
  <2> SUFFICES ASSUME LogIInv, [Next]_vars PROVE LogIInv'
    OBVIOUS
  <2>0. LogTypes /\ TaskInv /\ WorkInv /\ OrderInv /\ EmittedInv /\ WholeInv /\ EndInv
    BY DEF LogIInv
  <2>1. CASE Next
    <3>1. LogTypes'
      <4>1. WriterTypes' /\ RedisTypes' /\ ReaderTypes' /\ waiting' \in Seq(Tasks)
        BY <2>0, <2>1, WriterTypesKept, RedisTypesKept, ReaderTypesKept, TaskKept
      <4> QED
        BY <4>1 DEF LogTypes, WriterTypes, RedisTypes, ReaderTypes
    <3> QED
      BY <2>0, <2>1, <3>1, TaskKept, WorkKept, OrderKept, EmittedKept, WholeKept,
         EndKept DEF LogIInv
  <2>2. CASE UNCHANGED vars
    BY <2>0, <2>2 DEF vars, writer, redis, reader, LogIInv, LogTypes, TaskInv, WorkInv, Open,
       InLog, InWork, InBuffer, Pending, OrderInv, LogAscends, WorkAscends, OneAfterAnother,
       EmittedInv, WholeInv, EndInv
  <2> QED
    BY <2>1, <2>2
<1> QED
  BY <1>1, <1>2, PTL DEF Spec

\* LogIsTheTurn, for any number of frames, entries and failed writes: the log is
\* the turn in the order it spoke, and a turn that ended by itself without a
\* failed write left nothing it said behind.
THEOREM LogStaysTheTurn == Spec => []LogIsTheTurn
<1>1. LogIInv => LogIsTheTurn
  <2> SUFFICES ASSUME LogIInv PROVE LogIsTheTurn
    OBVIOUS
  <2>0. LogTypes /\ TaskInv /\ WorkInv /\ OrderInv /\ EmittedInv /\ WholeInv
    BY DEF LogIInv
  <2>1. TypeOK
    <3>1. /\ alive \in BOOLEAN /\ landed \in BOOLEAN /\ quiet \in BOOLEAN
      BY <2>0 DEF LogTypes
    <3> QED
      BY <2>0, <3>1 DEF TypeOK, LogTypes, Tasks, Works, Entries
  <2>2. LogKeepsOrder
    BY <2>0 DEF OrderInv, LogAscends, LogKeepsOrder, Ascending
  <2>3. NothingLeftBehind
    <3> SUFFICES ASSUME faults = 0, producer = "done"
                 PROVE  FramesUpTo(Len(log)) = 1 .. emitted
      BY DEF NothingLeftBehind
    <3>1. DOMAIN log = 1 .. Len(log) /\ emitted \in 0 .. MaxFrames /\ MaxFrames \in Nat
      BY <2>0, LogConstants DEF LogTypes
    <3>2. \A f : f \in FramesUpTo(Len(log)) <=> InLog(f)
      BY <3>1 DEF FramesUpTo, InLog
    <3>3. buffer = << >> /\ work = << >> /\ Pending = {}
      BY <2>0 DEF TaskInv, WorkInv, Pending
    <3>4. \A f : ~InWork(f) /\ ~InBuffer(f)
      BY <3>3 DEF InWork, InBuffer, Open, Range
    <3>5. \A f \in 1 .. emitted : InLog(f)
      BY <2>0, <3>3, <3>4 DEF WholeInv
    <3>6. ASSUME NEW f, InLog(f) PROVE f \in 1 .. emitted
      <4>1. f \in Frames /\ f <= emitted
        BY <2>0, <3>6, FramesTyped DEF EmittedInv
      <4> QED
        BY <3>1, <4>1 DEF Frames
    <3> QED
      BY <3>2, <3>5, <3>6
  <2> QED
    BY <2>1, <2>2, <2>3 DEF LogIsTheTurn
<1> QED
  BY <1>1, LogInvariant, PTL

\* No resume point lies at or past an ending, for any log and with any failure.
THEOREM ResumePointsStayBefore == Spec => []ResumePointsPrecedeEnding
<1>1. LogIInv => ResumePointsPrecedeEnding
  BY DEF LogIInv, EndInv, ResumePointsPrecedeEnding
<1> QED
  BY <1>1, LogInvariant, PTL

\* ReadersMissNothing. A reader is told of every gap as long as the log keeps two
\* entries at least (it keeps 4000) and no reply to a write that landed is lost:
\* then every entry but the last one names its predecessor.
THEOREM ReadersStayInformed ==
    ASSUME MaxEntries >= 2, "unheard" \notin FaultKinds
    PROVE  Spec => []ReadersMissNothing
<1> DEFINE RInv == ChainInv /\ ReaderInv
<1>1. Init => RInv
  BY InitHolds
<1>2. LogIInv /\ RInv /\ [Next]_vars => RInv'
  <2> SUFFICES ASSUME LogIInv, RInv, [Next]_vars PROVE RInv'
    OBVIOUS
  <2>0. LogTypes /\ TaskInv /\ WorkInv /\ EmittedInv /\ ChainInv /\ ReaderInv
    BY DEF LogIInv
  <2>1. CASE Next
    BY <2>0, <2>1, ChainKept, ReaderKept
  <2>2. CASE UNCHANGED vars
    BY <2>0, <2>2 DEF vars, writer, redis, reader, ChainInv, Linked, LastWords, Over, ReaderInv,
       FramesUpTo
  <2> QED
    BY <2>1, <2>2
<1>3. RInv => GapsAreTold
  BY DEF ReaderInv, GapsAreTold
<1>4. LogIInv => ResumePointsPrecedeEnding
  BY DEF LogIInv, EndInv, ResumePointsPrecedeEnding
<1>5. RInv /\ LogIInv => ReadersMissNothing
  BY <1>3, <1>4 DEF ReadersMissNothing
<1> HIDE DEF RInv
<1> QED
  BY <1>1, <1>2, <1>5, LogInvariant, PTL DEF Spec
=============================================================================
