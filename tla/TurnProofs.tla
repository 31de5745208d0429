----------------------------- MODULE TurnProofs -----------------------------
(***************************************************************************)
(* Theorems about a turn: TurnRegistry, for all sets of turns, threads,    *)
(* keys and replicas, all lives of a claim and all bounds; ThreadContext,  *)
(* what the thread of those turns remembers, for all runs and batches; and *)
(* TurnStream, what the client of one turn hears, for all sets of jobs and *)
(* charts, all intervals and deadlines.  The registry's invariant is seven *)
(* conjuncts, each about one thing and each using the ones before it.      *)
(***************************************************************************)
EXTENDS TurnRegistry, ThreadContext, TurnStream, SubsequenceProofs, SequenceTheorems, FiniteSetTheorems,
        TLAPS

-----------------------------------------------------------------------------
(* The invariant. *)

InFlight == {"keyed", "duplicating", "refusing", "looking"}
Ending == {"done", "stopped", "interrupted"}

\* TypeOK, with the domains it leaves out.
Types ==
    /\ sent \in [Keys -> Turns \cup {None}]
    /\ active \in [Threads -> Turns \cup {None}] /\ ttl \in [Threads -> 0..TTL]
    /\ last \in [Threads -> Turns \cup {None}]
    /\ flag \in SUBSET Turns /\ terminals \in [Turns -> Seq(Ending)]
    /\ call \in [Turns -> InFlight \cup {"new", "started", "duplicate", "already", "refused", "lost"}]
    /\ answer \in [Turns -> Turns \cup {None}]
    /\ run \in [Turns -> {"none", "spawned", "checking", "awaiting", "ending",
                          "raised", "releasing", "unpointing", "over", "dead"}]
    /\ consumer \in [Turns -> {"none", "producing", "marking", "marked", "done",
                               "failed", "cancelled", "dead"}]
    /\ kind \in [Turns -> {None, "stopped", "interrupted"}]
    /\ stopReq \in [Turns -> {"idle", "flagged", "announced", "over"}]
    /\ rep \in [Replicas -> {"up", "draining", "exited", "crashed"}]
    /\ watch \in [Replicas -> {"asleep", "recheck", "refresh"}]
    /\ renewing \in [Replicas -> SUBSET Turns]
    /\ awaited \in SUBSET Turns /\ late \in 0..MaxLate /\ faults \in 0..MaxFaults
    /\ skipped \in 0..faults /\ crossed \in SUBSET Turns /\ faded \in SUBSET Threads

\* A call in flight is on a replica that is up, and whoever holds a send's key
\* is the one the key names.
CallsInv ==
    \A u \in Turns :
        /\ call[u] \in InFlight => rep[HomeOf[u]] = "up"
        /\ call[u] \in {"duplicating", "refusing"} => KeyOf[u] # None
        /\ call[u] \in {"keyed", "refusing", "started"} /\ KeyOf[u] # None => sent[KeyOf[u]] = u

Closed == {"releasing", "unpointing", "over", "dead"}

\* A cancelled turn that has not written its ending knows why it was cancelled.
KnowsWhy(u) ==
    /\ kind[u] \in {"stopped", "interrupted"}
    /\ kind[u] = "stopped" => u \in flag
    /\ kind[u] = "interrupted" => rep[HomeOf[u]] # "up"

\* How a turn's tasks, its call and its replica keep step.
LivesInv ==
    \A u \in Turns :
        /\ call[u] # "started" => run[u] = "none"
        /\ run[u] \in {"none", "spawned"} => consumer[u] = "none"
        /\ run[u] \notin {"none", "over", "dead"} => OnLive(u)
        /\ run[u] = "ending" => consumer[u] = "cancelled"
        /\ run[u] \in Closed => ~Producing(u)
        /\ consumer[u] = "cancelled" /\ Registered(u) => KnowsWhy(u)
        /\ stopReq[u] \in {"flagged", "announced"} => u \in flag

Holds(u) == Listed(u) \/ run[u] \in {"releasing", "unpointing"}

\* While replicas keep time, a turn holds its claim until it has let go of it,
\* and the claim is short by no more than the ticks of the failed renewals, and
\* of the one that is under way.
ClaimsInv ==
    late = 0 /\ skipped <= TTL - 2 => \A u \in Turns :
        /\ Holds(u) => active[ThreadOf[u]] = u
        /\ Listed(u) =>
             /\ ttl[ThreadOf[u]] >= TTL - skipped - 1
             /\ watch[HomeOf[u]] = "asleep" => ttl[ThreadOf[u]] >= TTL - skipped
             /\ watch[HomeOf[u]] = "refresh" =>
                  u \in renewing[HomeOf[u]] \/ ttl[ThreadOf[u]] >= TTL - skipped

\* A log with a mark is closed, and its mark is true.
EndingsInv ==
    \A u \in Turns :
        /\ (\E i \in DOMAIN terminals[u] : terminals[u][i] # "done")
              => consumer[u] = "cancelled" /\ run[u] \in Closed
        /\ \A i \in DOMAIN terminals[u] :
              /\ terminals[u][i] = "stopped" => u \in flag
              /\ terminals[u][i] = "interrupted" => rep[HomeOf[u]] # "up"

\* How far the ending has come: a turn delivers it once, and what a cancelled one
\* may add is one mark, to a delivered ending only if the cancel crossed it.
Told == <<"done">>
EndsOnce(u) ==
    /\ consumer[u] \in {"none", "producing", "marking"} => terminals[u] = <<>>
    /\ consumer[u] \in {"marked", "done"} => terminals[u] = Told
    /\ consumer[u] \in {"failed", "dead"} => terminals[u] \in {<<>>, Told}
    /\ consumer[u] = "cancelled" /\ run[u] \notin Closed =>
         terminals[u] = <<>> \/ (terminals[u] = Told /\ u \in crossed)
    /\ Len(terminals[u]) > 1 =>
         u \in crossed /\ Len(terminals[u]) = 2 /\ terminals[u][1] = "done"
MarksInv == \A u \in Turns : EndsOnce(u)

\* While no round trip has failed, a turn that lets go has marked its log and
\* left a pointer, and one that a drain waited for has let go.
DrainInv ==
    faults = 0 => \A u \in Turns :
        /\ consumer[u] # "failed" /\ run[u] # "raised"
        /\ consumer[u] \in {"marked", "done"} => terminals[u] # <<>>
        /\ run[u] \in {"releasing", "unpointing", "over"} => terminals[u] # <<>>
        /\ run[u] = "unpointing" => last[ThreadOf[u]] # None
        /\ run[u] = "over" => last[ThreadOf[u]] # None \/ ThreadOf[u] \in faded
        /\ run[u] = "over" => active[ThreadOf[u]] # u
        /\ u \in awaited /\ rep[HomeOf[u]] = "exited" => run[u] = "over"

IInv == Types /\ CallsInv /\ LivesInv /\ ClaimsInv /\ EndingsInv /\ MarksInv /\ DrainInv

-----------------------------------------------------------------------------
\* What the assumption on the constants gives, in the form the steps need it.
LEMMA Constants ==
    /\ \A u \in Turns : /\ ThreadOf[u] \in Threads /\ HomeOf[u] \in Replicas
                        /\ KeyOf[u] \in Keys \cup {None} /\ u # None
    /\ TTL \in Nat /\ TTL >= 2 /\ 0 \in 0..TTL /\ TTL \in 0..TTL /\ None \notin Keys
  BY ConstantsAssumption DEF ConstantsAssumption

\* What an entry more makes of a log.
LEMMA EntryLaws ==
    ASSUME NEW s \in Seq(Ending), NEW e \in Ending
    PROVE  /\ Append(s, e) # <<>> /\ Len(Append(s, e)) = Len(s) + 1
           /\ s = <<>> => Append(s, e) = <<e>> /\ Len(<<e>>) = 1
           /\ s = Told => Len(Append(s, e)) = 2 /\ Append(s, e)[1] = "done"
<1>1. Append(s, e) # <<>> /\ Len(Append(s, e)) = Len(s) + 1
  <2>1. Len(Append(s, e)) = Len(s) + 1 /\ Len(s) \in Nat
    OBVIOUS
  <2> QED
    BY <2>1
<1>2. s = <<>> => Append(s, e) = <<e>> /\ Len(<<e>>) = 1
  OBVIOUS
<1>3. s = Told => Len(Append(s, e)) = 2 /\ Append(s, e)[1] = "done"
  <2> DEFINE t == Append(s, e)
  <2>1. \A i \in 1 .. Len(s) : t[i] = s[i]
    OBVIOUS
  <2>2. Len(t) = Len(s) + 1
    BY <1>1
  <2> HIDE DEF t
  <2>3. Len(Told) = 1 /\ Told[1] = "done" /\ 1 \in 1 .. 1
    BY DEF Told
  <2>4. s = Told => Len(t) = 1 + 1 /\ t[1] = "done"
    BY <2>1, <2>2, <2>3, Zenon
  <2>5. s = Told => Len(t) = 2 /\ t[1] = "done"
    BY <2>4
  <2> QED
    BY <2>5 DEF t
<1> QED
  BY <1>1, <1>2, <1>3

\* The types, for which a cancelled turn must know why and a duplicate have a key.
LEMMA TypesKeep == Types /\ CallsInv /\ LivesInv /\ [Next]_vars => Types'
<1> SUFFICES ASSUME Types, CallsInv, LivesInv, [Next]_vars PROVE Types'
  OBVIOUS
<1> USE DEF InFlight, Ending, redis, calls, tasks, loops, bounds, history
<1>1. ASSUME NEW u \in Turns, BeginRefused(u) PROVE Types'
  BY <1>1, ConstantsAssumption DEF BeginRefused, Types
<1>2. ASSUME NEW u \in Turns, ClaimSend(u) PROVE Types'
  <2>1. CASE KeyOf[u] = None \/ sent[KeyOf[u]] = None
    <3>1. sent' = [j \in Keys |-> IF j = KeyOf[u] THEN u ELSE sent[j]] /\ call' = [call EXCEPT ![u] = "keyed"]
      BY <1>2, <2>1 DEF ClaimSend
    <3> QED
      BY <1>2, <3>1 DEF ClaimSend, Types, InFlight, redis, calls, tasks, loops, bounds, history
  <2>2. CASE ~(KeyOf[u] = None \/ sent[KeyOf[u]] = None)
    <3>1. sent' = sent /\ call' = [call EXCEPT ![u] = "duplicating"]
      BY <1>2, <2>2 DEF ClaimSend
    <3> QED
      BY <1>2, <3>1 DEF ClaimSend, Types, InFlight, redis, calls, tasks, loops, bounds, history
  <2> QED
    BY <2>1, <2>2
<1>3. ASSUME NEW u \in Turns, AnswerDuplicate(u) PROVE Types'
  <2>1. sent[KeyOf[u]] \in Turns \cup {None}
    BY <1>3, Constants DEF AnswerDuplicate, Types, CallsInv
  <2> QED
    BY <1>3, <2>1 DEF AnswerDuplicate, Types, InFlight, redis, calls, tasks, loops, bounds, history
<1>4. ASSUME NEW u \in Turns, ClaimThread(u) PROVE Types'
  <2> DEFINE t == ThreadOf[u]
  <2>1. CASE active[t] = None
    <3>1. /\ active' = [active EXCEPT ![t] = u] /\ ttl' = [ttl EXCEPT ![t] = TTL]
          /\ call' = [call EXCEPT ![u] = "started"] /\ answer' = [answer EXCEPT ![u] = u]
          /\ run' = [run EXCEPT ![u] = "spawned"] /\ call[u] = "keyed"
          /\ UNCHANGED <<sent, last, flag, terminals, consumer, kind, stopReq, loops, bounds, history>>
      BY <1>4, <2>1 DEF ClaimThread
    <3> QED
      BY <2>1, <3>1, Constants DEF Types, InFlight, redis, calls, tasks, loops, bounds, history
  <2>2. CASE active[t] # None
    <3>1. /\ call' = [call EXCEPT ![u] = IF KeyOf[u] = None THEN "looking" ELSE "refusing"]
          /\ UNCHANGED <<active, ttl, answer, run>> /\ call[u] = "keyed"
          /\ UNCHANGED <<sent, last, flag, terminals, consumer, kind, stopReq, loops, bounds, history>>
      BY <1>4, <2>2 DEF ClaimThread
    <3> QED
      BY <2>2, <3>1, Constants DEF Types, InFlight, redis, calls, tasks, loops, bounds, history
  <2> QED
    BY <2>1, <2>2
<1>5. ASSUME NEW u \in Turns, ClaimLost(u) PROVE Types'
  <2>1. active' \in [Threads -> Turns \cup {None}] /\ ttl' \in [Threads -> 0..TTL]
    BY <1>5, Constants DEF ClaimLost, Types
  <2>2. faults' \in 0..MaxFaults
    BY <1>5, ConstantsAssumption DEF ClaimLost, MayFail, Types
  <2> QED
    BY <1>5, <2>1, <2>2 DEF ClaimLost, Types, InFlight, redis, calls, tasks, loops, bounds, history
<1>6. ASSUME NEW u \in Turns, ForgetSend(u) PROVE Types'
  BY <1>6, ConstantsAssumption DEF ForgetSend, Types
<1>7. ASSUME NEW u \in Turns, AnswerAlreadyRunning(u) PROVE Types'
  BY <1>7, ConstantsAssumption DEF AnswerAlreadyRunning, Types
<1>8. ASSUME NEW u \in Turns, RunStarts(u) PROVE Types'
  BY <1>8, ConstantsAssumption DEF RunStarts, Types
<1>9. ASSUME NEW u \in Turns, RunReadsFlag(u) PROVE Types'
  BY <1>9, ConstantsAssumption DEF RunReadsFlag, CancelLocal, Types
<1>10. ASSUME NEW u \in Turns, RunFlagReadFails(u) PROVE Types'
  BY <1>10, ConstantsAssumption DEF RunFlagReadFails, MayFail, Types
<1>11. ASSUME NEW u \in Turns, ProduceCloses(u) PROVE Types'
  BY <1>11, ConstantsAssumption DEF ProduceCloses, Types
<1>12. ASSUME NEW u \in Turns, ProduceMarks(u) PROVE Types'
  BY <1>12, ConstantsAssumption DEF ProduceMarks, Types
<1>13. ASSUME NEW u \in Turns, ProduceReturns(u) PROVE Types'
  BY <1>13, ConstantsAssumption DEF ProduceReturns, Types
<1>14. ASSUME NEW u \in Turns, ProduceFails(u) PROVE Types'
  BY <1>14, ConstantsAssumption DEF ProduceFails, MayFail, Types
<1>15. ASSUME NEW u \in Turns, RunSeesEnd(u) PROVE Types'
  BY <1>15, ConstantsAssumption DEF RunSeesEnd, Types
<1>16. ASSUME NEW u \in Turns, RunSeesCancel(u) PROVE Types'
  BY <1>16, ConstantsAssumption DEF RunSeesCancel, Types
<1>17. ASSUME NEW u \in Turns, RunMarks(u) PROVE Types'
  BY <1>17, ConstantsAssumption DEF RunMarks, Types, LivesInv, KnowsWhy, Registered, Listed
<1>18. ASSUME NEW u \in Turns, RunMarkFails(u) PROVE Types'
  BY <1>18, ConstantsAssumption DEF RunMarkFails, MayFail, Types
<1>19. ASSUME NEW u \in Turns, RunPoints(u) PROVE Types'
  BY <1>19, ConstantsAssumption DEF RunPoints, Types
<1>20. ASSUME NEW u \in Turns, RunReleases(u) PROVE Types'
  <2>1. active' \in [Threads -> Turns \cup {None}] /\ ttl' \in [Threads -> 0..TTL]
    BY <1>20, Constants DEF RunReleases, Types
  <2> QED
    BY <1>20, <2>1 DEF RunReleases, Types, redis, calls, tasks, loops, bounds, history
<1>21. ASSUME NEW u \in Turns, RunReleaseFails(u) PROVE Types'
  BY <1>21, ConstantsAssumption DEF RunReleaseFails, MayFail, Types
<1>22. ASSUME NEW u \in Turns, StopFlags(u) PROVE Types'
  BY <1>22, ConstantsAssumption DEF StopFlags, Types
<1>23. ASSUME NEW u \in Turns, StopAnnounces(u) PROVE Types'
  BY <1>23, ConstantsAssumption DEF StopAnnounces, Types
<1>24. ASSUME NEW u \in Turns, StopHeard(u) PROVE Types'
  BY <1>24, ConstantsAssumption DEF StopHeard, CancelLocal, Types
<1>25. ASSUME NEW r \in Replicas, WatchRechecks(r) PROVE Types'
  BY <1>25, ConstantsAssumption DEF WatchRechecks, CancelLocal, Types
<1>26. ASSUME NEW r \in Replicas, WatchRefreshes(r) PROVE Types'
  BY <1>26, ConstantsAssumption DEF WatchRefreshes, Types
<1>27. ASSUME NEW r \in Replicas, Drain(r) PROVE Types'
  BY <1>27, ConstantsAssumption DEF Drain, CancelLocal, Types
<1>28. ASSUME NEW r \in Replicas, Exit(r) PROVE Types'
  BY <1>28, ConstantsAssumption DEF Exit, Vanish, MayFail, Types
<1>29. ASSUME NEW r \in Replicas, Crash(r) PROVE Types'
  BY <1>29, ConstantsAssumption DEF Crash, Vanish, Types
<1>30. ASSUME Tick PROVE Types'
  BY <1>30, ConstantsAssumption DEF Tick, Types
<1>31. CASE UNCHANGED vars
  BY <1>31, ConstantsAssumption DEF Types, vars
<1>32. ASSUME NEW r \in Replicas, WatchRecheckFails(r) PROVE Types'
  BY <1>32, ConstantsAssumption DEF WatchRecheckFails, MayFail, Types
<1>33. ASSUME NEW r \in Replicas, WatchRefreshFails(r) PROVE Types'
  BY <1>33, ConstantsAssumption DEF WatchRefreshFails, MayFail, Types
<1>34. ASSUME NEW t \in Threads, PointerLapses(t) PROVE Types'
  BY <1>34, ConstantsAssumption DEF PointerLapses, Types
<1> QED
  BY <1>1, <1>2, <1>3, <1>4, <1>5, <1>6, <1>7, <1>8, <1>9, <1>10, <1>11, <1>12, <1>13, <1>14,
     <1>15, <1>16, <1>17, <1>18, <1>19, <1>20, <1>21, <1>22, <1>23, <1>24, <1>25, <1>26, <1>27, <1>28, <1>29, <1>30, <1>31, <1>32, <1>33, <1>34 DEF Next, TurnStep, ReplicaStep


\* A call in flight ends before its replica does, and a send's key changes hands
\* only through the call that holds it.
LEMMA CallsInvKeep == Types /\ CallsInv /\ LivesInv /\ [Next]_vars => CallsInv'
<1> SUFFICES ASSUME Types, CallsInv, LivesInv, [Next]_vars PROVE CallsInv'
  OBVIOUS
<1> USE DEF InFlight, redis, calls, tasks, loops, bounds, history
<1>1. ASSUME NEW u \in Turns, BeginRefused(u) PROVE CallsInv'
  BY <1>1, ConstantsAssumption DEF BeginRefused, Types, CallsInv
<1>2. ASSUME NEW u \in Turns, ClaimSend(u) PROVE CallsInv'
  BY <1>2, ConstantsAssumption DEF ClaimSend, Types, CallsInv
<1>3. ASSUME NEW u \in Turns, AnswerDuplicate(u) PROVE CallsInv'
  BY <1>3, ConstantsAssumption DEF AnswerDuplicate, Types, CallsInv
<1>4. ASSUME NEW u \in Turns, ClaimThread(u) PROVE CallsInv'
  BY <1>4, ConstantsAssumption DEF ClaimThread, Types, CallsInv
<1>5. ASSUME NEW u \in Turns, ClaimLost(u) PROVE CallsInv'
  BY <1>5, ConstantsAssumption DEF ClaimLost, MayFail, Types, CallsInv
<1>6. ASSUME NEW u \in Turns, ForgetSend(u) PROVE CallsInv'
  BY <1>6, ConstantsAssumption DEF ForgetSend, Types, CallsInv
<1>7. ASSUME NEW u \in Turns, AnswerAlreadyRunning(u) PROVE CallsInv'
  BY <1>7, ConstantsAssumption DEF AnswerAlreadyRunning, Types, CallsInv
<1>8. ASSUME NEW u \in Turns, RunStarts(u) PROVE CallsInv'
  BY <1>8, ConstantsAssumption DEF RunStarts, Types, CallsInv
<1>9. ASSUME NEW u \in Turns, RunReadsFlag(u) PROVE CallsInv'
  BY <1>9, ConstantsAssumption DEF RunReadsFlag, CancelLocal, Types, CallsInv
<1>10. ASSUME NEW u \in Turns, RunFlagReadFails(u) PROVE CallsInv'
  BY <1>10, ConstantsAssumption DEF RunFlagReadFails, MayFail, Types, CallsInv
<1>11. ASSUME NEW u \in Turns, ProduceCloses(u) PROVE CallsInv'
  BY <1>11, ConstantsAssumption DEF ProduceCloses, Types, CallsInv
<1>12. ASSUME NEW u \in Turns, ProduceMarks(u) PROVE CallsInv'
  BY <1>12, ConstantsAssumption DEF ProduceMarks, Types, CallsInv
<1>13. ASSUME NEW u \in Turns, ProduceReturns(u) PROVE CallsInv'
  BY <1>13, ConstantsAssumption DEF ProduceReturns, Types, CallsInv
<1>14. ASSUME NEW u \in Turns, ProduceFails(u) PROVE CallsInv'
  BY <1>14, ConstantsAssumption DEF ProduceFails, MayFail, Types, CallsInv
<1>15. ASSUME NEW u \in Turns, RunSeesEnd(u) PROVE CallsInv'
  BY <1>15, ConstantsAssumption DEF RunSeesEnd, Types, CallsInv
<1>16. ASSUME NEW u \in Turns, RunSeesCancel(u) PROVE CallsInv'
  BY <1>16, ConstantsAssumption DEF RunSeesCancel, Types, CallsInv
<1>17. ASSUME NEW u \in Turns, RunMarks(u) PROVE CallsInv'
  BY <1>17, ConstantsAssumption DEF RunMarks, Types, CallsInv
<1>18. ASSUME NEW u \in Turns, RunMarkFails(u) PROVE CallsInv'
  BY <1>18, ConstantsAssumption DEF RunMarkFails, MayFail, Types, CallsInv
<1>19. ASSUME NEW u \in Turns, RunPoints(u) PROVE CallsInv'
  BY <1>19, ConstantsAssumption DEF RunPoints, Types, CallsInv
<1>20. ASSUME NEW u \in Turns, RunReleases(u) PROVE CallsInv'
  BY <1>20, ConstantsAssumption DEF RunReleases, Types, CallsInv
<1>21. ASSUME NEW u \in Turns, RunReleaseFails(u) PROVE CallsInv'
  BY <1>21, ConstantsAssumption DEF RunReleaseFails, MayFail, Types, CallsInv
<1>22. ASSUME NEW u \in Turns, StopFlags(u) PROVE CallsInv'
  BY <1>22, ConstantsAssumption DEF StopFlags, Types, CallsInv
<1>23. ASSUME NEW u \in Turns, StopAnnounces(u) PROVE CallsInv'
  BY <1>23, ConstantsAssumption DEF StopAnnounces, Types, CallsInv
<1>24. ASSUME NEW u \in Turns, StopHeard(u) PROVE CallsInv'
  BY <1>24, ConstantsAssumption DEF StopHeard, CancelLocal, Types, CallsInv
<1>25. ASSUME NEW r \in Replicas, WatchRechecks(r) PROVE CallsInv'
  BY <1>25, ConstantsAssumption DEF WatchRechecks, CancelLocal, Types, CallsInv
<1>26. ASSUME NEW r \in Replicas, WatchRefreshes(r) PROVE CallsInv'
  BY <1>26, ConstantsAssumption DEF WatchRefreshes, Types, CallsInv
<1>27. ASSUME NEW r \in Replicas, Drain(r) PROVE CallsInv'
  BY <1>27, ConstantsAssumption DEF Drain, CancelLocal, Types, CallsInv
<1>28. ASSUME NEW r \in Replicas, Exit(r) PROVE CallsInv'
  BY <1>28, ConstantsAssumption DEF Exit, Vanish, MayFail, Types, CallsInv
<1>29. ASSUME NEW r \in Replicas, Crash(r) PROVE CallsInv'
  BY <1>29, ConstantsAssumption DEF Crash, Vanish, Types, CallsInv
<1>30. ASSUME Tick PROVE CallsInv'
  BY <1>30, ConstantsAssumption DEF Tick, Types, CallsInv
<1>31. CASE UNCHANGED vars
  BY <1>31, ConstantsAssumption DEF Types, CallsInv, vars
<1>32. ASSUME NEW r \in Replicas, WatchRecheckFails(r) PROVE CallsInv'
  BY <1>32, ConstantsAssumption DEF WatchRecheckFails, MayFail, Types, CallsInv
<1>33. ASSUME NEW r \in Replicas, WatchRefreshFails(r) PROVE CallsInv'
  BY <1>33, ConstantsAssumption DEF WatchRefreshFails, MayFail, Types, CallsInv
<1>34. ASSUME NEW t \in Threads, PointerLapses(t) PROVE CallsInv'
  BY <1>34, ConstantsAssumption DEF PointerLapses, Types, CallsInv
<1> QED
  BY <1>1, <1>2, <1>3, <1>4, <1>5, <1>6, <1>7, <1>8, <1>9, <1>10, <1>11, <1>12, <1>13, <1>14,
     <1>15, <1>16, <1>17, <1>18, <1>19, <1>20, <1>21, <1>22, <1>23, <1>24, <1>25, <1>26, <1>27, <1>28, <1>29, <1>30, <1>31, <1>32, <1>33, <1>34 DEF Next, TurnStep, ReplicaStep


\* A task, the call that began it and the replica it lives on move in step.
LEMMA LivesInvKeep == Types /\ CallsInv /\ LivesInv /\ [Next]_vars => LivesInv'
<1> SUFFICES ASSUME Types, CallsInv, LivesInv, [Next]_vars PROVE LivesInv'
  OBVIOUS
<1> USE DEF InFlight, Closed, KnowsWhy, Alive, OnLive, Listed, Registered, Producing,
           redis, calls, tasks, loops, bounds, history
<1>1. ASSUME NEW u \in Turns, BeginRefused(u) PROVE LivesInv'
  BY <1>1, ConstantsAssumption DEF BeginRefused, Types, CallsInv, LivesInv
<1>2. ASSUME NEW u \in Turns, ClaimSend(u) PROVE LivesInv'
  BY <1>2, ConstantsAssumption DEF ClaimSend, Types, CallsInv, LivesInv
<1>3. ASSUME NEW u \in Turns, AnswerDuplicate(u) PROVE LivesInv'
  BY <1>3, ConstantsAssumption DEF AnswerDuplicate, Types, CallsInv, LivesInv
<1>4. ASSUME NEW u \in Turns, ClaimThread(u) PROVE LivesInv'
  BY <1>4, ConstantsAssumption DEF ClaimThread, Types, CallsInv, LivesInv
<1>5. ASSUME NEW u \in Turns, ClaimLost(u) PROVE LivesInv'
  BY <1>5, ConstantsAssumption DEF ClaimLost, MayFail, Types, CallsInv, LivesInv
<1>6. ASSUME NEW u \in Turns, ForgetSend(u) PROVE LivesInv'
  BY <1>6, ConstantsAssumption DEF ForgetSend, Types, CallsInv, LivesInv
<1>7. ASSUME NEW u \in Turns, AnswerAlreadyRunning(u) PROVE LivesInv'
  BY <1>7, ConstantsAssumption DEF AnswerAlreadyRunning, Types, CallsInv, LivesInv
<1>8. ASSUME NEW u \in Turns, RunStarts(u) PROVE LivesInv'
  BY <1>8, ConstantsAssumption DEF RunStarts, Types, CallsInv, LivesInv
<1>9. ASSUME NEW u \in Turns, RunReadsFlag(u) PROVE LivesInv'
  BY <1>9, ConstantsAssumption DEF RunReadsFlag, CancelLocal, Types, CallsInv, LivesInv
<1>10. ASSUME NEW u \in Turns, RunFlagReadFails(u) PROVE LivesInv'
  BY <1>10, ConstantsAssumption DEF RunFlagReadFails, MayFail, Types, CallsInv, LivesInv
<1>11. ASSUME NEW u \in Turns, ProduceCloses(u) PROVE LivesInv'
  BY <1>11, ConstantsAssumption DEF ProduceCloses, Types, CallsInv, LivesInv
<1>12. ASSUME NEW u \in Turns, ProduceMarks(u) PROVE LivesInv'
  BY <1>12, ConstantsAssumption DEF ProduceMarks, Types, CallsInv, LivesInv
<1>13. ASSUME NEW u \in Turns, ProduceReturns(u) PROVE LivesInv'
  BY <1>13, ConstantsAssumption DEF ProduceReturns, Types, CallsInv, LivesInv
<1>14. ASSUME NEW u \in Turns, ProduceFails(u) PROVE LivesInv'
  BY <1>14, ConstantsAssumption DEF ProduceFails, MayFail, Types, CallsInv, LivesInv
<1>15. ASSUME NEW u \in Turns, RunSeesEnd(u) PROVE LivesInv'
  BY <1>15, ConstantsAssumption DEF RunSeesEnd, Types, CallsInv, LivesInv
<1>16. ASSUME NEW u \in Turns, RunSeesCancel(u) PROVE LivesInv'
  BY <1>16, ConstantsAssumption DEF RunSeesCancel, Types, CallsInv, LivesInv
<1>17. ASSUME NEW u \in Turns, RunMarks(u) PROVE LivesInv'
  BY <1>17, ConstantsAssumption DEF RunMarks, Types, CallsInv, LivesInv
<1>18. ASSUME NEW u \in Turns, RunMarkFails(u) PROVE LivesInv'
  BY <1>18, ConstantsAssumption DEF RunMarkFails, MayFail, Types, CallsInv, LivesInv
<1>19. ASSUME NEW u \in Turns, RunPoints(u) PROVE LivesInv'
  BY <1>19, ConstantsAssumption DEF RunPoints, Types, CallsInv, LivesInv
<1>20. ASSUME NEW u \in Turns, RunReleases(u) PROVE LivesInv'
  BY <1>20, ConstantsAssumption DEF RunReleases, Types, CallsInv, LivesInv
<1>21. ASSUME NEW u \in Turns, RunReleaseFails(u) PROVE LivesInv'
  BY <1>21, ConstantsAssumption DEF RunReleaseFails, MayFail, Types, CallsInv, LivesInv
<1>22. ASSUME NEW u \in Turns, StopFlags(u) PROVE LivesInv'
  BY <1>22, ConstantsAssumption DEF StopFlags, Types, CallsInv, LivesInv
<1>23. ASSUME NEW u \in Turns, StopAnnounces(u) PROVE LivesInv'
  BY <1>23, ConstantsAssumption DEF StopAnnounces, Types, CallsInv, LivesInv
<1>24. ASSUME NEW u \in Turns, StopHeard(u) PROVE LivesInv'
  BY <1>24, ConstantsAssumption DEF StopHeard, CancelLocal, Types, CallsInv, LivesInv
<1>25. ASSUME NEW r \in Replicas, WatchRechecks(r) PROVE LivesInv'
  BY <1>25, ConstantsAssumption DEF WatchRechecks, CancelLocal, Types, CallsInv, LivesInv
<1>26. ASSUME NEW r \in Replicas, WatchRefreshes(r) PROVE LivesInv'
  BY <1>26, ConstantsAssumption DEF WatchRefreshes, Types, CallsInv, LivesInv
<1>27. ASSUME NEW r \in Replicas, Drain(r) PROVE LivesInv'
  BY <1>27, ConstantsAssumption DEF Drain, CancelLocal, Types, CallsInv, LivesInv
<1>28. ASSUME NEW r \in Replicas, Exit(r) PROVE LivesInv'
  BY <1>28, ConstantsAssumption DEF Exit, Vanish, MayFail, Types, CallsInv, LivesInv
<1>29. ASSUME NEW r \in Replicas, Crash(r) PROVE LivesInv'
  BY <1>29, ConstantsAssumption DEF Crash, Vanish, Types, CallsInv, LivesInv
<1>30. ASSUME Tick PROVE LivesInv'
  BY <1>30, ConstantsAssumption DEF Tick, Types, CallsInv, LivesInv
<1>31. CASE UNCHANGED vars
  BY <1>31, ConstantsAssumption DEF Types, CallsInv, LivesInv, vars
<1>32. ASSUME NEW r \in Replicas, WatchRecheckFails(r) PROVE LivesInv'
  BY <1>32, ConstantsAssumption DEF WatchRecheckFails, MayFail, Types, CallsInv, LivesInv
<1>33. ASSUME NEW r \in Replicas, WatchRefreshFails(r) PROVE LivesInv'
  BY <1>33, ConstantsAssumption DEF WatchRefreshFails, MayFail, Types, CallsInv, LivesInv
<1>34. ASSUME NEW t \in Threads, PointerLapses(t) PROVE LivesInv'
  BY <1>34, ConstantsAssumption DEF PointerLapses, Types, CallsInv, LivesInv
<1> QED
  BY <1>1, <1>2, <1>3, <1>4, <1>5, <1>6, <1>7, <1>8, <1>9, <1>10, <1>11, <1>12, <1>13, <1>14,
     <1>15, <1>16, <1>17, <1>18, <1>19, <1>20, <1>21, <1>22, <1>23, <1>24, <1>25, <1>26, <1>27, <1>28, <1>29, <1>30, <1>31, <1>32, <1>33, <1>34 DEF Next, TurnStep, ReplicaStep


\* A claim is let go of only by the turn that holds it, and a tick never takes it
\* while its renewals come.
LEMMA ClaimsInvKeep == Types /\ CallsInv /\ LivesInv /\ ClaimsInv /\ [Next]_vars => ClaimsInv'
<1> SUFFICES ASSUME Types, CallsInv, LivesInv, ClaimsInv, [Next]_vars PROVE ClaimsInv'
  OBVIOUS
<1> USE DEF Holds, Alive, OnLive, Listed, Registered, Producing,
           redis, calls, tasks, loops, bounds, history
<1>1. ASSUME NEW u \in Turns, BeginRefused(u) PROVE ClaimsInv'
  BY <1>1, ConstantsAssumption DEF BeginRefused, Types, CallsInv, LivesInv, ClaimsInv, InFlight,
     Closed, KeepsTime
<1>2. ASSUME NEW u \in Turns, ClaimSend(u) PROVE ClaimsInv'
  BY <1>2, ConstantsAssumption DEF ClaimSend, Types, CallsInv, LivesInv, ClaimsInv, InFlight,
     Closed, KeepsTime
<1>3. ASSUME NEW u \in Turns, AnswerDuplicate(u) PROVE ClaimsInv'
  BY <1>3, ConstantsAssumption DEF AnswerDuplicate, Types, CallsInv, LivesInv, ClaimsInv, InFlight,
     Closed, KeepsTime
<1>4. ASSUME NEW u \in Turns, ClaimThread(u) PROVE ClaimsInv'
  <2> DEFINE t == ThreadOf[u]
  <2>1. CASE active[t] = None
    <3>1. /\ active' = [active EXCEPT ![t] = u] /\ ttl' = [ttl EXCEPT ![t] = TTL]
          /\ call' = [call EXCEPT ![u] = "started"] /\ answer' = [answer EXCEPT ![u] = u]
          /\ run' = [run EXCEPT ![u] = "spawned"] /\ call[u] = "keyed"
          /\ UNCHANGED <<sent, last, flag, terminals, consumer, kind, stopReq, loops, bounds, history>>
      BY <1>4, <2>1 DEF ClaimThread
    <3> QED
      BY <2>1, <3>1, Constants DEF Types, LivesInv, ClaimsInv
  <2>2. CASE active[t] # None
    <3>1. /\ call' = [call EXCEPT ![u] = IF KeyOf[u] = None THEN "looking" ELSE "refusing"]
          /\ UNCHANGED <<active, ttl, answer, run>> /\ call[u] = "keyed"
          /\ UNCHANGED <<sent, last, flag, terminals, consumer, kind, stopReq, loops, bounds, history>>
      BY <1>4, <2>2 DEF ClaimThread
    <3> QED
      BY <2>2, <3>1, Constants DEF Types, LivesInv, ClaimsInv
  <2> QED
    BY <2>1, <2>2
<1>5. ASSUME NEW u \in Turns, ClaimLost(u) PROVE ClaimsInv'
  BY <1>5, ConstantsAssumption DEF ClaimLost, MayFail, Types, CallsInv, LivesInv, ClaimsInv,
     InFlight, Closed, KeepsTime
<1>6. ASSUME NEW u \in Turns, ForgetSend(u) PROVE ClaimsInv'
  BY <1>6, ConstantsAssumption DEF ForgetSend, Types, CallsInv, LivesInv, ClaimsInv, InFlight,
     Closed, KeepsTime
<1>7. ASSUME NEW u \in Turns, AnswerAlreadyRunning(u) PROVE ClaimsInv'
  BY <1>7, ConstantsAssumption DEF AnswerAlreadyRunning, Types, CallsInv, LivesInv, ClaimsInv,
     InFlight, Closed, KeepsTime
<1>8. ASSUME NEW u \in Turns, RunStarts(u) PROVE ClaimsInv'
  BY <1>8, ConstantsAssumption DEF RunStarts, Types, CallsInv, LivesInv, ClaimsInv, InFlight,
     Closed, KeepsTime
<1>9. ASSUME NEW u \in Turns, RunReadsFlag(u) PROVE ClaimsInv'
  BY <1>9, ConstantsAssumption DEF RunReadsFlag, CancelLocal, Types, CallsInv, LivesInv, ClaimsInv,
     InFlight, Closed, KeepsTime
<1>10. ASSUME NEW u \in Turns, RunFlagReadFails(u) PROVE ClaimsInv'
  BY <1>10, ConstantsAssumption DEF RunFlagReadFails, MayFail, Types, CallsInv, LivesInv,
     ClaimsInv, InFlight, Closed, KeepsTime
<1>11. ASSUME NEW u \in Turns, ProduceCloses(u) PROVE ClaimsInv'
  BY <1>11, ConstantsAssumption DEF ProduceCloses, Types, CallsInv, LivesInv, ClaimsInv, InFlight,
     Closed, KeepsTime
<1>12. ASSUME NEW u \in Turns, ProduceMarks(u) PROVE ClaimsInv'
  BY <1>12, ConstantsAssumption DEF ProduceMarks, Types, CallsInv, LivesInv, ClaimsInv, InFlight,
     Closed, KeepsTime
<1>13. ASSUME NEW u \in Turns, ProduceReturns(u) PROVE ClaimsInv'
  BY <1>13, ConstantsAssumption DEF ProduceReturns, Types, CallsInv, LivesInv, ClaimsInv, InFlight,
     Closed, KeepsTime
<1>14. ASSUME NEW u \in Turns, ProduceFails(u) PROVE ClaimsInv'
  BY <1>14, ConstantsAssumption DEF ProduceFails, MayFail, Types, CallsInv, LivesInv, ClaimsInv,
     InFlight, Closed, KeepsTime
<1>15. ASSUME NEW u \in Turns, RunSeesEnd(u) PROVE ClaimsInv'
  BY <1>15, ConstantsAssumption DEF RunSeesEnd, Types, CallsInv, LivesInv, ClaimsInv, InFlight,
     Closed, KeepsTime
<1>16. ASSUME NEW u \in Turns, RunSeesCancel(u) PROVE ClaimsInv'
  BY <1>16, ConstantsAssumption DEF RunSeesCancel, Types, CallsInv, LivesInv, ClaimsInv, InFlight,
     Closed, KeepsTime
<1>17. ASSUME NEW u \in Turns, RunMarks(u) PROVE ClaimsInv'
  BY <1>17, ConstantsAssumption DEF RunMarks, Types, CallsInv, LivesInv, ClaimsInv, InFlight,
     Closed, KeepsTime
<1>18. ASSUME NEW u \in Turns, RunMarkFails(u) PROVE ClaimsInv'
  BY <1>18, ConstantsAssumption DEF RunMarkFails, MayFail, Types, CallsInv, LivesInv, ClaimsInv,
     InFlight, Closed, KeepsTime
<1>19. ASSUME NEW u \in Turns, RunPoints(u) PROVE ClaimsInv'
  BY <1>19, ConstantsAssumption DEF RunPoints, Types, CallsInv, LivesInv, ClaimsInv, InFlight,
     Closed, KeepsTime
<1>20. ASSUME NEW u \in Turns, RunReleases(u) PROVE ClaimsInv'
  BY <1>20, ConstantsAssumption DEF RunReleases, Types, CallsInv, LivesInv, ClaimsInv, InFlight,
     Closed, KeepsTime
<1>21. ASSUME NEW u \in Turns, RunReleaseFails(u) PROVE ClaimsInv'
  BY <1>21, ConstantsAssumption DEF RunReleaseFails, MayFail, Types, CallsInv, LivesInv, ClaimsInv,
     InFlight, Closed, KeepsTime
<1>22. ASSUME NEW u \in Turns, StopFlags(u) PROVE ClaimsInv'
  BY <1>22, ConstantsAssumption DEF StopFlags, Types, CallsInv, LivesInv, ClaimsInv, InFlight,
     Closed, KeepsTime
<1>23. ASSUME NEW u \in Turns, StopAnnounces(u) PROVE ClaimsInv'
  BY <1>23, ConstantsAssumption DEF StopAnnounces, Types, CallsInv, LivesInv, ClaimsInv, InFlight,
     Closed, KeepsTime
<1>24. ASSUME NEW u \in Turns, StopHeard(u) PROVE ClaimsInv'
  BY <1>24, ConstantsAssumption DEF StopHeard, CancelLocal, Types, CallsInv, LivesInv, ClaimsInv,
     InFlight, Closed, KeepsTime
<1>25. ASSUME NEW r \in Replicas, WatchRechecks(r) PROVE ClaimsInv'
  BY <1>25, ConstantsAssumption DEF WatchRechecks, CancelLocal, Types, CallsInv, LivesInv,
     ClaimsInv, InFlight, Closed, KeepsTime
<1>26. ASSUME NEW r \in Replicas, WatchRefreshes(r) PROVE ClaimsInv'
  BY <1>26, ConstantsAssumption DEF WatchRefreshes, Types, CallsInv, LivesInv, ClaimsInv, InFlight,
     Closed, KeepsTime
<1>27. ASSUME NEW r \in Replicas, Drain(r) PROVE ClaimsInv'
  BY <1>27, ConstantsAssumption DEF Drain, CancelLocal, Types, CallsInv, LivesInv, ClaimsInv,
     InFlight, Closed, KeepsTime
<1>28. ASSUME NEW r \in Replicas, Exit(r) PROVE ClaimsInv'
  BY <1>28, ConstantsAssumption DEF Exit, Vanish, MayFail, Types, CallsInv, LivesInv, ClaimsInv,
     InFlight, Closed, KeepsTime
<1>29. ASSUME NEW r \in Replicas, Crash(r) PROVE ClaimsInv'
  BY <1>29, ConstantsAssumption DEF Crash, Vanish, Types, CallsInv, LivesInv, ClaimsInv, InFlight,
     Closed, KeepsTime
<1>30. ASSUME Tick PROVE ClaimsInv'
  <2> SUFFICES ASSUME late' = 0, skipped' <= TTL - 2, NEW v \in Turns, Holds(v)
               PROVE /\ active'[ThreadOf[v]] = v /\ ttl'[ThreadOf[v]] >= TTL - skipped' - 1
                     /\ Listed(v) /\ watch'[HomeOf[v]] = "recheck"
    BY <1>30 DEF Tick, ClaimsInv, Holds, Listed, tasks
  <2>1. late = 0 /\ skipped' = skipped /\ \A r \in Alive : KeepsTime(r)
    BY <1>30 DEF Tick, Types, history
  <2>2. HomeOf[v] \in Alive
    BY DEF LivesInv, Holds, Listed, OnLive
  <2>3. watch[HomeOf[v]] = "asleep" /\ Listed(v)
    BY <2>1, <2>2 DEF KeepsTime, Holds
  <2>4. active[ThreadOf[v]] = v /\ ttl[ThreadOf[v]] >= TTL - skipped
    BY <2>1, <2>3 DEF ClaimsInv, Holds
  <2>5. ttl[ThreadOf[v]] \in Nat /\ ThreadOf[v] \in Threads /\ HomeOf[v] \in Replicas /\ TTL \in Nat
    BY Constants DEF Types
  <2>6. skipped \in Nat /\ ttl[ThreadOf[v]] >= 2
    BY <2>1, <2>4, <2>5 DEF Types
  <2> QED
    BY <1>30, <2>1, <2>2, <2>3, <2>4, <2>5, <2>6 DEF Tick
<1>31. CASE UNCHANGED vars
  BY <1>31, ConstantsAssumption DEF Types, CallsInv, LivesInv, ClaimsInv, InFlight, Closed,
     KeepsTime, vars
<1>32. ASSUME NEW r \in Replicas, WatchRecheckFails(r) PROVE ClaimsInv'
  BY <1>32, ConstantsAssumption DEF WatchRecheckFails, MayFail, Types, CallsInv, LivesInv, ClaimsInv, InFlight,
     Closed, KeepsTime
<1>33. ASSUME NEW r \in Replicas, WatchRefreshFails(r) PROVE ClaimsInv'
  BY <1>33, ConstantsAssumption DEF WatchRefreshFails, MayFail, Types, CallsInv, LivesInv, ClaimsInv, InFlight,
     Closed, KeepsTime
<1>34. ASSUME NEW t \in Threads, PointerLapses(t) PROVE ClaimsInv'
  BY <1>34, ConstantsAssumption DEF PointerLapses, Types, CallsInv, LivesInv, ClaimsInv, InFlight,
     Closed, KeepsTime
<1> QED
  BY <1>1, <1>2, <1>3, <1>4, <1>5, <1>6, <1>7, <1>8, <1>9, <1>10, <1>11, <1>12, <1>13, <1>14,
     <1>15, <1>16, <1>17, <1>18, <1>19, <1>20, <1>21, <1>22, <1>23, <1>24, <1>25, <1>26, <1>27, <1>28, <1>29, <1>30, <1>31, <1>32, <1>33, <1>34 DEF Next, TurnStep, ReplicaStep


\* A mark is written by who knows how the turn ended.
LEMMA EndingsInvKeep == Types /\ CallsInv /\ LivesInv /\ EndingsInv /\ [Next]_vars => EndingsInv'
<1> SUFFICES ASSUME Types, CallsInv, LivesInv, EndingsInv, [Next]_vars PROVE EndingsInv'
  OBVIOUS
<1> USE DEF InFlight, Closed, KnowsWhy, Alive, OnLive, Listed, Registered, Producing,
           redis, calls, tasks, loops, bounds, history
<1>1. ASSUME NEW u \in Turns, BeginRefused(u) PROVE EndingsInv'
  BY <1>1, ConstantsAssumption DEF BeginRefused, Types, CallsInv, LivesInv, EndingsInv
<1>2. ASSUME NEW u \in Turns, ClaimSend(u) PROVE EndingsInv'
  BY <1>2, ConstantsAssumption DEF ClaimSend, Types, CallsInv, LivesInv, EndingsInv
<1>3. ASSUME NEW u \in Turns, AnswerDuplicate(u) PROVE EndingsInv'
  BY <1>3, ConstantsAssumption DEF AnswerDuplicate, Types, CallsInv, LivesInv, EndingsInv
<1>4. ASSUME NEW u \in Turns, ClaimThread(u) PROVE EndingsInv'
  <2>1. /\ \A v \in Turns : v # u => run'[v] = run[v]
        /\ UNCHANGED <<terminals, consumer, flag, rep>>
    BY <1>4 DEF ClaimThread, Types, loops
  <2>2. consumer[u] = "none"
    BY <1>4 DEF ClaimThread, LivesInv
  <2> QED
    BY <2>1, <2>2 DEF EndingsInv
<1>5. ASSUME NEW u \in Turns, ClaimLost(u) PROVE EndingsInv'
  BY <1>5, ConstantsAssumption DEF ClaimLost, MayFail, Types, CallsInv, LivesInv, EndingsInv
<1>6. ASSUME NEW u \in Turns, ForgetSend(u) PROVE EndingsInv'
  BY <1>6, ConstantsAssumption DEF ForgetSend, Types, CallsInv, LivesInv, EndingsInv
<1>7. ASSUME NEW u \in Turns, AnswerAlreadyRunning(u) PROVE EndingsInv'
  BY <1>7, ConstantsAssumption DEF AnswerAlreadyRunning, Types, CallsInv, LivesInv, EndingsInv
<1>8. ASSUME NEW u \in Turns, RunStarts(u) PROVE EndingsInv'
  BY <1>8, ConstantsAssumption DEF RunStarts, Types, CallsInv, LivesInv, EndingsInv
<1>9. ASSUME NEW u \in Turns, RunReadsFlag(u) PROVE EndingsInv'
  BY <1>9, ConstantsAssumption DEF RunReadsFlag, CancelLocal, Types, CallsInv, LivesInv, EndingsInv
<1>10. ASSUME NEW u \in Turns, RunFlagReadFails(u) PROVE EndingsInv'
  BY <1>10, ConstantsAssumption DEF RunFlagReadFails, MayFail, Types, CallsInv, LivesInv, EndingsInv
<1>11. ASSUME NEW u \in Turns, ProduceCloses(u) PROVE EndingsInv'
  BY <1>11, ConstantsAssumption DEF ProduceCloses, Types, CallsInv, LivesInv, EndingsInv
<1>12. ASSUME NEW u \in Turns, ProduceMarks(u) PROVE EndingsInv'
  BY <1>12, ConstantsAssumption DEF ProduceMarks, Types, CallsInv, LivesInv, EndingsInv
<1>13. ASSUME NEW u \in Turns, ProduceReturns(u) PROVE EndingsInv'
  BY <1>13, ConstantsAssumption DEF ProduceReturns, Types, CallsInv, LivesInv, EndingsInv
<1>14. ASSUME NEW u \in Turns, ProduceFails(u) PROVE EndingsInv'
  BY <1>14, ConstantsAssumption DEF ProduceFails, MayFail, Types, CallsInv, LivesInv, EndingsInv
<1>15. ASSUME NEW u \in Turns, RunSeesEnd(u) PROVE EndingsInv'
  BY <1>15, ConstantsAssumption DEF RunSeesEnd, Types, CallsInv, LivesInv, EndingsInv
<1>16. ASSUME NEW u \in Turns, RunSeesCancel(u) PROVE EndingsInv'
  BY <1>16, ConstantsAssumption DEF RunSeesCancel, Types, CallsInv, LivesInv, EndingsInv
<1>17. ASSUME NEW u \in Turns, RunMarks(u) PROVE EndingsInv'
  BY <1>17, ConstantsAssumption DEF RunMarks, Types, CallsInv, LivesInv, EndingsInv
<1>18. ASSUME NEW u \in Turns, RunMarkFails(u) PROVE EndingsInv'
  BY <1>18, ConstantsAssumption DEF RunMarkFails, MayFail, Types, CallsInv, LivesInv, EndingsInv
<1>19. ASSUME NEW u \in Turns, RunPoints(u) PROVE EndingsInv'
  BY <1>19, ConstantsAssumption DEF RunPoints, Types, CallsInv, LivesInv, EndingsInv
<1>20. ASSUME NEW u \in Turns, RunReleases(u) PROVE EndingsInv'
  BY <1>20, ConstantsAssumption DEF RunReleases, Types, CallsInv, LivesInv, EndingsInv
<1>21. ASSUME NEW u \in Turns, RunReleaseFails(u) PROVE EndingsInv'
  BY <1>21, ConstantsAssumption DEF RunReleaseFails, MayFail, Types, CallsInv, LivesInv, EndingsInv
<1>22. ASSUME NEW u \in Turns, StopFlags(u) PROVE EndingsInv'
  BY <1>22, ConstantsAssumption DEF StopFlags, Types, CallsInv, LivesInv, EndingsInv
<1>23. ASSUME NEW u \in Turns, StopAnnounces(u) PROVE EndingsInv'
  BY <1>23, ConstantsAssumption DEF StopAnnounces, Types, CallsInv, LivesInv, EndingsInv
<1>24. ASSUME NEW u \in Turns, StopHeard(u) PROVE EndingsInv'
  BY <1>24, ConstantsAssumption DEF StopHeard, CancelLocal, Types, CallsInv, LivesInv, EndingsInv
<1>25. ASSUME NEW r \in Replicas, WatchRechecks(r) PROVE EndingsInv'
  BY <1>25, ConstantsAssumption DEF WatchRechecks, CancelLocal, Types, CallsInv, LivesInv,
     EndingsInv
<1>26. ASSUME NEW r \in Replicas, WatchRefreshes(r) PROVE EndingsInv'
  BY <1>26, ConstantsAssumption DEF WatchRefreshes, Types, CallsInv, LivesInv, EndingsInv
<1>27. ASSUME NEW r \in Replicas, Drain(r) PROVE EndingsInv'
  BY <1>27, ConstantsAssumption DEF Drain, CancelLocal, Types, CallsInv, LivesInv, EndingsInv
<1>28. ASSUME NEW r \in Replicas, Exit(r) PROVE EndingsInv'
  BY <1>28, ConstantsAssumption DEF Exit, Vanish, MayFail, Types, CallsInv, LivesInv, EndingsInv
<1>29. ASSUME NEW r \in Replicas, Crash(r) PROVE EndingsInv'
  BY <1>29, ConstantsAssumption DEF Crash, Vanish, Types, CallsInv, LivesInv, EndingsInv
<1>30. ASSUME Tick PROVE EndingsInv'
  BY <1>30, ConstantsAssumption DEF Tick, Types, CallsInv, LivesInv, EndingsInv
<1>31. CASE UNCHANGED vars
  BY <1>31, ConstantsAssumption DEF Types, CallsInv, LivesInv, EndingsInv, vars
<1>32. ASSUME NEW r \in Replicas, WatchRecheckFails(r) PROVE EndingsInv'
  BY <1>32, ConstantsAssumption DEF WatchRecheckFails, MayFail, Types, CallsInv, LivesInv, EndingsInv
<1>33. ASSUME NEW r \in Replicas, WatchRefreshFails(r) PROVE EndingsInv'
  BY <1>33, ConstantsAssumption DEF WatchRefreshFails, MayFail, Types, CallsInv, LivesInv, EndingsInv
<1>34. ASSUME NEW t \in Threads, PointerLapses(t) PROVE EndingsInv'
  BY <1>34, ConstantsAssumption DEF PointerLapses, Types, CallsInv, LivesInv, EndingsInv
<1> QED
  BY <1>1, <1>2, <1>3, <1>4, <1>5, <1>6, <1>7, <1>8, <1>9, <1>10, <1>11, <1>12, <1>13, <1>14,
     <1>15, <1>16, <1>17, <1>18, <1>19, <1>20, <1>21, <1>22, <1>23, <1>24, <1>25, <1>26, <1>27, <1>28, <1>29, <1>30, <1>31, <1>32, <1>33, <1>34 DEF Next, TurnStep, ReplicaStep


\* The turn's own ending is written once, and a cancel adds at most one mark.
LEMMA MarksInvKeep == Types /\ CallsInv /\ LivesInv /\ EndingsInv /\ MarksInv /\ [Next]_vars => MarksInv'
<1> SUFFICES ASSUME Types, CallsInv, LivesInv, EndingsInv, MarksInv, [Next]_vars PROVE MarksInv'
  OBVIOUS
<1> USE DEF EndsOnce, Told, InFlight, Closed, KnowsWhy, Alive, OnLive, Listed, Registered, Producing,
           redis, calls, tasks, loops, bounds, history
<1>1. ASSUME NEW u \in Turns, BeginRefused(u) PROVE MarksInv'
  BY <1>1, ConstantsAssumption DEF BeginRefused, Types, CallsInv, LivesInv, MarksInv
<1>2. ASSUME NEW u \in Turns, ClaimSend(u) PROVE MarksInv'
  BY <1>2, ConstantsAssumption DEF ClaimSend, Types, CallsInv, LivesInv, MarksInv
<1>3. ASSUME NEW u \in Turns, AnswerDuplicate(u) PROVE MarksInv'
  BY <1>3, ConstantsAssumption DEF AnswerDuplicate, Types, CallsInv, LivesInv, MarksInv
<1>4. ASSUME NEW u \in Turns, ClaimThread(u) PROVE MarksInv'
  <2>1. /\ \A v \in Turns : v # u => run'[v] = run[v]
        /\ UNCHANGED <<terminals, consumer, flag, rep>>
    BY <1>4 DEF ClaimThread, Types, loops
  <2>2. consumer[u] = "none"
    BY <1>4 DEF ClaimThread, LivesInv
  <2>3. UNCHANGED crossed /\ run[u] = "none" /\ run'[u] \in {"none", "spawned"}
    BY <1>4 DEF ClaimThread, LivesInv, Types
  <2>4. ASSUME NEW v \in Turns PROVE EndsOnce(v)'
    BY <2>1, <2>2, <2>3 DEF MarksInv
  <2> QED
    BY <2>4 DEF MarksInv
<1>5. ASSUME NEW u \in Turns, ClaimLost(u) PROVE MarksInv'
  BY <1>5, ConstantsAssumption DEF ClaimLost, MayFail, Types, CallsInv, LivesInv, MarksInv
<1>6. ASSUME NEW u \in Turns, ForgetSend(u) PROVE MarksInv'
  BY <1>6, ConstantsAssumption DEF ForgetSend, Types, CallsInv, LivesInv, MarksInv
<1>7. ASSUME NEW u \in Turns, AnswerAlreadyRunning(u) PROVE MarksInv'
  BY <1>7, ConstantsAssumption DEF AnswerAlreadyRunning, Types, CallsInv, LivesInv, MarksInv
<1>8. ASSUME NEW u \in Turns, RunStarts(u) PROVE MarksInv'
  BY <1>8, ConstantsAssumption DEF RunStarts, Types, CallsInv, LivesInv, MarksInv
<1>9. ASSUME NEW u \in Turns, RunReadsFlag(u) PROVE MarksInv'
  BY <1>9, ConstantsAssumption DEF RunReadsFlag, CancelLocal, Types, CallsInv, LivesInv, MarksInv
<1>10. ASSUME NEW u \in Turns, RunFlagReadFails(u) PROVE MarksInv'
  BY <1>10, ConstantsAssumption DEF RunFlagReadFails, MayFail, Types, CallsInv, LivesInv, MarksInv
<1>11. ASSUME NEW u \in Turns, ProduceCloses(u) PROVE MarksInv'
  BY <1>11, ConstantsAssumption DEF ProduceCloses, Types, CallsInv, LivesInv, MarksInv
<1>12. ASSUME NEW u \in Turns, ProduceMarks(u) PROVE MarksInv'
  <2>1. terminals[u] = <<>> /\ consumer'[u] = "marked"
    BY <1>12 DEF ProduceMarks, MarksInv, Types
  <2>2. terminals'[u] = Append(terminals[u], "done") /\ "done" \in Ending /\ terminals[u] \in Seq(Ending)
    BY <1>12 DEF ProduceMarks, Types, Ending
  <2>3. terminals'[u] = Told /\ Len(terminals'[u]) = 1
    BY <2>1, <2>2, EntryLaws DEF Told
  <2>4. \A v \in Turns : v # u => terminals'[v] = terminals[v] /\ consumer'[v] = consumer[v]
    BY <1>12 DEF ProduceMarks, Types
  <2>5. UNCHANGED <<run, crossed>>
    BY <1>12 DEF ProduceMarks
  <2>6. ASSUME NEW v \in Turns PROVE EndsOnce(v)'
    <3>1. CASE v = u
      <4>1. ~(Len(terminals'[u]) > 1)
        BY <2>3
      <4> QED
        BY <2>1, <2>3, <4>1, <3>1
    <3>2. CASE v # u
      BY <2>4, <2>5, <3>2 DEF MarksInv
    <3> QED
      BY <3>1, <3>2
  <2> QED
    BY <2>6 DEF MarksInv
<1>13. ASSUME NEW u \in Turns, ProduceReturns(u) PROVE MarksInv'
  BY <1>13, ConstantsAssumption DEF ProduceReturns, Types, CallsInv, LivesInv, MarksInv
<1>14. ASSUME NEW u \in Turns, ProduceFails(u) PROVE MarksInv'
  <2>1. Producing(u) /\ UNCHANGED <<terminals, run, crossed>> /\ consumer' = [consumer EXCEPT ![u] = "failed"]
    BY <1>14 DEF ProduceFails
  <2>2. terminals[u] \in {<<>>, Told}
    BY <2>1 DEF MarksInv
  <2>3. consumer'[u] = "failed" /\ \A v \in Turns : v # u => consumer'[v] = consumer[v]
    BY <2>1 DEF Types
  <2>4. ASSUME NEW v \in Turns PROVE EndsOnce(v)'
    BY <2>1, <2>2, <2>3 DEF MarksInv
  <2> QED
    BY <2>4 DEF MarksInv
<1>15. ASSUME NEW u \in Turns, RunSeesEnd(u) PROVE MarksInv'
  BY <1>15, ConstantsAssumption DEF RunSeesEnd, Types, CallsInv, LivesInv, MarksInv
<1>16. ASSUME NEW u \in Turns, RunSeesCancel(u) PROVE MarksInv'
  BY <1>16, ConstantsAssumption DEF RunSeesCancel, Types, CallsInv, LivesInv, MarksInv
<1>17. ASSUME NEW u \in Turns, RunMarks(u) PROVE MarksInv'
  <2>1. consumer[u] = "cancelled" /\ run[u] \notin Closed /\ kind[u] \in Ending
    BY <1>17 DEF RunMarks, LivesInv, Ending
  <2>2. terminals'[u] = Append(terminals[u], kind[u]) /\ terminals[u] \in Seq(Ending)
    BY <1>17 DEF RunMarks, Types
  <2>3. terminals[u] = <<>> \/ (terminals[u] = Told /\ u \in crossed)
    BY <2>1 DEF MarksInv
  <2>4. Len(terminals'[u]) > 1 =>
          u \in crossed /\ Len(terminals'[u]) = 2 /\ terminals'[u][1] = "done"
    BY <2>1, <2>2, <2>3, EntryLaws
  <2>5. \A v \in Turns : v # u => terminals'[v] = terminals[v] /\ run'[v] = run[v]
    BY <1>17 DEF RunMarks, Types
  <2>6. UNCHANGED <<consumer, crossed>> /\ run'[u] = "releasing"
    BY <1>17 DEF RunMarks, Types
  <2>7. ASSUME NEW v \in Turns PROVE EndsOnce(v)'
    <3>1. CASE v = u
      BY <2>1, <2>4, <2>6, <3>1
    <3>2. CASE v # u
      BY <2>5, <2>6, <3>2 DEF MarksInv
    <3> QED
      BY <3>1, <3>2
  <2> QED
    BY <2>7 DEF MarksInv
<1>18. ASSUME NEW u \in Turns, RunMarkFails(u) PROVE MarksInv'
  BY <1>18, ConstantsAssumption DEF RunMarkFails, MayFail, Types, CallsInv, LivesInv, MarksInv
<1>19. ASSUME NEW u \in Turns, RunPoints(u) PROVE MarksInv'
  BY <1>19, ConstantsAssumption DEF RunPoints, Types, CallsInv, LivesInv, MarksInv
<1>20. ASSUME NEW u \in Turns, RunReleases(u) PROVE MarksInv'
  BY <1>20, ConstantsAssumption DEF RunReleases, Types, CallsInv, LivesInv, MarksInv
<1>21. ASSUME NEW u \in Turns, RunReleaseFails(u) PROVE MarksInv'
  BY <1>21, ConstantsAssumption DEF RunReleaseFails, MayFail, Types, CallsInv, LivesInv, MarksInv
<1>22. ASSUME NEW u \in Turns, StopFlags(u) PROVE MarksInv'
  BY <1>22, ConstantsAssumption DEF StopFlags, Types, CallsInv, LivesInv, MarksInv
<1>23. ASSUME NEW u \in Turns, StopAnnounces(u) PROVE MarksInv'
  BY <1>23, ConstantsAssumption DEF StopAnnounces, Types, CallsInv, LivesInv, MarksInv
<1>24. ASSUME NEW u \in Turns, StopHeard(u) PROVE MarksInv'
  BY <1>24, ConstantsAssumption DEF StopHeard, CancelLocal, Types, CallsInv, LivesInv, MarksInv
<1>25. ASSUME NEW r \in Replicas, WatchRechecks(r) PROVE MarksInv'
  BY <1>25, ConstantsAssumption DEF WatchRechecks, CancelLocal, Types, CallsInv, LivesInv,
     MarksInv
<1>26. ASSUME NEW r \in Replicas, WatchRefreshes(r) PROVE MarksInv'
  BY <1>26, ConstantsAssumption DEF WatchRefreshes, Types, CallsInv, LivesInv, MarksInv
<1>27. ASSUME NEW r \in Replicas, Drain(r) PROVE MarksInv'
  BY <1>27, ConstantsAssumption DEF Drain, CancelLocal, Types, CallsInv, LivesInv, MarksInv
<1>28. ASSUME NEW r \in Replicas, Exit(r) PROVE MarksInv'
  BY <1>28, ConstantsAssumption DEF Exit, Vanish, MayFail, Types, CallsInv, LivesInv, MarksInv
<1>29. ASSUME NEW r \in Replicas, Crash(r) PROVE MarksInv'
  BY <1>29, ConstantsAssumption DEF Crash, Vanish, Types, CallsInv, LivesInv, MarksInv
<1>30. ASSUME Tick PROVE MarksInv'
  BY <1>30, ConstantsAssumption DEF Tick, Types, CallsInv, LivesInv, MarksInv
<1>31. CASE UNCHANGED vars
  BY <1>31, ConstantsAssumption DEF Types, CallsInv, LivesInv, MarksInv, vars
<1>32. ASSUME NEW r \in Replicas, WatchRecheckFails(r) PROVE MarksInv'
  BY <1>32, ConstantsAssumption DEF WatchRecheckFails, MayFail, Types, CallsInv, LivesInv, MarksInv
<1>33. ASSUME NEW r \in Replicas, WatchRefreshFails(r) PROVE MarksInv'
  BY <1>33, ConstantsAssumption DEF WatchRefreshFails, MayFail, Types, CallsInv, LivesInv, MarksInv
<1>34. ASSUME NEW t \in Threads, PointerLapses(t) PROVE MarksInv'
  BY <1>34, ConstantsAssumption DEF PointerLapses, Types, CallsInv, LivesInv, MarksInv
<1> QED
  BY <1>1, <1>2, <1>3, <1>4, <1>5, <1>6, <1>7, <1>8, <1>9, <1>10, <1>11, <1>12, <1>13, <1>14,
     <1>15, <1>16, <1>17, <1>18, <1>19, <1>20, <1>21, <1>22, <1>23, <1>24, <1>25, <1>26, <1>27, <1>28, <1>29, <1>30, <1>31, <1>32, <1>33, <1>34 DEF Next, TurnStep, ReplicaStep


\* A replica that drains waits for each of its turns, or leaves it to the sweep.
LEMMA DrainInvKeep == Types /\ CallsInv /\ LivesInv /\ DrainInv /\ [Next]_vars => DrainInv'
<1> SUFFICES ASSUME Types, CallsInv, LivesInv, DrainInv, [Next]_vars PROVE DrainInv'
  OBVIOUS
<1> USE DEF InFlight, Closed, Alive, OnLive, Listed, Registered, Producing,
           redis, calls, tasks, loops, bounds, history
<1>1. ASSUME NEW u \in Turns, BeginRefused(u) PROVE DrainInv'
  BY <1>1, ConstantsAssumption DEF BeginRefused, Types, CallsInv, LivesInv, DrainInv
<1>2. ASSUME NEW u \in Turns, ClaimSend(u) PROVE DrainInv'
  BY <1>2, ConstantsAssumption DEF ClaimSend, Types, CallsInv, LivesInv, DrainInv
<1>3. ASSUME NEW u \in Turns, AnswerDuplicate(u) PROVE DrainInv'
  BY <1>3, ConstantsAssumption DEF AnswerDuplicate, Types, CallsInv, LivesInv, DrainInv
<1>4. ASSUME NEW u \in Turns, ClaimThread(u) PROVE DrainInv'
  BY <1>4, ConstantsAssumption DEF ClaimThread, Types, CallsInv, LivesInv, DrainInv
<1>5. ASSUME NEW u \in Turns, ClaimLost(u) PROVE DrainInv'
  BY <1>5, ConstantsAssumption DEF ClaimLost, MayFail, Types, CallsInv, LivesInv, DrainInv
<1>6. ASSUME NEW u \in Turns, ForgetSend(u) PROVE DrainInv'
  BY <1>6, ConstantsAssumption DEF ForgetSend, Types, CallsInv, LivesInv, DrainInv
<1>7. ASSUME NEW u \in Turns, AnswerAlreadyRunning(u) PROVE DrainInv'
  BY <1>7, ConstantsAssumption DEF AnswerAlreadyRunning, Types, CallsInv, LivesInv, DrainInv
<1>8. ASSUME NEW u \in Turns, RunStarts(u) PROVE DrainInv'
  BY <1>8, ConstantsAssumption DEF RunStarts, Types, CallsInv, LivesInv, DrainInv
<1>9. ASSUME NEW u \in Turns, RunReadsFlag(u) PROVE DrainInv'
  BY <1>9, ConstantsAssumption DEF RunReadsFlag, CancelLocal, Types, CallsInv, LivesInv, DrainInv
<1>10. ASSUME NEW u \in Turns, RunFlagReadFails(u) PROVE DrainInv'
  BY <1>10, ConstantsAssumption DEF RunFlagReadFails, MayFail, Types, CallsInv, LivesInv, DrainInv
<1>11. ASSUME NEW u \in Turns, ProduceCloses(u) PROVE DrainInv'
  BY <1>11, ConstantsAssumption DEF ProduceCloses, Types, CallsInv, LivesInv, DrainInv
<1>12. ASSUME NEW u \in Turns, ProduceMarks(u) PROVE DrainInv'
  <2>1. /\ terminals'[u] # <<>>
        /\ \A v \in Turns : v # u => terminals'[v] = terminals[v] /\ consumer'[v] = consumer[v]
    <3>1. terminals'[u] = Append(terminals[u], "done") /\ terminals[u] \in Seq(Ending) /\ "done" \in Ending
      BY <1>12 DEF ProduceMarks, Types, Ending
    <3>2. Len(terminals'[u]) = Len(terminals[u]) + 1 /\ Len(terminals[u]) \in Nat
      BY <3>1
    <3>3. terminals'[u] # <<>>
      BY <3>2
    <3>4. \A v \in Turns : v # u => terminals'[v] = terminals[v] /\ consumer'[v] = consumer[v]
      BY <1>12 DEF ProduceMarks, Types
    <3> QED
      BY <3>3, <3>4
  <2>2. consumer[u] = "marking" /\ consumer'[u] = "marked" /\ run[u] \notin Closed
    BY <1>12 DEF ProduceMarks, Types, LivesInv, Producing
  <2> QED
    BY <1>12, <2>1, <2>2 DEF ProduceMarks, DrainInv, Closed, redis, calls, tasks, loops, bounds, history
<1>13. ASSUME NEW u \in Turns, ProduceReturns(u) PROVE DrainInv'
  BY <1>13, ConstantsAssumption DEF ProduceReturns, Types, CallsInv, LivesInv, DrainInv
<1>14. ASSUME NEW u \in Turns, ProduceFails(u) PROVE DrainInv'
  BY <1>14, ConstantsAssumption DEF ProduceFails, MayFail, Types, CallsInv, LivesInv, DrainInv
<1>15. ASSUME NEW u \in Turns, RunSeesEnd(u) PROVE DrainInv'
  BY <1>15, ConstantsAssumption DEF RunSeesEnd, Types, CallsInv, LivesInv, DrainInv
<1>16. ASSUME NEW u \in Turns, RunSeesCancel(u) PROVE DrainInv'
  BY <1>16, ConstantsAssumption DEF RunSeesCancel, Types, CallsInv, LivesInv, DrainInv
<1>17. ASSUME NEW u \in Turns, RunMarks(u) PROVE DrainInv'
  <2>1. terminals'[u] = Append(terminals[u], kind[u]) /\ terminals[u] \in Seq(Ending) /\ kind[u] \in Ending
    BY <1>17 DEF RunMarks, Types, LivesInv, KnowsWhy, Ending
  <2>2. terminals'[u] # <<>>
    BY <2>1, EntryLaws
  <2>3. \A v \in Turns : v # u => terminals'[v] = terminals[v] /\ run'[v] = run[v]
    BY <1>17 DEF RunMarks, Types
  <2>4. run[u] = "ending" /\ run'[u] = "releasing"
    BY <1>17 DEF RunMarks, Types
  <2> QED
    BY <1>17, <2>2, <2>3, <2>4 DEF RunMarks, DrainInv
<1>18. ASSUME NEW u \in Turns, RunMarkFails(u) PROVE DrainInv'
  BY <1>18, ConstantsAssumption DEF RunMarkFails, MayFail, Types, CallsInv, LivesInv, DrainInv
<1>19. ASSUME NEW u \in Turns, RunPoints(u) PROVE DrainInv'
  <2>1. /\ \A t \in Threads : last[t] # None => last'[t] # None
        /\ last'[ThreadOf[u]] # None
    BY <1>19, Constants DEF RunPoints, Types
  <2>2. \A v \in Turns : v # u => run'[v] = run[v]
    BY <1>19 DEF RunPoints, Types
  <2>3. run[u] = "releasing" /\ run'[u] = "unpointing"
    BY <1>19 DEF RunPoints, Types
  <2> QED
    BY <1>19, <2>1, <2>2, <2>3, Constants DEF RunPoints, DrainInv, redis, calls, tasks, loops,
       bounds, history
<1>20. ASSUME NEW u \in Turns, RunReleases(u) PROVE DrainInv'
  <2>1. /\ \A t \in Threads : active'[t] = active[t] \/ active'[t] = None
        /\ active'[ThreadOf[u]] = None
    BY <1>20, Constants DEF RunReleases, Types
  <2>2. \A v \in Turns : v # u => run'[v] = run[v]
    BY <1>20 DEF RunReleases, Types
  <2>3. run[u] = "unpointing" /\ run'[u] = "over"
    BY <1>20 DEF RunReleases, Types
  <2> QED
    BY <1>20, <2>1, <2>2, <2>3, Constants DEF RunReleases, DrainInv, redis, calls, tasks, loops,
       bounds, history
<1>21. ASSUME NEW u \in Turns, RunReleaseFails(u) PROVE DrainInv'
  BY <1>21, ConstantsAssumption DEF RunReleaseFails, MayFail, Types, CallsInv, LivesInv, DrainInv
<1>22. ASSUME NEW u \in Turns, StopFlags(u) PROVE DrainInv'
  BY <1>22, ConstantsAssumption DEF StopFlags, Types, CallsInv, LivesInv, DrainInv
<1>23. ASSUME NEW u \in Turns, StopAnnounces(u) PROVE DrainInv'
  BY <1>23, ConstantsAssumption DEF StopAnnounces, Types, CallsInv, LivesInv, DrainInv
<1>24. ASSUME NEW u \in Turns, StopHeard(u) PROVE DrainInv'
  BY <1>24, ConstantsAssumption DEF StopHeard, CancelLocal, Types, CallsInv, LivesInv, DrainInv
<1>25. ASSUME NEW r \in Replicas, WatchRechecks(r) PROVE DrainInv'
  BY <1>25, ConstantsAssumption DEF WatchRechecks, CancelLocal, Types, CallsInv, LivesInv, DrainInv
<1>26. ASSUME NEW r \in Replicas, WatchRefreshes(r) PROVE DrainInv'
  BY <1>26, ConstantsAssumption DEF WatchRefreshes, Types, CallsInv, LivesInv, DrainInv
<1>27. ASSUME NEW r \in Replicas, Drain(r) PROVE DrainInv'
  BY <1>27, ConstantsAssumption DEF Drain, CancelLocal, Types, CallsInv, LivesInv, DrainInv
<1>28. ASSUME NEW r \in Replicas, Exit(r) PROVE DrainInv'
  BY <1>28, ConstantsAssumption DEF Exit, Vanish, MayFail, Types, CallsInv, LivesInv, DrainInv
<1>29. ASSUME NEW r \in Replicas, Crash(r) PROVE DrainInv'
  BY <1>29, ConstantsAssumption DEF Crash, Vanish, Types, CallsInv, LivesInv, DrainInv
<1>30. ASSUME Tick PROVE DrainInv'
  BY <1>30, ConstantsAssumption DEF Tick, Types, CallsInv, LivesInv, DrainInv
<1>31. CASE UNCHANGED vars
  BY <1>31, ConstantsAssumption DEF Types, CallsInv, LivesInv, DrainInv, vars
<1>32. ASSUME NEW r \in Replicas, WatchRecheckFails(r) PROVE DrainInv'
  BY <1>32, ConstantsAssumption DEF WatchRecheckFails, MayFail, Types, CallsInv, LivesInv, DrainInv
<1>33. ASSUME NEW r \in Replicas, WatchRefreshFails(r) PROVE DrainInv'
  BY <1>33, ConstantsAssumption DEF WatchRefreshFails, MayFail, Types, CallsInv, LivesInv, DrainInv
<1>34. ASSUME NEW t \in Threads, PointerLapses(t) PROVE DrainInv'
  BY <1>34, ConstantsAssumption DEF PointerLapses, Types, CallsInv, LivesInv, DrainInv
<1> QED
  BY <1>1, <1>2, <1>3, <1>4, <1>5, <1>6, <1>7, <1>8, <1>9, <1>10, <1>11, <1>12, <1>13, <1>14,
     <1>15, <1>16, <1>17, <1>18, <1>19, <1>20, <1>21, <1>22, <1>23, <1>24, <1>25, <1>26, <1>27, <1>28, <1>29, <1>30, <1>31, <1>32, <1>33, <1>34 DEF Next, TurnStep, ReplicaStep

-----------------------------------------------------------------------------
(* The theorems. *)

\* The invariant holds before any call.
LEMMA InvInit == Init => IInv
<1> SUFFICES ASSUME Init PROVE IInv
  OBVIOUS
<1>1. Types
  BY ConstantsAssumption DEF Init, Types, InFlight
<1>2. CallsInv /\ LivesInv
  BY DEF Init, CallsInv, LivesInv, InFlight, Closed, Listed, Registered, Producing
<1>3. ClaimsInv /\ EndingsInv /\ MarksInv /\ DrainInv
  BY DEF Init, ClaimsInv, EndingsInv, MarksInv, EndsOnce, DrainInv, Holds, Listed
<1> QED
  BY <1>1, <1>2, <1>3 DEF IInv

\* Every step of a call, a turn, a replica or the clock keeps it.
LEMMA InvStep == IInv /\ [Next]_vars => IInv'
  BY TypesKeep, CallsInvKeep, LivesInvKeep, ClaimsInvKeep, EndingsInvKeep, MarksInvKeep, DrainInvKeep DEF IInv

\* The types, the order of a turn's tasks, its claim, its mark and what a drain
\* waited for hold together in every reachable state.
THEOREM TurnInvariant == Spec => []IInv
<1>1. Init => IInv
  BY InvInit
<1>2. IInv /\ [Next]_vars => IInv'
  BY InvStep
<1> QED
  BY <1>1, <1>2, PTL DEF Spec

\* However sends are retried, on whatever replicas, and whichever of them lose a
\* reply or die, a send starts one turn at most; and while replicas keep time and
\* renewals mostly come a thread never has two turns that run (begin, _run, _refresh_claims).
THEOREM TurnsDoNotOverlap == Spec => []OneTurnAtATime
<1>1. IInv => TypeOK
  BY DEF IInv, Types, TypeOK, InFlight, Ending
<1>2. IInv => RunningTurnHoldsClaim
  BY DEF IInv, ClaimsInv, RunningTurnHoldsClaim, Holds
<1>3. IInv => OneTurnPerSend
  BY DEF IInv, CallsInv, OneTurnPerSend
<1>4. IInv => OneTurnAtATime
  BY <1>1, <1>2, <1>3 DEF OneTurnAtATime
<1> QED
  BY <1>4, TurnInvariant, PTL

\* With every round trip answered in time, a reader finds a turn of the thread by
\* its claim or by its pointer from the first turn on, until the pointer of a turn
\* that is over lapses (the releasing pipeline).
THEOREM ReaderAlwaysFindsTurn == Spec => []ReaderFindsTurn
<1>1. IInv => ReaderFindsTurn
  <2> SUFFICES ASSUME IInv, faults = 0, late = 0, NEW u \in Turns, run[u] \notin {"none", "dead"}
               PROVE \/ active[ThreadOf[u]] # None \/ last[ThreadOf[u]] # None
                     \/ run[u] = "over" /\ ThreadOf[u] \in faded
    BY DEF ReaderFindsTurn
  <2>1. CASE Holds(u)
    <3>1. skipped = 0 /\ TTL - 2 >= 0
      BY Constants DEF IInv, Types
    <3> QED
      BY <2>1, <3>1, ConstantsAssumption DEF IInv, ClaimsInv
  <2>2. CASE ~Holds(u)
    <3>1. run[u] = "over" \/ run[u] = "raised"
      BY <2>2 DEF IInv, Types, Holds, Listed
    <3> QED
      BY <3>1 DEF IInv, DrainInv
  <2> QED
    BY <2>1, <2>2
<1> QED
  BY <1>1, TurnInvariant, PTL

\* Whichever of a stop, a shutdown and its own end reaches a turn first, its marks
\* say what happened, a second one follows only a cancel that crossed the ending,
\* and a shutdown that ran to its end left none unmarked
\* (_cancel_local, _run, drain).
THEOREM EndingsTell == Spec => []EndingsAreTold
<1>1. IInv => EndingsAreHonest
  BY DEF IInv, EndingsInv, MarksInv, EndsOnce, EndingsAreHonest
<1>2. IInv => DrainSaysSo
  BY DEF IInv, Types, DrainInv, DrainSaysSo
<1>3. IInv => EndingsAreTold
  BY <1>1, <1>2 DEF EndingsAreTold
<1> QED
  BY <1>3, TurnInvariant, PTL

\* A turn that hands its thread back writes nothing more to its log, whoever
\* stops or drains it then.
THEOREM EndedTurnsAreSilent == Spec => EndedTurnsStaySilent
<1> DEFINE Silent == \A u \in Turns : run[u] \in {"releasing", "unpointing", "over"}
                                          => terminals'[u] = terminals[u]
<1>1. IInv /\ [Next]_vars => Silent
  <2> SUFFICES ASSUME IInv, [Next]_vars PROVE Silent
    OBVIOUS
  <2>1. ASSUME NEW v \in Turns, ProduceMarks(v) PROVE Silent
    <3>1. run[v] \notin Closed
      BY <2>1 DEF IInv, LivesInv, ProduceMarks, Producing
    <3> QED
      BY <2>1, <3>1 DEF ProduceMarks, IInv, Types, Closed
  <2>2. ASSUME NEW v \in Turns, RunMarks(v) PROVE Silent
    BY <2>2 DEF RunMarks, IInv, Types
  <2>3. ASSUME NEW v \in Turns, TurnStep(v), ~ProduceMarks(v), ~RunMarks(v)
        PROVE UNCHANGED terminals
    BY <2>3 DEF TurnStep, BeginRefused, ClaimSend, AnswerDuplicate, ClaimThread, ClaimLost,
      ForgetSend, AnswerAlreadyRunning, RunStarts, RunReadsFlag, RunFlagReadFails,
      ProduceCloses, ProduceReturns, ProduceFails, RunSeesEnd, RunSeesCancel, RunMarkFails,
      RunPoints, RunReleases, RunReleaseFails, StopFlags, StopAnnounces, StopHeard, redis
  <2>4. ASSUME NEW r \in Replicas, ReplicaStep(r) PROVE UNCHANGED terminals
    BY <2>4 DEF ReplicaStep, WatchRechecks, WatchRecheckFails, WatchRefreshes, WatchRefreshFails, Drain,
      Exit, Crash, redis
  <2>5. Tick \/ (\E t \in Threads : PointerLapses(t)) \/ UNCHANGED vars => UNCHANGED terminals
    BY DEF Tick, PointerLapses, vars, redis
  <2> QED
    BY <2>1, <2>2, <2>3, <2>4, <2>5 DEF Next
<1> QED
  BY <1>1, TurnInvariant, PTL DEF Spec, EndedTurnsStaySilent

-----------------------------------------------------------------------------
(* What a thread remembers.  The parts of the invariant are the types, the    *)
(* pairs of a place and a handle, who may merge, and what a merge relies on.  *)

AreaPlaces == Places \cup {"none"}
Handles == 0 .. Len(drawn)
Contexts == [place : AreaPlaces, handle : Handles, charts : SUBSET Runs]
Memories == [place : AreaPlaces, handle : Handles, charts : SUBSET Runs,
             calls : 0 .. MaxCalls, latest : Handles]

ContextTypes ==
    /\ drawn \in Seq(Places) /\ Len(drawn) <= MaxHandles
    /\ saved \in Contexts /\ prior \in [Batches -> Contexts]
    /\ work \in [Runs -> Memories] /\ offers \in [Runs -> [place : AreaPlaces, handle : Handles]]
    /\ batch \in [Batches -> {"idle", "running", "merging", "done"}]
    /\ fast \subseteq Batches /\ held \in Batches \cup {0} /\ dbFaults \in Nat

\* What a run remembers suits the areas drawn: the pair fits, and a place that
\* has no handle yet is the one its last answered area call was for.
Suits(w, areas) ==
    /\ w.place # "none" /\ w.handle # 0 => areas[w.handle] = w.place
    /\ w.place # "none" /\ w.handle = 0 /\ w.latest # 0 => areas[w.latest] = w.place
WorkFits(r) == Suits(work[r], drawn)
PairsInv ==
    muddled = {} => /\ PairFits(saved)
                    /\ \A b \in Batches : PairFits(prior[b])
                    /\ \A r \in Runs : WorkFits(r)

Busy(b) == batch[b] \in {"running", "merging"}

\* One batch merges at a time, and a fast run is alone.
LockInv ==
    /\ \A b \in Batches : batch[b] = "merging" => held = b
    /\ \A b \in fast : /\ batch[b] # "idle"
                       /\ Busy(b) => \A o \in Batches : Busy(o) => o = b

\* What a batch that will save has read is still what is saved.
Merging(b) == batch[b] = "merging" \/ (b \in fast /\ batch[b] = "running")
SavesInv ==
    /\ nameable \subseteq saved.charts
    /\ \A b \in Batches : batch[b] = "merging" => nameable \subseteq prior[b].charts
    /\ dbFaults = 0 => \A b \in Batches : Merging(b) =>
          prior[b].place = saved.place /\ prior[b].handle = saved.handle

ContextInv == ContextTypes /\ PairsInv /\ LockInv /\ SavesInv

LEMMA ContextConstants ==
    /\ Runs \subseteq Nat /\ MaxCalls \in Nat /\ MaxHandles \in Nat
    /\ BatchOf \in [Runs -> Nat \ {0}] /\ 0 \notin Batches
    /\ \A r \in Runs : BatchOf[r] \in Batches
  BY ThreadContextAssumption DEF Batches

LEMMA ContextStarts == ContextInit => ContextInv
<1> SUFFICES ASSUME ContextInit PROVE ContextInv
  OBVIOUS
<1>1. ContextTypes
  BY ContextConstants
     DEF ContextInit, ContextTypes, Contexts, Memories, AreaPlaces, Handles, NoContext, NoWork, NoArea
<1>2. PairsInv /\ LockInv /\ SavesInv
  BY ContextConstants DEF ContextInit, PairsInv, PairFits, WorkFits, Suits, LockInv, SavesInv, Merging, Busy,
     NoContext, NoWork
<1> QED
  BY <1>1, <1>2 DEF ContextInv

\* An empty context, and an area nobody named.
LEMMA NoneFits ==
    ASSUME ContextTypes
    PROVE  /\ NoContext \in Contexts /\ PairFits(NoContext)
  BY DEF ContextTypes, Contexts, AreaPlaces, Handles, NoContext, PairFits

\* A merge is of what was saved and what the runs captured.
LEMMA MergeLaws ==
    ASSUME ContextTypes, NEW before \in Contexts, NEW runs \in SUBSET Runs
    PROVE  /\ Merged(before, runs) \in Contexts
           /\ before.charts \subseteq Merged(before, runs).charts
           /\ UNION {work[r].charts : r \in runs} \subseteq Merged(before, runs).charts
           /\ (\A r \in runs : ~Touched(work[r])) =>
                 Merged(before, runs).place = before.place /\ Merged(before, runs).handle = before.handle
           /\ PairFits(before) /\ (\A r \in runs : PairFits(work[r])) => PairFits(Merged(before, runs))
<1> DEFINE areas == {Area(work[r], before) : r \in {q \in runs : Touched(work[q])}}
           Pairs == [place : AreaPlaces, handle : Handles]
           area == IF areas = {} THEN [place |-> before.place, handle |-> before.handle]
                   ELSE IF Cardinality(areas) > 1 THEN NoArea
                   ELSE CHOOSE a \in areas : TRUE
           charts == before.charts \cup UNION {work[r].charts : r \in runs}
<1>1. Merged(before, runs) = [place |-> area.place, handle |-> area.handle, charts |-> charts]
  BY Zenon DEF Merged
<1>2. \A r \in runs : work[r] \in Memories
  BY DEF ContextTypes
<1>3. charts \in SUBSET Runs
  BY <1>2 DEF Contexts, Memories
<1>4. \A a \in areas : /\ a \in Pairs
                       /\ PairFits(before) /\ (\A r \in runs : PairFits(work[r])) => PairFits(a)
  <2> SUFFICES ASSUME NEW r \in runs
               PROVE  /\ Area(work[r], before) \in Pairs
                      /\ PairFits(before) /\ PairFits(work[r]) => PairFits(Area(work[r], before))
    OBVIOUS
  <2> QED
    BY <1>2 DEF Area, PairFits, Contexts, Memories
<1>5. NoArea \in Pairs /\ PairFits(NoArea)
  BY DEF NoArea, AreaPlaces, Handles, ContextTypes, PairFits
<1>6. /\ area \in Pairs
      /\ PairFits(before) /\ (\A r \in runs : PairFits(work[r])) => PairFits(area)
  <2>1. CASE areas = {}
    <3> HIDE DEF areas
    <3>1. area = [place |-> before.place, handle |-> before.handle]
      BY <2>1
    <3> HIDE DEF area
    <3> QED
      BY <3>1 DEF Contexts, PairFits
  <2>2. CASE areas # {}
    <3> HIDE DEF areas
    <3>1. PICK a \in areas : a = CHOOSE x \in areas : TRUE
      BY <2>2
    <3>2. area = NoArea \/ area = a
      BY <2>2, <3>1
    <3> HIDE DEF area, Pairs
    <3> QED
      BY <3>1, <3>2, <1>4, <1>5
  <2> QED
    BY <2>1, <2>2
<1>7. (\A r \in runs : ~Touched(work[r])) => area.place = before.place /\ area.handle = before.handle
  <2> SUFFICES ASSUME \A r \in runs : ~Touched(work[r])
               PROVE  area.place = before.place /\ area.handle = before.handle
    OBVIOUS
  <2>1. areas = {}
    OBVIOUS
  <2> HIDE DEF areas
  <2> QED
    BY <2>1
<1> HIDE DEF area, areas
<1> QED
  BY <1>1, <1>3, <1>6, <1>7 DEF Contexts, PairFits

\* What the parts of the invariant say of the values they are about.
LEMMA ContextParts ==
    ASSUME ContextTypes
    PROVE  /\ \A b \in Batches : prior[b] \in Contexts
           /\ \A r \in Runs : work[r] \in Memories /\ work[r].charts \in SUBSET Runs
           /\ saved \in Contexts /\ saved.charts \in SUBSET Runs
           /\ saved.place \in AreaPlaces /\ saved.handle \in Handles
           /\ Len(drawn) \in Nat /\ dbFaults \in Nat
  BY DEF ContextTypes, Contexts, Memories

\* What a batch reads is what is saved, unless a failure is counted.
LEMMA LoadedLaws ==
    ASSUME ContextTypes, NEW failed \in BOOLEAN, CountFault(failed)
    PROVE  /\ Loaded(failed) \in Contexts /\ dbFaults' \in Nat
           /\ PairFits(saved) => PairFits(Loaded(failed))
           /\ dbFaults' = 0 => dbFaults = 0 /\ ~failed /\ Loaded(failed) = saved
           /\ ~failed => Loaded(failed) = saved
  BY NoneFits, ContextParts DEF Loaded, CountFault

LEMMA BatchStartsKeeps ==
    ASSUME ContextInv, NEW b \in Batches, BatchStarts(b)
    PROVE  ContextInv'
<1>1. PICK failed \in BOOLEAN :
         /\ CountFault(failed)
         /\ prior' = [prior EXCEPT ![b] = Loaded(failed)]
         /\ offers' = [r \in Runs |-> IF BatchOf[r] = b THEN Offered(Loaded(failed)) ELSE offers[r]]
  BY DEF BatchStarts
<1>2. /\ batch[b] = "idle" /\ batch' = [batch EXCEPT ![b] = "running"]
      /\ \A o \in Batches : Busy(o) => o \notin fast
      /\ fast' = fast \/ (fast' = fast \cup {b} /\ \A o \in Batches : ~Busy(o))
      /\ UNCHANGED <<saved, held, work, drawn, muddled, nameable>>
  BY DEF BatchStarts, Busy
<1>3. ContextTypes /\ PairsInv /\ LockInv /\ SavesInv
  BY DEF ContextInv
<1>4. Offered(Loaded(failed)) \in [place : AreaPlaces, handle : Handles]
  BY <1>1, <1>3, LoadedLaws DEF Offered, Contexts, Handles, ContextTypes
<1>5. ContextTypes'
  <2>1. offers' \in [Runs -> [place : AreaPlaces, handle : Handles]]
    BY <1>1, <1>3, <1>4 DEF ContextTypes
  <2>2. prior' \in [Batches -> Contexts] /\ dbFaults' \in Nat
    BY <1>1, <1>3, LoadedLaws DEF ContextTypes
  <2> QED
    BY <1>2, <1>3, <2>1, <2>2 DEF ContextTypes, Contexts, Memories, AreaPlaces, Handles
<1>6. PairsInv'
  <2>1. \A o \in Batches : prior'[o] = IF o = b THEN Loaded(failed) ELSE prior[o]
    BY <1>1, <1>3 DEF ContextTypes
  <2> QED
    BY <1>1, <1>2, <1>3, <2>1, LoadedLaws DEF PairsInv, PairFits, WorkFits, Suits
<1>7. \A o \in Batches : /\ batch'[o] = IF o = b THEN "running" ELSE batch[o]
                         /\ prior'[o] = IF o = b THEN Loaded(failed) ELSE prior[o]
  BY <1>1, <1>2, <1>3 DEF ContextTypes
<1>8. fast \subseteq Batches
  BY <1>3 DEF ContextTypes
<1>9. LockInv'
  BY <1>2, <1>3, <1>7, <1>8 DEF LockInv, Busy
<1>10. SavesInv'
  <2>1. \A o \in Batches : o # b => (Merging(o)' => Merging(o))
    BY <1>2, <1>7, <1>8 DEF Merging
  <2>2. dbFaults' = 0 => dbFaults = 0 /\ Loaded(failed) = saved
    BY <1>1, <1>3, LoadedLaws
  <2> QED
    BY <1>2, <1>3, <1>7, <2>1, <2>2 DEF SavesInv
<1> QED
  BY <1>5, <1>6, <1>9, <1>10 DEF ContextInv

\* A step of a run leaves the batches, and what is saved and read, alone.
LEMMA RunStepKeeps ==
    ASSUME ContextInv, NEW r \in Runs, NEW w \in [place : AreaPlaces, handle : Nat, charts : SUBSET Runs,
                                                  calls : 0 .. MaxCalls, latest : Nat],
           work' = [work EXCEPT ![r] = w],
           drawn' = drawn \/ \E p \in Places : drawn' = Append(drawn, p), Len(drawn') <= MaxHandles,
           w.handle <= Len(drawn'), w.latest <= Len(drawn'),
           muddled' = {} => muddled = {} /\ (PairsInv => Suits(w, drawn')),
           UNCHANGED <<saved, batch, fast, prior, held, offers, dbFaults, nameable>>
    PROVE  ContextInv'
<1>1. ContextTypes /\ PairsInv /\ LockInv /\ SavesInv
  BY DEF ContextInv
<1>2. /\ drawn' \in Seq(Places) /\ Len(drawn) <= Len(drawn') /\ Len(drawn') \in Nat
      /\ \A i \in 1 .. Len(drawn) : drawn'[i] = drawn[i]
  <2>1. drawn \in Seq(Places)
    BY <1>1 DEF ContextTypes
  <2>2. CASE drawn' = drawn
    BY <2>1, <2>2
  <2>3. ASSUME NEW p \in Places, drawn' = Append(drawn, p)
        PROVE  /\ drawn' \in Seq(Places) /\ Len(drawn) <= Len(drawn') /\ Len(drawn') \in Nat
               /\ \A i \in 1 .. Len(drawn) : drawn'[i] = drawn[i]
    BY <2>1, <2>3
  <2> QED
    BY <2>2, <2>3
<1>3. Handles \subseteq Handles'
  BY <1>1, <1>2 DEF Handles, ContextTypes
<1>4. ContextTypes'
  <2>1. w \in Memories'
    BY <1>2 DEF Memories, Handles, AreaPlaces
  <2>2. \A q \in Runs : work[q] \in Memories'
    BY <1>1, <1>3, ContextParts DEF Memories, AreaPlaces
  <2>3. work' \in [Runs -> Memories']
    BY <1>1, <2>1, <2>2 DEF ContextTypes
  <2>4. Contexts \subseteq Contexts'
    BY <1>3 DEF Contexts, AreaPlaces
  <2>5. offers' \in [Runs -> [place : AreaPlaces', handle : Handles']]
    BY <1>1, <1>3 DEF ContextTypes, AreaPlaces
  <2> QED
    BY <1>1, <1>2, <2>3, <2>4, <2>5 DEF ContextTypes
<1>5. PairsInv'
  <2> SUFFICES ASSUME muddled' = {} PROVE PairsInv'
    BY DEF PairsInv
  <2>1. /\ PairFits(saved) /\ Suits(w, drawn')
        /\ \A b \in Batches : PairFits(prior[b])
        /\ \A q \in Runs : WorkFits(q)
    BY <1>1 DEF PairsInv
  <2>2. \A i \in Handles : i # 0 => drawn'[i] = drawn[i]
    BY <1>1, <1>2 DEF Handles, ContextTypes
  <2>3. PairFits(saved)' /\ \A b \in Batches : PairFits(prior[b])'
    BY <1>1, <2>1, <2>2, ContextParts DEF PairFits, Contexts
  <2>4. \A q \in Runs : WorkFits(q)'
    <3> SUFFICES ASSUME NEW q \in Runs, q # r PROVE WorkFits(q)'
      BY <1>1, <2>1 DEF WorkFits, ContextTypes
    <3>1. work'[q] = work[q] /\ work[q].handle \in Handles /\ work[q].latest \in Handles
      BY <1>1 DEF ContextTypes, Memories
    <3> QED
      BY <2>1, <2>2, <3>1 DEF WorkFits, Suits, PairFits
  <2> QED
    BY <2>3, <2>4 DEF PairsInv
<1>6. LockInv' /\ SavesInv'
  BY <1>1 DEF LockInv, SavesInv, Busy, Merging
<1> QED
  BY <1>4, <1>5, <1>6 DEF ContextInv

\* A run at work has a call left.
LEMMA WorkingLaws ==
    ASSUME ContextTypes, NEW r \in Runs, Working(r)
    PROVE  /\ work[r] \in Memories /\ work[r].calls + 1 \in 0 .. MaxCalls
           /\ work[r].handle \in Nat /\ work[r].handle <= Len(drawn)
           /\ work[r].latest \in Nat /\ work[r].latest <= Len(drawn)
           /\ Len(drawn) \in Nat /\ Len(drawn) <= MaxHandles
<1>1. work[r] \in Memories /\ Len(drawn) \in Nat /\ Len(drawn) <= MaxHandles
  BY ContextParts DEF ContextTypes
<1>2. work[r].calls \in 0 .. MaxCalls /\ work[r].handle \in Handles /\ work[r].latest \in Handles
  BY <1>1 DEF Memories
<1> QED
  BY <1>1, <1>2, ContextConstants DEF Working, Handles

LEMMA DefinesKeeps ==
    ASSUME ContextInv, NEW r \in Runs, NEW p \in Places, Defines(r, p)
    PROVE  ContextInv'
<1> DEFINE w == [[Captures(work[r], p) EXCEPT !.latest = Len(drawn) + 1] EXCEPT !.calls = work[r].calls + 1]
<1>1. ContextTypes /\ Working(r)
  BY DEF ContextInv, Defines
<1>2. /\ w \in [place : AreaPlaces, handle : Nat, charts : SUBSET Runs, calls : 0 .. MaxCalls, latest : Nat]
      /\ w.place = p /\ w.handle = 0 /\ w.latest = Len(drawn) + 1
  <2>1. work[r] \in Memories /\ work[r].calls + 1 \in 0 .. MaxCalls /\ Len(drawn) + 1 \in Nat
    BY <1>1, WorkingLaws
  <2>2. PICK c : c = Captures(work[r], p)
    OBVIOUS
  <2>3. c = [place |-> p, handle |-> 0, charts |-> work[r].charts, calls |-> work[r].calls,
             latest |-> work[r].latest]
    BY <2>1, <2>2 DEF Captures, Memories
  <2>4. PICK n, m : n = Len(drawn) + 1 /\ m = work[r].calls + 1
    OBVIOUS
  <2>5. w = [[c EXCEPT !.latest = n] EXCEPT !.calls = m]
    BY <2>2, <2>4, Zenon
  <2>6. [c EXCEPT !.latest = n] = [place |-> p, handle |-> 0, charts |-> work[r].charts,
                                   calls |-> work[r].calls, latest |-> n]
    BY <2>3
  <2> HIDE DEF w
  <2>7. w = [place |-> p, handle |-> 0, charts |-> work[r].charts, calls |-> m, latest |-> n]
    BY <2>5, <2>6
  <2> QED
    BY <2>1, <2>4, <2>7 DEF Memories, AreaPlaces
<1>3. /\ work' = [work EXCEPT ![r] = w] /\ drawn' = Append(drawn, p) /\ Len(drawn') = Len(drawn) + 1
      /\ Len(drawn') <= MaxHandles /\ drawn'[Len(drawn) + 1] = p
      /\ UNCHANGED <<saved, batch, fast, prior, held, offers, dbFaults, muddled, nameable>>
  BY <1>1, ContextConstants DEF Defines, Does, ContextTypes
<1> HIDE DEF w
<1>4. Suits(w, drawn')
  BY <1>2, <1>3 DEF Suits
<1>5. w.handle <= Len(drawn') /\ w.latest <= Len(drawn')
  BY <1>1, <1>2, <1>3, WorkingLaws
<1> QED
  BY <1>2, <1>3, <1>4, <1>5, RunStepKeeps

LEMMA IsRejectedKeeps ==
    ASSUME ContextInv, NEW r \in Runs, NEW p \in Places, IsRejected(r, p)
    PROVE  ContextInv'
<1> DEFINE w == [[Captures(work[r], p) EXCEPT !.latest = 0] EXCEPT !.calls = work[r].calls + 1]
<1>1. ContextTypes /\ Working(r)
  BY DEF ContextInv, IsRejected
<1>2. /\ w \in [place : AreaPlaces, handle : Nat, charts : SUBSET Runs, calls : 0 .. MaxCalls, latest : Nat]
      /\ w.handle = 0 /\ w.latest = 0
  BY <1>1, WorkingLaws DEF Captures, Memories, AreaPlaces
<1>3. /\ work' = [work EXCEPT ![r] = w]
      /\ UNCHANGED <<saved, batch, fast, prior, held, offers, drawn, dbFaults, muddled, nameable>>
  BY DEF IsRejected, Does
<1> HIDE DEF w
<1>4. Suits(w, drawn')
  BY <1>2 DEF Suits
<1>5. w.handle <= Len(drawn') /\ w.latest <= Len(drawn') /\ Len(drawn') <= MaxHandles
  BY <1>1, <1>2, <1>3, WorkingLaws
<1> QED
  BY <1>2, <1>3, <1>4, <1>5, RunStepKeeps

LEMMA UsesKeeps ==
    ASSUME ContextInv, NEW r \in Runs, NEW h \in 1 .. MaxHandles, Uses(r, h)
    PROVE  ContextInv'
<1> DEFINE w == [UsesArea(work[r], h) EXCEPT !.calls = work[r].calls + 1]
           blind == work[r].place # "none" /\ work[r].handle = 0 /\ h # work[r].latest
<1>1. ContextTypes /\ Working(r)
  BY DEF ContextInv, Uses
<1>2. h \in Nat /\ h <= Len(drawn)
  BY <1>1, WorkingLaws DEF Uses, ContextTypes, Handles
<1>3. /\ w \in [place : AreaPlaces, handle : Nat, charts : SUBSET Runs, calls : 0 .. MaxCalls, latest : Nat]
      /\ w.handle = h /\ w.latest = work[r].latest
      /\ w.place # "none" => /\ w.place = work[r].place
                             /\ work[r].handle = 0 \/ work[r].handle = h
  BY <1>1, <1>2, WorkingLaws DEF UsesArea, Memories, AreaPlaces
<1>4. /\ work' = [work EXCEPT ![r] = w]
      /\ muddled' = IF blind THEN muddled \cup {h} ELSE muddled
      /\ UNCHANGED <<saved, batch, fast, prior, held, offers, drawn, dbFaults, nameable>>
  BY DEF Uses, Does
<1> HIDE DEF w
<1>5. muddled' = {} => muddled = {} /\ ~blind
  BY <1>4
<1>6. ASSUME PairsInv, muddled = {}, ~blind PROVE Suits(w, drawn')
  <2>1. Suits(work[r], drawn) /\ h # 0
    BY <1>6 DEF PairsInv, WorkFits, Uses
  <2> QED
    BY <1>3, <1>4, <1>6, <2>1 DEF Suits
<1> QED
  BY <1>1, <1>2, <1>3, <1>4, <1>5, <1>6, WorkingLaws, RunStepKeeps

LEMMA DrawsKeeps ==
    ASSUME ContextInv, NEW r \in Runs, Draws(r)
    PROVE  ContextInv'
<1> DEFINE w == [[work[r] EXCEPT !.charts = {r}] EXCEPT !.calls = work[r].calls + 1]
<1>1. ContextTypes /\ Working(r)
  BY DEF ContextInv, Draws
<1>2. /\ w \in [place : AreaPlaces, handle : Nat, charts : SUBSET Runs, calls : 0 .. MaxCalls, latest : Nat]
      /\ w.place = work[r].place /\ w.handle = work[r].handle /\ w.latest = work[r].latest
  BY <1>1, WorkingLaws DEF Memories, AreaPlaces
<1>3. /\ work' = [work EXCEPT ![r] = w]
      /\ UNCHANGED <<saved, batch, fast, prior, held, offers, drawn, dbFaults, muddled, nameable>>
  BY DEF Draws, Does
<1> HIDE DEF w
<1>4. muddled = {} /\ PairsInv => Suits(w, drawn')
  BY <1>2, <1>3 DEF WorkFits, Suits, PairsInv
<1> QED
  BY <1>1, <1>2, <1>3, <1>4, WorkingLaws, RunStepKeeps

LEMMA BatchEndsEmptyKeeps ==
    ASSUME ContextInv, NEW b \in Batches, BatchEndsEmpty(b)
    PROVE  ContextInv'
<1>1. ContextTypes /\ PairsInv /\ LockInv /\ SavesInv
  BY DEF ContextInv
<1>2. /\ batch' = [batch EXCEPT ![b] = "done"]
      /\ UNCHANGED <<saved, fast, prior, held, work, offers, drawn, dbFaults, muddled, nameable>>
  BY DEF BatchEndsEmpty
<1>3. fast \subseteq Batches /\ \A o \in Batches : batch'[o] = IF o = b THEN "done" ELSE batch[o]
  BY <1>1, <1>2 DEF ContextTypes
<1>4. ContextTypes' /\ PairsInv'
  BY <1>1, <1>2 DEF ContextTypes, Contexts, Memories, AreaPlaces, Handles, PairsInv, PairFits, WorkFits, Suits
<1>5. LockInv' /\ SavesInv'
  BY <1>1, <1>2, <1>3 DEF LockInv, SavesInv, Busy, Merging
<1> QED
  BY <1>4, <1>5 DEF ContextInv

LEMMA BatchReadsKeeps ==
    ASSUME ContextInv, NEW b \in Batches, BatchReads(b)
    PROVE  ContextInv'
<1>1. ContextTypes /\ PairsInv /\ LockInv /\ SavesInv
  BY DEF ContextInv
<1>2. PICK failed \in BOOLEAN :
         /\ CountFault(failed)
         /\ prior' = [prior EXCEPT ![b] = Loaded(failed)]
         /\ nameable' = IF failed THEN {} ELSE nameable
  BY DEF BatchReads
<1>3. /\ batch[b] = "running" /\ b \notin fast /\ held = 0 /\ held' = b
      /\ batch' = [batch EXCEPT ![b] = "merging"]
      /\ UNCHANGED <<saved, fast, work, offers, drawn, muddled>>
  BY DEF BatchReads
<1>4. /\ fast \subseteq Batches
      /\ \A o \in Batches : /\ batch'[o] = IF o = b THEN "merging" ELSE batch[o]
                            /\ prior'[o] = IF o = b THEN Loaded(failed) ELSE prior[o]
  BY <1>1, <1>2, <1>3 DEF ContextTypes
<1>5. ContextTypes'
  BY <1>1, <1>2, <1>3, LoadedLaws DEF ContextTypes, Contexts, Memories, AreaPlaces, Handles
<1>6. PairsInv'
  BY <1>1, <1>2, <1>3, <1>4, LoadedLaws DEF PairsInv, PairFits, WorkFits, Suits
<1>7. \A o \in Batches : batch[o] # "merging"
  BY <1>1, <1>3, ContextConstants DEF LockInv
<1>8. LockInv'
  BY <1>1, <1>3, <1>4, <1>7 DEF LockInv, Busy
<1>9. SavesInv'
  <2>1. dbFaults' = 0 => dbFaults = 0 /\ Loaded(failed) = saved
    BY <1>1, <1>2, LoadedLaws
  <2>2. ~failed => Loaded(failed) = saved
    BY DEF Loaded
  <2> QED
    BY <1>1, <1>2, <1>3, <1>4, <1>7, <2>1, <2>2 DEF SavesInv, Merging
<1> QED
  BY <1>5, <1>6, <1>8, <1>9 DEF ContextInv

LEMMA BatchSavesKeeps ==
    ASSUME ContextInv, NEW b \in Batches, BatchSaves(b)
    PROVE  ContextInv'
<1> DEFINE merge == Merged(prior[b], RunsOf(b))
<1>1. ContextTypes /\ PairsInv /\ LockInv /\ SavesInv
  BY DEF ContextInv
<1>2. PICK failed \in BOOLEAN :
         /\ CountFault(failed)
         /\ saved' = IF failed THEN saved ELSE merge
         /\ nameable' = IF failed THEN nameable
                        ELSE (IF b \in fast THEN nameable \cap prior[b].charts ELSE nameable)
                             \cup SavedCharts(b)
  BY DEF BatchSaves
<1>3. /\ batch[b] = "merging" \/ (b \in fast /\ batch[b] = "running")
      /\ batch' = [batch EXCEPT ![b] = "done"]
      /\ held' = IF held = b THEN 0 ELSE held
      /\ UNCHANGED <<fast, prior, work, offers, drawn, muddled>>
  BY DEF BatchSaves
<1>4. fast \subseteq Batches /\ \A o \in Batches : batch'[o] = IF o = b THEN "done" ELSE batch[o]
  BY <1>1, <1>3 DEF ContextTypes
<1>5. prior[b] \in Contexts /\ RunsOf(b) \in SUBSET Runs
  BY <1>1, ContextParts DEF RunsOf
<1>6. /\ merge \in Contexts
      /\ prior[b].charts \subseteq merge.charts /\ SavedCharts(b) \subseteq merge.charts
      /\ PairFits(prior[b]) /\ (\A r \in RunsOf(b) : PairFits(work[r])) => PairFits(merge)
  BY <1>1, <1>5, MergeLaws DEF SavedCharts
<1> HIDE DEF merge
<1>7. dbFaults' \in Nat /\ (dbFaults' = 0 => dbFaults = 0)
  BY <1>1, <1>2, LoadedLaws
<1>8. ContextTypes'
  BY <1>1, <1>2, <1>3, <1>6, <1>7 DEF ContextTypes, Contexts, Memories, AreaPlaces, Handles
<1>9. PairsInv'
  BY <1>1, <1>2, <1>3, <1>5, <1>6 DEF PairsInv, PairFits, WorkFits, Suits
\* nobody else is about to save
<1>10. \A o \in Batches : o # b => batch[o] # "merging" /\ ~Merging(o)
  <2>1. CASE batch[b] = "merging"
    BY <1>1, <1>4, <2>1 DEF LockInv, Merging, Busy
  <2>2. CASE b \in fast /\ batch[b] = "running"
    BY <1>1, <1>4, <2>2 DEF LockInv, Merging, Busy
  <2> QED
    BY <1>3, <2>1, <2>2
<1>11. LockInv'
  BY <1>1, <1>3, <1>4, <1>10 DEF LockInv, Busy
<1>12. SavesInv'
  <2>1. \A o \in Batches : ~Merging(o)' /\ batch'[o] # "merging"
    BY <1>3, <1>4, <1>10 DEF Merging
  <2>2. nameable' \subseteq saved'.charts
    <3>1. CASE failed
      BY <1>1, <1>2, <3>1 DEF SavesInv
    <3>2. CASE ~failed /\ b \in fast
      BY <1>2, <1>6, <3>2
    <3>3. CASE ~failed /\ b \notin fast
      BY <1>1, <1>2, <1>3, <1>6, <3>3 DEF SavesInv
    <3> QED
      BY <3>1, <3>2, <3>3
  <2> QED
    BY <2>1, <2>2 DEF SavesInv
<1> QED
  BY <1>8, <1>9, <1>11, <1>12 DEF ContextInv

\* An area changes by a failed read or by a batch that named one.
LEMMA AreaChanges ==
    ASSUME ContextInv, NEW b \in Batches, BatchSaves(b), dbFaults = 0,
           \A r \in RunsOf(b) : ~Touched(work[r])
    PROVE  saved'.place = saved.place /\ saved'.handle = saved.handle
<1>1. ContextTypes /\ SavesInv /\ prior[b] \in Contexts /\ RunsOf(b) \in SUBSET Runs
  BY ContextParts DEF ContextInv, RunsOf
<1>2. saved' = saved \/ saved' = Merged(prior[b], RunsOf(b))
  BY DEF BatchSaves
<1>3. /\ Merged(prior[b], RunsOf(b)).place = prior[b].place
      /\ Merged(prior[b], RunsOf(b)).handle = prior[b].handle
  BY <1>1, MergeLaws
<1>4. prior[b].place = saved.place /\ prior[b].handle = saved.handle
  BY <1>1 DEF SavesInv, Merging, BatchSaves
<1> QED
  BY <1>2, <1>3, <1>4

\* The inductive invariant: a batch that is going to save has read what is still
\* saved, and no pair of a place and a handle that anybody holds is mixed up.
THEOREM ContextInvariant == ContextSpec => []ContextInv
<1>1. ContextInv /\ [ContextNext]_contextVars => ContextInv'
  <2> SUFFICES ASSUME ContextInv, [ContextNext]_contextVars PROVE ContextInv'
    OBVIOUS
  <2>1. CASE ContextNext
    BY <2>1, BatchStartsKeeps, BatchEndsEmptyKeeps, BatchReadsKeeps, BatchSavesKeeps, DrawsKeeps,
       DefinesKeeps, IsRejectedKeeps, UsesKeeps DEF ContextNext
  <2>2. CASE UNCHANGED contextVars
    BY <2>2 DEF contextVars, ContextInv, ContextTypes, Contexts, Memories, AreaPlaces, Handles,
       PairsInv, PairFits, WorkFits, Suits, LockInv, Busy, SavesInv, Merging
  <2> QED
    BY <2>1, <2>2
<1> QED
  BY <1>1, ContextStarts, PTL DEF ContextSpec

\* ContextStands.  What a thread is offered fits, whatever batches ran side by
\* side, in any order and number, and whichever reads and writes failed.
THEOREM ContextKeepsFaith == ContextSpec => ContextStands
<1> DEFINE Safe == ContextTypeOK /\ PairsBreakByMisuseOnly /\ ChartsStayNameable
           Kept == (saved'.place # saved.place \/ saved'.handle # saved.handle)
                     => dbFaults > 0 \/ \E r \in Runs : batch[BatchOf[r]] # batch'[BatchOf[r]]
                                                        /\ Touched(work[r])
<1>1. ContextInv => Safe
  <2> SUFFICES ASSUME ContextInv PROVE Safe
    OBVIOUS
  <2>1. ContextTypes /\ PairsInv /\ SavesInv
    BY DEF ContextInv
  <2>2. ContextTypeOK
    BY <2>1, ContextParts, ContextConstants
       DEF ContextTypeOK, ContextTypes, Handles, AreaPlaces, Memories
  <2>3. PairsBreakByMisuseOnly
    BY <2>1 DEF PairsBreakByMisuseOnly, HandleGoesWithItsPlace, PairsInv, PairFits, Offered
  <2> QED
    BY <2>1, <2>2, <2>3 DEF ChartsStayNameable, SavesInv
<1>2. ContextInv /\ [ContextNext]_contextVars => [Kept]_contextVars
  <2> SUFFICES ASSUME ContextInv, ContextNext PROVE Kept
    BY Zenon
  <2>1. ASSUME NEW b \in Batches, BatchSaves(b) PROVE Kept
    <3>1. dbFaults \in Nat
      BY ContextParts DEF ContextInv
    <3>2. \A r \in RunsOf(b) : r \in Runs /\ batch[BatchOf[r]] # batch'[BatchOf[r]]
      <4>1. batch[b] # "done" /\ batch'[b] = "done"
        BY <2>1 DEF BatchSaves, ContextInv, ContextTypes
      <4> QED
        BY <4>1 DEF RunsOf
    <3> QED
      BY <2>1, <3>1, <3>2, AreaChanges
  <2>2. (\E b \in Batches : BatchSaves(b)) \/ saved' = saved
    BY DEF ContextNext, BatchStarts, BatchEndsEmpty, BatchReads, Draws, Defines, IsRejected, Uses
  <2> QED
    BY <2>1, <2>2
<1>3. ContextSpec => []Safe
  BY <1>1, ContextInvariant, PTL
<1>4. ContextSpec => [][Kept]_contextVars
  BY <1>2, ContextInvariant, PTL DEF ContextSpec
<1> QED
  BY <1>3, <1>4 DEF ContextStands, AreaStands

-----------------------------------------------------------------------------
(* What the client hears.  The parts of the invariant are the types, the      *)
(* tasks and their feeds, what the turn still does, job events, charts, what  *)
(* the client was told and how long it has heard nothing.                     *)

ItemKinds == {"status", "job", "draft", "chart", "text", "error", "done", "last", "result", "back"}
Names == Jobs \cup Charts \cup {"none", "failed", "overloaded", "timeout"}
Items == {x \in [kind : ItemKinds, name : Names, status : {"none", "running", "ready"}] :
             /\ x.kind = "job" => x.name \in Jobs /\ x.status \in {"running", "ready"}
             /\ x.kind \in {"draft", "chart"} => x.name \in Charts /\ x.status = "none"}
Draft(c) == Item("draft", c, "none")
Chart(c) == Item("chart", c, "none")
Late == Item("error", "timeout", "none")
HasKind(s, kinds) == \E i \in 1 .. Len(s) : s[i].kind \in kinds
AllOf(s, kinds) == \A i \in 1 .. Len(s) : s[i].kind \in kinds

\* Every end of the loop in s comes after a result or an error.
Backed(s) == \A i \in 1 .. Len(s) : s[i].kind = "last" =>
                \E k \in 1 .. Len(s) : k < i /\ s[k].kind \in {"result", "error"}

\* The turn has closed, and without an error.
Answered == phase = "ended" /\ ~HasKind(log, {"error"})

StreamTypes ==
    /\ route \in {"ground", "satellite", "supervisor"}
    /\ agent \in {"none", "running", "done", "stopped"}
    /\ runner \in {"none", "running", "done", "stopped"}
    /\ timers \subseteq {"watchdog", "heartbeat"}
    /\ stream \in Seq(Items) /\ queue \in Seq(Items) /\ todo \in Seq(Items)
    /\ seen \in Seq(Items) /\ log \in Seq(Items) /\ spoken \in Seq(Items)
    /\ streamIdle \in Nat /\ idle \in Nat /\ quiet \in Nat /\ clock \in 0 .. Deadline
    /\ phase \in {"loop", "tail", "failing", "ended", "stopped", "dead"}
    /\ result \in BOOLEAN /\ known \in [Jobs -> {"none", "running", "ready"}]
    /\ emitted \subseteq Charts /\ named \subseteq Jobs /\ storeFaults \in Nat

\* What each task may still do, and what its feed may therefore hold: nothing
\* but beats and ends follows an end, and while a task runs it has not ended.
Ends == {"last", "error", "result"}
EndsLast(s) == \A i, k \in 1 .. Len(s) : i < k /\ s[i].kind \in Ends => s[k].kind \in {"last", "status"}
TaskOrder ==
    /\ Fast <=> runner # "none"
    /\ route = "ground" <=> agent = "none"
    /\ route # "satellite" => stream = << >> /\ seen = << >>
    /\ phase = "loop" => /\ agent # "stopped" /\ runner # "stopped"
                         /\ route = "ground" => "heartbeat" \in timers
                         /\ route = "supervisor" => "watchdog" \in timers
    /\ phase = "tail" \/ Answered => agent # "running"
    /\ route = "satellite" /\ runner = "done" => agent # "running" /\ stream = << >> /\ "watchdog" \notin timers
    /\ agent = "running" => ~HasKind(stream, {"last", "error"})
    /\ agent = "running" /\ route = "supervisor" => ~HasKind(queue, {"last", "error"})
    /\ runner = "running" => ~HasKind(queue, Ends)
FeedOrder ==
    /\ AllOf(spoken, {"job", "draft", "text"}) /\ (route = "ground" => spoken = << >>)
    /\ AllOf(stream, {"job", "draft", "text", "status", "error", "last"})
    /\ AllOf(queue, IF route = "ground" THEN {"status", "error", "last", "result"}
                    ELSE {"job", "draft", "text", "status", "error", "last", "result"})
    /\ route = "supervisor" => ~HasKind(queue, {"result"})
    /\ AllOf(seen, {"draft"})
    /\ EndsLast(stream) /\ EndsLast(queue)

\* On the fast path the loop's end is preceded by a result or an error.
ResultOrder ==
    /\ phase = "loop" /\ runner = "done" => HasKind(queue, {"last"})
    /\ phase = "loop" /\ result => runner # "running"
    /\ phase = "loop" /\ Fast => result \/ Backed(queue)
    /\ phase = "tail" \/ Answered => (Fast => result)

\* What the turn still does, by phase, and what the log may hold.
Concluded(s) == \A i, k \in 1 .. Len(s) : i < k =>
                s[i].kind # "done" /\ (s[i].kind = "error" => s[k].kind = "done")
ToTheEnd(s) ==
    /\ s # << >> /\ s[Len(s)].kind = "done"
    /\ \A i \in 1 .. Len(s) : i # Len(s) => s[i].kind \in {"draft", "chart", "text", "back"}
EndingOrder ==
    /\ phase \in {"loop", "tail"} => ~HasKind(log, {"error", "done"})
    /\ phase = "loop" => Len(todo) <= 1 /\ AllOf(todo, {"status", "job", "draft", "chart", "text"})
    /\ phase = "tail" => ToTheEnd(todo) /\ (~Fast => Len(todo) = 1)
    /\ phase = "failing" =>
          /\ todo # << >>
          /\ \/ /\ ~HasKind(log, {"error", "done"}) /\ todo[1].kind = "error"
                /\ \A i \in 1 .. Len(todo) : i # 1 => i = Len(todo) /\ todo[i].kind = "done"
             \/ /\ Len(todo) = 1 /\ todo[1].kind = "done"
                /\ log # << >> /\ log[Len(log)].kind = "error" /\ ~HasKind(log, {"done"})
    /\ Over => todo = << >>
    /\ AllOf(log, Frames) /\ Concluded(log)
    /\ HasKind(log, {"done"}) => phase = "ended"
    /\ phase = "ended" => log # << >> /\ log[Len(log)].kind \in {"done", "error"}
    /\ phase = "dead" => clock = Deadline \/ (Fast /\ storeFaults > 0)

\* Job events are on their way in the order they were published.
JobOrder ==
    /\ phase = "loop" => ((Only(log, "job") \o Only(todo, "job")) \o Only(queue, "job")) \o Only(stream, "job")
                             = Only(spoken, "job")
    /\ phase = "tail" \/ Answered => Only(log, "job") = Only(spoken, "job")

\* A chart the agent drew is still on its way until it is stored, and what is
\* stored is shown, or about to be, once.
DraftsIn(s) == {c \in Charts : Draft(c) \in ToSet(s)}
ChartsIn(s) == {c \in Charts : Chart(c) \in ToSet(s)}
Once(s, sort) == \A i, k \in 1 .. Len(s) : s[i].kind = sort /\ s[i] = s[k] => i = k
ChartOrder ==
    /\ phase \in {"loop", "tail"} \/ Answered =>
          /\ emitted \subseteq ChartsIn(log) \cup ChartsIn(todo)
          /\ emitted \subseteq DraftsIn(spoken)
          /\ DraftsIn(spoken) \subseteq emitted \cup DraftsIn(todo)
                                  \cup (IF phase = "loop" THEN DraftsIn(queue) \cup DraftsIn(stream) ELSE {})
    /\ DraftsIn(todo) \cup DraftsIn(queue) \cup DraftsIn(stream) \cup DraftsIn(seen) \subseteq DraftsIn(spoken)
    /\ ChartsIn(log) \subseteq emitted /\ ChartsIn(log) \cap ChartsIn(todo) = {}
    /\ ChartsIn(todo) \subseteq emitted /\ (todo # << >> => ChartsIn(Tail(todo)) = {})
    /\ Once(log, "chart")

\* The supervisor's agent draws each chart once.
DraftOrder ==
    route = "supervisor" /\ phase = "loop" =>
        /\ emitted \cap (DraftsIn(todo) \cup DraftsIn(queue)) = {}
        /\ DraftsIn(todo) \cap DraftsIn(queue) = {}
        /\ Once(queue, "draft")

\* What the turn knows of the jobs is what the client was last told of them.
ToldOrder ==
    /\ phase = "loop" => \A j \in Jobs : known[j] = "running" <=> ToldRunning(j, log \o todo)
    /\ Late \in ToSet(log) \cup ToSet(todo) => named = {j \in Jobs : ToldRunning(j, log)}

\* A silence is never longer than the timer that watches it has counted.
BeatOrder ==
    /\ route # "satellite" => quiet <= Interval
    /\ phase = "loop" /\ route = "ground" =>
          /\ queue = << >> => idle < Interval
          /\ queue = << >> /\ todo = << >> => quiet <= idle
    /\ phase = "loop" /\ route = "supervisor" =>
          /\ streamIdle < Interval
          /\ queue = << >> /\ todo = << >> => quiet <= streamIdle

StreamInv ==
    /\ StreamTypes /\ TaskOrder /\ FeedOrder /\ ResultOrder /\ EndingOrder
    /\ JobOrder /\ ChartOrder /\ DraftOrder /\ ToldOrder /\ BeatOrder

-----------------------------------------------------------------------------
(* Sequences of items. *)

LEMMA JoinLaws ==
    ASSUME NEW S, NEW s \in Seq(S), NEW t \in Seq(S)
    PROVE  /\ s \o t \in Seq(S) /\ Len(s \o t) = Len(s) + Len(t)
           /\ Len(s) \in Nat /\ Len(t) \in Nat
           /\ \A i \in 1 .. Len(s) : (s \o t)[i] = s[i] /\ s[i] \in S
           /\ \A i \in 1 .. Len(t) : (s \o t)[Len(s) + i] = t[i] /\ t[i] \in S
           /\ \A i \in 1 .. Len(s) + Len(t) : i \in 1 .. Len(s) \/ i - Len(s) \in 1 .. Len(t)
           /\ DOMAIN s = 1 .. Len(s) /\ DOMAIN t = 1 .. Len(t)
  OBVIOUS

LEMMA KindLaws ==
    ASSUME NEW s \in Seq(Items), NEW t \in Seq(Items), NEW kinds
    PROVE  /\ HasKind(s \o t, kinds) <=> HasKind(s, kinds) \/ HasKind(t, kinds)
           /\ AllOf(s \o t, kinds) <=> AllOf(s, kinds) /\ AllOf(t, kinds)
<1> DEFINE u == s \o t
           m == Len(s)
           n == Len(t)
<1>1. /\ m \in Nat /\ n \in Nat /\ Len(u) = m + n
      /\ \A i \in 1 .. m : u[i] = s[i]
      /\ \A i \in 1 .. n : u[m + i] = t[i]
  BY JoinLaws
<1> HIDE DEF u, m, n
<1>2. \A i \in 1 .. m : i \in 1 .. m + n
  BY <1>1
<1>3. \A i \in 1 .. n : m + i \in 1 .. m + n
  BY <1>1
<1>4. \A i \in 1 .. m + n : i \in 1 .. m \/ (i - m \in 1 .. n /\ i = m + (i - m))
  BY <1>1
<1>5. \A k : (\E i \in 1 .. m + n : u[i].kind \in k)
             <=> (\E i \in 1 .. m : s[i].kind \in k) \/ (\E i \in 1 .. n : t[i].kind \in k)
  <2> TAKE k
  <2>1. ASSUME NEW i \in 1 .. m + n, u[i].kind \in k
        PROVE  (\E h \in 1 .. m : s[h].kind \in k) \/ (\E h \in 1 .. n : t[h].kind \in k)
    <3>1. CASE i \in 1 .. m
      BY <1>1, <2>1, <3>1
    <3>2. CASE i - m \in 1 .. n /\ i = m + (i - m)
      BY <1>1, <2>1, <3>2
    <3> QED
      BY <1>4, <3>1, <3>2
  <2>2. ASSUME NEW i \in 1 .. m, s[i].kind \in k PROVE \E h \in 1 .. m + n : u[h].kind \in k
    BY <1>1, <1>2, <2>2
  <2>3. ASSUME NEW i \in 1 .. n, t[i].kind \in k PROVE \E h \in 1 .. m + n : u[h].kind \in k
    BY <1>1, <1>3, <2>3
  <2> QED
    BY <2>1, <2>2, <2>3
<1>6. \A k : (\A i \in 1 .. m + n : u[i].kind \in k)
             <=> (\A i \in 1 .. m : s[i].kind \in k) /\ (\A i \in 1 .. n : t[i].kind \in k)
  <2> TAKE k
  <2>1. ASSUME \A i \in 1 .. m + n : u[i].kind \in k
        PROVE  (\A i \in 1 .. m : s[i].kind \in k) /\ (\A i \in 1 .. n : t[i].kind \in k)
    BY <1>1, <1>2, <1>3, <2>1
  <2>2. ASSUME \A i \in 1 .. m : s[i].kind \in k, \A i \in 1 .. n : t[i].kind \in k,
               NEW i \in 1 .. m + n
        PROVE  u[i].kind \in k
    <3>1. CASE i \in 1 .. m
      BY <1>1, <2>2, <3>1
    <3>2. CASE i - m \in 1 .. n /\ i = m + (i - m)
      BY <1>1, <2>2, <3>2
    <3> QED
      BY <1>4, <3>1, <3>2
  <2> QED
    BY <2>1, <2>2
<1>7. Len(u) = m + n /\ Len(s) = m /\ Len(t) = n
  BY <1>1 DEF m, n
<1> QED
  BY <1>5, <1>6, <1>7, Zenon DEF u, HasKind, AllOf

\* What comes after an end, and before the loop's end, in two feeds joined.
LEMMA FeedLaws ==
    ASSUME NEW s \in Seq(Items), NEW t \in Seq(Items)
    PROVE  /\ EndsLast(s) /\ EndsLast(t) /\ (~HasKind(s, Ends) \/ AllOf(t, {"last", "status"}))
                 => EndsLast(s \o t)
           /\ Backed(s) /\ Backed(t) => Backed(s \o t)
<1> DEFINE u == s \o t
           m == Len(s)
           n == Len(t)
<1>1. /\ m \in Nat /\ n \in Nat /\ Len(u) = m + n
      /\ \A i \in 1 .. m : u[i] = s[i]
      /\ \A i \in 1 .. n : u[m + i] = t[i]
  BY JoinLaws
<1>2. Len(s) = m /\ Len(t) = n
  BY DEF m, n
<1> HIDE DEF u, m, n
<1>3. \A i \in 1 .. m + n : i \in 1 .. m \/ (i - m \in 1 .. n /\ u[i] = t[i - m])
  <2> TAKE i \in 1 .. m + n
  <2>1. i \in 1 .. m \/ (i - m \in 1 .. n /\ i = m + (i - m))
    BY <1>1
  <2> QED
    BY <2>1, <1>1
<1>4. ASSUME EndsLast(s), EndsLast(t), ~HasKind(s, Ends) \/ AllOf(t, {"last", "status"}),
             NEW i \in 1 .. m + n, NEW k \in 1 .. m + n, i < k, u[i].kind \in Ends
      PROVE  u[k].kind \in {"last", "status"}
  <2>1. CASE i \in 1 .. m /\ k \in 1 .. m
    BY <2>1, <1>1, <1>2, <1>4 DEF EndsLast
  <2>2. CASE i \in 1 .. m /\ k - m \in 1 .. n /\ u[k] = t[k - m]
    <3>1. HasKind(s, Ends)
      BY <2>2, <1>1, <1>2, <1>4 DEF HasKind
    <3>2. AllOf(t, {"last", "status"})
      BY <3>1, <1>4
    <3> QED
      BY <2>2, <3>2, <1>2 DEF AllOf
  <2>3. CASE i - m \in 1 .. n /\ u[i] = t[i - m] /\ k - m \in 1 .. n /\ u[k] = t[k - m]
    <3>1. i - m < k - m
      BY <1>1, <1>4
    <3> QED
      BY <2>3, <3>1, <1>2, <1>4 DEF EndsLast
  <2>4. ~(i - m \in 1 .. n /\ k \in 1 .. m)
    BY <1>1, <1>4
  <2> QED
    BY <1>3, <2>1, <2>2, <2>3, <2>4
<1>5. ASSUME Backed(s), Backed(t), NEW i \in 1 .. m + n, u[i].kind = "last"
      PROVE  \E k \in 1 .. m + n : k < i /\ u[k].kind \in {"result", "error"}
  <2>1. CASE i \in 1 .. m
    <3>1. PICK k \in 1 .. m : k < i /\ s[k].kind \in {"result", "error"}
      BY <2>1, <1>1, <1>2, <1>5 DEF Backed
    <3>2. k \in 1 .. m + n /\ u[k] = s[k]
      BY <3>1, <1>1
    <3> QED
      BY <3>1, <3>2
  <2>2. CASE i - m \in 1 .. n /\ u[i] = t[i - m]
    <3>1. PICK k \in 1 .. n : k < i - m /\ t[k].kind \in {"result", "error"}
      BY <2>2, <1>2, <1>5 DEF Backed
    <3>2. m + k \in 1 .. m + n /\ u[m + k] = t[k] /\ m + k < i
      BY <3>1, <1>1
    <3> QED
      BY <3>1, <3>2
  <2> QED
    BY <1>3, <2>1, <2>2
<1> QED
  BY <1>1, <1>4, <1>5 DEF EndsLast, Backed, u

\* A feed of one item.
LEMMA OneLaws ==
    ASSUME NEW x \in Items
    PROVE  /\ << x >> \in Seq(Items) /\ Len(<< x >>) = 1 /\ << x >>[1] = x /\ << x >> # << >>
           /\ \A kinds : HasKind(<< x >>, kinds) <=> x.kind \in kinds
           /\ \A kinds : AllOf(<< x >>, kinds) <=> x.kind \in kinds
           /\ EndsLast(<< x >>) /\ (x.kind # "last" => Backed(<< x >>))
           /\ ToSet(<< x >>) = {x}
<1>1. << x >> \in Seq(Items) /\ Len(<< x >>) = 1 /\ << x >>[1] = x /\ << x >> # << >> /\ DOMAIN << x >> = 1 .. 1
  OBVIOUS
<1>2. \A i : i \in 1 .. 1 <=> i = 1
  OBVIOUS
<1> DEFINE o == << x >>
<1> HIDE DEF o
<1>3. o \in Seq(Items) /\ Len(o) = 1 /\ o[1] = x /\ o # << >> /\ DOMAIN o = 1 .. 1
  BY <1>1 DEF o
<1>4. (\A kinds : HasKind(o, kinds) <=> x.kind \in kinds) /\ (\A kinds : AllOf(o, kinds) <=> x.kind \in kinds)
  BY <1>2, <1>3 DEF HasKind, AllOf
<1>5. EndsLast(o) /\ (x.kind # "last" => Backed(o))
  BY <1>2, <1>3 DEF EndsLast, Backed
<1>6. ToSet(o) = {x}
  BY <1>2, <1>3 DEF ToSet
<1> QED
  BY <1>3, <1>4, <1>5, <1>6 DEF o

LEMMA NoneLaws ==
    /\ << >> \in Seq(Items) /\ Len(<< >>) = 0 /\ ToSet(<< >>) = {}
    /\ EndsLast(<< >>) /\ Backed(<< >>)
    /\ \A kinds : AllOf(<< >>, kinds) /\ ~HasKind(<< >>, kinds)
    /\ \A s \in Seq(Items) : s \o << >> = s /\ << >> \o s = s
<1>1. \A s \in Seq(Items) : s \o << >> = s /\ << >> \o s = s
  BY ConcatEmptySeq
<1>2. << >> \in Seq(Items) /\ Len(<< >>) = 0 /\ DOMAIN << >> = {} /\ 1 .. 0 = {}
  OBVIOUS
<1>3. ToSet(<< >>) = {}
  BY <1>2, Zenon DEF ToSet
<1>4. EndsLast(<< >>) /\ Backed(<< >>)
  BY <1>2 DEF EndsLast, Backed
<1>5. \A kinds : AllOf(<< >>, kinds) /\ ~HasKind(<< >>, kinds)
  BY <1>2 DEF AllOf, HasKind
<1> QED
  BY <1>1, <1>2, <1>3, <1>4, <1>5

\* The first item of a feed, and the rest.
LEMMA HeadLaws ==
    ASSUME NEW s \in Seq(Items), s # << >>
    PROVE  /\ Head(s) \in Items /\ Tail(s) \in Seq(Items) /\ s = << Head(s) >> \o Tail(s)
           /\ \A kinds : HasKind(s, kinds) <=> Head(s).kind \in kinds \/ HasKind(Tail(s), kinds)
           /\ \A kinds : AllOf(s, kinds) <=> Head(s).kind \in kinds /\ AllOf(Tail(s), kinds)
           /\ EndsLast(s) => EndsLast(Tail(s)) /\ (Head(s).kind \in Ends => AllOf(Tail(s), {"last", "status"}))
           /\ Backed(s) => Head(s).kind # "last"
           /\ Backed(s) /\ Head(s).kind \notin {"result", "error"} => Backed(Tail(s))
           /\ ToSet(s) = ToSet(Tail(s)) \cup {Head(s)}
<1> DEFINE t == Tail(s)
           n == Len(s)
           x == Head(s)
<1>1. /\ n \in Nat /\ n >= 1 /\ Len(t) = n - 1 /\ x \in Items /\ t \in Seq(Items) /\ x = s[1]
      /\ \A i \in 1 .. n - 1 : i + 1 \in 1 .. n /\ t[i] = s[i + 1]
      /\ 1 \in 1 .. n /\ ToSet(s) = ToSet(t) \cup {x}
  BY TailLaws
<1>2. s = << x >> \o t
  OBVIOUS
<1>3. Len(s) = n
  BY DEF n
<1> DEFINE o == << x >>
<1> HIDE DEF t, n, x
<1>13. /\ o \in Seq(Items) /\ s = o \o t
       /\ (\A kinds : HasKind(o, kinds) <=> x.kind \in kinds) /\ (\A kinds : AllOf(o, kinds) <=> x.kind \in kinds)
  BY <1>1, <1>2, OneLaws
<1> HIDE DEF o
<1>4. \A kinds : HasKind(s, kinds) <=> x.kind \in kinds \/ HasKind(t, kinds)
  BY <1>1, <1>13, KindLaws
<1>5. \A kinds : AllOf(s, kinds) <=> x.kind \in kinds /\ AllOf(t, kinds)
  BY <1>1, <1>13, KindLaws
<1>6. \A i \in 1 .. n : i = 1 \/ (i - 1 \in 1 .. n - 1 /\ s[i] = t[i - 1])
  <2> TAKE i \in 1 .. n
  <2>1. i = 1 \/ (i - 1 \in 1 .. n - 1 /\ i = (i - 1) + 1)
    BY <1>1
  <2> QED
    BY <2>1, <1>1
<1>7. ASSUME EndsLast(s) PROVE EndsLast(t)
  <2>1. ASSUME NEW i \in 1 .. n - 1, NEW k \in 1 .. n - 1, i < k, t[i].kind \in Ends
        PROVE  t[k].kind \in {"last", "status"}
    <3>1. i + 1 < k + 1 /\ i + 1 \in 1 .. n /\ k + 1 \in 1 .. n /\ t[i] = s[i + 1] /\ t[k] = s[k + 1]
      BY <1>1, <2>1
    <3> QED
      BY <3>1, <1>3, <1>7, <2>1 DEF EndsLast
  <2> QED
    BY <2>1, <1>1 DEF EndsLast
<1>8. ASSUME EndsLast(s), x.kind \in Ends PROVE AllOf(t, {"last", "status"})
  <2>1. ASSUME NEW k \in 1 .. n - 1 PROVE t[k].kind \in {"last", "status"}
    <3>1. 1 < k + 1 /\ 1 \in 1 .. n /\ k + 1 \in 1 .. n /\ t[k] = s[k + 1] /\ s[1] = x
      BY <1>1, <2>1
    <3> QED
      BY <3>1, <1>3, <1>8 DEF EndsLast
  <2> QED
    BY <2>1, <1>1 DEF AllOf
<1>9. ASSUME Backed(s) PROVE x.kind # "last"
  <2>1. 1 \in 1 .. n /\ s[1] = x /\ ~\E k \in 1 .. n : k < 1
    BY <1>1
  <2> QED
    BY <2>1, <1>3, <1>9 DEF Backed
<1>10. ASSUME Backed(s), x.kind \notin {"result", "error"} PROVE Backed(t)
  <2>1. ASSUME NEW i \in 1 .. n - 1, t[i].kind = "last"
        PROVE  \E k \in 1 .. n - 1 : k < i /\ t[k].kind \in {"result", "error"}
    <3>1. i + 1 \in 1 .. n /\ s[i + 1].kind = "last"
      BY <1>1, <2>1
    <3>2. PICK k \in 1 .. n : k < i + 1 /\ s[k].kind \in {"result", "error"}
      BY <3>1, <1>3, <1>10 DEF Backed
    <3>3. k # 1
      BY <3>2, <1>1, <1>10
    <3>4. k - 1 \in 1 .. n - 1 /\ s[k] = t[k - 1]
      BY <3>3, <1>6
    <3>5. k - 1 < i
      BY <3>2
    <3> QED
      BY <3>2, <3>4, <3>5
  <2> QED
    BY <2>1, <1>1 DEF Backed
<1> QED
  BY <1>1, <1>2, <1>4, <1>5, <1>7, <1>8, <1>9, <1>10 DEF t, x

LEMMA TwoLaws ==
    ASSUME NEW x \in Items, NEW y \in Items
    PROVE  LET u == << x >> \o << y >>
           IN  u \in Seq(Items) /\ u # << >> /\ Len(u) = 2 /\ u[1] = x /\ u[2] = y /\ DOMAIN u = 1 .. 2
<1> DEFINE a == << x >>
           b == << y >>
           u == a \o b
<1>1. a \in Seq(Items) /\ Len(a) = 1 /\ a[1] = x /\ b \in Seq(Items) /\ Len(b) = 1 /\ b[1] = y
  BY OneLaws
<1> HIDE DEF a, b
<1>2. /\ a \o b \in Seq(Items) /\ Len(a \o b) = 2
      /\ (a \o b)[1] = a[1] /\ (a \o b)[2] = b[1]
  BY <1>1, ConcatProperties
<1>3. u[1] = x /\ u[2] = y
  BY <1>1, <1>2
<1>4. u \in Seq(Items) /\ Len(u) = 2
  BY <1>2
<1> HIDE DEF u
<1>5. DOMAIN u = 1 .. 2 /\ u # << >>
  BY <1>4
<1> QED
  BY <1>3, <1>4, <1>5, Zenon DEF a, b, u

\* The items of one kind.
LEMMA OnlyLaws ==
    ASSUME NEW s \in Seq(Items), NEW t \in Seq(Items), NEW sort
    PROVE  /\ Only(s, sort) \in Seq(Items)
           /\ Only(s \o t, sort) = Only(s, sort) \o Only(t, sort)
           /\ ~HasKind(s, {sort}) => Only(s, sort) = << >>
           /\ \A x \in Items : Only(<< x >>, sort) = IF x.kind = sort THEN << x >> ELSE << >>
<1> DEFINE Spots(v) == {i \in 1 .. Len(v) : v[i].kind = sort}
<1>1. \A v \in Seq(Items) : /\ Only(v, sort) \in Seq(Items) /\ Len(Only(v, sort)) = Cardinality(Spots(v))
                            /\ \A j \in 1 .. Len(Only(v, sort)) :
                                  Nth(Spots(v), j) \in Spots(v) /\ Only(v, sort)[j] = v[Nth(Spots(v), j)]
  BY SubsequenceProperties DEF Only
<1>2. Only(s \o t, sort) = Only(s, sort) \o Only(t, sort)
  <2> DEFINE u == s \o t
             m == Len(s)
             n == Len(t)
  <2>1. /\ m \in Nat /\ n \in Nat /\ Len(u) = m + n
        /\ \A i \in 1 .. m : u[i] = s[i]
        /\ \A i \in 1 .. n : u[m + i] = t[i]
    BY JoinLaws
  <2>2. Len(s) = m /\ Len(t) = n
    BY DEF m, n
  <2> HIDE DEF u, m, n
  <2>3. \A i \in 1 .. m + n : i \in 1 .. m \/ (i - m \in 1 .. n /\ i = m + (i - m))
    BY <2>1
  <2>4. Spots(u) \subseteq Spots(s) \cup Shifted(m, Spots(t))
    <3>1. ASSUME NEW i \in Spots(u) PROVE i \in Spots(s) \/ i \in Shifted(m, Spots(t))
      <4>1. i \in 1 .. m + n /\ u[i].kind = sort
        BY <2>1
      <4>2. CASE i \in 1 .. m
        BY <4>1, <4>2, <2>1, <2>2
      <4>3. CASE i - m \in 1 .. n /\ i = m + (i - m)
        <5>1. t[i - m].kind = sort
          BY <4>1, <4>3, <2>1
        <5>2. i - m \in Spots(t)
          BY <5>1, <4>3, <2>2
        <5> QED
          BY <5>2, <4>3 DEF Shifted
      <4> QED
        BY <4>1, <4>2, <4>3, <2>3
    <3> QED
      BY <3>1
  <2>5. Spots(s) \cup Shifted(m, Spots(t)) \subseteq Spots(u)
    <3>1. \A i \in 1 .. m : i \in 1 .. m + n
      BY <2>1
    <3>2. \A i \in 1 .. n : m + i \in 1 .. m + n
      BY <2>1
    <3> QED
      BY <2>1, <2>2, <3>1, <3>2 DEF Shifted
  <2>6. Spots(u) = Spots(s) \cup Shifted(Len(s), Spots(t))
    BY <2>2, <2>4, <2>5
  <2>7. Spots(s) \in SUBSET (1 .. Len(s)) /\ Spots(t) \in SUBSET (1 .. Len(t))
    OBVIOUS
  <2> DEFINE I == Spots(s)
             J == Spots(t)
  <2>10. I \in SUBSET (1 .. Len(s)) /\ J \in SUBSET (1 .. Len(t))
    BY <2>7
  <2> HIDE DEF I, J
  <2>11. Joined(s, t, I, J)
    BY <2>10, SubsequenceJoin
  <2> HIDE DEF Spots
  <2>8. Subsequence(s \o t, Spots(s) \cup Shifted(Len(s), Spots(t)))
           = Subsequence(s, Spots(s)) \o Subsequence(t, Spots(t))
    BY <2>11, Zenon DEF Joined, I, J
  <2>9. Only(u, sort) = Subsequence(u, Spots(u)) /\ Only(s, sort) = Subsequence(s, Spots(s))
        /\ Only(t, sort) = Subsequence(t, Spots(t))
    BY Zenon DEF Only, Spots
  <2> QED
    BY <2>6, <2>8, <2>9, Zenon DEF u
<1>3. ASSUME ~HasKind(s, {sort}) PROVE Only(s, sort) = << >>
  <2>1. Spots(s) = {}
    BY <1>3 DEF HasKind
  <2>2. Cardinality(Spots(s)) = 0
    BY <2>1, FS_EmptySet
  <2>3. Only(s, sort) \in Seq(Items) /\ Len(Only(s, sort)) = 0
    BY <1>1, <2>2
  <2> QED
    BY <2>3
<1>4. ASSUME NEW x \in Items PROVE Only(<< x >>, sort) = IF x.kind = sort THEN << x >> ELSE << >>
  <2> DEFINE o == << x >>
  <2>1. o \in Seq(Items) /\ Len(o) = 1 /\ o[1] = x
    BY OneLaws
  <2> HIDE DEF o
  <2>2. CASE x.kind = sort
    <3>1. Spots(o) = {1}
      BY <2>1, <2>2
    <3>2. Cardinality(Spots(o)) = 1
      BY <3>1, FS_Singleton
    <3>3. Len(Only(o, sort)) = 1 /\ Only(o, sort) \in Seq(Items)
      BY <1>1, <2>1, <3>2
    <3>7. 1 \in 1 .. Len(Only(o, sort))
      BY <3>3
    <3>4. Nth(Spots(o), 1) \in Spots(o) /\ Only(o, sort)[1] = o[Nth(Spots(o), 1)]
      <4> HIDE DEF Spots
      <4> QED
        BY <1>1, <2>1, <3>7
    <3>5. Only(o, sort)[1] = x
      BY <2>1, <3>1, <3>4
    <3>6. Only(o, sort) = << x >>
      BY <3>3, <3>5
    <3> QED
      BY <3>6, <2>2 DEF o
  <2>3. CASE x.kind # sort
    <3>1. Spots(o) = {}
      BY <2>1, <2>3
    <3>2. Cardinality(Spots(o)) = 0
      BY <3>1, FS_EmptySet
    <3>3. Len(Only(o, sort)) = 0 /\ Only(o, sort) \in Seq(Items)
      BY <1>1, <2>1, <3>2
    <3>4. Only(o, sort) = << >>
      BY <3>3
    <3> QED
      BY <3>4, <2>3 DEF o
  <2> QED
    BY <2>2, <2>3
<1> QED
  BY <1>1, <1>2, <1>3, <1>4

\* Who was last told to be running, when a frame is added.
LEMMA ToldLaws ==
    ASSUME NEW s \in Seq(Items), NEW x \in Items, NEW j
    PROVE  /\ x.kind = "job" /\ x.name = j =>
                (ToldRunning(j, s \o << x >>) <=> x.status = "running")
           /\ ~(x.kind = "job" /\ x.name = j) => (ToldRunning(j, s \o << x >>) <=> ToldRunning(j, s))
<1> DEFINE u == s \o << x >>
           m == Len(s)
<1>1. /\ m \in Nat /\ DOMAIN u = 1 .. m + 1 /\ DOMAIN s = 1 .. m
      /\ \A i \in 1 .. m : u[i] = s[i]
      /\ u[m + 1] = x
  OBVIOUS
<1> HIDE DEF u, m
<1>2. \A i \in 1 .. m + 1 : i \in 1 .. m \/ i = m + 1
  BY <1>1
<1>3. \A i \in 1 .. m : i \in 1 .. m + 1 /\ m + 1 > i
  BY <1>1
<1>4. m + 1 \in 1 .. m + 1 /\ ~(m + 1 > m + 1) /\ \A i \in 1 .. m : ~(i > m + 1)
  BY <1>1
<1>5. ASSUME x.kind = "job", x.name = j, x.status = "running" PROVE ToldRunning(j, u)
  <2>1. x = Item("job", j, "running")
    BY <1>5 DEF Items, Item
  <2>2. \A k \in 1 .. m + 1 : ~(k > m + 1)
    BY <1>1
  <2> QED
    BY <1>1, <1>4, <2>1, <2>2 DEF ToldRunning
<1>6. ASSUME x.kind = "job", x.name = j, ToldRunning(j, u) PROVE x.status = "running"
  <2>1. PICK i \in 1 .. m + 1 : /\ u[i] = Item("job", j, "running")
                                /\ \A k \in 1 .. m + 1 : k > i /\ u[k].kind = "job" => u[k].name # j
    BY <1>1, <1>6 DEF ToldRunning
  <2>2. i \notin 1 .. m
    BY <1>1, <1>3, <1>4, <1>6, <2>1
  <2>3. x = Item("job", j, "running")
    BY <1>1, <1>2, <2>1, <2>2
  <2> QED
    BY <2>3 DEF Item
<1>7. ASSUME ~(x.kind = "job" /\ x.name = j), ToldRunning(j, u) PROVE ToldRunning(j, s)
  <2>1. PICK i \in 1 .. m + 1 : /\ u[i] = Item("job", j, "running")
                                /\ \A k \in 1 .. m + 1 : k > i /\ u[k].kind = "job" => u[k].name # j
    BY <1>1, <1>7 DEF ToldRunning
  <2>2. i # m + 1
    BY <1>1, <1>7, <2>1 DEF Item
  <2>3. i \in 1 .. m /\ s[i] = Item("job", j, "running")
    BY <1>1, <1>2, <2>1, <2>2
  <2>4. \A k \in 1 .. m : k > i /\ s[k].kind = "job" => s[k].name # j
    BY <1>1, <1>3, <2>1
  <2> QED
    BY <1>1, <2>3, <2>4 DEF ToldRunning
<1>8. ASSUME ~(x.kind = "job" /\ x.name = j), ToldRunning(j, s) PROVE ToldRunning(j, u)
  <2>1. PICK i \in 1 .. m : /\ s[i] = Item("job", j, "running")
                            /\ \A k \in 1 .. m : k > i /\ s[k].kind = "job" => s[k].name # j
    BY <1>1, <1>8 DEF ToldRunning
  <2>2. i \in 1 .. m + 1 /\ u[i] = Item("job", j, "running")
    BY <1>1, <1>3, <2>1
  <2>3. ASSUME NEW k \in 1 .. m + 1, k > i, u[k].kind = "job" PROVE u[k].name # j
    <3>1. CASE k \in 1 .. m
      BY <3>1, <1>1, <2>1, <2>3
    <3>2. CASE k = m + 1
      BY <3>2, <1>1, <1>8, <2>3
    <3> QED
      BY <1>2, <3>1, <3>2
  <2> QED
    BY <1>1, <2>2, <2>3 DEF ToldRunning
<1> QED
  BY <1>5, <1>6, <1>7, <1>8 DEF u

LEMMA ItemLaws ==
    /\ \A sort \in {"status", "text", "done", "last", "result", "back"} : Plain(sort) \in Items /\ Plain(sort).kind = sort
    /\ \A j \in Jobs, status \in {"running", "ready"} : Item("job", j, status) \in Items
    /\ \A c \in Charts : /\ Draft(c) \in Items /\ Draft(c).kind = "draft" /\ Draft(c).name = c
                         /\ Chart(c) \in Items /\ Chart(c).kind = "chart" /\ Chart(c).name = c
                         /\ Item("chart", c, "none") = Chart(c) /\ Item("draft", c, "none") = Draft(c)
    /\ \A why \in Names : Item("error", why, "none") \in Items /\ Item("error", why, "none").kind = "error"
                          /\ Item("error", why, "none").name = why
    /\ Late \in Items /\ Late.kind = "error" /\ Late.name = "timeout"
    /\ \A x \in Items : /\ x.kind \in ItemKinds /\ x.name \in Names
                        /\ x.kind = "draft" => x.name \in Charts /\ x = Draft(x.name)
                        /\ x.kind = "chart" => x.name \in Charts /\ x = Chart(x.name)
                        /\ x.kind = "job" => x.name \in Jobs /\ x.status \in {"running", "ready"}
<1>1. \A sort \in {"status", "text", "done", "last", "result", "back"} : Plain(sort) \in Items /\ Plain(sort).kind = sort
  BY DEF Items, ItemKinds, Names, Plain, Item
<1>2. \A j \in Jobs, status \in {"running", "ready"} : Item("job", j, status) \in Items
  BY DEF Items, ItemKinds, Names, Item
<1>3. \A c \in Charts : /\ Draft(c) \in Items /\ Draft(c).kind = "draft" /\ Draft(c).name = c
                        /\ Chart(c) \in Items /\ Chart(c).kind = "chart" /\ Chart(c).name = c
                        /\ Item("chart", c, "none") = Chart(c) /\ Item("draft", c, "none") = Draft(c)
  BY DEF Items, ItemKinds, Names, Item, Draft, Chart
<1>4. \A why \in Names : Item("error", why, "none") \in Items /\ Item("error", why, "none").kind = "error"
                         /\ Item("error", why, "none").name = why
  BY DEF Items, ItemKinds, Item
<1>5. Late \in Items /\ Late.kind = "error" /\ Late.name = "timeout"
  BY DEF Items, ItemKinds, Names, Item, Late
<1>6. \A x \in Items : /\ x.kind \in ItemKinds /\ x.name \in Names
                       /\ x.kind = "draft" => x.name \in Charts /\ x = Draft(x.name)
                       /\ x.kind = "chart" => x.name \in Charts /\ x = Chart(x.name)
                       /\ x.kind = "job" => x.name \in Jobs /\ x.status \in {"running", "ready"}
  BY DEF Items, Item, Draft, Chart
<1> QED
  BY <1>1, <1>2, <1>3, <1>4, <1>5, <1>6

\* The agent publishes a job's progress, a chart it has not drawn yet, or text.
LEMMA SpeaksAnItem ==
    Speaks => \E x \in Items : /\ Publishes(x) /\ x.kind \in {"job", "draft", "text"}
                               /\ x.kind = "draft" => x \notin ToSet(spoken)
<1> SUFFICES ASSUME Speaks
             PROVE  \E x \in Items : /\ Publishes(x) /\ x.kind \in {"job", "draft", "text"}
                                     /\ x.kind = "draft" => x \notin ToSet(spoken)
  OBVIOUS
<1>1. ASSUME NEW j \in Jobs, NEW status \in {"running", "ready"}, Publishes(Item("job", j, status))
      PROVE  \E x \in Items : Publishes(x) /\ x.kind = "job"
  <2>1. Item("job", j, status) \in Items /\ Item("job", j, status).kind = "job"
    BY ItemLaws DEF Item
  <2> QED
    BY <1>1, <2>1, Zenon
<1>2. ASSUME NEW c \in Charts, Item("draft", c, "none") \notin ToSet(spoken), Publishes(Item("draft", c, "none"))
      PROVE  \E x \in Items : Publishes(x) /\ x.kind = "draft" /\ x \notin ToSet(spoken)
  <2>1. Item("draft", c, "none") \in Items /\ Item("draft", c, "none").kind = "draft"
    BY ItemLaws DEF Item
  <2> QED
    BY <1>2, <2>1, Zenon
<1>3. ASSUME Publishes(Plain("text"))
      PROVE  \E x \in Items : Publishes(x) /\ x.kind = "text"
  BY <1>3, ItemLaws
<1>4. \/ \E j \in Jobs : Publishes(Item("job", j, "running")) \/ Publishes(Item("job", j, "ready"))
      \/ \E c \in Charts : Item("draft", c, "none") \notin ToSet(spoken) /\ Publishes(Item("draft", c, "none"))
      \/ Publishes(Plain("text"))
  BY DEF Speaks
<1> QED
  BY <1>1, <1>2, <1>3, <1>4

\* The closing frames of a turn that failed.
LEMMA FailingLaws ==
    ASSUME NEW why \in Names, Failing(why)
    PROVE  /\ phase' = "failing" /\ todo' \in Seq(Items) /\ todo' # << >> /\ Len(todo') \in Nat
           /\ todo'[1] = Item("error", why, "none") /\ todo'[1].kind = "error"
           /\ \A i \in 1 .. Len(todo') : i # 1 => i = Len(todo') /\ todo'[i].kind = "done"
           /\ AllOf(todo', {"error", "done"})
           /\ named' = IF why = "timeout" THEN Running(known) ELSE {}
           /\ Late \in ToSet(todo') => why = "timeout"
<1> DEFINE e == Item("error", why, "none")
           d == Plain("done")
<1>1. e \in Items /\ d \in Items /\ e.kind = "error" /\ e.name = why /\ d.kind = "done"
  BY ItemLaws
<1>2. phase' = "failing" /\ (todo' = << e >> \o << >> \/ todo' = << e >> \o << d >>)
      /\ named' = IF why = "timeout" THEN Running(known) ELSE {}
  BY DEF Failing
<1> HIDE DEF e, d
<1>3. ASSUME NEW t, t = << e >> \/ t = << e >> \o << d >>
      PROVE  /\ t \in Seq(Items) /\ t # << >> /\ Len(t) \in Nat /\ t[1] = e /\ ToSet(t) \subseteq {e, d}
             /\ \A i \in 1 .. Len(t) : i # 1 => i = Len(t) /\ t[i].kind = "done"
             /\ AllOf(t, {"error", "done"})
  <2>1. CASE t = << e >>
    <3>1. t \in Seq(Items) /\ Len(t) = 1 /\ t[1] = e /\ t # << >> /\ ToSet(t) = {e}
      BY <2>1, <1>1, OneLaws
    <3>2. \A i \in 1 .. Len(t) : i = 1
      BY <3>1
    <3> QED
      BY <3>1, <3>2, <1>1 DEF AllOf
  <2>2. CASE t = << e >> \o << d >>
    <3>1. t \in Seq(Items) /\ Len(t) = 2 /\ t[1] = e /\ t[2] = d /\ t # << >> /\ DOMAIN t = 1 .. 2
      BY <2>2, <1>1, TwoLaws
    <3>2. \A i \in 1 .. Len(t) : i = 1 \/ (i = 2 /\ i = Len(t))
      BY <3>1
    <3>3. ToSet(t) \subseteq {e, d}
      BY <3>1, <3>2 DEF ToSet
    <3> QED
      BY <3>1, <3>2, <3>3, <1>1 DEF AllOf
  <2> QED
    BY <1>3, <2>1, <2>2
<1>4. todo' = << e >> \/ todo' = << e >> \o << d >>
  BY <1>1, <1>2, NoneLaws, OneLaws
<1>5. Late.kind = "error" /\ Late.name = "timeout"
  BY ItemLaws
<1>6. /\ todo' \in Seq(Items) /\ todo' # << >> /\ Len(todo') \in Nat /\ todo'[1] = e /\ ToSet(todo') \subseteq {e, d}
      /\ \A i \in 1 .. Len(todo') : i # 1 => i = Len(todo') /\ todo'[i].kind = "done"
      /\ AllOf(todo', {"error", "done"})
  BY <1>3, <1>4
<1>7. Late \in ToSet(todo') => why = "timeout"
  BY <1>1, <1>5, <1>6
<1> QED
  BY <1>1, <1>2, <1>6, <1>7 DEF e

-----------------------------------------------------------------------------
(* The charts among the items. *)

\* What a sequence of items holds.
LEMMA SetLaws ==
    ASSUME NEW s \in Seq(Items), NEW t \in Seq(Items)
    PROVE  /\ ToSet(s \o t) = ToSet(s) \cup ToSet(t)
           /\ ToSet(s) \subseteq Items
           /\ \A kinds : ~HasKind(s, kinds) => \A x \in ToSet(s) : x.kind \notin kinds
<1> DEFINE u == s \o t
           m == Len(s)
           n == Len(t)
<1>1. /\ m \in Nat /\ n \in Nat /\ Len(u) = m + n /\ DOMAIN u = 1 .. m + n /\ DOMAIN s = 1 .. m /\ DOMAIN t = 1 .. n
      /\ \A i \in 1 .. m : u[i] = s[i] /\ s[i] \in Items
      /\ \A i \in 1 .. n : u[m + i] = t[i]
  BY JoinLaws
<1>2. \A i \in 1 .. m + n : i \in 1 .. m \/ (i - m \in 1 .. n /\ i = m + (i - m))
  BY <1>1
<1>3. (\A i \in 1 .. m : i \in 1 .. m + n) /\ \A i \in 1 .. n : m + i \in 1 .. m + n
  BY <1>1
<1>4. ToSet(s) = {s[i] : i \in 1 .. m}
  BY <1>1 DEF ToSet
<1>5. ASSUME NEW kinds, ~HasKind(s, kinds), NEW x \in ToSet(s) PROVE x.kind \notin kinds
  BY <1>4, <1>5 DEF HasKind
<1>6. ToSet(t) = {t[i] : i \in 1 .. n} /\ ToSet(u) = {u[i] : i \in 1 .. m + n}
  BY <1>1 DEF ToSet
<1> HIDE DEF u, m, n
<1>7. ToSet(s) \subseteq Items
  BY <1>1, <1>4
<1>8. \A i \in 1 .. m + n : u[i] \in ToSet(s) \cup ToSet(t)
  <2>1. ASSUME NEW i \in 1 .. m + n PROVE u[i] \in ToSet(s) \cup ToSet(t)
    <3>1. CASE i \in 1 .. m
      BY <3>1, <1>1, <1>4
    <3>2. CASE i - m \in 1 .. n /\ i = m + (i - m)
      <4>1. u[i] = t[i - m]
        BY <3>2, <1>1
      <4> QED
        BY <3>2, <4>1, <1>6
    <3> QED
      BY <3>1, <3>2, <1>2
  <2> QED
    BY <2>1
<1>9. \A i \in 1 .. m : s[i] \in ToSet(u)
  BY <1>1, <1>3, <1>6
<1>10. \A i \in 1 .. n : t[i] \in ToSet(u)
  <2>1. ASSUME NEW i \in 1 .. n PROVE t[i] \in ToSet(u)
    <3>1. t[i] = u[m + i] /\ m + i \in 1 .. m + n
      BY <1>1, <1>3
    <3> QED
      BY <3>1, <1>6
  <2> QED
    BY <2>1
<1>11. ToSet(u) = ToSet(s) \cup ToSet(t)
  <2>1. ToSet(u) \subseteq ToSet(s) \cup ToSet(t)
    BY <1>6, <1>8
  <2>2. ToSet(s) \subseteq ToSet(u) /\ ToSet(t) \subseteq ToSet(u)
    BY <1>4, <1>6, <1>9, <1>10
  <2> QED
    BY <2>1, <2>2
<1> QED
  BY <1>5, <1>7, <1>11 DEF u

\* Charts still to store, and stored ones.
LEMMA ChartLaws ==
    /\ DraftsIn(<< >>) = {} /\ ChartsIn(<< >>) = {}
    /\ \A s, t \in Seq(Items) : /\ DraftsIn(s \o t) = DraftsIn(s) \cup DraftsIn(t)
                                /\ ChartsIn(s \o t) = ChartsIn(s) \cup ChartsIn(t)
    /\ \A s \in Seq(Items) : /\ ~HasKind(s, {"draft"}) => DraftsIn(s) = {}
                             /\ ~HasKind(s, {"chart"}) => ChartsIn(s) = {}
    /\ \A x \in Items : /\ DraftsIn(<< x >>) = IF x.kind = "draft" THEN {x.name} ELSE {}
                        /\ ChartsIn(<< x >>) = IF x.kind = "chart" THEN {x.name} ELSE {}
                        /\ \A s \in Seq(Items) : /\ x.kind = "draft" => (x \in ToSet(s) <=> x.name \in DraftsIn(s))
                                                 /\ x.kind = "chart" => (x \in ToSet(s) <=> x.name \in ChartsIn(s))
<1>1. DraftsIn(<< >>) = {} /\ ChartsIn(<< >>) = {}
  BY NoneLaws DEF DraftsIn, ChartsIn
<1>2. ASSUME NEW s \in Seq(Items), NEW t \in Seq(Items)
      PROVE  /\ DraftsIn(s \o t) = DraftsIn(s) \cup DraftsIn(t)
             /\ ChartsIn(s \o t) = ChartsIn(s) \cup ChartsIn(t)
  <2>1. ToSet(s \o t) = ToSet(s) \cup ToSet(t)
    BY SetLaws
  <2> QED
    BY <2>1 DEF DraftsIn, ChartsIn
<1>3. ASSUME NEW s \in Seq(Items)
      PROVE  /\ ~HasKind(s, {"draft"}) => DraftsIn(s) = {}
             /\ ~HasKind(s, {"chart"}) => ChartsIn(s) = {}
  <2>1. \A c \in Charts : Draft(c).kind = "draft" /\ Chart(c).kind = "chart"
    BY ItemLaws
  <2>2. \A kinds : ~HasKind(s, kinds) => \A x \in ToSet(s) : x.kind \notin kinds
    BY SetLaws
  <2> QED
    BY <2>1, <2>2 DEF DraftsIn, ChartsIn
<1>4. ASSUME NEW x \in Items, NEW s \in Seq(Items)
      PROVE  /\ x.kind = "draft" => (x \in ToSet(s) <=> x.name \in DraftsIn(s))
             /\ x.kind = "chart" => (x \in ToSet(s) <=> x.name \in ChartsIn(s))
  <2>1. /\ x.kind = "draft" => x.name \in Charts /\ x = Draft(x.name)
        /\ x.kind = "chart" => x.name \in Charts /\ x = Chart(x.name)
    BY ItemLaws
  <2> QED
    BY <2>1 DEF DraftsIn, ChartsIn
<1>5. ASSUME NEW x \in Items
      PROVE  /\ DraftsIn(<< x >>) = IF x.kind = "draft" THEN {x.name} ELSE {}
             /\ ChartsIn(<< x >>) = IF x.kind = "chart" THEN {x.name} ELSE {}
  <2>1. ToSet(<< x >>) = {x}
    BY OneLaws
  <2>2. /\ x.kind = "draft" => x.name \in Charts /\ x = Draft(x.name)
        /\ x.kind = "chart" => x.name \in Charts /\ x = Chart(x.name)
        /\ \A c \in Charts : /\ Draft(c).kind = "draft" /\ Draft(c).name = c
                             /\ Chart(c).kind = "chart" /\ Chart(c).name = c
    BY ItemLaws
  <2> QED
    BY <2>1, <2>2 DEF DraftsIn, ChartsIn
<1> QED
  BY <1>1, <1>2, <1>3, <1>4, <1>5

\* A sequence that holds nothing of a kind twice.
LEMMA OnceLaws ==
    ASSUME NEW sort, NEW s \in Seq(Items), Once(s, sort)
    PROVE  /\ \A x \in Items : x.kind # sort \/ x \notin ToSet(s) => Once(Append(s, x), sort)
           /\ \A t \in Seq(Items) : ~HasKind(t, {sort}) => Once(s \o t, sort)
           /\ s # << >> => /\ Once(Tail(s), sort)
                           /\ Head(s).kind = sort => Head(s) \notin ToSet(Tail(s))
<1>1. ASSUME NEW t \in Seq(Items), \A i, k \in 1 .. Len(t) : t[i].kind = sort => i = k /\ t[i] \notin ToSet(s)
      PROVE  Once(s \o t, sort)
  <2> DEFINE u == s \o t
             m == Len(s)
             n == Len(t)
  <2>1. /\ m \in Nat /\ n \in Nat /\ Len(u) = m + n
        /\ \A i \in 1 .. m : u[i] = s[i]
        /\ \A i \in 1 .. n : u[m + i] = t[i]
    BY JoinLaws
  <2>2. \A i \in 1 .. m : s[i] \in ToSet(s)
    BY DEF ToSet
  <2>3. \A i, k \in 1 .. m : s[i].kind = sort /\ s[i] = s[k] => i = k
    BY DEF Once
  <2>4. \A i, k \in 1 .. n : t[i].kind = sort => i = k /\ t[i] \notin ToSet(s)
    BY <1>1
  <2> HIDE DEF u, m, n
  <2>5. \A i \in 1 .. m + n : i \in 1 .. m \/ (i - m \in 1 .. n /\ i = m + (i - m))
    BY <2>1
  <2>6. ASSUME NEW i \in 1 .. m + n, NEW k \in 1 .. m + n, u[i].kind = sort, u[i] = u[k]
        PROVE  i = k
    <3>1. CASE i \in 1 .. m /\ k \in 1 .. m
      BY <3>1, <2>1, <2>3, <2>6
    <3> DEFINE p == i - m
               q == k - m
    <3>2. CASE i \in 1 .. m /\ q \in 1 .. n /\ k = m + q
      <4> HIDE DEF q
      <4>1. u[i] = s[i] /\ u[k] = t[q]
        BY <3>2, <2>1
      <4> QED
        BY <3>2, <4>1, <2>2, <2>4, <2>6
    <3>3. CASE p \in 1 .. n /\ i = m + p /\ k \in 1 .. m
      <4> HIDE DEF p
      <4>1. u[k] = s[k] /\ u[i] = t[p]
        BY <3>3, <2>1
      <4> QED
        BY <3>3, <4>1, <2>2, <2>4, <2>6
    <3>4. CASE p \in 1 .. n /\ i = m + p /\ q \in 1 .. n /\ k = m + q
      <4> HIDE DEF p, q
      <4>1. u[k] = t[q] /\ u[i] = t[p]
        BY <3>4, <2>1
      <4> QED
        BY <3>4, <4>1, <2>4, <2>6
    <3> QED
      BY <2>5, <3>1, <3>2, <3>3, <3>4
  <2> QED
    BY <2>1, <2>6 DEF Once, u
<1>2. ASSUME NEW t \in Seq(Items), ~HasKind(t, {sort}) PROVE Once(s \o t, sort)
  BY <1>1, <1>2 DEF HasKind
<1>3. ASSUME NEW x \in Items, x.kind # sort \/ x \notin ToSet(s) PROVE Once(Append(s, x), sort)
  <2> DEFINE o == << x >>
  <2>1. o \in Seq(Items) /\ Len(o) = 1 /\ o[1] = x /\ Append(s, x) = s \o o
    OBVIOUS
  <2> HIDE DEF o
  <2>2. \A i, k \in 1 .. Len(o) : o[i].kind = sort => i = k /\ o[i] \notin ToSet(s)
    BY <1>3, <2>1
  <2> QED
    BY <1>1, <2>1, <2>2
<1>4. ASSUME s # << >>
      PROVE  /\ Once(Tail(s), sort)
             /\ Head(s).kind = sort => Head(s) \notin ToSet(Tail(s))
  <2> DEFINE t == Tail(s)
             n == Len(s)
  <2>1. /\ t \in Seq(Items) /\ Len(t) = n - 1 /\ Head(s) = s[1] /\ 1 \in 1 .. n /\ n \in Nat
        /\ \A i \in 1 .. n - 1 : i + 1 \in 1 .. n /\ t[i] = s[i + 1]
    BY <1>4, TailLaws
  <2>2. \A i, k \in 1 .. n : s[i].kind = sort /\ s[i] = s[k] => i = k
    BY DEF Once
  <2>3. ToSet(t) = {t[i] : i \in 1 .. n - 1}
    <3>1. DOMAIN t = 1 .. Len(t)
      BY <2>1
    <3>2. DOMAIN t = 1 .. n - 1
      BY <2>1, <3>1
    <3> HIDE DEF t
    <3> QED
      BY <3>2, Zenon DEF ToSet
  <2> HIDE DEF t, n
  <2>4. ASSUME NEW i \in 1 .. n - 1, NEW k \in 1 .. n - 1, t[i].kind = sort, t[i] = t[k] PROVE i = k
    <3>1. i + 1 = k + 1
      BY <2>1, <2>2, <2>4
    <3> QED
      BY <3>1, <2>1
  <2>5. ASSUME NEW i \in 1 .. n - 1, s[1].kind = sort PROVE t[i] # s[1]
    <3>1. i + 1 # 1
      BY <2>1
    <3> QED
      BY <3>1, <2>1, <2>2, <2>5
  <2>6. Once(t, sort)
    BY <2>1, <2>4 DEF Once
  <2> QED
    BY <2>1, <2>3, <2>5, <2>6 DEF t
<1> QED
  BY <1>2, <1>3, <1>4

-----------------------------------------------------------------------------
(* The types. *)

\* The two places stream_response may feed.
LEMMA FeedsTypes ==
    ASSUME StreamTypes, NEW items \in Seq(Items), Feeds(items)
    PROVE  stream' \in Seq(Items) /\ queue' \in Seq(Items)
<1>1. /\ stream \in Seq(Items) /\ queue \in Seq(Items)
      /\ stream \o items \in Seq(Items) /\ queue \o items \in Seq(Items)
  BY ConcatProperties DEF StreamTypes
<1> QED
  BY <1>1 DEF Feeds

LEMMA StreamTypesKeep == StreamTypes /\ [StreamNext]_streamVars => StreamTypes'
<1> SUFFICES ASSUME StreamTypes, [StreamNext]_streamVars
             PROVE  StreamTypes'
  OBVIOUS
<1> USE DEF StreamTypes
<1>1. /\ \A s \in Seq(Items) : s # << >> => Head(s) \in Items /\ Tail(s) \in Seq(Items)
      /\ \A s \in Seq(Items), x \in Items : Append(s, x) \in Seq(Items) /\ << x >> \in Seq(Items)
      /\ \A s, t \in Seq(Items) : s \o t \in Seq(Items)
      /\ << >> \in Seq(Items)
  OBVIOUS
<1>2. CASE UNCHANGED streamVars
  BY <1>2 DEF streamVars, tasksOf, queues, time, turnOf
<1>3. CASE Speaks
  <2>1. PICK x \in Items : Publishes(x)
    BY <1>3, SpeaksAnItem
  <2>2. stream' \in Seq(Items) /\ queue' \in Seq(Items)
    BY <2>1, <1>1, FeedsTypes DEF Publishes
  <2> QED
    BY <2>1, <2>2, <1>1 DEF Publishes, tasksOf, turnOf
<1>4. CASE AgentEnds
  <2>1. PICK why \in {"none", "failed", "overloaded"} :
           Feeds((IF why = "none" THEN <<>> ELSE <<Item("error", why, "none")>>) \o <<Plain("last")>>)
    BY <1>4 DEF AgentEnds
  <2>2. Item("error", why, "none") \in Items /\ Plain("last") \in Items
    BY ItemLaws DEF Names
  <2>3. << >> \in Seq(Items) /\ << Item("error", why, "none") >> \in Seq(Items) /\ << Plain("last") >> \in Seq(Items)
    BY <2>2, <1>1
  <2>4. (IF why = "none" THEN <<>> ELSE <<Item("error", why, "none")>>) \o <<Plain("last")>> \in Seq(Items)
    BY <2>3, <1>1
  <2>5. stream' \in Seq(Items) /\ queue' \in Seq(Items)
    BY <2>1, <2>4, FeedsTypes
  <2> QED
    BY <1>4, <2>5 DEF AgentEnds, time, turnOf
<1>5. CASE RunnerForwards
  BY <1>5, <1>1 DEF RunnerForwards, tasksOf, time, turnOf
<1>6. ASSUME RunnerFinishes \/ RunnerReturns PROVE queue' \in Seq(Items) /\ runner' = "done"
  <2>1. PICK outcome \in Outcomes : RunnerEnds(outcome)
    BY <1>6 DEF RunnerFinishes, RunnerReturns
  <2>2. Plain("result") \in Items /\ Item("error", "failed", "none") \in Items /\ Plain("last") \in Items
    BY ItemLaws DEF Names
  <2>3. outcome \in Seq(Items) /\ << Plain("last") >> \in Seq(Items)
    BY <2>1, <2>2, <1>1 DEF Outcomes
  <2> QED
    BY <2>1, <2>3, <1>1 DEF RunnerEnds
<1>7. CASE RunnerFinishes
  BY <1>6, <1>7, <1>1 DEF RunnerFinishes, time, turnOf
<1>8. CASE RunnerReturns
  BY <1>6, <1>8 DEF RunnerReturns, time, turnOf
<1>9. CASE TakesNews
  <2>1. Head(queue) \in Items /\ Tail(queue) \in Seq(Items)
    BY <1>9, <1>1 DEF TakesNews
  <2>2. Head(queue).kind = "job" => Head(queue).name \in Jobs /\ Head(queue).status \in {"running", "ready"}
    BY <2>1, ItemLaws
  <2>3. todo' \in Seq(Items) /\ known' \in [Jobs -> {"none", "running", "ready"}]
    BY <1>9, <2>1, <2>2, <1>1 DEF TakesNews
  <2> QED
    BY <1>9, <2>1, <2>3 DEF TakesNews, tasksOf
<1>10. CASE TakesResult
  BY <1>10, <1>1 DEF TakesResult, tasksOf
<1>11. \A why \in Names : Failing(why) => phase' = "failing" /\ todo' \in Seq(Items) /\ named' \subseteq Jobs
  <2>1. Running(known) \subseteq Jobs
    BY DEF Running
  <2> QED
    BY <2>1, FailingLaws
<1>12. StopsAll => /\ agent' \in {"none", "running", "done", "stopped"}
                   /\ runner' \in {"none", "running", "done", "stopped"}
                   /\ timers' \subseteq {"watchdog", "heartbeat"}
  BY DEF StopsAll
<1>13. CASE TakesError
  <2>1. Head(queue).name \in Names
    BY <1>13, <1>1, ItemLaws DEF TakesError
  <2> QED
    BY <1>13, <2>1, <1>1, <1>11, <1>12 DEF TakesError
<1>14. CASE TakesLast
  <2>1. Plain("text") \in Items /\ Plain("back") \in Items /\ Plain("done") \in Items
    BY ItemLaws
  <2>2. <<Plain("text"), Plain("back")>> \in Seq(Items) /\ <<Plain("done")>> \in Seq(Items)
    BY <2>1
  <2>3. (IF Fast THEN seen \o <<Plain("text"), Plain("back")>> ELSE <<>>) \in Seq(Items)
    BY <2>2, <1>1
  <2>4. todo' \in Seq(Items)
    BY <1>14, <2>2, <2>3, <1>1 DEF TakesLast
  <2> QED
    BY <1>14, <2>4, <1>1, <1>12 DEF TakesLast
<1>15. CASE Stores
  <2>1. todo # << >> /\ Head(todo) \in Items /\ Head(todo).kind = "draft"
    BY <1>15, <1>1 DEF Stores, Doing
  <2>2. Head(todo).name \in Charts
    BY <2>1, ItemLaws
  <2>3. Item("chart", Head(todo).name, "none") \in Items
    BY <2>2, ItemLaws
  <2>4. (IF Head(todo).name \in emitted THEN <<>> ELSE <<Item("chart", Head(todo).name, "none")>>) \in Seq(Items)
    BY <2>3, <1>1
  <2>5. todo' \in Seq(Items) /\ emitted' \subseteq Charts
    BY <1>15, <2>1, <2>2, <2>4, <1>1 DEF Stores
  <2> QED
    BY <1>15, <2>5 DEF Stores, tasksOf, queues, time
<1>16. CASE WritesBack
  BY <1>16, <1>1 DEF WritesBack, Doing, tasksOf, queues, time
<1>17. CASE Appends
  BY <1>17, <1>1 DEF Appends, tasksOf, queues
<1>18. CASE DeadlineFires
  <2>1. "timeout" \in Names
    BY DEF Names
  <2>2. phase' \in {"failing", "dead"} /\ todo' \in Seq(Items) /\ named' \subseteq Jobs
    BY <1>18, <2>1, <1>1, <1>11 DEF DeadlineFires
  <2> QED
    BY <1>18, <2>2, <1>12 DEF DeadlineFires, Unwinds, tasksOf, queues, time
<1>19. CASE StoreFails
  <2>1. "failed" \in Names
    BY DEF Names
  <2>2. phase' \in {"failing", "dead"} /\ todo' \in Seq(Items) /\ named' \subseteq Jobs
    BY <1>19, <2>1, <1>1, <1>11 DEF StoreFails
  <2>3. storeFaults' \in Nat
    BY <1>19 DEF StoreFails
  <2>4. /\ agent' \in {"none", "running", "done", "stopped"}
        /\ runner' \in {"none", "running", "done", "stopped"}
        /\ timers' \subseteq {"watchdog", "heartbeat"}
    BY <1>19, <1>12 DEF StoreFails, tasksOf
  <2> QED
    BY <1>19, <2>2, <2>3, <2>4 DEF StoreFails, queues, time
<1>20. CASE Cancelled
  BY <1>20, <1>1, <1>12 DEF Cancelled, Unwinds, tasksOf, queues, time
<1>21. CASE Collects
  BY <1>21, <1>12 DEF Collects, queues, time, turnOf
<1>22. CASE Ticks
  <2>1. << Plain("status") >> \in Seq(Items) /\ << >> \in Seq(Items)
    BY ItemLaws, <1>1
  <2>2. /\ stream' \in Seq(Items) /\ queue' \in Seq(Items)
        /\ streamIdle' \in Nat /\ idle' \in Nat /\ quiet' \in Nat /\ clock' \in 0 .. Deadline
    <3>1. clock' \in 0 .. Deadline
      BY <1>22, TurnStreamAssumption DEF Ticks
    <3>2. streamIdle' \in Nat /\ idle' \in Nat /\ quiet' \in Nat
      BY <1>22 DEF Ticks
    <3>3. stream' \in Seq(Items)
      BY <1>22, <2>1, <1>1 DEF Ticks
    <3>4. queue' \in Seq(Items)
      BY <1>22, <2>1, <1>1 DEF Ticks
    <3> QED
      BY <3>1, <3>2, <3>3, <3>4
  <2> QED
    BY <1>22, <2>2 DEF Ticks, tasksOf, turnOf
<1> QED
  BY <1>2, <1>3, <1>4, <1>5, <1>7, <1>8, <1>9, <1>10, <1>13, <1>14, <1>15, <1>16, <1>17, <1>18, <1>19, <1>20,
     <1>21, <1>22 DEF StreamNext, TurnMoves, RunnerMoves

-----------------------------------------------------------------------------
(* The tasks and their feeds. *)

\* How a turn comes to answer.
LEMMA PhaseSteps ==
    ASSUME StreamTypes, EndingOrder, StreamNext
    PROVE  /\ phase' = "loop" => phase = "loop"
           /\ phase' = "tail" => phase = "tail" \/ TakesLast
           /\ Answered' => Answered \/ (phase = "tail" /\ Appends)
           /\ phase = "ended" => UNCHANGED <<phase, log>>
<1> USE DEF Over
<1>1. /\ phase' = "loop" => phase = "loop"
      /\ phase' = "tail" => phase = "tail" \/ TakesLast
      /\ phase' = "ended" => phase = "ended" \/ Appends
      /\ phase = "ended" => UNCHANGED <<phase, log>>
  <2>1. CASE Speaks
    <3>1. PICK x \in Items : Publishes(x)
      BY <2>1, SpeaksAnItem
    <3> QED
      BY <3>1 DEF Publishes, turnOf
  <2>2. CASE AgentEnds \/ RunnerMoves \/ RunnerReturns \/ Collects \/ Ticks
    BY <2>2 DEF AgentEnds, RunnerMoves, RunnerForwards, RunnerFinishes, RunnerReturns, Collects, Ticks, turnOf
  <2>3. CASE TakesNews \/ TakesResult \/ TakesLast
    BY <2>3 DEF TakesNews, TakesResult, TakesLast
  <2>4. CASE TakesError
    BY <2>4 DEF TakesError, Failing
  <2>5. CASE Stores \/ WritesBack \/ Appends \/ Cancelled
    BY <2>5 DEF Stores, WritesBack, Appends, Cancelled, Doing
  <2>6. CASE DeadlineFires \/ StoreFails
    BY <2>6 DEF DeadlineFires, StoreFails, Failing, Doing, Guarded
  <2> QED
    BY <2>1, <2>2, <2>3, <2>4, <2>5, <2>6 DEF StreamNext, TurnMoves
<1>2. ASSUME Appends, phase' = "ended", phase # "tail" PROVE HasKind(log', {"error"})
  <2>1. phase = "failing" /\ todo # << >> /\ log' = Append(log, Head(todo))
    BY <1>2 DEF Appends, StreamTypes
  <2>2. /\ Head(todo) \in Items /\ Head(todo) = todo[1]
        /\ log' = log \o << Head(todo) >> /\ << Head(todo) >> \in Seq(Items)
    BY <2>1 DEF StreamTypes
  <2>3. \A kinds : HasKind(log', kinds) <=> HasKind(log, kinds) \/ Head(todo).kind \in kinds
    BY <2>2, KindLaws, OneLaws DEF StreamTypes
  <2>4. todo[1].kind = "error" \/ (log # << >> /\ log[Len(log)].kind = "error")
    BY <2>1 DEF EndingOrder
  <2>5. log # << >> => Len(log) \in 1 .. Len(log)
    BY DEF StreamTypes
  <2>6. log # << >> /\ log[Len(log)].kind = "error" => HasKind(log, {"error"})
    BY <2>5 DEF HasKind
  <2> QED
    BY <2>2, <2>3, <2>4, <2>6
<1> QED
  BY <1>1, <1>2 DEF Answered

\* What feeding adds to the feed.
LEMMA FeedsLaws ==
    ASSUME StreamTypes, NEW items \in Seq(Items), Feeds(items)
    PROVE  /\ route = "satellite" =>
                 /\ queue' = queue /\ stream' = stream \o items
                 /\ \A kinds : HasKind(stream', kinds) <=> HasKind(stream, kinds) \/ HasKind(items, kinds)
                 /\ \A kinds : AllOf(stream', kinds) <=> AllOf(stream, kinds) /\ AllOf(items, kinds)
           /\ route # "satellite" =>
                 /\ stream' = stream /\ queue' = queue \o items
                 /\ \A kinds : HasKind(queue', kinds) <=> HasKind(queue, kinds) \/ HasKind(items, kinds)
                 /\ \A kinds : AllOf(queue', kinds) <=> AllOf(queue, kinds) /\ AllOf(items, kinds)
<1>1. stream \in Seq(Items) /\ queue \in Seq(Items)
  BY DEF StreamTypes
<1>2. CASE route = "satellite"
  <2>1. queue' = queue /\ stream' = stream \o items
    BY <1>2 DEF Feeds
  <2> QED
    BY <1>1, <1>2, <2>1, KindLaws
<1>3. CASE route # "satellite"
  <2>1. stream' = stream /\ queue' = queue \o items
    BY <1>3 DEF Feeds
  <2> QED
    BY <1>1, <1>3, <2>1, KindLaws
<1> QED
  BY <1>2, <1>3

\* The agent's last words.
LEMMA AgentsEnd ==
    ASSUME AgentEnds
    PROVE  \E items \in Seq(Items) : /\ Feeds(items) /\ AllOf(items, {"error", "last"}) /\ EndsLast(items)
                                     /\ items # << >>
<1>1. PICK why \in {"none", "failed", "overloaded"} :
         Feeds((IF why = "none" THEN <<>> ELSE <<Item("error", why, "none")>>) \o <<Plain("last")>>)
  BY DEF AgentEnds
<1> DEFINE e == Item("error", why, "none")
           l == Plain("last")
           le == << e >>
           ll == << l >>
<1>2. e \in Items /\ e.kind = "error" /\ l \in Items /\ l.kind = "last"
  BY ItemLaws DEF Names
<1> HIDE DEF e, l
<1>3. /\ le \in Seq(Items) /\ ll \in Seq(Items) /\ EndsLast(ll) /\ EndsLast(le) /\ ll # << >> /\ le # << >>
      /\ AllOf(ll, {"error", "last"}) /\ AllOf(ll, {"last", "status"}) /\ AllOf(le, {"error", "last"})
  BY <1>2, OneLaws
<1>4. << >> \o ll = ll
  BY <1>3, NoneLaws
<1> HIDE DEF le, ll
<1>5. /\ le \o ll \in Seq(Items) /\ AllOf(le \o ll, {"error", "last"}) /\ EndsLast(le \o ll)
      /\ le \o ll # << >>
  BY <1>3, KindLaws, FeedLaws, ConcatEqualIffEmpty, ConcatProperties
<1>6. Feeds(ll) \/ Feeds(le \o ll)
  <2>1. CASE why = "none"
    BY <2>1, <1>1, <1>4 DEF ll, l
  <2>2. CASE why # "none"
    BY <2>2, <1>1 DEF ll, l, le, e
  <2> QED
    BY <2>1, <2>2
<1> QED
  BY <1>3, <1>5, <1>6

\* The runner's last words.
LEMMA RunnersEnd ==
    ASSUME StreamTypes, RunnerFinishes \/ RunnerReturns
    PROVE  \E items \in Seq(Items) :
              /\ queue' = queue \o items /\ runner' = "done"
              /\ AllOf(items, Ends) /\ EndsLast(items) /\ Backed(items)
              /\ HasKind(items, {"last"}) /\ items # << >>
<1>1. PICK outcome \in Outcomes : RunnerEnds(outcome)
  BY DEF RunnerFinishes, RunnerReturns
<1>2. PICK x \in Items : outcome = << x >> /\ x.kind \in {"result", "error"}
  <2>1. Plain("result") \in Items /\ Plain("result").kind = "result"
        /\ Item("error", "failed", "none") \in Items /\ Item("error", "failed", "none").kind = "error"
    BY ItemLaws DEF Names
  <2> QED
    BY <2>1, <1>1 DEF Outcomes
<1> DEFINE l == Plain("last")
           lx == << x >>
           ll == << l >>
<1>3. l \in Items /\ l.kind = "last"
  BY ItemLaws
<1>4. queue' = (queue \o lx) \o ll /\ runner' = "done"
  BY <1>1, <1>2 DEF RunnerEnds
<1> HIDE DEF l
<1>5. /\ lx \in Seq(Items) /\ ll \in Seq(Items) /\ EndsLast(ll) /\ EndsLast(lx)
      /\ AllOf(ll, Ends) /\ AllOf(ll, {"last", "status"}) /\ AllOf(lx, Ends) /\ HasKind(ll, {"last"})
  BY <1>2, <1>3, OneLaws DEF Ends
<1>6. Backed(lx \o ll) /\ lx \o ll # << >>
  <2> DEFINE u == lx \o ll
  <2>1. u \in Seq(Items) /\ Len(u) = 2 /\ u # << >>
    BY <1>2, <1>3, TwoLaws
  <2>2. u[1] = x /\ u[2] = l
    BY <1>2, <1>3, TwoLaws
  <2> HIDE DEF u
  <2>3. Len(u) = 2 /\ (\A i \in 1 .. 2 : i = 1 \/ i = 2) /\ 1 \in 1 .. 2 /\ 1 < 2
    BY <2>1
  <2>4. Backed(u)
    BY <2>2, <2>3, <1>2, <1>3 DEF Backed
  <2> QED
    BY <2>1, <2>4 DEF u
<1> HIDE DEF lx, ll
<1>7. lx \o ll \in Seq(Items) /\ AllOf(lx \o ll, Ends) /\ EndsLast(lx \o ll) /\ HasKind(lx \o ll, {"last"})
  BY <1>5, KindLaws, FeedLaws, ConcatProperties
<1>8. queue' = queue \o (lx \o ll)
  <2>1. queue \in Seq(Items)
    BY DEF StreamTypes
  <2> QED
    BY <1>4, <1>5, <2>1, ConcatAssociative
<1> QED
  BY <1>4, <1>6, <1>7, <1>8

\* The beats that a check of the timers adds.
LEMMA TicksBeats ==
    ASSUME StreamTypes, Ticks
    PROVE  \E ofQueue, ofStream \in Seq(Items) :
              /\ queue' = queue \o ofQueue /\ stream' = stream \o ofStream
              /\ AllOf(ofQueue, {"status"}) /\ AllOf(ofStream, {"status"})
              /\ ofStream # << >> => route = "satellite" /\ "watchdog" \in timers
              /\ "heartbeat" \in timers /\ Beats(idle + 1) => ofQueue # << >>
              /\ route # "satellite" /\ "watchdog" \in timers /\ Beats(streamIdle + 1) => ofQueue # << >>
<1> DEFINE p == Plain("status")
           beat == << p >>
           watchBeats == "watchdog" \in timers /\ Beats(streamIdle + 1)
           heart == "heartbeat" \in timers /\ Beats(idle + 1)
           ofWatch == IF watchBeats THEN beat ELSE << >>
           ofHeart == IF heart THEN beat ELSE << >>
           toQueue == IF route = "satellite" THEN << >> ELSE ofWatch
           toStream == IF route = "satellite" THEN ofWatch ELSE << >>
<1>1. p \in Items /\ p.kind = "status"
  BY ItemLaws
<1>2. queue \in Seq(Items) /\ stream \in Seq(Items)
  BY DEF StreamTypes
<1>3. queue' = (queue \o ofHeart) \o toQueue
  BY DEF Ticks
<1>4. stream' = stream \o toStream
  <2>1. stream' = IF route = "satellite" THEN stream \o ofWatch ELSE stream
    BY DEF Ticks
  <2>2. stream \o << >> = stream
    BY <1>2, NoneLaws
  <2> QED
    BY <2>1, <2>2
<1> HIDE DEF p
<1>5. beat \in Seq(Items) /\ beat # << >> /\ AllOf(beat, {"status"})
  BY <1>1, OneLaws
<1>6. << >> \in Seq(Items) /\ AllOf(<< >>, {"status"})
  BY NoneLaws
<1> HIDE DEF beat, watchBeats, heart
<1>7. /\ ofHeart \in Seq(Items) /\ AllOf(ofHeart, {"status"}) /\ (heart => ofHeart # << >>)
      /\ toQueue \in Seq(Items) /\ AllOf(toQueue, {"status"}) /\ (route # "satellite" /\ watchBeats => toQueue # << >>)
      /\ toStream \in Seq(Items) /\ AllOf(toStream, {"status"}) /\ (toStream # << >> => route = "satellite" /\ watchBeats)
  BY <1>5, <1>6
<1> HIDE DEF ofWatch, ofHeart, toQueue, toStream
<1>8. /\ ofHeart \o toQueue \in Seq(Items) /\ AllOf(ofHeart \o toQueue, {"status"})
      /\ ofHeart \o toQueue = << >> <=> ofHeart = << >> /\ toQueue = << >>
  BY <1>7, KindLaws, ConcatEqualIffEmpty, ConcatProperties
<1>9. queue' = queue \o (ofHeart \o toQueue)
  BY <1>2, <1>3, <1>7, ConcatAssociative
<1> QED
  BY <1>4, <1>7, <1>8, <1>9 DEF watchBeats, heart

LEMMA TaskOrderKeep ==
    StreamTypes /\ TaskOrder /\ FeedOrder /\ EndingOrder /\ [StreamNext]_streamVars => TaskOrder'
<1> SUFFICES ASSUME StreamTypes, TaskOrder, FeedOrder, EndingOrder, [StreamNext]_streamVars
             PROVE  TaskOrder'
  OBVIOUS
<1>1. CASE UNCHANGED streamVars
  BY <1>1 DEF streamVars, tasksOf, queues, time, turnOf, TaskOrder, Fast, Answered, Over, HasKind
<1>2. StreamTypes'
  BY StreamTypesKeep
<1> SUFFICES ASSUME StreamNext
             PROVE  TaskOrder'
  BY <1>1
<1>3. /\ phase' = "loop" => phase = "loop"
      /\ phase' = "tail" => phase = "tail" \/ TakesLast
      /\ Answered' => Answered \/ (phase = "tail" /\ Appends)
  BY PhaseSteps
<1>4. queue \in Seq(Items) /\ stream \in Seq(Items)
  BY DEF StreamTypes
<1>5. /\ queue # << >> => \A kinds : HasKind(Tail(queue), kinds) => HasKind(queue, kinds)
      /\ stream # << >> => \A kinds : /\ HasKind(Tail(stream), kinds) => HasKind(stream, kinds)
                                      /\ AllOf(stream, kinds) => Head(stream).kind \in kinds
      /\ \A kinds : ~HasKind(<< >>, kinds)
  BY <1>4, HeadLaws, NoneLaws
<1> USE DEF TaskOrder, Fast
<1>6. CASE Speaks
  <2>1. PICK x \in Items : Publishes(x) /\ x.kind \in {"job", "draft", "text"}
    BY <1>6, SpeaksAnItem
  <2> DEFINE items == << x >>
  <2>2. /\ items \in Seq(Items) /\ Feeds(items) /\ items # << >>
        /\ \A kinds : HasKind(items, kinds) <=> x.kind \in kinds
    BY <2>1, OneLaws DEF Publishes
  <2> HIDE DEF items
  <2>3. /\ route = "satellite" => queue' = queue /\ \A kinds : HasKind(stream', kinds) <=> HasKind(stream, kinds) \/ HasKind(items, kinds)
        /\ route # "satellite" => stream' = stream /\ \A kinds : HasKind(queue', kinds) <=> HasKind(queue, kinds) \/ HasKind(items, kinds)
    BY <2>2, FeedsLaws
  <2>4. agent = "running" /\ UNCHANGED <<route, agent, runner, timers, phase, seen, log>>
    BY <2>1 DEF Publishes, tasksOf, turnOf
  <2> QED
    BY <2>1, <2>2, <2>3, <2>4, <1>3 DEF Answered, Ends
<1>7. CASE AgentEnds
  <2>1. PICK items \in Seq(Items) : Feeds(items) /\ AllOf(items, {"error", "last"})
    BY <1>7, AgentsEnd
  <2>2. /\ route = "satellite" => queue' = queue
        /\ route # "satellite" => stream' = stream
    BY <2>1, FeedsLaws
  <2>3. agent = "running" /\ agent' = "done" /\ UNCHANGED <<route, runner, timers, phase, seen, log>>
    BY <1>7 DEF AgentEnds, turnOf
  <2> QED
    BY <2>2, <2>3, <1>3 DEF Answered
<1>8. CASE RunnerForwards
  <2> DEFINE x == Head(stream)
             items == << x >>
  <2>1. /\ runner = "running" /\ stream # << >> /\ x.kind \notin {"last", "error"}
        /\ stream' = Tail(stream) /\ queue' = Append(queue, x)
        /\ UNCHANGED <<route, agent, runner, timers, phase, log>>
        /\ route # "satellite" => seen' = seen
    BY <1>8 DEF RunnerForwards, tasksOf, turnOf
  <2>2. /\ x \in Items /\ queue' = queue \o items /\ items \in Seq(Items)
        /\ \A kinds : HasKind(items, kinds) <=> x.kind \in kinds
    BY <2>1, <1>4, OneLaws
  <2>3. \A kinds : HasKind(queue', kinds) <=> HasKind(queue, kinds) \/ x.kind \in kinds
    <3> HIDE DEF items, x
    <3> QED
      BY <2>2, <1>4, KindLaws
  <2>4. x.kind \in {"job", "draft", "text", "status"}
    BY <2>1, <1>5 DEF FeedOrder
  <2> HIDE DEF x
  <2> QED
    BY <2>1, <2>3, <2>4, <1>3, <1>5 DEF Answered, Ends
<1>9. CASE RunnerFinishes
  <2>1. /\ runner = "running" /\ stream # << >> /\ Head(stream).kind \in {"last", "error"}
        /\ stream' = << >> /\ timers' = timers \ {"watchdog"} /\ runner' = "done"
        /\ UNCHANGED <<route, agent, phase, seen, log>> /\ route = "satellite"
    BY <1>9, RunnersEnd DEF RunnerFinishes, turnOf
  <2>2. HasKind(stream, {"last", "error"})
    BY <2>1, <1>4, HeadLaws
  <2> QED
    BY <2>1, <2>2, <1>3, <1>5 DEF Answered
<1>10. CASE RunnerReturns
  <2>1. /\ runner = "running" /\ runner' = "done" /\ route = "ground"
        /\ UNCHANGED <<route, agent, timers, stream, phase, seen, log>>
    BY <1>10, RunnersEnd DEF RunnerReturns, turnOf
  <2> QED
    BY <2>1, <1>3 DEF Answered
<1>11. StopsAll => /\ agent' = IF agent = "running" THEN "stopped" ELSE agent
                   /\ runner' = IF runner = "running" THEN "stopped" ELSE runner
                   /\ timers' = {}
  BY DEF StopsAll
<1>12. CASE TakesNews \/ TakesResult
  <2>1. /\ queue # << >> /\ queue' = Tail(queue) /\ phase' = phase
        /\ UNCHANGED <<route, agent, runner, timers, stream, seen, log>>
    BY <1>12 DEF TakesNews, TakesResult, tasksOf
  <2> QED
    BY <2>1, <1>3, <1>5 DEF Answered
<1>13. CASE TakesError \/ TakesLast
  <2>1. /\ queue # << >> /\ queue' = Tail(queue) /\ phase' \in {"failing", "tail"} /\ StopsAll
        /\ UNCHANGED <<route, stream, seen, log>>
    BY <1>13 DEF TakesError, TakesLast, Failing
  <2> QED
    BY <2>1, <1>3, <1>5, <1>11 DEF Answered
<1>14. CASE Stores \/ WritesBack \/ Appends
  <2>1. UNCHANGED <<route, agent, runner, timers, stream, queue, seen>>
    BY <1>14 DEF Stores, WritesBack, Appends, tasksOf, queues
  <2>2. phase' = "tail" => phase = "tail"
    BY <1>14 DEF Stores, WritesBack, Appends
  <2> QED
    BY <2>1, <2>2, <1>3
<1>15. CASE DeadlineFires \/ StoreFails \/ Cancelled \/ Collects
  <2>1. UNCHANGED <<route, stream, queue, seen, log>>
    BY <1>15 DEF DeadlineFires, StoreFails, Cancelled, Collects, queues
  <2>2. StopsAll \/ UNCHANGED <<agent, runner, timers>>
    BY <1>15 DEF DeadlineFires, StoreFails, Cancelled, Collects, Unwinds, tasksOf
  <2>3. phase' \notin {"loop", "tail"} /\ (phase' = "ended" => phase = "ended")
    BY <1>15 DEF DeadlineFires, StoreFails, Cancelled, Collects, Failing, Over, turnOf
  <2>4. Answered' => Answered
    BY <2>1, <2>3 DEF Answered
  <2> QED
    BY <2>1, <2>2, <2>3, <2>4, <1>11
<1>16. CASE Ticks
  <2>1. PICK ofQueue, ofStream \in Seq(Items) :
              /\ queue' = queue \o ofQueue /\ stream' = stream \o ofStream
              /\ AllOf(ofQueue, {"status"}) /\ AllOf(ofStream, {"status"})
              /\ ofStream # << >> => route = "satellite" /\ "watchdog" \in timers
    BY <1>16, TicksBeats
  <2>2. \A s \in Seq(Items) : AllOf(s, {"status"}) => ~HasKind(s, {"last", "error"}) /\ ~HasKind(s, Ends)
    BY DEF AllOf, HasKind, Ends
  <2>3. ~HasKind(ofQueue, {"last", "error"}) /\ ~HasKind(ofQueue, Ends) /\ ~HasKind(ofStream, {"last", "error"})
    BY <2>1, <2>2
  <2>4. /\ HasKind(queue', {"last", "error"}) <=> HasKind(queue, {"last", "error"})
        /\ HasKind(queue', Ends) <=> HasKind(queue, Ends)
        /\ HasKind(stream', {"last", "error"}) <=> HasKind(stream, {"last", "error"})
    BY <2>1, <2>3, <1>4, KindLaws
  <2>5. ofStream = << >> => stream' = stream
    BY <2>1, <1>4, NoneLaws
  <2>6. UNCHANGED <<route, agent, runner, timers, phase, seen, log>>
    BY <1>16 DEF Ticks, tasksOf, turnOf
  <2> QED
    BY <2>1, <2>4, <2>5, <2>6, <1>3 DEF Answered
<1> QED
  BY <1>6, <1>7, <1>8, <1>9, <1>10, <1>12, <1>13, <1>14, <1>15, <1>16 DEF StreamNext, TurnMoves, RunnerMoves

LEMMA FeedOrderKeep ==
    StreamTypes /\ TaskOrder /\ FeedOrder /\ [StreamNext]_streamVars => FeedOrder'
<1> SUFFICES ASSUME StreamTypes, TaskOrder, FeedOrder, [StreamNext]_streamVars
             PROVE  FeedOrder'
  OBVIOUS
<1>1. queue \in Seq(Items) /\ stream \in Seq(Items) /\ spoken \in Seq(Items) /\ seen \in Seq(Items)
  BY DEF StreamTypes
<1>2. ASSUME NEW s \in Seq(Items), NEW x \in Items
      PROVE  /\ Append(s, x) \in Seq(Items)
             /\ \A kinds : AllOf(Append(s, x), kinds) <=> AllOf(s, kinds) /\ x.kind \in kinds
             /\ \A kinds : HasKind(Append(s, x), kinds) <=> HasKind(s, kinds) \/ x.kind \in kinds
             /\ EndsLast(s) /\ ~HasKind(s, Ends) => EndsLast(Append(s, x))
  <2> DEFINE o == << x >>
  <2>1. /\ o \in Seq(Items) /\ EndsLast(o) /\ Append(s, x) = s \o o
        /\ \A kinds : (AllOf(o, kinds) <=> x.kind \in kinds) /\ (HasKind(o, kinds) <=> x.kind \in kinds)
    BY OneLaws
  <2>2. Append(s, x) \in Seq(Items)
    OBVIOUS
  <2> HIDE DEF o
  <2> QED
    BY <2>1, <2>2, KindLaws, FeedLaws
<1>3. /\ queue # << >> => /\ \A kinds : AllOf(queue, kinds) => AllOf(Tail(queue), kinds)
                          /\ \A kinds : HasKind(Tail(queue), kinds) => HasKind(queue, kinds)
                          /\ EndsLast(queue) => EndsLast(Tail(queue))
      /\ stream # << >> => /\ Head(stream) \in Items
                           /\ \A kinds : AllOf(stream, kinds) => Head(stream).kind \in kinds
                           /\ \A kinds : AllOf(stream, kinds) => AllOf(Tail(stream), kinds)
                           /\ EndsLast(stream) => EndsLast(Tail(stream))
      /\ EndsLast(<< >>) /\ \A kinds : AllOf(<< >>, kinds)
  BY <1>1, HeadLaws, NoneLaws
<1>4. CASE UNCHANGED <<route, stream, queue, seen, spoken>>
  BY <1>4 DEF FeedOrder
<1>5. CASE Speaks
  <2>1. PICK x \in Items : Publishes(x) /\ x.kind \in {"job", "draft", "text"}
    BY <1>5, SpeaksAnItem
  <2> DEFINE items == << x >>
  <2>2. /\ items \in Seq(Items) /\ Feeds(items) /\ EndsLast(items)
        /\ \A kinds : HasKind(items, kinds) <=> x.kind \in kinds
        /\ \A kinds : AllOf(items, kinds) <=> x.kind \in kinds
    BY <2>1, OneLaws DEF Publishes
  <2> HIDE DEF items
  <2>3. /\ agent = "running" /\ spoken' = Append(spoken, x) /\ UNCHANGED <<route, seen>> /\ route # "ground"
    BY <2>1 DEF Publishes, tasksOf, TaskOrder
  <2>4. AllOf(spoken', {"job", "draft", "text"})
    BY <2>1, <2>3, <1>1, <1>2 DEF FeedOrder
  <2>5. CASE route = "satellite"
    <3>1. queue' = queue /\ stream' = stream \o items
          /\ \A kinds : AllOf(stream', kinds) <=> AllOf(stream, kinds) /\ AllOf(items, kinds)
      BY <2>2, <2>5, FeedsLaws
    <3>2. ~HasKind(stream, Ends)
      <4>1. AllOf(stream, {"job", "draft", "text", "status", "error", "last"}) /\ ~HasKind(stream, {"last", "error"})
        BY <2>3 DEF FeedOrder, TaskOrder
      <4> QED
        BY <4>1 DEF AllOf, HasKind, Ends
    <3>3. EndsLast(stream')
      BY <3>1, <3>2, <2>2, <1>1, FeedLaws DEF FeedOrder
    <3> QED
      BY <3>1, <3>3, <2>1, <2>2, <2>3, <2>4, <2>5 DEF FeedOrder
  <2>6. CASE route # "satellite"
    <3>0. route = "supervisor"
      BY <2>3, <2>6 DEF StreamTypes
    <3>1. /\ stream' = stream /\ queue' = queue \o items
          /\ \A kinds : AllOf(queue', kinds) <=> AllOf(queue, kinds) /\ AllOf(items, kinds)
          /\ \A kinds : HasKind(queue', kinds) <=> HasKind(queue, kinds) \/ HasKind(items, kinds)
      BY <2>2, <2>6, FeedsLaws
    <3>2. ~HasKind(queue, Ends)
      <4>1. ~HasKind(queue, {"result"}) /\ ~HasKind(queue, {"last", "error"})
        BY <2>3, <3>0 DEF FeedOrder, TaskOrder
      <4> QED
        BY <4>1 DEF HasKind, Ends
    <3>3. EndsLast(queue')
      BY <3>1, <3>2, <2>2, <1>1, FeedLaws DEF FeedOrder
    <3> QED
      BY <3>0, <3>1, <3>3, <2>1, <2>2, <2>3, <2>4 DEF FeedOrder
  <2> QED
    BY <2>5, <2>6
<1>6. CASE AgentEnds
  <2>1. PICK items \in Seq(Items) : Feeds(items) /\ AllOf(items, {"error", "last"}) /\ EndsLast(items)
    BY <1>6, AgentsEnd
  <2>2. agent = "running" /\ UNCHANGED <<route, seen, spoken>> /\ route # "ground"
    BY <1>6 DEF AgentEnds, TaskOrder
  <2>3. /\ AllOf(items, {"job", "draft", "text", "status", "error", "last"})
        /\ AllOf(items, {"job", "draft", "text", "status", "error", "last", "result"}) /\ ~HasKind(items, {"result"})
    BY <2>1 DEF AllOf, HasKind
  <2>4. CASE route = "satellite"
    <3>1. queue' = queue /\ stream' = stream \o items
          /\ \A kinds : AllOf(stream', kinds) <=> AllOf(stream, kinds) /\ AllOf(items, kinds)
      BY <2>1, <2>4, FeedsLaws
    <3>2. ~HasKind(stream, Ends)
      <4>1. AllOf(stream, {"job", "draft", "text", "status", "error", "last"}) /\ ~HasKind(stream, {"last", "error"})
        BY <2>2 DEF FeedOrder, TaskOrder
      <4> QED
        BY <4>1 DEF AllOf, HasKind, Ends
    <3>3. EndsLast(stream')
      BY <3>1, <3>2, <2>1, <1>1, FeedLaws DEF FeedOrder
    <3> QED
      BY <3>1, <3>3, <2>2, <2>3, <2>4 DEF FeedOrder
  <2>5. CASE route # "satellite"
    <3>0. route = "supervisor"
      BY <2>2, <2>5 DEF StreamTypes
    <3>1. /\ stream' = stream /\ queue' = queue \o items
          /\ \A kinds : AllOf(queue', kinds) <=> AllOf(queue, kinds) /\ AllOf(items, kinds)
          /\ \A kinds : HasKind(queue', kinds) <=> HasKind(queue, kinds) \/ HasKind(items, kinds)
      BY <2>1, <2>5, FeedsLaws
    <3>2. ~HasKind(queue, Ends)
      <4>1. ~HasKind(queue, {"result"}) /\ ~HasKind(queue, {"last", "error"})
        BY <2>2, <3>0 DEF FeedOrder, TaskOrder
      <4> QED
        BY <4>1 DEF HasKind, Ends
    <3>3. EndsLast(queue')
      BY <3>1, <3>2, <2>1, <1>1, FeedLaws DEF FeedOrder
    <3> QED
      BY <3>0, <3>1, <3>3, <2>2, <2>3 DEF FeedOrder
  <2> QED
    BY <2>4, <2>5
<1>7. CASE RunnerForwards
  <2> DEFINE x == Head(stream)
  <2>1. /\ runner = "running" /\ stream # << >> /\ x.kind \notin {"last", "error"}
        /\ stream' = Tail(stream) /\ queue' = Append(queue, x) /\ UNCHANGED <<route, spoken>>
        /\ seen' = IF x.kind = "draft" THEN Append(seen, x) ELSE seen
    BY <1>7 DEF RunnerForwards
  <2>2. x \in Items /\ x.kind \in {"job", "draft", "text", "status", "error", "last"}
    BY <2>1, <1>3 DEF FeedOrder
  <2> HIDE DEF x
  <2>3. ~HasKind(queue, Ends) /\ route = "satellite"
    BY <2>1 DEF TaskOrder
  <2>4. EndsLast(queue') /\ AllOf(seen', {"draft"}) /\ EndsLast(stream')
    BY <2>1, <2>2, <2>3, <1>1, <1>2, <1>3 DEF FeedOrder
  <2>5. AllOf(queue', {"job", "draft", "text", "status", "error", "last", "result"})
    BY <2>1, <2>2, <2>3, <1>1, <1>2 DEF FeedOrder
  <2>6. AllOf(stream', {"job", "draft", "text", "status", "error", "last"})
    BY <2>1, <1>3 DEF FeedOrder
  <2> QED
    BY <2>1, <2>3, <2>4, <2>5, <2>6 DEF FeedOrder
<1>8. CASE RunnerFinishes \/ RunnerReturns
  <2>1. PICK items \in Seq(Items) : /\ queue' = queue \o items
              /\ AllOf(items, Ends) /\ EndsLast(items)
    BY <1>8, RunnersEnd
  <2>2. runner = "running" /\ UNCHANGED <<route, seen, spoken>> /\ stream' \in {stream, << >>} /\ route # "supervisor"
    BY <1>8 DEF RunnerFinishes, RunnerReturns
  <2>3. ~HasKind(queue, Ends)
    BY <2>2 DEF TaskOrder
  <2>4. EndsLast(queue') /\ EndsLast(stream')
    BY <2>1, <2>2, <2>3, <1>1, <1>3, FeedLaws DEF FeedOrder
  <2>5. AllOf(stream', {"job", "draft", "text", "status", "error", "last"})
    BY <2>2, <1>3 DEF FeedOrder
  <2>6. /\ AllOf(items, {"status", "error", "last", "result"})
        /\ AllOf(items, {"job", "draft", "text", "status", "error", "last", "result"})
    BY <2>1 DEF AllOf, Ends
  <2>7. \A kinds : AllOf(queue', kinds) <=> AllOf(queue, kinds) /\ AllOf(items, kinds)
    BY <2>1, <1>1, KindLaws
  <2>8. AllOf(queue', IF route = "ground" THEN {"status", "error", "last", "result"}
                      ELSE {"job", "draft", "text", "status", "error", "last", "result"})
    BY <2>6, <2>7 DEF FeedOrder
  <2> QED
    BY <2>2, <2>4, <2>5, <2>8 DEF FeedOrder
<1>9. CASE TakesNews \/ TakesResult \/ TakesError \/ TakesLast
  <2>1. queue # << >> /\ queue' = Tail(queue) /\ UNCHANGED <<route, stream, seen, spoken>>
    BY <1>9 DEF TakesNews, TakesResult, TakesError, TakesLast
  <2> QED
    BY <2>1, <1>3 DEF FeedOrder
<1>10. CASE Ticks
  <2>1. PICK ofQueue, ofStream \in Seq(Items) :
              /\ queue' = queue \o ofQueue /\ stream' = stream \o ofStream
              /\ AllOf(ofQueue, {"status"}) /\ AllOf(ofStream, {"status"})
    BY <1>10, TicksBeats
  <2>2. \A s \in Seq(Items) : AllOf(s, {"status"}) =>
           /\ AllOf(s, {"last", "status"}) /\ ~HasKind(s, {"result"}) /\ EndsLast(s)
           /\ AllOf(s, {"job", "draft", "text", "status", "error", "last"})
           /\ AllOf(s, {"status", "error", "last", "result"})
           /\ AllOf(s, {"job", "draft", "text", "status", "error", "last", "result"})
    BY DEF AllOf, HasKind, Ends, EndsLast
  <2>3. /\ AllOf(ofQueue, {"last", "status"}) /\ ~HasKind(ofQueue, {"result"}) /\ EndsLast(ofQueue)
        /\ AllOf(ofQueue, {"status", "error", "last", "result"})
        /\ AllOf(ofQueue, {"job", "draft", "text", "status", "error", "last", "result"})
        /\ AllOf(ofStream, {"last", "status"}) /\ EndsLast(ofStream)
        /\ AllOf(ofStream, {"job", "draft", "text", "status", "error", "last"})
    BY <2>1, <2>2
  <2>4. EndsLast(queue') /\ EndsLast(stream')
    BY <2>1, <2>3, <1>1, FeedLaws DEF FeedOrder
  <2>5. /\ \A kinds : AllOf(queue', kinds) <=> AllOf(queue, kinds) /\ AllOf(ofQueue, kinds)
        /\ \A kinds : AllOf(stream', kinds) <=> AllOf(stream, kinds) /\ AllOf(ofStream, kinds)
        /\ HasKind(queue', {"result"}) <=> HasKind(queue, {"result"}) \/ HasKind(ofQueue, {"result"})
    BY <2>1, <1>1, KindLaws
  <2>6. UNCHANGED <<route, seen, spoken>>
    BY <1>10 DEF Ticks
  <2> QED
    BY <2>3, <2>4, <2>5, <2>6 DEF FeedOrder
<1>11. \/ UNCHANGED streamVars
       \/ Stores \/ WritesBack \/ Appends \/ DeadlineFires \/ StoreFails \/ Cancelled \/ Collects
       => UNCHANGED <<route, stream, queue, seen, spoken>>
  BY DEF streamVars, Stores, WritesBack, Appends, DeadlineFires, StoreFails, Cancelled, Collects, queues
<1> QED
  BY <1>4, <1>5, <1>6, <1>7, <1>8, <1>9, <1>10, <1>11 DEF StreamNext, TurnMoves, RunnerMoves

LEMMA ResultOrderKeep ==
    StreamTypes /\ TaskOrder /\ FeedOrder /\ EndingOrder /\ ResultOrder /\ [StreamNext]_streamVars => ResultOrder'
<1> SUFFICES ASSUME StreamTypes, TaskOrder, FeedOrder, EndingOrder, ResultOrder, [StreamNext]_streamVars
             PROVE  ResultOrder'
  OBVIOUS
<1>1. CASE UNCHANGED streamVars
  BY <1>1 DEF streamVars, tasksOf, queues, time, turnOf, ResultOrder, Fast, Answered
<1> SUFFICES ASSUME StreamNext
             PROVE  ResultOrder'
  BY <1>1
<1>2. /\ phase' = "loop" => phase = "loop"
      /\ phase' = "tail" => phase = "tail" \/ TakesLast
      /\ Answered' => Answered \/ phase = "tail"
  BY PhaseSteps
<1>3. queue \in Seq(Items)
  BY DEF StreamTypes
<1> USE DEF ResultOrder, Fast
<1>4. ASSUME NEW items \in Seq(Items), queue' = queue \o items, Backed(items), UNCHANGED <<route, runner, phase, result>>
      PROVE  ResultOrder'
  <2>1. HasKind(queue, {"last"}) => HasKind(queue', {"last"})
    BY <1>3, <1>4, KindLaws
  <2>2. Backed(queue) => Backed(queue')
    BY <1>3, <1>4, FeedLaws
  <2> QED
    BY <2>1, <2>2, <1>2, <1>4
<1>5. CASE Speaks \/ AgentEnds
  <2>1. PICK items \in Seq(Items) : Feeds(items)
    BY <1>5, SpeaksAnItem, AgentsEnd, OneLaws DEF Publishes
  <2>2. agent = "running" /\ UNCHANGED <<route, runner, phase, result>>
    <3>1. Speaks => agent = "running" /\ UNCHANGED <<route, runner, phase, result>>
      BY SpeaksAnItem DEF Publishes, tasksOf, turnOf
    <3> QED
      BY <3>1, <1>5 DEF AgentEnds, turnOf
  <2>3. Fast => queue' = queue
    BY <2>1, <2>2, FeedsLaws DEF TaskOrder
  <2>4. ~Fast => runner = "none"
    BY DEF TaskOrder, StreamTypes
  <2> QED
    BY <2>2, <2>3, <2>4, <1>2
<1>6. CASE RunnerForwards
  <2> DEFINE x == Head(stream)
             items == << x >>
  <2>1. stream # << >> /\ x.kind # "last" /\ queue' = Append(queue, x) /\ UNCHANGED <<route, runner, phase, result>>
    BY <1>6 DEF RunnerForwards, tasksOf, turnOf
  <2>2. x \in Items
    BY <2>1 DEF StreamTypes
  <2>3. items \in Seq(Items) /\ Backed(items) /\ queue' = queue \o items
    BY <2>1, <2>2, <1>3, OneLaws
  <2> HIDE DEF items
  <2> QED
    BY <2>1, <2>3, <1>4
<1>7. CASE RunnerFinishes \/ RunnerReturns
  <2>1. PICK items \in Seq(Items) : queue' = queue \o items /\ runner' = "done" /\ Backed(items) /\ HasKind(items, {"last"})
    BY <1>7, RunnersEnd
  <2>2. runner = "running" /\ UNCHANGED <<route, phase, result>>
    BY <1>7 DEF RunnerFinishes, RunnerReturns, turnOf
  <2>3. HasKind(queue', {"last"})
    BY <2>1, <1>3, KindLaws
  <2>4. Backed(queue) => Backed(queue')
    BY <2>1, <1>3, FeedLaws
  <2> QED
    BY <2>1, <2>2, <2>3, <2>4, <1>2
<1>8. CASE TakesNews \/ TakesResult
  <2>1. /\ queue # << >> /\ queue' = Tail(queue) /\ UNCHANGED <<route, runner, phase>> /\ phase = "loop"
        /\ Head(queue).kind \in {"status", "job", "draft", "text", "result"}
        /\ (result' = result /\ Head(queue).kind # "result") \/ (result' = TRUE /\ Head(queue).kind = "result")
    BY <1>8 DEF TakesNews, TakesResult, tasksOf
  <2>2. /\ HasKind(queue, {"last"}) => HasKind(queue', {"last"})
        /\ Backed(queue) /\ Head(queue).kind # "result" => Backed(queue')
        /\ Head(queue).kind = "result" => HasKind(queue, Ends)
    <3>1. /\ \A kinds : HasKind(queue, kinds) <=> Head(queue).kind \in kinds \/ HasKind(Tail(queue), kinds)
          /\ Backed(queue) /\ Head(queue).kind \notin {"result", "error"} => Backed(Tail(queue))
      BY <2>1, <1>3, HeadLaws
    <3> QED
      BY <2>1, <3>1 DEF Ends
  <2> QED
    BY <2>1, <2>2, <1>2 DEF TaskOrder
<1>9. CASE TakesLast
  <2>1. /\ queue # << >> /\ Head(queue).kind = "last" /\ phase = "loop" /\ phase' = "tail" /\ UNCHANGED <<route, result>>
    BY <1>9 DEF TakesLast
  <2>2. ~Backed(queue)
    BY <2>1, <1>3, HeadLaws
  <2> QED
    BY <2>1, <2>2
<1>10. CASE TakesError \/ DeadlineFires \/ StoreFails \/ Cancelled \/ Collects
  <2>1. UNCHANGED <<route, result>> /\ phase' \notin {"loop", "tail"} /\ (phase' = "ended" => phase = "ended" /\ log' = log)
    BY <1>10 DEF TakesError, DeadlineFires, StoreFails, Cancelled, Collects, Failing, Over, turnOf
  <2> QED
    BY <2>1 DEF Answered
<1>11. CASE Stores \/ WritesBack \/ Appends
  <2>1. UNCHANGED <<route, result, runner, queue>> /\ (phase' = "tail" => phase = "tail")
    BY <1>11 DEF Stores, WritesBack, Appends, tasksOf, queues
  <2> QED
    BY <2>1, <1>2
<1>12. CASE Ticks
  <2>1. PICK items, ofStream \in Seq(Items) : queue' = queue \o items /\ AllOf(items, {"status"})
    BY <1>12, TicksBeats
  <2>2. Backed(items)
    BY <2>1 DEF AllOf, Backed
  <2>3. UNCHANGED <<route, runner, phase, result>>
    BY <1>12 DEF Ticks, tasksOf, turnOf
  <2> QED
    BY <2>1, <2>2, <2>3, <1>4
<1> QED
  BY <1>5, <1>6, <1>7, <1>8, <1>9, <1>10, <1>11, <1>12 DEF StreamNext, TurnMoves, RunnerMoves

-----------------------------------------------------------------------------
(* The endings. *)

LEMMA ToTheEndLaws ==
    ASSUME NEW s \in Seq(Items), ToTheEnd(s)
    PROVE  /\ Head(s) \in Items /\ Tail(s) \in Seq(Items) /\ Len(s) \in Nat
           /\ Head(s).kind \in {"draft", "chart", "text", "back", "done"}
           /\ Head(s).kind = "done" <=> Len(s) = 1
           /\ Head(s).kind = "done" <=> Tail(s) = << >>
           /\ Head(s).kind # "done" => ToTheEnd(Tail(s))
           /\ \A t \in Seq(Items) : AllOf(t, {"draft", "chart", "text", "back"}) => ToTheEnd(t \o s)
<1> DEFINE n == Len(s)
           u == Tail(s)
           x == Head(s)
<1>1. /\ s # << >> /\ s[n].kind = "done"
      /\ \A i \in 1 .. n : i # n => s[i].kind \in {"draft", "chart", "text", "back"}
  BY DEF ToTheEnd
<1>2. /\ n \in Nat /\ n >= 1 /\ u \in Seq(Items) /\ Len(u) = n - 1 /\ x = s[1] /\ x \in Items
      /\ 1 \in 1 .. n
      /\ \A i \in 1 .. n - 1 : i + 1 \in 1 .. n /\ u[i] = s[i + 1]
  BY <1>1, TailLaws
<1>3. u = << >> <=> n = 1
  BY <1>2
<1>4. ASSUME NEW t \in Seq(Items), AllOf(t, {"draft", "chart", "text", "back"})
      PROVE  ToTheEnd(t \o s)
  <2> DEFINE m == Len(t)
             v == t \o s
  <2>1. /\ m \in Nat /\ Len(v) = m + n
        /\ \A i \in 1 .. m : v[i] = t[i]
        /\ \A i \in 1 .. n : v[m + i] = s[i]
    BY JoinLaws
  <2>2. \A i \in 1 .. m : t[i].kind \in {"draft", "chart", "text", "back"}
    BY <1>4 DEF AllOf
  <2>3. v # << >>
    BY <1>1, ConcatEqualIffEmpty
  <2> HIDE DEF n, m, v
  <2>4. n \in 1 .. n
    BY <1>2
  <2>5. v[m + n].kind = "done"
    BY <1>1, <2>1, <2>4
  <2>6. ASSUME NEW i \in 1 .. m + n, i # m + n PROVE v[i].kind \in {"draft", "chart", "text", "back"}
    <3>1. CASE i \in 1 .. m
      BY <3>1, <2>1, <2>2
    <3>2. CASE i - m \in 1 .. n /\ i = m + (i - m)
      <4>1. i - m # n
        BY <1>2, <2>1, <2>6
      <4>2. v[i] = s[i - m]
        BY <3>2, <2>1
      <4> QED
        BY <3>2, <4>1, <4>2, <1>1
    <3>3. i \in 1 .. m \/ (i - m \in 1 .. n /\ i = m + (i - m))
      BY <1>2, <2>1
    <3> QED
      BY <3>1, <3>2, <3>3
  <2>7. ToTheEnd(v)
    BY <2>1, <2>3, <2>5, <2>6 DEF ToTheEnd
  <2> QED
    BY <2>7 DEF v
<1> HIDE DEF u, x
<1>5. ASSUME n # 1 PROVE ToTheEnd(u)
  <2>1. n - 1 \in 1 .. n - 1 /\ (n - 1) + 1 = n
    BY <1>2, <1>5
  <2>2. u[n - 1].kind = "done"
    BY <1>1, <1>2, <2>1
  <2>3. ASSUME NEW i \in 1 .. n - 1, i # n - 1 PROVE u[i].kind \in {"draft", "chart", "text", "back"}
    <3>1. i + 1 \in 1 .. n /\ i + 1 # n /\ u[i] = s[i + 1]
      BY <1>2, <2>3
    <3> QED
      BY <3>1, <1>1
  <2> QED
    BY <1>2, <1>3, <1>5, <2>2, <2>3 DEF ToTheEnd
<1>6. x.kind = "done" <=> n = 1
  BY <1>1, <1>2
<1>7. x.kind \in {"draft", "chart", "text", "back", "done"}
  BY <1>1, <1>2
<1> QED
  BY <1>2, <1>3, <1>4, <1>5, <1>6, <1>7 DEF n, u, x

LEMMA ConcludedLaws ==
    ASSUME NEW s \in Seq(Items), NEW x \in Items,
           \/ ~HasKind(s, {"error", "done"})
           \/ Concluded(s) /\ ~HasKind(s, {"done"}) /\ x.kind = "done"
    PROVE  /\ Concluded(s \o << x >>) /\ s \o << x >> # << >> /\ (s \o << x >>)[Len(s \o << x >>)] = x
           /\ \A kinds : HasKind(s \o << x >>, kinds) <=> HasKind(s, kinds) \/ x.kind \in kinds
           /\ \A kinds : AllOf(s \o << x >>, kinds) <=> AllOf(s, kinds) /\ x.kind \in kinds
<1> DEFINE o == << x >>
           u == s \o o
           m == Len(s)
<1>1. o \in Seq(Items) /\ (\A kinds : HasKind(o, kinds) <=> x.kind \in kinds) /\ \A kinds : AllOf(o, kinds) <=> x.kind \in kinds
  BY OneLaws
<1>2. /\ m \in Nat /\ Len(u) = m + 1 /\ u # << >>
      /\ \A i \in 1 .. m : u[i] = s[i]
      /\ u[m + 1] = x
  OBVIOUS
<1>3. \A i \in 1 .. m : s[i].kind # "done" /\ (s[i].kind = "error" => x.kind = "done")
  BY DEF HasKind
<1>4. \A i, k \in 1 .. m : i < k /\ s[i].kind = "error" => s[k].kind = "done"
  BY DEF HasKind, Concluded
<1> HIDE DEF o
<1>5. /\ \A kinds : HasKind(u, kinds) <=> HasKind(s, kinds) \/ x.kind \in kinds
      /\ \A kinds : AllOf(u, kinds) <=> AllOf(s, kinds) /\ x.kind \in kinds
  BY <1>1, KindLaws
<1> HIDE DEF u, m
<1>6. ASSUME NEW i \in 1 .. m + 1, NEW k \in 1 .. m + 1, i < k
      PROVE  u[i].kind # "done" /\ (u[i].kind = "error" => u[k].kind = "done")
  <2>1. i \in 1 .. m /\ (k \in 1 .. m \/ k = m + 1)
    BY <1>2, <1>6
  <2> QED
    BY <2>1, <1>2, <1>3, <1>4, <1>6
<1>7. Concluded(u) /\ u[Len(u)] = x
  BY <1>2, <1>6 DEF Concluded
<1> QED
  BY <1>2, <1>5, <1>7 DEF u, o

LEMMA EndingOrderKeep ==
    StreamTypes /\ FeedOrder /\ EndingOrder /\ [StreamNext]_streamVars => EndingOrder'
<1> SUFFICES ASSUME StreamTypes, FeedOrder, EndingOrder, [StreamNext]_streamVars
             PROVE  EndingOrder'
  OBVIOUS
<1> USE DEF Over, Fast
<1>1. todo \in Seq(Items) /\ log \in Seq(Items) /\ queue \in Seq(Items) /\ seen \in Seq(Items)
  BY DEF StreamTypes
<1>2. /\ \A kinds : AllOf(<< >>, kinds) /\ Len(<< >>) = 0
      /\ \A x \in Items : << x >> \in Seq(Items) /\ Len(<< x >>) = 1 /\ \A kinds : AllOf(<< x >>, kinds) <=> x.kind \in kinds
  BY NoneLaws, OneLaws
<1>3. todo # << >> => /\ Head(todo) \in Items /\ Tail(todo) \in Seq(Items) /\ Head(todo) = todo[1]
                      /\ Len(todo) \in Nat /\ Len(Tail(todo)) = Len(todo) - 1 /\ 1 \in 1 .. Len(todo)
                      /\ (Tail(todo) = << >> <=> Len(todo) = 1)
                      /\ \A i \in 1 .. Len(todo) - 1 : i + 1 \in 1 .. Len(todo) /\ Tail(todo)[i] = todo[i + 1]
  <2> HAVE todo # << >>
  <2>1. /\ Head(todo) \in Items /\ Tail(todo) \in Seq(Items) /\ Head(todo) = todo[1]
        /\ Len(Tail(todo)) = Len(todo) - 1 /\ 1 \in 1 .. Len(todo)
        /\ \A i \in 1 .. Len(Tail(todo)) : i + 1 \in 1 .. Len(todo) /\ Tail(todo)[i] = todo[i + 1]
    BY <1>1, TailLaws
  <2>2. Len(todo) \in Nat /\ \A s \in Seq(Items) : s = << >> <=> Len(s) = 0
    BY <1>1
  <2>3. Tail(todo) = << >> <=> Len(todo) = 1
    <3> DEFINE n == Len(todo)
               m == Len(Tail(todo))
    <3>1. n \in Nat /\ m = n - 1 /\ (Tail(todo) = << >> <=> m = 0)
      BY <2>1, <2>2
    <3> HIDE DEF n, m
    <3>2. m = 0 <=> n = 1
      BY <3>1
    <3> QED
      BY <3>1, <3>2 DEF n
  <2>4. \A i \in 1 .. Len(todo) - 1 : i + 1 \in 1 .. Len(todo) /\ Tail(todo)[i] = todo[i + 1]
    BY <2>1
  <2> QED
    BY <2>1, <2>2, <2>3, <2>4
<1>4. /\ todo # << >> /\ phase = "loop" => Tail(todo) = << >> /\ Head(todo).kind \in {"status", "job", "draft", "chart", "text"}
      /\ phase = "tail" => Tail(todo) \in Seq(Items) /\ Head(todo).kind \in {"draft", "chart", "text", "back", "done"}
      /\ todo # << >> /\ phase = "failing" => Head(todo).kind \in {"error", "done"}
  <2>1. todo # << >> /\ phase = "loop" => Head(todo).kind \in {"status", "job", "draft", "chart", "text"}
    BY <1>3 DEF AllOf, EndingOrder
  <2>2. phase = "tail" => todo # << >>
    BY DEF ToTheEnd, EndingOrder
  <2> QED
    BY <2>1, <2>2, <1>1, <1>3, ToTheEndLaws DEF EndingOrder
<1>5. CASE UNCHANGED <<route, phase, todo, log, storeFaults, clock>>
  BY <1>5 DEF EndingOrder
<1>6. CASE \/ UNCHANGED streamVars
           \/ Speaks \/ AgentEnds \/ RunnerForwards \/ RunnerFinishes \/ RunnerReturns \/ TakesResult \/ Collects
  <2>1. Speaks => UNCHANGED <<route, phase, todo, log, storeFaults, clock>>
    BY SpeaksAnItem DEF Publishes, turnOf
  <2> QED
    BY <1>5, <1>6, <2>1 DEF streamVars, AgentEnds, RunnerForwards, RunnerFinishes, RunnerReturns, TakesResult, Collects, EndingOrder,
                            time, turnOf
<1>7. CASE TakesNews
  <2>1. /\ queue # << >> /\ phase = "loop" /\ Head(queue).kind \in {"status", "job", "draft", "text"}
        /\ todo' \in {<< >>, << Head(queue) >>} /\ UNCHANGED <<route, phase, log, storeFaults, clock>>
    BY <1>7 DEF TakesNews
  <2>2. Head(queue) \in Items
    BY <2>1, <1>1
  <2>3. Len(todo') <= 1 /\ AllOf(todo', {"status", "job", "draft", "chart", "text"})
    <3> DEFINE x == Head(queue)
    <3>1. Len(<< x >>) = 1 /\ AllOf(<< x >>, {"status", "job", "draft", "chart", "text"})
      BY <2>1, <2>2, <1>2
    <3>2. Len(<< >>) = 0 /\ AllOf(<< >>, {"status", "job", "draft", "chart", "text"})
      BY <1>2
    <3>3. CASE todo' = << >>
      BY <3>2, <3>3
    <3>4. CASE todo' = << x >>
      BY <3>1, <3>4
    <3> QED
      BY <2>1, <3>3, <3>4
  <2> QED
    BY <2>1, <2>3 DEF EndingOrder
<1>8. ASSUME NEW why \in Names, Failing(why), phase \in {"loop", "tail"}, UNCHANGED <<route, log>>
      PROVE  EndingOrder'
  BY <1>8, FailingLaws DEF EndingOrder
<1>9. CASE TakesError
  <2>1. queue # << >> /\ phase = "loop" /\ Failing(Head(queue).name) /\ UNCHANGED <<route, log>>
    BY <1>9 DEF TakesError
  <2>2. Head(queue).name \in Names
    BY <2>1, <1>1, ItemLaws
  <2> QED
    BY <2>1, <2>2, <1>8 DEF EndingOrder
<1>10. CASE TakesLast
  <2> DEFINE d == Plain("done")
             rest == << d >>
             x == Plain("text")
             y == Plain("back")
             closing == << x, y >>
             front == IF Fast THEN seen \o closing ELSE << >>
  <2>1. /\ todo' = front \o rest /\ phase' = "tail" /\ phase = "loop" /\ UNCHANGED <<route, log, storeFaults, clock>>
    BY <1>10 DEF TakesLast
  <2>2. d \in Items /\ d.kind = "done" /\ x \in Items /\ x.kind = "text" /\ y \in Items /\ y.kind = "back"
    BY ItemLaws
  <2> HIDE DEF d, x, y
  <2>3. rest \in Seq(Items) /\ Len(rest) = 1 /\ ToTheEnd(rest)
    <3>1. rest \in Seq(Items) /\ Len(rest) = 1 /\ rest # << >> /\ rest[1] = d
      BY <2>2, OneLaws
    <3>2. \A i \in 1 .. 1 : i = 1
      OBVIOUS
    <3> HIDE DEF rest
    <3> QED
      BY <2>2, <3>1, <3>2 DEF ToTheEnd, EndingOrder
  <2>4. closing \in Seq(Items) /\ AllOf(closing, {"draft", "chart", "text", "back"})
    <3>1. closing \in Seq(Items) /\ Len(closing) = 2
      BY <2>2
    <3>2. closing[1] = x /\ closing[2] = y /\ \A i \in 1 .. 2 : i = 1 \/ i = 2
      OBVIOUS
    <3> HIDE DEF closing
    <3> QED
      BY <2>2, <3>1, <3>2 DEF AllOf, EndingOrder
  <2>5. seen \o closing \in Seq(Items) /\ AllOf(seen \o closing, {"draft", "chart", "text", "back"})
    <3>1. AllOf(seen, {"draft", "chart", "text", "back"})
      BY DEF FeedOrder, AllOf
    <3> HIDE DEF closing
    <3> QED
      BY <1>1, <2>4, <3>1, KindLaws, ConcatProperties DEF EndingOrder
  <2> HIDE DEF rest, closing
  <2>6. front \in Seq(Items) /\ AllOf(front, {"draft", "chart", "text", "back"}) /\ (~Fast => front = << >>)
    BY <2>5, NoneLaws
  <2> HIDE DEF front
  <2>7. ToTheEnd(front \o rest) /\ (~Fast => front \o rest = rest)
    BY <2>3, <2>6, ToTheEndLaws, NoneLaws
  <2> QED
    BY <2>1, <2>3, <2>7 DEF EndingOrder
<1>11. CASE Stores
  <2> DEFINE c == Item("chart", Head(todo).name, "none")
             front == IF Head(todo).name \in emitted THEN << >> ELSE << c >>
  <2>1. /\ todo # << >> /\ Head(todo).kind = "draft" /\ phase \in {"loop", "tail"}
        /\ todo' = front \o Tail(todo) /\ UNCHANGED <<route, phase, log, storeFaults, clock>>
    BY <1>11, <1>4 DEF Stores, Doing, time, StreamTypes
  <2>2. c \in Items /\ c.kind = "chart"
    <3>1. Head(todo).name \in Charts
      BY <2>1, <1>3, ItemLaws
    <3> QED
      BY <3>1, ItemLaws DEF EndingOrder
  <2> HIDE DEF c
  <2>3. front \in Seq(Items) /\ Len(front) <= 1 /\ \A kinds : "chart" \in kinds => AllOf(front, kinds)
    BY <2>2, <1>2, NoneLaws
  <2> HIDE DEF front
  <2>4. CASE phase = "loop"
    <3>1. todo' = front
      BY <2>1, <2>3, <2>4, <1>4, NoneLaws
    <3> QED
      BY <2>1, <2>3, <2>4, <3>1 DEF EndingOrder
  <2>5. CASE phase = "tail"
    <3>1. ToTheEnd(Tail(todo)) /\ Len(todo) # 1
      BY <2>1, <2>5, <1>1, ToTheEndLaws DEF EndingOrder
    <3>2. ToTheEnd(front \o Tail(todo))
      BY <3>1, <2>3, <1>3, <2>1, ToTheEndLaws
    <3> QED
      BY <2>1, <2>5, <3>1, <3>2 DEF EndingOrder
  <2> QED
    BY <2>1, <2>4, <2>5 DEF EndingOrder
<1>12. CASE WritesBack
  <2>1. /\ todo # << >> /\ Head(todo).kind = "back" /\ phase = "tail"
        /\ todo' = Tail(todo) /\ UNCHANGED <<route, phase, log, storeFaults, clock>>
    BY <1>12, <1>4 DEF WritesBack, Doing, time, StreamTypes
  <2>2. ToTheEnd(Tail(todo)) /\ Len(todo) # 1
    BY <2>1, <1>1, ToTheEndLaws DEF EndingOrder
  <2> QED
    BY <2>1, <2>2 DEF EndingOrder
<1>13. CASE Appends
  <2> DEFINE x == Head(todo)
  <2>1. /\ ~Over /\ todo # << >> /\ x.kind \in Frames /\ log' = Append(log, x) /\ todo' = Tail(todo)
        /\ phase' = IF Tail(todo) = << >> /\ phase \in {"tail", "failing"} THEN "ended" ELSE phase
        /\ UNCHANGED <<route, storeFaults, clock>>
    BY <1>13 DEF Appends
  <2>2. x \in Items /\ log' = log \o << x >> /\ phase \in {"loop", "tail", "failing"}
    <3>1. \A s \in Seq(Items), y \in Items : Append(s, y) = s \o << y >>
      OBVIOUS
    <3>2. phase \in {"loop", "tail", "failing"}
      BY <2>1 DEF StreamTypes
    <3> QED
      BY <2>1, <1>1, <1>3, <3>1, <3>2 DEF EndingOrder
  <2>3. \/ ~HasKind(log, {"error", "done"})
        \/ Concluded(log) /\ ~HasKind(log, {"done"}) /\ x.kind = "done"
    BY <2>1, <2>2, <1>3 DEF EndingOrder
  <2> DEFINE u == log \o << x >>
  <2>4. /\ Concluded(u) /\ u # << >> /\ u[Len(u)] = x
        /\ \A kinds : HasKind(u, kinds) <=> HasKind(log, kinds) \/ x.kind \in kinds
        /\ \A kinds : AllOf(u, kinds) <=> AllOf(log, kinds) /\ x.kind \in kinds
    BY <2>2, <2>3, <1>1, ConcludedLaws
  <2> HIDE DEF u
  <2>5. log' = u
    BY <2>2 DEF u
  <2>6. /\ Concluded(log') /\ log' # << >> /\ log'[Len(log')] = x
        /\ \A kinds : HasKind(log', kinds) <=> HasKind(log, kinds) \/ x.kind \in kinds
        /\ \A kinds : AllOf(log', kinds) <=> AllOf(log, kinds) /\ x.kind \in kinds
    BY <2>4, <2>5, Zenon
  <2>10. /\ HasKind(log', {"error", "done"}) <=> HasKind(log, {"error", "done"}) \/ x.kind \in {"error", "done"}
         /\ HasKind(log', {"done"}) <=> HasKind(log, {"done"}) \/ x.kind = "done"
         /\ AllOf(log', Frames)
         /\ Concluded(log') /\ log' # << >> /\ log'[Len(log')] = x
    <3> DEFINE k == x.kind
               v == log'
    <3>1. AllOf(log, Frames)
      BY DEF EndingOrder
    <3>2. /\ Concluded(v) /\ v # << >> /\ v[Len(v)] = x /\ k \in Frames
          /\ \A kinds : HasKind(v, kinds) <=> HasKind(log, kinds) \/ k \in kinds
          /\ \A kinds : AllOf(v, kinds) <=> AllOf(log, kinds) /\ k \in kinds
      BY <2>1, <2>6
    <3> HIDE DEF k, v
    <3>3. /\ HasKind(v, {"error", "done"}) <=> HasKind(log, {"error", "done"}) \/ k \in {"error", "done"}
          /\ HasKind(v, {"done"}) <=> HasKind(log, {"done"}) \/ k = "done"
      BY <3>2, Zenon
    <3>4. AllOf(v, Frames)
      BY <3>1, <3>2
    <3> QED
      BY <3>2, <3>3, <3>4 DEF k, v
  <2>11. ~HasKind(log, {"error", "done"}) => ~HasKind(log, {"done"})
    BY DEF HasKind
  <2>7. CASE phase = "loop"
    <3>1. x.kind \notin {"error", "done"} /\ todo' = << >> /\ phase' = "loop"
      BY <2>1, <2>7, <1>4
    <3>2. Len(todo') <= 1 /\ AllOf(todo', {"status", "job", "draft", "chart", "text"})
      BY <3>1, <1>2
    <3>3. ~HasKind(log', {"error", "done"}) /\ ~HasKind(log', {"done"})
      BY <2>10, <2>11, <2>7, <3>1 DEF EndingOrder
    <3> HIDE DEF x
    <3> QED
      BY <2>1, <2>10, <2>7, <3>1, <3>2, <3>3 DEF EndingOrder
  <2>8. CASE phase = "tail"
    <3>1. CASE x.kind = "done"
      <4>1. todo' = << >> /\ phase' = "ended"
        BY <2>1, <2>8, <3>1, <1>1, ToTheEndLaws DEF EndingOrder
      <4> HIDE DEF x
      <4> QED
        BY <2>1, <2>10, <2>11, <2>8, <3>1, <4>1 DEF EndingOrder
    <3>2. CASE x.kind # "done"
      <4>1. ToTheEnd(todo') /\ phase' = "tail" /\ Len(todo) # 1 /\ x.kind # "error"
        BY <2>1, <2>8, <3>2, <1>1, <1>4, ToTheEndLaws DEF EndingOrder
      <4> HIDE DEF x
      <4> QED
        BY <2>1, <2>10, <2>11, <2>8, <3>2, <4>1 DEF EndingOrder
    <3> QED
      BY <3>1, <3>2 DEF EndingOrder
  <2>9. CASE phase = "failing"
    <3>1. CASE x.kind = "done"
      <4>1. todo' = << >> /\ phase' = "ended"
        BY <2>1, <2>9, <3>1, <1>3 DEF EndingOrder
      <4> HIDE DEF x
      <4> QED
        BY <2>1, <2>10, <2>11, <2>9, <3>1, <4>1 DEF EndingOrder
    <3>2. CASE x.kind = "error" /\ Len(todo) = 1
      <4>1. todo' = << >> /\ phase' = "ended"
        BY <2>1, <2>9, <3>2, <1>3
      <4> HIDE DEF x
      <4> QED
        BY <2>1, <2>10, <2>11, <2>9, <3>2, <4>1 DEF EndingOrder
    <3>3. CASE x.kind = "error" /\ Len(todo) # 1
      <4>1. ~HasKind(log, {"done"}) /\ \A i \in 1 .. Len(todo) : i # 1 => i = Len(todo) /\ todo[i].kind = "done"
        BY <2>1, <2>9, <3>3, <1>3 DEF EndingOrder
      <4>6. Len(todo) \in Nat /\ Len(todo) >= 1 /\ Len(todo) # 1
        BY <2>1, <3>3, <1>3
      <4>2. 2 \in 1 .. Len(todo) /\ 1 \in 1 .. Len(todo) - 1 /\ 2 # 1
        <5> DEFINE n == Len(todo)
        <5> HIDE DEF n
        <5>1. n \in Nat /\ n >= 1 /\ n # 1 => 2 \in 1 .. n /\ 1 \in 1 .. n - 1
          OBVIOUS
        <5> QED
          BY <4>6, <5>1 DEF n
      <4>3. Len(todo) = 2 /\ todo[2].kind = "done"
        BY <4>1, <4>2
      <4>4. todo'[1] = todo[2] /\ Len(todo') = 1
        BY <2>1, <4>2, <4>3, <1>3
      <4>5. todo' # << >> /\ phase' = "failing"
        BY <2>1, <2>9, <3>3, <1>3 DEF EndingOrder
      <4> HIDE DEF x
      <4> QED
        BY <2>1, <2>10, <2>11, <2>9, <3>3, <4>1, <4>3, <4>4, <4>5 DEF EndingOrder
    <3> QED
      BY <2>1, <2>9, <1>4, <3>1, <3>2, <3>3 DEF EndingOrder
  <2> QED
    BY <2>2, <2>7, <2>8, <2>9 DEF EndingOrder
<1>14. CASE DeadlineFires
  <2>1. phase \in {"loop", "tail"} /\ clock = Deadline /\ UNCHANGED <<route, log, clock, storeFaults>>
        /\ (Failing("timeout") \/ (phase' = "dead" /\ todo' = << >>)) /\ "timeout" \in Names
    BY <1>14 DEF DeadlineFires, Guarded, time, Names
  <2> QED
    BY <2>1, <1>8 DEF EndingOrder
<1>15. CASE StoreFails
  <2>1. /\ todo # << >> /\ Head(todo).kind \in {"draft", "back"} /\ ~Over /\ UNCHANGED <<route, log>>
        /\ storeFaults' = storeFaults + 1 /\ "failed" \in Names
        /\ \/ Fast /\ phase' = "dead" /\ todo' = << >>
           \/ Failing("failed")
    BY <1>15 DEF StoreFails, Doing, Names
  <2>2. phase \in {"loop", "tail"}
    BY <2>1, <1>4 DEF StreamTypes
  <2>3. storeFaults' > 0
    BY <2>1 DEF StreamTypes
  <2> QED
    BY <2>1, <2>2, <2>3, <1>8 DEF EndingOrder
<1>16. CASE Cancelled
  BY <1>16 DEF Cancelled, EndingOrder
<1>17. CASE Ticks
  <2>1. ~Over /\ UNCHANGED <<route, phase, todo, log, storeFaults>>
    BY <1>17 DEF Ticks, turnOf
  <2> QED
    BY <2>1 DEF EndingOrder
<1> QED
  BY <1>6, <1>7, <1>9, <1>10, <1>11, <1>12, <1>13, <1>14, <1>15, <1>16, <1>17 DEF StreamNext, TurnMoves, RunnerMoves

-----------------------------------------------------------------------------
(* Job events keep their order. *)

LEMMA Assoc == \A a, b, c \in Seq(Items) : (a \o b) \o c = a \o (b \o c)
  OBVIOUS

LEMMA JobOrderKeep ==
    StreamTypes /\ TaskOrder /\ FeedOrder /\ EndingOrder /\ JobOrder /\ [StreamNext]_streamVars => JobOrder'
<1> SUFFICES ASSUME StreamTypes, TaskOrder, FeedOrder, EndingOrder, JobOrder, [StreamNext]_streamVars
             PROVE  JobOrder'
  OBVIOUS
<1> DEFINE J(s) == Only(s, "job")
           onTheWay(l, t, q, s) == ((J(l) \o J(t)) \o J(q)) \o J(s)
<1>1. /\ todo \in Seq(Items) /\ log \in Seq(Items) /\ queue \in Seq(Items) /\ stream \in Seq(Items)
      /\ spoken \in Seq(Items)
  BY DEF StreamTypes
<1>2. /\ \A s \in Seq(Items) : J(s) \in Seq(Items) /\ (~HasKind(s, {"job"}) => J(s) = << >>)
      /\ \A s, t \in Seq(Items) : J(s \o t) = J(s) \o J(t)
      /\ << >> \in Seq(Items) /\ J(<< >>) = << >>
  <2>1. ASSUME NEW s \in Seq(Items), NEW t \in Seq(Items)
        PROVE  /\ J(s) \in Seq(Items) /\ (~HasKind(s, {"job"}) => J(s) = << >>)
               /\ J(s \o t) = J(s) \o J(t)
    BY OnlyLaws
  <2>2. << >> \in Seq(Items) /\ ~HasKind(<< >>, {"job"})
    BY NoneLaws
  <2> HIDE DEF J
  <2> QED
    BY <2>1, <2>2
<1>3. ASSUME NEW x \in Items
      PROVE  /\ << x >> \in Seq(Items)
             /\ x.kind # "job" => J(<< x >>) = << >>
             /\ \A s \in Seq(Items) : Append(s, x) = s \o << x >>
  <2>1. << x >> \in Seq(Items) /\ \A s \in Seq(Items) : Append(s, x) = s \o << x >>
    OBVIOUS
  <2>2. x.kind # "job" => J(<< x >>) = << >>
    BY <2>1, OnlyLaws
  <2> QED
    BY <2>1, <2>2
<1>4. ASSUME NEW s \in Seq(Items), s # << >>
      PROVE  /\ Head(s) \in Items /\ Tail(s) \in Seq(Items) /\ << Head(s) >> \in Seq(Items)
             /\ J(s) = J(<< Head(s) >>) \o J(Tail(s))
             /\ Head(s).kind # "job" => J(s) = J(Tail(s))
             /\ EndsLast(s) /\ Head(s).kind \in {"last", "error"} => J(s) = << >>
  <2>1. Head(s) \in Items /\ Tail(s) \in Seq(Items) /\ << Head(s) >> \in Seq(Items) /\ s = << Head(s) >> \o Tail(s)
    BY <1>4, HeadLaws, OneLaws
  <2>2. J(s) = J(<< Head(s) >>) \o J(Tail(s))
    BY <2>1, <1>2
  <2>3. Head(s).kind # "job" => J(s) = J(Tail(s))
    BY <2>1, <2>2, <1>2, <1>3, NoneLaws
  <2>4. ASSUME EndsLast(s), Head(s).kind \in {"last", "error"} PROVE J(s) = << >>
    <3>1. AllOf(Tail(s), {"last", "status"})
      BY <2>4, <1>4, HeadLaws DEF Ends
    <3>2. ~HasKind(Tail(s), {"job"})
      BY <3>1 DEF AllOf, HasKind
    <3> QED
      BY <2>1, <2>3, <2>4, <3>2, <1>2
  <2> QED
    BY <2>1, <2>2, <2>3, <2>4
<1> HIDE DEF J
<1>20. ASSUME NEW s \in Seq(Items), NEW t \in Seq(Items), ~HasKind(t, {"job"})
       PROVE  J(s \o t) = J(s)
  <2>1. J(t) = << >>
    BY <1>20, <1>2
  <2>2. J(s \o t) = J(s) \o J(t) /\ J(s) \in Seq(Items)
    BY <1>2
  <2> QED
    BY <2>1, <2>2, NoneLaws
<1>5. /\ phase = "loop" => onTheWay(log, todo, queue, stream) = J(spoken)
      /\ phase = "tail" \/ Answered => J(log) = J(spoken)
  BY DEF JobOrder, J
<1>6. SUFFICES /\ phase' = "loop" => onTheWay(log', todo', queue', stream') = J(spoken')
               /\ phase' = "tail" \/ Answered' => J(log') = J(spoken')
  BY DEF JobOrder, J
<1>7. CASE UNCHANGED <<log, todo, queue, stream, spoken, phase>>
  BY <1>7, <1>5 DEF Answered
<1>8. CASE UNCHANGED streamVars
  BY <1>8, <1>7 DEF streamVars, queues, turnOf
<1> SUFFICES ASSUME StreamNext
             PROVE  /\ phase' = "loop" => onTheWay(log', todo', queue', stream') = J(spoken')
                    /\ phase' = "tail" \/ Answered' => J(log') = J(spoken')
  BY <1>8
<1>9. /\ phase' = "loop" => phase = "loop"
      /\ phase' = "tail" => phase = "tail" \/ TakesLast
      /\ Answered' => Answered \/ (phase = "tail" /\ Appends)
      /\ phase = "ended" => UNCHANGED <<phase, log>>
  BY PhaseSteps
<1>10. /\ phase = "tail" \/ Answered => agent # "running"
       /\ agent # "running" => UNCHANGED spoken
  <2>1. agent # "running" => UNCHANGED spoken
    <3>1. CASE Speaks
      BY <3>1, SpeaksAnItem DEF Publishes
    <3>2. CASE ~Speaks
      BY <3>2 DEF StreamNext, AgentEnds, RunnerMoves, RunnerForwards, RunnerFinishes, RunnerReturns, TurnMoves, TakesNews, TakesResult,
                  TakesError, TakesLast, Stores, WritesBack, Appends, DeadlineFires, StoreFails, Cancelled, Collects, Ticks
    <3> QED
      BY <3>1, <3>2
  <2> QED
    BY <2>1 DEF TaskOrder
\* After the loop: only the driver appends, and no job.
<1>11. ASSUME phase' = "tail" \/ Answered' PROVE J(log') = J(spoken')
  <2>1. CASE Answered
    <3>1. phase = "ended"
      BY <2>1 DEF Answered
    <3> QED
      BY <2>1, <3>1, <1>5, <1>9, <1>10
  <2>2. CASE phase = "tail" /\ Appends
    <3>1. todo # << >> /\ log' = Append(log, Head(todo))
      BY <2>2 DEF Appends
    <3>2. Head(todo) \in Items /\ Head(todo).kind # "job"
      <4>1. Head(todo).kind \in {"draft", "chart", "text", "back", "done"} /\ Head(todo) \in Items
        BY <2>2, <1>1, ToTheEndLaws DEF EndingOrder
      <4> QED
        BY <4>1
    <3>3. J(log') = J(log) \o J(<< Head(todo) >>) /\ J(<< Head(todo) >>) = << >>
      BY <3>1, <3>2, <1>1, <1>2, <1>3
    <3>4. J(log') = J(log)
      BY <3>3, <1>1, <1>2, NoneLaws
    <3> QED
      BY <3>4, <2>2, <1>5, <1>10
  <2>3. CASE phase = "tail" /\ ~Appends
    <3>1. phase' \in {"tail"}
      BY <2>3, <1>9, <1>11 DEF Answered
    <3>2. UNCHANGED log
      <4>1. CASE Speaks
        BY <4>1, SpeaksAnItem DEF Publishes
      <4>2. CASE ~Speaks
        BY <2>3, <4>2 DEF StreamNext, AgentEnds, RunnerMoves, RunnerForwards, RunnerFinishes, RunnerReturns, TurnMoves, TakesNews, TakesResult,
                  TakesError, TakesLast, Stores, WritesBack, DeadlineFires, StoreFails, Cancelled, Collects, Ticks
      <4> QED
        BY <4>1, <4>2
    <3> QED
      BY <2>3, <3>2, <1>5, <1>10
  <2>4. CASE TakesLast
    <3>1. /\ phase = "loop" /\ todo = << >> /\ queue # << >> /\ Head(queue).kind = "last"
          /\ UNCHANGED <<log, spoken>>
      BY <2>4 DEF TakesLast
    <3>2. J(queue) = << >>
      BY <3>1, <1>1, <1>4 DEF FeedOrder
    <3>3. J(stream) = << >>
      <4>1. HasKind(queue, Ends)
        <5>1. "last" \in Ends
          BY DEF Ends
        <5>2. \A kinds : HasKind(queue, kinds) <=> Head(queue).kind \in kinds \/ HasKind(Tail(queue), kinds)
          BY <3>1, <1>1, HeadLaws
        <5> QED
          BY <3>1, <5>1, <5>2
      <4>2. stream = << >>
        BY <3>1, <4>1 DEF TaskOrder, Fast, StreamTypes
      <4> QED
        BY <4>2, <1>2
    <3>4. J(log) = J(spoken)
      <4>1. ((J(log) \o << >>) \o << >>) \o << >> = J(spoken)
        BY <3>1, <3>2, <3>3, <1>2, <1>5
      <4>2. J(log) \in Seq(Items)
        BY <1>1, <1>2
      <4> QED
        BY <4>1, <4>2, NoneLaws
    <3> QED
      BY <3>1, <3>4
  <2> QED
    BY <2>1, <2>2, <2>3, <2>4, <1>9, <1>11
\* In the loop.
<1>12. ASSUME phase' = "loop" PROVE onTheWay(log', todo', queue', stream') = J(spoken')
  <2> DEFINE a == J(log)
             b == J(todo)
             c == J(queue)
             d == J(stream)
             e == J(spoken)
  <2>1. a \in Seq(Items) /\ b \in Seq(Items) /\ c \in Seq(Items) /\ d \in Seq(Items) /\ e \in Seq(Items)
    BY <1>1, <1>2
  <2>2. phase = "loop" /\ ((a \o b) \o c) \o d = e
    BY <1>5, <1>9, <1>12
  <2>3. ASSUME NEW more \in Seq(Items), NEW beats \in Seq(Items), ~HasKind(more, {"job"}), ~HasKind(beats, {"job"}),
               queue' = queue \o more, stream' = stream \o beats
        PROVE  J(queue') = c /\ J(stream') = d
    <3>1. J(queue \o more) = J(queue) /\ J(stream \o beats) = J(stream)
      BY <2>3, <1>1, <1>20
    <3> QED
      BY <2>3, <3>1
  <2>16. ASSUME NEW p \in Seq(Items), NEW q \in Seq(Items)
         PROVE  /\ ((a \o b) \o c) \o (d \o p) = (((a \o b) \o c) \o d) \o p
                /\ ((a \o b) \o (c \o p)) \o << >> = (((a \o b) \o c) \o << >>) \o p
                /\ ((a \o b) \o (c \o p)) \o q = ((a \o b) \o c) \o (p \o q)
                /\ ((a \o p) \o q) \o d = ((a \o << >>) \o (p \o q)) \o d
    <3> DEFINE ab == a \o b
               abc == ab \o c
    <3>1. ab \in Seq(Items) /\ a \o << >> = a
      BY <2>1, NoneLaws
    <3>13. a \in Seq(Items)
      BY <2>1
    <3> HIDE DEF a, b, c, d, ab
    <3>2. (a \o p) \o q = a \o (p \o q)
      BY <3>13, Assoc
    <3>3. (ab \o c) \o p = ab \o (c \o p)
      BY <2>1, <3>1, Assoc
    <3>4. abc \in Seq(Items)
      BY <2>1, <3>1
    <3> HIDE DEF abc
    <3>5. (abc \o d) \o p = abc \o (d \o p)
      BY <2>1, <3>4, Assoc
    <3>6. (abc \o p) \o q = abc \o (p \o q)
      BY <3>4, Assoc
    <3>7. abc \o p \in Seq(Items)
      BY <3>4
    <3>8. abc \o p = ab \o (c \o p)
      BY <3>3 DEF abc
    <3>9. abc \o << >> = abc /\ (abc \o p) \o << >> = abc \o p
      BY <3>4, <3>7, NoneLaws
    <3>10. (ab \o (c \o p)) \o << >> = (abc \o << >>) \o p /\ (ab \o (c \o p)) \o q = abc \o (p \o q)
      BY <3>6, <3>8, <3>9
    <3>11. ((a \o p) \o q) \o d = ((a \o << >>) \o (p \o q)) \o d
      BY <3>1, <3>2
    <3>12. /\ ((a \o b) \o c) \o d = abc \o d /\ (a \o b) \o c = abc /\ a \o b = ab
      BY DEF abc, ab
    <3> QED
      BY <3>5, <3>10, <3>11, <3>12
  <2>4. CASE Speaks
    <3>1. PICK x \in Items : Publishes(x)
      BY <2>4, SpeaksAnItem
    <3> DEFINE o == << x >>
    <3>2. /\ o \in Seq(Items) /\ Feeds(o) /\ spoken' = spoken \o o /\ UNCHANGED <<log, todo>>
      BY <3>1, <1>1, <1>3 DEF Publishes, turnOf
    <3> HIDE DEF o
    <3>3. J(spoken') = e \o J(o) /\ J(o) \in Seq(Items)
      BY <3>2, <1>1, <1>2
    <3>4. CASE route = "satellite"
      <4>1. J(stream') = d \o J(o) /\ J(queue') = c
        BY <3>2, <3>4, <1>1, <1>2, FeedsLaws
      <4>2. ((a \o b) \o c) \o (d \o J(o)) = (((a \o b) \o c) \o d) \o J(o)
        BY <2>1, <2>16, <3>3
      <4> QED
        BY <2>2, <3>2, <3>3, <4>1, <4>2
    <3>5. CASE route # "satellite"
      <4>1. J(queue') = c \o J(o) /\ stream = << >> /\ stream' = stream
        BY <3>2, <3>5, <1>1, <1>2, FeedsLaws DEF TaskOrder
      <4>2. J(stream') = << >> /\ d = << >>
        BY <4>1, <1>2
      <4>3. ((a \o b) \o (c \o J(o))) \o << >> = (((a \o b) \o c) \o << >>) \o J(o)
        BY <2>1, <2>16, <3>3
      <4> QED
        BY <2>2, <3>2, <3>3, <4>1, <4>2, <4>3
    <3> QED
      BY <3>4, <3>5
  <2>5. CASE AgentEnds
    <3>1. PICK items \in Seq(Items) : Feeds(items) /\ AllOf(items, {"error", "last"})
      BY <2>5, AgentsEnd
    <3>2. ~HasKind(items, {"job"})
      BY <3>1 DEF AllOf, HasKind
    <3>3. J(items) = << >> /\ J(queue) \o << >> = c /\ J(stream) \o << >> = d
      BY <3>1, <3>2, <2>1, <1>2, NoneLaws
    <3>4. J(queue') = c /\ J(stream') = d
      <4>1. CASE route = "satellite"
        <5>1. queue' = queue /\ stream' = stream \o items
          BY <3>1, <4>1, FeedsLaws
        <5>2. J(stream \o items) = J(stream)
          BY <3>2, <1>1, <1>20
        <5> QED
          BY <5>1, <5>2
      <4>2. CASE route # "satellite"
        <5>1. stream' = stream /\ queue' = queue \o items
          BY <3>1, <4>2, FeedsLaws
        <5>2. J(queue \o items) = J(queue)
          BY <3>2, <1>1, <1>20
        <5> QED
          BY <5>1, <5>2
      <4> QED
        BY <4>1, <4>2
    <3>5. UNCHANGED <<log, todo, spoken>>
      BY <2>5 DEF AgentEnds, turnOf
    <3> QED
      BY <2>2, <3>4, <3>5
  <2>6. CASE RunnerForwards
    <3> DEFINE x == Head(stream)
               o == << x >>
    <3>1. /\ stream # << >> /\ stream' = Tail(stream) /\ queue' = Append(queue, x)
          /\ UNCHANGED <<log, todo, spoken>>
      BY <2>6 DEF RunnerForwards, turnOf
    <3>2. o \in Seq(Items) /\ d = J(o) \o J(stream') /\ queue' = queue \o o /\ stream' \in Seq(Items)
      BY <3>1, <1>1, <1>3, <1>4
    <3> HIDE DEF o
    <3>3. J(queue') = c \o J(o) /\ J(o) \in Seq(Items) /\ J(stream') \in Seq(Items)
      BY <3>2, <1>1, <1>2
    <3>4. ((a \o b) \o (c \o J(o))) \o J(stream') = ((a \o b) \o c) \o (J(o) \o J(stream'))
      BY <2>1, <2>16, <3>3
    <3> QED
      BY <2>2, <3>1, <3>2, <3>3, <3>4
  <2>7. CASE RunnerFinishes \/ RunnerReturns
    <3>1. PICK items \in Seq(Items) : queue' = queue \o items /\ AllOf(items, Ends)
      BY <2>7, RunnersEnd
    <3>2. ~HasKind(items, {"job"})
      BY <3>1 DEF AllOf, HasKind, Ends
    <3>3. J(queue') = c
      <4>1. J(queue \o items) = J(queue)
        BY <3>2, <1>1, <1>20
      <4> QED
        BY <3>1, <4>1
    <3>4. J(stream') = d
      <4>1. CASE RunnerFinishes
        <5>1. stream # << >> /\ Head(stream).kind \in {"last", "error"} /\ stream' = << >>
          BY <4>1 DEF RunnerFinishes
        <5> QED
          BY <5>1, <1>1, <1>2, <1>4 DEF FeedOrder
      <4>2. CASE RunnerReturns
        BY <4>2 DEF RunnerReturns
      <4> QED
        BY <2>7, <4>1, <4>2
    <3>5. UNCHANGED <<log, todo, spoken>>
      BY <2>7 DEF RunnerFinishes, RunnerReturns, turnOf
    <3> QED
      BY <2>2, <3>3, <3>4, <3>5
  <2>8. CASE TakesNews
    <3> DEFINE x == Head(queue)
               o == << x >>
    <3>1. /\ todo = << >> /\ queue # << >> /\ queue' = Tail(queue) /\ (todo' = o \/ (todo' = << >> /\ x.kind = "text"))
          /\ UNCHANGED <<log, stream, spoken>>
      BY <2>8 DEF TakesNews
    <3>2. /\ o \in Seq(Items) /\ c = J(o) \o J(queue') /\ queue' \in Seq(Items) /\ x \in Items
          /\ x.kind # "job" => J(o) = << >>
      BY <3>1, <1>1, <1>3, <1>4
    <3>3. J(todo') = J(o) /\ b = << >>
      BY <3>1, <3>2, <1>2
    <3> HIDE DEF o, x
    <3>4. J(o) \in Seq(Items) /\ J(queue') \in Seq(Items)
      BY <3>2, <1>2
    <3>5. ((a \o J(o)) \o J(queue')) \o d = ((a \o << >>) \o (J(o) \o J(queue'))) \o d
      BY <3>4, <2>16
    <3> QED
      BY <2>2, <3>1, <3>2, <3>3, <3>5
  <2>9. CASE TakesResult
    <3>1. queue # << >> /\ queue' = Tail(queue) /\ Head(queue).kind = "result" /\ UNCHANGED <<log, todo, stream, spoken>>
      BY <2>9 DEF TakesResult
    <3>2. J(queue') = c
      BY <3>1, <1>1, <1>4
    <3> QED
      BY <2>2, <3>1, <3>2
  <2>10. CASE Stores
    <3> DEFINE k == Item("chart", Head(todo).name, "none")
               o == << k >>
               front == IF Head(todo).name \in emitted THEN << >> ELSE o
    <3>1. todo # << >> /\ Head(todo).kind = "draft" /\ todo' = front \o Tail(todo) /\ UNCHANGED <<log, queue, stream, spoken>>
      BY <2>10 DEF Stores, Doing, queues
    <3>2. k \in Items /\ k.kind = "chart"
      <4>1. Head(todo) \in Items
        BY <3>1, <1>1, <1>4
      <4>2. Head(todo).name \in Charts
        BY <3>1, <4>1, ItemLaws
      <4> QED
        BY <4>2, ItemLaws
    <3> HIDE DEF k
    <3>3. front \in Seq(Items) /\ J(front) = << >>
      BY <3>2, <1>2, <1>3
    <3> HIDE DEF front
    <3>4. Tail(todo) \in Seq(Items) /\ J(Tail(todo)) = b /\ J(todo') = J(front) \o J(Tail(todo))
      BY <3>1, <3>3, <1>1, <1>2, <1>4
    <3>5. J(todo') = b
      BY <3>3, <3>4, <2>1, NoneLaws
    <3> QED
      BY <2>2, <3>1, <3>5
  <2>11. CASE WritesBack
    <3>1. todo # << >> /\ todo' = Tail(todo) /\ Head(todo).kind = "back" /\ UNCHANGED <<log, queue, stream, spoken>>
      BY <2>11 DEF WritesBack, Doing, queues
    <3>2. J(todo') = b
      BY <3>1, <1>1, <1>4
    <3> QED
      BY <2>2, <3>1, <3>2
  <2>12. CASE Appends
    <3> DEFINE x == Head(todo)
               o == << x >>
    <3>1. todo # << >> /\ todo' = Tail(todo) /\ log' = Append(log, x) /\ UNCHANGED <<queue, stream, spoken>>
      BY <2>12 DEF Appends, queues
    <3>2. Tail(todo) = << >>
      <4>1. Len(todo) <= 1 /\ Len(todo) \in Nat
        BY <1>1, <2>2 DEF EndingOrder
      <4>2. Tail(todo) \in Seq(Items) /\ Len(Tail(todo)) = Len(todo) - 1 /\ Len(todo) >= 1
        BY <1>1, <3>1
      <4> DEFINE n == Len(todo)
                 u == Tail(todo)
      <4>4. n \in Nat /\ n <= 1 /\ n >= 1 /\ Len(u) = n - 1 /\ u \in Seq(Items)
        BY <4>1, <4>2
      <4> HIDE DEF n, u
      <4>3. u = << >>
        BY <4>4
      <4> QED
        BY <4>3 DEF u
    <3>3. /\ o \in Seq(Items) /\ b = J(o) \o J(todo') /\ log' = log \o o /\ todo' = << >>
      BY <3>1, <3>2, <1>1, <1>3, <1>4
    <3> HIDE DEF o, x
    <3>4. J(todo') = << >> /\ J(o) \in Seq(Items) /\ J(log') = a \o J(o)
      BY <3>3, <1>1, <1>2
    <3>5. b = J(o) /\ J(log') \o J(todo') = a \o b
      <4>1. b = J(o)
        BY <3>3, <3>4, NoneLaws
      <4>2. a \o J(o) \in Seq(Items)
        BY <2>1, <3>4
      <4> QED
        BY <3>4, <4>1, <4>2, NoneLaws
    <3> QED
      BY <2>2, <3>1, <3>5
  <2>13. CASE Ticks
    <3>1. PICK ofQueue, ofStream \in Seq(Items) :
              /\ queue' = queue \o ofQueue /\ stream' = stream \o ofStream
              /\ AllOf(ofQueue, {"status"}) /\ AllOf(ofStream, {"status"})
      BY <2>13, TicksBeats
    <3>2. ~HasKind(ofQueue, {"job"}) /\ ~HasKind(ofStream, {"job"})
      BY <3>1 DEF AllOf, HasKind
    <3>3. UNCHANGED <<log, todo, spoken>>
      BY <2>13 DEF Ticks, turnOf
    <3> QED
      BY <2>2, <2>3, <3>1, <3>2, <3>3
  <2>14. CASE TakesError \/ TakesLast \/ DeadlineFires \/ Cancelled \/ Collects \/ StoreFails
    <3>1. CASE Collects
      BY <2>2, <3>1 DEF Collects, queues, turnOf
    <3> QED
      BY <2>2, <2>14, <3>1, <1>12 DEF TakesError, TakesLast, DeadlineFires, Cancelled, StoreFails, Failing
  <2> QED
    BY <2>4, <2>5, <2>6, <2>7, <2>8, <2>9, <2>10, <2>11, <2>12, <2>13, <2>14 DEF StreamNext, TurnMoves, RunnerMoves
<1> QED
  BY <1>11, <1>12

-----------------------------------------------------------------------------
(* Charts are shown once. *)

LEMMA ChartOrderKeep ==
    StreamTypes /\ TaskOrder /\ FeedOrder /\ EndingOrder /\ ChartOrder /\ [StreamNext]_streamVars => ChartOrder'
<1> SUFFICES ASSUME StreamTypes, TaskOrder, FeedOrder, EndingOrder, ChartOrder, [StreamNext]_streamVars
             PROVE  ChartOrder'
  OBVIOUS
<1> DEFINE live == phase \in {"loop", "tail"} \/ Answered
<1>1. /\ todo \in Seq(Items) /\ log \in Seq(Items) /\ queue \in Seq(Items) /\ stream \in Seq(Items)
      /\ spoken \in Seq(Items) /\ seen \in Seq(Items)
  BY DEF StreamTypes
<1>2. /\ DraftsIn(<< >>) = {} /\ ChartsIn(<< >>) = {} /\ << >> \in Seq(Items)
      /\ \A s, t \in Seq(Items) : /\ DraftsIn(s \o t) = DraftsIn(s) \cup DraftsIn(t)
                                  /\ ChartsIn(s \o t) = ChartsIn(s) \cup ChartsIn(t)
      /\ \A s \in Seq(Items) : /\ ~HasKind(s, {"draft"}) => DraftsIn(s) = {}
                               /\ ~HasKind(s, {"chart"}) => ChartsIn(s) = {}
  BY ChartLaws, NoneLaws
<1>24. ASSUME NEW s \in Seq(Items), NEW t \in Seq(Items)
       PROVE  /\ DraftsIn(s \o t) = DraftsIn(s) \cup DraftsIn(t)
              /\ ChartsIn(s \o t) = ChartsIn(s) \cup ChartsIn(t)
  BY ChartLaws
<1>25. ASSUME NEW s \in Seq(Items), NEW t \in Seq(Items), ~HasKind(t, {"draft"})
       PROVE  DraftsIn(s \o t) = DraftsIn(s)
  <2>1. DraftsIn(t) = {}
    BY <1>25, <1>2
  <2>2. DraftsIn(s \o t) = DraftsIn(s) \cup DraftsIn(t)
    BY <1>24
  <2> QED
    BY <2>1, <2>2
<1>3. ASSUME NEW x \in Items
      PROVE  /\ << x >> \in Seq(Items)
             /\ DraftsIn(<< x >>) = IF x.kind = "draft" THEN {x.name} ELSE {}
             /\ ChartsIn(<< x >>) = IF x.kind = "chart" THEN {x.name} ELSE {}
             /\ \A s \in Seq(Items) : /\ Append(s, x) = s \o << x >>
                                      /\ DraftsIn(Append(s, x)) = DraftsIn(s) \cup DraftsIn(<< x >>)
                                      /\ ChartsIn(Append(s, x)) = ChartsIn(s) \cup ChartsIn(<< x >>)
  <2>1. << x >> \in Seq(Items) /\ \A s \in Seq(Items) : Append(s, x) = s \o << x >>
    OBVIOUS
  <2>2. ASSUME NEW s \in Seq(Items)
        PROVE  /\ DraftsIn(Append(s, x)) = DraftsIn(s) \cup DraftsIn(<< x >>)
               /\ ChartsIn(Append(s, x)) = ChartsIn(s) \cup ChartsIn(<< x >>)
    <3> DEFINE o == << x >>
    <3>1. o \in Seq(Items) /\ Append(s, x) = s \o o
      BY <2>1
    <3> HIDE DEF o
    <3>2. DraftsIn(s \o o) = DraftsIn(s) \cup DraftsIn(o) /\ ChartsIn(s \o o) = ChartsIn(s) \cup ChartsIn(o)
      BY <3>1, <1>24
    <3> QED
      BY <3>1, <3>2 DEF o
  <2> QED
    BY <2>1, <2>2, ChartLaws
<1>4. ASSUME NEW s \in Seq(Items), s # << >>
      PROVE  /\ Head(s) \in Items /\ Tail(s) \in Seq(Items)
             /\ DraftsIn(s) = DraftsIn(<< Head(s) >>) \cup DraftsIn(Tail(s))
             /\ ChartsIn(s) = ChartsIn(<< Head(s) >>) \cup ChartsIn(Tail(s))
             /\ EndsLast(s) /\ Head(s).kind \in {"last", "error"} => DraftsIn(s) = {}
  <2>1. Head(s) \in Items /\ Tail(s) \in Seq(Items) /\ << Head(s) >> \in Seq(Items) /\ s = << Head(s) >> \o Tail(s)
    BY <1>4, HeadLaws, OneLaws
  <2>2. /\ DraftsIn(s) = DraftsIn(<< Head(s) >>) \cup DraftsIn(Tail(s))
        /\ ChartsIn(s) = ChartsIn(<< Head(s) >>) \cup ChartsIn(Tail(s))
    <3> DEFINE o == << Head(s) >>
               t == Tail(s)
    <3>1. o \in Seq(Items) /\ t \in Seq(Items) /\ s = o \o t
      BY <2>1
    <3> HIDE DEF o, t
    <3>2. DraftsIn(o \o t) = DraftsIn(o) \cup DraftsIn(t) /\ ChartsIn(o \o t) = ChartsIn(o) \cup ChartsIn(t)
      BY <3>1, <1>24
    <3> QED
      BY <3>1, <3>2 DEF o, t
  <2>3. ASSUME EndsLast(s), Head(s).kind \in {"last", "error"} PROVE DraftsIn(s) = {}
    <3>1. AllOf(Tail(s), {"last", "status"})
      BY <2>3, <1>4, HeadLaws DEF Ends
    <3>2. ~HasKind(Tail(s), {"draft"})
      BY <3>1 DEF AllOf, HasKind
    <3> QED
      BY <2>1, <2>2, <2>3, <3>2, <1>2, <1>3
  <2> QED
    BY <2>1, <2>2, <2>3
<1>5. CASE UNCHANGED <<phase, todo, queue, stream, seen, log, spoken, emitted>>
  BY <1>5 DEF ChartOrder, Answered
<1>6. CASE UNCHANGED streamVars
  BY <1>6, <1>5 DEF streamVars, queues, turnOf
<1> SUFFICES ASSUME StreamNext
             PROVE  ChartOrder'
  BY <1>6
<1>7. /\ phase' = "loop" => phase = "loop"
      /\ live' => live
      /\ phase' = "tail" => phase = "tail" \/ TakesLast
      /\ agent = "running" /\ live => phase = "loop"
  <2>1. /\ phase' = "loop" => phase = "loop"
        /\ phase' = "tail" => phase = "tail" \/ TakesLast
        /\ Answered' => Answered \/ (phase = "tail" /\ Appends)
    BY PhaseSteps
  <2>2. TakesLast => phase = "loop"
    BY DEF TakesLast
  <2> QED
    BY <2>1, <2>2 DEF TaskOrder
\* Only the feeds grow, and no chart is among what they get.
<1>8. ASSUME NEW more \in Seq(Items), NEW beats \in Seq(Items), ~HasKind(more, {"draft"}), ~HasKind(beats, {"draft"}),
             queue' = queue \o more, stream' = stream \o beats, UNCHANGED <<phase, todo, seen, log, spoken, emitted>>
      PROVE  ChartOrder'
  <2>1. DraftsIn(queue \o more) = DraftsIn(queue) /\ DraftsIn(stream \o beats) = DraftsIn(stream)
    BY <1>8, <1>1, <1>25
  <2>2. DraftsIn(queue') = DraftsIn(queue) /\ DraftsIn(stream') = DraftsIn(stream)
    BY <2>1, <1>8
  <2> QED
    BY <2>2, <1>8 DEF ChartOrder, Answered
\* The turn gives up.
<1>9. ASSUME ~live', UNCHANGED <<queue, stream, seen, log, spoken, emitted>> \/
                     (queue # << >> /\ queue' = Tail(queue) /\ UNCHANGED <<stream, seen, log, spoken, emitted>>),
             \/ todo' = << >>
             \/ \E why \in Names : Failing(why)
      PROVE  ChartOrder'
  <2>1. DraftsIn(todo') = {} /\ ChartsIn(todo') = {} /\ (todo' # << >> => ChartsIn(Tail(todo')) = {})
    <3>1. CASE todo' = << >>
      BY <3>1, <1>2
    <3>2. ASSUME NEW why \in Names, Failing(why)
          PROVE  DraftsIn(todo') = {} /\ ChartsIn(todo') = {} /\ (todo' # << >> => ChartsIn(Tail(todo')) = {})
      <4>1. todo' \in Seq(Items) /\ AllOf(todo', {"error", "done"})
        BY <3>2, FailingLaws
      <4>2. ~HasKind(todo', {"draft"}) /\ ~HasKind(todo', {"chart"})
        BY <4>1 DEF AllOf, HasKind
      <4>3. DraftsIn(todo') = {} /\ ChartsIn(todo') = {}
        BY <4>1, <4>2, <1>2
      <4>4. todo' # << >> => ChartsIn(Tail(todo')) \subseteq ChartsIn(todo')
        BY <4>1, <1>4
      <4> QED
        BY <4>3, <4>4
    <3> QED
      BY <3>1, <3>2, <1>9
  <2>2. DraftsIn(queue') \subseteq DraftsIn(queue)
    BY <1>1, <1>4, <1>9
  <2> QED
    BY <2>1, <2>2, <1>9 DEF ChartOrder
<1>10. CASE Speaks
  <2>1. PICK x \in Items : Publishes(x)
    BY <1>10, SpeaksAnItem
  <2> DEFINE o == << x >>
  <2>2. /\ o \in Seq(Items) /\ Feeds(o) /\ spoken' = spoken \o o /\ agent = "running"
        /\ UNCHANGED <<phase, todo, seen, log, emitted>>
    BY <2>1, <1>1, <1>3 DEF Publishes, turnOf
  <2> HIDE DEF o
  <2>3. DraftsIn(spoken') = DraftsIn(spoken) \cup DraftsIn(o)
    BY <2>2, <1>1, <1>2
  <2>4. DraftsIn(queue') \cup DraftsIn(stream') = DraftsIn(queue) \cup DraftsIn(stream) \cup DraftsIn(o)
    <3>1. CASE route = "satellite"
      <4>1. stream' = stream \o o /\ queue' = queue
        BY <2>2, <3>1, FeedsLaws
      <4>2. DraftsIn(stream \o o) = DraftsIn(stream) \cup DraftsIn(o)
        BY <2>2, <1>1, <1>2
      <4> QED
        BY <4>1, <4>2
    <3>2. CASE route # "satellite"
      <4>1. queue' = queue \o o /\ stream' = stream
        BY <2>2, <3>2, FeedsLaws
      <4>2. DraftsIn(queue \o o) = DraftsIn(queue) \cup DraftsIn(o)
        BY <2>2, <1>1, <1>2
      <4> QED
        BY <4>1, <4>2
    <3> QED
      BY <3>1, <3>2
  <2> QED
    BY <2>2, <2>3, <2>4, <1>7 DEF ChartOrder, Answered
<1>11. CASE AgentEnds
  <2>1. PICK items \in Seq(Items) : Feeds(items) /\ AllOf(items, {"error", "last"})
    BY <1>11, AgentsEnd
  <2>2. ~HasKind(items, {"draft"}) /\ ~HasKind(<< >>, {"draft"}) /\ << >> \in Seq(Items)
    BY <2>1, NoneLaws DEF AllOf, HasKind
  <2>3. queue = queue \o << >> /\ stream = stream \o << >>
    BY <1>1, NoneLaws
  <2>4. UNCHANGED <<phase, todo, seen, log, spoken, emitted>>
    BY <1>11 DEF AgentEnds, turnOf
  <2>5. \/ stream' = stream \o items /\ queue' = queue \o << >>
        \/ stream' = stream \o << >> /\ queue' = queue \o items
    BY <2>1, <2>3, FeedsLaws
  <2> QED
    BY <2>2, <2>4, <2>5, <1>8
<1>12. CASE RunnerForwards
  <2> DEFINE x == Head(stream)
             o == << x >>
  <2>1. /\ stream # << >> /\ stream' = Tail(stream) /\ queue' = Append(queue, x)
        /\ UNCHANGED <<phase, todo, log, spoken, emitted>>
        /\ seen' = IF x.kind = "draft" THEN Append(seen, x) ELSE seen
    BY <1>12 DEF RunnerForwards, turnOf
  <2>2. x \in Items /\ DraftsIn(stream) = DraftsIn(o) \cup DraftsIn(stream')
    BY <2>1, <1>1, <1>4
  <2>3. DraftsIn(queue') = DraftsIn(queue) \cup DraftsIn(o) /\ DraftsIn(seen') \subseteq DraftsIn(seen) \cup DraftsIn(o)
    BY <2>1, <2>2, <1>1, <1>3
  <2> HIDE DEF o, x
  <2> QED
    BY <2>1, <2>2, <2>3 DEF ChartOrder, Answered
<1>13. CASE RunnerFinishes \/ RunnerReturns
  <2>1. PICK items \in Seq(Items) : queue' = queue \o items /\ AllOf(items, Ends)
    BY <1>13, RunnersEnd
  <2>2. ~HasKind(items, {"draft"})
    BY <2>1 DEF AllOf, HasKind, Ends
  <2>3. DraftsIn(queue \o items) = DraftsIn(queue)
    BY <2>2, <1>1, <1>25
  <2>4. DraftsIn(stream') = DraftsIn(stream)
    <3>1. CASE RunnerFinishes
      <4>1. stream # << >> /\ Head(stream).kind \in {"last", "error"} /\ stream' = << >>
        BY <3>1 DEF RunnerFinishes
      <4> QED
        BY <4>1, <1>1, <1>2, <1>4 DEF FeedOrder
    <3>2. CASE RunnerReturns
      BY <3>2 DEF RunnerReturns
    <3> QED
      BY <1>13, <3>1, <3>2
  <2>5. UNCHANGED <<phase, todo, seen, log, spoken, emitted>>
    BY <1>13 DEF RunnerFinishes, RunnerReturns, turnOf
  <2> QED
    BY <2>1, <2>3, <2>4, <2>5 DEF ChartOrder, Answered
<1>14. CASE TakesNews
  <2> DEFINE x == Head(queue)
             o == << x >>
  <2>1. /\ phase = "loop" /\ todo = << >> /\ queue # << >> /\ queue' = Tail(queue) /\ x.kind \in {"status", "job", "draft", "text"}
        /\ todo' = o \/ (todo' = << >> /\ x.kind = "text")
        /\ UNCHANGED <<phase, stream, seen, log, spoken, emitted>>
    BY <1>14 DEF TakesNews
  <2>2. x \in Items /\ DraftsIn(queue) = DraftsIn(o) \cup DraftsIn(queue')
    BY <2>1, <1>1, <1>4
  <2>3. DraftsIn(todo') = DraftsIn(o) /\ ChartsIn(todo') = {} /\ (todo' # << >> => ChartsIn(Tail(todo')) = {})
    <3>1. ChartsIn(o) = {} /\ (x.kind = "text" => DraftsIn(o) = {}) /\ Tail(o) = << >>
      <4>1. Tail(o) = << >>
        <5> HIDE DEF x
        <5> QED
          BY <2>2
      <4>2. ChartsIn(o) = {} /\ (x.kind = "text" => DraftsIn(o) = {})
        BY <2>1, <2>2, <1>3
      <4> QED
        BY <4>1, <4>2
    <3> QED
      BY <2>1, <3>1, <1>2
  <2>4. DraftsIn(todo) = {} /\ ChartsIn(todo) = {}
    BY <2>1, <1>2
  <2> HIDE DEF o, x
  <2> QED
    BY <2>1, <2>2, <2>3, <2>4 DEF ChartOrder, Answered
<1>15. CASE TakesResult
  <2>1. /\ queue # << >> /\ queue' = Tail(queue) /\ Head(queue).kind = "result"
        /\ UNCHANGED <<phase, todo, stream, seen, log, spoken, emitted>>
    BY <1>15 DEF TakesResult
  <2>2. DraftsIn(queue') = DraftsIn(queue)
    <3>1. Head(queue) \in Items /\ DraftsIn(queue) = DraftsIn(<< Head(queue) >>) \cup DraftsIn(Tail(queue))
      BY <2>1, <1>1, <1>4
    <3>2. DraftsIn(<< Head(queue) >>) = {}
      BY <2>1, <3>1, <1>3
    <3> QED
      BY <2>1, <3>1, <3>2
  <2> QED
    BY <2>1, <2>2 DEF ChartOrder, Answered
<1>16. CASE TakesError
  <2>1. /\ queue # << >> /\ queue' = Tail(queue) /\ Failing(Head(queue).name) /\ UNCHANGED <<stream, seen, log, spoken, emitted>>
        /\ phase' = "failing"
    BY <1>16 DEF TakesError, Failing
  <2>2. Head(queue).name \in Names
    BY <2>1, <1>1, <1>4, ItemLaws
  <2> QED
    BY <2>1, <2>2, <1>9 DEF Answered
<1>17. CASE TakesLast
  <2> DEFINE d == Plain("done")
             x == Plain("text")
             y == Plain("back")
             rest == << d >>
             closing == << x, y >>
             front == IF Fast THEN seen \o closing ELSE << >>
  <2>1. /\ phase = "loop" /\ todo = << >> /\ queue # << >> /\ Head(queue).kind = "last" /\ queue' = Tail(queue)
        /\ todo' = front \o rest /\ phase' = "tail" /\ UNCHANGED <<stream, seen, log, spoken, emitted>>
    BY <1>17 DEF TakesLast
  <2>2. /\ d \in Items /\ d.kind = "done" /\ x \in Items /\ x.kind = "text" /\ y \in Items /\ y.kind = "back"
    BY ItemLaws
  <2> HIDE DEF d, x, y
  <2>3. /\ rest \in Seq(Items) /\ ~HasKind(rest, {"draft"}) /\ ~HasKind(rest, {"chart"})
        /\ closing \in Seq(Items) /\ ~HasKind(closing, {"draft"}) /\ ~HasKind(closing, {"chart"})
    <3>1. rest \in Seq(Items) /\ ~HasKind(rest, {"draft"}) /\ ~HasKind(rest, {"chart"})
      BY <2>2, OneLaws
    <3>2. closing \in Seq(Items) /\ Len(closing) = 2
      BY <2>2
    <3>3. closing[1] = x /\ closing[2] = y /\ \A i \in 1 .. 2 : i = 1 \/ i = 2
      OBVIOUS
    <3> HIDE DEF closing
    <3>4. ~HasKind(closing, {"draft"}) /\ ~HasKind(closing, {"chart"})
      BY <2>2, <3>2, <3>3 DEF HasKind
    <3> QED
      BY <3>1, <3>2, <3>4
  <2> HIDE DEF rest, closing
  <2>4. ~HasKind(seen, {"chart"})
    BY DEF FeedOrder, AllOf, HasKind
  <2>5. front \in Seq(Items) /\ DraftsIn(front) \subseteq DraftsIn(seen) /\ ChartsIn(front) = {}
    <3>1. DraftsIn(seen \o closing) = DraftsIn(seen) /\ ChartsIn(seen \o closing) = {} /\ seen \o closing \in Seq(Items)
      <4>1. DraftsIn(closing) = {} /\ ChartsIn(closing) = {} /\ ChartsIn(seen) = {}
        BY <2>3, <2>4, <1>1, <1>2
      <4>2. DraftsIn(seen \o closing) = DraftsIn(seen) \cup DraftsIn(closing) /\ ChartsIn(seen \o closing) = ChartsIn(seen) \cup ChartsIn(closing)
        BY <2>3, <1>1, <1>2
      <4> QED
        BY <4>1, <4>2, <2>3, <1>1, ConcatProperties
    <3> QED
      BY <3>1, <1>2
  <2> HIDE DEF front
  <2>6. DraftsIn(todo') \subseteq DraftsIn(seen) /\ ChartsIn(todo') = {} /\ todo' \in Seq(Items)
    <3>1. DraftsIn(front \o rest) = DraftsIn(front) \cup DraftsIn(rest) /\ ChartsIn(front \o rest) = ChartsIn(front) \cup ChartsIn(rest)
      BY <2>3, <2>5, <1>2
    <3>2. DraftsIn(rest) = {} /\ ChartsIn(rest) = {}
      BY <2>3, <1>2
    <3> QED
      BY <2>1, <2>3, <2>5, <3>1, <3>2, ConcatProperties
  <2>7. todo' # << >> => ChartsIn(Tail(todo')) = {}
    BY <2>6, <1>4
  <2>8. DraftsIn(queue) = {} /\ DraftsIn(stream) = {} /\ DraftsIn(queue') = {}
    <3>1. DraftsIn(queue) = {} /\ DraftsIn(queue') \subseteq DraftsIn(queue)
      BY <2>1, <1>1, <1>4 DEF FeedOrder
    <3>2. HasKind(queue, Ends)
      <4>1. "last" \in Ends
        BY DEF Ends
      <4>2. \A kinds : HasKind(queue, kinds) <=> Head(queue).kind \in kinds \/ HasKind(Tail(queue), kinds)
        BY <2>1, <1>1, HeadLaws
      <4> QED
        BY <2>1, <4>1, <4>2
    <3>3. stream = << >>
      BY <2>1, <3>2 DEF TaskOrder, Fast, StreamTypes
    <3> QED
      BY <3>1, <3>3, <1>2
  <2>9. DraftsIn(todo) = {} /\ ChartsIn(todo) = {}
    BY <2>1, <1>2
  <2> QED
    BY <2>1, <2>6, <2>7, <2>8, <2>9 DEF ChartOrder
<1>18. CASE Stores
  <2> DEFINE x == Head(todo)
             c == x.name
             y == Item("chart", c, "none")
             o == << y >>
             rest == Tail(todo)
  <2>1. /\ todo # << >> /\ x.kind = "draft" /\ todo' = (IF c \in emitted THEN << >> ELSE o) \o rest
        /\ emitted' = emitted \cup {c} /\ UNCHANGED <<phase, queue, stream, seen, log, spoken>>
    BY <1>18 DEF Stores, Doing, queues
  <2>2. /\ x \in Items /\ rest \in Seq(Items) /\ c \in Charts
        /\ DraftsIn(todo) = {c} \cup DraftsIn(rest) /\ ChartsIn(todo) = ChartsIn(rest)
    <3>1. /\ x \in Items /\ rest \in Seq(Items) /\ DraftsIn(todo) = DraftsIn(<< x >>) \cup DraftsIn(rest)
          /\ ChartsIn(todo) = ChartsIn(<< x >>) \cup ChartsIn(rest)
      BY <2>1, <1>1, <1>4
    <3>2. DraftsIn(<< x >>) = {c} /\ ChartsIn(<< x >>) = {}
      BY <2>1, <3>1, <1>3
    <3>3. c \in Charts
      BY <2>1, <3>1, ItemLaws
    <3> QED
      BY <3>1, <3>2, <3>3
  <2>3. y \in Items /\ y.kind = "chart" /\ y.name = c
    BY <2>2, ItemLaws
  <2>4. ChartsIn(rest) = {}
    BY <2>1 DEF ChartOrder
  <2>5. rest # << >> => ChartsIn(Tail(rest)) = {}
    BY <2>2, <2>4, <1>4
  <2> HIDE DEF y
  <2>6. o \in Seq(Items) /\ DraftsIn(o) = {} /\ ChartsIn(o) = {c}
    BY <2>3, <1>3
  <2>7. Tail(o \o rest) = rest
    <3>1. Head(o \o rest) = y /\ Tail(o \o rest) = rest
      BY <2>2, <2>3
    <3> QED
      BY <3>1
  <2> HIDE DEF x, c, o, rest
  <2>8. DraftsIn(o \o rest) = DraftsIn(rest) /\ ChartsIn(o \o rest) = {c}
    <3>1. DraftsIn(o \o rest) = DraftsIn(o) \cup DraftsIn(rest) /\ ChartsIn(o \o rest) = ChartsIn(o) \cup ChartsIn(rest)
      BY <2>2, <2>6, <1>24
    <3> QED
      BY <2>4, <2>6, <3>1
  <2>9. << >> \o rest = rest
    BY <2>2, NoneLaws
  <2>10. CASE c \in emitted
    <3>1. todo' = rest /\ emitted' = emitted
      BY <2>1, <2>9, <2>10
    <3> QED
      BY <2>1, <2>2, <2>4, <2>5, <2>10, <3>1 DEF ChartOrder, Answered
  <2>11. CASE c \notin emitted
    <3>1. todo' = o \o rest
      BY <2>1, <2>11
    <3>2. DraftsIn(todo') = DraftsIn(rest) /\ ChartsIn(todo') = {c} /\ Tail(todo') = rest
      BY <3>1, <2>7, <2>8
    <3> QED
      BY <2>1, <2>2, <2>4, <2>11, <3>2 DEF ChartOrder, Answered
  <2> QED
    BY <2>10, <2>11
<1>19. CASE WritesBack
  <2>1. /\ todo # << >> /\ Head(todo).kind = "back" /\ todo' = Tail(todo)
        /\ UNCHANGED <<phase, queue, stream, seen, log, spoken, emitted>>
    BY <1>19 DEF WritesBack, Doing, queues
  <2>2. DraftsIn(todo') = DraftsIn(todo) /\ ChartsIn(todo') = ChartsIn(todo) /\ todo' \in Seq(Items)
    <3>1. /\ Head(todo) \in Items /\ Tail(todo) \in Seq(Items)
          /\ DraftsIn(todo) = DraftsIn(<< Head(todo) >>) \cup DraftsIn(Tail(todo))
          /\ ChartsIn(todo) = ChartsIn(<< Head(todo) >>) \cup ChartsIn(Tail(todo))
      BY <2>1, <1>1, <1>4
    <3>2. DraftsIn(<< Head(todo) >>) = {} /\ ChartsIn(<< Head(todo) >>) = {}
      BY <2>1, <3>1, <1>3
    <3> QED
      BY <2>1, <3>1, <3>2
  <2>3. ChartsIn(todo') = {}
    BY <2>1 DEF ChartOrder
  <2>4. todo' # << >> => ChartsIn(Tail(todo')) = {}
    BY <2>2, <2>3, <1>4
  <2> QED
    BY <2>1, <2>2, <2>3, <2>4 DEF ChartOrder, Answered
<1>20. CASE Appends
  <2> DEFINE x == Head(todo)
             o == << x >>
  <2>1. /\ todo # << >> /\ x.kind \in Frames /\ todo' = Tail(todo) /\ log' = Append(log, x)
        /\ UNCHANGED <<queue, stream, seen, spoken, emitted>>
        /\ phase = "loop" => phase' = "loop"
    BY <1>20 DEF Appends, queues
  <2>2. /\ x \in Items /\ todo' \in Seq(Items) /\ ChartsIn(todo) = ChartsIn(o) \cup ChartsIn(todo')
        /\ DraftsIn(todo') = DraftsIn(todo) /\ ChartsIn(log') = ChartsIn(log) \cup ChartsIn(o)
    <3>1. x \in Items /\ todo' \in Seq(Items) /\ ChartsIn(todo) = ChartsIn(o) \cup ChartsIn(todo')
          /\ DraftsIn(todo) = DraftsIn(o) \cup DraftsIn(todo')
      BY <2>1, <1>1, <1>4
    <3>2. DraftsIn(o) = {}
      BY <2>1, <3>1, <1>3 DEF Frames
    <3> QED
      BY <2>1, <3>1, <3>2, <1>1, <1>3
  <2>3. ChartsIn(todo') = {}
    BY <2>1 DEF ChartOrder
  <2>4. todo' # << >> => ChartsIn(Tail(todo')) = {}
    <3> DEFINE t == todo'
    <3>1. t \in Seq(Items) /\ ChartsIn(t) = {}
      BY <2>2, <2>3
    <3> HIDE DEF t
    <3>2. t # << >> => ChartsIn(t) = ChartsIn(<< Head(t) >>) \cup ChartsIn(Tail(t))
      BY <3>1, <1>4
    <3>3. t # << >> => ChartsIn(Tail(t)) = {}
      BY <3>1, <3>2
    <3> QED
      BY <3>3 DEF t
  <2>5. x.kind # "chart" \/ x \notin ToSet(log)
    <3>1. x.kind = "chart" => x.name \in ChartsIn(o)
      BY <2>2, <1>3
    <3>2. x.kind = "chart" /\ x \in ToSet(log) => x.name \in ChartsIn(log)
      BY <2>2, <1>1, ChartLaws
    <3> QED
      BY <3>1, <3>2, <2>2 DEF ChartOrder
  <2>6. Once(log', "chart")
    <3>1. Once(log, "chart")
      BY DEF ChartOrder
    <3> QED
      BY <2>1, <2>2, <2>5, <3>1, <1>1, OnceLaws
  <2>7. live' => live /\ (phase' = "loop" <=> phase = "loop")
    BY <2>1, <1>7
  <2> HIDE DEF o, x
  <2> QED
    BY <2>1, <2>2, <2>3, <2>4, <2>6, <2>7 DEF ChartOrder
<1>21. CASE DeadlineFires \/ StoreFails \/ Cancelled
  <2>1. UNCHANGED <<queue, stream, seen, log, spoken, emitted>>
    BY <1>21 DEF DeadlineFires, StoreFails, Cancelled, queues
  <2>2. phase' \in {"failing", "dead", "stopped"} /\ (todo' = << >> \/ \E why \in Names : Failing(why))
    BY <1>21 DEF DeadlineFires, StoreFails, Cancelled, Failing, Names
  <2> QED
    BY <2>1, <2>2, <1>9 DEF Answered
<1>22. CASE Collects
  BY <1>22, <1>5 DEF Collects, queues, turnOf
<1>23. CASE Ticks
  <2>1. PICK ofQueue, ofStream \in Seq(Items) :
              /\ queue' = queue \o ofQueue /\ stream' = stream \o ofStream
              /\ AllOf(ofQueue, {"status"}) /\ AllOf(ofStream, {"status"})
    BY <1>23, TicksBeats
  <2>2. ~HasKind(ofQueue, {"draft"}) /\ ~HasKind(ofStream, {"draft"})
    BY <2>1 DEF AllOf, HasKind
  <2>3. UNCHANGED <<phase, todo, seen, log, spoken, emitted>>
    BY <1>23 DEF Ticks, turnOf
  <2> QED
    BY <2>1, <2>2, <2>3, <1>8
<1> QED
  BY <1>10, <1>11, <1>12, <1>13, <1>14, <1>15, <1>16, <1>17, <1>18, <1>19, <1>20, <1>21, <1>22, <1>23
     DEF StreamNext, TurnMoves, RunnerMoves

-----------------------------------------------------------------------------
(* The supervisor's agent draws each chart once. *)

LEMMA DraftOrderKeep ==
    StreamTypes /\ TaskOrder /\ FeedOrder /\ EndingOrder /\ ChartOrder /\ DraftOrder /\ [StreamNext]_streamVars
        => DraftOrder'
<1> SUFFICES ASSUME StreamTypes, TaskOrder, FeedOrder, EndingOrder, ChartOrder, DraftOrder, [StreamNext]_streamVars,
                    route' = "supervisor", phase' = "loop"
             PROVE  /\ emitted' \cap (DraftsIn(todo') \cup DraftsIn(queue')) = {}
                    /\ DraftsIn(todo') \cap DraftsIn(queue') = {}
                    /\ Once(queue', "draft")
  BY DEF DraftOrder
<1>1. /\ todo \in Seq(Items) /\ queue \in Seq(Items)
      /\ UNCHANGED route /\ phase = "loop" /\ route = "supervisor" /\ ~Fast
  <2>1. UNCHANGED route
    <3>1. CASE Speaks
      BY <3>1, SpeaksAnItem DEF Publishes
    <3>2. CASE ~Speaks
      BY <3>2 DEF streamVars, StreamNext, AgentEnds, RunnerMoves, RunnerForwards, RunnerFinishes, RunnerReturns, TurnMoves, TakesNews,
                  TakesResult, TakesError, TakesLast, Stores, WritesBack, Appends, DeadlineFires, StoreFails, Cancelled, Collects, Ticks
    <3> QED
      BY <3>1, <3>2
  <2>2. phase = "loop"
    <3>1. CASE UNCHANGED streamVars
      BY <3>1 DEF streamVars, turnOf
    <3>2. CASE StreamNext
      BY <3>2, PhaseSteps
    <3> QED
      BY <3>1, <3>2
  <2> QED
    BY <2>1, <2>2 DEF StreamTypes, Fast
<1>2. /\ emitted \cap (DraftsIn(todo) \cup DraftsIn(queue)) = {}
      /\ DraftsIn(todo) \cap DraftsIn(queue) = {} /\ Once(queue, "draft")
      /\ emitted \cup DraftsIn(todo) \cup DraftsIn(queue) \subseteq DraftsIn(spoken)
  BY <1>1 DEF DraftOrder, ChartOrder
<1>3. CASE UNCHANGED <<todo, queue, emitted>>
  BY <1>2, <1>3
<1>4. ASSUME NEW more \in Seq(Items), ~HasKind(more, {"draft"}), queue' = queue \o more, UNCHANGED <<todo, emitted>>
      PROVE  /\ emitted' \cap (DraftsIn(todo') \cup DraftsIn(queue')) = {}
             /\ DraftsIn(todo') \cap DraftsIn(queue') = {}
             /\ Once(queue', "draft")
  <2>1. DraftsIn(more) = {} /\ DraftsIn(queue \o more) = DraftsIn(queue) \cup DraftsIn(more)
    BY <1>1, <1>4, ChartLaws
  <2>2. Once(queue \o more, "draft")
    BY <1>1, <1>2, <1>4, OnceLaws
  <2> QED
    BY <1>2, <1>4, <2>1, <2>2
<1>5. queue # << >> => /\ Head(queue) \in Items /\ Tail(queue) \in Seq(Items)
                       /\ DraftsIn(queue) = DraftsIn(<< Head(queue) >>) \cup DraftsIn(Tail(queue))
                       /\ Once(Tail(queue), "draft")
                       /\ Head(queue).kind = "draft" => Head(queue).name \notin DraftsIn(Tail(queue))
  <2> HAVE queue # << >>
  <2> DEFINE x == Head(queue)
             o == << x >>
             t == Tail(queue)
  <2>1. x \in Items /\ t \in Seq(Items) /\ o \in Seq(Items) /\ queue = o \o t
    BY <1>1, HeadLaws, OneLaws
  <2>2. Once(t, "draft") /\ (x.kind = "draft" => x \notin ToSet(t))
    BY <1>1, <1>2, OnceLaws
  <2> HIDE DEF x, o, t
  <2>3. DraftsIn(o \o t) = DraftsIn(o) \cup DraftsIn(t)
    BY <2>1, ChartLaws
  <2>4. x.kind = "draft" => x.name \notin DraftsIn(t)
    BY <2>1, <2>2, ChartLaws
  <2> QED
    BY <2>1, <2>2, <2>3, <2>4 DEF x, o, t
<1>6. CASE Speaks
  <2>1. PICK x \in Items : Publishes(x) /\ (x.kind = "draft" => x \notin ToSet(spoken))
    BY <1>6, SpeaksAnItem
  <2> DEFINE o == << x >>
  <2>2. /\ o \in Seq(Items) /\ Feeds(o) /\ UNCHANGED <<todo, emitted>> /\ Append(queue, x) = queue \o o
    BY <2>1, <1>1 DEF Publishes, turnOf
  <2>3. queue' = Append(queue, x) /\ queue' = queue \o o
    BY <2>2, <1>1, FeedsLaws
  <2>4. DraftsIn(o) = IF x.kind = "draft" THEN {x.name} ELSE {}
    BY ChartLaws
  <2> HIDE DEF o
  <2>5. DraftsIn(queue \o o) = DraftsIn(queue) \cup DraftsIn(o)
    BY <2>2, <1>1, ChartLaws
  <2>6. x.kind = "draft" => x.name \notin DraftsIn(spoken)
    <3>1. spoken \in Seq(Items)
      BY DEF StreamTypes
    <3> QED
      BY <2>1, <3>1, ChartLaws
  <2>7. x.kind = "draft" => x \notin ToSet(queue)
    <3>1. x.kind = "draft" => (x \in ToSet(queue) <=> x.name \in DraftsIn(queue))
      BY <1>1, ChartLaws
    <3> QED
      BY <3>1, <2>6, <1>2
  <2>8. Once(Append(queue, x), "draft")
    BY <2>7, <1>1, <1>2, OnceLaws
  <2> QED
    BY <1>2, <2>2, <2>3, <2>4, <2>5, <2>6, <2>8
<1>7. CASE AgentEnds
  <2>1. PICK items \in Seq(Items) : Feeds(items) /\ AllOf(items, {"error", "last"})
    BY <1>7, AgentsEnd
  <2>2. ~HasKind(items, {"draft"}) /\ queue' = queue \o items
    BY <2>1, <1>1, FeedsLaws DEF AllOf, HasKind
  <2>3. UNCHANGED <<todo, emitted>>
    BY <1>7 DEF AgentEnds, turnOf
  <2> QED
    BY <2>2, <2>3, <1>4
<1>8. CASE RunnerForwards \/ RunnerFinishes \/ RunnerReturns
  <2>1. runner = "none"
    BY <1>1 DEF TaskOrder
  <2> QED
    BY <2>1, <1>8 DEF RunnerForwards, RunnerFinishes, RunnerReturns
<1>9. CASE TakesNews
  <2> DEFINE x == Head(queue)
             o == << x >>
  <2>1. /\ queue # << >> /\ queue' = Tail(queue) /\ todo' = o /\ UNCHANGED emitted
    BY <1>1, <1>9 DEF TakesNews
  <2>2. DraftsIn(o) = IF x.kind = "draft" THEN {x.name} ELSE {}
    BY <2>1, <1>5, ChartLaws
  <2>3. /\ DraftsIn(queue) = DraftsIn(o) \cup DraftsIn(queue') /\ Once(queue', "draft")
        /\ x.kind = "draft" => x.name \notin DraftsIn(queue')
    BY <2>1, <1>5
  <2> HIDE DEF o, x
  <2> QED
    BY <2>1, <2>2, <2>3, <1>2
<1>10. CASE TakesResult
  <2>1. queue # << >> /\ queue' = Tail(queue) /\ UNCHANGED <<todo, emitted>>
    BY <1>10 DEF TakesResult
  <2> QED
    BY <2>1, <1>2, <1>5
<1>11. CASE Stores
  <2> DEFINE x == Head(todo)
             c == x.name
             y == Item("chart", c, "none")
             front == IF c \in emitted THEN << >> ELSE << y >>
  <2>1. /\ todo # << >> /\ x.kind = "draft" /\ todo' = front \o Tail(todo)
        /\ emitted' = emitted \cup {c} /\ UNCHANGED queue
    BY <1>11 DEF Stores, Doing, queues
  <2>2. x \in Items /\ Tail(todo) = << >>
    <3>1. x \in Items /\ Tail(todo) \in Seq(Items) /\ Len(Tail(todo)) = Len(todo) - 1 /\ Len(todo) \in Nat
      BY <2>1, <1>1
    <3>2. Len(todo) <= 1
      BY <1>1 DEF EndingOrder
    <3> DEFINE n == Len(todo)
               u == Tail(todo)
    <3>3. u \in Seq(Items) /\ Len(u) = n - 1 /\ n \in Nat /\ n <= 1
      BY <3>1, <3>2
    <3> HIDE DEF n, u
    <3>4. u = << >>
      BY <3>3
    <3> QED
      BY <3>1, <3>4 DEF u
  <2>3. c \in Charts /\ y \in Items /\ y.kind = "chart"
    <3>1. c \in Charts
      BY <2>1, <2>2, ItemLaws
    <3> QED
      BY <3>1, ItemLaws
  <2>4. c \in DraftsIn(todo)
    <3>1. x \in ToSet(todo)
      BY <1>1, <2>1, HeadLaws
    <3> QED
      BY <3>1, <2>1, <2>2, <1>1, ChartLaws
  <2> HIDE DEF y
  <2>5. front \in Seq(Items) /\ DraftsIn(front) = {}
    <3>1. << y >> \in Seq(Items) /\ DraftsIn(<< y >>) = {}
      BY <2>3, OneLaws, ChartLaws
    <3>2. << >> \in Seq(Items) /\ DraftsIn(<< >>) = {}
      BY NoneLaws, ChartLaws
    <3> QED
      BY <3>1, <3>2
  <2> HIDE DEF front, c, x
  <2>6. todo' = front
    BY <2>1, <2>2, <2>5, NoneLaws
  <2> QED
    BY <2>1, <2>4, <2>5, <2>6, <1>2
<1>12. CASE WritesBack
  <2>1. todo # << >> /\ Head(todo).kind = "back"
    BY <1>12 DEF WritesBack, Doing
  <2>2. Head(todo).kind \in {"status", "job", "draft", "chart", "text"}
    BY <2>1, <1>1, HeadLaws DEF EndingOrder
  <2> QED
    BY <2>1, <2>2
<1>13. CASE Appends
  <2>1. todo # << >> /\ todo' = Tail(todo) /\ UNCHANGED <<queue, emitted>>
    BY <1>13 DEF Appends, queues
  <2> DEFINE o == << Head(todo) >>
             t == Tail(todo)
  <2>2. o \in Seq(Items) /\ t \in Seq(Items) /\ todo = o \o t
    BY <2>1, <1>1, HeadLaws, OneLaws
  <2> HIDE DEF o, t
  <2>3. DraftsIn(o \o t) = DraftsIn(o) \cup DraftsIn(t)
    BY <2>2, ChartLaws
  <2> QED
    BY <2>1, <2>2, <2>3, <1>2 DEF t
<1>14. CASE TakesError \/ TakesLast \/ DeadlineFires \/ Cancelled
  BY <1>1, <1>14 DEF TakesError, TakesLast, DeadlineFires, Cancelled, Failing
<1>15. CASE StoreFails
  BY <1>1, <1>15 DEF StoreFails, Failing
<1>16. CASE Ticks
  <2>1. PICK ofQueue, ofStream \in Seq(Items) : queue' = queue \o ofQueue /\ AllOf(ofQueue, {"status"})
    BY <1>16, TicksBeats
  <2>2. ~HasKind(ofQueue, {"draft"}) /\ UNCHANGED <<todo, emitted>>
    BY <2>1, <1>16 DEF AllOf, HasKind, Ticks, turnOf
  <2> QED
    BY <2>1, <2>2, <1>4
<1>17. CASE Collects \/ UNCHANGED streamVars
  BY <1>17, <1>3 DEF Collects, streamVars, queues, turnOf
<1> QED
  BY <1>6, <1>7, <1>8, <1>9, <1>10, <1>11, <1>12, <1>13, <1>14, <1>15, <1>16, <1>17 DEF StreamNext, TurnMoves, RunnerMoves

-----------------------------------------------------------------------------
(* What the client was told of the jobs. *)

\* While the turn may still answer, its timeout has not been said.
LEMMA NotLateYet ==
    ASSUME NEW l \in Seq(Items), NEW t \in Seq(Items), ~HasKind(l, {"error", "done"}),
           AllOf(t, {"status", "job", "draft", "chart", "text"}) \/ ToTheEnd(t)
    PROVE  Late \notin ToSet(l) \cup ToSet(t)
<1>1. Late.kind = "error"
  BY ItemLaws
<1>2. ~HasKind(t, {"error"})
  <2>1. CASE AllOf(t, {"status", "job", "draft", "chart", "text"})
    BY <2>1 DEF AllOf, HasKind
  <2>2. CASE ToTheEnd(t)
    <3>1. \A i \in 1 .. Len(t) : t[i].kind \in {"draft", "chart", "text", "back", "done"}
      BY <2>2 DEF ToTheEnd
    <3> QED
      BY <3>1 DEF HasKind
  <2> QED
    BY <2>1, <2>2
<1> QED
  BY <1>1, <1>2, SetLaws

LEMMA ToldOrderKeep ==
    StreamTypes /\ FeedOrder /\ EndingOrder /\ ToldOrder /\ [StreamNext]_streamVars => ToldOrder'
<1> SUFFICES ASSUME StreamTypes, FeedOrder, EndingOrder, ToldOrder, [StreamNext]_streamVars
             PROVE  ToldOrder'
  OBVIOUS
<1>1. /\ todo \in Seq(Items) /\ log \in Seq(Items) /\ queue \in Seq(Items)
  BY DEF StreamTypes
<1>2. StreamTypes' /\ EndingOrder'
  BY StreamTypesKeep, EndingOrderKeep
<1>3. /\ phase \in {"loop", "tail"} => Late \notin ToSet(log) \cup ToSet(todo)
      /\ phase' \in {"loop", "tail"} => Late \notin ToSet(log') \cup ToSet(todo')
  <2>1. ASSUME phase \in {"loop", "tail"} PROVE Late \notin ToSet(log) \cup ToSet(todo)
    BY <1>1, <2>1, NotLateYet DEF EndingOrder
  <2>2. ASSUME phase' \in {"loop", "tail"} PROVE Late \notin ToSet(log') \cup ToSet(todo')
    <3>1. /\ log' \in Seq(Items) /\ todo' \in Seq(Items) /\ ~HasKind(log', {"error", "done"})
          /\ AllOf(todo', {"status", "job", "draft", "chart", "text"}) \/ ToTheEnd(todo')
      BY <1>2, <2>2 DEF StreamTypes, EndingOrder
    <3> DEFINE l == log'
               t == todo'
    <3> HIDE DEF l, t
    <3>2. /\ l \in Seq(Items) /\ t \in Seq(Items) /\ ~HasKind(l, {"error", "done"})
          /\ AllOf(t, {"status", "job", "draft", "chart", "text"}) \/ ToTheEnd(t)
      BY <3>1 DEF l, t
    <3>3. Late \notin ToSet(l) \cup ToSet(t)
      BY <3>2, NotLateYet
    <3> QED
      BY <3>3 DEF l, t
  <2> QED
    BY <2>1, <2>2
<1>4. CASE UNCHANGED <<phase, known, named, log, todo>>
  BY <1>4 DEF ToldOrder
<1>5. CASE UNCHANGED streamVars
  BY <1>5, <1>4 DEF streamVars, turnOf
<1> SUFFICES ASSUME StreamNext
             PROVE  ToldOrder'
  BY <1>5
<1>6. ASSUME NEW j, NEW x \in Items, NEW s \in Seq(Items)
      PROVE  /\ x.kind = "job" /\ x.name = j => (ToldRunning(j, s \o << x >>) <=> x.status = "running")
             /\ ~(x.kind = "job" /\ x.name = j) => (ToldRunning(j, s \o << x >>) <=> ToldRunning(j, s))
  BY ToldLaws
<1>7. \A s \in Seq(Items) : s \o << >> = s
  BY NoneLaws
\* A turn in its loop has at most one item in hand.
<1>8. phase = "loop" /\ todo # << >> => todo = << Head(todo) >> /\ Head(todo) \in Items /\ Tail(todo) = << >>
  <2> HAVE phase = "loop" /\ todo # << >>
  <2> DEFINE n == Len(todo)
             u == Tail(todo)
             o == << Head(todo) >>
  <2>1. Head(todo) \in Items /\ u \in Seq(Items) /\ Len(u) = n - 1 /\ n \in Nat /\ todo = o \o u /\ o \in Seq(Items)
    BY <1>1, HeadLaws, OneLaws
  <2>2. n <= 1
    BY DEF EndingOrder
  <2> HIDE DEF n, u, o
  <2>3. u = << >>
    BY <2>1, <2>2
  <2>4. todo = o
    BY <2>1, <2>3, <1>7
  <2> QED
    BY <2>1, <2>3, <2>4 DEF u, o
\* What the loop does to the item in hand tells the client nothing of a job.
<1>9. ASSUME phase = "loop", todo # << >>, Head(todo).kind # "job", NEW j \in Jobs
      PROVE  known[j] = "running" <=> ToldRunning(j, log)
  <2> DEFINE x == Head(todo)
             o == << x >>
  <2>1. todo = o /\ x \in Items /\ x.kind # "job"
    BY <1>8, <1>9
  <2>2. ToldRunning(j, log \o << x >>) <=> ToldRunning(j, log)
    BY <2>1, <1>1, <1>6
  <2>3. known[j] = "running" <=> ToldRunning(j, log \o todo)
    BY <1>9 DEF ToldOrder
  <2>4. log \o todo = log \o << x >>
    BY <2>1
  <2> QED
    BY <2>2, <2>3, <2>4
<1>10. ASSUME phase = "loop", todo = << >>, NEW j \in Jobs
       PROVE  known[j] = "running" <=> ToldRunning(j, log)
  <2>1. log \o todo = log
    BY <1>10, <1>1, <1>7
  <2>2. known[j] = "running" <=> ToldRunning(j, log \o todo)
    BY <1>10 DEF ToldOrder
  <2> QED
    BY <2>1, <2>2
\* In the loop.
<1>11. ASSUME phase' = "loop", NEW j \in Jobs
       PROVE  known'[j] = "running" <=> ToldRunning(j, log' \o todo')
  <2>1. phase = "loop" /\ (known[j] = "running" <=> ToldRunning(j, log \o todo))
    BY <1>11, PhaseSteps DEF ToldOrder
  <2>2. CASE UNCHANGED <<known, log, todo>>
    BY <2>1, <2>2
  <2>3. CASE TakesNews
    <3> DEFINE x == Head(queue)
    <3>1. /\ todo = << >> /\ queue # << >> /\ UNCHANGED log
          /\ todo' = << x >> \/ (todo' = << >> /\ x.kind = "text")
          /\ known' = IF x.kind = "job" THEN [known EXCEPT ![x.name] = x.status] ELSE known
      BY <2>3 DEF TakesNews
    <3>2. x \in Items /\ (x.kind = "job" => x.name \in Jobs)
      BY <3>1, <1>1, HeadLaws, ItemLaws
    <3>3. known[j] = "running" <=> ToldRunning(j, log)
      BY <2>1, <3>1, <1>10
    <3>4. /\ x.kind = "job" /\ x.name = j => (ToldRunning(j, log \o << x >>) <=> x.status = "running")
          /\ ~(x.kind = "job" /\ x.name = j) => (ToldRunning(j, log \o << x >>) <=> ToldRunning(j, log))
      BY <3>2, <1>1, <1>6
    <3>5. known'[j] = IF x.kind = "job" /\ x.name = j THEN x.status ELSE known[j]
      BY <3>1, <3>2 DEF StreamTypes
    <3>6. CASE todo' = << x >>
      <4>1. log' \o todo' = log \o << x >>
        BY <3>1, <3>6
      <4> HIDE DEF x
      <4> QED
        BY <3>3, <3>4, <3>5, <4>1
    <3>7. CASE todo' = << >> /\ x.kind = "text"
      <4>1. log' \o todo' = log
        BY <3>1, <3>7, <1>1, <1>7
      <4> QED
        BY <3>3, <3>5, <3>7, <4>1
    <3> QED
      BY <3>1, <3>6, <3>7
  <2>4. CASE Stores
    <3> DEFINE c == Head(todo).name
               y == Item("chart", c, "none")
    <3>1. /\ todo # << >> /\ Head(todo).kind = "draft" /\ UNCHANGED <<log, known>>
          /\ todo' = (IF c \in emitted THEN << >> ELSE << y >>) \o Tail(todo)
      BY <2>4 DEF Stores, Doing
    <3>2. known[j] = "running" <=> ToldRunning(j, log)
      BY <3>1, <2>1, <1>9
    <3>3. y \in Items /\ y.kind = "chart"
      <4>1. c \in Charts
        BY <2>1, <3>1, <1>8, ItemLaws
      <4> QED
        BY <4>1, ItemLaws
    <3> HIDE DEF y
    <3>4. ToldRunning(j, log \o << y >>) <=> ToldRunning(j, log)
      BY <3>3, <1>1, <1>6
    <3>5. << y >> \in Seq(Items) /\ << >> \in Seq(Items) /\ Tail(todo) = << >>
      BY <2>1, <3>1, <3>3, <1>8
    <3>6. todo' = << y >> \/ todo' = << >>
      BY <3>1, <3>5, <1>7
    <3>7. CASE todo' = << y >>
      <4>1. log' \o todo' = log \o << y >>
        BY <3>1, <3>7
      <4> QED
        BY <3>1, <3>2, <3>4, <4>1
    <3>8. CASE todo' = << >>
      <4>1. log' \o todo' = log
        BY <3>1, <3>8, <1>1, <1>7
      <4> QED
        BY <3>1, <3>2, <4>1
    <3> QED
      BY <3>6, <3>7, <3>8
  <2>5. CASE WritesBack
    <3>1. todo # << >> /\ Head(todo).kind = "back"
      BY <2>5 DEF WritesBack, Doing
    <3>2. Head(todo).kind \in {"status", "job", "draft", "chart", "text"}
      BY <2>1, <3>1, <1>1, HeadLaws DEF EndingOrder
    <3> QED
      BY <3>1, <3>2
  <2>6. CASE Appends
    <3>1. todo # << >> /\ todo' = Tail(todo) /\ log' = Append(log, Head(todo)) /\ UNCHANGED known
      BY <2>6 DEF Appends
    <3>2. Append(log, Head(todo)) = log \o << Head(todo) >> /\ log' \in Seq(Items)
      BY <2>1, <3>1, <1>1, <1>8
    <3>3. log' \o todo' = log \o todo
      <4>1. log' = log \o todo /\ todo' = << >>
        BY <2>1, <3>1, <3>2, <1>8
      <4>2. log' \o << >> = log'
        BY <3>2, <1>7
      <4> QED
        BY <4>1, <4>2
    <3> QED
      BY <2>1, <3>1, <3>3
  <2>7. CASE Speaks
    <3>1. UNCHANGED <<known, log, todo>>
      BY <2>7, SpeaksAnItem DEF Publishes, turnOf
    <3> QED
      BY <2>2, <3>1
  <2>8. CASE \/ AgentEnds \/ RunnerMoves \/ RunnerReturns \/ TakesResult \/ Collects \/ Ticks
    <3>1. UNCHANGED <<known, log, todo>>
      BY <2>8 DEF AgentEnds, RunnerMoves, RunnerForwards, RunnerFinishes, RunnerReturns, TakesResult, Collects, Ticks, turnOf
    <3> QED
      BY <2>2, <3>1
  <2>9. CASE TakesError \/ TakesLast \/ DeadlineFires \/ Cancelled
    BY <1>11, <2>1, <2>9 DEF TakesError, TakesLast, DeadlineFires, Cancelled, Failing
  <2>10. CASE StoreFails
    BY <1>11, <2>1, <2>10 DEF StoreFails, Failing
  <2> QED
    BY <2>3, <2>4, <2>5, <2>6, <2>7, <2>8, <2>9, <2>10 DEF StreamNext, TurnMoves
\* The timeout names the jobs the client was last told are running.
<1>12. ASSUME NEW why \in Names, Failing(why), UNCHANGED log, phase = "loop",
              \A j \in Jobs : known[j] = "running" <=> ToldRunning(j, log)
       PROVE  Late \in ToSet(todo') => named' = {j \in Jobs : ToldRunning(j, log')}
  <2>1. Late \in ToSet(todo') => named' = Running(known)
    BY <1>12, FailingLaws
  <2> QED
    BY <2>1, <1>12 DEF Running
<1>13. ASSUME Late \in ToSet(log') \cup ToSet(todo')
       PROVE  named' = {j \in Jobs : ToldRunning(j, log')}
  <2>1. phase' \notin {"loop", "tail"}
    BY <1>3, <1>13
  <2>2. Late \in ToSet(log) \cup ToSet(todo) => named = {j \in Jobs : ToldRunning(j, log)}
    BY DEF ToldOrder
  <2>3. CASE UNCHANGED <<log, todo, named>>
    BY <2>2, <2>3, <1>13
  <2>4. CASE Speaks
    <3>1. UNCHANGED <<log, todo, named>>
      BY <2>4, SpeaksAnItem DEF Publishes, turnOf
    <3> QED
      BY <2>3, <3>1
  <2>5. CASE \/ AgentEnds \/ RunnerMoves \/ RunnerReturns \/ TakesResult \/ Collects \/ Ticks
    <3>1. UNCHANGED <<log, todo, named>>
      BY <2>5 DEF AgentEnds, RunnerMoves, RunnerForwards, RunnerFinishes, RunnerReturns, TakesResult, Collects, Ticks, turnOf
    <3> QED
      BY <2>3, <3>1
  <2>6. CASE TakesNews \/ TakesLast
    <3>1. phase' \in {"loop", "tail"}
      BY <2>6 DEF TakesNews, TakesLast
    <3> QED
      BY <2>1, <3>1
  <2>7. CASE TakesError
    <3>1. /\ phase = "loop" /\ todo = << >> /\ queue # << >> /\ Failing(Head(queue).name) /\ UNCHANGED log
      BY <2>7 DEF TakesError
    <3>2. Head(queue).name \in Names
      BY <3>1, <1>1, HeadLaws, ItemLaws
    <3> QED
      BY <3>1, <3>2, <1>3, <1>10, <1>12, <1>13
  <2>8. CASE Stores \/ WritesBack
    <3>1. ~Over /\ todo # << >> /\ Head(todo).kind \in {"draft", "back"} /\ UNCHANGED phase
      BY <2>8 DEF Stores, WritesBack, Doing, time
    <3>2. phase = "failing"
      BY <2>1, <3>1 DEF StreamTypes, Over
    <3>3. Head(todo).kind \in {"error", "done"}
      <4>1. Head(todo) = todo[1] /\ Len(todo) \in Nat
        BY <3>1, <1>1
      <4> QED
        BY <3>2, <4>1 DEF EndingOrder
    <3> QED
      BY <3>1, <3>3
  <2>9. CASE Appends
    <3> DEFINE x == Head(todo)
    <3>1. ~Over /\ todo # << >> /\ log' = Append(log, x) /\ todo' = Tail(todo) /\ UNCHANGED named
      BY <2>9 DEF Appends
    <3>2. x \in Items /\ Tail(todo) \in Seq(Items) /\ << x >> \in Seq(Items) /\ log' = log \o << x >>
          /\ ToSet(todo) = ToSet(Tail(todo)) \cup {x} /\ ToSet(<< x >>) = {x}
      <4>1. /\ x \in Items /\ Tail(todo) \in Seq(Items) /\ << x >> \in Seq(Items)
            /\ ToSet(todo) = ToSet(Tail(todo)) \cup {x} /\ ToSet(<< x >>) = {x}
        BY <3>1, <1>1, HeadLaws, OneLaws
      <4>2. Append(log, x) = log \o << x >>
        <5> HIDE DEF x
        <5> QED
          BY <1>1, <4>1
      <4> QED
        BY <3>1, <4>1, <4>2
    <3>3. ToSet(log \o << x >>) = ToSet(log) \cup ToSet(<< x >>)
      BY <3>2, <1>1, SetLaws
    <3>4. Late \in ToSet(log) \cup ToSet(todo)
      BY <1>13, <3>1, <3>2, <3>3
    <3>5. phase = "failing"
      BY <3>1, <3>4, <1>3 DEF StreamTypes, Over
    <3>6. x.kind \in {"error", "done"}
      <4>1. Head(todo) = todo[1] /\ Len(todo) \in Nat
        BY <3>1, <1>1
      <4> QED
        BY <3>1, <3>5, <4>1 DEF EndingOrder
    <3>7. ASSUME NEW j \in Jobs PROVE ToldRunning(j, log') <=> ToldRunning(j, log)
      <4>1. ToldRunning(j, log \o << x >>) <=> ToldRunning(j, log)
        BY <3>2, <3>6, <1>1, <1>6
      <4> QED
        BY <3>2, <4>1
    <3> QED
      BY <2>2, <3>1, <3>4, <3>7
  <2>10. CASE Cancelled
    <3>1. todo' = << >> /\ UNCHANGED <<log, named>> /\ ToSet(<< >>) = {}
      BY <2>10, NoneLaws DEF Cancelled
    <3> QED
      BY <2>2, <3>1, <1>13
  <2>11. CASE DeadlineFires
    <3>1. /\ Guarded /\ UNCHANGED log
          /\ IF Inside THEN Failing("timeout") ELSE todo' = << >>
      BY <2>11 DEF DeadlineFires
    <3>2. ToSet(<< >>) = {} /\ phase \in {"loop", "tail"} /\ Late \notin ToSet(log')
      BY <3>1, <1>3, NoneLaws DEF Guarded
    <3>3. Inside /\ Failing("timeout")
      BY <3>1, <3>2, <1>13
    <3>4. phase = "loop"
      <4>1. ASSUME phase = "tail", ~Fast PROVE FALSE
        <5>1. ToTheEnd(todo) /\ Len(todo) = 1
          BY <4>1 DEF EndingOrder
        <5>2. todo # << >> /\ todo[1].kind = "done" /\ Head(todo) = todo[1]
          BY <5>1, <1>1 DEF ToTheEnd
        <5> QED
          BY <3>3, <5>2 DEF Inside
      <4> QED
        BY <3>1, <4>1 DEF Guarded
    <3>5. \A j \in Jobs : known[j] = "running" <=> ToldRunning(j, log)
      BY <3>3, <3>4, <1>9, <1>10 DEF Inside
    <3>6. "timeout" \in Names
      BY DEF Names
    <3> QED
      BY <3>1, <3>2, <3>3, <3>4, <3>5, <3>6, <1>12, <1>13
  <2>12. CASE StoreFails
    <3>1. /\ ~Over /\ todo # << >> /\ Head(todo).kind \in {"draft", "back"} /\ UNCHANGED log
          /\ Failing("failed") \/ todo' = << >>
      BY <2>12 DEF StoreFails, Doing
    <3>2. phase \in {"loop", "tail"}
      <4>1. Head(todo) = todo[1] /\ Len(todo) \in Nat
        BY <3>1, <1>1
      <4>2. phase # "failing"
        BY <3>1, <4>1 DEF EndingOrder
      <4> QED
        BY <3>1, <4>2 DEF StreamTypes, Over
    <3>3. Late \notin ToSet(todo')
      <4>1. ToSet(<< >>) = {} /\ "failed" \in Names /\ "failed" # "timeout"
        BY NoneLaws DEF Names
      <4>2. CASE Failing("failed")
        BY <4>1, <4>2, FailingLaws
      <4> QED
        BY <3>1, <4>1, <4>2
    <3> QED
      BY <3>1, <3>2, <3>3, <1>3, <1>13
  <2> QED
    BY <2>4, <2>5, <2>6, <2>7, <2>8, <2>9, <2>10, <2>11, <2>12 DEF StreamNext, TurnMoves
<1> QED
  BY <1>11, <1>13 DEF ToldOrder

-----------------------------------------------------------------------------
(* No silence outlasts its timer. *)

LEMMA BeatOrderKeep ==
    StreamTypes /\ TaskOrder /\ FeedOrder /\ ResultOrder /\ EndingOrder /\ ChartOrder /\ DraftOrder /\ BeatOrder
        /\ [StreamNext]_streamVars => BeatOrder'
<1> SUFFICES ASSUME StreamTypes, TaskOrder, FeedOrder, ResultOrder, EndingOrder, ChartOrder, DraftOrder, BeatOrder,
                    [StreamNext]_streamVars
             PROVE  BeatOrder'
  OBVIOUS
<1>1. /\ todo \in Seq(Items) /\ queue \in Seq(Items) /\ streamIdle \in Nat /\ idle \in Nat /\ quiet \in Nat
      /\ route \in {"ground", "satellite", "supervisor"} /\ Interval \in Nat /\ Interval >= 1
  BY TurnStreamAssumption DEF StreamTypes
<1>2. \A s, t \in Seq(Items) : s \o t = << >> => s = << >> /\ t = << >>
  BY ConcatEqualIffEmpty
<1>3. \A x \in Items : << x >> \in Seq(Items) /\ << x >> # << >>
  BY OneLaws
\* The feed the turn reads only grows, and the timers stay.
<1>4. ASSUME queue = queue' \/ queue' # << >>, UNCHANGED <<route, phase, todo, streamIdle, idle, quiet>>
      PROVE  BeatOrder'
  BY <1>4 DEF BeatOrder
\* The turn gives up.
<1>5. ASSUME phase' # "loop", UNCHANGED <<route, quiet>>
      PROVE  BeatOrder'
  BY <1>5 DEF BeatOrder
<1>6. CASE Speaks
  <2>1. PICK x \in Items : Publishes(x)
    BY <1>6, SpeaksAnItem
  <2>2. /\ Feeds(<< x >>) /\ << x >> \in Seq(Items) /\ << x >> # << >> /\ agent = "running"
        /\ streamIdle' = 0 /\ UNCHANGED <<route, phase, todo, idle, quiet>>
    BY <2>1, <1>3 DEF Publishes, turnOf
  <2>3. route # "ground"
    BY <2>2 DEF TaskOrder
  <2>4. route # "satellite" => queue' # << >>
    BY <2>2, <1>1, <1>2, FeedsLaws
  <2> QED
    BY <2>2, <2>3, <2>4, <1>1 DEF BeatOrder
<1>7. CASE AgentEnds
  <2>1. PICK items \in Seq(Items) : Feeds(items) /\ items # << >>
    BY <1>7, AgentsEnd
  <2>2. queue' = queue \/ queue' # << >>
    BY <2>1, <1>1, <1>2, FeedsLaws
  <2> QED
    BY <1>4, <1>7, <2>2 DEF AgentEnds, time, turnOf
<1>8. CASE RunnerForwards
  <2>1. stream # << >> /\ queue' = Append(queue, Head(stream)) /\ UNCHANGED <<route, phase, todo, streamIdle, idle, quiet>>
    BY <1>8 DEF RunnerForwards, time, turnOf
  <2>2. Head(stream) \in Items
    BY <2>1, HeadLaws DEF StreamTypes
  <2>3. queue' # << >>
    <3> DEFINE x == Head(stream)
    <3>1. x \in Items /\ queue' = Append(queue, x)
      BY <2>1, <2>2
    <3> HIDE DEF x
    <3>2. Append(queue, x) # << >>
      BY <3>1, <1>1
    <3> QED
      BY <3>1, <3>2
  <2> QED
    BY <2>1, <2>3, <1>4
<1>9. CASE RunnerFinishes \/ RunnerReturns
  <2>1. PICK items \in Seq(Items) : queue' = queue \o items /\ items # << >>
    BY <1>9, RunnersEnd
  <2>2. queue' # << >>
    BY <2>1, <1>1, <1>2
  <2> QED
    BY <1>4, <1>9, <2>2 DEF RunnerFinishes, RunnerReturns, time, turnOf
<1>10. CASE TakesNews
  <2> DEFINE x == Head(queue)
  <2>1. /\ phase = "loop" /\ queue # << >> /\ x.kind \in {"status", "job", "draft", "text"} /\ queue' = Tail(queue) /\ idle' = 0
        /\ todo' = IF Fast /\ x.kind = "text" THEN << >> ELSE << x >>
        /\ UNCHANGED <<route, phase, streamIdle, quiet>>
    BY <1>10 DEF TakesNews
  <2>2. route = "ground" => x.kind # "text"
    <3>1. route = "ground" => AllOf(queue, {"status", "error", "last", "result"})
      BY DEF FeedOrder
    <3> QED
      BY <2>1, <3>1, <1>1, HeadLaws
  <2>3. route # "satellite" => todo' # << >>
    <3>1. x \in Items /\ << x >> # << >>
      BY <2>1, <1>1, <1>3
    <3> HIDE DEF x
    <3> QED
      BY <2>1, <2>2, <3>1, <1>1 DEF Fast
  <2> QED
    BY <2>1, <2>3, <1>1 DEF BeatOrder
<1>11. CASE TakesResult
  <2>1. /\ phase = "loop" /\ queue # << >> /\ Head(queue).kind = "result" /\ queue' = Tail(queue) /\ idle' = 0
        /\ UNCHANGED <<route, phase, todo, streamIdle, quiet>>
    BY <1>11 DEF TakesResult
  <2>2. \A kinds : HasKind(queue, kinds) <=> Head(queue).kind \in kinds \/ HasKind(Tail(queue), kinds)
    BY <2>1, <1>1, HeadLaws
  <2>3. route # "supervisor"
    BY <2>1, <2>2 DEF FeedOrder
  <2>4. runner = "done"
    <3>1. "result" \in Ends
      BY DEF Ends
    <3>2. HasKind(queue, Ends)
      BY <2>1, <2>2, <3>1
    <3> QED
      BY <2>1, <2>3, <3>2, <1>1 DEF TaskOrder, StreamTypes, Fast
  <2>5. HasKind(queue, {"last"})
    BY <2>1, <2>4 DEF ResultOrder
  <2>6. queue' # << >>
    <3>1. HasKind(Tail(queue), {"last"})
      BY <2>1, <2>2, <2>5
    <3> QED
      BY <2>1, <3>1, NoneLaws
  <2> QED
    BY <2>1, <2>3, <2>6, <1>1 DEF BeatOrder
<1>12. CASE TakesError \/ TakesLast \/ DeadlineFires \/ Cancelled
  <2>1. phase' # "loop" /\ UNCHANGED <<route, quiet>>
    BY <1>12 DEF TakesError, TakesLast, DeadlineFires, Cancelled, Failing, time
  <2> QED
    BY <2>1, <1>5
<1>13. CASE StoreFails
  <2>1. phase' # "loop" /\ UNCHANGED <<route, quiet>>
    BY <1>13 DEF StoreFails, Failing, time
  <2> QED
    BY <2>1, <1>5
<1>14. CASE Stores
  <2> DEFINE x == Head(todo)
             y == Item("chart", x.name, "none")
             o == << y >>
  <2>1. /\ todo # << >> /\ x.kind = "draft" /\ todo' = (IF x.name \in emitted THEN << >> ELSE o) \o Tail(todo)
        /\ UNCHANGED <<route, phase, queue, streamIdle, idle, quiet>>
    BY <1>14 DEF Stores, Doing, queues, time
  <2>2. x \in Items /\ Tail(todo) \in Seq(Items) /\ x \in ToSet(todo)
    BY <2>1, <1>1, HeadLaws
  <2>3. x.name \in DraftsIn(todo) /\ x.name \in Charts
    BY <2>1, <2>2, <1>1, ChartLaws, ItemLaws
  <2>4. y \in Items
    BY <2>3, ItemLaws
  <2>5. o \in Seq(Items) /\ o # << >>
    BY <2>4, <1>3
  <2> HIDE DEF x, y, o
  <2>6. CASE phase = "loop" /\ route = "supervisor"
    <3>1. x.name \notin emitted
      BY <2>3, <2>6 DEF DraftOrder
    <3>2. todo' # << >>
      BY <2>1, <2>2, <2>5, <3>1, <1>2
    <3> QED
      BY <2>1, <2>6, <3>2 DEF BeatOrder
  <2>7. CASE phase = "loop" /\ route = "ground"
    <3>1. spoken = << >> /\ DraftsIn(<< >>) = {}
      BY <2>7, ChartLaws DEF FeedOrder
    <3>2. DraftsIn(todo) \subseteq DraftsIn(spoken)
      BY DEF ChartOrder
    <3> QED
      BY <2>3, <3>1, <3>2
  <2>8. CASE phase # "loop" \/ route = "satellite"
    BY <2>1, <2>8 DEF BeatOrder
  <2> QED
    BY <2>6, <2>7, <2>8, <1>1
<1>15. CASE WritesBack
  <2>1. /\ todo # << >> /\ Head(todo).kind = "back" /\ UNCHANGED <<route, phase, quiet>>
    BY <1>15 DEF WritesBack, Doing, time
  <2>2. phase # "loop"
    <3>1. ASSUME phase = "loop" PROVE FALSE
      <4>1. AllOf(todo, {"status", "job", "draft", "chart", "text"})
        BY <3>1 DEF EndingOrder
      <4>2. Head(todo).kind \in {"status", "job", "draft", "chart", "text"}
        BY <2>1, <4>1, <1>1, HeadLaws
      <4> QED
        BY <2>1, <4>2
    <3> QED
      BY <3>1
  <2> QED
    BY <2>1, <2>2, <1>5
<1>16. CASE Appends
  <2>1. quiet' = 0 /\ UNCHANGED <<route, queue, streamIdle, idle>> /\ (phase' = "loop" => phase = "loop")
    BY <1>16 DEF Appends, queues
  <2> QED
    BY <2>1, <1>1 DEF BeatOrder
<1>17. CASE Collects
  <2>1. UNCHANGED <<route, phase, todo, queue, streamIdle, idle, quiet>>
    BY <1>17 DEF Collects, queues, time, turnOf
  <2> QED
    BY <2>1, <1>4
<1>18. CASE Ticks
  <2>1. PICK ofQueue \in Seq(Items) :
           /\ queue' = queue \o ofQueue
           /\ "heartbeat" \in timers /\ Beats(idle + 1) => ofQueue # << >>
           /\ route # "satellite" /\ "watchdog" \in timers /\ Beats(streamIdle + 1) => ofQueue # << >>
    BY <1>18, TicksBeats
  <2>2. /\ ~(Waiting /\ queue # << >>) /\ idle' = idle + 1
        /\ streamIdle' = IF "watchdog" \in timers /\ Beats(streamIdle + 1) THEN 0 ELSE streamIdle + 1
        /\ quiet' = IF Waiting THEN quiet + 1 ELSE quiet
        /\ UNCHANGED <<route, phase, todo, timers>>
    BY <1>18 DEF Ticks, Settled, tasksOf, turnOf
  <2>3. /\ Beats(idle + 1) <=> idle + 1 >= Interval
        /\ Beats(streamIdle + 1) <=> streamIdle + 1 >= Interval
    BY DEF Beats
  <2>4. queue' = << >> => queue = << >> /\ ofQueue = << >>
    BY <2>1, <1>1, <1>2
  <2>5. route # "satellite" => quiet' <= Interval
    BY <2>2, <1>1 DEF BeatOrder, Waiting
  <2>6. ASSUME phase = "loop", route = "ground"
        PROVE  /\ queue' = << >> => idle' < Interval
               /\ queue' = << >> /\ todo' = << >> => quiet' <= idle'
    <3>1. "heartbeat" \in timers
      BY <2>6 DEF TaskOrder
    <3>2. queue' = << >> => idle + 1 < Interval
      BY <2>1, <2>3, <2>4, <3>1, <1>1
    <3> QED
      BY <2>2, <2>4, <2>6, <3>2, <1>1 DEF BeatOrder
  <2>7. ASSUME phase = "loop", route = "supervisor"
        PROVE  /\ streamIdle' < Interval
               /\ queue' = << >> /\ todo' = << >> => quiet' <= streamIdle'
    <3>1. "watchdog" \in timers
      BY <2>7 DEF TaskOrder
    <3>2. streamIdle' < Interval
      BY <2>2, <2>3, <3>1, <1>1
    <3>3. queue' = << >> => streamIdle' = streamIdle + 1
      BY <2>1, <2>2, <2>4, <2>7, <3>1
    <3> QED
      BY <2>2, <2>4, <2>7, <3>2, <3>3, <1>1 DEF BeatOrder
  <2> QED
    BY <2>2, <2>5, <2>6, <2>7 DEF BeatOrder
<1>19. CASE UNCHANGED streamVars
  <2>1. UNCHANGED <<route, phase, todo, queue, streamIdle, idle, quiet>>
    BY <1>19 DEF streamVars, queues, time, turnOf
  <2> QED
    BY <2>1, <1>4
<1> QED
  BY <1>6, <1>7, <1>8, <1>9, <1>10, <1>11, <1>12, <1>13, <1>14, <1>15, <1>16, <1>17, <1>18, <1>19
     DEF StreamNext, TurnMoves, RunnerMoves

-----------------------------------------------------------------------------
(* The theorems. *)

LEMMA StreamStarts == StreamInit => StreamInv
<1> SUFFICES ASSUME StreamInit
             PROVE  StreamInv
  OBVIOUS
<1> USE DEF StreamInit
<1>1. /\ << >> \in Seq(Items) /\ Len(<< >>) = 0 /\ ToSet(<< >>) = {} /\ EndsLast(<< >>) /\ Backed(<< >>)
      /\ \A kinds : AllOf(<< >>, kinds) /\ ~HasKind(<< >>, kinds)
      /\ << >> \o << >> = << >> /\ DraftsIn(<< >>) = {} /\ ChartsIn(<< >>) = {}
  BY NoneLaws, ChartLaws
<1>2. StreamTypes
  <2>1. known \in [Jobs -> {"none", "running", "ready"}]
    OBVIOUS
  <2>2. /\ agent \in {"none", "running", "done", "stopped"} /\ runner \in {"none", "running", "done", "stopped"}
        /\ timers \subseteq {"watchdog", "heartbeat"}
    OBVIOUS
  <2>3. /\ stream \in Seq(Items) /\ queue \in Seq(Items) /\ todo \in Seq(Items)
        /\ seen \in Seq(Items) /\ log \in Seq(Items) /\ spoken \in Seq(Items)
    BY <1>1
  <2>4. streamIdle \in Nat /\ idle \in Nat /\ quiet \in Nat /\ clock \in 0 .. Deadline /\ storeFaults \in Nat
    BY TurnStreamAssumption
  <2> QED
    BY <2>1, <2>2, <2>3, <2>4 DEF StreamTypes
<1>3. TaskOrder
  BY <1>1 DEF TaskOrder, Fast, Answered
<1>4. FeedOrder
  BY <1>1 DEF FeedOrder
<1>5. ResultOrder
  BY <1>1 DEF ResultOrder, Answered
<1>6. EndingOrder
  <2>1. Concluded(<< >>)
    BY <1>1 DEF Concluded
  <2> QED
    BY <1>1, <2>1 DEF EndingOrder, Over
<1>7. JobOrder
  <2>1. Only(<< >>, "job") = << >>
    BY <1>1, OnlyLaws
  <2> QED
    BY <1>1, <2>1 DEF JobOrder, Answered
<1>8. ChartOrder /\ DraftOrder
  <2>1. Once(<< >>, "chart") /\ Once(<< >>, "draft")
    BY <1>1 DEF Once
  <2> QED
    BY <1>1, <2>1 DEF ChartOrder, DraftOrder, Answered
<1>9. ToldOrder
  <2>1. \A j \in Jobs : ~ToldRunning(j, << >> \o << >>)
    <3>1. DOMAIN << >> = {}
      BY <1>1
    <3> QED
      BY <1>1, <3>1, Zenon DEF ToldRunning
  <2>2. \A j \in Jobs : known[j] = "none"
    OBVIOUS
  <2>3. Late \notin ToSet(<< >>)
    BY <1>1
  <2> QED
    BY <2>1, <2>2, <2>3 DEF ToldOrder
<1>10. BeatOrder
  BY TurnStreamAssumption DEF BeatOrder
<1> QED
  BY <1>2, <1>3, <1>4, <1>5, <1>6, <1>7, <1>8, <1>9, <1>10 DEF StreamInv

\* The inductive invariant of a turn's stream: what each task may still do and
\* its feed may hold, what the turn still does, and how job events, charts, the
\* client's picture of the jobs and the timers' counts agree along the way.
THEOREM StreamInvariant == StreamSpec => []StreamInv
<1>1. StreamInv /\ [StreamNext]_streamVars => StreamInv'
  BY StreamTypesKeep, TaskOrderKeep, FeedOrderKeep, ResultOrderKeep, EndingOrderKeep, JobOrderKeep, ChartOrderKeep,
     DraftOrderKeep, ToldOrderKeep, BeatOrderKeep DEF StreamInv
<1> QED
  BY <1>1, StreamStarts, PTL DEF StreamSpec

\* Nothing but a done follows an ending in the log.
LEMMA EndingsAreLast == StreamTypes /\ EndingOrder => EndingsClose
<1> SUFFICES ASSUME StreamTypes, EndingOrder
             PROVE  EndingsClose
  OBVIOUS
<1> DEFINE n == Len(log)
<1>1. log \in Seq(Items) /\ DOMAIN log = 1 .. n /\ n \in Nat
  BY DEF StreamTypes
<1>2. \A i, k \in 1 .. n : i < k => log[i].kind # "done" /\ (log[i].kind = "error" => log[k].kind = "done")
  BY DEF EndingOrder, Concluded
<1>3. ASSUME NEW i \in 1 .. n, log[i].kind = "done" PROVE i = n
  <2> HIDE DEF n
  <2>1. n \in 1 .. n /\ i <= n
    BY <1>1
  <2> QED
    BY <1>1, <1>2, <1>3, <2>1
<1>4. ASSUME NEW i \in 1 .. n, log[i].kind = "error" PROVE KindsIn(SubSeq(log, i + 1, n)) \subseteq {"done"}
  <2> DEFINE u == SubSeq(log, i + 1, n)
  <2>1. DOMAIN u \subseteq 1 .. n - i /\ \A k \in DOMAIN u : u[k] = log[i + k]
    BY <1>1
  <2> HIDE DEF u, n
  <2>2. ASSUME NEW k \in DOMAIN u PROVE u[k].kind = "done"
    <3>1. i + k \in 1 .. n /\ i < i + k
      BY <1>1, <2>1
    <3> QED
      BY <1>2, <1>4, <2>1, <3>1
  <2> QED
    BY <2>2 DEF KindsIn, u
<1> QED
  BY <1>1, <1>3, <1>4 DEF EndingsClose

\* An answer without error is complete.
LEMMA AnswersComplete == StreamInv => AnswersAreComplete
<1> SUFFICES ASSUME StreamInv, "done" \in KindsIn(log), "error" \notin KindsIn(log)
             PROVE  /\ Fast => result
                    /\ Only(log, "job") = Only(spoken, "job")
                    /\ \A c \in Charts :
                          Cardinality({i \in DOMAIN log : log[i] = Item("chart", c, "none")})
                              = (IF Item("draft", c, "none") \in ToSet(spoken) THEN 1 ELSE 0)
  BY DEF AnswersAreComplete
<1>1. /\ StreamTypes /\ ResultOrder /\ EndingOrder /\ JobOrder /\ ChartOrder
  BY DEF StreamInv
<1>2. log \in Seq(Items) /\ DOMAIN log = 1 .. Len(log) /\ spoken \in Seq(Items)
  BY <1>1 DEF StreamTypes
<1>3. Answered
  <2>1. HasKind(log, {"done"}) /\ ~HasKind(log, {"error"})
    BY <1>2 DEF HasKind, KindsIn
  <2> QED
    BY <1>1, <2>1 DEF EndingOrder, Answered
<1>4. ASSUME NEW c \in Charts
      PROVE  Cardinality({i \in DOMAIN log : log[i] = Item("chart", c, "none")})
                 = (IF Item("draft", c, "none") \in ToSet(spoken) THEN 1 ELSE 0)
  <2> DEFINE at == {i \in DOMAIN log : log[i] = Chart(c)}
  <2>1. c \in DraftsIn(spoken) <=> c \in ChartsIn(log)
    <3>1. phase = "ended" /\ todo = << >> /\ ChartsIn(<< >>) = {} /\ DraftsIn(<< >>) = {}
      BY <1>1, <1>3, ChartLaws DEF Answered, EndingOrder, Over
    <3> QED
      BY <1>1, <1>3, <3>1 DEF ChartOrder
  <2>2. Chart(c).kind = "chart" /\ Chart(c) = Item("chart", c, "none") /\ Draft(c) = Item("draft", c, "none")
    BY ItemLaws
  <2>3. \A i, k \in at : i = k
    <3>1. \A i, k \in 1 .. Len(log) : log[i].kind = "chart" /\ log[i] = log[k] => i = k
      BY <1>1 DEF ChartOrder, Once
    <3> QED
      BY <1>2, <2>2, <3>1
  <2>4. at # {} <=> Chart(c) \in ToSet(log)
    BY DEF ToSet
  <2>5. CASE at = {}
    <3>1. Cardinality(at) = 0 /\ c \notin ChartsIn(log)
      BY <2>4, <2>5, FS_EmptySet DEF ChartsIn
    <3> QED
      BY <2>1, <2>2, <3>1 DEF DraftsIn
  <2>6. CASE at # {}
    <3>1. PICK i \in at : at = {i}
      BY <2>3, <2>6
    <3>2. Cardinality(at) = 1 /\ c \in ChartsIn(log)
      <4>1. Cardinality({i}) = 1
        BY FS_Singleton
      <4>2. c \in ChartsIn(log)
        BY <2>4, <2>6 DEF ChartsIn
      <4> HIDE DEF at
      <4> QED
        BY <3>1, <4>1, <4>2
    <3> QED
      BY <2>1, <2>2, <3>2 DEF DraftsIn
  <2> QED
    BY <2>5, <2>6
<1> QED
  BY <1>1, <1>3, <1>4 DEF ResultOrder, JobOrder

\* Whatever the agent and the clients do, an ending closes a turn, an answer
\* without error is complete, a timeout names the jobs still running, silence is
\* broken in time, and only two things end a turn without a word.
THEOREM EndingsHold == StreamSpec => []EndingsAreWhole
<1>1. StreamInv => EndingsAreWhole
  <2> SUFFICES ASSUME StreamInv
               PROVE  EndingsAreWhole
    OBVIOUS
  <2>1. /\ StreamTypes /\ EndingOrder /\ ToldOrder /\ BeatOrder
    BY DEF StreamInv
  <2>2. log \in Seq(Items) /\ DOMAIN log = 1 .. Len(log)
    BY <2>1 DEF StreamTypes
  <2>3. StreamTypeOK
    <3>1. \A i \in DOMAIN log : log[i].kind \in Frames
      BY <2>1, <2>2 DEF EndingOrder, AllOf
    <3> QED
      BY <2>1, <3>1 DEF StreamTypes, StreamTypeOK
  <2>4. TimeoutNamesJobs
    BY <2>1 DEF ToldOrder, TimeoutNamesJobs, Late
  <2>5. BeatsCoverSilence
    BY <2>1 DEF BeatOrder, BeatsCoverSilence
  <2>6. UntoldEndingsAreTwo
    <3>1. log # << >> => Last(log) = log[Len(log)]
      BY <2>2 DEF Last
    <3> QED
      BY <2>1, <3>1 DEF EndingOrder, UntoldEndingsAreTwo
  <2> QED
    BY <2>1, <2>3, <2>4, <2>5, <2>6, EndingsAreLast, AnswersComplete DEF EndingsAreWhole
<1> QED
  BY <1>1, StreamInvariant, PTL
=============================================================================
