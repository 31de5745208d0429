-------------------------- MODULE RetrievalProofs --------------------------
(***************************************************************************)
(* Theorems of what is retrieved and how.                                  *)
(*                                                                         *)
(* Of Retrieval, for every set of turns and jobs, all estimates, caps,     *)
(* intervals and limits.  The inductive invariant has two parts that do    *)
(* not look at each other: what each wait may have spent after so many     *)
(* failed polls, and what is known of each job.                            *)
(*                                                                         *)
(* Of the decisions of the data path, one after the other: the variable    *)
(* meant, places, layers, frames and masks, for every input that is a      *)
(* well-formed case, and then of AnyDecision, whose steps are all of them. *)
(* On the way, what the library's recursive orders and folds are on finite *)
(* sets; what its sums are is in SubsequenceProofs.                        *)
(***************************************************************************)
EXTENDS Retrieval, Decisions, SubsequenceProofs, FiniteSetsExt, TLAPS

-----------------------------------------------------------------------------
(* Waits. *)

\* The time a wait may have spent when it has slept after n failed polls.
Allowed(n) == Timeout + n * PollMax

Wait == [at : {"idle", "poll", "sleep", "over"},
         job : Jobs \cup {"none"}, spent : Nat,
         interval : PollMin .. PollMax, fails : 0 .. PollLimit + 1,
         end : {"none", "answer", "paused", "timeout", "raised", "refused"}]

\* A wait w whose last m polls failed: while it goes on it knows that number,
\* and has spent no more than one sleep for each of them and one more.
Patient(w, m) ==
    /\ w \in Wait /\ m \in Nat
    /\ w.end = "raised" => m > PollLimit
    /\ w.spent < Allowed(PollLimit + 1)
    /\ w.at \in {"poll", "sleep"} =>
          w.job \in Jobs /\ w.end = "none" /\ w.fails = m /\ m <= PollLimit
    /\ w.at = "poll" => w.spent < Allowed(m + 1)
    /\ w.at = "sleep" => w.spent < Allowed(m)

WaitsInv ==
    /\ wait \in [Turns -> Wait] /\ missed \in [Turns -> Nat]
    /\ \A t \in Turns : Patient(wait[t], missed[t])
    /\ faults \in 0 .. MaxFaults /\ restarts \in 0 .. MaxRestarts

-----------------------------------------------------------------------------
(* Jobs. *)

\* A choice made at submission waits under the job's handle, has moved on or has
\* lapsed,
\* and only a job that was submitted is known to be ready.
ChoicesAreSomewhere ==
    \A j \in Jobs :
        /\ asked[j] = "one" => j \in pending \cup kept \cup lapsed
        /\ j \in learnt => provider[j] # "none"

JobsInv ==
    /\ provider \in [Jobs -> Terminal \cup Live \cup {"none"}]
    /\ terms \in [Jobs -> [size : Sizes \cup {0, Unpriced}, confirmed : BOOLEAN]]
    /\ asked \in [Jobs -> {"unknown", "one", "several"}]
    /\ pending \subseteq Jobs /\ kept \subseteq Jobs /\ lapsed \subseteq Jobs /\ told \subseteq Jobs
    /\ cached \in [Jobs -> Terminal \cup {"none"}]
    /\ learnt \subseteq Jobs
    /\ GateHolds /\ ChoiceFollowsResult /\ FinishedRowsAreFinal /\ ChoicesAreSomewhere

-----------------------------------------------------------------------------

LEMMA AllowanceGrows ==
    ASSUME NEW n \in Nat
    PROVE  /\ Allowed(n) \in Nat /\ Allowed(n + 1) = Allowed(n) + PollMax
           /\ Timeout <= Allowed(n) /\ Timeout < Allowed(n + 1)
<1> DEFINE slept == n * PollMax
<1>1. PollMax \in Nat /\ PollMax > 0 /\ Timeout \in Nat
  BY RetrievalAssumption
<1>2. slept \in Nat /\ (n + 1) * PollMax = slept + PollMax
  BY <1>1
<1> HIDE DEF slept
<1>3. Allowed(n) = Timeout + slept /\ Allowed(n + 1) = Timeout + (slept + PollMax)
  BY <1>2 DEF Allowed, slept
<1> QED
  BY <1>1, <1>2, <1>3

\* Whoever has slept after fewer failures than the limit is within the bound.
LEMMA AllowanceIsMonotone ==
    ASSUME NEW n \in Nat, NEW m \in Nat, m <= n
    PROVE  Allowed(m) <= Allowed(n)
<1>1. PollMax \in Nat /\ Timeout \in Nat /\ n - m \in Nat
  BY RetrievalAssumption
<1>2. (n - m) * PollMax \in Nat /\ m * PollMax \in Nat
  BY <1>1
<1>3. n * PollMax = m * PollMax + (n - m) * PollMax
  BY <1>1
<1> DEFINE a == m * PollMax
           b == (n - m) * PollMax
<1>4. a \in Nat /\ b \in Nat /\ n * PollMax = a + b
  BY <1>2, <1>3
<1>5. Allowed(m) = Timeout + a /\ Allowed(n) = Timeout + n * PollMax
  BY DEF Allowed
<1> HIDE DEF a, b
<1> QED
  BY <1>1, <1>4, <1>5

LEMMA NewWaitIsPatient ==
    /\ Patient(Idle, 0)
    /\ \A j \in Jobs : Patient([Idle EXCEPT !.at = "poll", !.job = j], 0)
<1>1. PollLimit \in Nat /\ PollMin \in PollMin .. PollMax /\ 0 < Allowed(PollLimit + 1) /\ 0 < Allowed(0 + 1)
  BY RetrievalAssumption, AllowanceGrows
<1>2. Idle \in Wait
  BY <1>1 DEF Idle, Wait
<1>3. Idle.at = "idle" /\ Idle.end = "none" /\ Idle.spent = 0 /\ Idle.fails = 0
  BY DEF Idle
<1>4. Patient(Idle, 0)
  BY <1>1, <1>2, <1>3 DEF Patient
<1>5. ASSUME NEW j \in Jobs, NEW w, w = [Idle EXCEPT !.at = "poll", !.job = j] PROVE Patient(w, 0)
  <2>1. w \in Wait
    BY <1>2, <1>5 DEF Wait
  <2>2. w.at = "poll" /\ w.job = j /\ w.end = "none" /\ w.spent = 0 /\ w.fails = 0
    BY <1>2, <1>3, <1>5 DEF Wait
  <2> QED
    BY <1>1, <2>1, <2>2 DEF Patient
<1> QED
  BY <1>4, <1>5

LEMMA WaitsStart == Init => WaitsInv
<1> SUFFICES ASSUME Init PROVE WaitsInv
  OBVIOUS
<1>1. \A t \in Turns : wait[t] = Idle /\ missed[t] = 0
  BY DEF Init
<1>2. Idle \in Wait
  BY NewWaitIsPatient DEF Patient
<1>3. MaxFaults \in Nat /\ MaxRestarts \in Nat
  BY RetrievalAssumption
<1>4. \A t \in Turns : Patient(wait[t], missed[t])
  BY <1>1, NewWaitIsPatient
<1> QED
  BY <1>2, <1>3, <1>4 DEF Init, WaitsInv

\* A step that changes one wait keeps the others as they are.
LEMMA OneWaitMoves ==
    ASSUME WaitsInv, NEW t \in Turns, NEW w, NEW m,
           wait' = [wait EXCEPT ![t] = w], missed' = [missed EXCEPT ![t] = m],
           Patient(w, m), faults' \in 0 .. MaxFaults, restarts' \in 0 .. MaxRestarts
    PROVE  WaitsInv'
<1>1. w \in Wait /\ m \in Nat
  BY DEF Patient
<1>2. \A s \in Turns : Patient(wait'[s], missed'[s])
  BY DEF WaitsInv
<1> QED
  BY <1>1, <1>2 DEF WaitsInv

LEMMA WaitsStepsKeep == WaitsInv /\ [Next]_vars => WaitsInv'
<1> SUFFICES ASSUME WaitsInv, [Next]_vars PROVE WaitsInv'
  OBVIOUS
<1>a. /\ PollLimit \in Nat /\ Timeout \in Nat /\ PollMin \in Nat /\ PollMax \in Nat
      /\ 0 < PollMin /\ PollMin <= PollMax /\ MaxFaults \in Nat /\ MaxRestarts \in Nat
  BY RetrievalAssumption
<1>b. \A t \in Turns : Patient(wait[t], missed[t]) /\ wait[t] \in Wait /\ missed[t] \in Nat
  BY DEF WaitsInv
<1>c. faults \in 0 .. MaxFaults /\ restarts \in 0 .. MaxRestarts
  BY DEF WaitsInv
<1>1. ASSUME NEW t \in Turns, NEW j \in Jobs, SubmitsSeries(t, j) \/ Awaits(t, j) PROVE WaitsInv'
  BY <1>1, <1>c, NewWaitIsPatient, OneWaitMoves DEF SubmitsSeries, Awaits, budgets
<1>2. ASSUME NEW t \in Turns, PollEnds(t) PROVE WaitsInv'
  <2> DEFINE w == [wait[t] EXCEPT !.at = "over", !.end = "answer"]
  <2>1. Patient(w, 0)
    BY <1>a, <1>b DEF Patient, Wait
  <2>2. wait' = [wait EXCEPT ![t] = w] /\ missed' = [missed EXCEPT ![t] = 0]
    BY <1>2 DEF PollEnds, Ends, WaitsInv
  <2> HIDE DEF w
  <2> QED
    BY <1>2, <1>c, <2>1, <2>2, OneWaitMoves DEF PollEnds, budgets
<1>3. ASSUME NEW t \in Turns, PollFindsPaused(t) PROVE WaitsInv'
  <2> DEFINE w == [wait[t] EXCEPT !.at = "over", !.end = "paused"]
  <2>1. Patient(w, 0)
    BY <1>a, <1>b DEF Patient, Wait
  <2>2. wait' = [wait EXCEPT ![t] = w] /\ missed' = [missed EXCEPT ![t] = 0]
    BY <1>3 DEF PollFindsPaused, Ends, WaitsInv
  <2> HIDE DEF w
  <2> QED
    BY <1>3, <1>c, <2>1, <2>2, OneWaitMoves DEF PollFindsPaused, budgets
<1>4. ASSUME NEW t \in Turns, PollGoesOn(t) PROVE WaitsInv'
  <2> DEFINE w == [wait[t] EXCEPT !.fails = 0]
             over == [w EXCEPT !.at = "over", !.end = "timeout"]
             sleeping == [w EXCEPT !.at = "sleep"]
  <2>0. Patient(wait[t], missed[t]) /\ wait[t].at = "poll"
    BY <1>4, <1>b DEF PollGoesOn
  <2>1. /\ w \in Wait /\ w.spent = wait[t].spent /\ w.job = wait[t].job /\ w.fails = 0
        /\ w.end = "none" /\ w.job \in Jobs /\ w.spent < Allowed(PollLimit + 1)
    BY <2>0, <1>a DEF Patient, Wait
  <2>2. wait' = [wait EXCEPT ![t] = IF w.spent >= Timeout THEN over ELSE sleeping]
    BY <1>4 DEF PollGoesOn, Slept
  <2>3. missed' = [missed EXCEPT ![t] = 0]
    BY <1>4 DEF PollGoesOn
  <2> HIDE DEF w
  <2>4. Patient(over, 0)
    <3>1. over \in Wait /\ over.at = "over" /\ over.end = "timeout" /\ over.spent = w.spent
      BY <2>1 DEF Wait
    <3> QED
      BY <2>1, <3>1 DEF Patient
  <2>5. ASSUME ~(w.spent >= Timeout) PROVE Patient(sleeping, 0)
    <3>1. /\ sleeping \in Wait /\ sleeping.at = "sleep" /\ sleeping.end = "none" /\ sleeping.spent = w.spent
          /\ sleeping.job = w.job /\ sleeping.fails = 0
      BY <2>1 DEF Wait
    <3>2. w.spent < Allowed(0)
      <4>1. Timeout <= Allowed(0) /\ Allowed(0) \in Nat /\ w.spent \in Nat
        BY <2>1, AllowanceGrows DEF Wait
      <4> QED
        BY <4>1, <2>5, <1>a
    <3> QED
      BY <1>a, <2>1, <3>1, <3>2 DEF Patient
  <2> HIDE DEF over, sleeping
  <2> QED
    BY <1>4, <1>c, <2>2, <2>3, <2>4, <2>5, OneWaitMoves DEF PollGoesOn, budgets
<1>5. ASSUME NEW t \in Turns, PollMisses(t) PROVE WaitsInv'
  <2> DEFINE raised == [wait[t] EXCEPT !.at = "over", !.end = "raised", !.fails = wait[t].fails + 1]
             sleeping == [wait[t] EXCEPT !.at = "sleep", !.fails = wait[t].fails + 1]
  <2>0. /\ Patient(wait[t], missed[t]) /\ wait[t].at = "poll"
        /\ wait[t].fails = missed[t] /\ missed[t] <= PollLimit /\ missed[t] \in Nat
        /\ wait[t].fails + 1 \in 0 .. PollLimit + 1
    BY <1>5, <1>a, <1>b DEF PollMisses, Patient
  <2>a. /\ wait[t] \in Wait /\ wait[t].spent < Allowed(PollLimit + 1)
        /\ wait[t].spent < Allowed(missed[t] + 1) /\ wait[t].job \in Jobs /\ wait[t].end = "none"
    BY <2>0 DEF Patient
  <2>1. ASSUME wait[t].fails + 1 > PollLimit PROVE Patient(raised, missed[t] + 1)
    <3>1. raised \in Wait /\ raised.at = "over" /\ raised.end = "raised" /\ raised.spent = wait[t].spent
      BY <2>0, <2>a DEF Wait
    <3> HIDE DEF raised
    <3> QED
      BY <2>0, <2>1, <2>a, <3>1 DEF Patient
  <2>2. ASSUME ~(wait[t].fails + 1 > PollLimit) PROVE Patient(sleeping, missed[t] + 1)
    <3>1. /\ sleeping \in Wait /\ sleeping.at = "sleep" /\ sleeping.end = "none"
          /\ sleeping.spent = wait[t].spent /\ sleeping.job = wait[t].job
          /\ sleeping.fails = wait[t].fails + 1
      BY <2>0, <2>a DEF Wait
    <3> HIDE DEF sleeping
    <3> QED
      BY <1>a, <2>0, <2>2, <2>a, <3>1 DEF Patient
  <2>3. \/ wait[t].fails + 1 > PollLimit /\ wait' = [wait EXCEPT ![t] = raised]
        \/ ~(wait[t].fails + 1 > PollLimit) /\ wait' = [wait EXCEPT ![t] = sleeping]
    <3>1. CASE wait[t].fails + 1 > PollLimit
      BY <1>5, <3>1 DEF PollMisses
    <3>2. CASE ~(wait[t].fails + 1 > PollLimit)
      BY <1>5, <3>2 DEF PollMisses
    <3> QED
      BY <3>1, <3>2
  <2>4. missed' = [missed EXCEPT ![t] = missed[t] + 1]
    BY <1>5 DEF PollMisses, WaitsInv
  <2>5. faults' \in 0 .. MaxFaults /\ restarts' \in 0 .. MaxRestarts
    BY <1>5, <1>a, <1>c DEF PollMisses
  <2> HIDE DEF raised, sleeping
  <2> QED
    BY <2>1, <2>2, <2>3, <2>4, <2>5, OneWaitMoves
<1>6. ASSUME NEW t \in Turns, PollRaises(t) PROVE WaitsInv'
  <2> DEFINE w == [wait[t] EXCEPT !.at = "over", !.end = "refused"]
  <2>1. Patient(w, missed[t])
    BY <1>a, <1>b DEF Patient, Wait
  <2>2. wait' = [wait EXCEPT ![t] = w] /\ missed' = [missed EXCEPT ![t] = missed[t]]
    BY <1>6 DEF PollRaises, WaitsInv
  <2>3. faults' \in 0 .. MaxFaults /\ restarts' \in 0 .. MaxRestarts
    BY <1>6, <1>a, <1>c DEF PollRaises
  <2> HIDE DEF w
  <2> QED
    BY <2>1, <2>2, <2>3, OneWaitMoves
<1>7. ASSUME NEW t \in Turns, Wakes(t) PROVE WaitsInv'
  <2> DEFINE w == [wait[t] EXCEPT !.at = "poll", !.spent = wait[t].spent + wait[t].interval,
                                  !.interval = Doubled(wait[t].interval)]
  <2>0. /\ Patient(wait[t], missed[t]) /\ wait[t] \in Wait /\ wait[t].at = "sleep"
        /\ missed[t] <= PollLimit /\ missed[t] \in Nat
        /\ wait[t].spent < Allowed(missed[t]) /\ wait[t].spent \in Nat
        /\ wait[t].interval \in PollMin .. PollMax
    BY <1>7, <1>b DEF Wakes, Patient, Wait
  <2>1. Doubled(wait[t].interval) \in PollMin .. PollMax
    BY <1>a, <2>0 DEF Doubled
  <2>2. w.spent < Allowed(missed[t] + 1) /\ w.spent \in Nat /\ w.spent = wait[t].spent + wait[t].interval
    BY <1>a, <2>0, AllowanceGrows DEF Wait
  <2>3. Allowed(missed[t] + 1) <= Allowed(PollLimit + 1)
    BY <1>a, <2>0, AllowanceIsMonotone
  <2>4. Allowed(missed[t] + 1) \in Nat /\ Allowed(PollLimit + 1) \in Nat
    BY <1>a, <2>0, AllowanceGrows
  <2>5. w.spent < Allowed(PollLimit + 1)
    BY <2>2, <2>3, <2>4
  <2>6. w \in Wait
    BY <2>0, <2>1, <2>2 DEF Wait
  <2>7. w.at = "poll" /\ w.job = wait[t].job /\ w.end = wait[t].end /\ w.fails = wait[t].fails
    BY <2>0 DEF Wait
  <2>8. wait' = [wait EXCEPT ![t] = w]
    BY <1>7 DEF Wakes
  <2>10. missed' = [missed EXCEPT ![t] = missed[t]]
    BY <1>7 DEF Wakes, WaitsInv
  <2> HIDE DEF w
  <2>9. Patient(w, missed[t])
    BY <2>0, <2>2, <2>5, <2>6, <2>7 DEF Patient
  <2> QED
    BY <1>7, <1>c, <2>8, <2>9, <2>10, OneWaitMoves DEF Wakes, budgets
<1>8. CASE Restarts
  <2>1. wait' = [t \in Turns |-> Idle] /\ missed' = [t \in Turns |-> 0]
    BY <1>8 DEF Restarts
  <2>2. Idle \in Wait
    BY NewWaitIsPatient DEF Patient
  <2>3. faults' \in 0 .. MaxFaults /\ restarts' \in 0 .. MaxRestarts
    BY <1>8, <1>a, <1>c DEF Restarts
  <2> QED
    BY <2>1, <2>2, <2>3, NewWaitIsPatient DEF WaitsInv
<1>9. ASSUME NEW j \in Jobs, NEW says, Lists(j, says) PROVE WaitsInv'
  <2>1. faults' \in 0 .. MaxFaults
    BY <1>9, <1>a, <1>c DEF Lists
  <2> QED
    BY <1>9, <2>1 DEF Lists, WaitsInv
<1>10. ASSUME UNCHANGED <<wait, missed, faults, restarts>> PROVE WaitsInv'
  BY <1>10 DEF WaitsInv
<1>11. ASSUME NEW j \in Jobs, Cancels(j) \/ ProviderMoves(j) \/ Lapses(j) \/ Recalls(j) PROVE WaitsInv'
  BY <1>11, <1>10 DEF Cancels, ProviderMoves, Lapses, Recalls, budgets
<1>12. ASSUME NEW t \in Turns, NEW j \in Jobs, NEW s, NEW c, NEW v, Submits(t, j, s, c, v) PROVE WaitsInv'
  BY <1>12, <1>10 DEF Submits, budgets
<1>13. CASE UNCHANGED vars
  BY <1>13, <1>10 DEF vars
<1> QED
  BY <1>1, <1>2, <1>3, <1>4, <1>5, <1>6, <1>7, <1>8, <1>9, <1>11, <1>12, <1>13 DEF Next, Polls

-----------------------------------------------------------------------------

LEMMA JobsStart == Init => JobsInv
BY DEF Init, JobsInv, GateHolds, ChoiceFollowsResult, FinishedRowsAreFinal, ChoicesAreSomewhere, Terminal, Live

\* Whatever the gate lets through is within the caps or confirmed.
LEMMA GateIsTight ==
    ASSUME NEW size \in Sizes \cup {Unpriced}, NEW confirmed \in BOOLEAN, Gate(size, confirmed) = "submit"
    PROVE  /\ size \in Nat => size <= HardCap
           /\ confirmed \/ (size \in Nat /\ size <= SoftCap)
BY RetrievalAssumption DEF Gate

LEMMA JobsStepsKeep == JobsInv /\ WaitsInv /\ [Next]_vars => JobsInv'
<1> SUFFICES ASSUME JobsInv, WaitsInv, [Next]_vars PROVE JobsInv'
  OBVIOUS
<1>1. ASSUME UNCHANGED <<provider, terms, registries, cached>> PROVE JobsInv'
  BY <1>1 DEF registries, JobsInv, GateHolds, ChoiceFollowsResult, FinishedRowsAreFinal, ChoicesAreSomewhere
<1>2. ASSUME NEW t \in Turns, NEW j \in Jobs, NEW s \in Sizes \cup {Unpriced}, NEW c \in BOOLEAN,
             NEW v \in {"one", "several"}, Submits(t, j, s, c, v)
      PROVE  JobsInv'
  <2>1. Gate(s, c) = "submit" /\ provider[j] = "none"
    BY <1>2 DEF Submits
  <2>2. /\ s \in Nat => s <= HardCap
        /\ c \/ (s \in Nat /\ s <= SoftCap)
    BY <2>1, GateIsTight
  <2>3. /\ provider' = [provider EXCEPT ![j] = "running"]
        /\ terms' = [terms EXCEPT ![j] = [size |-> s, confirmed |-> c]]
        /\ asked' = [asked EXCEPT ![j] = v]
        /\ pending' = IF v = "one" THEN pending \cup {j} ELSE pending
        /\ told' = told \cup {j} /\ UNCHANGED <<kept, lapsed, cached, learnt>>
    BY <1>2 DEF Submits, RecordsPending, Narrates
  <2>4. GateHolds'
    BY <2>2, <2>3 DEF JobsInv, GateHolds
  <2>5. cached[j] = "none" /\ j \notin learnt
    BY <2>1 DEF JobsInv, FinishedRowsAreFinal, ChoicesAreSomewhere, Terminal
  <2>6. FinishedRowsAreFinal' /\ ChoiceFollowsResult' /\ ChoicesAreSomewhere'
    BY <2>3, <2>5 DEF JobsInv, FinishedRowsAreFinal, ChoiceFollowsResult, ChoicesAreSomewhere
  <2>7. [size |-> s, confirmed |-> c] \in [size : Sizes \cup {0, Unpriced}, confirmed : BOOLEAN]
    OBVIOUS
  <2> QED
    BY <2>3, <2>4, <2>6, <2>7 DEF JobsInv, Live
<1>3. ASSUME NEW t \in Turns, NEW j \in Jobs, SubmitsSeries(t, j) PROVE JobsInv'
  <2>1. /\ provider[j] = "none"
        /\ provider' = [provider EXCEPT ![j] = "running"]
        /\ terms' = [terms EXCEPT ![j] = [size |-> 0, confirmed |-> FALSE]]
        /\ asked' = [asked EXCEPT ![j] = "several"]
        /\ told' = told \cup {j} /\ UNCHANGED <<pending, kept, lapsed, cached, learnt>>
    BY <1>3 DEF SubmitsSeries, Narrates
  <2>2. GateHolds'
    BY <2>1, RetrievalAssumption DEF JobsInv, GateHolds
  <2>3. cached[j] = "none" /\ j \notin learnt
    BY <2>1 DEF JobsInv, FinishedRowsAreFinal, ChoicesAreSomewhere, Terminal
  <2>4. FinishedRowsAreFinal' /\ ChoiceFollowsResult' /\ ChoicesAreSomewhere'
    BY <2>1, <2>3 DEF JobsInv, FinishedRowsAreFinal, ChoiceFollowsResult, ChoicesAreSomewhere
  <2>5. [size |-> 0, confirmed |-> FALSE] \in [size : Sizes \cup {0, Unpriced}, confirmed : BOOLEAN]
    OBVIOUS
  <2> QED
    BY <2>1, <2>2, <2>4, <2>5 DEF JobsInv, Live
<1>4. ASSUME NEW t \in Turns, PollEnds(t) PROVE JobsInv'
  <2> DEFINE j == wait[t].job
  <2>0. j \in Jobs
    BY <1>4 DEF WaitsInv, Patient, PollEnds
  <2> HIDE DEF j
  <2>1. /\ UNCHANGED <<provider, terms, asked, cached, lapsed>>
        /\ told' = told \ {j}
    BY <1>4 DEF PollEnds, StopsNarrating, j
  <2>2. CASE provider[j] = "ready"
    <3>1. pending' = pending \ {j} /\ kept' = kept \cup (pending \cap {j}) /\ learnt' = learnt \cup {j}
      BY <1>4, <2>2 DEF PollEnds, Finalised, j
    <3> QED
      BY <2>0, <2>1, <2>2, <3>1
         DEF JobsInv, GateHolds, ChoiceFollowsResult, FinishedRowsAreFinal, ChoicesAreSomewhere
  <2>3. CASE provider[j] # "ready"
    <3>1. UNCHANGED <<pending, kept, learnt>>
      BY <1>4, <2>3 DEF PollEnds, j
    <3> QED
      BY <2>1, <3>1 DEF JobsInv, GateHolds, ChoiceFollowsResult, FinishedRowsAreFinal, ChoicesAreSomewhere
  <2> QED
    BY <2>2, <2>3
<1>5. ASSUME NEW j \in Jobs, NEW says, Lists(j, says) PROVE JobsInv'
  <2>1. /\ UNCHANGED <<provider, terms, asked, pending, kept, lapsed, told, learnt>>
        /\ cached' = [cached EXCEPT ![j] = IF says \in Terminal THEN says ELSE cached[j]]
        /\ (cached[j] # "none" /\ says = cached[j]) \/ says \in {provider[j], "error"}
    BY <1>5 DEF Lists, registries, Cacheable, JobsInv
  <2>2. FinishedRowsAreFinal'
    <3>1. \A i \in Jobs : i # j => cached'[i] = cached[i]
      BY <2>1 DEF JobsInv
    <3>2. cached'[j] = IF says \in Terminal THEN says ELSE cached[j]
      BY <2>1 DEF JobsInv
    <3>3. cached'[j] # "none" => provider[j] \in {cached'[j], "not_found"}
      BY <2>1, <3>2 DEF JobsInv, FinishedRowsAreFinal, Terminal
    <3> QED
      BY <2>1, <3>1, <3>3 DEF JobsInv, FinishedRowsAreFinal
  <2> QED
    BY <2>1, <2>2 DEF JobsInv, GateHolds, ChoiceFollowsResult, ChoicesAreSomewhere
<1>6. ASSUME NEW j \in Jobs, Cancels(j) \/ ProviderMoves(j) PROVE JobsInv'
  <2>1. PICK s \in Terminal \cup Live : /\ provider' = [provider EXCEPT ![j] = s]
                                        /\ provider[j] # "none"
                                        /\ provider[j] \in Terminal => s = "not_found"
    BY <1>6 DEF Cancels, ProviderMoves, Terminal, Live
  <2>2. UNCHANGED <<terms, asked, pending, kept, lapsed, told, learnt, cached>>
    BY <1>6 DEF Cancels, ProviderMoves, registries
  <2>3. FinishedRowsAreFinal'
    <3>1. cached[j] # "none" => provider[j] \in Terminal
      BY DEF JobsInv, FinishedRowsAreFinal, Terminal
    <3>2. \A i \in Jobs : i # j => provider'[i] = provider[i]
      BY <2>1 DEF JobsInv
    <3>3. provider'[j] = s
      BY <2>1 DEF JobsInv
    <3> QED
      BY <2>1, <2>2, <3>1, <3>2, <3>3 DEF JobsInv, FinishedRowsAreFinal
  <2>4. GateHolds' /\ ChoiceFollowsResult' /\ ChoicesAreSomewhere'
    BY <2>1, <2>2 DEF JobsInv, GateHolds, ChoiceFollowsResult, ChoicesAreSomewhere, Terminal, Live
  <2> QED
    BY <2>1, <2>2, <2>3, <2>4 DEF JobsInv
<1>7. CASE Restarts
  BY <1>7 DEF Restarts, JobsInv, GateHolds, ChoiceFollowsResult, FinishedRowsAreFinal, ChoicesAreSomewhere
<1>8. ASSUME NEW t \in Turns,
             PollFindsPaused(t) \/ PollGoesOn(t) \/ PollMisses(t) \/ PollRaises(t) \/ Wakes(t)
      PROVE  JobsInv'
  BY <1>8, <1>1 DEF PollFindsPaused, PollGoesOn, PollMisses, PollRaises, Wakes
<1>9. ASSUME NEW t \in Turns, NEW j \in Jobs, Awaits(t, j) PROVE JobsInv'
  BY <1>9, <1>1 DEF Awaits
<1>10. CASE UNCHANGED vars
  BY <1>10, <1>1 DEF vars, registries
<1>11. ASSUME NEW j \in Jobs, Lapses(j) PROVE JobsInv'
  BY <1>11 DEF Lapses, JobsInv, GateHolds, ChoiceFollowsResult, FinishedRowsAreFinal, ChoicesAreSomewhere
<1>12. ASSUME NEW j \in Jobs, Recalls(j) PROVE JobsInv'
  BY <1>12 DEF Recalls, JobsInv, GateHolds, ChoiceFollowsResult, FinishedRowsAreFinal, ChoicesAreSomewhere
<1> QED
  BY <1>2, <1>3, <1>4, <1>5, <1>6, <1>7, <1>8, <1>9, <1>10, <1>11, <1>12 DEF Next, Polls

-----------------------------------------------------------------------------

LEMMA Invariance == Spec => [](WaitsInv /\ JobsInv)
BY WaitsStart, WaitsStepsKeep, JobsStart, JobsStepsKeep, PTL DEF Spec

\* Nothing large starts unconfirmed, waits forgive blips and are bounded, a
\* choice follows its result and a final row stays true, for any turns, jobs,
\* estimates, caps and intervals.
THEOREM RetrievalsStayFaithful == Spec => []RetrievalsKeepFaith
<1>1. WaitsInv /\ JobsInv => RetrievalsKeepFaith
  <2> SUFFICES ASSUME WaitsInv, JobsInv PROVE RetrievalsKeepFaith
    OBVIOUS
  <2>1. TypeOK
    BY DEF WaitsInv, JobsInv, TypeOK, Wait
  <2>2. BlipsAreForgiven
    BY DEF WaitsInv, Patient, BlipsAreForgiven
  <2>3. WaitsAreBounded
    BY DEF WaitsInv, Patient, WaitsAreBounded, Allowed
  <2> QED
    BY <2>1, <2>2, <2>3 DEF JobsInv, RetrievalsKeepFaith
<1> QED
  BY <1>1, Invariance, PTL

-----------------------------------------------------------------------------
(* The least, the greatest and the image of finitely many things. *)

\* What finitely many things are mapped to is finite.
LEMMA FiniteImage ==
    ASSUME NEW S, IsFiniteSet(S), NEW f
    PROVE  IsFiniteSet({f[x] : x \in S})
<1> DEFINE T == {f[x] : x \in S}
           g == [x \in S |-> f[x]]
<1>1. g \in Surjection(S, T)
  BY DEF Surjection
<1> HIDE DEF T, g
<1>2. IsFiniteSet(T)
  BY <1>1, FS_Surjection
<1> QED
  BY <1>2 DEF T

\* A strict order on finitely many things has one that nothing is below.
LEMMA Bottom ==
    ASSUME NEW S, IsFiniteSet(S), S # {}, NEW R,
           \A x \in S : <<x, x>> \notin R,
           \A x, y, z \in S : <<x, y>> \in R /\ <<y, z>> \in R => <<x, z>> \in R
    PROVE  \E x \in S : \A y \in S : <<y, x>> \notin R
<1> DEFINE Under(x) == {y \in S : <<y, x>> \in R}
           sizes == {Cardinality(Under(x)) : x \in S}
<1>1. \A x \in S : IsFiniteSet(Under(x)) /\ Cardinality(Under(x)) \in Nat
  BY FS_Subset, FS_CardinalityType
<1>2. PICK k \in sizes : \A j \in sizes : k <= j
  <2> HIDE DEF Under
  <2>1. sizes \in SUBSET Nat /\ sizes # {}
    BY <1>1
  <2> HIDE DEF sizes
  <2> QED
    BY <2>1, LeastNatural
<1>3. PICK x \in S : k = Cardinality(Under(x))
  OBVIOUS
<1>4. ASSUME NEW y \in S, <<y, x>> \in R PROVE FALSE
  <2>1. Under(y) \in SUBSET Under(x) /\ y \in Under(x) /\ y \notin Under(y)
    BY <1>4
  <2>2. Cardinality(Under(y)) \in sizes
    OBVIOUS
  <2> HIDE DEF Under, sizes
  <2>3. Cardinality(Under(y)) <= Cardinality(Under(x)) /\ Cardinality(Under(y)) # Cardinality(Under(x))
    BY <2>1, <1>1, FS_Subset
  <2> QED
    BY <1>1, <1>2, <1>3, <2>2, <2>3
<1> QED
  BY <1>4

\* The least and the greatest of finitely many whole numbers.
LEMMA Extremes ==
    ASSUME NEW S \in SUBSET Int, IsFiniteSet(S), S # {}
    PROVE  /\ Min(S) \in S /\ \A x \in S : Min(S) <= x
           /\ Max(S) \in S /\ \A x \in S : x <= Max(S)
<1> DEFINE Less == {p \in S \X S : p[1] < p[2]}
           More == {p \in S \X S : p[1] > p[2]}
<1>1. /\ \A x, y \in S : <<x, y>> \in Less <=> x < y
      /\ \A x, y \in S : <<x, y>> \in More <=> x > y
  OBVIOUS
<1>2. /\ \A x \in S : <<x, x>> \notin Less /\ <<x, x>> \notin More
      /\ \A x, y, z \in S : <<x, y>> \in Less /\ <<y, z>> \in Less => <<x, z>> \in Less
      /\ \A x, y, z \in S : <<x, y>> \in More /\ <<y, z>> \in More => <<x, z>> \in More
  BY <1>1
<1>0. \A x, y \in S : (~(y < x) <=> x <= y) /\ (~(y > x) <=> x >= y)
  OBVIOUS
<1> HIDE DEF Less, More
<1>3. \E x \in S : \A y \in S : <<y, x>> \notin Less
  BY <1>2, Bottom
<1>4. \E x \in S : \A y \in S : <<y, x>> \notin More
  BY <1>2, Bottom
<1>5. \E x \in S : \A y \in S : x <= y
  BY <1>0, <1>1, <1>3
<1>6. \E x \in S : \A y \in S : x >= y
  BY <1>0, <1>1, <1>4
<1>7. Min(S) \in S /\ \A y \in S : Min(S) <= y
  BY <1>5 DEF Min
<1>8. Max(S) \in S /\ \A y \in S : Max(S) >= y
  BY <1>6, Zenon DEF Max
<1>9. \A y \in S : Max(S) >= y => y <= Max(S)
  BY <1>8
<1> QED
  BY <1>7, <1>8, <1>9

\* Least, greatest and size are the same whichever module asks for them.
LEMMA SameExtremes ==
    ASSUME NEW S
    PROVE  /\ Areas!Min(S) = Min(S) /\ Areas!Max(S) = Max(S)
           /\ Level!Min(S) = Min(S) /\ Level!Max(S) = Max(S)
  BY DEF Min, Max, Areas!Min, Areas!Max, Level!Min, Level!Max

LEMMA SameSizes == ASSUME NEW S PROVE Level!Cardinality(S) = Cardinality(S)
  BY DEF Cardinality, Level!Cardinality

-----------------------------------------------------------------------------
(* Words for places. *)

\* Rounding down and up to the unit an extent is written in.
LEMMA Rounding ==
    ASSUME NEW v \in Int
    PROVE  /\ Areas!Floor(v) \in Int /\ Areas!Floor(v) <= v /\ v < Areas!Floor(v) + Areas!Unit
           /\ Areas!Ceil(v) \in Int /\ v <= Areas!Ceil(v)
<1>1. \A x \in Int : x % 10 \in 0 .. 9
  OBVIOUS
<1>2. \A x \in Int : Areas!Floor(x) \in Int /\ Areas!Floor(x) <= x /\ x < Areas!Floor(x) + 10
  BY <1>1 DEF Areas!Floor, Areas!Unit
<1> QED
  BY <1>2 DEF Areas!Ceil, Areas!Unit

\* What is written for an extent covers it, to half a unit or altogether.
LEMMA BoxesCover ==
    ASSUME NEW g \in Areas!Spans
    PROVE  /\ Areas!_bbox_string(g)[1] <= g[1] + 5 /\ Areas!_bbox_string(g)[2] >= g[2] - 5
           /\ Areas!_outward_bbox(g)[1] <= g[1] /\ Areas!_outward_bbox(g)[2] >= g[2]
<1>1. g[1] \in Int /\ g[2] \in Int /\ g[1] + 5 \in Int /\ g[2] + 5 \in Int
  BY DEF Areas!Spans
<1>2. Areas!Unit \div 2 = 5
  BY DEF Areas!Unit
<1> HIDE DEF Areas!Unit
<1>3. Areas!Unit = 10
  BY DEF Areas!Unit
<1> QED
  BY <1>1, <1>2, <1>3, Rounding DEF Areas!_bbox_string, Areas!_outward_bbox

\* A member token's outline is one extent, or none.
LEMMA MembersAreSpans ==
    ASSUME NEW c, Areas!IsPlaceCase(c), NEW token
    PROVE  Areas!Members(c.w, token) \in SUBSET Areas!Spans /\ IsFiniteSet(Areas!Members(c.w, token))
<1> DEFINE w == c.w
           state == Areas!Target(w.postal, token)
           named == Areas!Target(w.synonyms, Areas!Target(w.suffixed, token))
<1>1. /\ w.presets \in [Areas!Keys(w.presets) -> Areas!Spans] /\ w.polygons \in [Areas!Keys(w.polygons) -> Areas!Spans]
      /\ w.countries \in [Areas!Keys(w.countries) -> Areas!Spans] /\ w.states \subseteq Areas!Keys(w.presets)
  BY DEF Areas!IsPlaceCase, Areas!Starts, Areas!Shipped
<1>2. /\ IsFiniteSet({})
      /\ \A x : IsFiniteSet({x})
  BY FS_EmptySet, FS_Singleton
<1> HIDE DEF w, state, named
<1>3. Areas!_country_geometry(w, token) \in SUBSET Areas!Spans /\ IsFiniteSet(Areas!_country_geometry(w, token))
  <2>1. CASE named \in Areas!Keys(w.countries)
    BY <1>1, <1>2, <2>1 DEF Areas!_country_geometry, Areas!Lookup, named, Areas!Keys
  <2>2. CASE named \notin Areas!Keys(w.countries)
    BY <1>2, <2>2 DEF Areas!_country_geometry, Areas!Lookup, named
  <2> QED
    BY <2>1, <2>2
<1>4. state \in w.states => Areas!_finalize_preset(w, state) \in Areas!Spans
  BY <1>1 DEF Areas!_finalize_preset, Areas!Keys
<1> QED
  BY <1>2, <1>3, <1>4 DEF Areas!Members, w, state

\* A composite that resolves is whole, and each of its members has an outline.
LEMMA CompositesAreSpans ==
    ASSUME NEW c, Areas!IsPlaceCase(c), Areas!dispatch_composite(c.w, c.n).is = "region"
    PROVE  /\ Areas!dispatch_composite(c.w, c.n).bounds \in Areas!Spans
           /\ Areas!Width(Areas!dispatch_composite(c.w, c.n).bounds) <= Areas!Ceiling
           /\ \A t \in Areas!Range(c.n.parts) : Areas!Members(c.w, c.w.plain[t]) # {}
<1> DEFINE w == c.w
           n == c.n
           outlines == {Areas!Members(w, w.plain[t]) : t \in Areas!Range(n.parts)}
           all == UNION outlines
           union == Areas!Hull(all)
<1>1. /\ {} \notin outlines /\ ~(Areas!Width(union) > Areas!Ceiling)
      /\ Areas!dispatch_composite(w, n).bounds = union
  BY DEF Areas!dispatch_composite, Areas!Refused, Areas!Region
<1>2. PICK S : n.parts \in Seq(S) /\ n.parts # << >>
  BY DEF Areas!IsPlaceCase
<1>3. IsFiniteSet(Areas!Range(n.parts)) /\ Areas!Range(n.parts) # {}
  <2>1. n.parts \in [1 .. Len(n.parts) -> S] /\ Len(n.parts) \in Nat /\ Len(n.parts) # 0
    BY <1>2
  <2> HIDE DEF w, n
  <2>2. DOMAIN n.parts = 1 .. Len(n.parts)
    BY <2>1
  <2>3. Areas!Range(n.parts) = {n.parts[i] : i \in 1 .. Len(n.parts)}
    BY <2>2 DEF Areas!Range
  <2>4. IsFiniteSet(1 .. Len(n.parts)) /\ 1 \in 1 .. Len(n.parts)
    <3> DEFINE k == Len(n.parts)
    <3>1. k \in Int /\ 1 <= k /\ 1 \in Int
      BY <2>1
    <3> HIDE DEF k
    <3>2. IsFiniteSet(1 .. k) /\ 1 \in 1 .. k
      BY <3>1, FS_Interval
    <3> QED
      BY <3>2 DEF k
  <2>5. IsFiniteSet({n.parts[i] : i \in 1 .. Len(n.parts)})
    BY <2>4, FiniteImage
  <2> QED
    BY <2>3, <2>4, <2>5
<1>4. IsFiniteSet(outlines) /\ outlines # {}
  <2> DEFINE f == [t \in Areas!Range(n.parts) |-> Areas!Members(w, w.plain[t])]
  <2>1. outlines = {f[t] : t \in Areas!Range(n.parts)}
    OBVIOUS
  <2> HIDE DEF f, outlines, n
  <2>2. IsFiniteSet({f[t] : t \in Areas!Range(n.parts)})
    BY <1>3, FiniteImage
  <2> QED
    BY <2>1, <2>2, <1>3
<1>5. \A o \in outlines : IsFiniteSet(o) /\ o \in SUBSET Areas!Spans
  BY MembersAreSpans
<1>6. IsFiniteSet(all) /\ all \in SUBSET Areas!Spans /\ all # {}
  <2> HIDE DEF outlines
  <2>1. IsFiniteSet(all)
    BY <1>4, <1>5, FS_UNION
  <2>2. PICK o \in outlines : TRUE
    BY <1>4
  <2>3. o # {}
    BY <1>1, <2>2
  <2>4. PICK g \in o : TRUE
    BY <2>3
  <2>5. g \in all
    BY <2>2, <2>4
  <2>6. \A x \in all : x \in Areas!Spans
    BY <1>5
  <2> QED
    BY <2>1, <2>5, <2>6
<1>7. union \in Areas!Spans
  <2> HIDE DEF all
  <2>1. {g[1] : g \in all} \in SUBSET Int /\ {g[2] : g \in all} \in SUBSET Int
    BY <1>6 DEF Areas!Spans
  <2>2. IsFiniteSet({g[1] : g \in all}) /\ IsFiniteSet({g[2] : g \in all})
    <3> DEFINE low == [g \in all |-> g[1]]
               high == [g \in all |-> g[2]]
    <3>1. {low[g] : g \in all} = {g[1] : g \in all} /\ {high[g] : g \in all} = {g[2] : g \in all}
      OBVIOUS
    <3> HIDE DEF low, high
    <3>2. IsFiniteSet({low[g] : g \in all}) /\ IsFiniteSet({high[g] : g \in all})
      BY <1>6, FiniteImage
    <3> QED
      BY <3>1, <3>2
  <2>3. {g[1] : g \in all} # {} /\ {g[2] : g \in all} # {}
    BY <1>6
  <2>4. Areas!Min({g[1] : g \in all}) \in Int /\ Areas!Max({g[2] : g \in all}) \in Int
    BY <2>1, <2>2, <2>3, Extremes, SameExtremes
  <2> QED
    BY <2>4 DEF Areas!Hull, Areas!Spans
<1>8. Areas!Width(union) <= Areas!Ceiling
  <2> HIDE DEF union
  <2>1. Areas!Width(union) \in Int /\ Areas!Ceiling \in Int
    BY <1>7 DEF Areas!Width, Areas!Spans, Areas!Ceiling
  <2> QED
    BY <1>1, <2>1
<1> QED
  BY <1>1, <1>7, <1>8

\* The box _bbox_string and _outward_bbox write for a place's words covers the
\* boundary resolve_location masks by for the same words, to half a written unit
\* and for a buffer exactly, whichever outlines failed to load.
THEOREM PlacesAreCovered == ASSUME NEW c, Areas!IsPlaceCase(c) PROVE Areas!RetrievalCoversTheMask(c)
<1> DEFINE w == c.w
           n == c.n
           sent == Areas!region_aware_area_of_interest(w, n)
           mask == Areas!resolve_location(w, n)
<1> SUFFICES ASSUME sent.is = "box"
             PROVE  /\ mask.is = "region"
                    /\ sent.bounds[1] <= mask.bounds[1] + Areas!Slack(n)
                    /\ sent.bounds[2] >= mask.bounds[2] - Areas!Slack(n)
  BY DEF Areas!RetrievalCoversTheMask
<1>1. /\ n.form \in {"plain", "sum", "within"} /\ Areas!Slack(n) = IF n.form = "within" THEN 0 ELSE 5
      /\ w.presets \in [Areas!Keys(w.presets) -> Areas!Spans] /\ w.polygons \in [Areas!Keys(w.polygons) -> Areas!Spans]
  BY DEF Areas!IsPlaceCase, Areas!Slack, Areas!Unit
<1>2. CASE n.form = "sum"
  <2> DEFINE r == Areas!dispatch_composite(w, n)
  <2>1. /\ sent = IF r.is = "region" THEN Areas!Box(Areas!_bbox_string(r.bounds)) ELSE Areas!Refused
        /\ mask = r
    BY <1>2 DEF Areas!region_aware_area_of_interest, Areas!resolve_location
  <2>2. r.is = "region" /\ sent.bounds = Areas!_bbox_string(r.bounds)
    <3> HIDE DEF r, sent, mask
    <3> QED
      BY <2>1 DEF Areas!Box, Areas!Refused
  <2>3. r.bounds \in Areas!Spans
    BY <2>2, CompositesAreSpans
  <2>5. Areas!Slack(n) = 5
    BY <1>1, <1>2
  <2> HIDE DEF r, sent, mask, w, n
  <2>6. /\ r.bounds[1] \in Int /\ r.bounds[2] \in Int
        /\ Areas!_bbox_string(r.bounds)[1] <= r.bounds[1] + 5 /\ Areas!_bbox_string(r.bounds)[2] >= r.bounds[2] - 5
    BY <2>3, BoxesCover DEF Areas!Spans
  <2>7. mask = r /\ r.is = "region" /\ sent.bounds = Areas!_bbox_string(r.bounds)
    BY <2>1, <2>2
  <2> QED
    BY <2>5, <2>6, <2>7
<1>3. CASE n.form = "within"
  <2> DEFINE r == Areas!dispatch_buffer(w, n)
             place == w.gazetteer[n.parts[1]]
  <2>1. /\ sent = IF r.is = "region" THEN Areas!Box(Areas!_outward_bbox(r.bounds)) ELSE Areas!Refused
        /\ mask = r
    BY <1>3 DEF Areas!region_aware_area_of_interest, Areas!resolve_location
  <2>2. r.is = "region" /\ sent.bounds = Areas!_outward_bbox(r.bounds)
    <3> HIDE DEF r, sent, mask
    <3> QED
      BY <2>1 DEF Areas!Box, Areas!Refused
  <2>3. n.parts[1] \in Areas!Keys(w.gazetteer) /\ r.bounds = Areas!Disc(place, n.radius)
    BY <2>2 DEF Areas!dispatch_buffer, Areas!Refused, Areas!Region
  <2>4. r.bounds \in Areas!Spans
    <3>1. place.at \in Int /\ n.radius \in Int
      BY <2>3 DEF Areas!IsPlaceCase
    <3> HIDE DEF r, place, n, w
    <3> QED
      BY <2>3, <3>1 DEF Areas!Disc, Areas!Spans
  <2>5. Areas!Slack(n) = 0
    BY <1>1, <1>3
  <2> HIDE DEF r, sent, mask, w, n
  <2>6. /\ r.bounds[1] \in Int /\ r.bounds[2] \in Int
        /\ Areas!_outward_bbox(r.bounds)[1] <= r.bounds[1] /\ Areas!_outward_bbox(r.bounds)[2] >= r.bounds[2]
    BY <2>4, BoxesCover DEF Areas!Spans
  <2>7. mask = r /\ r.is = "region" /\ sent.bounds = Areas!_outward_bbox(r.bounds)
    BY <2>1, <2>2
  <2> QED
    BY <2>5, <2>6, <2>7
<1>4. CASE n.form = "plain"
  <2> DEFINE word == w.plain[n.parts[1]]
             target == Areas!Target(w.aliases, word)
             claimed == Areas!dispatch_extent(w, word)
  <2>1. claimed # {} /\ sent \in claimed
    BY <1>4 DEF Areas!region_aware_area_of_interest, Areas!Words
  <2>2. ASSUME NEW g \in Areas!Spans, sent = Areas!Box(Areas!_bbox_string(g)), mask = Areas!Region(g, FALSE)
        PROVE  /\ mask.is = "region"
               /\ sent.bounds[1] <= mask.bounds[1] + Areas!Slack(n)
               /\ sent.bounds[2] >= mask.bounds[2] - Areas!Slack(n)
    <3> HIDE DEF sent, mask
    <3> QED
      BY <1>1, <1>4, <2>2, BoxesCover DEF Areas!Box, Areas!Region
  <2>3. CASE target \in w.coalitions
    <3>1. sent = IF target \in Areas!Keys(w.polygons) THEN Areas!Box(Areas!_bbox_string(w.polygons[target])) ELSE Areas!Refused
      BY <2>1, <2>3 DEF Areas!dispatch_extent
    <3>2. target \in Areas!Keys(w.polygons)
      <4>1. Areas!Refused.is = "refused"
        BY DEF Areas!Refused
      <4> HIDE DEF sent, word, target, claimed
      <4> QED
        BY <3>1, <4>1
    <3>3. Areas!dispatch(w, word) = {Areas!Region(w.polygons[target], FALSE)}
      BY <2>3, <3>2 DEF Areas!dispatch
    <3>4. mask = Areas!Region(w.polygons[target], FALSE)
      BY <1>4, <3>3 DEF Areas!resolve_location
    <3> QED
      BY <1>1, <2>2, <3>1, <3>2, <3>4
  <2>4. CASE target \notin w.coalitions
    <3>1. word \in Areas!Keys(w.aliases) \cup w.states /\ target \in Areas!Keys(w.presets)
          /\ sent = Areas!Box(Areas!_bbox_string(w.presets[target]))
      <4>1. claimed = IF word \in Areas!Keys(w.aliases) \cup w.states
                      THEN {IF target \in Areas!Keys(w.presets) THEN Areas!Box(Areas!_bbox_string(w.presets[target])) ELSE Areas!Refused}
                      ELSE {}
        BY <2>4 DEF Areas!dispatch_extent
      <4>2. Areas!Refused.is = "refused"
        BY DEF Areas!Refused
      <4> HIDE DEF claimed, sent, word, target
      <4> QED
        BY <2>1, <4>1, <4>2
    <3>2. target \in Areas!Keys(w.polygons) => target \in w.states
      BY <2>4, <3>1 DEF Areas!IsPlaceCase, Areas!Starts, Areas!Shipped, Areas!Target
    <3>3. Areas!_finalize_preset(w, target) = w.presets[target]
      BY <3>2 DEF Areas!IsPlaceCase, Areas!Starts, Areas!Shipped, Areas!Lookup, Areas!_finalize_preset
    <3>4. mask = Areas!Region(w.presets[target], FALSE)
      <4>1. CASE word \in Areas!Keys(w.aliases)
        <5>1. Areas!dispatch(w, word) = {Areas!Region(w.presets[target], FALSE)}
          BY <2>4, <3>3, <4>1 DEF Areas!dispatch
        <5> QED
          BY <1>4, <5>1 DEF Areas!resolve_location
      <4>2. CASE word \notin Areas!Keys(w.aliases)
        <5>1. target = word /\ Areas!dispatch(w, word) = {}
          BY <2>4, <4>2 DEF Areas!dispatch, Areas!Target
        <5> QED
          BY <1>4, <3>1, <3>3, <5>1 DEF Areas!resolve_location
      <4> QED
        BY <4>1, <4>2
    <3> QED
      BY <1>1, <2>2, <3>1, <3>4
  <2> QED
    BY <2>3, <2>4
<1> QED
  BY <1>1, <1>2, <1>3, <1>4

\* Words the retrieval plane refuses (an unloaded coalition, an unknown or
\* oversized member, a bad radius) get no mask either, and no geocoder's guess.
THEOREM FailedClaimsFail == ASSUME NEW c, Areas!IsPlaceCase(c) PROVE Areas!FailedClaimsStayFailed(c)
<1> DEFINE w == c.w
           n == c.n
           sent == Areas!region_aware_area_of_interest(w, n)
           mask == Areas!resolve_location(w, n)
<1> SUFFICES ASSUME sent.is = "refused" PROVE mask.is # "region" /\ ~mask.geocoded
  BY DEF Areas!FailedClaimsStayFailed
<1>1. n.form \in {"plain", "sum", "within"}
  BY DEF Areas!IsPlaceCase
<1>2. CASE n.form = "sum"
  <2>1. Areas!dispatch_composite(w, n).is # "region"
    BY <1>2 DEF Areas!region_aware_area_of_interest, Areas!Box
  <2>2. Areas!dispatch_composite(w, n) = Areas!Refused
    BY <2>1 DEF Areas!dispatch_composite, Areas!Region
  <2> QED
    BY <1>2, <2>2 DEF Areas!resolve_location, Areas!Refused
<1>3. CASE n.form = "within"
  <2>1. Areas!dispatch_buffer(w, n).is # "region"
    BY <1>3 DEF Areas!region_aware_area_of_interest, Areas!Box
  <2>2. Areas!dispatch_buffer(w, n) = Areas!Refused
    BY <2>1 DEF Areas!dispatch_buffer, Areas!Region
  <2> QED
    BY <1>3, <2>2 DEF Areas!resolve_location, Areas!Refused
<1>4. CASE n.form = "plain"
  <2> DEFINE word == w.plain[n.parts[1]]
             target == Areas!Target(w.aliases, word)
             claimed == Areas!dispatch_extent(w, word)
  <2>1. claimed # {} /\ sent \in claimed
    BY <1>4 DEF Areas!region_aware_area_of_interest, Areas!Words
  <2>2. CASE target \in w.coalitions
    <3>1. sent = IF target \in Areas!Keys(w.polygons) THEN Areas!Box(Areas!_bbox_string(w.polygons[target])) ELSE Areas!Refused
      BY <2>1, <2>2 DEF Areas!dispatch_extent
    <3>2. target \notin Areas!Keys(w.polygons)
      BY <3>1 DEF Areas!Box
    <3>3. Areas!dispatch(w, word) = {Areas!Nowhere(FALSE)}
      BY <2>2, <3>2 DEF Areas!dispatch
    <3>4. mask = Areas!Nowhere(FALSE)
      BY <1>4, <3>3 DEF Areas!resolve_location
    <3> HIDE DEF mask
    <3> QED
      BY <3>4 DEF Areas!Nowhere
  <2>3. CASE target \notin w.coalitions
    <3>1. claimed = IF word \in Areas!Keys(w.aliases) \cup w.states
                    THEN {IF target \in Areas!Keys(w.presets) THEN Areas!Box(Areas!_bbox_string(w.presets[target])) ELSE Areas!Refused}
                    ELSE {}
      BY <2>3 DEF Areas!dispatch_extent
    <3>2. word \in Areas!Keys(w.aliases) \cup w.states => target \in Areas!Keys(w.presets)
      BY <2>3 DEF Areas!IsPlaceCase, Areas!Starts, Areas!Shipped, Areas!assert_no_alias_collisions, Areas!Target
    <3>3. Areas!Box(Areas!_bbox_string(w.presets[target])).is = "box"
      BY DEF Areas!Box
    <3> HIDE DEF claimed, sent, word, target
    <3> QED
      BY <2>1, <3>1, <3>2, <3>3
  <2> QED
    BY <2>2, <2>3
<1> QED
  BY <1>1, <1>2, <1>3, <1>4

\* Words that dispatch_extent leaves to the server's geocoder are no alias,
\* coalition or state of the tables.
THEOREM OwnWordsStay == ASSUME NEW c, Areas!IsPlaceCase(c) PROVE Areas!OwnWordsAreNotGeocoded(c)
<1> DEFINE w == c.w
           n == c.n
           word == w.plain[n.parts[1]]
<1> SUFFICES ASSUME Areas!region_aware_area_of_interest(w, n).is = "words"
             PROVE  word \notin Areas!Keys(w.aliases) \cup w.coalitions \cup w.states
  BY DEF Areas!OwnWordsAreNotGeocoded
<1>1. n.form \in {"plain", "sum", "within"}
  BY DEF Areas!IsPlaceCase
<1>2. n.form = "plain"
  BY <1>1 DEF Areas!region_aware_area_of_interest, Areas!Box, Areas!Refused
<1>3. \A e \in Areas!dispatch_extent(w, word) : e.is # "words"
  <2>1. Areas!Refused.is # "words" /\ \A g : Areas!Box(g).is # "words"
    BY DEF Areas!Box, Areas!Refused
  <2> HIDE DEF w, word
  <2>2. \A e \in Areas!dispatch_extent(w, word) : e = Areas!Refused \/ \E g : e = Areas!Box(g)
    BY DEF Areas!dispatch_extent
  <2> QED
    BY <2>1, <2>2
<1>4. Areas!dispatch_extent(w, word) = {}
  BY <1>2, <1>3 DEF Areas!region_aware_area_of_interest
<1>5. word \notin Areas!Keys(w.aliases) \cup w.states
  BY <1>4 DEF Areas!dispatch_extent
<1> QED
  BY <1>4, <1>5 DEF Areas!dispatch_extent, Areas!Target

\* Every member of a sum that dispatch_composite resolves names a state or a
\* country and never both, through postal codes, synonyms and suffixed spellings.
THEOREM MembersAreNotGuessed == ASSUME NEW c, Areas!IsPlaceCase(c) PROVE Areas!NoMemberIsGuessed(c)
<1> DEFINE w == c.w
           n == c.n
<1> SUFFICES ASSUME n.form = "sum", Areas!resolve_location(w, n).is = "region", NEW t \in Areas!Range(n.parts)
             PROVE  (Areas!Target(w.postal, w.plain[t]) \in w.states) # (Areas!_country_geometry(w, w.plain[t]) # {})
  BY DEF Areas!NoMemberIsGuessed
<1> DEFINE token == w.plain[t]
<1>1. Areas!dispatch_composite(w, n).is = "region"
  BY DEF Areas!resolve_location
<1>2. Areas!Members(w, token) # {}
  BY <1>1, CompositesAreSpans
<1>3. CASE Areas!Target(w.postal, token) \in w.states
  <2>1. token \in w.states \cup Areas!Keys(w.postal)
    BY <1>3 DEF Areas!Target
  <2>2. token \notin Areas!Keys(w.suffixed) /\ token \notin Areas!Keys(w.synonyms)
    BY <2>1 DEF Areas!IsPlaceCase, Areas!Starts, Areas!Shipped, Areas!assert_no_country_collisions
  <2>3. token \notin Areas!Keys(w.countries)
    BY <1>2, <2>1 DEF Areas!Members, Areas!ambiguous_member_tokens, Areas!IsPlaceCase, Areas!Starts, Areas!Shipped
  <2>4. Areas!_country_geometry(w, token) = {}
    BY <2>2, <2>3 DEF Areas!_country_geometry, Areas!Target, Areas!Lookup
  <2> QED
    BY <1>3, <2>4
<1>4. CASE Areas!Target(w.postal, token) \notin w.states
  BY <1>2, <1>4 DEF Areas!Members
<1> QED
  BY <1>3, <1>4

\* A sum or a buffer that resolves is within the frame budget, and a buffer stays
\* short of the antimeridian and of the pole.
THEOREM ShapesFit == ASSUME NEW c, Areas!IsPlaceCase(c) PROVE Areas!ShapesFitTheMap(c)
<1> DEFINE w == c.w
           n == c.n
           mask == Areas!resolve_location(w, n)
           place == w.gazetteer[n.parts[1]]
<1> SUFFICES ASSUME n.form \in {"sum", "within"}, mask.is = "region"
             PROVE  /\ Areas!Width(mask.bounds) <= Areas!Ceiling
                    /\ n.form = "within" => /\ mask.bounds[1] >= -Areas!HalfTurn /\ mask.bounds[2] <= Areas!HalfTurn
                                            /\ place.pole > n.radius
  BY DEF Areas!ShapesFitTheMap
<1>1. CASE n.form = "sum"
  BY <1>1, CompositesAreSpans DEF Areas!resolve_location
<1>2. CASE n.form = "within"
  <2> DEFINE r == Areas!dispatch_buffer(w, n)
             disc == Areas!Disc(place, n.radius)
  <2>1. r.is = "region"
    BY <1>2 DEF Areas!resolve_location
  <2>2. /\ n.parts[1] \in Areas!Keys(w.gazetteer) /\ r.bounds = disc /\ Areas!_check_pole(place, n.radius)
        /\ ~Areas!_crosses_antimeridian(disc) /\ ~(Areas!Width(disc) > Areas!Ceiling)
    BY <2>1 DEF Areas!dispatch_buffer, Areas!Refused, Areas!Region
  <2>3. /\ place.at \in Int /\ place.pole \in Int /\ n.radius \in Int
        /\ disc[1] = place.at - n.radius /\ disc[2] = place.at + n.radius
    BY <2>2 DEF Areas!IsPlaceCase, Areas!Disc
  <2>4. mask.bounds = disc
    BY <1>2, <2>2 DEF Areas!resolve_location
  <2> HIDE DEF disc, place, r, mask
  <2> QED
    BY <1>2, <2>2, <2>3, <2>4 DEF Areas!_check_pole, Areas!_crosses_antimeridian, Areas!Width, Areas!Ceiling, Areas!HalfTurn
<1> QED
  BY <1>1, <1>2
-----------------------------------------------------------------------------
(* Layers. *)

\* Every column has the same layers, one at least.
LEMMA ColumnLaws ==
    ASSUME NEW c, Level!IsLevelCase(c)
    PROVE  \E m, n \in Nat \ {0} :
              /\ c.columns \in [1 .. m -> [present : BOOLEAN, weight : Nat \ {0}, axis : [1 .. n -> Int]]]
              /\ Level!Layers(c) = 1 .. n /\ Level!InRegion(c) \in SUBSET (1 .. m)
              /\ IsFiniteSet(1 .. m) /\ IsFiniteSet(1 .. n)
              /\ c.coordinate = << >> \/ c.coordinate \in [1 .. n -> Int]
<1> DEFINE Column(n) == [present : BOOLEAN, weight : Nat \ {0}, axis : [1 .. n -> Int]]
<1>1. PICK n \in Nat \ {0} : /\ c.columns \in Seq(Column(n)) \ {<< >>}
                             /\ c.coordinate = << >> \/ c.coordinate \in [1 .. n -> Int]
  <2> DEFINE axis == c.columns[1].axis
             n == Len(axis)
  <2>1. axis \in Seq(Int) /\ axis # << >>
    BY DEF Level!IsLevelCase
  <2>2. n \in Nat \ {0} /\ DOMAIN axis = 1 .. n
    <3> HIDE DEF axis
    <3> QED
      BY <2>1
  <2>3. /\ c.columns \in Seq([present : BOOLEAN, weight : Nat \ {0}, axis : [DOMAIN axis -> Int]]) /\ c.columns # << >>
        /\ c.coordinate = << >> \/ c.coordinate \in [DOMAIN axis -> Int]
    BY DEF Level!IsLevelCase
  <2> HIDE DEF axis, n
  <2> QED
    BY <2>2, <2>3
<1> DEFINE m == Len(c.columns)
<1>2. \A s \in Seq(Column(n)) : s # << >> => Len(s) \in Nat \ {0} /\ s \in [1 .. Len(s) -> Column(n)]
  <2> HIDE DEF Column
  <2> QED
    OBVIOUS
<1>3. m \in Nat \ {0} /\ c.columns \in [1 .. m -> Column(n)]
  <2> DEFINE cols == c.columns
  <2> HIDE DEF Column
  <2>1. cols \in Seq(Column(n)) /\ cols # << >>
    BY <1>1
  <2> HIDE DEF cols
  <2>2. Len(cols) \in Nat \ {0} /\ cols \in [1 .. Len(cols) -> Column(n)]
    BY <1>2, <2>1
  <2> QED
    BY <2>2 DEF cols
<1> HIDE DEF m
<1>4. Level!Layers(c) = 1 .. n /\ Level!InRegion(c) \in SUBSET (1 .. m)
  BY <1>3 DEF Level!Layers, Level!InRegion
<1>5. IsFiniteSet(1 .. m) /\ IsFiniteSet(1 .. n)
  BY <1>3, FS_Interval
<1> QED
  BY <1>1, <1>3, <1>4, <1>5

\* An area is the sum of the weights of its pixels.
PixelWeights(c) == [p \in DOMAIN c.columns |-> c.columns[p].weight]
LEMMA AreaLaws ==
    ASSUME NEW c, Level!IsLevelCase(c), NEW pixels \in SUBSET DOMAIN c.columns
    PROVE  /\ IsFiniteSet(pixels) /\ PixelWeights(c) \in [DOMAIN c.columns -> Int]
           /\ \A p \in pixels : PixelWeights(c)[p] >= 1
           /\ Level!Area(c, pixels) = TotalOf(PixelWeights(c), pixels)
           /\ Level!Area(c, pixels) \in Nat
           /\ pixels # {} => Level!Area(c, pixels) > 0
<1> DEFINE w == PixelWeights(c)
           D == DOMAIN c.columns
<1>1. PICK m, n \in Nat \ {0} :
              /\ c.columns \in [1 .. m -> [present : BOOLEAN, weight : Nat \ {0}, axis : [1 .. n -> Int]]]
              /\ IsFiniteSet(1 .. m)
  BY ColumnLaws
<1>2. D = 1 .. m /\ \A p \in D : c.columns[p].weight \in Nat \ {0}
  BY <1>1
<1>3. IsFiniteSet(pixels)
  BY <1>1, <1>2, FS_Subset
<1>4. w \in [D -> Int] /\ \A p \in D : w[p] = c.columns[p].weight /\ w[p] >= 1
  BY <1>2 DEF PixelWeights
<1> DEFINE Sums(g) == [s \in SUBSET pixels |->
                          IF s = {} THEN 0
                          ELSE LET x == CHOOSE x \in s : TRUE
                               IN  c.columns[x].weight + g[s \ {x}]]
           sums == CHOOSE g : g = Sums(g)
<1>5. \A g : Sums(g) = SumsOf(pixels, w, g)
  <2>1. \A s \in SUBSET pixels : s # {} => w[Pick(s)] = c.columns[Pick(s)].weight
    BY <1>4 DEF Pick
  <2> HIDE DEF w
  <2> QED
    BY <2>1 DEF SumsOf, Pick
<1>6. Level!Area(c, pixels) = sums[pixels]
  <2>1. Level!MapThenSumSet(LAMBDA p : c.columns[p].weight, pixels) = sums[pixels]
    BY Zenon DEF Level!MapThenSumSet, Level!MapThenFoldSet, sums, Sums
  <2> QED
    BY <2>1 DEF Level!Area
<1> HIDE DEF w, D, Sums
<1>7. /\ \E g : g = SumsOf(pixels, w, g)
      /\ \A g : g = SumsOf(pixels, w, g) => g[pixels] = TotalOf(w, pixels)
  <2>1. pixels \in SUBSET D
    BY DEF D
  <2> QED
    BY <1>3, <1>4, <2>1, TotalIsTheSum
<1>8. sums = Sums(sums)
  BY <1>5, <1>7
<1> HIDE DEF sums
<1>9. Level!Area(c, pixels) = TotalOf(w, pixels)
  BY <1>5, <1>6, <1>7, <1>8
<1>10. TotalOf(w, pixels) \in Int /\ (pixels # {} => TotalOf(w, pixels) > 0) /\ TotalOf(w, pixels) >= 0
  <2>1. pixels \in SUBSET D
    BY DEF D
  <2>2. \A p \in pixels : 0 * w[p] + 1 <= 1 * w[p]
    BY <1>4, <2>1
  <2>3. 0 * TotalOf(w, pixels) + 1 * Cardinality(pixels) <= 1 * TotalOf(w, pixels)
    BY <1>3, <1>4, <2>1, <2>2, TotalsCompare, 0 \in Int, 1 \in Int
  <2>4. TotalOf(w, pixels) \in Int /\ Cardinality(pixels) \in Nat /\ (pixels # {} => Cardinality(pixels) # 0)
    BY <1>3, <1>4, <2>1, TotalIsWhole, FS_CardinalityType, FS_EmptySet
  <2> QED
    BY <2>3, <2>4
<1>11. \A p \in pixels : w[p] >= 1
  BY <1>4 DEF D
<1> QED
  BY <1>3, <1>4, <1>9, <1>10, <1>11 DEF w, D

\* The mean of a layer over the area with a value is a whole number.
LEMMA MeansAreWhole ==
    ASSUME NEW c, Level!IsLevelCase(c), NEW layer \in Level!Layers(c)
    PROVE  Level!Mean(c, layer) \in Int
<1>1. PICK m, n \in Nat \ {0} :
              /\ c.columns \in [1 .. m -> [present : BOOLEAN, weight : Nat \ {0}, axis : [1 .. n -> Int]]]
              /\ Level!Layers(c) = 1 .. n /\ Level!InRegion(c) \in SUBSET (1 .. m) /\ IsFiniteSet(1 .. m)
  BY ColumnLaws
<1> DEFINE F == Level!Finite(c, layer)
           f == [p \in F |-> c.columns[p].weight * c.columns[p].axis[layer]]
<1>4. F \in SUBSET (1 .. m) /\ F \in SUBSET DOMAIN c.columns
  BY <1>1 DEF Level!Finite
<1>5. IsFiniteSet(F) /\ Level!Area(c, F) \in Nat /\ (F # {} => Level!Area(c, F) > 0)
  BY <1>4, AreaLaws
<1>6. f \in [F -> Int]
  <2>1. \A p \in F : c.columns[p].weight \in Int /\ c.columns[p].axis[layer] \in Int
    <3>1. layer \in 1 .. n
      BY <1>1
    <3>2. \A p \in 1 .. m : c.columns[p].weight \in Int
      BY <1>1
    <3>3. \A p \in 1 .. m : c.columns[p].axis \in [1 .. n -> Int]
      BY <1>1
    <3> HIDE DEF F
    <3> QED
      BY <1>4, <3>1, <3>2, <3>3
  <2>2. \A a, b \in Int : a * b \in Int
    OBVIOUS
  <2> QED
    BY <2>1, <2>2
<1> DEFINE Sums(g) == [s \in SUBSET F |->
                          IF s = {} THEN 0
                          ELSE LET x == CHOOSE x \in s : TRUE
                               IN  c.columns[x].weight * c.columns[x].axis[layer] + g[s \ {x}]]
           sums == CHOOSE g : g = Sums(g)
<1>7. \A g : Sums(g) = SumsOf(F, f, g)
  <2>1. \A s \in SUBSET F : s # {} => f[Pick(s)] = c.columns[Pick(s)].weight * c.columns[Pick(s)].axis[layer]
    BY DEF Pick
  <2> HIDE DEF f, F
  <2> QED
    BY <2>1 DEF SumsOf, Pick
<1> HIDE DEF F, f, Sums
<1>8. \E g : g = Sums(g)
  BY <1>5, <1>6, <1>7, SumsExist
<1>9. sums = Sums(sums)
  BY <1>8
<1> HIDE DEF sums
<1>10. sums[F] \in Int
  BY <1>5, <1>6, <1>7, <1>9, SumsAreWhole
<1>11. Level!Moment(c, layer) = sums[F]
  <2>1. Level!MapThenSumSet(LAMBDA p : c.columns[p].weight * c.columns[p].axis[layer], F) = sums[F]
    BY Zenon DEF Level!MapThenSumSet, Level!MapThenFoldSet, sums, Sums
  <2> QED
    BY <2>1 DEF Level!Moment, F
<1>12. Level!Mean(c, layer) = IF F = {} THEN Level!NaN ELSE sums[F] \div Level!Area(c, F)
  BY <1>11 DEF Level!Mean, F
<1> QED
  BY <1>5, <1>10, <1>12 DEF Level!NaN

\* A distance is the difference, the larger less the smaller.
LEMMA DistanceLaws ==
    ASSUME NEW a \in Int, NEW b \in Int
    PROVE  /\ Level!Distance(a, b) \in Nat
           /\ a <= b => Level!Distance(a, b) = b - a
           /\ b <= a => Level!Distance(a, b) = a - b
  BY DEF Level!Distance

\* Of some layers with whole values there is a first one that is nearest.
LEMMA NearestLaws ==
    ASSUME NEW n \in Nat, NEW T \in SUBSET (1 .. n), T # {}, NEW v \in [T -> Int], NEW r \in Int
    PROVE  LET near == {l \in T : \A k \in T : Level!Distance(v[l], r) <= Level!Distance(v[k], r)}
           IN  Level!Min(near) \in near
<1> DEFINE far == {Level!Distance(v[l], r) : l \in T}
           near == {l \in T : \A k \in T : Level!Distance(v[l], r) <= Level!Distance(v[k], r)}
<1>1. far \in SUBSET Nat /\ far # {}
  <2>1. \A l \in T : v[l] \in Int
    OBVIOUS
  <2>2. \A l \in T : Level!Distance(v[l], r) \in Nat
    BY <2>1, DistanceLaws
  <2> QED
    BY <2>2
<1>2. PICK d \in far : \A e \in far : d <= e
  <2> HIDE DEF far
  <2> QED
    BY <1>1, LeastNatural
<1>3. near # {}
  BY <1>2
<1>4. near \in SUBSET Int /\ near \in SUBSET (1 .. n) /\ IsFiniteSet(1 .. n)
  <2>1. IsFiniteSet(1 .. n)
    BY FS_Interval, 1 \in Int, n \in Int
  <2>2. near \in SUBSET (1 .. n)
    OBVIOUS
  <2> HIDE DEF near
  <2> QED
    BY <2>1, <2>2
<1> HIDE DEF near
<1>5. IsFiniteSet(near)
  BY <1>4, FS_Subset
<1>6. Level!Min(near) \in near
  BY <1>3, <1>4, <1>5, Extremes, SameExtremes
<1> QED
  BY <1>6 DEF near

\* What the refusals leave: a level in the axis's unit, and the nearest layer.
LEMMA RequestIsWhole ==
    ASSUME NEW c, Level!IsLevelCase(c), Level!Resolved(c)
    PROVE  /\ Level!Requested(c) \in Int /\ c.axisUnit \in Nat \ {0}
           /\ Level!Known(c) # {} /\ ~Level!OutsideTheAxis(c) /\ ~Level!NotOneLayer(c) /\ ~Level!Unselectable(c)
           /\ Level!resolve_level(c).index = Level!Index(c)
           /\ Level!resolve_level(c).selector = IF c.coordinate = << >> THEN Level!Index(c) ELSE c.coordinate[Level!Index(c)]
<1>1. /\ c.unit # 0 /\ c.axisUnit # Level!Unpublished /\ c.axisUnit # 0 /\ c.axisUnit # Level!Foreign
      /\ Level!Known(c) # {} /\ ~Level!OutsideTheAxis(c) /\ ~Level!NotOneLayer(c) /\ ~Level!Unselectable(c)
  BY DEF Level!Resolved, Level!resolve_level, Level!Refusal
<1>2. c.axisUnit \in Nat \ {0}
  BY <1>1 DEF Level!IsLevelCase
<1>3. c.value * c.unit \in Int
  BY DEF Level!IsLevelCase
<1>4. Level!Requested(c) \in Int
  BY <1>2, <1>3 DEF Level!Requested
<1> QED
  BY <1>1, <1>2, <1>4 DEF Level!resolve_level

\* The layer of the regional means that is nearest.
LEMMA IndexLaws ==
    ASSUME NEW c, Level!IsLevelCase(c), Level!Resolved(c)
    PROVE  /\ Level!Index(c) \in Level!Known(c) /\ Level!Known(c) \subseteq Level!Layers(c)
           /\ \A l \in Level!Known(c) :
                 /\ Level!Mean(c, l) \in Int
                 /\ Level!Distance(Level!Mean(c, Level!Index(c)), Level!Requested(c)) <= Level!Distance(Level!Mean(c, l), Level!Requested(c))
<1> DEFINE T == Level!Known(c)
           v == [l \in T |-> Level!Mean(c, l)]
           r == Level!Requested(c)
           near == {l \in T : \A k \in T : Level!Distance(Level!Mean(c, l), r) <= Level!Distance(Level!Mean(c, k), r)}
<1>1. PICK n \in Nat : Level!Layers(c) = 1 .. n
  BY ColumnLaws
<1>2. T \in SUBSET (1 .. n) /\ T \subseteq Level!Layers(c)
  BY <1>1 DEF Level!Known
<1>3. T # {} /\ r \in Int
  BY RequestIsWhole
<1>4. \A l \in T : Level!Mean(c, l) \in Int
  BY <1>2, MeansAreWhole
<1>5. Level!Index(c) = Level!Min(near)
  BY DEF Level!Index, Level!Nearest
<1> HIDE DEF T, r
<1>6. v \in [T -> Int]
  BY <1>4
<1>7. near = {l \in T : \A k \in T : Level!Distance(v[l], r) <= Level!Distance(v[k], r)}
  OBVIOUS
<1> HIDE DEF v, near
<1>8. Level!Min(near) \in near
  BY <1>2, <1>3, <1>6, <1>7, NearestLaws
<1> QED
  BY <1>2, <1>4, <1>5, <1>8 DEF near, T, r
\* Where the conversion of units (_convert) is exact on the grid of coordinates,
\* resolve_level answers with a layer no other is nearer than in physical terms.
THEOREM NearestIsNearest == ASSUME NEW c, Level!IsLevelCase(c) PROVE Level!NearestInTruth(c)
<1> SUFFICES ASSUME Level!Resolved(c), NEW l \in Level!Known(c)
             PROVE  Level!Distance(Level!Mean(c, Level!resolve_level(c).index) * c.axisUnit, c.value * c.unit)
                        <= Level!Distance(Level!Mean(c, l) * c.axisUnit, c.value * c.unit)
  BY DEF Level!NearestInTruth
<1> DEFINE a == Level!Mean(c, Level!Index(c))
           b == Level!Mean(c, l)
           r == Level!Requested(c)
           u == c.axisUnit
           x == c.value * c.unit
<1>1. /\ a \in Int /\ b \in Int /\ r \in Int /\ u \in Nat \ {0}
      /\ Level!Distance(a, r) <= Level!Distance(b, r) /\ Level!resolve_level(c).index = Level!Index(c)
  BY IndexLaws, RequestIsWhole
<1>2. x \in Int /\ x % u = 0 /\ r = x \div u
  BY <1>1 DEF Level!IsLevelCase, Level!Requested
<1> HIDE DEF a, b, r, u, x
<1>3. x = r * u
  BY <1>1, <1>2
<1>4. \A y \in Int : Level!Distance(y * u, r * u) = Level!Distance(y, r) * u
  <2> TAKE y \in Int
  <2>1. y * u \in Int /\ r * u \in Int /\ (y < r <=> y * u < r * u)
        /\ (r - y) * u = r * u - y * u /\ (y - r) * u = y * u - r * u
    BY <1>1
  <2> QED
    BY <2>1 DEF Level!Distance
<1>5. Level!Distance(a, r) \in Nat /\ Level!Distance(b, r) \in Nat
  BY <1>1, DistanceLaws
<1>6. Level!Distance(a, r) * u <= Level!Distance(b, r) * u
  BY <1>1, <1>5
<1> QED
  BY <1>1, <1>3, <1>4, <1>6 DEF a, b, u, x

\* The layer resolve_level answers with is off by no more than half the way to a
\* layer on the far side of the request.
THEOREM ErrorsAreHalfAGap == ASSUME NEW c, Level!IsLevelCase(c) PROVE Level!ErrorWithinHalfGap(c)
<1> DEFINE r == Level!Requested(c)
           i == Level!Index(c)
<1> SUFFICES ASSUME Level!Resolved(c), Level!Mean(c, i) # r
             PROVE  \E l \in Level!Known(c) \ {i} :
                        /\ (Level!Mean(c, l) > Level!Mean(c, i)) = (r > Level!Mean(c, i))
                        /\ 2 * Level!Distance(Level!Mean(c, i), r) <= Level!Distance(Level!Mean(c, l), Level!Mean(c, i))
  BY RequestIsWhole DEF Level!ErrorWithinHalfGap
<1>1. /\ i \in Level!Known(c) /\ r \in Int
      /\ \A l \in Level!Known(c) : Level!Mean(c, l) \in Int /\ Level!Distance(Level!Mean(c, i), r) <= Level!Distance(Level!Mean(c, l), r)
  BY IndexLaws, RequestIsWhole
<1>2. /\ \E l \in Level!Known(c) : ~(r < Level!Mean(c, l))
      /\ \E l \in Level!Known(c) : ~(r > Level!Mean(c, l))
  BY RequestIsWhole DEF Level!OutsideTheAxis
<1> HIDE DEF r, i
<1>3. CASE r > Level!Mean(c, i)
  <2>1. PICK l \in Level!Known(c) : ~(r > Level!Mean(c, l))
    BY <1>2
  <2>2. /\ Level!Mean(c, i) \in Int /\ Level!Mean(c, l) \in Int /\ Level!Mean(c, i) < r /\ r <= Level!Mean(c, l)
        /\ Level!Distance(Level!Mean(c, i), r) <= Level!Distance(Level!Mean(c, l), r)
    BY <1>1, <1>3, <2>1
  <2> DEFINE a == Level!Mean(c, i)
             b == Level!Mean(c, l)
  <2>6. a \in Int /\ b \in Int /\ r \in Int /\ a < r /\ r <= b
    BY <1>1, <2>2
  <2> HIDE DEF a, b
  <2>7. Level!Distance(a, r) = r - a /\ Level!Distance(b, r) = b - r /\ Level!Distance(b, a) = b - a
    BY <2>6 DEF Level!Distance
  <2>3. /\ Level!Distance(Level!Mean(c, i), r) = r - Level!Mean(c, i) /\ Level!Distance(Level!Mean(c, l), r) = Level!Mean(c, l) - r
        /\ Level!Distance(Level!Mean(c, l), Level!Mean(c, i)) = Level!Mean(c, l) - Level!Mean(c, i)
    BY <2>7 DEF a, b
  <2>4. Level!Mean(c, l) > Level!Mean(c, i) /\ l # i
    BY <1>1, <2>2
  <2>5. 2 * Level!Distance(Level!Mean(c, i), r) <= Level!Distance(Level!Mean(c, l), Level!Mean(c, i))
    BY <1>1, <2>2, <2>3
  <2> QED
    BY <1>3, <2>4, <2>5
<1>4. CASE r < Level!Mean(c, i)
  <2>1. PICK l \in Level!Known(c) : ~(r < Level!Mean(c, l))
    BY <1>2
  <2>2. /\ Level!Mean(c, i) \in Int /\ Level!Mean(c, l) \in Int /\ r < Level!Mean(c, i) /\ Level!Mean(c, l) <= r
        /\ Level!Distance(Level!Mean(c, i), r) <= Level!Distance(Level!Mean(c, l), r)
    BY <1>1, <1>4, <2>1
  <2> DEFINE a == Level!Mean(c, i)
             b == Level!Mean(c, l)
  <2>6. a \in Int /\ b \in Int /\ r \in Int /\ r < a /\ b <= r
    BY <1>1, <2>2
  <2> HIDE DEF a, b
  <2>7. Level!Distance(a, r) = a - r /\ Level!Distance(b, r) = r - b /\ Level!Distance(b, a) = a - b
    BY <2>6 DEF Level!Distance
  <2>3. /\ Level!Distance(Level!Mean(c, i), r) = Level!Mean(c, i) - r /\ Level!Distance(Level!Mean(c, l), r) = r - Level!Mean(c, l)
        /\ Level!Distance(Level!Mean(c, l), Level!Mean(c, i)) = Level!Mean(c, i) - Level!Mean(c, l)
    BY <2>7 DEF a, b
  <2>4. ~(Level!Mean(c, l) > Level!Mean(c, i)) /\ ~(r > Level!Mean(c, i)) /\ l # i
    BY <1>1, <2>2
  <2>5. 2 * Level!Distance(Level!Mean(c, i), r) <= Level!Distance(Level!Mean(c, l), Level!Mean(c, i))
    BY <1>1, <2>2, <2>3
  <2> QED
    BY <2>4, <2>5
<1> QED
  BY <1>1, <1>3, <1>4

\* Over more than half of the area with a value and an axis the answered layer is
\* the nearest (_refuse_if_not_honestly_one_layer).
THEOREM AreasAgree == ASSUME NEW c, Level!IsLevelCase(c) PROVE Level!MostAreaAgrees(c)
<1> DEFINE i == Level!Index(c)
           r == Level!Requested(c)
           Profile(p) == c.columns[p].axis
           usable == Level!Usable(c)
           voters == {p \in usable : Level!Choice(c, p) = i}
           agree == {p \in usable : \A l \in Level!Layers(c) : Profile(p)[l] # Level!NaN =>
                        Profile(p)[i] # Level!NaN /\ Level!Distance(Profile(p)[i], r) <= Level!Distance(Profile(p)[l], r)}
<1> SUFFICES ASSUME Level!Resolved(c) PROVE 2 * Level!Area(c, agree) > Level!Area(c, usable)
  BY RequestIsWhole DEF Level!MostAreaAgrees
<1>1. PICK m, n \in Nat \ {0} :
              /\ c.columns \in [1 .. m -> [present : BOOLEAN, weight : Nat \ {0}, axis : [1 .. n -> Int]]]
              /\ Level!Layers(c) = 1 .. n /\ Level!InRegion(c) \in SUBSET (1 .. m) /\ IsFiniteSet(1 .. m)
  BY ColumnLaws
<1>2. r \in Int /\ ~Level!NotOneLayer(c)
  BY RequestIsWhole
<1>3. /\ i = Level!Dominant(c) /\ ~(2 * Level!Area(c, voters) <= Level!Area(c, usable))
  BY <1>2 DEF Level!NotOneLayer, Level!Votes
<1>4. ASSUME NEW p \in usable, Level!Choice(c, p) = i PROVE p \in agree
  <2> DEFINE T == {l \in Level!Layers(c) : Profile(p)[l] # Level!NaN}
             v == [l \in T |-> Profile(p)[l]]
             near == {l \in T : \A k \in T : Level!Distance(Profile(p)[l], r) <= Level!Distance(Profile(p)[k], r)}
  <2>1. p \in 1 .. m /\ T # {}
    BY <1>1 DEF Level!Usable
  <2>2. T \in SUBSET (1 .. n) /\ Profile(p) \in [1 .. n -> Int]
    BY <1>1, <2>1
  <2>3. i = Level!Min(near)
    BY <1>4 DEF Level!Choice, Level!Nearest
  <2> HIDE DEF T, r, i
  <2>4. v \in [T -> Int]
    BY <2>2
  <2>5. near = {l \in T : \A k \in T : Level!Distance(v[l], r) <= Level!Distance(v[k], r)}
    OBVIOUS
  <2> HIDE DEF v, near, Profile
  <2>6. n \in Nat /\ T \in SUBSET (1 .. n) /\ T # {} /\ r \in Int
    BY <1>2, <2>1, <2>2
  <2> DEFINE first == {l \in T : \A k \in T : Level!Distance(v[l], r) <= Level!Distance(v[k], r)}
  <2>7. Level!Min(first) \in first
    BY <2>4, <2>6, NearestLaws
  <2> HIDE DEF first
  <2>8. first = near
    BY <2>5 DEF first
  <2> QED
    BY <1>4, <2>3, <2>7, <2>8 DEF near, T
<1>5. voters \in SUBSET agree /\ agree \in SUBSET usable /\ usable \in SUBSET (1 .. m)
  BY <1>1, <1>4 DEF Level!Usable
<1> HIDE DEF voters, agree, usable
<1>6. /\ usable \in SUBSET DOMAIN c.columns /\ agree \in SUBSET DOMAIN c.columns
      /\ voters \in SUBSET DOMAIN c.columns
  BY <1>1, <1>5
<1> DEFINE w == PixelWeights(c)
           D == DOMAIN c.columns
<1>7. /\ w \in [D -> Int] /\ IsFiniteSet(agree) /\ \A p \in agree : w[p] >= 0
      /\ Level!Area(c, agree) = TotalOf(w, agree) /\ Level!Area(c, voters) = TotalOf(w, voters)
      /\ Level!Area(c, agree) \in Nat /\ Level!Area(c, voters) \in Nat /\ Level!Area(c, usable) \in Nat
  <2>1. \A p \in agree : w[p] \in Int /\ w[p] >= 1
    BY <1>6, AreaLaws
  <2>2. \A p \in agree : w[p] >= 0
    <3> HIDE DEF w
    <3> QED
      BY <2>1
  <2> QED
    BY <1>6, <2>2, AreaLaws
<1>8. TotalOf(w, voters) <= TotalOf(w, agree)
  <2> HIDE DEF w, D
  <2>1. agree \in SUBSET D
    BY <1>6 DEF D
  <2> QED
    BY <1>5, <1>7, <2>1, TotalGrows
<1> DEFINE a == Level!Area(c, agree)
           b == Level!Area(c, voters)
           u == Level!Area(c, usable)
<1>9. a \in Nat /\ b \in Nat /\ u \in Nat /\ b <= a /\ ~(2 * b <= u)
  BY <1>3, <1>7, <1>8
<1> HIDE DEF a, b, u
<1>10. 2 * a > u
  BY <1>9
<1> QED
  BY <1>10 DEF a, u

\* A sequence that rises from each place to the next rises from each to any later.
LEMMA RisesThroughout ==
    ASSUME NEW n \in Nat, NEW s \in [1 .. n -> Int],
           \A l \in (1 .. n) \ {1} : s[l] > s[l - 1]
    PROVE  \A k, l \in 1 .. n : k < l => s[k] < s[l]
<1> DEFINE bad == {l \in 1 .. n : \E k \in 1 .. n : k < l /\ ~(s[k] < s[l])}
<1> SUFFICES ASSUME bad # {} PROVE FALSE
  OBVIOUS
<1>1. PICK l \in bad : \A j \in bad : l <= j
  <2>1. bad \in SUBSET Nat
    OBVIOUS
  <2> HIDE DEF bad
  <2> QED
    BY <2>1, LeastNatural
<1>2. PICK k \in 1 .. n : k < l /\ ~(s[k] < s[l])
  OBVIOUS
<1>3. l \in 1 .. n /\ l # 1 /\ l - 1 \in 1 .. n /\ ~(l <= l - 1)
  BY <1>2
<1>4. l - 1 \notin bad
  BY <1>1, <1>3
<1>5. k = l - 1 \/ s[k] < s[l - 1]
  BY <1>2, <1>3, <1>4
<1>6. l \in (1 .. n) \ {1}
  BY <1>3
<1> HIDE DEF bad
<1>7. s[l] > s[l - 1] /\ s[k] \in Int /\ s[l] \in Int /\ s[l - 1] \in Int
  BY <1>2, <1>3, <1>6
<1> QED
  BY <1>2, <1>5, <1>7

\* The coordinate _selector_value answers with is that of the answered layer alone
\* and splits the axis there, so a nearest-value selection finds that layer.
THEOREM SelectorsFind == ASSUME NEW c, Level!IsLevelCase(c) PROVE Level!SelectorFindsTheLayer(c)
<1> DEFINE s == c.coordinate
           i == Level!Index(c)
<1> SUFFICES ASSUME Level!Resolved(c), s # << >>
             PROVE  /\ {l \in DOMAIN s : s[l] = s[i]} = {i}
                    /\ \/ \A l \in DOMAIN s : (l < i) = (s[l] < s[i])
                       \/ \A l \in DOMAIN s : (l < i) = (s[l] > s[i])
  BY RequestIsWhole DEF Level!SelectorFindsTheLayer
<1>1. PICK n \in Nat : Level!Layers(c) = 1 .. n /\ s \in [1 .. n -> Int]
  BY ColumnLaws
<1>2. i \in 1 .. n
  BY <1>1, IndexLaws
<1>3. \/ \A l \in (1 .. n) \ {1} : s[l] > s[l - 1]
      \/ \A l \in (1 .. n) \ {1} : s[l] < s[l - 1]
  BY <1>1, RequestIsWhole DEF Level!Unselectable
<1> HIDE DEF s, i
<1>4. CASE \A l \in (1 .. n) \ {1} : s[l] > s[l - 1]
  <2>1. \A k, l \in 1 .. n : k < l => s[k] < s[l]
    BY <1>1, <1>4, RisesThroughout
  <2>2. \A l \in 1 .. n : s[l] \in Int /\ (l < i => s[l] < s[i]) /\ (i < l => s[i] < s[l])
    BY <1>1, <1>2, <2>1
  <2>3. \A l \in 1 .. n : (s[l] = s[i] => l = i) /\ ((l < i) <=> (s[l] < s[i]))
    BY <1>2, <2>2
  <2> QED
    BY <1>1, <1>2, <2>3
<1>5. CASE \A l \in (1 .. n) \ {1} : s[l] < s[l - 1]
  <2> DEFINE t == [l \in 1 .. n |-> -s[l]]
  <2>1. t \in [1 .. n -> Int] /\ \A l \in (1 .. n) \ {1} : t[l] > t[l - 1]
    BY <1>1, <1>5
  <2> HIDE DEF t
  <2>2. \A k, l \in 1 .. n : k < l => t[k] < t[l]
    BY <2>1, RisesThroughout
  <2>3. \A l \in 1 .. n : s[l] \in Int /\ (l < i => s[l] > s[i]) /\ (i < l => s[i] > s[l])
    BY <1>1, <1>2, <2>2 DEF t
  <2>4. \A l \in 1 .. n : (s[l] = s[i] => l = i) /\ ((l < i) <=> (s[l] > s[i]))
    BY <1>2, <2>3
  <2> QED
    BY <1>1, <1>2, <2>4
<1> QED
  BY <1>3, <1>4, <1>5
-----------------------------------------------------------------------------
(* Variables of a file. *)

\* The size of a set is the same whichever module asks for it.
LEMMA SameFileSizes ==
    ASSUME NEW S
    PROVE  Choice!Cardinality(S) = Cardinality(S) /\ Choice!IsFiniteSet(S) = IsFiniteSet(S)
  BY DEF Cardinality, Choice!Cardinality, IsFiniteSet, Choice!IsFiniteSet

\* Two different things are two at least.
LEMMA TwoAreTwo ==
    ASSUME NEW S, IsFiniteSet(S), NEW a \in S, NEW b \in S, a # b
    PROVE  Cardinality(S) \in Nat /\ Cardinality(S) >= 2
<1>1. IsFiniteSet({a}) /\ Cardinality({a}) = 1
  BY FS_Singleton
<1>2. Cardinality({a} \cup {b}) = Cardinality({a}) + 1
  BY <1>1, FS_AddElement
<1>3. {a} \cup {b} \in SUBSET S
  OBVIOUS
<1>4. Cardinality({a} \cup {b}) <= Cardinality(S)
  BY <1>3, FS_Subset
<1>5. Cardinality(S) \in Nat
  BY FS_CardinalityType
<1> QED
  BY <1>1, <1>2, <1>4, <1>5

\* The sort key puts every two variables of a file in order.
LEMMA KeysAreInOrder ==
    ASSUME NEW file, Choice!IsFile(file)
    PROVE  /\ \A v \in file : Choice!Band(v) \in Nat /\ Choice!Weight(v) \in Int /\ v.rank \in Nat \ {0}
           /\ \A v \in file : ~Choice!Before(v, v)
           /\ \A v, w \in file : v # w => Choice!Before(v, w) \/ Choice!Before(w, v)
           /\ \A v, w, x \in file : Choice!Before(v, w) /\ Choice!Before(w, x) => Choice!Before(v, x)
<1>1. /\ file \subseteq [rank : Nat \ {0}, kind : {"science", "plumbing"}, asked : BOOLEAN, valid : Nat,
                         mean : BOOLEAN, units : BOOLEAN, geo : BOOLEAN, cf : BOOLEAN, long : BOOLEAN]
      /\ \A v, w \in file : v.rank = w.rank => v = w
  BY DEF Choice!IsFile, Choice!Nothing
<1>2. \A v \in file : v.rank \in Nat \ {0} /\ v.valid \in Nat
  BY <1>1
<1>3. \A v \in file : Choice!Band(v) \in Nat
  BY <1>2 DEF Choice!Band
<1>4. \A v \in file : Choice!Weight(v) \in Int
  BY DEF Choice!Weight
<1> QED
  BY <1>1, <1>2, <1>3, <1>4 DEF Choice!Before

\* The first of some variables comes before all the others.
LEMMA FirstIsFirst ==
    ASSUME NEW file, Choice!IsFile(file), NEW S \in SUBSET file, S # {}
    PROVE  Choice!First(S) \in S /\ \A w \in S \ {Choice!First(S)} : Choice!Before(Choice!First(S), w)
<1> DEFINE R == {p \in file \X file : Choice!Before(p[1], p[2])}
<1>1. \A v, w \in file : <<v, w>> \in R <=> Choice!Before(v, w)
  OBVIOUS
<1>2. IsFiniteSet(S)
  BY SameFileSizes, FS_Subset DEF Choice!IsFile
<1> HIDE DEF R
<1>3. /\ \A x \in S : <<x, x>> \notin R
      /\ \A x, y, z \in S : <<x, y>> \in R /\ <<y, z>> \in R => <<x, z>> \in R
  BY <1>1, KeysAreInOrder
<1>4. PICK x \in S : \A y \in S : <<y, x>> \notin R
  BY <1>2, <1>3, Bottom
<1>5. \A w \in S \ {x} : Choice!Before(x, w)
  BY <1>1, <1>4, KeysAreInOrder
<1> QED
  BY <1>5 DEF Choice!First

\* Of a file nobody asked anything of, what is plotted is the first of the science
\* variables that can be, and each of the others has its place behind it.
LEMMA UnaskedChoice ==
    ASSUME NEW file, Choice!IsFile(file), \A v \in file : ~v.asked,
           Choice!resolve(file).chosen # Choice!Nothing
    PROVE  \E top \in file :
              /\ Choice!Pickable(top) /\ top.kind = "science" /\ top.rank = Choice!resolve(file).chosen
              /\ \A v \in file : v.kind = "science" /\ Choice!Pickable(v) => v = top \/ Choice!Before(top, v)
              /\ ~Choice!resolve(file).disclosed =>
                    Choice!Strong(top) /\ ~(Cardinality(Choice!Rivals(top, Choice!Candidates(file))) >= 2)
<1> DEFINE C == Choice!Candidates(file)
           hits == {v \in C : v.asked}
           pickable == {v \in C : Choice!Pickable(v)}
           top == Choice!First(pickable)
           r == Choice!resolve(file)
<1>1. C \in SUBSET file /\ hits = {} /\ \A v \in C : v.kind = "science"
  BY DEF Choice!Candidates
<1>2. pickable # {}
  BY <1>1 DEF Choice!resolve, Choice!Refused
<1>3. top \in pickable /\ \A w \in pickable \ {top} : Choice!Before(top, w)
  BY <1>1, <1>2, FirstIsFirst
<1>4. \A v \in file : v.valid \in Nat
  BY DEF Choice!IsFile
<1>5. \A v \in file : v.kind = "science" /\ Choice!Pickable(v) => v \in pickable
  BY <1>4 DEF Choice!Pickable, Choice!Band, Choice!Candidates
<1>6. /\ r.chosen = top.rank
      /\ ~r.disclosed => Choice!Strong(top) /\ ~(Choice!Cardinality(Choice!Rivals(top, C)) >= 2)
  BY <1>1, <1>2 DEF Choice!resolve, Choice!Chose, Choice!Refused
<1> HIDE DEF top, pickable, r
<1>7. top \in file /\ Choice!Pickable(top) /\ top.kind = "science"
  BY <1>1, <1>3 DEF pickable
<1> QED
  BY <1>3, <1>5, <1>6, <1>7, SameFileSizes DEF r

\* resolve plots a variable without a word only when no other science variable
\* with as much data has as good a claim.
THEOREM SilentChoicesAreUnrivalled ==
    ASSUME NEW file, Choice!IsFile(file) PROVE Choice!SilenceMeansUnrivalled(file)
<1> DEFINE r == Choice!resolve(file)
<1> SUFFICES ASSUME \A v \in file : ~v.asked, r.chosen # Choice!Nothing, ~r.disclosed,
                    NEW v \in file, v.kind = "science", Choice!Strong(v), Choice!Pickable(v), v.rank # r.chosen
             PROVE  \E c \in file : c.rank = r.chosen /\ Choice!Band(c) > Choice!Band(v)
  BY DEF Choice!SilenceMeansUnrivalled
<1>1. PICK top \in file :
         /\ Choice!Pickable(top) /\ top.kind = "science" /\ top.rank = r.chosen
         /\ v = top \/ Choice!Before(top, v)
         /\ Choice!Strong(top) /\ ~(Cardinality(Choice!Rivals(top, Choice!Candidates(file))) >= 2)
  BY UnaskedChoice
<1> HIDE DEF r
<1>2. v # top /\ Choice!Before(top, v)
  BY <1>1
<1>3. CASE Choice!Band(v) = Choice!Band(top)
  <2> DEFINE rivals == Choice!Rivals(top, Choice!Candidates(file))
  <2>1. v.valid \in Nat /\ top.valid \in Nat
    BY DEF Choice!IsFile
  <2>2. v \in Choice!Candidates(file) /\ top \in Choice!Candidates(file)
    BY <1>1, <2>1 DEF Choice!Candidates, Choice!Pickable, Choice!Band
  <2>3. v \in rivals /\ top \in rivals
    BY <1>1, <1>3, <2>2 DEF Choice!Rivals
  <2>4. IsFiniteSet(rivals)
    <3>1. rivals \in SUBSET file /\ IsFiniteSet(file)
      BY SameFileSizes DEF Choice!Rivals, Choice!Candidates, Choice!IsFile
    <3> QED
      BY <3>1, FS_Subset
  <2> HIDE DEF rivals
  <2>5. Cardinality(rivals) >= 2
    BY <1>2, <2>3, <2>4, TwoAreTwo
  <2> QED
    BY <1>1, <2>5 DEF rivals
<1>4. CASE Choice!Band(v) # Choice!Band(top)
  <2>1. Choice!Band(top) > Choice!Band(v)
    BY <1>2, <1>4 DEF Choice!Before
  <2> QED
    BY <1>1, <2>1
<1> QED
  BY <1>3, <1>4

\* What resolve plots unasked covers as much of the grid, to a tenth, as any other
\* science variable.
THEOREM CoverageAlwaysFirst ==
    ASSUME NEW file, Choice!IsFile(file) PROVE Choice!CoverageComesFirst(file)
<1> DEFINE r == Choice!resolve(file)
<1> SUFFICES ASSUME \A v \in file : ~v.asked, r.chosen # Choice!Nothing,
                    NEW v \in file, NEW c \in file, c.rank = r.chosen, v.kind = "science"
             PROVE  Choice!Band(c) >= Choice!Band(v)
  BY DEF Choice!CoverageComesFirst
<1>1. PICK top \in file :
         /\ Choice!Pickable(top) /\ top.rank = r.chosen
         /\ Choice!Pickable(v) => v = top \/ Choice!Before(top, v)
  BY UnaskedChoice
<1> HIDE DEF r
<1>2. c = top
  BY <1>1 DEF Choice!IsFile
<1>3. Choice!Band(v) \in Nat /\ Choice!Band(c) \in Nat
  BY KeysAreInOrder
<1>4. Choice!Band(c) > 0 /\ (Choice!Band(v) > 0 => v = c \/ Choice!Before(c, v))
  BY <1>1, <1>2 DEF Choice!Pickable
<1>5. Choice!Before(c, v) => Choice!Band(c) >= Choice!Band(v)
  BY <1>3 DEF Choice!Before
<1> QED
  BY <1>3, <1>4, <1>5

\* A variable nobody asked for that is plumbing or empty is no candidate of resolve.
THEOREM NoiseNeverMatters == ASSUME NEW file PROVE Choice!NoiseDoesNotMatter(file)
<1> SUFFICES ASSUME NEW v \in file, ~v.asked, v.kind = "plumbing" \/ v.valid = 0
             PROVE  Choice!resolve(file \ {v}) = Choice!resolve(file)
  BY DEF Choice!NoiseDoesNotMatter
<1>1. v \notin Choice!Candidates(file)
  BY DEF Choice!Candidates
<1>2. Choice!Candidates(file \ {v}) = Choice!Candidates(file)
  BY <1>1 DEF Choice!Candidates
<1> QED
  BY <1>2 DEF Choice!resolve

\* Whatever else to_dataarray finds in a file, a choice once named stands.
THEOREM SettledChoicesAlwaysStand ==
    ASSUME NEW file, NEW named, NEW recorded, NEW primary
    PROVE  Choice!SettledChoicesStand(file, named, recorded, primary)
<1> SUFFICES ASSUME Choice!Holds(file, named) \/ Choice!Holds(file, recorded), NEW other
             PROVE  LET chosen == Choice!to_dataarray(file, named, recorded, primary).chosen IN
                    /\ Choice!to_dataarray(file, named, recorded, other).chosen = chosen
                    /\ \A v \in file : v.rank # chosen =>
                          Choice!to_dataarray(file \ {v}, named, recorded, other).chosen = chosen
  BY DEF Choice!SettledChoicesStand
<1> DEFINE chosen == IF Choice!Holds(file, named) THEN named ELSE recorded
<1>1. \A x : Choice!to_dataarray(file, named, recorded, x).chosen = chosen
  BY DEF Choice!to_dataarray, Choice!Settled
<1>2. ASSUME NEW v \in file, v.rank # chosen
      PROVE  /\ Choice!Holds(file, named) => Choice!Holds(file \ {v}, named)
             /\ ~Choice!Holds(file, named) => ~Choice!Holds(file \ {v}, named) /\ Choice!Holds(file \ {v}, recorded)
  BY <1>2 DEF Choice!Holds
<1>3. ASSUME NEW v \in file, v.rank # chosen
      PROVE  Choice!to_dataarray(file \ {v}, named, recorded, other).chosen = chosen
  BY <1>2, <1>3 DEF Choice!to_dataarray, Choice!Settled
<1> QED
  BY <1>1, <1>3

\* _pinned_companion_variables brings each companion once, spelled in the group
\* the science variable was asked for in.
THEOREM CompanionsAlwaysCome ==
    ASSUME NEW requested, NEW cfg, Choice!IsRequest(requested)
    PROVE  Choice!CompanionsComeAlong(requested, cfg)
<1> DEFINE matched == {n \in requested : n.leaf \in Choice!Leaves(cfg.members) \ cfg.companions}
           base == CHOOSE n \in matched : \A m \in matched : n.order <= m.order
           due == cfg.companions \ Choice!Leaves(requested)
           added == Choice!_pinned_companion_variables(requested, {cfg})
<1> SUFFICES ASSUME matched # {}, NEW c \in due
             PROVE  /\ Choice!Cardinality({a \in added : a.leaf = c}) = 1
                    /\ (\A n \in matched : n.group # "none") => [group |-> "none", leaf |-> c] \notin added
  BY DEF Choice!CompanionsComeAlong
<1>1. base \in matched
  <2> DEFINE orders == {n.order : n \in matched}
  <2>1. orders \in SUBSET Nat /\ orders # {}
    BY DEF Choice!IsRequest
  <2>2. PICK k \in orders : \A j \in orders : k <= j
    <3> HIDE DEF orders
    <3> QED
      BY <2>1, LeastNatural
  <2>3. \E n \in matched : \A m \in matched : n.order <= m.order
    BY <2>2
  <2> HIDE DEF matched
  <2> QED
    BY <2>3
<1>2. added = {Choice!Spelling(base, x, cfg) : x \in due}
  BY DEF Choice!_pinned_companion_variables
<1> HIDE DEF base, matched, due, added
<1>3. \A x : /\ Choice!Spelling(base, x, cfg).leaf = x
             /\ base.group # "none" => Choice!Spelling(base, x, cfg).group # "none"
  <2> TAKE x
  <2> DEFINE grouped == {m \in cfg.members : m.leaf = x /\ m.group # "none"}
  <2>1. grouped # {} => (CHOOSE m \in grouped : TRUE) \in grouped
    OBVIOUS
  <2>2. Choice!Spelling(base, x, cfg) =
           IF base.group = "none" THEN [group |-> "none", leaf |-> x]
           ELSE IF grouped # {} THEN CHOOSE m \in grouped : TRUE
           ELSE [group |-> base.group, leaf |-> x]
    BY DEF Choice!Spelling
  <2>3. \A m \in grouped : m.leaf = x /\ m.group # "none"
    OBVIOUS
  <2> HIDE DEF grouped
  <2> QED
    BY <2>1, <2>2, <2>3
<1>4. {a \in added : a.leaf = c} = {Choice!Spelling(base, c, cfg)}
  BY <1>2, <1>3
<1>5. Cardinality({Choice!Spelling(base, c, cfg)}) = 1
  BY FS_Singleton
<1>6. ASSUME \A n \in matched : n.group # "none" PROVE [group |-> "none", leaf |-> c] \notin added
  BY <1>1, <1>2, <1>3, <1>6
<1> QED
  BY <1>4, <1>5, <1>6, SameFileSizes

-----------------------------------------------------------------------------
(* Frames. *)

LEMMA AxisSame ==
    ASSUME NEW S
    PROVE  /\ Axis!Cardinality(S) = Cardinality(S)
           /\ Axis!Min(S) = Min(S) /\ Axis!Max(S) = Max(S)
  BY DEF Cardinality, Axis!Cardinality, Min, Max, Axis!Min, Axis!Max

\* Division rounds down, and nothing else does.
LEMMA Division ==
    ASSUME NEW a \in Int, NEW b \in Nat \ {0}
    PROVE  /\ a \div b \in Int /\ b * (a \div b) <= a /\ a < b * (a \div b) + b
           /\ \A q \in Int : b * q <= a /\ a < b * q + b => q = a \div b
<1>1. a \div b \in Int /\ a % b \in 0 .. (b - 1) /\ a = b * (a \div b) + (a % b)
  OBVIOUS
<1> DEFINE d == a \div b
<1> HIDE DEF d
<1>2. d \in Int /\ b * d <= a /\ a < b * d + b
  BY <1>1 DEF d
<1>3. ASSUME NEW q \in Int, b * q <= a, a < b * q + b PROVE q = d
  <2>1. b * q < b * d + b /\ b * d < b * q + b
    BY <1>2, <1>3
  <2>2. b * (q - d) = b * q - b * d
    BY <1>2
  <2> DEFINE e == q - d
  <2>3. e \in Int /\ b * e < b /\ -b < b * e
    BY <1>2, <2>1, <2>2
  <2> HIDE DEF e
  <2>4. e = 0
    <3>1. e >= 1 => b * e >= b
      BY <2>3
    <3>2. e <= -1 => b * e <= -b
      BY <2>3
    <3> QED
      BY <2>3, <3>1, <3>2
  <2> QED
    BY <1>2, <2>4 DEF e
<1> QED
  BY <1>2, <1>3 DEF d

\* Rounding up.
LEMMA DivisionUp ==
    ASSUME NEW a \in Int, NEW b \in Nat \ {0}
    PROVE  /\ Axis!Ceil(a, b) \in Int /\ a <= b * Axis!Ceil(a, b) /\ b * Axis!Ceil(a, b) < a + b
           /\ \A q \in Int : a <= b * q /\ b * q < a + b => q = Axis!Ceil(a, b)
<1> DEFINE m == a + b - 1
<1>1. m \in Int /\ Axis!Ceil(a, b) = m \div b
  BY DEF Axis!Ceil
<1>2. /\ m \div b \in Int /\ b * (m \div b) <= m /\ m < b * (m \div b) + b
      /\ \A q \in Int : b * q <= m /\ m < b * q + b => q = m \div b
  BY <1>1, Division
<1>3. \A q \in Int : b * q \in Int
  OBVIOUS
<1> QED
  BY <1>1, <1>2, <1>3

\* A calendar's start is no later than a tick exactly when it is among those up
\* to the interval the tick falls in, and the span lies in the calendar.
InReach(c, t) == t \in Int /\ c.starts[1] <= t /\ t < c.starts[Len(c.starts)]

LEMMA CalendarLaws ==
    ASSUME NEW c, Axis!IsFrameCase(c), c.starts # << >>
    PROVE  /\ Len(c.starts) \in Nat \ {0} /\ c.starts \in [1 .. Len(c.starts) -> Int]
           /\ \A b, d \in 1 .. Len(c.starts) : b < d => c.starts[b] < c.starts[d]
           /\ c.span[1] \in Int /\ c.span[2] \in Int /\ InReach(c, c.span[1]) /\ InReach(c, c.span[2])
           /\ \A i \in DOMAIN c.granules : c.granules[i].t \in Int => InReach(c, c.granules[i].t)
<1> DEFINE s == c.starts
<1>1. s \in Seq(Int) /\ s # << >> /\ \A b, d \in DOMAIN s : b < d => s[b] < s[d]
  BY DEF Axis!IsFrameCase
<1>2. c.span[1] \in Int /\ c.span[2] \in Int
  BY DEF Axis!IsFrameCase
<1>3. \A t \in {c.span[1], c.span[2]} \cup {c.granules[i].t : i \in DOMAIN c.granules} :
          s[1] <= t /\ t < s[Len(s)]
  BY DEF Axis!IsFrameCase
<1> HIDE DEF s
<1>4. Len(s) \in Nat \ {0} /\ s \in [1 .. Len(s) -> Int] /\ DOMAIN s = 1 .. Len(s)
  BY <1>1
<1> QED
  BY <1>1, <1>2, <1>3, <1>4 DEF InReach, s

LEMMA BucketLaws ==
    ASSUME NEW c, Axis!IsFrameCase(c), c.starts # << >>, NEW t, InReach(c, t)
    PROVE  /\ Axis!BucketAt(c, t) \in 1 .. (Len(c.starts) - 1)
           /\ \A x \in 1 .. Len(c.starts) : c.starts[x] <= t <=> x <= Axis!BucketAt(c, t)
<1> DEFINE s == c.starts
           n == Len(c.starts)
           S == {b \in 1 .. n : s[b] <= t}
           m == Max(S)
<1>1. /\ n \in Nat \ {0} /\ s \in [1 .. n -> Int]
      /\ \A b, d \in 1 .. n : b < d => s[b] < s[d]
      /\ t \in Int /\ s[1] <= t /\ t < s[n]
  BY CalendarLaws DEF InReach
<1>2. Axis!BucketAt(c, t) = m
  <2>1. DOMAIN s = 1 .. n
    BY <1>1
  <2> QED
    BY <2>1, AxisSame DEF Axis!BucketAt
<1> HIDE DEF s, n
<1>3. S \in SUBSET Int /\ S # {} /\ IsFiniteSet(S)
  <2>1. IsFiniteSet(1 .. n)
    BY <1>1, FS_Interval, 1 \in Int, n \in Int
  <2>2. 1 \in S
    BY <1>1
  <2>3. S \in SUBSET (1 .. n) /\ S \in SUBSET Int
    OBVIOUS
  <2> HIDE DEF S
  <2> QED
    BY <2>1, <2>2, <2>3, FS_Subset
<1>4. m \in S /\ \A x \in S : x <= m
  <2> HIDE DEF S
  <2> QED
    BY <1>3, Extremes
<1> HIDE DEF m
<1>5. m \in 1 .. n /\ s[m] <= t /\ \A x \in 1 .. n : s[x] <= t => x <= m
  BY <1>4
<1>6. m # n
  BY <1>1, <1>5
<1>7. ASSUME NEW x \in 1 .. n, x <= m PROVE s[x] <= t
  <2>1. x = m \/ s[x] < s[m]
    BY <1>1, <1>5, <1>7
  <2>2. s[x] \in Int /\ s[m] \in Int
    BY <1>1, <1>5
  <2> QED
    BY <1>1, <1>5, <2>1, <2>2
<1>8. m \in 1 .. (n - 1)
  BY <1>1, <1>5, <1>6
<1>9. \A x \in 1 .. n : s[x] <= t <=> x <= m
  BY <1>5, <1>7
<1> QED
  BY <1>2, <1>8, <1>9 DEF s, n

\* What the gate admits: a known calendar, two rows at least, and an axis of two
\* intervals at least that the budget holds.
LEMMA AxisLaws ==
    ASSUME NEW c, Axis!IsFrameCase(c), Axis!frame_gate(c) = "none"
    PROVE  \E lo, hi \in Int :
              /\ c.starts # << >> /\ 1 <= lo /\ lo < hi /\ hi < Len(c.starts)
              /\ Axis!Axis(c) = lo .. hi /\ Axis!Min(Axis!Axis(c)) = lo /\ Axis!Max(Axis!Axis(c)) = hi
              /\ Axis!Cardinality(Axis!Axis(c)) = hi - lo + 1
              /\ hi - lo + 1 <= c.frames * c.perFrame
<1> DEFINE lo == Axis!BucketAt(c, c.span[1])
           hi == Axis!BucketAt(c, c.span[2])
           n == Len(c.starts)
<1>1. c.starts # << >>
  BY DEF Axis!frame_gate
<1>2. n \in Nat \ {0} /\ lo \in 1 .. (n - 1) /\ hi \in 1 .. (n - 1)
  <2>1. n \in Nat \ {0} /\ InReach(c, c.span[1]) /\ InReach(c, c.span[2])
    BY <1>1, CalendarLaws
  <2> QED
    BY <1>1, <2>1, BucketLaws
<1>3. Axis!Axis(c) = lo .. hi
  BY DEF Axis!Axis
<1>4. /\ ~(Axis!Cardinality(Axis!Axis(c)) < 2)
      /\ ~(Axis!Cardinality(Axis!Axis(c)) > c.frames * c.perFrame)
  BY DEF Axis!frame_gate
<1> HIDE DEF lo, hi, n
<1>5. IsFiniteSet(lo .. hi) /\ Cardinality(lo .. hi) = IF lo > hi THEN 0 ELSE hi - lo + 1
  BY <1>2, FS_Interval
<1>6. Axis!Cardinality(Axis!Axis(c)) = IF lo > hi THEN 0 ELSE hi - lo + 1
  BY <1>3, <1>5, AxisSame
<1>7. lo \in Int /\ hi \in Int /\ 1 <= lo /\ lo < hi /\ hi < n /\ Axis!Cardinality(Axis!Axis(c)) = hi - lo + 1
  BY <1>2, <1>4, <1>6
<1>8. c.frames * c.perFrame \in Int
  BY DEF Axis!IsFrameCase
<1>9. Min(lo .. hi) = lo /\ Max(lo .. hi) = hi
  <2>1. lo .. hi \in SUBSET Int /\ lo .. hi # {}
    BY <1>2, <1>7
  <2> DEFINE S == lo .. hi
  <2> HIDE DEF S
  <2>2. Min(S) \in S /\ Max(S) \in S /\ \A x \in S : Min(S) <= x /\ x <= Max(S)
    BY <1>5, <2>1, Extremes DEF S
  <2> QED
    BY <1>2, <1>7, <2>2 DEF S
<1>10. hi - lo + 1 <= c.frames * c.perFrame
  BY <1>4, <1>7, <1>8
<1>11. Axis!Min(Axis!Axis(c)) = lo /\ Axis!Max(Axis!Axis(c)) = hi
  BY <1>3, <1>9, AxisSame
<1> QED
  BY <1>1, <1>3, <1>7, <1>10, <1>11 DEF n

\* How intervals are grouped: frame f has the g intervals from lo + f * g, the
\* last frame what is left, and there are as many frames as the budget has.
LEMMA GroupLaws ==
    ASSUME NEW c, Axis!IsFrameCase(c), Axis!frame_gate(c) = "none"
    PROVE  \E lo, hi \in Int, g \in Nat \ {0}, last \in Nat \ {0} :
              /\ c.starts # << >> /\ 1 <= lo /\ lo < hi /\ hi < Len(c.starts)
              /\ Axis!Axis(c) = lo .. hi /\ Axis!Min(Axis!Axis(c)) = lo /\ Axis!Max(Axis!Axis(c)) = hi
              /\ Axis!_frame_group_size(c) = g /\ g <= c.perFrame
              /\ Axis!Frames(c) = 0 .. last /\ last + 1 <= c.frames
              /\ lo + last * g <= hi /\ hi < lo + last * g + g
              /\ \A b \in lo .. hi, f \in 0 .. last :
                    Axis!FrameOf(c, b) = f <=> lo + f * g <= b /\ b < lo + f * g + g
              /\ \A b \in lo .. hi : Axis!FrameOf(c, b) \in 0 .. last
<1>1. PICK lo \in Int, hi \in Int :
              /\ c.starts # << >> /\ 1 <= lo /\ lo < hi /\ hi < Len(c.starts)
              /\ Axis!Axis(c) = lo .. hi /\ Axis!Min(Axis!Axis(c)) = lo /\ Axis!Max(Axis!Axis(c)) = hi
              /\ Axis!Cardinality(Axis!Axis(c)) = hi - lo + 1
              /\ hi - lo + 1 <= c.frames * c.perFrame
  BY AxisLaws
<1> DEFINE n == hi - lo + 1
           F == c.frames
           p == c.perFrame
           g == IF n <= F THEN 1 ELSE Axis!Ceil(n, F)
           last == Axis!Ceil(n, g) - 1
<1>2. n \in Nat /\ n >= 2 /\ F \in Nat \ {0, 1} /\ p \in Nat \ {0} /\ n <= F * p
  BY <1>1 DEF Axis!IsFrameCase
<1>3. Axis!_frame_group_size(c) = g /\ Axis!Frames(c) = 0 .. last
  BY <1>1 DEF Axis!_frame_group_size, Axis!Frames
<1> HIDE DEF n, F, p
<1>4. g \in Nat \ {0} /\ g <= p /\ n <= F * g /\ (n > F => g < n)
  <2>1. CASE n <= F
    BY <1>2, <2>1
  <2>2. CASE ~(n <= F)
    <3> DEFINE q == Axis!Ceil(n, F)
    <3>1. q \in Int /\ n <= F * q /\ F * q < n + F
      BY <1>2, DivisionUp
    <3>2. g = q
      BY <2>2
    <3> HIDE DEF q, g
    <3>3. q >= 1
      <4>1. q <= 0 => F * q <= 0
        BY <1>2, <3>1
      <4> QED
        BY <1>2, <3>1, <4>1
    <3>4. q <= p
      <4>1. q >= p + 1 => F * q >= F * p + F
        <5>1. F * (p + 1) = F * p + F
          BY <1>2
        <5>2. ASSUME q >= p + 1 PROVE F * q >= F * (p + 1)
          BY <1>2, <3>1, <5>2
        <5> QED
          BY <5>1, <5>2
      <4>2. F * p \in Int /\ F * q \in Int
        BY <1>2, <3>1
      <4> QED
        BY <1>2, <3>1, <4>1, <4>2
    <3>5. q < n
      <4>1. q >= n => F * q >= F * n
        BY <1>2, <3>1
      <4>2. F * n >= 2 * n
        BY <1>2
      <4>3. F * n >= n + F
        <5>1. (F - 1) * (n - 1) >= 1
          <6> DEFINE u == F - 1
                     v == n - 1
          <6>1. u \in Nat /\ v \in Nat /\ u >= 1 /\ v >= 1
            BY <1>2
          <6> HIDE DEF u, v
          <6>2. u * v >= 1
            BY <6>1
          <6> QED
            BY <6>2 DEF u, v
        <5>2. (F - 1) * (n - 1) = F * n - F - n + 1
          BY <1>2
        <5> QED
          BY <1>2, <5>1, <5>2
      <4>4. F * n \in Int /\ F * q \in Int
        BY <1>2, <3>1
      <4> QED
        BY <1>2, <3>1, <4>1, <4>3, <4>4
    <3> QED
      BY <3>1, <3>2, <3>3, <3>4, <3>5
  <2> QED
    BY <2>1, <2>2
<1>5. g = 1 \/ n > F
  BY <1>2
<1> DEFINE m == Axis!Ceil(n, g)
<1> HIDE DEF g
<1>6. m \in Int /\ n <= g * m /\ g * m < n + g
  BY <1>2, <1>4, DivisionUp
<1>7. last = m - 1
  OBVIOUS
<1> HIDE DEF m, last
<1>8. m >= 2
  <2>1. g < n
    BY <1>2, <1>4, <1>5
  <2>2. m <= 1 => g * m <= g
    BY <1>4, <1>6
  <2> QED
    BY <1>2, <1>4, <1>6, <2>1, <2>2
<1>9. m <= F
  <2>1. m >= F + 1 => g * m >= g * (F + 1)
    BY <1>2, <1>4, <1>6
  <2>2. g * (F + 1) = F * g + g
    BY <1>2, <1>4
  <2>3. g * m \in Int /\ F * g \in Int
    BY <1>2, <1>4, <1>6
  <2> QED
    BY <1>2, <1>4, <1>6, <2>1, <2>2, <2>3
<1>10. last \in Nat \ {0} /\ last + 1 <= F
  BY <1>2, <1>6, <1>7, <1>8, <1>9
<1>11. lo + last * g <= hi /\ hi < lo + last * g + g
  <2>1. g * m = last * g + g
    BY <1>4, <1>6, <1>7
  <2>2. last * g \in Int /\ hi = lo + n - 1
    BY <1>4, <1>10 DEF n
  <2> HIDE DEF n
  <2> QED
    BY <1>2, <1>4, <1>6, <2>1, <2>2
<1>12. ASSUME NEW b \in lo .. hi, NEW f \in 0 .. last
       PROVE  Axis!FrameOf(c, b) = f <=> lo + f * g <= b /\ b < lo + f * g + g
  <2> DEFINE d == b - lo
  <2>1. d \in Int /\ Axis!FrameOf(c, b) = d \div g
    BY <1>1, <1>3 DEF Axis!FrameOf
  <2>2. f \in Int /\ f * g \in Int /\ g * f = f * g
    BY <1>4, <1>10
  <2>3. /\ d \div g \in Int /\ g * (d \div g) <= d /\ d < g * (d \div g) + g
        /\ g * f <= d /\ d < g * f + g => f = d \div g
    BY <1>4, <2>1, <2>2, Division
  <2>4. d \div g = f <=> g * f <= d /\ d < g * f + g
    BY <2>3
  <2> QED
    BY <1>1, <1>4, <2>1, <2>2, <2>4
<1>13. ASSUME NEW b \in lo .. hi PROVE Axis!FrameOf(c, b) \in 0 .. last
  <2> DEFINE d == b - lo
             q == d \div g
  <2>1. d \in Int /\ 0 <= d /\ Axis!FrameOf(c, b) = q
    BY <1>1, <1>3 DEF Axis!FrameOf
  <2>2. last * g \in Int /\ last * g = g * last
    BY <1>4, <1>10
  <2>3. d < g * last + g
    BY <1>1, <1>4, <1>11, <2>2
  <2> HIDE DEF d
  <2>4. q \in Int /\ g * q <= d /\ d < g * q + g
    BY <1>4, <2>1, Division
  <2> HIDE DEF q
  <2>5. q >= 0
    <3>1. q <= -1 => g * q <= -g
      BY <1>4, <2>4
    <3> QED
      BY <1>4, <2>1, <2>4, <3>1
  <2>6. q <= last
    <3>1. q >= last + 1 => g * q >= g * last + g
      <4>1. g * (last + 1) = g * last + g
        BY <1>4, <1>10
      <4>2. q >= last + 1 => g * q >= g * (last + 1)
        BY <1>4, <1>10, <2>4
      <4> QED
        BY <4>1, <4>2
    <3>2. g * q \in Int /\ g * last \in Int
      BY <1>4, <1>10, <2>4
    <3> QED
      BY <1>4, <1>10, <2>1, <2>3, <2>4, <3>1, <3>2
  <2> QED
    BY <1>10, <2>1, <2>4, <2>5, <2>6
<1> QED
  BY <1>1, <1>3, <1>4, <1>10, <1>11, <1>12, <1>13 DEF F, p

\* Granules are rows of cells at ticks, all of one length.
LEMMA GranulesAreRows ==
    ASSUME NEW c, Axis!IsFrameCase(c)
    PROVE  /\ DOMAIN c.granules = 1 .. Len(c.granules) /\ Len(c.granules) \in Nat
           /\ \A i \in DOMAIN c.granules : c.granules[i].t \in Int
           /\ Len(c.granules) # 0 =>
                /\ DOMAIN c.granules[1].row = 1 .. Len(c.granules[1].row) /\ Len(c.granules[1].row) \in Nat
                /\ \A i \in DOMAIN c.granules : c.granules[i].row \in [1 .. Len(c.granules[1].row) -> Int]
<1> DEFINE G == [t : Int, row : Seq(Int)]
           s == c.granules
<1>1. s \in Seq(G) /\ \A i, j \in DOMAIN s : Len(s[i].row) = Len(s[j].row)
  BY DEF Axis!IsFrameCase
<1> HIDE DEF G, s
<1>2. DOMAIN s = 1 .. Len(s) /\ Len(s) \in Nat /\ \A i \in DOMAIN s : s[i] \in G
  BY <1>1
<1>3. \A i \in DOMAIN s : s[i].t \in Int /\ s[i].row \in Seq(Int)
  BY <1>2 DEF G
<1>4. \A q \in Seq(Int) : Len(q) \in Nat /\ DOMAIN q = 1 .. Len(q) /\ q \in [1 .. Len(q) -> Int]
  OBVIOUS
<1>5. \A i \in DOMAIN s : /\ Len(s[i].row) \in Nat /\ DOMAIN s[i].row = 1 .. Len(s[i].row)
                          /\ s[i].row \in [1 .. Len(s[i].row) -> Int]
  BY <1>3, <1>4
<1>6. Len(s) # 0 => 1 \in DOMAIN s
  BY <1>2
<1>7. ASSUME Len(s) # 0, NEW i \in DOMAIN s PROVE s[i].row \in [1 .. Len(s[1].row) -> Int]
  <2>1. Len(s[i].row) = Len(s[1].row)
    BY <1>1, <1>6, <1>7
  <2> QED
    BY <1>5, <2>1
<1> QED
  BY <1>2, <1>3, <1>5, <1>6, <1>7 DEF s

\* The stops of an admitted axis are as many as the budget allows and average
\* no more intervals than they may.
THEOREM FramesFit == ASSUME NEW c, Axis!IsFrameCase(c) PROVE Axis!AxisWithinBudget(c)
<1> SUFFICES ASSUME Axis!frame_gate(c) = "none"
             PROVE  /\ Axis!Cardinality(Axis!Frames(c)) \in 2 .. c.frames
                    /\ \A f \in Axis!Frames(c) : Axis!Cardinality(Axis!BucketsOf(c, f)) \in 1 .. c.perFrame
  BY DEF Axis!AxisWithinBudget
<1>1. PICK lo \in Int, hi \in Int, g \in Nat \ {0}, last \in Nat \ {0} :
              /\ Axis!Axis(c) = lo .. hi /\ g <= c.perFrame
              /\ Axis!Frames(c) = 0 .. last /\ last + 1 <= c.frames
              /\ lo + last * g <= hi /\ hi < lo + last * g + g
              /\ \A b \in lo .. hi, f \in 0 .. last :
                    Axis!FrameOf(c, b) = f <=> lo + f * g <= b /\ b < lo + f * g + g
  BY GroupLaws
<1>2. Axis!Cardinality(Axis!Frames(c)) = last + 1
  BY <1>1, FS_Interval, AxisSame, 0 \in Int, last \in Int
<1>3. ASSUME NEW f \in 0 .. last PROVE Axis!Cardinality(Axis!BucketsOf(c, f)) \in 1 .. c.perFrame
  <2> DEFINE from == lo + f * g
             to == IF f = last THEN hi ELSE from + g - 1
  <2>1. f * g \in Int /\ f * g <= last * g /\ (f # last => f * g + g <= last * g)
    <3>1. f \in Int /\ f <= last /\ (f # last => f + 1 <= last)
      OBVIOUS
    <3>2. f * g <= last * g
      BY <3>1
    <3>3. f # last => (f + 1) * g <= last * g
      BY <3>1
    <3>4. (f + 1) * g = f * g + g
      BY <3>1
    <3> QED
      BY <3>1, <3>2, <3>3, <3>4
  <2>2. last * g \in Int
    OBVIOUS
  <2>3. from \in Int /\ to \in Int /\ lo <= from /\ from <= to /\ to <= hi /\ to < from + g
    BY <1>1, <2>1, <2>2
  <2>4. \A b \in lo .. hi : lo + f * g <= b /\ b < lo + f * g + g <=> b \in from .. to
    BY <1>1, <2>1, <2>2
  <2> HIDE DEF from, to
  <2>5. Axis!BucketsOf(c, f) = from .. to
    <3>1. from .. to \in SUBSET (lo .. hi)
      BY <2>3
    <3>2. Axis!BucketsOf(c, f) = {b \in lo .. hi : Axis!FrameOf(c, b) = f}
      BY <1>1 DEF Axis!BucketsOf
    <3>3. \A b \in lo .. hi : Axis!FrameOf(c, b) = f <=> b \in from .. to
      BY <1>1, <2>4
    <3> HIDE <1>1
    <3> QED
      BY <3>1, <3>2, <3>3
  <2>6. Cardinality(from .. to) = to - from + 1
    BY <2>3, FS_Interval
  <2>7. c.perFrame \in Int
    BY DEF Axis!IsFrameCase
  <2>8. Axis!Cardinality(Axis!BucketsOf(c, f)) = to - from + 1
    BY <2>5, <2>6, AxisSame
  <2>9. g <= c.perFrame
    BY <1>1
  <2> QED
    BY <2>3, <2>7, <2>8, <2>9
<1>4. c.frames \in Int
  BY DEF Axis!IsFrameCase
<1>5. Axis!Frames(c) = 0 .. last /\ last + 1 <= c.frames
  BY <1>1
<1> QED
  BY <1>2, <1>3, <1>4, <1>5

\* The stops' intervals are whole cadence intervals one after another, and hold
\* the granules that are said to be in them.
THEOREM GranulesAreInTheirInterval ==
    ASSUME NEW c, Axis!IsFrameCase(c) PROVE Axis!GranulesFallInTheirInterval(c)
<1> DEFINE interval(f) == Axis!_frame_intervals(c, f)
           inside(f) == {i \in DOMAIN c.granules :
                            /\ interval(f)[1] <= c.granules[i].t /\ c.granules[i].t < interval(f)[2]
                            /\ Axis!Contributes(c, i)}
<1> SUFFICES ASSUME Axis!frame_gate(c) = "none"
             PROVE  /\ interval(0)[1] = c.starts[Axis!Min(Axis!Axis(c))]
                    /\ interval(Axis!Max(Axis!Frames(c)))[2] = c.starts[Axis!Max(Axis!Axis(c)) + 1]
                    /\ \A f \in Axis!Frames(c) \ {0} : interval(f)[1] = interval(f - 1)[2]
                    /\ \A f \in Axis!Frames(c) : Axis!n_granules(c, f) = Axis!Cardinality(inside(f))
  BY DEF Axis!GranulesFallInTheirInterval
<1>1. PICK lo \in Int, hi \in Int, g \in Nat \ {0}, last \in Nat \ {0} :
              /\ c.starts # << >> /\ 1 <= lo /\ hi < Len(c.starts)
              /\ Axis!Axis(c) = lo .. hi /\ Axis!Min(Axis!Axis(c)) = lo /\ Axis!Max(Axis!Axis(c)) = hi
              /\ Axis!_frame_group_size(c) = g
              /\ Axis!Frames(c) = 0 .. last
              /\ lo + last * g <= hi /\ hi < lo + last * g + g
              /\ \A b \in lo .. hi, f \in 0 .. last :
                    Axis!FrameOf(c, b) = f <=> lo + f * g <= b /\ b < lo + f * g + g
  BY GroupLaws
<1> DEFINE from(f) == lo + f * g
           to(f) == IF f = last THEN hi ELSE lo + f * g + g - 1
<1>2. ASSUME NEW f \in 0 .. last
      PROVE  /\ from(f) \in Int /\ to(f) \in Int /\ lo <= from(f) /\ from(f) <= to(f) /\ to(f) <= hi
             /\ f # 0 => from(f) = to(f - 1) + 1
             /\ interval(f) = <<c.starts[from(f)], c.starts[to(f) + 1]>>
             /\ \A b \in lo .. hi : Axis!FrameOf(c, b) = f <=> from(f) <= b /\ b <= to(f)
  <2>1. f * g \in Int /\ 0 <= f * g /\ f * g <= last * g /\ (f # last => f * g + g <= last * g)
    <3>1. f \in Int /\ 0 <= f /\ f <= last /\ (f # last => f + 1 <= last)
      OBVIOUS
    <3>2. f * g <= last * g /\ 0 <= f * g
      BY <3>1
    <3>3. f # last => (f + 1) * g <= last * g
      BY <3>1
    <3>4. (f + 1) * g = f * g + g
      BY <3>1
    <3> QED
      BY <3>1, <3>2, <3>3, <3>4
  <2>2. last * g \in Int
    OBVIOUS
  <2>3. from(f) \in Int /\ to(f) \in Int /\ lo <= from(f) /\ from(f) <= to(f) /\ to(f) <= hi
    BY <1>1, <2>1, <2>2
  <2>4. f # 0 => from(f) = to(f - 1) + 1
    <3>1. (f - 1) * g = f * g - g /\ f - 1 # last
      BY <2>1
    <3> QED
      BY <1>1, <2>1, <3>1
  <2>5. interval(f) = <<c.starts[from(f)], c.starts[to(f) + 1]>>
    <3>1. Axis!Least(from(f) + g, hi + 1) - 1 = to(f)
      <4>1. lo + last * g <= hi /\ hi < lo + last * g + g
        BY <1>1
      <4>2. CASE f = last
        BY <4>1, <4>2, <2>1, <2>2 DEF Axis!Least
      <4>3. CASE f # last
        BY <4>1, <4>3, <2>1, <2>2 DEF Axis!Least
      <4> QED
        BY <4>2, <4>3
    <3> HIDE DEF to
    <3> QED
      BY <1>1, <3>1 DEF Axis!_frame_intervals
  <2>6. \A b \in lo .. hi : Axis!FrameOf(c, b) = f <=> from(f) <= b /\ b <= to(f)
    <3>1. \A b \in lo .. hi : Axis!FrameOf(c, b) = f <=> lo + f * g <= b /\ b < lo + f * g + g
      BY <1>1
    <3>2. \A b \in lo .. hi : lo + f * g <= b /\ b < lo + f * g + g <=> from(f) <= b /\ b <= to(f)
      BY <1>1, <2>1, <2>2
    <3> QED
      BY <3>1, <3>2
  <2> QED
    BY <2>3, <2>4, <2>5, <2>6
<1>3. 0 \in 0 .. last /\ last \in 0 .. last /\ to(last) = hi /\ from(0) = lo
  OBVIOUS
<1>4. Axis!Max(Axis!Frames(c)) = last
  <2>1. 0 .. last \in SUBSET Int /\ 0 .. last # {}
    OBVIOUS
  <2>3. IsFiniteSet(0 .. last)
    BY FS_Interval, 0 \in Int, last \in Int
  <2> DEFINE S == 0 .. last
  <2> HIDE DEF S
  <2>2. Max(S) \in S /\ \A x \in S : x <= Max(S)
    BY <2>1, <2>3, Extremes DEF S
  <2> QED
    BY <1>1, <2>2, AxisSame DEF S
<1> HIDE DEF from, to, interval
<1>5. \A i \in DOMAIN c.granules : c.granules[i].t \in Int
  BY GranulesAreRows
<1>6. ASSUME NEW f \in 0 .. last PROVE Axis!n_granules(c, f) = Axis!Cardinality(inside(f))
  <2> DEFINE held == {i \in DOMAIN c.granules :
                         Axis!BucketOf(c, i) \in Axis!BucketsOf(c, f) /\ Axis!Contributes(c, i)}
  <2>1. ASSUME NEW i \in DOMAIN c.granules
        PROVE  Axis!BucketOf(c, i) \in Axis!BucketsOf(c, f)
                  <=> interval(f)[1] <= c.granules[i].t /\ c.granules[i].t < interval(f)[2]
    <3> DEFINE t == c.granules[i].t
               b == Axis!BucketAt(c, t)
               n == Len(c.starts)
    <3>1. t \in Int /\ InReach(c, t) /\ n \in Nat
      BY <1>1, <1>5, CalendarLaws
    <3>2. Axis!BucketOf(c, i) = b
      BY DEF Axis!BucketOf
    <3>3. interval(f)[1] = c.starts[from(f)] /\ interval(f)[2] = c.starts[to(f) + 1]
      BY <1>2
    <3>4. b \in 1 .. (n - 1) /\ \A x \in 1 .. n : c.starts[x] <= t <=> x <= b
      BY <1>1, <3>1, BucketLaws
    <3>5. from(f) \in Int /\ to(f) \in Int /\ lo <= from(f) /\ from(f) <= to(f) /\ to(f) <= hi /\ 1 <= lo /\ hi < n
      BY <1>1, <1>2
    <3>6. b \in Axis!BucketsOf(c, f) <=> from(f) <= b /\ b <= to(f)
      <4>1. Axis!BucketsOf(c, f) = {x \in lo .. hi : Axis!FrameOf(c, x) = f}
        BY <1>1 DEF Axis!BucketsOf
      <4>2. \A x \in lo .. hi : Axis!FrameOf(c, x) = f <=> from(f) <= x /\ x <= to(f)
        BY <1>2
      <4> HIDE DEF b, n
      <4>3. from(f) <= b /\ b <= to(f) => b \in lo .. hi
        BY <3>1, <3>4, <3>5
      <4> QED
        BY <4>1, <4>2, <4>3
    <3>7. c.starts[to(f) + 1] \in Int
      <4>1. c.starts \in [1 .. n -> Int]
        BY <1>1, CalendarLaws
      <4>2. to(f) + 1 \in 1 .. n
        BY <3>1, <3>5
      <4> QED
        BY <4>1, <4>2
    <3> HIDE DEF b, n, t
    <3>8. from(f) \in 1 .. n /\ to(f) + 1 \in 1 .. n
      BY <3>1, <3>5
    <3>9. c.starts[from(f)] <= t <=> from(f) <= b
      BY <3>4, <3>8
    <3>10. c.starts[to(f) + 1] <= t <=> to(f) + 1 <= b
      BY <3>4, <3>8
    <3>11. t < c.starts[to(f) + 1] <=> b <= to(f)
      BY <3>1, <3>4, <3>5, <3>7, <3>10
    <3> QED
      BY <3>2, <3>3, <3>6, <3>9, <3>11 DEF t
  <2>2. held = inside(f)
    BY <2>1
  <2> QED
    BY <2>2 DEF Axis!n_granules
<1>7. interval(0)[1] = c.starts[lo] /\ interval(last)[2] = c.starts[hi + 1]
  BY <1>2, <1>3
<1>8. ASSUME NEW f \in (0 .. last) \ {0} PROVE interval(f)[1] = interval(f - 1)[2]
  <2>1. f \in 0 .. last /\ f - 1 \in 0 .. last /\ f # 0
    OBVIOUS
  <2>2. interval(f)[1] = c.starts[from(f)] /\ from(f) = to(f - 1) + 1
    BY <1>2, <2>1
  <2>3. interval(f - 1)[2] = c.starts[to(f - 1) + 1]
    BY <1>2, <2>1
  <2> QED
    BY <2>2, <2>3
<1> QED
  BY <1>1, <1>4, <1>6, <1>7, <1>8

\* The extreme of some values, NaN left out.
Real(V) == V \ {Axis!NaN}
Top(how, V) ==
    IF Real(V) = {} THEN Axis!NaN
    ELSE IF how = "max" THEN Axis!Max(Real(V)) ELSE Axis!Min(Real(V))

\* Of values there are it is one of them, and none is beyond it.
LEMMA TopLaws ==
    ASSUME NEW how \in {"max", "min"}, NEW V \in SUBSET Int, IsFiniteSet(V)
    PROVE  /\ Real(V) = {} => Top(how, V) = Axis!NaN
           /\ Real(V) # {} => /\ Top(how, V) \in Real(V)
                              /\ \A v \in Real(V) : IF how = "max" THEN v <= Top(how, V) ELSE Top(how, V) <= v
<1> DEFINE R == Real(V)
<1>1. R \in SUBSET Int
  BY DEF Real
<1>2. IsFiniteSet(R)
  BY FS_Subset DEF Real
<1>3. Axis!Min(R) = Min(R) /\ Axis!Max(R) = Max(R)
  BY AxisSame
<1> HIDE DEF R
<1>4. ASSUME R # {} PROVE /\ Min(R) \in R /\ \A x \in R : Min(R) <= x
                          /\ Max(R) \in R /\ \A x \in R : x <= Max(R)
  BY <1>1, <1>2, <1>4, Extremes
<1>5. Top(how, V) = IF R = {} THEN Axis!NaN ELSE IF how = "max" THEN Max(R) ELSE Min(R)
  BY <1>3 DEF Top, R
<1>6. /\ R = {} => Top(how, V) = Axis!NaN
      /\ R # {} => /\ Top(how, V) \in R
                   /\ \A v \in R : IF how = "max" THEN v <= Top(how, V) ELSE Top(how, V) <= v
  BY <1>4, <1>5
<1> QED
  BY <1>6 DEF R

\* Nothing else is like that.
LEMMA TopIsTheOne ==
    ASSUME NEW how \in {"max", "min"}, NEW V \in SUBSET Int, IsFiniteSet(V), NEW m \in Real(V),
           \A v \in Real(V) : IF how = "max" THEN v <= m ELSE m <= v
    PROVE  m = Top(how, V)
<1>1. /\ Top(how, V) \in Real(V)
      /\ \A v \in Real(V) : IF how = "max" THEN v <= Top(how, V) ELSE Top(how, V) <= v
  BY TopLaws
<1>2. m \in Int /\ Top(how, V) \in Int
  BY <1>1 DEF Real
<1> DEFINE t == Top(how, V)
<1>3. IF how = "max" THEN t <= m /\ m <= t ELSE m <= t /\ t <= m
  BY <1>1
<1> HIDE DEF t
<1>4. m = t
  BY <1>2, <1>3 DEF t
<1> QED
  BY <1>4 DEF t

\* The extreme of some sets' extremes is the extreme of all their values.
LEMMA TopOfTops ==
    ASSUME NEW how \in {"max", "min"}, NEW W \in SUBSET Int, IsFiniteSet(W), NEW J, NEW V \in [J -> SUBSET W]
    PROVE  Top(how, {Top(how, V[j]) : j \in J}) = Top(how, UNION {V[j] : j \in J})
<1> DEFINE tops == {Top(how, V[j]) : j \in J}
           all == UNION {V[j] : j \in J}
<1>1. \A j \in J : V[j] \in SUBSET Int /\ IsFiniteSet(V[j]) /\ V[j] \in SUBSET W
  BY FS_Subset
<1>2. \A j \in J : /\ Real(V[j]) = {} => Top(how, V[j]) = Axis!NaN
                   /\ Real(V[j]) # {} =>
                        /\ Top(how, V[j]) \in Real(V[j])
                        /\ \A v \in Real(V[j]) : IF how = "max" THEN v <= Top(how, V[j]) ELSE Top(how, V[j]) <= v
  BY <1>1, TopLaws
<1>3. all \in SUBSET Int /\ IsFiniteSet(all)
  <2>1. all \in SUBSET W
    BY <1>1
  <2> HIDE DEF all
  <2> QED
    BY <2>1, FS_Subset
<1>4. tops \in SUBSET (W \cup {Axis!NaN})
  BY <1>1, <1>2 DEF Real
<1>5. tops \in SUBSET Int /\ IsFiniteSet(tops)
  <2>1. IsFiniteSet(W \cup {Axis!NaN}) /\ Axis!NaN \in Int
    BY FS_AddElement DEF Axis!NaN
  <2> HIDE DEF tops
  <2> QED
    BY <1>4, <2>1, FS_Subset
<1>6. \A m \in Real(tops) : m \in Real(all)
  BY <1>2 DEF Real
<1>7. CASE Real(all) = {}
  <2>1. Real(tops) = {}
    BY <1>6, <1>7
  <2> HIDE DEF tops, all
  <2>2. Top(how, tops) = Top(how, all)
    BY <1>3, <1>5, <1>7, <2>1, TopLaws
  <2> QED
    BY <2>2 DEF tops, all
<1>8. CASE Real(all) # {}
  <2>1. \A v \in Real(all) : \E j \in J : v \in Real(V[j])
    BY DEF Real
  <2>2. \A j \in J : Real(V[j]) # {} => Top(how, V[j]) \in Real(tops)
    BY <1>2 DEF Real
  <2>3. Real(tops) # {}
    BY <1>8, <2>1, <2>2
  <2> DEFINE m == Top(how, tops)
  <2>4. /\ m \in Real(tops) /\ m \in Int
        /\ \A t \in Real(tops) : t \in Int /\ IF how = "max" THEN t <= m ELSE m <= t
    <3> HIDE DEF tops
    <3>1. \A t \in Real(tops) : t \in Int
      BY <1>5 DEF Real
    <3> QED
      BY <1>5, <2>3, <3>1, TopLaws
  <2>5. m \in Real(all)
    BY <1>6, <2>4
  <2>6. ASSUME NEW v \in Real(all) PROVE IF how = "max" THEN v <= m ELSE m <= v
    <3>1. PICK j \in J : v \in Real(V[j])
      BY <2>1
    <3> DEFINE t == Top(how, V[j])
    <3>2. /\ t \in Real(tops) /\ IF how = "max" THEN v <= t ELSE t <= v
      BY <1>2, <2>2, <3>1
    <3>3. t \in Int /\ IF how = "max" THEN t <= m ELSE m <= t
      BY <2>4, <3>2
    <3>4. v \in Int
      BY <1>3 DEF Real
    <3> HIDE DEF t, m
    <3> QED
      BY <2>4, <3>2, <3>3, <3>4
  <2> HIDE DEF m, all
  <2>7. m = Top(how, all)
    BY <1>3, <2>5, <2>6, TopIsTheOne
  <2> QED
    BY <2>7 DEF m, all
<1> QED
  BY <1>7, <1>8

\* A pool's extreme, by the definitions of the planes.
LEMMA PlanesAreTops ==
    ASSUME NEW c, NEW how \in {"max", "min"}
    PROVE  /\ \A b, x : Axis!BucketValue(c, how, b, x) =
                  Top(how, {c.granules[i].row[x] : i \in {j \in DOMAIN c.granules : Axis!BucketOf(c, j) = b}})
           /\ \A f, x : Axis!FrameValue(c, how, f, x) =
                  Top(how, {Axis!BucketValue(c, how, b, x) : b \in Axis!BucketsOf(c, f)})
           /\ \A x : Axis!PeriodValue(c, how, x) =
                  Top(how, {Axis!BucketValue(c, how, b, x) : b \in Axis!Axis(c)})
           /\ \A f, d : Axis!FrameBlock(c, how, f, d) =
                  Top(how, {Axis!FrameValue(c, how, f, x) : x \in Axis!Cells(c, d)})
           /\ \A d : Axis!PeriodBlock(c, how, d) =
                  Top(how, {Axis!PeriodValue(c, how, x) : x \in Axis!Cells(c, d)})
<1>0. how = "max" \/ how = "min"
  OBVIOUS
<1>2. ASSUME NEW b, NEW x
      PROVE  Axis!BucketValue(c, how, b, x) =
                  Top(how, {c.granules[i].row[x] : i \in {j \in DOMAIN c.granules : Axis!BucketOf(c, j) = b}})
  <2> DEFINE I == {j \in DOMAIN c.granules : Axis!BucketOf(c, j) = b}
             V == {c.granules[i].row[x] : i \in I}
             P == {i \in I : c.granules[i].row[x] # Axis!NaN}
  <2>1. {c.granules[i].row[x] : i \in P} = Real(V) /\ (P = {} <=> Real(V) = {})
    BY DEF Real
  <2>2. Axis!BucketValue(c, how, b, x) =
            IF P = {} THEN Axis!NaN
            ELSE IF how = "max" THEN Axis!Max({c.granules[i].row[x] : i \in P})
            ELSE Axis!Min({c.granules[i].row[x] : i \in P})
    BY <1>0 DEF Axis!BucketValue, Axis!Pool
  <2> HIDE DEF P, V, I
  <2> QED
    BY <2>1, <2>2 DEF Top, V, I
<1>3. ASSUME NEW S, NEW x
      PROVE  Axis!Pool(how, S, LAMBDA b : Axis!BucketValue(c, how, b, x)) =
                  Top(how, {Axis!BucketValue(c, how, b, x) : b \in S})
  <2> DEFINE v(b) == Axis!BucketValue(c, how, b, x)
             V == {v(b) : b \in S}
             P == {b \in S : v(b) # Axis!NaN}
  <2>1. {v(b) : b \in P} = Real(V) /\ (P = {} <=> Real(V) = {})
    BY DEF Real
  <2>2. Axis!Pool(how, S, LAMBDA b : Axis!BucketValue(c, how, b, x)) =
            IF P = {} THEN Axis!NaN
            ELSE IF how = "max" THEN Axis!Max({v(b) : b \in P}) ELSE Axis!Min({v(b) : b \in P})
    BY <1>0 DEF Axis!Pool
  <2> HIDE DEF P
  <2> QED
    BY <2>1, <2>2 DEF Top
<1>4. ASSUME NEW f, NEW d
      PROVE  Axis!FrameBlock(c, how, f, d) = Top(how, {Axis!FrameValue(c, how, f, x) : x \in Axis!Cells(c, d)})
  <2> DEFINE v(x) == Axis!FrameValue(c, how, f, x)
             S == Axis!Cells(c, d)
             V == {v(x) : x \in S}
             P == {x \in S : v(x) # Axis!NaN}
  <2>1. {v(x) : x \in P} = Real(V) /\ (P = {} <=> Real(V) = {})
    BY DEF Real
  <2>2. Axis!FrameBlock(c, how, f, d) =
            IF P = {} THEN Axis!NaN
            ELSE IF how = "max" THEN Axis!Max({v(x) : x \in P}) ELSE Axis!Min({v(x) : x \in P})
    BY <1>0 DEF Axis!FrameBlock, Axis!Pool
  <2> HIDE DEF P
  <2> QED
    BY <2>1, <2>2 DEF Top
<1>5. ASSUME NEW d
      PROVE  Axis!PeriodBlock(c, how, d) = Top(how, {Axis!PeriodValue(c, how, x) : x \in Axis!Cells(c, d)})
  <2> DEFINE v(x) == Axis!PeriodValue(c, how, x)
             S == Axis!Cells(c, d)
             V == {v(x) : x \in S}
             P == {x \in S : v(x) # Axis!NaN}
  <2>1. {v(x) : x \in P} = Real(V) /\ (P = {} <=> Real(V) = {})
    BY DEF Real
  <2>2. Axis!PeriodBlock(c, how, d) =
            IF P = {} THEN Axis!NaN
            ELSE IF how = "max" THEN Axis!Max({v(x) : x \in P}) ELSE Axis!Min({v(x) : x \in P})
    BY <1>0 DEF Axis!PeriodBlock, Axis!Pool
  <2> HIDE DEF P
  <2> QED
    BY <2>1, <2>2 DEF Top
<1>6. \A f, x : Axis!FrameValue(c, how, f, x) =
                  Top(how, {Axis!BucketValue(c, how, b, x) : b \in Axis!BucketsOf(c, f)})
  BY <1>3 DEF Axis!FrameValue
<1>7. \A x : Axis!PeriodValue(c, how, x) =
                  Top(how, {Axis!BucketValue(c, how, b, x) : b \in Axis!Axis(c)})
  BY <1>3 DEF Axis!PeriodValue
<1> QED
  BY <1>2, <1>4, <1>5, <1>6, <1>7

\* What an interval holds at a cell is a whole number or nothing, and so is what
\* all of them hold at some cells.
LEMMA BucketsAreWhole ==
    ASSUME NEW c, Axis!IsFrameCase(c), Len(c.granules) # 0, NEW how \in {"max", "min"},
           NEW A, IsFiniteSet(A), NEW X \in SUBSET DOMAIN c.granules[1].row
    PROVE  LET W == {Axis!BucketValue(c, how, p[1], p[2]) : p \in A \X X}
           IN  W \in SUBSET Int /\ IsFiniteSet(W)
<1> DEFINE n == Len(c.granules[1].row)
           D == DOMAIN c.granules
           v == [p \in A \X X |-> Axis!BucketValue(c, how, p[1], p[2])]
<1>1. /\ D = 1 .. Len(c.granules) /\ Len(c.granules) \in Nat
      /\ DOMAIN c.granules[1].row = 1 .. n /\ n \in Nat
      /\ \A i \in D : c.granules[i].row \in [1 .. n -> Int]
  BY GranulesAreRows
<1>2. ASSUME NEW b \in A, NEW x \in X PROVE Axis!BucketValue(c, how, b, x) \in Int
  <2> DEFINE I == {j \in D : Axis!BucketOf(c, j) = b}
             f == [i \in I |-> c.granules[i].row[x]]
             V == {f[i] : i \in I}
  <2>1. IsFiniteSet(D)
    BY <1>1, FS_Interval, 1 \in Int, Len(c.granules) \in Int
  <2>2. IsFiniteSet(I)
    BY <2>1, FS_Subset
  <2>3. V \in SUBSET Int
    <3>1. x \in 1 .. n
      BY <1>1
    <3>2. \A i \in I : c.granules[i].row[x] \in Int
      BY <1>1, <3>1
    <3> QED
      BY <3>2
  <2>4. V = {c.granules[i].row[x] : i \in I}
    OBVIOUS
  <2>5. Axis!BucketValue(c, how, b, x) = Top(how, {c.granules[i].row[x] : i \in I})
    BY PlanesAreTops
  <2> HIDE DEF I, f
  <2>6. IsFiniteSet(V)
    BY <2>2, FiniteImage
  <2> HIDE DEF V
  <2>7. Top(how, V) \in Int
    <3>1. (Real(V) = {} /\ Top(how, V) = Axis!NaN) \/ Top(how, V) \in Real(V)
      BY <2>3, <2>6, TopLaws
    <3>2. Real(V) \in SUBSET Int /\ Axis!NaN \in Int
      BY <2>3 DEF Axis!NaN, Real
    <3> QED
      BY <3>1, <3>2
  <2> QED
    BY <2>4, <2>5, <2>7
<1>3. IsFiniteSet(A \X X)
  <2>1. IsFiniteSet(1 .. n)
    BY <1>1, FS_Interval, 1 \in Int, n \in Int
  <2>2. IsFiniteSet(X)
    BY <1>1, <2>1, FS_Subset
  <2> QED
    BY <2>2, FS_Product
<1>4. {v[p] : p \in A \X X} = {Axis!BucketValue(c, how, p[1], p[2]) : p \in A \X X}
  OBVIOUS
<1> HIDE DEF v
<1>5. IsFiniteSet({v[p] : p \in A \X X})
  BY <1>3, FiniteImage
<1>6. {Axis!BucketValue(c, how, p[1], p[2]) : p \in A \X X} \in SUBSET Int
  BY <1>2
<1> QED
  BY <1>4, <1>5, <1>6

\* The extreme of the frames' blocks is the period's, at either tier: both are
\* the extreme of what the same intervals hold at the same cells.
THEOREM FrameExtremesAgree == ASSUME NEW c, Axis!IsFrameCase(c) PROVE Axis!ExtremesAgree(c)
<1> SUFFICES ASSUME Axis!frame_gate(c) = "none", NEW how \in {"max", "min"}, NEW d \in Axis!Blocks(c)
             PROVE  Axis!Pool(how, Axis!Frames(c), LAMBDA f : Axis!FrameBlock(c, how, f, d))
                        = Axis!PeriodBlock(c, how, d)
  BY DEF Axis!ExtremesAgree
<1> DEFINE A == Axis!Axis(c)
           F == Axis!Frames(c)
           B(f) == Axis!BucketsOf(c, f)
           X == Axis!Cells(c, d)
           V(b, x) == Axis!BucketValue(c, how, b, x)
           W == {V(p[1], p[2]) : p \in A \X X}
           column == [x \in X |-> {V(b, x) : b \in A}]
           frameColumn(f) == [x \in X |-> {V(b, x) : b \in B(f)}]
           frame == [f \in F |-> UNION {frameColumn(f)[x] : x \in X}]
<1>1. IsFiniteSet(A) /\ (\A b \in A : \E f \in F : b \in B(f)) /\ \A f \in F : B(f) \in SUBSET A
  <2>0. PICK lo \in Int, hi \in Int, g \in Nat \ {0}, last \in Nat \ {0} :
              /\ c.starts # << >> /\ 1 <= lo /\ lo < hi /\ hi < Len(c.starts)
              /\ Axis!Axis(c) = lo .. hi /\ Axis!Min(Axis!Axis(c)) = lo /\ Axis!Max(Axis!Axis(c)) = hi
              /\ Axis!_frame_group_size(c) = g /\ g <= c.perFrame
              /\ Axis!Frames(c) = 0 .. last /\ last + 1 <= c.frames
              /\ lo + last * g <= hi /\ hi < lo + last * g + g
              /\ \A b \in lo .. hi, f \in 0 .. last :
                    Axis!FrameOf(c, b) = f <=> lo + f * g <= b /\ b < lo + f * g + g
              /\ \A b \in lo .. hi : Axis!FrameOf(c, b) \in 0 .. last
    BY Zenon, GroupLaws
  <2>1. /\ Axis!Axis(c) = lo .. hi /\ Axis!Frames(c) = 0 .. last
        /\ \A b \in lo .. hi : Axis!FrameOf(c, b) \in 0 .. last
    BY <2>0
  <2>2. IsFiniteSet(lo .. hi)
    BY FS_Interval
  <2>3. \A f : B(f) = {b \in lo .. hi : Axis!FrameOf(c, b) = f}
    BY <2>1 DEF Axis!BucketsOf
  <2> QED
    BY <2>1, <2>2, <2>3
<1>2. X \in SUBSET DOMAIN c.granules[1].row /\ Len(c.granules) # 0
  BY GranulesAreRows DEF Axis!Cells, Axis!frame_gate
<1>3. W \in SUBSET Int /\ IsFiniteSet(W)
  BY <1>1, <1>2, BucketsAreWhole
<1>4. /\ \A f \in F : \A x \in X : Axis!FrameValue(c, how, f, x) = Top(how, {V(b, x) : b \in B(f)})
      /\ \A x \in X : Axis!PeriodValue(c, how, x) = Top(how, {V(b, x) : b \in A})
      /\ \A f \in F : Axis!FrameBlock(c, how, f, d) = Top(how, {Axis!FrameValue(c, how, f, x) : x \in X})
      /\ Axis!PeriodBlock(c, how, d) = Top(how, {Axis!PeriodValue(c, how, x) : x \in X})
  <2>1. \A f \in F : \A x \in X : Axis!FrameValue(c, how, f, x) = Top(how, {V(b, x) : b \in B(f)})
    <3>1. \A f, x : Axis!FrameValue(c, how, f, x) =
                    Top(how, {Axis!BucketValue(c, how, b, x) : b \in Axis!BucketsOf(c, f)})
      BY PlanesAreTops
    <3> QED
      BY <3>1
  <2>2. \A x \in X : Axis!PeriodValue(c, how, x) = Top(how, {V(b, x) : b \in A})
    BY PlanesAreTops
  <2>3. \A f \in F : Axis!FrameBlock(c, how, f, d) = Top(how, {Axis!FrameValue(c, how, f, x) : x \in X})
    BY PlanesAreTops
  <2>4. Axis!PeriodBlock(c, how, d) = Top(how, {Axis!PeriodValue(c, how, x) : x \in X})
    BY PlanesAreTops
  <2> QED
    BY <2>1, <2>2, <2>3, <2>4
<1> DEFINE v(f) == Axis!FrameBlock(c, how, f, d)
           finite == {f \in F : v(f) # Axis!NaN}
<1>5. Axis!Pool(how, F, LAMBDA f : Axis!FrameBlock(c, how, f, d)) = Top(how, {v(f) : f \in F})
  <2>1. {v(f) : f \in finite} = Real({v(f) : f \in F}) /\ (finite = {} <=> Real({v(f) : f \in F}) = {})
    BY DEF Real
  <2>2. Axis!Pool(how, F, LAMBDA f : Axis!FrameBlock(c, how, f, d)) =
            IF finite = {} THEN Axis!NaN
            ELSE IF how = "max" THEN Axis!Max({v(f) : f \in finite}) ELSE Axis!Min({v(f) : f \in finite})
    BY DEF Axis!Pool
  <2> HIDE DEF finite
  <2> QED
    BY <2>1, <2>2 DEF Top
<1> HIDE DEF A, F, B, X, V, W
<1>6. column \in [X -> SUBSET W] /\ \A f \in F : frameColumn(f) \in [X -> SUBSET W]
  <2>1. ASSUME NEW b \in A, NEW x \in X PROVE V(b, x) \in W
    <3> DEFINE p == <<b, x>>
    <3>1. p \in A \X X /\ V(b, x) = V(p[1], p[2])
      OBVIOUS
    <3> HIDE DEF p
    <3> QED
      BY <3>1 DEF W
  <2> QED
    BY <1>1, <2>1
<1>7. Axis!PeriodBlock(c, how, d) = Top(how, UNION {column[x] : x \in X})
  <2>1. {Axis!PeriodValue(c, how, x) : x \in X} = {Top(how, column[x]) : x \in X}
    BY <1>4
  <2> HIDE DEF column
  <2>2. Top(how, {Top(how, column[x]) : x \in X}) = Top(how, UNION {column[x] : x \in X})
    BY <1>3, <1>6, TopOfTops
  <2> QED
    BY <1>4, <2>1, <2>2
<1>8. ASSUME NEW f \in F PROVE v(f) = Top(how, frame[f])
  <2>1. {Axis!FrameValue(c, how, f, x) : x \in X} = {Top(how, frameColumn(f)[x]) : x \in X}
    BY <1>4
  <2> DEFINE h == frameColumn(f)
  <2>2. frame[f] = UNION {h[x] : x \in X} /\ h \in [X -> SUBSET W]
    BY <1>6
  <2>3. {Axis!FrameValue(c, how, f, x) : x \in X} = {Top(how, h[x]) : x \in X}
    BY <2>1
  <2> HIDE DEF h, frameColumn, frame
  <2>4. Top(how, {Top(how, h[x]) : x \in X}) = Top(how, UNION {h[x] : x \in X})
    BY <1>3, <2>2, TopOfTops
  <2> QED
    BY <1>4, <2>2, <2>3, <2>4
<1>9. frame \in [F -> SUBSET W]
  <2> HIDE DEF frameColumn
  <2> QED
    BY <1>6
<1>10. Top(how, {v(f) : f \in F}) = Top(how, UNION {frame[f] : f \in F})
  <2>1. {v(f) : f \in F} = {Top(how, frame[f]) : f \in F}
    BY <1>8
  <2> HIDE DEF frame, v
  <2>2. Top(how, {Top(how, frame[f]) : f \in F}) = Top(how, UNION {frame[f] : f \in F})
    BY <1>3, <1>9, TopOfTops
  <2> QED
    BY <2>1, <2>2
<1>11. UNION {frame[f] : f \in F} = UNION {column[x] : x \in X}
  BY <1>1
<1> QED
  BY <1>5, <1>7, <1>10, <1>11 DEF F

\* The cells of a block are at most k, and the blocks share none.
LEMMA BlockLaws ==
    ASSUME NEW c, Axis!IsFrameCase(c), Len(c.granules) # 0
    PROVE  LET n == Len(c.granules[1].row)
           IN  /\ DOMAIN c.granules[1].row = 1 .. n /\ n \in Nat /\ IsFiniteSet(1 .. n)
               /\ \A x \in 1 .. n : /\ Axis!Ceil(x, c.k) \in Axis!Blocks(c)
                                    /\ x - c.k * (Axis!Ceil(x, c.k) - 1) \in 1 .. c.k
<1> DEFINE n == Len(c.granules[1].row)
           k == c.k
           last == Axis!Ceil(n, k)
<1>1. DOMAIN c.granules[1].row = 1 .. n /\ n \in Nat
  BY GranulesAreRows
<1>2. k \in Nat \ {0}
  BY DEF Axis!IsFrameCase
<1>3. Axis!Blocks(c) = 1 .. last
  BY DEF Axis!Blocks
<1>4. IsFiniteSet(1 .. n)
  BY <1>1, FS_Interval, 1 \in Int, n \in Int
<1> HIDE DEF n, k
<1>5. last \in Int /\ n <= k * last /\ k * last < n + k
  <2>1. n \in Int
    BY <1>1
  <2> QED
    BY <1>2, <2>1, DivisionUp
<1> HIDE DEF last
<1>6. ASSUME NEW x \in 1 .. n
      PROVE  Axis!Ceil(x, k) \in 1 .. last /\ x - k * (Axis!Ceil(x, k) - 1) \in 1 .. k
  <2> DEFINE d == Axis!Ceil(x, k)
  <2>0. x \in Int
    OBVIOUS
  <2>1. d \in Int /\ x <= k * d /\ k * d < x + k
    BY <1>2, <2>0, DivisionUp
  <2> HIDE DEF d
  <2>2. d >= 1
    <3>1. d <= 0 => k * d <= 0
      BY <1>2, <2>1
    <3> QED
      BY <1>2, <2>1, <3>1
  <2>3. d <= last
    <3>1. d >= last + 1 => k * d >= k * last + k
      <4>1. k * (last + 1) = k * last + k
        BY <1>2, <1>5
      <4>2. d >= last + 1 => k * d >= k * (last + 1)
        BY <1>2, <1>5, <2>1
      <4> QED
        BY <4>1, <4>2
    <3>2. k * last \in Int /\ k * d \in Int
      BY <1>2, <1>5, <2>1
    <3> QED
      BY <1>1, <1>2, <1>5, <2>1, <3>1, <3>2
  <2>4. x - k * (d - 1) \in 1 .. k
    <3>1. k * (d - 1) = k * d - k /\ k * d \in Int
      BY <1>2, <2>1
    <3> QED
      BY <1>2, <2>1, <3>1
  <2> QED
    BY <1>5, <2>1, <2>2, <2>3, <2>4 DEF d
<1> QED
  BY <1>1, <1>3, <1>4, <1>6 DEF n, k

\* The area of some cells is the sum of theirs.
LEMMA CellAreas ==
    ASSUME NEW c, Axis!IsFrameCase(c), Len(c.granules) # 0, NEW X \in SUBSET DOMAIN c.granules[1].row
    PROVE  LET n == Len(c.granules[1].row)
           IN  /\ c.area \in [1 .. n -> Int] /\ \A x \in 1 .. n : c.area[x] >= 1
               /\ IsFiniteSet(X) /\ X \in SUBSET (1 .. n)
               /\ Axis!AreaOf(c, X) = TotalOf(c.area, X) /\ Axis!AreaOf(c, X) \in Nat
<1> DEFINE n == Len(c.granules[1].row)
           w == c.area
<1>1. DOMAIN c.granules[1].row = 1 .. n /\ n \in Nat /\ IsFiniteSet(1 .. n)
  BY BlockLaws
<1>2. w \in Seq(Nat \ {0}) /\ Len(w) = n
  <2>1. 1 \in DOMAIN c.granules
    BY GranulesAreRows
  <2> QED
    BY <2>1 DEF Axis!IsFrameCase
<1> HIDE DEF w, n
<1>3. w \in [1 .. n -> Nat \ {0}]
  BY <1>2
<1>4. w \in [1 .. n -> Int] /\ \A x \in 1 .. n : w[x] >= 1
  BY <1>3
<1>5. X \in SUBSET (1 .. n) /\ IsFiniteSet(X)
  BY <1>1, FS_Subset
<1> DEFINE Sums(g) == [s \in SUBSET X |->
                          IF s = {} THEN 0
                          ELSE LET x == CHOOSE x \in s : TRUE
                               IN  c.area[x] + g[s \ {x}]]
           sums == CHOOSE g : g = Sums(g)
<1>6. \A g : Sums(g) = SumsOf(X, w, g)
  BY DEF SumsOf, Pick, w
<1>7. Axis!AreaOf(c, X) = sums[X]
  <2>1. Axis!MapThenSumSet(LAMBDA x : c.area[x], X) = sums[X]
    BY Zenon DEF Axis!MapThenSumSet, Axis!MapThenFoldSet, sums, Sums
  <2> QED
    BY <2>1 DEF Axis!AreaOf
<1> HIDE DEF Sums
<1>8. /\ \E g : g = SumsOf(X, w, g)
      /\ \A g : g = SumsOf(X, w, g) => g[X] = TotalOf(w, X)
  BY <1>4, <1>5, TotalIsTheSum
<1>9. sums = Sums(sums)
  BY <1>6, <1>8
<1> HIDE DEF sums
<1>10. Axis!AreaOf(c, X) = TotalOf(w, X)
  BY <1>6, <1>7, <1>8, <1>9
<1>11. TotalOf(w, X) \in Nat
  <2>1. \A x \in X : w[x] >= 0
    BY <1>4, <1>5
  <2> QED
    BY <1>4, <1>5, <2>1, TotalGrows
<1> QED
  BY <1>4, <1>5, <1>10, <1>11 DEF w, n

\* In each frame the cells at their block's peak are painted.  What is painted is at
\* most k times as large as they are, but for how the areas of two cells of a block
\* differ: were it more in every block, the sum over all of them would say so.
LEMMA PeaksArePainted ==
    ASSUME NEW c, Axis!IsFrameCase(c), Axis!frame_gate(c) = "none", NEW f \in Axis!Frames(c)
    PROVE  /\ Axis!peak_area(c, f) \in Nat /\ Axis!painted_area(c, f) \in Nat
           /\ Axis!peak_area(c, f) <= Axis!painted_area(c, f)
           /\ Axis!peak_area(c, f) > 0 =>
                \E b \in Axis!Blocks(c) : \E x, y \in Axis!Cells(c, b) :
                    Axis!painted_area(c, f) * c.area[y] <= c.k * c.area[x] * Axis!peak_area(c, f)
<1> DEFINE n == Len(c.granules[1].row)
           N == DOMAIN c.granules[1].row
           k == c.k
           block(x) == Axis!Ceil(x, c.k)
           v(x) == Axis!FrameValue(c, "max", f, x)
           top(d) == Axis!FrameBlock(c, "max", f, d)
           X(d) == Axis!Cells(c, d)
           P == Axis!Painted(c, f)
           K == Axis!AtPeak(c, f)
<1>0. Len(c.granules) # 0
  BY GranulesAreRows DEF Axis!frame_gate
<1>1. /\ N = 1 .. n /\ n \in Nat /\ IsFiniteSet(1 .. n)
      /\ \A x \in 1 .. n : block(x) \in Axis!Blocks(c) /\ x - k * (block(x) - 1) \in 1 .. k
  BY <1>0, BlockLaws
<1>2. /\ \A d : X(d) = {x \in N : block(x) = d}
      /\ P = UNION {X(d) : d \in {e \in Axis!Blocks(c) : top(e) # Axis!NaN}}
      /\ K = {x \in N : v(x) # Axis!NaN /\ v(x) = top(block(x))}
  BY DEF Axis!Cells, Axis!Painted, Axis!AtPeak
<1>3. k \in Nat \ {0}
  BY DEF Axis!IsFrameCase
<1>4. ASSUME NEW d, top(d) # Axis!NaN PROVE \E y \in X(d) : v(y) = top(d)
  <2> DEFINE Y == X(d)
             V == {v(x) : x \in Y}
             A == Axis!Axis(c)
             W == {Axis!BucketValue(c, "max", p[1], p[2]) : p \in A \X Y}
  <2>1. top(d) = Top("max", V)
    BY PlanesAreTops
  <2>2. Y \in SUBSET N
    BY <1>2
  <2>3. IsFiniteSet(A)
    <3>1. \E lo, hi \in Int : A = lo .. hi
      BY AxisLaws
    <3> QED
      BY <3>1, FS_Interval
  <2>4. W \in SUBSET Int /\ IsFiniteSet(W)
    BY <1>0, <2>2, <2>3, BucketsAreWhole
  <2>5. \A x \in Y : v(x) \in Int
    <3> SUFFICES ASSUME NEW x \in Y PROVE v(x) \in Int
      OBVIOUS
    <3> DEFINE B == Axis!BucketsOf(c, f)
               U == {Axis!BucketValue(c, "max", b, x) : b \in B}
    <3>1. v(x) = Top("max", U)
      BY PlanesAreTops
    <3>2. B \in SUBSET A
      BY DEF Axis!BucketsOf
    <3>3. U \in SUBSET W
      <4>1. ASSUME NEW b \in B PROVE Axis!BucketValue(c, "max", b, x) \in W
        <5>1. <<b, x>> \in A \X Y
          BY <3>2
        <5> QED
          BY <5>1
      <4> QED
        BY <4>1
    <3> HIDE DEF U, W
    <3>4. U \in SUBSET Int /\ IsFiniteSet(U)
      BY <2>4, <3>3, FS_Subset
    <3>5. Top("max", U) = Axis!NaN \/ Top("max", U) \in Real(U)
      BY <3>4, TopLaws
    <3>6. Real(U) \in SUBSET Int /\ Axis!NaN \in Int
      BY <3>4 DEF Real, Axis!NaN
    <3> QED
      BY <3>1, <3>5, <3>6
  <2>6. V \in SUBSET Int /\ IsFiniteSet(V)
    <3> DEFINE w == [x \in Y |-> v(x)]
    <3>1. V = {w[x] : x \in Y}
      OBVIOUS
    <3>2. IsFiniteSet(Y)
      BY <1>1, <2>2, FS_Subset
    <3> HIDE DEF w
    <3>3. IsFiniteSet({w[x] : x \in Y})
      BY <3>2, FiniteImage
    <3> QED
      BY <2>5, <3>1, <3>3
  <2> HIDE DEF V
  <2>7. Top("max", V) \in Real(V)
    BY <1>4, <2>1, <2>6, TopLaws
  <2> QED
    BY <2>1, <2>7 DEF V, Real
<1>5. K \in SUBSET P
  <2>1. ASSUME NEW x \in K PROVE x \in P
    <3>1. x \in N /\ top(block(x)) # Axis!NaN /\ block(x) \in Axis!Blocks(c)
      BY <1>1, <1>2
    <3>2. x \in X(block(x))
      BY <1>2, <3>1
    <3> QED
      BY <1>2, <3>1, <3>2
  <2> QED
    BY <2>1
<1>6. P \in SUBSET N /\ \A x \in P : top(block(x)) # Axis!NaN
  BY <1>2
<1>7. \A x \in P : \E y \in K : block(y) = block(x)
  <2> SUFFICES ASSUME NEW x \in P PROVE \E y \in K : block(y) = block(x)
    OBVIOUS
  <2>1. PICK y \in X(block(x)) : v(y) = top(block(x))
    BY <1>4, <1>6
  <2>2. y \in N /\ block(y) = block(x)
    BY <1>2
  <2> QED
    BY <1>2, <1>6, <2>1, <2>2
<1> DEFINE w == c.area
           a == Axis!painted_area(c, f)
           e == Axis!peak_area(c, f)
<1>8. P \in SUBSET N /\ K \in SUBSET N
  BY <1>5, <1>6
<1>9. /\ w \in [1 .. n -> Int] /\ \A x \in 1 .. n : w[x] >= 1
      /\ IsFiniteSet(P) /\ P \in SUBSET (1 .. n) /\ a = TotalOf(w, P) /\ a \in Nat
      /\ IsFiniteSet(K) /\ K \in SUBSET (1 .. n) /\ e = TotalOf(w, K) /\ e \in Nat
  <2>1. /\ w \in [1 .. n -> Int] /\ \A x \in 1 .. n : w[x] >= 1
        /\ IsFiniteSet(P) /\ P \in SUBSET (1 .. n) /\ Axis!AreaOf(c, P) = TotalOf(w, P) /\ Axis!AreaOf(c, P) \in Nat
    BY <1>0, <1>8, CellAreas
  <2>2. /\ IsFiniteSet(K) /\ K \in SUBSET (1 .. n) /\ Axis!AreaOf(c, K) = TotalOf(w, K) /\ Axis!AreaOf(c, K) \in Nat
    BY <1>0, <1>8, CellAreas
  <2>3. a = Axis!AreaOf(c, P) /\ e = Axis!AreaOf(c, K)
    BY DEF Axis!painted_area, Axis!peak_area
  <2> QED
    BY <2>1, <2>2, <2>3
<1>10. \A x \in P : block(x) \in Axis!Blocks(c) /\ x \in X(block(x))
  BY <1>1, <1>2, <1>9
<1>11. \A x, y : block(x) = block(y) /\ y \in P => y \in X(block(x))
  BY <1>2, <1>9, <1>1
<1>12. \A x \in P : x \in Int /\ block(x) \in Int /\ x - k * (block(x) - 1) \in 1 .. k
  <2>1. ASSUME NEW x \in 1 .. n PROVE block(x) \in Int
    <3>1. x \in Int
      OBVIOUS
    <3> QED
      BY <1>3, <3>1, DivisionUp
  <2> QED
    BY <1>1, <1>9, <2>1
<1>13. c.area = w
  OBVIOUS
<1> HIDE DEF N, block, v, top, X, P, K, w, a, e
<1>14. e <= a
  <2>1. \A x \in P : w[x] >= 0
    BY <1>9
  <2> QED
    BY <1>5, <1>9, <2>1, TotalGrows
<1> DEFINE near(b) == \E x, y \in X(b) : a * w[y] <= k * w[x] * e
<1>15. ASSUME e > 0, \A b \in Axis!Blocks(c) : ~near(b) PROVE FALSE
  <2> DEFINE phi == [x \in P |-> CHOOSE y \in K : block(y) = block(x)]
             u == [x \in P |-> w[phi[x]]]
             z == k * e
  <2>1. phi \in [P -> K] /\ \A x \in P : block(phi[x]) = block(x)
    BY <1>7
  <2> HIDE DEF phi
  <2>2. u \in [P -> Int] /\ \A x \in P : u[x] = w[phi[x]] /\ phi[x] \in 1 .. n
    BY <1>9, <2>1
  <2>3. [x \in P |-> w[phi[x]]] = u
    OBVIOUS
  <2> HIDE DEF u
  <2>4. ASSUME NEW x \in P PROVE z * w[x] + 1 <= a * u[x]
    <3>1. block(x) \in Axis!Blocks(c) /\ x \in X(block(x)) /\ phi[x] \in X(block(x))
      BY <1>5, <1>10, <1>11, <2>1
    <3>2. ~(a * w[phi[x]] <= k * w[x] * e)
      BY <1>15, <3>1
    <3> DEFINE i == w[x]
               j == u[x]
    <3>3. i \in Int /\ j \in Int /\ ~(a * j <= k * i * e)
      BY <1>9, <2>2, <3>2
    <3> HIDE DEF i, j
    <3>4. k * i * e = z * i /\ z * i \in Int /\ a * j \in Int
      <4>1. k * i * e = (k * e) * i
        BY <1>3, <1>9, <3>3
      <4> QED
        BY <1>3, <1>9, <3>3, <4>1
    <3>5. z * i + 1 <= a * j
      <4> HIDE DEF z
      <4> QED
        BY <3>3, <3>4
    <3> QED
      BY <3>5 DEF i, j
  <2>5. z \in Int /\ a \in Int
    BY <1>3, <1>9
  <2> HIDE DEF z
  <2> DEFINE W == [x \in P |-> w[x]]
  <2>6. W \in [P -> Int] /\ \A x \in P : W[x] = w[x]
    BY <1>9
  <2>7. TotalOf(W, P) = TotalOf(w, P)
    <3>1. \A g : SumsOf(P, W, g) = SumsOf(P, w, g)
      <4>1. \A s \in SUBSET P : s # {} => W[Pick(s)] = w[Pick(s)]
        BY <2>6 DEF Pick
      <4> HIDE DEF W
      <4> QED
        BY <4>1 DEF SumsOf
    <3> HIDE DEF W
    <3>2. /\ \E g : g = SumsOf(P, W, g)
          /\ \A g : g = SumsOf(P, W, g) => g[P] = TotalOf(W, P)
      <4>1. IsFiniteSet(P) /\ P \in SUBSET P /\ W \in [P -> Int]
        BY <1>9, <2>6
      <4> QED
        BY <4>1, TotalIsTheSum
    <3>3. \A g : g = SumsOf(P, w, g) => g[P] = TotalOf(w, P)
      BY <1>9, TotalIsTheSum
    <3> QED
      BY <3>1, <3>2, <3>3
  <2> HIDE DEF W
  <2>8. z * TotalOf(W, P) + 1 * Cardinality(P) <= a * TotalOf(u, P)
    <3>1. \A x \in P : z * W[x] + 1 <= a * u[x]
      BY <2>4, <2>6
    <3> QED
      BY <1>9, <2>2, <2>5, <2>6, <3>1, TotalsCompare, 1 \in Int
  <2>9. TotalOf(u, P) <= k * TotalOf(w, K)
    <3>1. ASSUME NEW y \in K PROVE Cardinality({x \in P : phi[x] = y}) <= k
      <4> DEFINE Q == {x \in P : phi[x] = y}
                 place == [x \in Q |-> x - k * (block(x) - 1)]
      <4>1. \A x \in Q : block(x) = block(y) /\ x \in P
        BY <2>1
      <4>2. IsFiniteSet(1 .. k) /\ Cardinality(1 .. k) = k
        <5>1. k \in Int /\ 1 \in Int /\ ~(1 > k)
          BY <1>3
        <5>2. Cardinality(1 .. k) = k - 1 + 1 /\ IsFiniteSet(1 .. k)
          BY <5>1, FS_Interval
        <5> QED
          BY <5>1, <5>2
      <4>3. place \in Injection(Q, 1 .. k)
        <5>1. place \in [Q -> 1 .. k]
          BY <1>12
        <5>2. ASSUME NEW p \in Q, NEW q \in Q, place[p] = place[q] PROVE p = q
          <6>1. p - k * (block(p) - 1) = q - k * (block(q) - 1) /\ block(p) = block(q)
            BY <4>1, <5>2
          <6>2. p \in Int /\ q \in Int /\ block(p) \in Int
            BY <1>12, <4>1
          <6>3. k * (block(p) - 1) \in Int
            BY <1>3, <6>2
          <6> QED
            BY <6>1, <6>2, <6>3
        <5> HIDE DEF place
        <5> QED
          BY <5>1, <5>2 DEF Injection, IsInjective
      <4> HIDE DEF place, Q
      <4>4. Cardinality(Q) <= k
        BY <4>2, <4>3, FS_Injection
      <4> QED
        BY <4>4 DEF Q
    <3>2. \A y \in K : w[y] >= 0
      BY <1>9
    <3>3. TotalOf([x \in P |-> w[phi[x]]], P) <= k * TotalOf(w, K)
      <4>1. k \in Nat
        BY <1>3
      <4> QED
        BY <1>9, <2>1, <3>1, <3>2, <4>1, TotalOfFibres
    <3> QED
      BY <2>3, <3>3
  <2>10. z * a + Cardinality(P) <= a * TotalOf(u, P) /\ TotalOf(u, P) \in Int /\ Cardinality(P) \in Nat
    <3>1. TotalOf(u, P) \in Int /\ Cardinality(P) \in Nat
      BY <1>9, <2>2, TotalIsWhole, FS_CardinalityType
    <3> QED
      BY <1>9, <2>7, <2>8, <3>1
  <2>11. TotalOf(u, P) <= z
    BY <1>9, <2>9 DEF z
  <2> DEFINE m == TotalOf(u, P)
             o == Cardinality(P)
  <2>12. m \in Int /\ o \in Nat /\ z * a + o <= a * m /\ m <= z
    BY <2>10, <2>11
  <2> HIDE DEF m
  <2>13. o = 0
    <3> HIDE DEF o
    <3>1. a * m <= a * z
      BY <1>9, <2>5, <2>12
    <3>2. a * z = z * a /\ a * z \in Int /\ a * m \in Int
      BY <2>5, <2>12
    <3> QED
      BY <2>12, <3>1, <3>2
  <2>14. P = {}
    BY <1>9, <2>13, FS_EmptySet
  <2>15. K = {}
    BY <1>5, <2>14
  <2>16. TotalOf(w, K) = 0
    BY <1>9, <2>15, TotalOfNothing
  <2> QED
    BY <1>9, <1>15, <2>16
<1>16. e > 0 => \E b \in Axis!Blocks(c) : near(b)
  BY <1>15
<1>17. \A b \in Axis!Blocks(c) : near(b) <=> \E x, y \in Axis!Cells(c, b) : a * c.area[y] <= c.k * c.area[x] * e
  BY <1>13 DEF X
<1> QED
  BY <1>9, <1>14, <1>16, <1>17 DEF a, e

\* The headline's two terms are sums over the frames there is something to
\* measure in.
LEMMA HeadlineLaws ==
    ASSUME NEW c, Axis!IsFrameCase(c), Axis!frame_gate(c) = "none"
    PROVE  LET M == Axis!Measurable(c)
               painted == [f \in M |-> Axis!painted_area(c, f)]
               peak == [f \in M |-> Axis!peak_area(c, f)]
           IN  /\ IsFiniteSet(M) /\ painted \in [M -> Int] /\ peak \in [M -> Int]
               /\ \A f \in M : 1 <= peak[f] /\ peak[f] <= painted[f]
               /\ Axis!Headline(c) = <<TotalOf(painted, M), TotalOf(peak, M)>>
<1> DEFINE M == Axis!Measurable(c)
           painted == [f \in M |-> Axis!painted_area(c, f)]
           peak == [f \in M |-> Axis!peak_area(c, f)]
<1>1. M \in SUBSET Axis!Frames(c) /\ \A f \in M : Axis!peak_area(c, f) > 0
  BY DEF Axis!Measurable
<1>2. IsFiniteSet(M)
  <2>1. \E last \in Nat : Axis!Frames(c) = 0 .. last
    BY GroupLaws
  <2>2. IsFiniteSet(Axis!Frames(c))
    BY <2>1, FS_Interval, 0 \in Int
  <2> QED
    BY <1>1, <2>2, FS_Subset
<1>3. ASSUME NEW f \in M
      PROVE  /\ painted[f] \in Int /\ peak[f] \in Int
             /\ 1 <= peak[f] /\ peak[f] <= painted[f]
  <2> DEFINE p == Axis!painted_area(c, f)
             q == Axis!peak_area(c, f)
  <2>1. p \in Nat /\ q \in Nat /\ q <= p /\ q > 0
    BY <1>1, PeaksArePainted
  <2>2. painted[f] = p /\ peak[f] = q
    OBVIOUS
  <2> HIDE DEF p, q, painted, peak
  <2> QED
    BY <2>1, <2>2
<1>4. painted \in [M -> Int] /\ peak \in [M -> Int]
  BY <1>3
<1> DEFINE Paints(g) == [s \in SUBSET M |->
                            IF s = {} THEN 0
                            ELSE LET x == CHOOSE x \in s : TRUE
                                 IN  Axis!painted_area(c, x) + g[s \ {x}]]
           Peaks(g) == [s \in SUBSET M |->
                            IF s = {} THEN 0
                            ELSE LET x == CHOOSE x \in s : TRUE
                                 IN  Axis!peak_area(c, x) + g[s \ {x}]]
           paints == CHOOSE g : g = Paints(g)
           peaks == CHOOSE g : g = Peaks(g)
<1>5. \A g : Paints(g) = SumsOf(M, painted, g) /\ Peaks(g) = SumsOf(M, peak, g)
  <2>1. \A s \in SUBSET M : s # {} =>
            /\ painted[Pick(s)] = Axis!painted_area(c, Pick(s))
            /\ peak[Pick(s)] = Axis!peak_area(c, Pick(s))
    BY DEF Pick
  <2> HIDE DEF M, painted, peak
  <2> QED
    BY <2>1 DEF SumsOf, Pick
<1>6. /\ Axis!MapThenSumSet(LAMBDA f : Axis!painted_area(c, f), M) = paints[M]
      /\ Axis!MapThenSumSet(LAMBDA f : Axis!peak_area(c, f), M) = peaks[M]
  <2> HIDE DEF M
  <2> QED
    BY Zenon DEF Axis!MapThenSumSet, Axis!MapThenFoldSet, paints, peaks, Paints, Peaks
<1>7. Axis!Headline(c) = <<paints[M], peaks[M]>>
  BY <1>6 DEF Axis!Headline
<1> HIDE DEF M, painted, peak, Paints, Peaks
<1>8. /\ \E g : g = SumsOf(M, painted, g)
      /\ \A g : g = SumsOf(M, painted, g) => g[M] = TotalOf(painted, M)
  BY <1>2, <1>4, TotalIsTheSum
<1>9. /\ \E g : g = SumsOf(M, peak, g)
      /\ \A g : g = SumsOf(M, peak, g) => g[M] = TotalOf(peak, M)
  BY <1>2, <1>4, TotalIsTheSum
<1>10. paints = Paints(paints) /\ peaks = Peaks(peaks)
  BY <1>5, <1>8, <1>9
<1> HIDE DEF paints, peaks
<1>11. paints[M] = TotalOf(painted, M) /\ peaks[M] = TotalOf(peak, M)
  BY <1>5, <1>8, <1>9, <1>10
<1> QED
  BY <1>2, <1>3, <1>4, <1>7, <1>11 DEF M, painted, peak

\* A max plane's overstatement lies between one and its worst frame's, and no
\* frame's is above the cells of a block times what their areas differ by.
THEOREM OverstatementsAreBounded ==
    ASSUME NEW c, Axis!IsFrameCase(c) PROVE Axis!OverstatementWithinCeiling(c)
<1> DEFINE M == Axis!Measurable(c)
           painted == [f \in M |-> Axis!painted_area(c, f)]
           peak == [f \in M |-> Axis!peak_area(c, f)]
           p == TotalOf(painted, M)
           q == TotalOf(peak, M)
           h == Axis!Headline(c)
<1> SUFFICES ASSUME Axis!frame_gate(c) = "none", M # {}
             PROVE  /\ h[1] >= h[2]
                    /\ \E f \in M : h[1] * Axis!peak_area(c, f) <= h[2] * Axis!painted_area(c, f)
                    /\ \A f \in M : \E b \in Axis!Blocks(c) : \E x, y \in Axis!Cells(c, b) :
                          Axis!painted_area(c, f) * c.area[y] <= c.k * c.area[x] * Axis!peak_area(c, f)
  BY DEF Axis!OverstatementWithinCeiling
<1>1. /\ IsFiniteSet(M) /\ painted \in [M -> Int] /\ peak \in [M -> Int]
      /\ \A f \in M : 1 <= peak[f] /\ peak[f] <= painted[f]
      /\ h = <<p, q>>
  BY HeadlineLaws
<1>2. ASSUME NEW f \in M
      PROVE  \E b \in Axis!Blocks(c) : \E x, y \in Axis!Cells(c, b) :
                Axis!painted_area(c, f) * c.area[y] <= c.k * c.area[x] * Axis!peak_area(c, f)
  <2>1. f \in Axis!Frames(c) /\ Axis!peak_area(c, f) > 0
    BY DEF Axis!Measurable
  <2> QED
    BY <2>1, PeaksArePainted
<1>3. \A f \in M : painted[f] = Axis!painted_area(c, f) /\ peak[f] = Axis!peak_area(c, f)
  OBVIOUS
<1> HIDE DEF M, painted, peak, h
<1>4. p \in Int /\ q \in Int /\ Cardinality(M) \in Nat /\ Cardinality(M) # 0
  BY <1>1, TotalIsWhole, FS_CardinalityType, FS_EmptySet
<1>5. q <= p
  <2>1. \A f \in M : 1 * peak[f] + 0 <= 1 * painted[f]
    BY <1>1
  <2>2. 1 * q + 0 * Cardinality(M) <= 1 * p
    BY <1>1, <2>1, TotalsCompare, 1 \in Int, 0 \in Int
  <2> QED
    BY <1>4, <2>2
<1>7. \E f \in M : p * peak[f] <= q * painted[f]
  <2>1. SUFFICES ASSUME \A f \in M : ~(p * peak[f] <= q * painted[f]) PROVE FALSE
    OBVIOUS
  <2>2. \A f \in M : q * painted[f] + 1 <= p * peak[f]
    <3> SUFFICES ASSUME NEW f \in M PROVE q * painted[f] + 1 <= p * peak[f]
      OBVIOUS
    <3>1. q * painted[f] \in Int /\ p * peak[f] \in Int
      BY <1>1, <1>4
    <3> QED
      BY <2>1, <3>1
  <2>3. q * p + 1 * Cardinality(M) <= p * q
    <3> HIDE DEF p, q
    <3>1. q * TotalOf(painted, M) + 1 * Cardinality(M) <= p * TotalOf(peak, M)
      BY <1>1, <1>4, <2>2, TotalsCompare, 1 \in Int
    <3> QED
      BY <3>1 DEF p, q
  <2>4. q * p = p * q /\ q * p \in Int
    BY <1>4
  <2> QED
    BY <1>4, <2>3, <2>4
<1> HIDE DEF p, q
<1> QED
  BY <1>1, <1>2, <1>3, <1>5, <1>7

\* The counts below a bin are a sum that starts at nothing and grows bin by bin.
LEMMA BelowLaws ==
    ASSUME NEW counts, Axis!IsHistogram(counts)
    PROVE  LET n == Len(counts)
               B(i) == Axis!Below(counts, i)
           IN  /\ n \in Nat /\ DOMAIN counts = 1 .. n /\ \A i \in 1 .. n : counts[i] \in Nat
               /\ B(0) = 0 /\ \A i \in 0 .. n : B(i) \in Nat
               /\ \A i \in 1 .. n : B(i) = B(i - 1) + counts[i]
               /\ \A i, j \in 0 .. n : i <= j => B(i) <= B(j)
<1> DEFINE n == Len(counts)
           D == 1 .. n
           B(i) == Axis!Below(counts, i)
<1>1. n \in Nat /\ DOMAIN counts = D /\ counts \in [D -> Nat] /\ counts \in [D -> Int]
  BY DEF Axis!IsHistogram
<1>2. ASSUME NEW i \in 0 .. n
      PROVE  /\ 1 .. i \in SUBSET D /\ IsFiniteSet(1 .. i)
             /\ B(i) = TotalOf(counts, 1 .. i)
  <2> DEFINE S == 1 .. i
             Sums(g) == [s \in SUBSET S |->
                            IF s = {} THEN 0
                            ELSE LET x == CHOOSE x \in s : TRUE IN counts[x] + g[s \ {x}]]
             sums == CHOOSE g : g = Sums(g)
  <2>1. S \in SUBSET D
    BY <1>1
  <2>2. IsFiniteSet(S)
    BY <1>1, FS_Interval, 1 \in Int, i \in Int
  <2> HIDE DEF S
  <2>3. Axis!Below(counts, i) = Axis!MapThenSumSet(LAMBDA j : counts[j], S)
    BY DEF Axis!Below, S
  <2>4. Axis!MapThenSumSet(LAMBDA j : counts[j], S) = sums[S]
    BY Zenon DEF Axis!MapThenSumSet, Axis!MapThenFoldSet, sums, Sums
  <2>5. \A g : Sums(g) = SumsOf(S, counts, g)
    BY DEF SumsOf, Pick
  <2> HIDE DEF Sums, D
  <2>6. /\ \E g : g = SumsOf(S, counts, g)
        /\ \A g : g = SumsOf(S, counts, g) => g[S] = TotalOf(counts, S)
    BY <1>1, <2>1, <2>2, TotalIsTheSum
  <2>7. sums = Sums(sums)
    BY <2>5, <2>6
  <2> HIDE DEF sums
  <2>8. sums[S] = TotalOf(counts, S)
    BY <2>5, <2>6, <2>7
  <2> QED
    BY <2>1, <2>2, <2>3, <2>4, <2>8 DEF S
<1>3. 0 \in 0 .. n /\ 1 .. 0 = {}
  BY <1>1
<1>4. B(0) = 0
  BY <1>1, <1>2, <1>3, TotalOfNothing
<1>5. ASSUME NEW S \in SUBSET D, IsFiniteSet(S) PROVE TotalOf(counts, S) \in Nat
  <2>1. \A x \in S : 0 * counts[x] + 0 <= 1 * counts[x]
    BY <1>1
  <2>2. TotalOf(counts, S) \in Int /\ Cardinality(S) \in Nat
    BY <1>1, <1>5, TotalIsWhole, FS_CardinalityType
  <2>3. 0 * TotalOf(counts, S) + 0 * Cardinality(S) <= 1 * TotalOf(counts, S)
    BY <1>1, <1>5, <2>1, TotalsCompare, 1 \in Int, 0 \in Int
  <2> QED
    BY <2>2, <2>3
<1>6. \A i \in 0 .. n : B(i) \in Nat
  BY <1>2, <1>5
<1>7. ASSUME NEW i \in 1 .. n PROVE B(i) = B(i - 1) + counts[i]
  <2>1. i \in 0 .. n /\ i - 1 \in 0 .. n /\ i \in 1 .. i /\ (1 .. i) \ {i} = 1 .. (i - 1)
    BY <1>1
  <2>2. TotalOf(counts, 1 .. i) = counts[i] + TotalOf(counts, (1 .. i) \ {i})
    <3>1. /\ 1 .. i \in SUBSET D /\ IsFiniteSet(1 .. i) /\ i \in 1 .. i
          /\ counts \in [D -> Int]
      BY <1>1, <1>2, <2>1
    <3>2. ASSUME NEW E, NEW S \in SUBSET E, IsFiniteSet(S), NEW x \in S, counts \in [E -> Int]
          PROVE  TotalOf(counts, S) = counts[x] + TotalOf(counts, S \ {x})
      BY <3>2, TotalStep
    <3> HIDE DEF D
    <3> QED
      BY <3>1, <3>2
  <2>3. B(i) = counts[i] + B(i - 1)
    BY <1>2, <2>1, <2>2
  <2>4. counts[i] \in Int /\ B(i - 1) \in Int
    BY <1>1, <1>6, <2>1
  <2> QED
    BY <2>3, <2>4
<1>8. ASSUME NEW i \in 0 .. n, NEW j \in 0 .. n, i <= j PROVE B(i) <= B(j)
  <2> DEFINE I == 1 .. i
             T == (i + 1) .. j
  <2>1. I \in SUBSET D /\ IsFiniteSet(I) /\ B(i) = TotalOf(counts, I)
    BY <1>2
  <2>2. IsFiniteSet(1 .. j) /\ 1 .. j \in SUBSET D /\ B(j) = TotalOf(counts, 1 .. j)
    BY <1>2
  <2>3. I \cup T = 1 .. j /\ I \cap T = {} /\ T \in SUBSET (1 .. j)
    BY <1>8
  <2> HIDE DEF T, I
  <2>4. T \in SUBSET D /\ IsFiniteSet(T)
    BY <2>2, <2>3, FS_Subset
  <2>5. TotalOf(counts, I \cup T) = TotalOf(counts, I) + TotalOf(counts, T)
    BY <1>1, <2>1, <2>3, <2>4, TotalSplits
  <2>6. TotalOf(counts, I) \in Nat /\ TotalOf(counts, T) \in Nat
    BY <1>5, <2>1, <2>4
  <2>7. B(j) = TotalOf(counts, I) + TotalOf(counts, T)
    BY <2>2, <2>3, <2>5
  <2> HIDE DEF B
  <2> QED
    BY <2>1, <2>6, <2>7
<1> QED
  BY <1>1, <1>4, <1>6, <1>7, <1>8

\* Where a percentile falls: past the start of a bin that is not empty, and no
\* further than its end.
LEMMA PercentilesFallInBins ==
    ASSUME NEW counts, Axis!IsHistogram(counts), Axis!Below(counts, Len(counts)) > 0, NEW percent \in 1 .. 100
    PROVE  LET n == Len(counts)
               B(i) == Axis!Below(counts, i)
               at == Axis!At(counts, percent)
           IN  /\ at.bin \in 1 .. n /\ at.part \in Nat /\ at.whole \in Nat
               /\ B(at.bin - 1) * 100 < percent * B(n) /\ percent * B(n) <= B(at.bin) * 100
               /\ at.whole = 100 * counts[at.bin] /\ at.part = percent * B(n) - 100 * B(at.bin - 1)
               /\ 0 < at.part /\ at.part <= at.whole
<1> DEFINE n == Len(counts)
           B(i) == Axis!Below(counts, i)
           all == B(n)
           reached == {i \in DOMAIN counts : B(i) * 100 >= percent * all}
           index == Axis!Min(reached)
           at == Axis!At(counts, percent)
<1>1. /\ n \in Nat /\ DOMAIN counts = 1 .. n /\ \A i \in 1 .. n : counts[i] \in Nat
      /\ B(0) = 0 /\ \A i \in 0 .. n : B(i) \in Nat
      /\ \A i \in 1 .. n : B(i) = B(i - 1) + counts[i]
  BY BelowLaws
<1>2. all \in Nat /\ all > 0 /\ n # 0
  BY <1>1
<1>3. percent \in Nat /\ percent >= 1 /\ percent <= 100 /\ percent * all \in Nat
  BY <1>2
<1>4. at = [bin |-> index, whole |-> 100 * counts[index],
            part |-> Axis!Least(100 * counts[index], percent * all - 100 * B(index - 1))]
  BY DEF Axis!At
<1> HIDE DEF n, B, at, all
<1>5. n \in reached
  <2>1. percent * all <= 100 * all
    BY <1>2, <1>3
  <2> QED
    BY <1>1, <1>2, <1>3, <2>1 DEF all
<1>6. index \in reached /\ \A i \in reached : index <= i
  <2>1. reached \in SUBSET (1 .. n) /\ IsFiniteSet(1 .. n)
    BY <1>1, FS_Interval, 1 \in Int, n \in Int
  <2>2. reached \in SUBSET Int /\ IsFiniteSet(reached) /\ reached # {}
    BY <1>5, <2>1, FS_Subset
  <2> HIDE DEF reached
  <2> QED
    BY <2>2, Extremes, AxisSame
<1>7. index \in 1 .. n /\ B(index) * 100 >= percent * all
  BY <1>1, <1>6
<1>8. B(index - 1) * 100 < percent * all
  <2>1. CASE index = 1
    <3>1. percent * all > 0
      BY <1>2, <1>3
    <3> QED
      BY <1>1, <2>1, <3>1
  <2>2. CASE index # 1
    <3> HIDE DEF index
    <3>1. index - 1 \in 1 .. n /\ ~(index <= index - 1)
      BY <1>1, <1>7, <2>2
    <3>2. index - 1 \notin reached
      BY <1>6, <3>1 DEF index
    <3>3. B(index - 1) \in Nat
      BY <1>1, <3>1
    <3> QED
      BY <1>1, <1>3, <3>1, <3>2, <3>3
  <2> QED
    BY <2>1, <2>2
<1> HIDE DEF reached, index
<1> DEFINE w == 100 * counts[index]
           p == percent * all - 100 * B(index - 1)
<1>9. p \in Int /\ w \in Int /\ 0 < p /\ p <= w
  <2>1. /\ B(index) \in Nat /\ B(index - 1) \in Nat /\ counts[index] \in Nat
        /\ B(index) = B(index - 1) + counts[index]
    BY <1>1, <1>7
  <2> DEFINE hi == B(index)
             lo == B(index - 1)
             k == counts[index]
             q == percent * all
  <2>2. hi \in Int /\ lo \in Int /\ k \in Int /\ q \in Int /\ hi = lo + k
    BY <1>3, <2>1
  <2>3. hi * 100 >= q /\ lo * 100 < q
    BY <1>7, <1>8
  <2> HIDE DEF hi, lo, k, q
  <2>4. q - 100 * lo \in Int /\ 100 * k \in Int /\ 0 < q - 100 * lo /\ q - 100 * lo <= 100 * k
    BY <2>2, <2>3
  <2> QED
    BY <2>4 DEF lo, k, q
<1>10. Axis!Least(w, p) = p
  BY <1>9 DEF Axis!Least
<1>11. at.bin = index /\ at.whole = w /\ at.part = p
  BY <1>4, <1>10
<1> HIDE DEF w, p
<1>12. /\ index \in 1 .. n /\ at.part \in Nat /\ at.whole \in Nat
       /\ B(index - 1) * 100 < percent * all /\ percent * all <= B(index) * 100
       /\ at.whole = 100 * counts[index] /\ at.part = percent * all - 100 * B(index - 1)
       /\ 0 < at.part /\ at.part <= at.whole
  <2>1. B(index) * 100 \in Int
    BY <1>1, <1>7
  <2> QED
    BY <1>3, <1>7, <1>8, <1>9, <1>11, <2>1 DEF w, p
<1> QED
  BY <1>11, <1>12 DEF n, B, at, all

\* The pooled range is in order inside the bins and holds the middle.
THEOREM RangesHoldTheMiddle ==
    ASSUME NEW counts, Axis!IsHistogram(counts) PROVE Axis!RangeHoldsTheMiddle(counts)
<1> DEFINE n == Len(counts)
           B(i) == Axis!Below(counts, i)
           all == B(n)
           lo == Axis!At(counts, 2)
           hi == Axis!At(counts, 98)
<1> SUFFICES ASSUME all > 0
             PROVE  /\ \A at \in {lo, hi} : at.bin \in DOMAIN counts /\ 0 <= at.part /\ at.part <= at.whole
                    /\ lo.bin < hi.bin \/ (lo.bin = hi.bin /\ lo.part <= hi.part)
                    /\ B(IF lo.part = lo.whole THEN lo.bin ELSE lo.bin - 1) * 100 <= 2 * all
                    /\ (all - B(IF hi.part = 0 THEN hi.bin - 1 ELSE hi.bin)) * 100 <= 2 * all
  <2>1. all \in Nat
    BY BelowLaws
  <2>2. all > 0 => Axis!_pooled_range(counts) = <<lo, hi>>
    BY <2>1 DEF Axis!_pooled_range
  <2> QED
    BY <2>2 DEF Axis!RangeHoldsTheMiddle
<1>1. /\ n \in Nat /\ DOMAIN counts = 1 .. n /\ \A i \in 1 .. n : counts[i] \in Nat
      /\ B(0) = 0 /\ \A i \in 0 .. n : B(i) \in Nat
      /\ \A i \in 1 .. n : B(i) = B(i - 1) + counts[i]
      /\ \A i, j \in 0 .. n : i <= j => B(i) <= B(j)
  BY BelowLaws
<1> DEFINE i == lo.bin
           j == hi.bin
           p == lo.part
           q == hi.part
           u == lo.whole
           w == hi.whole
<1>2. /\ i \in 1 .. n /\ p \in Nat /\ u \in Nat
      /\ B(i - 1) * 100 < 2 * all /\ 2 * all <= B(i) * 100
      /\ u = 100 * counts[i] /\ p = 2 * all - 100 * B(i - 1)
      /\ 0 < p /\ p <= u
  BY PercentilesFallInBins, 2 \in 1 .. 100
<1>3. /\ j \in 1 .. n /\ q \in Nat /\ w \in Nat
      /\ B(j - 1) * 100 < 98 * all /\ 98 * all <= B(j) * 100
      /\ q = 98 * all - 100 * B(j - 1)
      /\ 0 < q /\ q <= w
  BY PercentilesFallInBins, 98 \in 1 .. 100
<1> HIDE DEF B, i, j, p, q, u, w, n
<1>4. i - 1 \in 0 .. n /\ i \in 0 .. n /\ j - 1 \in 0 .. n /\ j \in 0 .. n /\ n \in 0 .. n
  BY <1>1, <1>2, <1>3
<1>5. B(i - 1) \in Nat /\ B(i) \in Nat /\ B(j - 1) \in Nat /\ B(j) \in Nat /\ counts[i] \in Nat /\ all \in Nat
  BY <1>1, <1>2, <1>4
<1>6. B(i) = B(i - 1) + counts[i]
  BY <1>1, <1>2
<1> HIDE DEF all
<1>7. i <= j
  <2>1. i \in Int /\ j \in Int
    BY <1>2, <1>3
  <2>2. i > j => j <= i - 1
    BY <2>1
  <2>3. i > j => B(j) <= B(i - 1)
    BY <1>1, <1>4, <2>2
  <2>4. B(j) * 100 > B(i - 1) * 100
    BY <1>2, <1>3, <1>5
  <2> QED
    BY <1>5, <2>1, <2>3, <2>4
<1>8. i < j \/ (i = j /\ p <= q)
  <2>1. i \in Int /\ j \in Int
    BY <1>2, <1>3
  <2>2. i = j => p <= q
    BY <1>2, <1>3, <1>5
  <2> QED
    BY <1>7, <2>1, <2>2
<1>9. B(IF p = u THEN i ELSE i - 1) * 100 <= 2 * all
  <2>1. p = u => B(i) * 100 <= 2 * all
    BY <1>2, <1>5, <1>6
  <2>2. B(i - 1) * 100 <= 2 * all
    BY <1>2, <1>5
  <2> QED
    BY <2>1, <2>2
<1>10. (all - B(IF q = 0 THEN j - 1 ELSE j)) * 100 <= 2 * all
  <2>1. q # 0
    BY <1>3
  <2>2. (all - B(j)) * 100 <= 2 * all
    BY <1>3, <1>5
  <2> QED
    BY <2>1, <2>2
<1>11. /\ i \in DOMAIN counts /\ 0 <= p /\ p <= u
       /\ j \in DOMAIN counts /\ 0 <= q /\ q <= w
  BY <1>1, <1>2, <1>3
<1>12. \A at \in {lo, hi} : at.bin \in DOMAIN counts /\ 0 <= at.part /\ at.part <= at.whole
  BY <1>11 DEF i, j, p, q, u, w
<1> QED
  BY <1>8, <1>9, <1>10, <1>12 DEF i, j, p, q, u

-----------------------------------------------------------------------------
(* Masks. *)

LEMMA MaskSame ==
    ASSUME NEW S
    PROVE  Mask!Cardinality(S) = Cardinality(S)
  BY DEF Cardinality, Mask!Cardinality

\* Nothing without a flag passes one, and what passes is what the rule says.
LEMMA RulesHold ==
    ASSUME NEW c, Mask!IsMaskCase(c), NEW pixel,
           Mask!Kept(pixel, c), Mask!Applied(c)
    PROVE  /\ pixel.flag # Mask!NaN
           /\ c.pins.good = {} => pixel.flag \notin c.pins.bad
           /\ c.pins.good = {} /\ c.pins.bad = {} =>
                 pixel.flag \in Mask!ValuesOf(Mask!Declared(c), {"good"} \cup c.proposed)
<1> DEFINE d == Mask!Declared(c)
           good == Mask!ValuesOf(d, {"good"})
           odd == Mask!ValuesOf(d, Mask!Unclear(d) \cap c.proposed)
           rule == Mask!resolve_qa_info(c)
<1>1. good \cup odd \in SUBSET Mask!ValuesOf(d, {"good"} \cup c.proposed)
  BY DEF Mask!ValuesOf
<1>2. Mask!NaN \notin good \cup odd
  BY DEF Mask!ValuesOf, Mask!IsMaskCase
<1>3. Mask!NaN \notin c.pins.good
  BY DEF Mask!IsMaskCase
<1>4. Mask!flag_pass_condition(pixel.flag, rule) /\ rule.keep # "all"
  BY DEF Mask!Kept, Mask!Applied
<1> HIDE DEF d, good, odd
<1>5. \/ c.pins.good # {} /\ rule = Mask!Rule("good", c.pins.good, "verified")
      \/ c.pins.good = {} /\ c.pins.bad # {} /\ rule = Mask!Rule("bad", c.pins.bad, "verified")
      \/ c.pins.good = {} /\ c.pins.bad = {} /\ rule = Mask!Rule("all", {}, rule.status)
      \/ c.pins.good = {} /\ c.pins.bad = {} /\ rule = Mask!Rule("good", good, "deterministic")
      \/ c.pins.good = {} /\ c.pins.bad = {} /\ rule = Mask!Rule("good", good \cup odd, "inferred")
  BY DEF Mask!resolve_qa_info, Mask!Rule, d, good, odd
<1> HIDE DEF rule
<1> QED
  BY <1>1, <1>2, <1>3, <1>4, <1>5 DEF Mask!flag_pass_condition, Mask!Rule, d

\* A quality mask is claimed exactly when one decided.
LEMMA ClaimsApply ==
    ASSUME NEW c, Mask!IsMaskCase(c)
    PROVE  Mask!qa_status(c) \in Mask!Claims <=> Mask!Applied(c)
<1> DEFINE rule == Mask!resolve_qa_info(c)
<1>1. rule.keep # "all" <=> rule.status \in Mask!Claims
  BY DEF Mask!resolve_qa_info, Mask!Rule, Mask!Claims
<1>2. Mask!flag_variable(c) = "none" => ~Mask!Applied(c)
  BY DEF Mask!IsMaskCase, Mask!Applied
<1>3. Mask!Applied(c) => rule.keep # "all"
  BY DEF Mask!Applied
<1> QED
  BY <1>1, <1>2, <1>3 DEF Mask!qa_status, Mask!Claims

\* The provenance of a mask is honest, for any file, pins and proposal.
THEOREM StatusesAreHonest == ASSUME NEW c, Mask!IsMaskCase(c) PROVE Mask!StatusIsHonest(c)
<1> SUFFICES ASSUME NEW p \in Mask!Pixels(c)
             PROVE  LET pixel == Mask!At(c, p)
                        good == Mask!ValuesOf(Mask!Declared(c), {"good"} \cup c.proposed)
                    IN  IF Mask!qa_status(c) \in Mask!Claims
                        THEN Mask!Kept(pixel, c) =>
                                /\ Mask!flag_variable(c) \in c.file.present
                                /\ pixel.flag # Mask!NaN
                                /\ pixel.flag \notin c.pins.bad \/ c.pins.good # {}
                                /\ c.pins.good = {} /\ c.pins.bad = {} => pixel.flag \in good
                        ELSE Mask!Kept(pixel, c) = Mask!Checked(pixel, c)
  BY DEF Mask!StatusIsHonest
<1> DEFINE pixel == Mask!At(c, p)
<1> HIDE DEF pixel
<1>1. CASE Mask!Applied(c)
  <2>1. Mask!flag_variable(c) \in c.file.present
    BY <1>1 DEF Mask!Applied
  <2> QED
    BY <1>1, <2>1, ClaimsApply, RulesHold DEF pixel
<1>2. CASE ~Mask!Applied(c)
  <2>1. Mask!Kept(pixel, c) = Mask!Checked(pixel, c)
    BY <1>2 DEF Mask!Kept, Mask!Checked
  <2> QED
    BY <1>2, <2>1, ClaimsApply DEF pixel
<1> QED
  BY <1>1, <1>2

\* No pixel is lost to a token whose meaning nobody knows, for any attributes.
THEOREM UnclearFlagsAreFree == ASSUME NEW c PROVE Mask!UnclearFlagsCostNothing(c)
<1> SUFFICES ASSUME c.pins.good = {}, c.pins.bad = {}, c.proposed = {}, NEW p \in Mask!Pixels(c),
                    Mask!Checked(Mask!At(c, p), c), ~Mask!Kept(Mask!At(c, p), c),
                    NEW d \in Mask!Range(Mask!Declared(c)), d[1] = Mask!At(c, p).flag, d[2] # "bad"
             PROVE  FALSE
  BY DEF Mask!UnclearFlagsCostNothing
<1> DEFINE rule == Mask!resolve_qa_info(c)
           declared == Mask!Declared(c)
           flag == Mask!At(c, p).flag
<1>1. rule.keep # "all" /\ ~Mask!flag_pass_condition(flag, rule)
  BY DEF Mask!Kept, Mask!Applied
<1>2. /\ Mask!Unclear(declared) = {}
      /\ rule = Mask!Rule("good", Mask!ValuesOf(declared, {"good"}), "deterministic")
  BY <1>1 DEF Mask!resolve_qa_info, Mask!Rule
<1>3. d[2] = "good"
  BY <1>2 DEF Mask!Unclear
<1>4. flag \in Mask!ValuesOf(declared, {"good"})
  BY <1>3 DEF Mask!ValuesOf
<1> QED
  BY <1>1, <1>2, <1>4 DEF Mask!flag_pass_condition, Mask!Rule

\* The time steps averaged are those the masked field has, for any field.
THEOREM KeptTimesAreMasked == ASSUME NEW c PROVE Mask!KeptTimesAreTheMaskedOnes(c)
  BY DEF Mask!KeptTimesAreTheMaskedOnes, Mask!valid_time_indices, Mask!Kept

\* A packed value within CF bounds is, once scaled, within the scaled ones.
LEMMA ScaledBounds ==
    ASSUME NEW c, Mask!IsMaskCase(c), NEW v \in Int
    PROVE  LET b == Mask!Scaled(c.cf, c.scale)
               in(x, lo, hi) == (lo # Mask!Unset => x >= lo) /\ (hi # Mask!Unset => x <= hi)
           IN  in(v * c.scale, b.lo, b.hi) <=> in(v, c.cf.lo, c.cf.hi)
<1> DEFINE lo == c.cf.lo
           hi == c.cf.hi
           s == c.scale
           none == Mask!Unset
           b == Mask!Scaled(c.cf, c.scale)
<1>1. /\ lo \in Int /\ hi \in Int /\ s \in Int /\ s # 0
      /\ lo # none => lo * s # none
      /\ hi # none => hi * s # none
      /\ lo # none /\ hi # none => lo <= hi
      /\ s < 0 /\ ~(lo # none /\ hi # none) => lo = none /\ hi = none
  BY DEF Mask!IsMaskCase
<1>2. b = LET l == IF lo = none THEN none ELSE lo * s
              h == IF hi = none THEN none ELSE hi * s
          IN  IF l # none /\ h # none /\ l > h THEN [lo |-> h, hi |-> l] ELSE [lo |-> l, hi |-> h]
  BY DEF Mask!Scaled
<1> HIDE DEF lo, hi, s, none, b
<1>3. /\ s > 0 => \A x, y \in Int : x * s <= y * s <=> x <= y
      /\ s < 0 => \A x, y \in Int : x * s <= y * s <=> y <= x
  <2>1. ASSUME s > 0, NEW x \in Int, NEW y \in Int PROVE x * s <= y * s <=> x <= y
    <3>1. /\ x <= y => x * s <= y * s
          /\ x > y => x * s > y * s
      BY <1>1, <2>1
    <3> QED
      BY <1>1, <3>1
  <2>2. ASSUME s < 0, NEW x \in Int, NEW y \in Int PROVE x * s <= y * s <=> y <= x
    <3>1. /\ y <= x => x * s <= y * s
          /\ y > x => x * s > y * s
      BY <1>1, <2>2
    <3> QED
      BY <1>1, <3>1
  <2> QED
    BY <2>1, <2>2
<1> DEFINE ls == lo * s
           hs == hi * s
           vs == v * s
<1>4. /\ ls \in Int /\ hs \in Int /\ vs \in Int
      /\ s > 0 => (ls <= hs <=> lo <= hi) /\ (ls <= vs <=> lo <= v) /\ (vs <= hs <=> v <= hi)
      /\ s < 0 => /\ (hs <= ls <=> lo <= hi) /\ (vs <= ls <=> lo <= v) /\ (hs <= vs <=> v <= hi)
                  /\ (ls <= hs <=> hi <= lo)
  BY <1>1, <1>3
<1>5. /\ lo # none => ls # none
      /\ hi # none => hs # none
  BY <1>1
<1>6. b = LET l == IF lo = none THEN none ELSE ls
              h == IF hi = none THEN none ELSE hs
          IN  IF l # none /\ h # none /\ l > h THEN [lo |-> h, hi |-> l] ELSE [lo |-> l, hi |-> h]
  BY <1>2
<1> DEFINE within(x, l, h) == (l # none => x >= l) /\ (h # none => x <= h)
<1> HIDE DEF ls, hs, vs
<1>7. CASE s > 0
  <2>1. b.lo = IF lo = none THEN none ELSE ls
    BY <1>1, <1>4, <1>5, <1>6, <1>7
  <2>2. b.hi = IF hi = none THEN none ELSE hs
    BY <1>1, <1>4, <1>5, <1>6, <1>7
  <2> QED
    BY <1>1, <1>4, <1>5, <1>7, <2>1, <2>2 DEF vs, lo, hi, none, b, s
<1>8. CASE s < 0 /\ lo # none /\ hi # none
  <2>1. hs <= ls
    BY <1>1, <1>4, <1>8
  <2>2. b.lo = hs /\ b.hi = ls
    BY <1>1, <1>4, <1>5, <1>6, <1>8, <2>1
  <2> QED
    BY <1>1, <1>4, <1>5, <1>8, <2>2 DEF vs, lo, hi, none, b, s
<1>9. CASE s < 0 /\ ~(lo # none /\ hi # none)
  <2>1. b.lo = none /\ b.hi = none /\ lo = none /\ hi = none
    BY <1>1, <1>6, <1>9
  <2> QED
    BY <2>1 DEF lo, hi, none, b
<1> QED
  BY <1>1, <1>7, <1>8, <1>9

\* One source gives both ends of the range, for any three sources and any factor.
THEOREM RangesAreOneSources == ASSUME NEW c, Mask!IsMaskCase(c) PROVE Mask!RangeIsOneSources(c)
<1> DEFINE none == Mask!Unset
           in(x, lo, hi) == (lo # none => x >= lo) /\ (hi # none => x <= hi)
           b == Mask!Bounds(c)
           unfilled == {p \in Mask!Pixels(c) : /\ Mask!At(c, p).packed # Mask!NaN
                                               /\ Mask!Physical(Mask!At(c, p), c) # Mask!Fill(c)}
<1>1. \A p \in unfilled : Mask!Checked(Mask!At(c, p), c) = in(Mask!Physical(Mask!At(c, p), c), b.lo, b.hi)
  BY DEF Mask!Checked
<1>2. \A p \in Mask!Pixels(c) : Mask!At(c, p).packed \in Int
  <2> TAKE p \in Mask!Pixels(c)
  <2>1. PICK t \in DOMAIN c.times : p \in {t} \X DOMAIN c.times[t]
    BY DEF Mask!Pixels
  <2>2. c.times[t] \in Seq([packed : Int, flag : Int])
    BY <2>1 DEF Mask!IsMaskCase
  <2>3. p[1] = t /\ p[2] \in DOMAIN c.times[t]
    BY <2>1
  <2>4. \A i \in DOMAIN c.times[t] : c.times[t][i] \in [packed : Int, flag : Int]
    <3>1. ASSUME NEW S, NEW s \in Seq(S) PROVE \A i \in DOMAIN s : s[i] \in S
      OBVIOUS
    <3> QED
      BY <2>2, <3>1
  <2> QED
    BY <2>3, <2>4 DEF Mask!At
<1>3. CASE c.yaml.lo # none \/ c.yaml.hi # none
  <2>1. b.lo = c.yaml.lo /\ b.hi = c.yaml.hi
    BY <1>3 DEF Mask!Bounds
  <2> QED
    BY <1>1, <2>1 DEF Mask!RangeIsOneSources
<1>4. CASE ~(c.yaml.lo # none \/ c.yaml.hi # none) /\ (c.umm.lo # none \/ c.umm.hi # none)
  <2>1. b.lo = c.umm.lo /\ b.hi = c.umm.hi
    BY <1>4 DEF Mask!Bounds
  <2> QED
    BY <1>1, <2>1 DEF Mask!RangeIsOneSources
<1>5. CASE ~(c.yaml.lo # none \/ c.yaml.hi # none) /\ ~(c.umm.lo # none \/ c.umm.hi # none)
  <2>1. b = Mask!Scaled(c.cf, c.scale)
    BY <1>5 DEF Mask!Bounds
  <2>2. \A p \in unfilled : in(Mask!Physical(Mask!At(c, p), c), b.lo, b.hi) <=> in(Mask!At(c, p).packed, c.cf.lo, c.cf.hi)
    BY <1>2, <2>1, ScaledBounds DEF Mask!Physical
  <2>3. \A p \in unfilled : Mask!Checked(Mask!At(c, p), c) \in BOOLEAN
    BY DEF Mask!Checked
  <2> HIDE DEF b
  <2> QED
    BY <1>1, <2>2, <2>3 DEF Mask!RangeIsOneSources
<1> QED
  BY <1>3, <1>4, <1>5

\* The pixels that pass and those without a flag are some of those checked.
THEOREM MaskCountsAddUp == ASSUME NEW c, Mask!IsMaskCase(c) PROVE Mask!CountsAddUp(c)
<1> SUFFICES ASSUME Mask!Applied(c)
             PROVE  Mask!Counts(c).passing + Mask!Counts(c).flag_missing <= Mask!Counts(c).checked
  BY DEF Mask!CountsAddUp
<1> DEFINE all == Mask!Pixels(c)
           checked == {p \in all : Mask!Checked(Mask!At(c, p), c)}
           passing == {p \in all : Mask!Kept(Mask!At(c, p), c)}
           bare == {p \in all : Mask!Checked(Mask!At(c, p), c) /\ Mask!At(c, p).flag = Mask!NaN}
<1>1. IsFiniteSet(all)
  <2> DEFINE row == [t \in DOMAIN c.times |-> {t} \X DOMAIN c.times[t]]
             rows == {row[t] : t \in DOMAIN c.times}
  <2>1. /\ IsFiniteSet(DOMAIN c.times)
        /\ \A t \in DOMAIN c.times : IsFiniteSet(DOMAIN c.times[t])
    <3>1. /\ Len(c.times) \in Nat /\ DOMAIN c.times = 1 .. Len(c.times)
          /\ \A t \in DOMAIN c.times : Len(c.times[t]) \in Nat /\ DOMAIN c.times[t] = 1 .. Len(c.times[t])
      <4>1. c.times \in Seq(Seq([packed : Int, flag : Int]))
        BY DEF Mask!IsMaskCase
      <4>2. ASSUME NEW S, NEW s \in Seq(S)
            PROVE  Len(s) \in Nat /\ DOMAIN s = 1 .. Len(s) /\ \A i \in DOMAIN s : s[i] \in S
        OBVIOUS
      <4>3. \A t \in DOMAIN c.times : c.times[t] \in Seq([packed : Int, flag : Int])
        BY <4>1, <4>2
      <4> QED
        BY <4>1, <4>2, <4>3
    <3>2. \A n \in Nat : IsFiniteSet(1 .. n)
      BY FS_Interval, 1 \in Int
    <3> QED
      BY <3>1, <3>2
  <2>2. \A t \in DOMAIN c.times : IsFiniteSet(row[t])
    BY <2>1, FS_Product, FS_Singleton
  <2>3. all = UNION rows
    BY DEF Mask!Pixels
  <2>4. \A r \in rows : IsFiniteSet(r)
    BY <2>2
  <2> HIDE DEF row
  <2>5. IsFiniteSet(rows)
    BY <2>1, FiniteImage
  <2> HIDE DEF rows
  <2> QED
    BY <2>3, <2>4, <2>5, FS_UNION
<1>2. /\ Mask!Counts(c).passing = Cardinality(passing)
      /\ Mask!Counts(c).flag_missing = Cardinality(bare)
      /\ Mask!Counts(c).checked = Cardinality(checked)
  BY MaskSame DEF Mask!Counts
<1>3. passing \cup bare \in SUBSET checked /\ passing \in SUBSET all /\ bare \in SUBSET all /\ checked \in SUBSET all
  BY DEF Mask!Kept
<1>4. passing \cap bare = {}
  BY RulesHold
<1> HIDE DEF passing, bare, checked, all
<1>5. IsFiniteSet(passing) /\ IsFiniteSet(bare) /\ IsFiniteSet(checked)
  BY <1>1, <1>3, FS_Subset
<1>6. Cardinality(passing \cup bare) <= Cardinality(checked)
  BY <1>3, <1>5, FS_Subset
<1>7. Cardinality(passing \cup bare) = Cardinality(passing) + Cardinality(bare)
  <2>1. /\ Cardinality(passing \cup bare) = Cardinality(passing) + Cardinality(bare) - Cardinality(passing \cap bare)
        /\ Cardinality(passing \cap bare) = 0
    BY <1>4, <1>5, FS_Union, FS_EmptySet
  <2> QED
    BY <1>5, <2>1, FS_CardinalityType
<1> QED
  BY <1>2, <1>6, <1>7
\* A granule that has a value shares its bucket's whole with the others there.
Peers(g, b) == {i \in DOMAIN g : g[i][1] = b /\ g[i][2] # Mask!NaN}

LEMMA SharesAreWhole ==
    ASSUME NEW g, g \in Seq(Int \X Int), NEW W \in Int
    PROVE  /\ IsFiniteSet(DOMAIN g)
           /\ \A i \in DOMAIN g :
                 /\ g[i][1] \in Int /\ g[i][2] \in Int
                 /\ Mask!Contributing(g, i) = Cardinality(Peers(g, g[i][1]))
                 /\ IsFiniteSet(Peers(g, g[i][1]))
                 /\ Mask!Contributing(g, i) \in Nat
                 /\ g[i][2] # Mask!NaN => Mask!Contributing(g, i) # 0
                 /\ Mask!Weigh(g, W, i) \in Int
                 /\ Mask!Weigh(g, W, i) = IF g[i][2] = Mask!NaN THEN 0 ELSE W \div Mask!Contributing(g, i)
<1>1. /\ IsFiniteSet(DOMAIN g)
      /\ \A i \in DOMAIN g : g[i] \in Int \X Int
  <2>1. Len(g) \in Nat /\ DOMAIN g = 1 .. Len(g)
    OBVIOUS
  <2>2. IsFiniteSet(1 .. Len(g))
    BY <2>1, FS_Interval, 1 \in Int
  <2>3. ASSUME NEW S, NEW s \in Seq(S) PROVE \A i \in DOMAIN s : s[i] \in S
    OBVIOUS
  <2> QED
    BY <2>1, <2>2, <2>3
<1> SUFFICES ASSUME NEW i \in DOMAIN g
             PROVE  /\ g[i][1] \in Int /\ g[i][2] \in Int
                    /\ Mask!Contributing(g, i) = Cardinality(Peers(g, g[i][1]))
                    /\ IsFiniteSet(Peers(g, g[i][1]))
                    /\ Mask!Contributing(g, i) \in Nat
                    /\ g[i][2] # Mask!NaN => Mask!Contributing(g, i) # 0
                    /\ Mask!Weigh(g, W, i) \in Int
                    /\ Mask!Weigh(g, W, i) = IF g[i][2] = Mask!NaN THEN 0 ELSE W \div Mask!Contributing(g, i)
  BY <1>1
<1> DEFINE P == Peers(g, g[i][1])
           n == Mask!Contributing(g, i)
<1>2. n = Cardinality(P)
  BY MaskSame DEF Mask!Contributing, Peers
<1>3. IsFiniteSet(P) /\ P \in SUBSET DOMAIN g
  BY <1>1, FS_Subset DEF Peers
<1>4. g[i][2] # Mask!NaN => i \in P
  BY DEF Peers
<1>5. Mask!Weigh(g, W, i) = IF g[i][2] = Mask!NaN THEN 0 ELSE W \div n
  BY DEF Mask!Weigh
<1> HIDE DEF P, n
<1>6. n \in Nat
  BY <1>2, <1>3, FS_CardinalityType
<1>7. g[i][2] # Mask!NaN => n # 0
  BY <1>2, <1>3, <1>4, FS_EmptySet
<1>8. n # 0 => W \div n \in Int
  BY <1>6
<1> QED
  BY <1>1, <1>2, <1>3, <1>5, <1>6, <1>7, <1>8 DEF P, n

Shares(g, W) == [i \in DOMAIN g |-> Mask!Weigh(g, W, i)]
Terms(g, W) == [i \in DOMAIN g |-> Mask!Weigh(g, W, i) * g[i][2]]

LEMMA MeanTotals ==
    ASSUME NEW g, g \in Seq(Int \X Int), NEW W \in Int
    PROVE  /\ Shares(g, W) \in [DOMAIN g -> Int] /\ Terms(g, W) \in [DOMAIN g -> Int]
           /\ Mask!WeightOfAll(g, W) = TotalOf(Shares(g, W), DOMAIN g)
           /\ Mask!Total(g, W) = TotalOf(Terms(g, W), DOMAIN g)
<1> DEFINE D == DOMAIN g
           SumsW(t) == [s \in SUBSET D |->
                          IF s = {} THEN 0
                          ELSE LET x == CHOOSE x \in s : TRUE IN Mask!Weigh(g, W, x) + t[s \ {x}]]
           sumsW == CHOOSE t : t = SumsW(t)
           SumsT(t) == [s \in SUBSET D |->
                          IF s = {} THEN 0
                          ELSE LET x == CHOOSE x \in s : TRUE IN Mask!Weigh(g, W, x) * g[x][2] + t[s \ {x}]]
           sumsT == CHOOSE t : t = SumsT(t)
<1>0. IsFiniteSet(D)
  BY SharesAreWhole
<1>1. \A i \in D : g[i][2] \in Int /\ Mask!Weigh(g, W, i) \in Int
  BY SharesAreWhole
<1>2. Shares(g, W) \in [D -> Int] /\ Terms(g, W) \in [D -> Int]
  BY <1>1 DEF Shares, Terms
<1>3. Mask!WeightOfAll(g, W) = sumsW[D]
  BY Zenon DEF Mask!WeightOfAll, Mask!MapThenSumSet, Mask!MapThenFoldSet, sumsW, SumsW
<1>4. Mask!Total(g, W) = sumsT[D]
  BY Zenon DEF Mask!Total, Mask!MapThenSumSet, Mask!MapThenFoldSet, sumsT, SumsT
<1>5. \A t : SumsW(t) = SumsOf(D, Shares(g, W), t)
  BY DEF SumsOf, Pick, Shares
<1>6. \A t : SumsT(t) = SumsOf(D, Terms(g, W), t)
  BY DEF SumsOf, Pick, Terms
<1> HIDE DEF SumsW, SumsT, D
<1>7. ASSUME NEW E, IsFiniteSet(E), NEW f \in [E -> Int]
      PROVE  /\ \E t : t = SumsOf(E, f, t)
             /\ \A t : t = SumsOf(E, f, t) => t[E] = TotalOf(f, E)
  <2>1. E \in SUBSET E
    OBVIOUS
  <2> QED
    BY <1>7, <2>1, TotalIsTheSum
<1>8. sumsW = SumsW(sumsW) /\ sumsT = SumsT(sumsT)
  BY <1>0, <1>2, <1>5, <1>6, <1>7
<1> HIDE DEF sumsW, sumsT
<1>9. sumsW[D] = TotalOf(Shares(g, W), D) /\ sumsT[D] = TotalOf(Terms(g, W), D)
  BY <1>0, <1>2, <1>5, <1>6, <1>7, <1>8
<1> QED
  BY <1>2, <1>3, <1>4, <1>9 DEF D

Seen(g) == {g[i][1] : i \in {j \in DOMAIN g : g[j][2] # Mask!NaN}}
Raised(g, b) == [i \in DOMAIN g |-> IF g[i][1] = b /\ g[i][2] # Mask!NaN THEN <<b, g[i][2] + 1>> ELSE g[i]]

\* Pairs of a bucket and a value, and a whole the buckets' counts divide.
Measured(g, W) ==
    /\ g \in Seq(Int \X Int) /\ W \in Nat \ {0}
    /\ \A i \in DOMAIN g :
        /\ g[i][2] + 1 # Mask!NaN
        /\ g[i][2] # Mask!NaN => W % Mask!Contributing(g, i) = 0

\* A bucket that has a value weighs the whole.
LEMMA BucketsWeighTheWhole ==
    ASSUME NEW g, NEW W, Measured(g, W), NEW b \in Seen(g)
    PROVE  /\ Peers(g, b) \in SUBSET DOMAIN g /\ IsFiniteSet(Peers(g, b))
           /\ TotalOf(Shares(g, W), Peers(g, b)) = W
           /\ \E k \in Int : /\ k * Cardinality(Peers(g, b)) = W
                             /\ \A i \in Peers(g, b) : Mask!Weigh(g, W, i) = k
<1> DEFINE P == Peers(g, b)
           n == Cardinality(P)
           k == W \div n
<1>1. /\ g \in Seq(Int \X Int) /\ W \in Int
      /\ \A i \in DOMAIN g : g[i][2] # Mask!NaN => W % Mask!Contributing(g, i) = 0
  BY DEF Measured
<1>2. PICK j \in P : TRUE
  BY DEF Seen, Peers
<1>3. /\ P \in SUBSET DOMAIN g
      /\ \A i \in P : g[i][1] = b /\ g[i][2] # Mask!NaN
  BY DEF Peers
<1>4. /\ IsFiniteSet(P) /\ n \in Nat /\ n # 0 /\ W % n = 0
      /\ \A i \in P : Mask!Weigh(g, W, i) = k
  <2>1. \A i \in P : /\ Mask!Contributing(g, i) = n /\ IsFiniteSet(P) /\ n \in Nat /\ n # 0
                     /\ Mask!Weigh(g, W, i) = W \div Mask!Contributing(g, i)
    <3> SUFFICES ASSUME NEW i \in P
                 PROVE  /\ Mask!Contributing(g, i) = n /\ IsFiniteSet(P) /\ n \in Nat /\ n # 0
                        /\ Mask!Weigh(g, W, i) = W \div Mask!Contributing(g, i)
      OBVIOUS
    <3>1. i \in DOMAIN g /\ g[i][1] = b /\ g[i][2] # Mask!NaN
      BY <1>3
    <3>2. /\ Mask!Contributing(g, i) = Cardinality(Peers(g, g[i][1]))
          /\ IsFiniteSet(Peers(g, g[i][1])) /\ Mask!Contributing(g, i) \in Nat /\ Mask!Contributing(g, i) # 0
          /\ Mask!Weigh(g, W, i) = W \div Mask!Contributing(g, i)
      BY <1>1, <3>1, SharesAreWhole
    <3> QED
      BY <3>1, <3>2
  <2>2. W % Mask!Contributing(g, j) = 0 /\ Mask!Contributing(g, j) = n
    BY <1>1, <1>2, <1>3, <2>1
  <2> QED
    BY <1>2, <2>1, <2>2
<1>5. k \in Int /\ k * n = W
  <2> HIDE DEF n
  <2>1. n \in Nat \ {0} /\ W \in Int /\ W % n = 0
    BY <1>1, <1>4
  <2>2. W \div n \in Int /\ W = n * (W \div n) + (W % n)
    BY <2>1
  <2>3. \A q \in Int : n * q = q * n
    BY <2>1
  <2> QED
    BY <2>1, <2>2, <2>3
<1>6. \A i \in P : Shares(g, W)[i] = k
  BY <1>3, <1>4 DEF Shares
<1>7. Shares(g, W) \in [DOMAIN g -> Int]
  BY <1>1, MeanTotals
<1> HIDE DEF P, k
<1>8. TotalOf(Shares(g, W), P) = k * n
  BY <1>3, <1>4, <1>5, <1>6, <1>7, TotalOfSame
<1> QED
  BY <1>3, <1>4, <1>5, <1>8 DEF P

\* Raising a bucket's values raises the sum of the terms by the whole.
LEMMA RaisingCounts ==
    ASSUME NEW g, NEW W, Measured(g, W), NEW b \in Seen(g)
    PROVE  Mask!Total(Raised(g, b), W) = Mask!Total(g, W) + W
<1> DEFINE D == DOMAIN g
           r == Raised(g, b)
           P == Peers(g, b)
<1>1. g \in Seq(Int \X Int) /\ W \in Int /\ \A i \in D : g[i][2] + 1 # Mask!NaN
  BY DEF Measured
<1>2. \A i \in D : g[i][1] \in Int /\ g[i][2] \in Int /\ g[i] \in Int \X Int
  BY <1>1, SharesAreWhole
<1>3. /\ DOMAIN r = D
      /\ \A i \in D : r[i] = IF i \in P THEN <<b, g[i][2] + 1>> ELSE g[i]
  BY DEF Raised, Peers
<1>4. \A i \in P : i \in D /\ g[i][1] = b /\ g[i][2] # Mask!NaN
  BY DEF Peers
<1> HIDE DEF r, P
<1>5. \A i \in D : /\ r[i] \in Int \X Int /\ r[i][1] = g[i][1]
                   /\ r[i][2] # Mask!NaN <=> g[i][2] # Mask!NaN
                   /\ r[i][2] = IF i \in P THEN g[i][2] + 1 ELSE g[i][2]
  <2> TAKE i \in D
  <2>1. CASE i \in P
    <3>1. r[i] = <<b, g[i][2] + 1>> /\ g[i][1] = b /\ g[i][2] # Mask!NaN
      BY <1>3, <1>4, <2>1
    <3>2. g[i][2] \in Int /\ g[i][2] + 1 # Mask!NaN /\ b \in Int
      BY <1>1, <1>2, <3>1
    <3> QED
      BY <2>1, <3>1, <3>2
  <2>2. CASE i \notin P
    BY <1>2, <1>3, <2>2
  <2> QED
    BY <2>1, <2>2
<1>6. r \in Seq(Int \X Int)
  <2>1. Len(g) \in Nat /\ D = 1 .. Len(g)
    BY <1>1
  <2>2. r \in [1 .. Len(g) -> Int \X Int]
    <3>1. r = [i \in D |-> r[i]]
      BY DEF r, Raised
    <3> QED
      BY <1>5, <2>1, <3>1
  <2> QED
    BY <2>1, <2>2
<1>7. \A i \in D : Peers(r, r[i][1]) = Peers(g, g[i][1])
  BY <1>3, <1>5 DEF Peers
<1>8. \A i \in D : Mask!Weigh(r, W, i) = Mask!Weigh(g, W, i)
  <2> TAKE i \in D
  <2>1. Mask!Contributing(r, i) = Cardinality(Peers(r, r[i][1]))
    BY <1>1, <1>3, <1>6, SharesAreWhole
  <2>2. Mask!Contributing(g, i) = Cardinality(Peers(g, g[i][1]))
    BY <1>1, SharesAreWhole
  <2>3. Mask!Contributing(r, i) = Mask!Contributing(g, i)
    BY <1>7, <2>1, <2>2
  <2>4. Mask!Weigh(r, W, i) = IF r[i][2] = Mask!NaN THEN 0 ELSE W \div Mask!Contributing(r, i)
    BY <1>1, <1>3, <1>6, SharesAreWhole
  <2>5. Mask!Weigh(g, W, i) = IF g[i][2] = Mask!NaN THEN 0 ELSE W \div Mask!Contributing(g, i)
    BY <1>1, SharesAreWhole
  <2> QED
    BY <1>5, <2>3, <2>4, <2>5
<1>9. PICK k \in Int : k * Cardinality(P) = W /\ \A i \in P : Mask!Weigh(g, W, i) = k
  BY BucketsWeighTheWhole DEF P
<1>10. /\ Terms(r, W) \in [D -> Int] /\ Terms(g, W) \in [D -> Int]
       /\ Mask!Total(r, W) = TotalOf(Terms(r, W), D) /\ Mask!Total(g, W) = TotalOf(Terms(g, W), D)
  BY <1>1, <1>3, <1>6, MeanTotals
<1>11. \A i \in P : Terms(r, W)[i] = Terms(g, W)[i] + k
  <2> TAKE i \in P
  <2>1. i \in D /\ Terms(r, W)[i] = Mask!Weigh(r, W, i) * r[i][2] /\ Terms(g, W)[i] = Mask!Weigh(g, W, i) * g[i][2]
    BY <1>3, <1>4 DEF Terms
  <2>2. Mask!Weigh(r, W, i) = k /\ Mask!Weigh(g, W, i) = k /\ r[i][2] = g[i][2] + 1
    BY <1>5, <1>8, <1>9, <2>1
  <2>3. g[i][2] \in Int
    BY <1>2, <2>1
  <2>4. \A v \in Int : k * (v + 1) = k * v + k
    OBVIOUS
  <2> QED
    BY <2>1, <2>2, <2>3, <2>4
<1>12. \A i \in D \ P : Terms(r, W)[i] = Terms(g, W)[i]
  <2> TAKE i \in D \ P
  <2>1. Terms(r, W)[i] = Mask!Weigh(r, W, i) * r[i][2] /\ Terms(g, W)[i] = Mask!Weigh(g, W, i) * g[i][2]
    BY <1>3 DEF Terms
  <2> QED
    BY <1>5, <1>8, <2>1
<1>13. IsFiniteSet(P) /\ P \in SUBSET D /\ D \ P \in SUBSET D /\ IsFiniteSet(D \ P) /\ P \cap (D \ P) = {}
       /\ P \cup (D \ P) = D
  <2>1. IsFiniteSet(D)
    BY <1>1, SharesAreWhole
  <2>2. P \in SUBSET D
    BY <1>4
  <2> QED
    BY <2>1, <2>2, FS_Subset
<1> DEFINE Q == D \ P
<1> HIDE DEF Q, D
<1>14. ASSUME NEW f \in [D -> Int] PROVE TotalOf(f, D) = TotalOf(f, P) + TotalOf(f, Q)
  BY <1>13, TotalSplits DEF Q
<1>15. TotalOf(Terms(r, W), P) = TotalOf(Terms(g, W), P) + k * Cardinality(P)
  BY <1>10, <1>11, <1>13, TotalsShift
<1>16. TotalOf(Terms(r, W), Q) = TotalOf(Terms(g, W), Q)
  <2>1. Q \in SUBSET D /\ IsFiniteSet(Q) /\ \A i \in Q : Terms(r, W)[i] = Terms(g, W)[i]
    BY <1>12, <1>13 DEF Q
  <2> QED
    BY <1>10, <2>1, TotalsEqual
<1>17. TotalOf(Terms(g, W), P) \in Int /\ TotalOf(Terms(g, W), Q) \in Int
  <2>1. Q \in SUBSET D /\ IsFiniteSet(Q)
    BY <1>13 DEF Q
  <2> QED
    BY <1>10, <1>13, <2>1, TotalIsWhole
<1>18. Mask!Total(r, W) = Mask!Total(g, W) + W
  <2> DEFINE c == Cardinality(P)
             x == TotalOf(Terms(g, W), P)
             y == TotalOf(Terms(g, W), Q)
  <2>1. TotalOf(Terms(r, W), D) = (x + k * c) + y /\ TotalOf(Terms(g, W), D) = x + y
    BY <1>10, <1>14, <1>15, <1>16
  <2>2. x \in Int /\ y \in Int /\ W \in Int /\ k * c = W
    BY <1>1, <1>9, <1>17
  <2> HIDE DEF c, x, y
  <2>3. (x + k * c) + y = (x + y) + W
    BY <2>2
  <2> QED
    BY <1>10, <2>1, <2>3
<1> QED
  BY <1>18 DEF r

\* Together the buckets that have a value weigh the whole each.
LEMMA WeightsAddUp ==
    ASSUME NEW g, NEW W, Measured(g, W)
    PROVE  Mask!WeightOfAll(g, W) = W * Cardinality(Seen(g))
<1> DEFINE D == DOMAIN g
           U(s) == {i \in D : g[i][2] # Mask!NaN /\ g[i][1] \in s}
           f == Shares(g, W)
           seen == Seen(g)
           bad == {s \in SUBSET seen : TotalOf(f, U(s)) # W * Cardinality(s)}
<1>1. g \in Seq(Int \X Int) /\ W \in Int
  BY DEF Measured
<1>2. IsFiniteSet(D)
  BY <1>1, SharesAreWhole
<1>3. \A s : U(s) \in SUBSET D /\ IsFiniteSet(U(s))
  BY <1>2, FS_Subset
<1>4. f \in [D -> Int] /\ Mask!WeightOfAll(g, W) = TotalOf(f, D)
  BY <1>1, MeanTotals
<1>5. IsFiniteSet(seen)
  <2> DEFINE J == {j \in D : g[j][2] # Mask!NaN}
             h == [j \in J |-> g[j][1]]
  <2>1. IsFiniteSet(J)
    BY <1>2, FS_Subset
  <2>2. seen = {h[j] : j \in J}
    BY DEF Seen
  <2> HIDE DEF J, h
  <2> QED
    BY <2>1, <2>2, FiniteImage
<1>6. {} \notin bad
  <2>1. U({}) = {}
    OBVIOUS
  <2>2. TotalOf(f, {}) = 0
    BY <1>4, TotalOfNothing
  <2>3. Cardinality({}) = 0
    BY FS_EmptySet
  <2>4. W * 0 = 0
    BY <1>1
  <2> QED
    BY <2>1, <2>2, <2>3, <2>4
<1>7. ASSUME NEW s \in bad, s # {} PROVE \E x \in s : s \ {x} \in bad
  <2>1. s \in SUBSET seen /\ TotalOf(f, U(s)) # W * Cardinality(s)
    OBVIOUS
  <2>2. PICK b \in s : TRUE
    BY <1>7
  <2> DEFINE t == s \ {b}
             P == Peers(g, b)
  <2>3. U(s) = U(t) \cup P /\ U(t) \cap P = {}
    BY <2>2 DEF Peers
  <2>4. P \in SUBSET D /\ IsFiniteSet(P) /\ TotalOf(f, P) = W
    BY <2>1, <2>2, BucketsWeighTheWhole
  <2>5. IsFiniteSet(s)
    BY <1>5, <2>1, FS_Subset
  <2>6. Cardinality(s) = Cardinality(t) + 1 /\ Cardinality(t) \in Nat
    <3>1. Cardinality(t) = Cardinality(s) - 1 /\ IsFiniteSet(t) /\ Cardinality(s) \in Nat
      BY <2>2, <2>5, FS_RemoveElement, FS_CardinalityType, FS_Subset
    <3>2. Cardinality(t) \in Nat
      BY <3>1, FS_CardinalityType
    <3> QED
      BY <3>1, <3>2
  <2>7. U(t) \in SUBSET D /\ IsFiniteSet(U(t))
    BY <1>3
  <2> DEFINE V == U(t)
             O == U(s)
  <2>8. O = V \cup P /\ V \cap P = {} /\ V \in SUBSET D /\ IsFiniteSet(V)
    BY <2>3, <2>7
  <2>9. t \in SUBSET seen
    BY <2>1
  <2> HIDE DEF V, O, P, D, f
  <2>10. TotalOf(f, V \cup P) = TotalOf(f, V) + TotalOf(f, P) /\ TotalOf(f, V) \in Int
    BY <1>4, <2>4, <2>8, TotalSplits, TotalIsWhole
  <2>11. TotalOf(f, V) = W * Cardinality(t) => TotalOf(f, O) = W * Cardinality(s)
    BY <1>1, <2>4, <2>6, <2>8, <2>10
  <2>12. TotalOf(f, V) # W * Cardinality(t)
    BY <2>1, <2>11 DEF O
  <2>13. t \in bad
    BY <2>9, <2>12 DEF V
  <2> QED
    BY <2>2, <2>13
<1>8. bad \in SUBSET SUBSET seen
  OBVIOUS
<1>9. bad = {}
  <2> HIDE DEF bad, seen
  <2> QED
    BY <1>5, <1>6, <1>7, <1>8, Shrinking
<1>10. TotalOf(f, U(seen)) = W * Cardinality(seen)
  <2>1. seen \in SUBSET seen
    OBVIOUS
  <2> QED
    BY <1>9, <2>1
<1> DEFINE R == U(seen)
           Q == D \ R
<1>11. /\ R \in SUBSET D /\ IsFiniteSet(R) /\ Q \in SUBSET D /\ IsFiniteSet(Q) /\ R \cap Q = {} /\ R \cup Q = D
  BY <1>2, <1>3, FS_Subset
<1>12. \A i \in Q : f[i] = 0
  <2> TAKE i \in Q
  <2>1. i \in D /\ g[i][2] = Mask!NaN
    BY DEF Seen
  <2> QED
    BY <1>1, <2>1, SharesAreWhole DEF Shares
<1> HIDE DEF R, Q, D, f
<1>13. TotalOf(f, D) = TotalOf(f, R) + TotalOf(f, Q)
  <2>1. TotalOf(f, R \cup Q) = TotalOf(f, R) + TotalOf(f, Q)
    BY <1>4, <1>11, TotalSplits
  <2> QED
    BY <1>11, <2>1
<1>14. TotalOf(f, Q) = 0 * Cardinality(Q)
  BY <1>4, <1>11, <1>12, TotalOfSame, 0 \in Int
<1>15. Cardinality(Q) \in Nat /\ TotalOf(f, R) \in Int
  BY <1>4, <1>11, FS_CardinalityType, TotalIsWhole
<1>16. TotalOf(f, R) = W * Cardinality(seen)
  BY <1>10 DEF R
<1> QED
  BY <1>4, <1>13, <1>14, <1>15, <1>16

\* Every bucket that has a value at a cell weighs as much as any other in its
\* mean, for any granules and any number of them in a bucket.
THEOREM BucketsAlwaysWeighAlike == ASSUME NEW c, Mask!IsMeanCase(c) PROVE Mask!BucketsWeighAlike(c)
<1> DEFINE g == c.granules
           W == c.whole
<1>1. Measured(g, W)
  BY DEF Mask!IsMeanCase, Measured
<1>2. \A a, b \in Seen(g) : Mask!Total(Raised(g, a), W) = Mask!Total(Raised(g, b), W)
  <2> HIDE DEF g, W
  <2> QED
    BY <1>1, RaisingCounts
<1>3. Mask!WeightOfAll(g, W) = W * Mask!Cardinality(Seen(g))
  <2> HIDE DEF g, W
  <2> QED
    BY <1>1, WeightsAddUp, MaskSame
<1> QED
  BY <1>2, <1>3 DEF Mask!BucketsWeighAlike, Seen, Raised
-----------------------------------------------------------------------------
(* Openings. *)

LEMMA OpeningSame ==
    ASSUME NEW S
    PROVE  /\ Opening!Cardinality(S) = Cardinality(S)
           /\ Opening!IsFiniteSet(S) <=> IsFiniteSet(S)
           /\ Opening!Min(S) = Min(S) /\ Opening!Max(S) = Max(S)
  BY DEF Cardinality, Opening!Cardinality, IsFiniteSet, Opening!IsFiniteSet,
         Min, Max, Opening!Min, Opening!Max

\* What the first dataset that has a name makes of it.
LEMMA FirstWins ==
    ASSUME NEW maps, NEW n \in Nat, DOMAIN maps = 1 .. n
    PROVE  /\ \A x : x \in DOMAIN Opening!Merged(maps) <=> \E k \in 1 .. n : x \in DOMAIN maps[k]
           /\ \A x \in DOMAIN Opening!Merged(maps) :
                \E k \in 1 .. n : x \in DOMAIN maps[k] /\ Opening!Merged(maps)[x] = maps[k][x]
<1>1. \A x : x \in DOMAIN Opening!Merged(maps) <=> \E k \in 1 .. n : x \in DOMAIN maps[k]
  BY DEF Opening!Merged, Opening!Range
<1>2. ASSUME NEW x \in DOMAIN Opening!Merged(maps)
      PROVE  \E k \in 1 .. n : x \in DOMAIN maps[k] /\ Opening!Merged(maps)[x] = maps[k][x]
  <2> DEFINE K == {k \in 1 .. n : x \in DOMAIN maps[k]}
  <2>1. K \in SUBSET Int /\ K # {}
    BY <1>1
  <2>2. IsFiniteSet(1 .. n)
    BY FS_Interval, 1 \in Int, n \in Int
  <2>3. IsFiniteSet(K)
    BY <2>2, FS_Subset
  <2>4. Opening!Merged(maps)[x] = maps[Min(K)][x]
    BY OpeningSame DEF Opening!Merged
  <2>5. Min(K) \in K
    <3> HIDE DEF K
    <3> QED
      BY <2>1, <2>3, Extremes
  <2> QED
    BY <2>4, <2>5
<1> QED
  BY <1>1, <1>2

\* No variable of a group is lost or taken for another's, for any groups whose
\* dimensions fit together and whose leaves are no one's coordinates.
THEOREM GroupsAlwaysKeepVariables == ASSUME NEW f, Opening!IsGroupCase(f) PROVE Opening!GroupsKeepTheirVariables(f)
<1> DEFINE read(g, leaf) ==
             {n \in DOMAIN Opening!_open_netcdf(f).names : Opening!_open_netcdf(f).names[n] = <<g.path, leaf>>}
           survives(g, leaf) ==
             read(g, leaf) = {IF \E h \in Opening!Range(f.groups) : h # g /\ leaf \in h.data
                              THEN <<g.path, leaf>> ELSE <<"", leaf>>}
<1> SUFFICES ASSUME ~Opening!Conflict(f), Opening!Shared(f) = {},
                    NEW i \in DOMAIN f.groups, NEW leaf \in f.groups[i].data
             PROVE  survives(f.groups[i], leaf)
  <2> SUFFICES ASSUME ~Opening!Conflict(f), Opening!Shared(f) = {},
                      NEW g \in Opening!Range(f.groups), NEW leaf \in g.data
               PROVE  survives(g, leaf)
    BY DEF Opening!GroupsKeepTheirVariables
  <2>1. PICK i \in DOMAIN f.groups : g = f.groups[i]
    BY DEF Opening!Range
  <2> HIDE DEF survives
  <2> QED
    BY <2>1
<1> DEFINE G == f.groups
           g == G[i]
           of(k) == Opening!NamesOf(f, G[k])
           maps == <<Opening!RootNames(f)>> \o [k \in DOMAIN G |-> of(k)]
           names == Opening!_open_netcdf(f).names
           several == leaf \in Opening!collided(f)
           mine == IF several THEN <<g.path, leaf>> ELSE <<"", leaf>>
<1>1. PICK n \in Nat : DOMAIN G = 1 .. n
  <2>1. ASSUME NEW S, NEW s \in Seq(S) PROVE Len(s) \in Nat /\ DOMAIN s = 1 .. Len(s)
    OBVIOUS
  <2> QED
    BY <2>1 DEF Opening!IsGroupCase
<1>2. /\ \A k \in 1 .. n : G[k].path \in STRING /\ G[k].path # "" /\ G[k].path # "/"
      /\ \A j, k \in 1 .. n : G[j].path = G[k].path => j = k
  <2>1. ASSUME NEW S, NEW s \in Seq(S) PROVE \A k \in DOMAIN s : s[k] \in S
    OBVIOUS
  <2>2. \A k \in DOMAIN G : G[k] \in [path : STRING \ {"", "/"}, data : SUBSET STRING, coords : SUBSET STRING, size : Nat]
    BY <2>1 DEF Opening!IsGroupCase
  <2> QED
    BY <1>1, <2>2 DEF Opening!IsGroupCase
<1>3. ~Opening!Flat(f)
  BY DEF Opening!Flat, Opening!Range
<1>4. names = Opening!Merged(maps)
  BY <1>3 DEF Opening!_open_netcdf, Opening!Promoted
<1>5. /\ DOMAIN maps = 1 .. n + 1 /\ maps[1] = Opening!RootNames(f)
      /\ \A k \in 1 .. n : maps[k + 1] = of(k)
  <2> DEFINE rest == [k \in DOMAIN G |-> of(k)]
  <2>1. rest = [k \in 1 .. n |-> of(k)]
    BY <1>1
  <2>2. rest \in Seq({of(k) : k \in 1 .. n}) /\ Len(rest) = n
    BY <2>1
  <2>3. \A k \in 1 .. n : rest[k] = of(k)
    BY <2>1
  <2>4. maps = <<Opening!RootNames(f)>> \o rest
    OBVIOUS
  <2> HIDE DEF rest, maps, of
  <2> QED
    BY <2>2, <2>3, <2>4
<1>6. /\ leaf \notin f.root.data /\ leaf \notin f.root.coords
      /\ \A k \in 1 .. n : leaf \notin G[k].coords
  <2> DEFINE others == UNION {h.coords : h \in Opening!Range(f.groups)}
             taken == f.root.data \cup f.root.coords \cup others
  <2>1. leaf \in UNION {h.data : h \in Opening!Range(f.groups)}
    BY DEF Opening!Range
  <2>2. leaf \notin taken
    BY <2>1 DEF Opening!Shared
  <2>3. \A k \in 1 .. n : G[k].coords \in {h.coords : h \in Opening!Range(f.groups)}
    BY <1>1 DEF Opening!Range
  <2>4. \A k \in 1 .. n : leaf \in G[k].coords => leaf \in others
    BY <2>3
  <2> QED
    BY <2>2, <2>4
<1>7. several <=> \E k \in 1 .. n : k # i /\ leaf \in G[k].data
  BY <1>1 DEF Opening!collided, Opening!Range
<1>8. several <=> \E h \in Opening!Range(f.groups) : h # g /\ leaf \in h.data
  BY <1>1, <1>2, <1>7 DEF Opening!Range
<1>9. /\ \A x : x \in DOMAIN names <=> \E k \in 1 .. n + 1 : x \in DOMAIN maps[k]
      /\ \A x \in DOMAIN names : \E k \in 1 .. n + 1 : x \in DOMAIN maps[k] /\ names[x] = maps[k][x]
  <2>1. n + 1 \in Nat
    OBVIOUS
  <2> HIDE DEF maps, names
  <2> QED
    BY <1>4, <1>5, <2>1, FirstWins
<1>10. \A k \in 1 .. n : \A x : x \in DOMAIN of(k) <=>
          \/ \E l \in (G[k].data \ Opening!collided(f)) \cup G[k].coords : x = <<"", l>>
          \/ \E l \in G[k].data \cap Opening!collided(f) : x = <<G[k].path, l>>
  BY DEF Opening!NamesOf
<1>11. \A k \in 1 .. n : \A x \in DOMAIN of(k) : of(k)[x] = <<G[k].path, x[2]>>
  BY DEF Opening!NamesOf
<1>12. \A x \in DOMAIN maps[1] : maps[1][x] = <<"/", x[2]>> /\ \E l \in f.root.data \cup f.root.coords : x = <<"", l>>
  BY <1>5 DEF Opening!RootNames
<1>13. i \in 1 .. n /\ mine \in DOMAIN of(i) /\ mine[2] = leaf
  <2>1. i \in 1 .. n /\ leaf \in G[i].data
    BY <1>1
  <2>2. CASE several
    BY <1>10, <2>1, <2>2
  <2>3. CASE ~several
    BY <1>10, <2>1, <2>3
  <2> QED
    BY <2>1, <2>2, <2>3
<1>a. ASSUME NEW p, NEW l, NEW x, x = <<p, l>> PROVE x[1] = p /\ x[2] = l
  BY <1>a
<1>14. ASSUME NEW k \in 1 .. n, NEW x \in DOMAIN of(k), x[2] = leaf,
              k = i \/ x = mine
       PROVE  x = mine /\ k = i
  <2>1. \/ \E l \in G[k].data \ Opening!collided(f) : x = <<"", l>>
        \/ \E l \in G[k].data \cap Opening!collided(f) : x = <<G[k].path, l>>
    <3>1. CASE \E l \in (G[k].data \ Opening!collided(f)) \cup G[k].coords : x = <<"", l>>
      <4>1. PICK l \in (G[k].data \ Opening!collided(f)) \cup G[k].coords : x = <<"", l>>
        BY <3>1
      <4>2. l = leaf
        BY <1>a, <1>14, <4>1
      <4> QED
        BY <1>6, <4>1, <4>2
    <3>2. CASE \E l \in G[k].data \cap Opening!collided(f) : x = <<G[k].path, l>>
      BY <3>2
    <3> QED
      BY <1>10, <3>1, <3>2
  <2>2. leaf \in G[k].data /\ x = IF several THEN <<G[k].path, leaf>> ELSE <<"", leaf>>
    <3>1. CASE \E l \in G[k].data \ Opening!collided(f) : x = <<"", l>>
      <4>1. PICK l \in G[k].data \ Opening!collided(f) : x = <<"", l>>
        BY <3>1
      <4>2. l = leaf
        BY <1>a, <1>14, <4>1
      <4> QED
        BY <4>1, <4>2
    <3>2. CASE \E l \in G[k].data \cap Opening!collided(f) : x = <<G[k].path, l>>
      <4>1. PICK l \in G[k].data \cap Opening!collided(f) : x = <<G[k].path, l>>
        BY <3>2
      <4>2. l = leaf
        BY <1>a, <1>14, <4>1
      <4> QED
        BY <4>1, <4>2
    <3> QED
      BY <2>1, <3>1, <3>2
  <2>3. CASE k = i
    BY <2>2, <2>3
  <2>4. CASE x = mine /\ several
    <3>1. G[k].path = G[i].path
      BY <2>2, <2>4
    <3> QED
      BY <1>2, <1>13, <2>4, <3>1
  <2>5. CASE x = mine /\ ~several
    BY <1>7, <2>2, <2>5
  <2> QED
    BY <1>14, <2>3, <2>4, <2>5
<1> HIDE DEF maps, names, of, mine, several
<1>15. mine \in DOMAIN names /\ names[mine] = <<g.path, leaf>>
  <2>1. mine \in DOMAIN maps[i + 1] /\ i + 1 \in 1 .. n + 1
    BY <1>5, <1>13
  <2>2. mine \in DOMAIN names
    BY <1>9, <2>1
  <2>3. PICK k \in 1 .. n + 1 : mine \in DOMAIN maps[k] /\ names[mine] = maps[k][mine]
    BY <1>9, <2>2
  <2>4. k # 1
    <3> SUFFICES ASSUME k = 1 PROVE FALSE
      OBVIOUS
    <3>1. PICK l \in f.root.data \cup f.root.coords : mine = <<"", l>>
      BY <1>12, <2>3
    <3>2. l = leaf
      BY <1>a, <1>13, <3>1
    <3> QED
      BY <1>6, <3>1, <3>2
  <2>5. k - 1 \in 1 .. n /\ maps[k] = of(k - 1)
    <3>1. k - 1 \in 1 .. n /\ (k - 1) + 1 = k
      BY <2>4
    <3> QED
      BY <1>5, <3>1
  <2>6. k - 1 = i
    BY <1>13, <1>14, <2>3, <2>5
  <2> QED
    BY <1>11, <1>13, <2>2, <2>3, <2>5, <2>6
<1>16. ASSUME NEW x \in DOMAIN names, names[x] = <<g.path, leaf>> PROVE x = mine
  <2>1. PICK k \in 1 .. n + 1 : x \in DOMAIN maps[k] /\ names[x] = maps[k][x]
    BY <1>9
  <2>2. k # 1
    <3> SUFFICES ASSUME k = 1 PROVE FALSE
      OBVIOUS
    <3>1. <<"/", x[2]>> = <<g.path, leaf>>
      BY <1>12, <1>16, <2>1
    <3>2. g.path = "/"
      BY <1>a, <3>1
    <3> QED
      BY <1>2, <1>13, <3>2
  <2>3. k - 1 \in 1 .. n /\ maps[k] = of(k - 1)
    <3>1. k - 1 \in 1 .. n /\ (k - 1) + 1 = k
      BY <2>2
    <3> QED
      BY <1>5, <3>1
  <2>4. of(k - 1)[x] = <<G[k - 1].path, x[2]>>
    BY <1>11, <2>1, <2>3
  <2>5. G[k - 1].path = G[i].path /\ x[2] = leaf
    <3>1. <<G[k - 1].path, x[2]>> = <<g.path, leaf>>
      BY <1>16, <2>1, <2>3, <2>4
    <3> QED
      BY <1>a, <3>1
  <2>6. k - 1 = i
    BY <1>2, <1>13, <2>3, <2>5
  <2> QED
    BY <1>14, <2>1, <2>3, <2>5, <2>6
<1> QED
  BY <1>8, <1>15, <1>16 DEF names, mine

\* A file's own names for its dimensions are taken all or none, for any file.
THEOREM DimensionsAlwaysAsDeclared ==
    ASSUME NEW ds, Opening!IsDimensionCase(ds) PROVE Opening!DimensionsAreAsDeclared(ds)
<1> DEFINE claims(d) == Opening!Claims(ds, d)
           mapped == {d \in ds.dims : claims(d) # {}}
           name == [d \in mapped |-> CHOOSE n \in claims(d) : TRUE]
           agreed == /\ \A d \in mapped : \A n, m \in claims(d) : n = m
                     /\ \A d, e \in mapped : d # e => name[d] # name[e]
                     /\ \A d \in mapped : name[d] \notin ds.dims /\ Opening!Free(ds, d, name[d])
           named == Opening!_apply_declared_dimension_names(ds)
<1>1. named = [d \in ds.dims |-> IF agreed /\ d \in mapped THEN name[d] ELSE d]
  BY DEF Opening!_apply_declared_dimension_names
<1>2. \A d \in mapped : name[d] \in claims(d)
  OBVIOUS
<1> HIDE DEF named
<1>3. ASSUME NEW d \in ds.dims, NEW e \in ds.dims, d # e PROVE named[d] # named[e]
  <2>1. CASE ~agreed
    <3>1. named[d] = d /\ named[e] = e
      BY <1>1, <2>1
    <3> QED
      BY <1>3, <3>1
  <2>2. CASE agreed
    <3>1. \A b \in ds.dims : named[b] = IF b \in mapped THEN name[b] ELSE b
      BY <1>1, <2>2
    <3>2. \A b \in mapped : name[b] \notin ds.dims
      BY <2>2
    <3>3. \A b, c \in mapped : b # c => name[b] # name[c]
      BY <2>2
    <3> HIDE DEF mapped, name, agreed
    <3> QED
      BY <1>3, <3>1, <3>2, <3>3
  <2> QED
    BY <2>1, <2>2
<1>4. ASSUME NEW d \in ds.dims, named[d] # d, NEW v \in Opening!Declaring(ds), NEW k \in DOMAIN v.dims,
             v.declared[k] # ""
      PROVE  named[v.dims[k]] = v.declared[k]
  <2>1. agreed
    BY <1>1, <1>4
  <2> DEFINE e == v.dims[k]
  <2>2. v \in ds.vars /\ e \in ds.dims
    <3>1. v \in ds.vars
      BY DEF Opening!Declaring
    <3>2. ASSUME NEW S, NEW s \in Seq(S) PROVE \A j \in DOMAIN s : s[j] \in S
      OBVIOUS
    <3> QED
      BY <3>1, <3>2 DEF Opening!IsDimensionCase
  <2>3. CASE v.declared[k] = e
    <3>1. claims(e) = {}
      BY <2>2, <2>3 DEF Opening!IsDimensionCase
    <3> QED
      BY <1>1, <2>2, <2>3, <3>1
  <2>4. CASE v.declared[k] # e
    <3>1. v.declared[k] \in claims(e)
      <4>1. v.declared[k] \in {v.declared[j] : j \in {l \in DOMAIN v.dims : v.dims[l] = e}}
        OBVIOUS
      <4>2. v.declared[k] \in UNION {{w.declared[j] : j \in {l \in DOMAIN w.dims : w.dims[l] = e}} :
                                     w \in Opening!Declaring(ds)}
        BY <4>1
      <4> QED
        BY <1>4, <2>4, <4>2 DEF Opening!Claims
    <3>2. e \in mapped
      BY <2>2, <3>1
    <3>3. named[e] = name[e]
      BY <1>1, <2>1, <3>2
    <3> QED
      BY <1>2, <2>1, <3>1, <3>2, <3>3
  <2> QED
    BY <2>3, <2>4
<1> QED
  BY <1>3, <1>4 DEF Opening!DimensionsAreAsDeclared, named

\* A finite set in a strict order of its elements has each of them once, and
\* those before before.
LEMMA OrderLaws ==
    ASSUME NEW S, IsFiniteSet(S), NEW before,
           \A g \in S : <<g, g>> \notin before,
           \A g, h, i \in S : <<g, h>> \in before /\ <<h, i>> \in before => <<g, i>> \in before,
           \A g, h \in S : g # h => <<g, h>> \in before \/ <<h, g>> \in before
    PROVE  LET line == Opening!InOrder(S, before)
           IN  /\ Cardinality(S) \in Nat /\ DOMAIN line = 1 .. Cardinality(S)
               /\ \A i \in 1 .. Cardinality(S) : line[i] \in S
               /\ \A g \in S : \E i \in 1 .. Cardinality(S) : line[i] = g
               /\ \A i, j \in 1 .. Cardinality(S) : i < j => <<line[i], line[j]>> \in before
<1> DEFINE N == Cardinality(S)
           lower(g) == {h \in S : <<h, g>> \in before}
           rank == [g \in S |-> Cardinality(lower(g)) + 1]
           line == Opening!InOrder(S, before)
<1>1. N \in Nat /\ IsFiniteSet(1 .. N) /\ Cardinality(1 .. N) = N
  BY FS_CardinalityType, FS_Interval
<1>2. \A g \in S : /\ IsFiniteSet(lower(g)) /\ Cardinality(lower(g)) \in Nat
                   /\ Cardinality(lower(g)) < N
  <2> TAKE g \in S
  <2>1. lower(g) \in SUBSET S /\ g \notin lower(g)
    OBVIOUS
  <2> HIDE DEF lower
  <2>2. IsFiniteSet(lower(g)) /\ Cardinality(lower(g)) <= N /\ Cardinality(lower(g)) # N
    BY <2>1, FS_Subset
  <2>3. Cardinality(lower(g)) \in Nat
    BY <2>2, FS_CardinalityType
  <2> QED
    BY <1>1, <2>2, <2>3
<1>3. \A g, h \in S : <<g, h>> \in before => rank[g] < rank[h]
  <2> TAKE g, h \in S
  <2> HAVE <<g, h>> \in before
  <2> DEFINE L == lower(g)
             H == lower(h)
  <2>1. L \in SUBSET H /\ g \in H /\ g \notin L
    OBVIOUS
  <2>2. IsFiniteSet(H) /\ Cardinality(H) \in Nat /\ Cardinality(L) \in Nat
    BY <1>2
  <2>3. rank[g] = Cardinality(L) + 1 /\ rank[h] = Cardinality(H) + 1
    OBVIOUS
  <2> HIDE DEF L, H, rank
  <2>4. Cardinality(L) <= Cardinality(H) /\ Cardinality(L) # Cardinality(H)
    BY <2>1, <2>2, FS_Subset
  <2> QED
    BY <2>2, <2>3, <2>4
<1>4. \A g \in S : rank[g] \in 1 .. N
  <2> TAKE g \in S
  <2>1. rank[g] = Cardinality(lower(g)) + 1
    OBVIOUS
  <2>2. Cardinality(lower(g)) \in Nat /\ Cardinality(lower(g)) < N
    BY <1>2
  <2> HIDE DEF rank, lower
  <2> QED
    BY <1>1, <2>1, <2>2
<1>5. ASSUME NEW g \in S, NEW h \in S, rank[g] = rank[h] PROVE g = h
  <2>1. rank[g] \in Int /\ rank[h] \in Int
    BY <1>4
  <2>2. g # h => <<g, h>> \in before \/ <<h, g>> \in before
    OBVIOUS
  <2> HIDE DEF rank
  <2>3. <<g, h>> \notin before /\ <<h, g>> \notin before
    BY <1>3, <1>5, <2>1
  <2> QED
    BY <2>2, <2>3
<1>6. rank \in Injection(S, 1 .. N)
  BY <1>4, <1>5 DEF Injection, IsInjective
<1>7. rank \in Surjection(S, 1 .. N)
  BY <1>1, <1>6, FS_Injection
<1>8. \A i \in 1 .. N : \E g \in S : rank[g] = i
  BY <1>7 DEF Surjection
<1>9. DOMAIN line = 1 .. N
  BY OpeningSame DEF Opening!InOrder
<1>10. \A i \in 1 .. N : line[i] = CHOOSE g \in S : Cardinality(lower(g)) = i - 1
  <2>1. \A g : Opening!Cardinality(lower(g)) = Cardinality(lower(g)) /\ Opening!Cardinality(S) = N
    BY OpeningSame
  <2> QED
    BY <2>1 DEF Opening!InOrder
<1>11. \A i \in 1 .. N : \E g \in S : Cardinality(lower(g)) = i - 1
  <2> TAKE i \in 1 .. N
  <2>1. PICK g \in S : rank[g] = i
    BY <1>8
  <2>2. rank[g] = Cardinality(lower(g)) + 1 /\ Cardinality(lower(g)) \in Nat
    BY <1>2
  <2> HIDE DEF rank, lower
  <2> QED
    BY <2>1, <2>2
<1>12. \A i \in 1 .. N : line[i] \in S /\ rank[line[i]] = i
  <2> TAKE i \in 1 .. N
  <2>1. line[i] \in S /\ Cardinality(lower(line[i])) = i - 1
    BY <1>10, <1>11
  <2>2. rank[line[i]] = Cardinality(lower(line[i])) + 1
    BY <2>1
  <2> HIDE DEF rank, lower, line
  <2> QED
    BY <2>1, <2>2
<1> HIDE DEF rank, line
<1>13. \A g \in S : line[rank[g]] = g
  BY <1>4, <1>5, <1>12
<1>14. \A i, j \in 1 .. N : i < j => <<line[i], line[j]>> \in before
  <2> TAKE i, j \in 1 .. N
  <2> HAVE i < j
  <2>1. line[i] \in S /\ line[j] \in S /\ rank[line[i]] = i /\ rank[line[j]] = j
    BY <1>12
  <2>2. line[i] # line[j]
    BY <2>1
  <2>3. ~(<<line[j], line[i]>> \in before)
    <3>1. <<line[j], line[i]>> \in before => rank[line[j]] < rank[line[i]]
      BY <1>3, <2>1
    <3>2. i \in Int /\ j \in Int
      OBVIOUS
    <3> QED
      BY <2>1, <3>1, <3>2
  <2> QED
    BY <2>1, <2>2, <2>3
<1> QED
  BY <1>1, <1>4, <1>9, <1>12, <1>13, <1>14 DEF line

\* A member has as many times once it is given one as before, each the one it
\* states itself or else its date.
LEMMA MembersKeepTheirTimes ==
    ASSUME NEW m, Opening!IsMember(m)
    PROVE  LET given == Opening!_synthesize_member_time_coord(m)
           IN  /\ \E n \in Nat : DOMAIN given = 1 .. n /\ DOMAIN m.times = 1 .. n
               /\ \A j \in DOMAIN m.times : given[j] = Opening!Own(m, j) /\ given[j] \in Nat
<1> DEFINE given == Opening!_synthesize_member_time_coord(m)
<1>1. ASSUME NEW s \in Seq(Nat)
      PROVE  Len(s) \in Nat /\ DOMAIN s = 1 .. Len(s) /\ (\A j \in DOMAIN s : s[j] \in Nat)
             /\ (Len(s) = 1 /\ s[1] = 0 => s = <<0>>)
  OBVIOUS
<1>2. m.times \in Seq(Nat) /\ m.date \in Nat
  BY DEF Opening!IsMember
<1>3. Len(m.times) \in Nat /\ DOMAIN m.times = 1 .. Len(m.times) /\ \A j \in DOMAIN m.times : m.times[j] \in Nat
  BY <1>1, <1>2
<1>4. CASE m.dim = "time"
  <2>1. given = m.times
    BY <1>4 DEF Opening!_synthesize_member_time_coord
  <2>2. \A j \in DOMAIN m.times : m.times[j] # 0
    BY <1>4 DEF Opening!IsMember, Opening!None
  <2> QED
    BY <1>3, <2>1, <2>2 DEF Opening!Own, Opening!None
<1>5. CASE m.dim # "time"
  <2>1. Len(m.times) = 1 /\ DOMAIN m.times = 1 .. 1 /\ m.times[1] \in Nat
    BY <1>3, <1>5 DEF Opening!IsMember
  <2>2. CASE m.date = 0
    <3>1. given = <<0>>
      BY <1>5, <2>2 DEF Opening!_synthesize_member_time_coord, Opening!None
    <3>2. m.times[1] = 0
      BY <1>5, <2>2 DEF Opening!IsMember, Opening!None
    <3> QED
      BY <2>1, <2>2, <3>1, <3>2 DEF Opening!Own, Opening!None
  <2>3. CASE m.date # 0 /\ m.dim = "Time" /\ m.times # <<0>>
    <3>1. given = m.times
      BY <1>5, <2>3 DEF Opening!_synthesize_member_time_coord, Opening!None
    <3>2. m.times[1] # 0
      BY <1>1, <1>2, <2>1, <2>3
    <3>3. \A j \in DOMAIN m.times : j = 1 /\ Opening!Own(m, j) = m.times[1]
      BY <2>1, <3>2 DEF Opening!Own, Opening!None
    <3> QED
      BY <2>1, <3>1, <3>3
  <2>4. CASE m.date # 0 /\ ~(m.dim = "Time" /\ m.times # <<0>>)
    <3>1. given = <<m.date>>
      BY <1>5, <2>4 DEF Opening!_synthesize_member_time_coord, Opening!None
    <3>2. m.times[1] = 0
      BY <1>5, <2>1, <2>4 DEF Opening!IsMember, Opening!None
    <3> QED
      BY <1>2, <2>1, <3>1, <3>2 DEF Opening!Own, Opening!None
  <2> QED
    BY <2>2, <2>3, <2>4
<1> QED
  BY <1>4, <1>5 DEF given

\* A bundle's times by member, and its line of granules.
TimesOf(b) == [k \in DOMAIN b.members |-> Opening!_synthesize_member_time_coord(b.members[k])]
GranulesOf(b) == Opening!Granules(TimesOf(b))
InTime(b) == Len(b.members) > 1 /\ Opening!Timed(b)
Stood(b) == IF InTime(b) THEN Opening!First(GranulesOf(b), TimesOf(b)) ELSE GranulesOf(b)
LineOf(b) ==
    IF InTime(b) THEN Opening!_order_bundle_time(GranulesOf(b), TimesOf(b)) ELSE Opening!ByName(GranulesOf(b))

LEMMA GranuleLaws ==
    ASSUME NEW b, Opening!IsBundleCase(b)
    PROVE  /\ \A g : g \in GranulesOf(b) <=>
                  \E k \in DOMAIN b.members : \E j \in DOMAIN b.members[k].times : g = <<k, j>>
           /\ \A k \in DOMAIN b.members : \A j \in DOMAIN b.members[k].times :
                  /\ k \in Nat /\ j \in Nat /\ Opening!Own(b.members[k], j) \in Nat
                  /\ Opening!At(TimesOf(b), <<k, j>>) = Opening!Own(b.members[k], j)
           /\ IsFiniteSet(GranulesOf(b))
           /\ \E n \in Nat : DOMAIN b.members = 1 .. n
<1> DEFINE M == b.members
           T == TimesOf(b)
<1>1. PICK n \in Nat : DOMAIN M = 1 .. n
  <2>1. ASSUME NEW S, NEW s \in Seq(S) PROVE Len(s) \in Nat /\ DOMAIN s = 1 .. Len(s)
    OBVIOUS
  <2> QED
    BY <2>1 DEF Opening!IsBundleCase
<1>2. \A k \in DOMAIN M : Opening!IsMember(M[k])
  BY DEF Opening!IsBundleCase, Opening!Range
<1>3. DOMAIN T = 1 .. n /\ \A k \in 1 .. n : T[k] = Opening!_synthesize_member_time_coord(M[k])
  BY <1>1 DEF TimesOf
<1>4. \A k \in 1 .. n : /\ DOMAIN T[k] = DOMAIN M[k].times /\ \E l \in Nat : DOMAIN T[k] = 1 .. l
                        /\ \A j \in DOMAIN M[k].times : T[k][j] = Opening!Own(M[k], j) /\ T[k][j] \in Nat
  BY <1>1, <1>2, <1>3, MembersKeepTheirTimes
<1>5. GranulesOf(b) = UNION {{k} \X DOMAIN T[k] : k \in 1 .. n}
  BY <1>3 DEF GranulesOf, Opening!Granules
<1>6. \A g : g \in GranulesOf(b) <=> \E k \in DOMAIN M : \E j \in DOMAIN M[k].times : g = <<k, j>>
  BY <1>1, <1>4, <1>5
<1>7. IsFiniteSet(GranulesOf(b))
  <2> DEFINE part(k) == {k} \X DOMAIN T[k]
             parts == {part(k) : k \in 1 .. n}
  <2>1. \A k \in 1 .. n : IsFiniteSet(part(k))
    <3> TAKE k \in 1 .. n
    <3>1. PICK l \in Nat : DOMAIN T[k] = 1 .. l
      BY <1>4
    <3>2. IsFiniteSet(1 .. l) /\ IsFiniteSet({k})
      BY FS_Interval, FS_Singleton, 1 \in Int, l \in Int
    <3> QED
      BY <3>1, <3>2, FS_Product
  <2>2. IsFiniteSet(1 .. n)
    BY FS_Interval, 1 \in Int, n \in Int
  <2> HIDE DEF part
  <2>3. IsFiniteSet(parts)
    <3> DEFINE F == [k \in 1 .. n |-> part(k)]
    <3>1. parts = {F[k] : k \in 1 .. n} /\ DOMAIN F = 1 .. n
      OBVIOUS
    <3> HIDE DEF F, parts
    <3> QED
      BY <2>2, <3>1, FiniteImage
  <2>4. \A p \in parts : IsFiniteSet(p)
    BY <2>1
  <2> HIDE DEF parts
  <2>5. IsFiniteSet(UNION parts)
    BY <2>3, <2>4, FS_UNION
  <2> QED
    BY <1>5, <2>5 DEF parts, part
<1>8. ASSUME NEW k \in DOMAIN M, NEW j \in DOMAIN M[k].times
      PROVE  /\ k \in Nat /\ j \in Nat /\ Opening!Own(M[k], j) \in Nat
             /\ Opening!At(T, <<k, j>>) = Opening!Own(M[k], j)
  <2>1. Opening!At(T, <<k, j>>) = T[k][j]
    BY DEF Opening!At
  <2>2. k \in Nat /\ T[k][j] = Opening!Own(M[k], j) /\ T[k][j] \in Nat
    BY <1>1, <1>4
  <2>3. PICK l \in Nat : DOMAIN M[k].times = 1 .. l
    BY <1>1, <1>4
  <2> QED
    BY <2>1, <2>2, <2>3
<1> QED
  BY <1>1, <1>6, <1>7, <1>8

\* A bundle that is opened is its granules as they stand in line, each with the
\* time it is given.
LEMMA OpenedOrRefused ==
    ASSUME NEW b, Opening!IsBundleCase(b)
    PROVE  LET r == Opening!_open_netcdf_bundle(b, b.limit)
           IN  \/ r.error # "none" /\ r.granules = <<>>
               \/ /\ r.error = "none"
                  /\ r.granules = [i \in DOMAIN LineOf(b) |-> <<Opening!At(TimesOf(b), LineOf(b)[i]), LineOf(b)[i]>>]
<1> DEFINE r == Opening!_open_netcdf_bundle(b, b.limit)
           opened == Opening!_open_bundle_members_concurrently(b)
           times == [k \in DOMAIN opened |-> Opening!_synthesize_member_time_coord(opened[k])]
           axis == IF Len(opened) > 1 /\ Opening!Timed(b)
                   THEN Opening!_order_bundle_time(Opening!Granules(times), times)
                   ELSE Opening!ByName(Opening!Granules(times))
           why == IF b.members = <<>> THEN "empty"
                  ELSE IF ~Opening!_gate_bundle_size(b, b.limit) THEN "too_large"
                  ELSE IF opened = <<>> THEN "unreadable" ELSE "none"
<1>1. r = IF why = "none"
          THEN [error |-> "none", granules |-> [i \in DOMAIN axis |-> <<Opening!At(times, axis[i]), axis[i]>>]]
          ELSE Opening!Refused(why)
  BY DEF Opening!_open_netcdf_bundle
<1>2. CASE why # "none"
  BY <1>1, <1>2 DEF Opening!Refused
<1>3. CASE why = "none"
  <2>1. opened # <<>>
    BY <1>3
  <2>2. opened = b.members
    BY <2>1 DEF Opening!_open_bundle_members_concurrently
  <2>3. times = TimesOf(b)
    BY <2>2 DEF TimesOf
  <2>4. axis = LineOf(b)
    BY <2>2, <2>3 DEF LineOf, InTime, GranulesOf
  <2> HIDE DEF axis, times
  <2>5. r = [error |-> "none",
             granules |-> [i \in DOMAIN LineOf(b) |-> <<Opening!At(TimesOf(b), LineOf(b)[i]), LineOf(b)[i]>>]]
    BY <1>1, <1>3, <2>3, <2>4
  <2> QED
    BY <2>5
<1> QED
  BY <1>2, <1>3

\* The line of a bundle has every granule that stands in it once: each granule,
\* or the first of each time, those in time's order.
LEMMA LineLaws ==
    ASSUME NEW b, Opening!IsBundleCase(b)
    PROVE  \E N \in Nat :
               /\ DOMAIN LineOf(b) = 1 .. N
               /\ \A i \in 1 .. N : LineOf(b)[i] \in Stood(b)
               /\ \A g \in Stood(b) : \E i \in 1 .. N : LineOf(b)[i] = g
               /\ InTime(b) => \A i, j \in 1 .. N : i < j =>
                    Opening!At(TimesOf(b), LineOf(b)[i]) < Opening!At(TimesOf(b), LineOf(b)[j])
<1> DEFINE G == GranulesOf(b)
           S == Stood(b)
           at(g) == Opening!At(TimesOf(b), g)
           earlier == {p \in S \X S : Opening!Earlier(p[1], p[2])}
           sooner == {p \in S \X S : at(p[1]) < at(p[2])}
<1>1. S \in SUBSET G /\ IsFiniteSet(S)
  <2>1. S \in SUBSET G
    BY DEF Stood, Opening!First
  <2> HIDE DEF S, G
  <2>2. IsFiniteSet(G)
    BY GranuleLaws DEF G
  <2> QED
    BY <2>1, <2>2, FS_Subset
<1>2. \A g \in S : at(g) \in Nat /\ g[1] \in Nat /\ g[2] \in Nat /\ g = <<g[1], g[2]>>
  <2> TAKE g \in S
  <2>1. PICK k, j : k \in DOMAIN b.members /\ j \in DOMAIN b.members[k].times /\ g = <<k, j>>
    BY <1>1, GranuleLaws
  <2>2. at(<<k, j>>) \in Nat /\ k \in Nat /\ j \in Nat
    BY <2>1, GranuleLaws
  <2> QED
    BY <2>1, <2>2
<1>3. CASE InTime(b)
  <2>1. \A g, h \in S : at(g) = at(h) => ~Opening!Earlier(g, h) /\ ~Opening!Earlier(h, g)
    BY <1>1, <1>3 DEF Stood, Opening!First
  <2>2. LineOf(b) = Opening!InOrder(S, sooner)
    BY <1>3 DEF LineOf, Stood, Opening!_order_bundle_time, Opening!ByTime
  <2>3. ASSUME NEW g \in S, NEW h \in S PROVE <<g, h>> \in sooner <=> at(g) < at(h)
    OBVIOUS
  <2>4. \A g, h \in S : at(g) = at(h) => g = h
    BY <1>2, <2>1 DEF Opening!Earlier
  <2> HIDE DEF S, at, sooner
  <2>5. \A g \in S : <<g, g>> \notin sooner
    BY <1>2, <2>3
  <2>6. \A g, h, i \in S : <<g, h>> \in sooner /\ <<h, i>> \in sooner => <<g, i>> \in sooner
    BY <1>2, <2>3
  <2>7. \A g, h \in S : g # h => <<g, h>> \in sooner \/ <<h, g>> \in sooner
    BY <1>2, <2>3, <2>4
  <2>8. /\ Cardinality(S) \in Nat /\ DOMAIN LineOf(b) = 1 .. Cardinality(S)
        /\ \A i \in 1 .. Cardinality(S) : LineOf(b)[i] \in S
        /\ \A g \in S : \E i \in 1 .. Cardinality(S) : LineOf(b)[i] = g
        /\ \A i, j \in 1 .. Cardinality(S) : i < j => <<LineOf(b)[i], LineOf(b)[j]>> \in sooner
    BY <1>1, <2>2, <2>5, <2>6, <2>7, OrderLaws
  <2>9. \A i, j \in 1 .. Cardinality(S) : i < j => at(LineOf(b)[i]) < at(LineOf(b)[j])
    BY <2>3, <2>8
  <2> QED
    BY <2>8, <2>9 DEF S, at
<1>4. CASE ~InTime(b)
  <2>1. LineOf(b) = Opening!InOrder(S, earlier)
    BY <1>4 DEF LineOf, Stood, Opening!ByName
  <2>2. ASSUME NEW g \in S, NEW h \in S
        PROVE <<g, h>> \in earlier <=> g[1] < h[1] \/ (g[1] = h[1] /\ g[2] < h[2])
    BY DEF Opening!Earlier
  <2> HIDE DEF S, earlier
  <2>3. \A g \in S : <<g, g>> \notin earlier
    BY <1>2, <2>2
  <2>4. \A g, h, i \in S : <<g, h>> \in earlier /\ <<h, i>> \in earlier => <<g, i>> \in earlier
    BY <1>2, <2>2
  <2>5. \A g, h \in S : g # h => <<g, h>> \in earlier \/ <<h, g>> \in earlier
    <3> TAKE g, h \in S
    <3>1. g = <<g[1], g[2]>> /\ h = <<h[1], h[2]>> /\ g[1] \in Nat /\ g[2] \in Nat /\ h[1] \in Nat /\ h[2] \in Nat
      BY <1>2
    <3>2. g[1] = h[1] /\ g[2] = h[2] => g = h
      BY <3>1
    <3> QED
      BY <2>2, <3>1, <3>2
  <2>6. /\ Cardinality(S) \in Nat /\ DOMAIN LineOf(b) = 1 .. Cardinality(S)
        /\ \A i \in 1 .. Cardinality(S) : LineOf(b)[i] \in S
        /\ \A g \in S : \E i \in 1 .. Cardinality(S) : LineOf(b)[i] = g
    BY <1>1, <2>1, <2>3, <2>4, <2>5, OrderLaws
  <2> QED
    BY <1>4, <2>6 DEF S
<1> QED
  BY <1>3, <1>4

\* What the axis says of a place: a granule that stands there, at its own time.
LEMMA PlaceLaws ==
    ASSUME NEW b, Opening!IsBundleCase(b),
           NEW i \in DOMAIN Opening!_open_netcdf_bundle(b, b.limit).granules
    PROVE  LET r == Opening!_open_netcdf_bundle(b, b.limit).granules
           IN  /\ r[i] = <<Opening!At(TimesOf(b), LineOf(b)[i]), LineOf(b)[i]>> /\ i \in DOMAIN LineOf(b)
               /\ \E k \in DOMAIN b.members : \E j \in DOMAIN b.members[k].times :
                    LineOf(b)[i] = <<k, j>> /\ r[i] = <<Opening!Own(b.members[k], j), <<k, j>>>>
<1> DEFINE r == Opening!_open_netcdf_bundle(b, b.limit).granules
<1>1. r = [l \in DOMAIN LineOf(b) |-> <<Opening!At(TimesOf(b), LineOf(b)[l]), LineOf(b)[l]>>]
  <2>1. CASE r = <<>>
    <3>1. DOMAIN r = {}
      BY <2>1
    <3> QED
      BY <3>1
  <2> QED
    BY <2>1, OpenedOrRefused
<1>2. r[i] = <<Opening!At(TimesOf(b), LineOf(b)[i]), LineOf(b)[i]>> /\ i \in DOMAIN LineOf(b)
  BY <1>1
<1>3. LineOf(b)[i] \in GranulesOf(b)
  BY <1>2, LineLaws DEF Stood, Opening!First
<1>4. PICK k, j : k \in DOMAIN b.members /\ j \in DOMAIN b.members[k].times /\ LineOf(b)[i] = <<k, j>>
  BY <1>3, GranuleLaws
<1>5. Opening!At(TimesOf(b), <<k, j>>) = Opening!Own(b.members[k], j)
  BY <1>4, GranuleLaws
<1> QED
  BY <1>2, <1>4, <1>5

\* A granule stands at the time it states itself, for any bundle.
THEOREM GranulesAlwaysKeepTheirTimes ==
    ASSUME NEW b, Opening!IsBundleCase(b) PROVE Opening!GranulesKeepTheirTimes(b)
<1> DEFINE r == Opening!_open_netcdf_bundle(b, b.limit).granules
<1>1. ASSUME NEW g \in Opening!Range(r) PROVE g[1] = Opening!Own(b.members[g[2][1]], g[2][2])
  <2>1. PICK i \in DOMAIN r : g = r[i]
    BY DEF Opening!Range
  <2>2. PICK k, j : k \in DOMAIN b.members /\ j \in DOMAIN b.members[k].times /\ r[i] = <<Opening!Own(b.members[k], j), <<k, j>>>>
    BY PlaceLaws
  <2> HIDE DEF r
  <2>3. g[2] = <<k, j>> /\ g[1] = Opening!Own(b.members[k], j)
    BY <2>1, <2>2
  <2>4. g[2][1] = k /\ g[2][2] = j
    BY <2>3
  <2> QED
    BY <2>3, <2>4
<1> QED
  BY <1>1 DEF Opening!GranulesKeepTheirTimes

\* A bundle is delivered whole or refused, for any members.
THEOREM BundlesAlwaysWhole ==
    ASSUME NEW b, Opening!IsBundleCase(b) PROVE Opening!BundlesAreWholeOrRefused(b)
<1> DEFINE r == Opening!_open_netcdf_bundle(b, b.limit)
           M == b.members
           T == TimesOf(b)
<1> SUFFICES ASSUME r.error = "none", NEW k \in DOMAIN M, NEW j \in DOMAIN M[k].times
             PROVE  \E g \in Opening!Range(r.granules) : g[1] = Opening!Own(M[k], j)
  BY DEF Opening!BundlesAreWholeOrRefused
<1> DEFINE own == Opening!Own(M[k], j)
           same == {g \in GranulesOf(b) : Opening!At(T, g) = own}
<1>1. r.granules = [i \in DOMAIN LineOf(b) |-> <<Opening!At(T, LineOf(b)[i]), LineOf(b)[i]>>]
  BY OpenedOrRefused
<1>2. <<k, j>> \in same
  BY GranuleLaws
<1>3. \E g \in Stood(b) : Opening!At(T, g) = own
  <2>1. CASE ~InTime(b)
    BY <1>2, <2>1 DEF Stood
  <2>2. CASE InTime(b)
    <3> DEFINE earlier == {p \in same \X same : Opening!Earlier(p[1], p[2])}
    <3>1. IsFiniteSet(same)
      <4>1. same \in SUBSET GranulesOf(b)
        OBVIOUS
      <4> HIDE DEF same
      <4> QED
        BY <4>1, GranuleLaws, FS_Subset
    <3>2. \A g \in same : g[1] \in Nat /\ g[2] \in Nat
      <4> TAKE g \in same
      <4>1. PICK l, m : l \in DOMAIN M /\ m \in DOMAIN M[l].times /\ g = <<l, m>>
        BY GranuleLaws
      <4>2. l \in Nat /\ m \in Nat
        BY <4>1, GranuleLaws
      <4> QED
        BY <4>1, <4>2
    <3>3. ASSUME NEW g \in same, NEW h \in same
          PROVE  /\ <<g, h>> \in earlier <=> Opening!Earlier(g, h)
                 /\ <<g, h>> \in earlier <=> g[1] < h[1] \/ (g[1] = h[1] /\ g[2] < h[2])
      BY DEF Opening!Earlier
    <3> HIDE DEF same, earlier
    <3>4. /\ \A g \in same : <<g, g>> \notin earlier
          /\ \A g, h, i \in same : <<g, h>> \in earlier /\ <<h, i>> \in earlier => <<g, i>> \in earlier
      BY <3>2, <3>3
    <3>5. PICK g \in same : \A h \in same : <<h, g>> \notin earlier
      BY <1>2, <3>1, <3>4, Bottom
    <3>6. \A h \in same : ~Opening!Earlier(h, g)
      BY <3>3, <3>5
    <3>7. g \in Opening!First(GranulesOf(b), T)
      BY <3>6 DEF same, Opening!First
    <3> QED
      BY <2>2, <3>7 DEF Stood, same
  <2> QED
    BY <2>1, <2>2
<1>4. PICK g \in Stood(b) : Opening!At(T, g) = own
  BY <1>3
<1>5. PICK i \in DOMAIN LineOf(b) : LineOf(b)[i] = g
  BY LineLaws
<1>6. r.granules[i] = <<own, g>> /\ i \in DOMAIN r.granules
  BY <1>1, <1>4, <1>5
<1>7. r.granules[i] \in Opening!Range(r.granules)
  BY <1>6 DEF Opening!Range
<1>8. r.granules[i][1] = own
  BY <1>6
<1> QED
  BY <1>7, <1>8

\* The axis of several granules that have times ascends, and of granules of one
\* time it has the first by name, for any members.
THEOREM AxesAreAlwaysOrdered ==
    ASSUME NEW b, Opening!IsBundleCase(b) PROVE Opening!AxisIsOrdered(b)
<1> DEFINE r == Opening!_open_netcdf_bundle(b, b.limit).granules
           T == TimesOf(b)
           line == LineOf(b)
<1> SUFFICES ASSUME InTime(b)
             PROVE  /\ \A i, j \in DOMAIN r : i < j => r[i][1] < r[j][1]
                    /\ \A i \in DOMAIN r : \A k \in 1 .. (r[i][2][1] - 1) :
                         \A t \in DOMAIN b.members[k].times : Opening!Own(b.members[k], t) # r[i][1]
  BY DEF Opening!AxisIsOrdered, InTime
<1>1. \A i \in DOMAIN r : r[i][1] = Opening!At(T, line[i]) /\ r[i][2] = line[i] /\ i \in DOMAIN line
  BY PlaceLaws
<1> HIDE DEF r, line, T
<1>2. ASSUME NEW i \in DOMAIN r, NEW j \in DOMAIN r, i < j PROVE r[i][1] < r[j][1]
  <2>1. Opening!At(T, line[i]) < Opening!At(T, line[j])
    BY <1>1, <1>2, LineLaws DEF line, T
  <2> QED
    BY <1>1, <2>1
<1>3. ASSUME NEW i \in DOMAIN r, NEW k \in 1 .. (r[i][2][1] - 1), NEW t \in DOMAIN b.members[k].times
      PROVE  Opening!Own(b.members[k], t) # r[i][1]
  <2>1. PICK l, m : l \in DOMAIN b.members /\ m \in DOMAIN b.members[l].times /\ line[i] = <<l, m>>
    BY PlaceLaws DEF r, line
  <2>2. PICK n \in Nat : DOMAIN b.members = 1 .. n
    BY GranuleLaws
  <2>3. r[i][2][1] = l /\ line[i][1] = l
    BY <1>1, <2>1
  <2>4. k \in DOMAIN b.members /\ k < l
    BY <2>1, <2>2, <2>3
  <2> DEFINE h == <<k, t>>
  <2>5. h \in GranulesOf(b) /\ Opening!At(T, h) = Opening!Own(b.members[k], t)
    BY <2>4, GranuleLaws DEF T
  <2>6. Opening!Earlier(h, line[i])
    BY <2>3, <2>4 DEF Opening!Earlier
  <2>7. line[i] \in Opening!First(GranulesOf(b), T)
    <3>1. line[i] \in Stood(b)
      BY <1>1, LineLaws DEF line
    <3> QED
      BY <3>1 DEF Stood, T
  <2> HIDE DEF h
  <2>8. Opening!At(T, h) # Opening!At(T, line[i])
    BY <2>5, <2>6, <2>7 DEF Opening!First
  <2> QED
    BY <1>1, <2>5, <2>8
<1> QED
  BY <1>2, <1>3

\* A table of the products of f over the subsets of S.
ProductsOf(S, f, g) == [s \in SUBSET S |-> IF s = {} THEN 1 ELSE g[s \ {Pick(s)}] * f[Pick(s)]]

\* The table exists.
LEMMA ProductsExist ==
    ASSUME NEW S, IsFiniteSet(S), NEW f \in [S -> Nat]
    PROVE  \E g : g = ProductsOf(S, f, g)
<1> DEFINE X == SUBSET S
           stop == {{}}
           start == [s \in X |-> 1]
           factor == [p \in X \X Nat |-> IF p[1] = {} THEN 1 ELSE p[2] * f[Pick(p[1])]]
           size == [s \in X |-> Cardinality(s)]
           next == [s \in X |-> s \ {Pick(s)}]
<1>1. start \in [X -> Nat] /\ size \in [X -> Nat]
  BY FS_Subset, FS_CardinalityType
<1>2. factor \in [X \X Nat -> Nat]
  <2>1. \A m, n \in Nat : m * n \in Nat
    OBVIOUS
  <2>2. \A p \in X \X Nat : p[1] # {} => f[Pick(p[1])] \in Nat /\ p[2] \in Nat
    BY DEF Pick
  <2>3. \A p \in X \X Nat : (IF p[1] = {} THEN 1 ELSE p[2] * f[Pick(p[1])]) \in Nat
    BY <2>1, <2>2
  <2> QED
    BY <2>3
<1>3. \A s \in X \ stop : next[s] \in X /\ size[next[s]] < size[s]
  BY PickLaws
<1>4. \A s \in X, v \in Nat : s # {} => factor[<<s, v>>] = v * f[Pick(s)]
  OBVIOUS
<1>5. \A s \in X : s # {} => next[s] = s \ {Pick(s)} /\ next[s] \in X
  OBVIOUS
<1>6. \A s : s \in stop <=> s = {}
  OBVIOUS
<1>7. \A s \in X : start[s] = 1
  OBVIOUS
<1> HIDE DEF start, factor, size, next, X, stop
<1>8. PICK g \in [X -> Nat] : g = Recursion(X, stop, start, factor, next, g)
  <2>1. HasResults(X, Nat, stop, start, factor, next)
    BY <1>1, <1>2, <1>3, RecursionsExist
  <2> QED
    BY <2>1 DEF HasResults
<1>9. \A s \in X : g[s] = IF s \in stop THEN start[s] ELSE factor[<<s, g[next[s]]>>]
  BY <1>8 DEF Recursion
<1>10. \A s \in X : g[s] = IF s = {} THEN 1 ELSE g[s \ {Pick(s)}] * f[Pick(s)]
  <2> TAKE s \in X
  <2>1. CASE s = {}
    BY <1>6, <1>7, <1>9, <2>1
  <2>2. CASE s # {}
    <3>1. g[s] = factor[<<s, g[next[s]]>>]
      BY <1>6, <1>9, <2>2
    <3>2. g[next[s]] \in Nat /\ next[s] = s \ {Pick(s)}
      BY <1>5, <2>2
    <3> QED
      BY <1>4, <2>2, <3>1, <3>2
  <2> QED
    BY <2>1, <2>2
<1>11. g = ProductsOf(S, f, g)
  BY <1>8, <1>10 DEF ProductsOf, X
<1> QED
  BY <1>11

\* And what it says is a natural number.
LEMMA ProductsAreNatural ==
    ASSUME NEW S, IsFiniteSet(S), NEW f, \A d \in S : f[d] \in Nat, NEW g, g = ProductsOf(S, f, g)
    PROVE  \A s \in SUBSET S : g[s] \in Nat
<1> DEFINE bad == {s \in SUBSET S : g[s] \notin Nat}
<1>1. \A s \in SUBSET S : /\ g[s] = IF s = {} THEN 1 ELSE g[s \ {Pick(s)}] * f[Pick(s)]
                          /\ s # {} => Pick(s) \in s /\ f[Pick(s)] \in Nat
  BY DEF ProductsOf, Pick
<1>2. ASSUME NEW s \in bad, s # {} PROVE s \ {Pick(s)} \in bad /\ Pick(s) \in s
  <2>1. s \in SUBSET S /\ s \ {Pick(s)} \in SUBSET S /\ g[s] \notin Nat
    OBVIOUS
  <2>2. g[s] = g[s \ {Pick(s)}] * f[Pick(s)] /\ f[Pick(s)] \in Nat /\ Pick(s) \in s
    BY <1>1, <1>2, <2>1
  <2>3. ASSUME g[s \ {Pick(s)}] \in Nat PROVE FALSE
    <3>1. \A m, n \in Nat : m * n \in Nat
      OBVIOUS
    <3> QED
      BY <2>1, <2>2, <2>3, <3>1
  <2> QED
    BY <2>1, <2>2, <2>3
<1>3. {} \notin bad /\ bad \in SUBSET SUBSET S
  <2>1. g[{}] = 1
    BY <1>1
  <2> QED
    BY <2>1
<1> HIDE DEF bad
<1>4. \A s \in bad : s # {} => \E x \in s : s \ {x} \in bad
  BY <1>2
<1>5. bad = {}
  BY <1>3, <1>4, Shrinking
<1> QED
  BY <1>5 DEF bad

\* A product one of whose factors falls to a third at least falls to a third at
\* least.
LEMMA ProductsFallTogether ==
    ASSUME NEW S, IsFiniteSet(S), NEW old, NEW new, \A d \in S : old[d] \in Nat /\ new[d] \in Nat,
           NEW w, \A d \in S : d # w => new[d] = old[d], w \in S => old[w] <= 3 * new[w],
           NEW g, g = ProductsOf(S, old, g), NEW h, h = ProductsOf(S, new, h)
    PROVE  g[S] <= 3 * h[S]
<1> DEFINE fine(s) == g[s] <= 3 * h[s] /\ (w \notin s => g[s] = h[s])
           bad == {s \in SUBSET S : ~fine(s)}
<1>1. \A s \in SUBSET S : g[s] \in Nat /\ h[s] \in Nat
  BY ProductsAreNatural
<1>2. \A s \in SUBSET S : /\ g[s] = IF s = {} THEN 1 ELSE g[s \ {Pick(s)}] * old[Pick(s)]
                          /\ h[s] = IF s = {} THEN 1 ELSE h[s \ {Pick(s)}] * new[Pick(s)]
                          /\ s # {} => Pick(s) \in s
  BY DEF ProductsOf, Pick
<1>3. \A m, n, p \in Nat : m <= 3 * n => m * p <= 3 * (n * p)
  <2> TAKE m, n, p \in Nat
  <2> HAVE m <= 3 * n
  <2>1. \A a, b, c \in Nat : a <= b => a * c <= b * c
    OBVIOUS
  <2>2. m * p <= (3 * n) * p
    <3> DEFINE q == 3 * n
    <3>1. q \in Nat /\ m <= q
      OBVIOUS
    <3> HIDE DEF q
    <3>2. m * p <= q * p
      BY <2>1, <3>1
    <3> QED
      BY <3>2 DEF q
  <2>3. (3 * n) * p = 3 * (n * p)
    OBVIOUS
  <2> QED
    BY <2>2, <2>3
<1>4. ASSUME NEW s \in SUBSET S, s # {}, fine(s \ {Pick(s)}) PROVE fine(s)
  <2> DEFINE r == s \ {Pick(s)}
             x == Pick(s)
  <2>1. x \in s /\ x \in S /\ r \in SUBSET S /\ g[s] = g[r] * old[x] /\ h[s] = h[r] * new[x]
    BY <1>2, <1>4
  <2>2. g[r] \in Nat /\ h[r] \in Nat /\ old[x] \in Nat /\ new[x] \in Nat
    BY <1>1, <2>1
  <2>3. g[r] <= 3 * h[r] /\ (w \notin r => g[r] = h[r])
    BY <1>4
  <2>4. w \notin s => w \notin r
    OBVIOUS
  <2>5. x = w => w \notin r
    OBVIOUS
  <2> HIDE DEF r, x
  <2>6. CASE x = w
    <3>1. g[r] = h[r] /\ old[x] <= 3 * new[x] /\ w \in s
      BY <2>1, <2>3, <2>5, <2>6
    <3>2. old[x] * g[r] <= 3 * (new[x] * g[r])
      BY <1>3, <2>2, <3>1
    <3>3. old[x] * g[r] = g[r] * old[x] /\ new[x] * g[r] = g[r] * new[x]
      BY <2>2
    <3>4. g[s] <= 3 * h[s]
      BY <2>1, <3>1, <3>2, <3>3
    <3> QED
      BY <3>1, <3>4
  <2>7. CASE x # w
    <3>1. new[x] = old[x]
      BY <2>1, <2>7
    <3>2. g[r] * old[x] <= 3 * (h[r] * old[x])
      BY <1>3, <2>2, <2>3
    <3>3. w \notin s => g[s] = h[s]
      BY <2>1, <2>3, <2>4, <3>1
    <3> QED
      BY <2>1, <3>1, <3>2, <3>3
  <2> QED
    BY <2>6, <2>7
<1>5. fine({})
  <2>1. g[{}] = 1 /\ h[{}] = 1
    BY <1>2
  <2> QED
    BY <2>1
<1>6. {} \notin bad /\ bad \in SUBSET SUBSET S
  BY <1>5
<1>7. \A s \in bad : s # {} => \E x \in s : s \ {x} \in bad
  <2> TAKE s \in bad
  <2> HAVE s # {}
  <2>1. s \in SUBSET S /\ ~fine(s) /\ s \ {Pick(s)} \in SUBSET S
    OBVIOUS
  <2> HIDE DEF fine
  <2>2. ~fine(s \ {Pick(s)})
    BY <1>4, <2>1
  <2> QED
    BY <1>2, <2>1, <2>2
<1> HIDE DEF bad, fine
<1>8. bad = {}
  BY <1>6, <1>7, Shrinking
<1> QED
  BY <1>8 DEF bad, fine

\* The cells of a variable are the product of its lengths.
LEMMA CellsAreAProduct ==
    ASSUME NEW spec, NEW v, IsFiniteSet(DOMAIN v.chunk), \A d \in DOMAIN v.chunk : spec[d] \in Nat
    PROVE  \E g : g = ProductsOf(DOMAIN v.chunk, spec, g) /\ Opening!Cells(spec, v) = g[DOMAIN v.chunk]
<1> DEFINE E == DOMAIN v.chunk
           f == [d \in E |-> spec[d]]
           Products(g) == [s \in SUBSET E |->
                              IF s = {} THEN 1
                              ELSE LET x == CHOOSE x \in s : TRUE
                                   IN  g[s \ {x}] * spec[x]]
           products == CHOOSE g : g = Products(g)
<1>1. \A g : Products(g) = ProductsOf(E, spec, g) /\ Products(g) = ProductsOf(E, f, g)
  <2>1. \A s \in SUBSET E : s # {} => f[Pick(s)] = spec[Pick(s)]
    BY DEF Pick
  <2> HIDE DEF E, f
  <2> QED
    BY <2>1 DEF ProductsOf, Pick
<1>2. f \in [E -> Nat] /\ IsFiniteSet(E)
  OBVIOUS
<1>3. Opening!Cells(spec, v) = products[E]
  BY Zenon DEF Opening!Cells, Opening!FoldSet, Opening!MapThenFoldSet, products, Products, E
<1> HIDE DEF E, f, Products
<1>4. \E g : g = Products(g)
  BY <1>1, <1>2, ProductsExist
<1>5. products = Products(products)
  BY <1>4
<1> HIDE DEF products
<1> QED
  BY <1>1, <1>3, <1>5 DEF E

\* The chunks the variables are merged to are whole, and no cell is wider than
\* eight bytes.
LEMMA MergeLaws ==
    ASSUME NEW c, Opening!IsChunkCase(c)
    PROVE  LET M == Opening!Merge(c.vars)
           IN  /\ IsFiniteSet(DOMAIN M) /\ DOMAIN M # {} /\ M \in [DOMAIN M -> Nat \ {0}]
               /\ \A v \in c.vars : IsFiniteSet(DOMAIN v.chunk) /\ DOMAIN v.chunk \in SUBSET DOMAIN M
               /\ IsFiniteSet(c.vars) /\ c.vars # {} /\ c.limit \in Nat
               /\ Opening!Itemsize(c.vars) = 8
<1> DEFINE V == c.vars
           M == Opening!Merge(V)
           D == UNION {DOMAIN v.chunk : v \in V}
           lengths(d) == {v.chunk[d] : v \in {w \in V : d \in DOMAIN w.chunk}}
<1>1. /\ IsFiniteSet(V) /\ c.limit \in Nat
      /\ \A v \in V : /\ v.itemsize \in 1 .. 8 /\ IsFiniteSet(DOMAIN v.chunk)
                      /\ v.chunk \in [DOMAIN v.chunk -> Nat \ {0}]
      /\ \E v \in V : DOMAIN v.chunk # {}
  BY OpeningSame DEF Opening!IsChunkCase, Opening!_WIDEST_WORKING_ITEMSIZE
<1>2. DOMAIN M = D /\ \A d \in D : M[d] = Max(lengths(d))
  <2>1. M = [d \in D |-> Opening!Max(lengths(d))]
    BY DEF Opening!Merge
  <2>2. \A S : Opening!Max(S) = Max(S)
    BY OpeningSame
  <2> HIDE DEF M, D, lengths
  <2> QED
    BY <2>1, <2>2
<1>3. IsFiniteSet(D) /\ D # {}
  <2> DEFINE parts == {DOMAIN v.chunk : v \in V}
             F == [v \in V |-> DOMAIN v.chunk]
  <2>1. parts = {F[v] : v \in V} /\ \A p \in parts : IsFiniteSet(p)
    BY <1>1
  <2>2. D = UNION parts /\ D # {}
    BY <1>1
  <2> HIDE DEF parts, F, D
  <2>3. IsFiniteSet(parts)
    BY <1>1, <2>1, FiniteImage
  <2> QED
    BY <2>1, <2>2, <2>3, FS_UNION
<1>4. ASSUME NEW d \in D PROVE M[d] \in Nat \ {0}
  <2> DEFINE W == {w \in V : d \in DOMAIN w.chunk}
             F == [v \in W |-> v.chunk[d]]
             L == lengths(d)
  <2>1. W \in SUBSET V
    OBVIOUS
  <2>2. L = {F[v] : v \in W} /\ L # {} /\ L \in SUBSET Int /\ \A x \in L : x \in Nat \ {0}
    <3>1. L = {F[v] : v \in W}
      OBVIOUS
    <3>2. \A v \in W : v.chunk[d] \in Nat \ {0}
      BY <1>1
    <3>3. \A x \in L : x \in Nat \ {0}
      BY <3>2
    <3>4. L # {}
      OBVIOUS
    <3> HIDE DEF L, F, W
    <3>5. L \in SUBSET Int
      BY <3>3
    <3> QED
      BY <3>1, <3>3, <3>4, <3>5
  <2>3. M[d] = Max(L)
    BY <1>2
  <2> HIDE DEF W, F, L
  <2>4. IsFiniteSet(L)
    <3>1. IsFiniteSet(W)
      BY <1>1, <2>1, FS_Subset
    <3> QED
      BY <2>2, <3>1, FiniteImage
  <2>5. Max(L) \in L
    BY <2>2, <2>4, Extremes
  <2> QED
    BY <2>2, <2>3, <2>5
<1>5. \A v \in V : DOMAIN v.chunk \in SUBSET D
  OBVIOUS
<1>6. Opening!Itemsize(V) = 8
  <2> DEFINE F == [v \in V |-> v.itemsize]
             I == {F[v] : v \in V} \cup {8}
  <2>1. {F[v] : v \in V} = {v.itemsize : v \in V}
    OBVIOUS
  <2>2. Opening!Itemsize(V) = Max(I)
    BY <2>1, OpeningSame DEF Opening!Itemsize, Opening!_WIDEST_WORKING_ITEMSIZE
  <2>3. I \in SUBSET Int /\ I # {} /\ 8 \in I /\ \A x \in I : x <= 8
    <3>1. \A v \in V : F[v] \in 1 .. 8
      BY <1>1
    <3>2. ASSUME NEW x \in I PROVE x \in 1 .. 8
      <4>1. x = 8 \/ \E v \in V : x = F[v]
        OBVIOUS
      <4> HIDE DEF F
      <4> QED
        BY <3>1, <4>1
    <3>3. 8 \in I
      OBVIOUS
    <3> HIDE DEF I
    <3> QED
      BY <3>2, <3>3
  <2>4. IsFiniteSet(I)
    <3> DEFINE J == {F[v] : v \in V}
    <3>1. IsFiniteSet(J)
      <4> HIDE DEF F
      <4> QED
        BY <1>1, FiniteImage
    <3> HIDE DEF J
    <3>2. IsFiniteSet(J \cup {8})
      BY <3>1, FS_AddElement
    <3> QED
      BY <3>2 DEF J
  <2> HIDE DEF I
  <2>5. Max(I) \in I /\ \A x \in I : x <= Max(I)
    BY <2>3, <2>4, Extremes
  <2>6. Max(I) \in Int /\ 8 <= Max(I) /\ Max(I) <= 8
    BY <2>3, <2>5
  <2>7. Max(I) = 8
    BY <2>6
  <2> QED
    BY <2>2, <2>7
<1>7. M = [d \in DOMAIN M |-> M[d]]
  BY DEF Opening!Merge
<1>8. V # {}
  BY <1>1
<1> HIDE DEF M, D
<1>9. M \in [DOMAIN M -> Nat \ {0}]
  BY <1>2, <1>4, <1>7
<1> QED
  BY <1>1, <1>2, <1>3, <1>5, <1>6, <1>8, <1>9 DEF M

\* The widest chunk of any variable is as wide as some variable's and no other's
\* is wider.
LEMMA WorstLaws ==
    ASSUME NEW c, Opening!IsChunkCase(c), NEW spec \in [DOMAIN Opening!Merge(c.vars) -> Nat]
    PROVE  LET worst == Opening!worst_bytes(spec, c.vars)
           IN  /\ worst = Opening!Max({Opening!Cells(spec, v) * 8 : v \in c.vars})
               /\ worst \in Nat
               /\ \A v \in c.vars : Opening!Cells(spec, v) \in Nat /\ Opening!Cells(spec, v) * 8 <= worst
               /\ \E v \in c.vars : worst = Opening!Cells(spec, v) * 8
<1> DEFINE V == c.vars
           worst == Opening!worst_bytes(spec, V)
           F == [v \in V |-> Opening!Cells(spec, v) * 8]
           W == {Opening!Cells(spec, v) * 8 : v \in V}
<1>1. ASSUME NEW v \in V PROVE Opening!Cells(spec, v) \in Nat
  <2> DEFINE E == DOMAIN v.chunk
  <2>1. IsFiniteSet(E) /\ E \in SUBSET DOMAIN Opening!Merge(V)
    BY MergeLaws
  <2>2. \A d \in E : spec[d] \in Nat
    BY <2>1
  <2> HIDE DEF E
  <2>3. PICK g : g = ProductsOf(E, spec, g) /\ Opening!Cells(spec, v) = g[E]
    BY <2>1, <2>2, CellsAreAProduct DEF E
  <2>4. E \in SUBSET E
    OBVIOUS
  <2> QED
    BY <2>1, <2>2, <2>3, <2>4, ProductsAreNatural
<1>2. worst = Opening!Max(W)
  BY MergeLaws DEF Opening!worst_bytes
<1>3. W \in SUBSET Int /\ W # {} /\ W \in SUBSET Nat
  BY <1>1, MergeLaws
<1>4. IsFiniteSet(W)
  <2>1. W = {F[v] : v \in V}
    OBVIOUS
  <2> HIDE DEF W, F
  <2> QED
    BY <2>1, MergeLaws, FiniteImage
<1>5. \A v \in V : Opening!Cells(spec, v) * 8 \in W
  OBVIOUS
<1>6. \A x \in W : \E v \in V : x = Opening!Cells(spec, v) * 8
  OBVIOUS
<1> HIDE DEF W
<1>7. Opening!Max(W) \in W /\ \A x \in W : x <= Opening!Max(W)
  BY <1>3, <1>4, Extremes, OpeningSame
<1> QED
  BY <1>1, <1>2, <1>3, <1>5, <1>6, <1>7 DEF W

\* Where one length falls to a third at least, so does the widest chunk.
LEMMA WorstFallsSlowly ==
    ASSUME NEW c, Opening!IsChunkCase(c),
           NEW old \in [DOMAIN Opening!Merge(c.vars) -> Nat], NEW new \in [DOMAIN Opening!Merge(c.vars) -> Nat],
           NEW w \in DOMAIN Opening!Merge(c.vars), old[w] <= 3 * new[w],
           \A d \in DOMAIN Opening!Merge(c.vars) : d # w => new[d] = old[d]
    PROVE  Opening!worst_bytes(old, c.vars) <= 3 * Opening!worst_bytes(new, c.vars)
<1>1. PICK v \in c.vars : Opening!worst_bytes(old, c.vars) = Opening!Cells(old, v) * 8
  BY WorstLaws
<1> DEFINE E == DOMAIN v.chunk
<1>2. IsFiniteSet(E) /\ E \in SUBSET DOMAIN Opening!Merge(c.vars)
  BY MergeLaws
<1>3. /\ \A d \in E : old[d] \in Nat /\ new[d] \in Nat
      /\ \A d \in E : d # w => new[d] = old[d]
  BY <1>2
<1>4. PICK g : g = ProductsOf(E, old, g) /\ Opening!Cells(old, v) = g[E]
  BY <1>2, <1>3, CellsAreAProduct
<1>5. PICK h : h = ProductsOf(E, new, h) /\ Opening!Cells(new, v) = h[E]
  BY <1>2, <1>3, CellsAreAProduct
<1> HIDE DEF E
<1>6. Opening!Cells(old, v) <= 3 * Opening!Cells(new, v)
  BY <1>2, <1>3, <1>4, <1>5, ProductsFallTogether
<1>7. /\ Opening!Cells(old, v) \in Nat /\ Opening!Cells(new, v) \in Nat
      /\ Opening!Cells(new, v) * 8 <= Opening!worst_bytes(new, c.vars)
      /\ Opening!worst_bytes(new, c.vars) \in Nat
  BY WorstLaws
<1> QED
  BY <1>1, <1>6, <1>7

\* No length is longer than that of the widest dimension.
LEMMA WidestLaws ==
    ASSUME NEW D, IsFiniteSet(D), D # {}, NEW spec \in [D -> Nat]
    PROVE  Opening!Widest(spec) \in D /\ \A e \in D : spec[e] <= spec[Opening!Widest(spec)]
<1> DEFINE L == {spec[d] : d \in D}
<1>1. L \in SUBSET Int /\ L # {}
  OBVIOUS
<1>2. IsFiniteSet(L)
  BY FiniteImage
<1>3. \A d \in D : spec[d] \in L
  OBVIOUS
<1>4. \A x \in L : \E d \in D : spec[d] = x
  OBVIOUS
<1> HIDE DEF L
<1>5. Max(L) \in L /\ \A x \in L : x <= Max(L)
  BY <1>1, <1>2, Extremes
<1>6. \E d \in D : \A e \in D : spec[e] <= spec[d]
  BY <1>3, <1>4, <1>5
<1> QED
  BY <1>6 DEF Opening!Widest

\* The chunks with the widest dimension's halved.
Halve(spec) == [spec EXCEPT ![Opening!Widest(spec)] = @ \div 2]
Settled(c, spec) == Opening!worst_bytes(spec, c.vars) <= c.limit \/ spec[Opening!Widest(spec)] <= 1

\* Halving a length above one: it falls, to a third at the least, and so does the
\* sum of all.
LEMMA HalveLaws ==
    ASSUME NEW D, IsFiniteSet(D), D # {}, NEW spec \in [D -> Nat], ~(spec[Opening!Widest(spec)] <= 1)
    PROVE  /\ Halve(spec) \in [D -> Nat]
           /\ spec[Opening!Widest(spec)] <= 3 * Halve(spec)[Opening!Widest(spec)]
           /\ \A d \in D : d # Opening!Widest(spec) => Halve(spec)[d] = spec[d]
           /\ (\A d \in D : spec[d] # 0) => \A d \in D : Halve(spec)[d] # 0
           /\ TotalOf(Halve(spec), D) < TotalOf(spec, D)
<1> DEFINE w == Opening!Widest(spec)
           new == Halve(spec)
           R == D \ {w}
<1>1. w \in D /\ ~(spec[w] <= 1)
  BY WidestLaws
<1>2. new = [spec EXCEPT ![w] = spec[w] \div 2]
  BY DEF Halve
<1>3. \A x \in Nat : ~(x <= 1) => x \div 2 \in Nat /\ x \div 2 # 0 /\ x \div 2 < x /\ x <= 3 * (x \div 2)
  OBVIOUS
<1>4. spec[w] \in Nat /\ spec \in [D -> Int]
  BY <1>1
<1> HIDE DEF w, new
<1>5. /\ new \in [D -> Nat] /\ new[w] = spec[w] \div 2 /\ \A d \in D : d # w => new[d] = spec[d]
      /\ new[w] # 0 /\ new[w] < spec[w] /\ spec[w] <= 3 * new[w] /\ new[w] \in Nat
  BY <1>1, <1>2, <1>3, <1>4
<1>6. TotalOf(new, D) < TotalOf(spec, D)
  <2>1. D \in SUBSET D /\ R \in SUBSET D /\ new \in [D -> Int] /\ \A d \in R : new[d] = spec[d]
    BY <1>5
  <2>2. TotalOf(new, D) = new[w] + TotalOf(new, R) /\ TotalOf(spec, D) = spec[w] + TotalOf(spec, R)
    BY <1>1, <1>4, <2>1, TotalStep
  <2> HIDE DEF R
  <2>3. IsFiniteSet(R)
    BY <2>1, FS_Subset
  <2>4. TotalOf(new, R) = TotalOf(spec, R)
    BY <1>4, <2>1, <2>3, TotalsEqual
  <2>5. TotalOf(spec, R) \in Int
    BY <1>4, <2>1, <2>3, TotalIsWhole
  <2> QED
    BY <1>4, <1>5, <2>2, <2>4, <2>5
<1> QED
  BY <1>5, <1>6 DEF w, new

\* A sum of natural numbers is one.
LEMMA TotalsAreNatural ==
    ASSUME NEW D, IsFiniteSet(D), NEW f \in [D -> Nat]
    PROVE  TotalOf(f, D) \in Nat
<1>1. f \in [D -> Int] /\ D \in SUBSET D
  OBVIOUS
<1>2. TotalOf(f, D) \in Int
  BY <1>1, TotalIsWhole
<1>3. \A x \in D : 0 * f[x] + 0 <= 1 * f[x]
  OBVIOUS
<1>4. 0 * TotalOf(f, D) + 0 * Cardinality(D) <= 1 * TotalOf(f, D)
  BY <1>1, <1>3, TotalsCompare, 0 \in Int, 1 \in Int
<1> QED
  BY <1>2, <1>4, FS_CardinalityType

\* The chunks for a ceiling are those that halving settles on: settled, whole, and
\* once anything was halved not much narrower than the ceiling.
LEMMA HalvingSettles ==
    ASSUME NEW c, Opening!IsChunkCase(c)
    PROVE  LET M == Opening!Merge(c.vars)
               spec == Opening!_chunk_ceiling_spec(c.vars, c.limit)
           IN  /\ spec \in [DOMAIN M -> Nat \ {0}] /\ Settled(c, spec)
               /\ spec = M \/ 3 * Opening!worst_bytes(spec, c.vars) > c.limit
<1> DEFINE V == c.vars
           M == Opening!Merge(V)
           D == DOMAIN M
           X == [D -> Nat]
           stop == {x \in X : Settled(c, x)}
           start == [x \in X |-> x]
           last == [p \in X \X X |-> p[2]]
           size == [x \in X |-> TotalOf(x, D)]
           next == [x \in X |-> Halve(x)]
           Halved(g) == [x \in X |-> IF Opening!worst_bytes(x, V) <= c.limit \/ x[Opening!Widest(x)] <= 1 THEN x
                                     ELSE g[[x EXCEPT ![Opening!Widest(x)] = @ \div 2]]]
           halved == CHOOSE g : g = Halved(g)
           worst(x) == Opening!worst_bytes(x, V)
<1>1. IsFiniteSet(D) /\ D # {} /\ M \in [D -> Nat \ {0}] /\ c.limit \in Nat
  BY MergeLaws
<1>2. Opening!_chunk_ceiling_spec(V, c.limit) = halved[M]
  BY Zenon DEF Opening!_chunk_ceiling_spec, halved, Halved, X, D, M
<1>3. \A g : Halved(g) = [x \in X |-> IF Settled(c, x) THEN x ELSE g[Halve(x)]]
  BY DEF Settled, Halve
<1>4. \A x \in X : ~Settled(c, x) => ~(x[Opening!Widest(x)] <= 1) /\ ~(worst(x) <= c.limit)
  BY DEF Settled
<1> HIDE DEF M, D
<1>5. ASSUME NEW x \in X, ~Settled(c, x)
      PROVE  /\ Halve(x) \in X
             /\ x[Opening!Widest(x)] <= 3 * Halve(x)[Opening!Widest(x)]
             /\ \A d \in D : d # Opening!Widest(x) => Halve(x)[d] = x[d]
             /\ (\A d \in D : x[d] # 0) => \A d \in D : Halve(x)[d] # 0
             /\ TotalOf(Halve(x), D) < TotalOf(x, D)
  <2>1. x \in [D -> Nat] /\ ~(x[Opening!Widest(x)] <= 1)
    BY <1>4, <1>5
  <2> QED
    BY <1>1, <2>1, HalveLaws
<1>6. \A x \in X : TotalOf(x, D) \in Nat
  BY <1>1, TotalsAreNatural
<1>7. /\ \A x \in X : start[x] = x /\ next[x] = Halve(x) /\ size[x] = TotalOf(x, D) /\ (x \in stop <=> Settled(c, x))
      /\ \A x, y \in X : last[<<x, y>>] = y
      /\ start \in [X -> X] /\ last \in [X \X X -> X]
  OBVIOUS
<1>8. size \in [X -> Nat]
  BY <1>6
<1> HIDE DEF X, stop, start, last, size, next, Halved
<1>9. \A x \in X \ stop : next[x] \in X /\ size[next[x]] < size[x]
  BY <1>5, <1>7
<1>10. \E g : g = Halved(g)
  <2>1. HasResults(X, X, stop, start, last, next)
    BY <1>7, <1>8, <1>9, RecursionsExist
  <2>2. PICK g \in [X -> X] : g = Recursion(X, stop, start, last, next, g)
    BY <2>1 DEF HasResults
  <2>3. \A x \in X : g[x] = IF x \in stop THEN start[x] ELSE last[<<x, g[next[x]]>>]
    BY <2>2 DEF Recursion
  <2>4. \A x \in X : g[x] = IF Settled(c, x) THEN x ELSE g[Halve(x)]
    <3> TAKE x \in X
    <3>1. CASE Settled(c, x)
      BY <1>7, <2>3, <3>1
    <3>2. CASE ~Settled(c, x)
      <4>1. g[x] = last[<<x, g[Halve(x)]>>]
        BY <1>7, <2>3, <3>2
      <4>2. g[Halve(x)] \in X
        BY <1>5, <3>2
      <4> QED
        BY <1>7, <3>2, <4>1, <4>2
    <3> QED
      BY <3>1, <3>2
  <2>5. g = [x \in X |-> IF Settled(c, x) THEN x ELSE g[Halve(x)]]
    BY <2>4
  <2> QED
    BY <1>3, <2>5
<1>11. halved = Halved(halved)
  BY <1>10
<1> HIDE DEF halved
<1>12. \A x \in X : halved[x] = IF Settled(c, x) THEN x ELSE halved[Halve(x)]
  BY <1>3, <1>11
<1> DEFINE whole(x) == x \in X /\ \A d \in D : x[d] # 0
           fine(x) == /\ whole(halved[x]) /\ Settled(c, halved[x])
                      /\ halved[x] = x \/ 3 * worst(halved[x]) > c.limit
           bad == {x \in X : whole(x) /\ ~fine(x)}
<1>13. \A x \in X : worst(x) \in Nat
  BY WorstLaws DEF X, D, M
<1>14. ASSUME NEW x \in X, whole(x), ~Settled(c, x), fine(Halve(x)) PROVE fine(x)
  <2>1. halved[x] = halved[Halve(x)] /\ whole(Halve(x))
    BY <1>5, <1>12, <1>14
  <2>2. CASE halved[x] = Halve(x)
    <3> DEFINE w == Opening!Widest(x)
               y == Halve(x)
    <3>1. w \in D
      BY <1>1, WidestLaws DEF X
    <3>2. x \in [D -> Nat] /\ y \in [D -> Nat] /\ x[w] <= 3 * y[w] /\ \A d \in D : d # w => y[d] = x[d]
      BY <1>5, <1>14 DEF X
    <3> HIDE DEF w, y
    <3>3. worst(x) <= 3 * worst(y)
      BY <3>1, <3>2, WorstFallsSlowly DEF D, M
    <3>4. worst(x) \in Nat /\ worst(y) \in Nat /\ ~(worst(x) <= c.limit)
      BY <1>4, <1>13, <1>14, <2>1 DEF y
    <3> HIDE DEF worst
    <3>5. 3 * worst(y) > c.limit
      BY <1>1, <3>3, <3>4
    <3> QED
      BY <1>14, <2>1, <2>2, <3>5 DEF y
  <2>3. CASE halved[x] # Halve(x)
    BY <1>14, <2>1, <2>3
  <2> QED
    BY <2>2, <2>3
<1>15. ASSUME NEW x \in X, whole(x), Settled(c, x) PROVE fine(x)
  BY <1>12, <1>15
<1>16. bad = {}
  <2> DEFINE sizes == {TotalOf(x, D) : x \in bad}
  <2> SUFFICES ASSUME bad # {} PROVE FALSE
    OBVIOUS
  <2>1. PICK n \in sizes : \A m \in sizes : n <= m
    <3>1. sizes \in SUBSET Nat /\ sizes # {}
      BY <1>6
    <3> HIDE DEF sizes
    <3> QED
      BY <3>1, LeastNatural
  <2>2. PICK x \in bad : n = TotalOf(x, D)
    OBVIOUS
  <2>3. x \in X /\ whole(x) /\ ~fine(x)
    OBVIOUS
  <2> HIDE DEF fine
  <2>4. ~Settled(c, x)
    BY <1>15, <2>3
  <2>5. whole(Halve(x)) /\ ~fine(Halve(x)) /\ Halve(x) \in X
    BY <1>5, <1>14, <2>3, <2>4
  <2>6. TotalOf(Halve(x), D) \in sizes
    BY <2>5
  <2>7. TotalOf(Halve(x), D) < TotalOf(x, D) /\ TotalOf(Halve(x), D) \in Nat /\ TotalOf(x, D) \in Nat
    BY <1>5, <1>6, <2>3, <2>4, <2>5
  <2> HIDE DEF sizes, bad
  <2> QED
    BY <2>1, <2>2, <2>6, <2>7
<1>17. M \in X /\ whole(M)
  BY <1>1 DEF X
<1>18. fine(M)
  BY <1>16, <1>17
<1>19. halved[M] \in [D -> Nat \ {0}]
  BY <1>18 DEF X
<1> QED
  BY <1>2, <1>18, <1>19 DEF D, M

\* Chunks fit the ceiling and are not cut further than need be, for any variables
\* and any ceiling.
THEOREM ChunksAlwaysFit == ASSUME NEW c, Opening!IsChunkCase(c) PROVE Opening!ChunksFitTheCeiling(c)
<1> DEFINE spec == Opening!_chunk_ceiling_spec(c.vars, c.limit)
           M == Opening!Merge(c.vars)
           worst == Opening!worst_bytes(spec, c.vars)
           widest == Opening!Max({Opening!Cells(spec, v) * Opening!_WIDEST_WORKING_ITEMSIZE : v \in c.vars})
<1>1. /\ spec \in [DOMAIN M -> Nat \ {0}] /\ Settled(c, spec)
      /\ spec = M \/ 3 * worst > c.limit
  BY HalvingSettles
<1>2. spec \in [DOMAIN M -> Nat] /\ DOMAIN spec = DOMAIN M /\ \A d \in DOMAIN M : spec[d] \in Nat /\ spec[d] # 0
  BY <1>1
<1>3. widest = worst
  BY <1>2, WorstLaws DEF Opening!_WIDEST_WORKING_ITEMSIZE
<1>4. worst <= c.limit \/ \A d \in DOMAIN M : spec[d] = 1
  <2> SUFFICES ASSUME ~(worst <= c.limit) PROVE \A d \in DOMAIN M : spec[d] = 1
    OBVIOUS
  <2>1. spec[Opening!Widest(spec)] <= 1
    BY <1>1 DEF Settled
  <2>2. \A d \in DOMAIN M : spec[d] <= spec[Opening!Widest(spec)] /\ Opening!Widest(spec) \in DOMAIN M
    BY <1>2, MergeLaws, WidestLaws
  <2> HIDE DEF spec, M
  <2> QED
    BY <1>2, <2>1, <2>2
<1> QED
  BY <1>1, <1>2, <1>3, <1>4 DEF Opening!ChunksFitTheCeiling
-----------------------------------------------------------------------------
(* What the run checks of its bounded inputs, for every well-formed one. *)

\* An input is well formed whenever there is one.
LEMMA InputsAreWellFormed == AnyDecision => []WellFormed
<1>1. DecisionsInit => WellFormed
  BY DEF DecisionsInit, WellFormed, Is
<1>2. WellFormed /\ [Decide]_input => WellFormed'
  BY DEF Decide, WellFormed, Is
<1> QED
  BY <1>1, <1>2, PTL DEF AnyDecision

\* What region_aware_area_of_interest retrieves for a place and what
\* resolve_location masks it by belong together, for any atlas the resolver
\* starts with and any request.
THEOREM PlacesAlwaysAgree == AnyDecision => []PlacesAgree
<1>1. WellFormed => PlacesAgree
  BY PlacesAreCovered, FailedClaimsFail, OwnWordsStay, MembersAreNotGuessed, ShapesFit
     DEF WellFormed, PlacesAgree
<1> QED
  BY <1>1, InputsAreWellFormed, PTL

\* The layer resolve_level answers with is the one meant, for any columns of
\* pixels, any level and any coordinates.
THEOREM LayersAreAlwaysMeant == AnyDecision => []LayersAreMeant
<1>1. WellFormed => LayersAreMeant
  BY AreasAgree, ErrorsAreHalfAGap, NearestIsNearest, SelectorsFind
     DEF WellFormed, LayersAreMeant
<1> QED
  BY <1>1, InputsAreWellFormed, PTL

\* The variable to_dataarray plots is the one meant, for any file; companions come
\* along, for any request and collection.
THEOREM VariablesAreAlwaysMeant == AnyDecision => []VariablesAreMeant
<1>1. WellFormed => VariablesAreMeant
  BY NoiseNeverMatters, SilentChoicesAreUnrivalled, CoverageAlwaysFirst, SettledChoicesAlwaysStand,
     CompanionsAlwaysCome DEF WellFormed, VariablesAreMeant
<1> QED
  BY <1>1, InputsAreWellFormed, PTL

\* The frames of a scrubber keep every granule in its time, the extremes of their
\* values and the range of their colours, for any axis, budget and histogram.
THEOREM FramesAlwaysKeepTime == AnyDecision => []FramesKeepTime
<1>1. WellFormed => FramesKeepTime
  BY FramesFit, GranulesAreInTheirInterval, FrameExtremesAgree, OverstatementsAreBounded,
     RangesHoldTheMiddle DEF WellFormed, FramesKeepTime
<1> QED
  BY <1>1, InputsAreWellFormed, PTL

\* Masks remove what their sources say and the provenance says so, for any field,
\* file and caller; buckets weigh alike in any mean.
THEOREM MasksAreAlwaysHonest == AnyDecision => []MasksAreHonest
<1>1. WellFormed => MasksAreHonest
  BY StatusesAreHonest, UnclearFlagsAreFree, RangesAreOneSources, MaskCountsAddUp, KeptTimesAreMasked,
     BucketsAlwaysWeighAlike DEF WellFormed, MasksAreHonest
<1> QED
  BY <1>1, InputsAreWellFormed, PTL

\* An opened result has every group's variables on the dimensions declared, in
\* chunks that fit, and every granule of its bundle at its own time, for any file,
\* any chunks and ceiling, any bundle.
THEOREM OpeningsAreAlwaysWhole == AnyDecision => []OpeningsAreWhole
<1>1. WellFormed => OpeningsAreWhole
  BY GroupsAlwaysKeepVariables, DimensionsAlwaysAsDeclared, ChunksAlwaysFit, BundlesAlwaysWhole,
     GranulesAlwaysKeepTheirTimes, AxesAreAlwaysOrdered DEF WellFormed, OpeningsAreWhole
<1> QED
  BY <1>1, InputsAreWellFormed, PTL
=============================================================================
