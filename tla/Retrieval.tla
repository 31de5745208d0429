----------------------------- MODULE Retrieval -----------------------------
(***************************************************************************)
(* Long retrievals: the size gate and submission (safe_retrieve), the      *)
(* span-gated point series (point_timeseries), the backend-side poll loop  *)
(* (await_retrieval), the three registries a job's facts wait in until its *)
(* result handle is known, and the jobs panel with its cache of finished   *)
(* rows (services/retrieval_composites.py, retrieval_narration.py,         *)
(* variable_choice_registry.py, scope_registry.py, jobs_service.py).       *)
(*                                                                         *)
(* The provider runs the jobs.  It moves a job on its own, may pause one   *)
(* (reported as running with a message that says so) and resume it, and    *)
(* may forget a job that ended.  A wait measures its own time: polling     *)
(* takes none, sleeping takes the interval.                                *)
(***************************************************************************)
EXTENDS Naturals, FiniteSets

CONSTANTS Turns,       \* turns that submit and wait, and the panel's caller
          Jobs,        \* job handles the provider may hand out
          Sizes,       \* what an estimate may say
          Unpriced,    \* the estimate that says nothing
          SoftCap, HardCap,
          PollMin, PollMax, Timeout,  \* await_retrieval's settings
          PollLimit,   \* POLL_TRANSIENT_FAILURE_LIMIT
          MaxFaults,   \* bound: polls that fail
          MaxRestarts  \* bound: restarts of the backend

ASSUME RetrievalAssumption ==
    /\ {SoftCap, HardCap, PollMin, PollMax, Timeout, PollLimit} \subseteq Nat
    /\ {MaxFaults, MaxRestarts} \subseteq Nat
    /\ Sizes \subseteq Nat /\ Unpriced \notin Nat
    /\ SoftCap <= HardCap /\ 0 < PollMin /\ PollMin <= PollMax

VARIABLES
    provider,  \* each job's status at the provider
    terms,     \* each job's estimate, and whether the caller said confirmed
    asked,     \* the choice each job was submitted with, as this process knows
    pending,   \* facts kept under a job handle (variable choice and scope)
    kept,      \* facts kept under the job's result handle
    lapsed,    \* jobs whose facts have outlived the registries' _TTL_SECONDS
    told,      \* retrieval_narration._narrations
    wait,      \* each turn's await_retrieval call
    cached,    \* jobs_service._TERMINAL_STATUS_CACHE
    learnt,    \* jobs this process has been told are ready by a wait
    missed,    \* each wait's failed polls since one last answered
    faults, restarts

vars == <<provider, terms, asked, pending, kept, lapsed, told, wait, cached,
          learnt, missed, faults, restarts>>
registries == <<asked, pending, kept, lapsed, told, learnt>>
budgets == <<faults, restarts>>

Terminal == {"ready", "failed", "expired", "cancelled", "not_found"}
Live == {"running", "paused"}
Finished == Terminal \cup {"error"}
Idle == [at |-> "idle", job |-> "none", spent |-> 0, interval |-> PollMin,
         fails |-> 0, end |-> "none"]

TypeOK ==
    /\ provider \in [Jobs -> Terminal \cup Live \cup {"none"}]
    /\ terms \in [Jobs -> [size : Sizes \cup {0, Unpriced}, confirmed : BOOLEAN]]
    /\ asked \in [Jobs -> {"unknown", "one", "several"}]
    /\ pending \subseteq Jobs /\ kept \subseteq Jobs /\ lapsed \subseteq Jobs /\ told \subseteq Jobs
    /\ wait \in [Turns -> [at : {"idle", "poll", "sleep", "over"},
                           job : Jobs \cup {"none"}, spent : Nat,
                           interval : PollMin .. PollMax, fails : 0 .. PollLimit + 1,
                           end : {"none", "answer", "paused", "timeout", "raised", "refused"}]]
    /\ cached \in [Jobs -> Terminal \cup {"none"}]
    /\ learnt \subseteq Jobs
    /\ missed \in [Turns -> Nat]
    /\ faults \in 0 .. MaxFaults /\ restarts \in 0 .. MaxRestarts

Init ==
    /\ provider = [j \in Jobs |-> "none"]
    /\ terms = [j \in Jobs |-> [size |-> Unpriced, confirmed |-> FALSE]]
    /\ asked = [j \in Jobs |-> "unknown"]
    /\ pending = {} /\ kept = {} /\ lapsed = {}
    /\ told = {}
    /\ wait = [t \in Turns |-> Idle]
    /\ cached = [j \in Jobs |-> "none"]
    /\ learnt = {} /\ missed = [t \in Turns |-> 0]
    /\ faults = 0 /\ restarts = 0

-----------------------------------------------------------------------------
(* Submission. *)

\* What the gate says of an estimate.
Gate(size, confirmed) ==
    IF size = Unpriced
    THEN IF confirmed THEN "submit" ELSE "needs_confirmation"
    ELSE IF size > HardCap THEN "refused"
    ELSE IF size > SoftCap /\ ~confirmed THEN "needs_confirmation" ELSE "submit"

\* record_pending: only a single science variable is a choice to remember.
RecordsPending(j, variables) ==
    pending' = IF variables = "one" THEN pending \cup {j} ELSE pending

\* retrieval_narration: recorded at submission, discarded at the end.
Narrates(j) == told' = told \cup {j}
StopsNarrating(j) == told' = told \ {j}

\* safe_retrieve past its gate, and the agent takes the job handle with it.
\* A refused call, or one sent back for confirmation, changes nothing.
Submits(t, j, size, confirmed, variables) ==
    /\ wait[t].at \in {"idle", "over"}
    /\ provider[j] = "none"
    /\ Gate(size, confirmed) = "submit"
    /\ provider' = [provider EXCEPT ![j] = "running"]
    /\ terms' = [terms EXCEPT ![j] = [size |-> size, confirmed |-> confirmed]]
    /\ asked' = [asked EXCEPT ![j] = variables]
    /\ RecordsPending(j, variables) /\ Narrates(j)
    /\ UNCHANGED <<kept, lapsed, wait, cached, learnt, missed, budgets>>

\* point_timeseries: no size to gate, only a span that was short enough; no
\* choice to remember; the call waits for its own job.
SubmitsSeries(t, j) ==
    /\ wait[t].at \in {"idle", "over"}
    /\ provider[j] = "none"
    /\ provider' = [provider EXCEPT ![j] = "running"]
    /\ terms' = [terms EXCEPT ![j] = [size |-> 0, confirmed |-> FALSE]]
    /\ asked' = [asked EXCEPT ![j] = "several"]
    /\ Narrates(j)
    /\ wait' = [wait EXCEPT ![t] = [Idle EXCEPT !.at = "poll", !.job = j]]
    /\ missed' = [missed EXCEPT ![t] = 0]
    /\ UNCHANGED <<pending, kept, lapsed, learnt, cached, budgets>>

\* A wait begins: the agent's await_retrieval, a series' inline wait, or
\* open_handle's for a job that rematerialises a result.
Awaits(t, j) ==
    /\ wait[t].at \in {"idle", "over"}
    /\ provider[j] # "none"
    /\ wait' = [wait EXCEPT ![t] = [Idle EXCEPT !.at = "poll", !.job = j]]
    /\ missed' = [missed EXCEPT ![t] = 0]
    /\ UNCHANGED <<provider, terms, registries, cached, budgets>>

-----------------------------------------------------------------------------
(* The poll loop. *)

Ends(t, how) == wait' = [wait EXCEPT ![t] = [@ EXCEPT !.at = "over", !.end = how]]

Slept(w) == [w EXCEPT !.at = "sleep"]

\* min(interval * 2, poll_max)
Doubled(i) == IF 2 * i < PollMax THEN 2 * i ELSE PollMax

\* One poll that fails as "provider unavailable": forgiven while few in a row.
PollMisses(t) ==
    /\ wait[t].at = "poll" /\ faults < MaxFaults
    /\ faults' = faults + 1
    /\ missed' = [missed EXCEPT ![t] = @ + 1]
    /\ LET fails == wait[t].fails + 1 IN
          wait' = [wait EXCEPT ![t] =
                     IF fails > PollLimit
                     THEN [wait[t] EXCEPT !.at = "over", !.end = "raised", !.fails = fails]
                     ELSE [wait[t] EXCEPT !.at = "sleep", !.fails = fails]]
    /\ UNCHANGED <<provider, terms, registries, cached, restarts>>

\* The result's handle takes over what waited under the job's, with the time to
\* live it was recorded with: a fact that has lapsed is taken over too.
Finalised(j) ==
    /\ pending' = pending \ {j}
    /\ kept' = kept \cup (pending \cap {j})

\* A poll answers with a terminal status: the wait is over.
PollEnds(t) ==
    LET j == wait[t].job IN
    /\ wait[t].at = "poll" /\ provider[j] \in Terminal
    /\ IF provider[j] = "ready"
       THEN Finalised(j) /\ learnt' = learnt \cup {j}
       ELSE UNCHANGED <<pending, kept, learnt>>
    /\ StopsNarrating(j)
    /\ missed' = [missed EXCEPT ![t] = 0]
    /\ Ends(t, "answer")
    /\ UNCHANGED <<provider, terms, asked, lapsed, cached, budgets>>

\* Mutant of PollFindsPaused.
PollFindsPausedForgets(t) ==
    /\ wait[t].at = "poll" /\ provider[wait[t].job] = "paused"
    /\ Ends(t, "paused")
    /\ missed' = [missed EXCEPT ![t] = 0]
    /\ pending' = pending \ {wait[t].job}
    /\ UNCHANGED <<provider, terms, asked, kept, lapsed, told, learnt, cached, budgets>>

\* Mutant of PollFindsPaused.
PollFindsPausedPolls(t) ==
    /\ wait[t].at = "poll" /\ provider[wait[t].job] = "paused"
    /\ missed' = [missed EXCEPT ![t] = 0]
    /\ UNCHANGED <<provider, terms, registries, wait, cached, budgets>>

\* A poll finds the job paused: returned at once, it will not finish alone.
PollFindsPaused(t) ==
    /\ wait[t].at = "poll" /\ provider[wait[t].job] = "paused"
    /\ Ends(t, "paused")
    /\ missed' = [missed EXCEPT ![t] = 0]
    /\ UNCHANGED <<provider, terms, registries, cached, budgets>>

\* A poll finds the job running: sleep, or give up once the deadline passed.
PollGoesOn(t) ==
    LET w == [wait[t] EXCEPT !.fails = 0] IN
    /\ wait[t].at = "poll" /\ provider[w.job] = "running"
    /\ missed' = [missed EXCEPT ![t] = 0]
    /\ wait' = [wait EXCEPT ![t] = IF w.spent >= Timeout
                                   THEN [w EXCEPT !.at = "over", !.end = "timeout"]
                                   ELSE Slept(w)]
    /\ UNCHANGED <<provider, terms, registries, cached, budgets>>

\* Anything else a poll raises ends the wait on the spot.
PollRaises(t) ==
    /\ wait[t].at = "poll" /\ faults < MaxFaults
    /\ faults' = faults + 1
    /\ wait' = [wait EXCEPT ![t] = [@ EXCEPT !.at = "over", !.end = "refused"]]
    /\ UNCHANGED <<provider, terms, registries, cached, missed, restarts>>

\* The sleep between polls.
Wakes(t) ==
    /\ wait[t].at = "sleep"
    /\ LET w == wait[t] IN
          wait' = [wait EXCEPT ![t] = [w EXCEPT !.at = "poll", !.spent = w.spent + w.interval,
                                                !.interval = Doubled(w.interval)]]
    /\ UNCHANGED <<provider, terms, registries, cached, missed, budgets>>

-----------------------------------------------------------------------------
(* The jobs panel. *)

\* _CACHEABLE_STATUSES
Cacheable == Terminal

\* list_jobs' read of one job: from the cache, from the provider, or failing.
Lists(j, says) ==
    /\ provider[j] # "none"
    /\ says \in IF cached[j] # "none" THEN {cached[j]} ELSE {provider[j], "error"}
    /\ says = "error" => faults < MaxFaults
    /\ faults' = IF says = "error" THEN faults + 1 ELSE faults
    /\ cached' = [cached EXCEPT ![j] = IF says \in Cacheable THEN says ELSE @]
    /\ UNCHANGED <<provider, terms, registries, wait, missed, restarts>>

\* cancel_job: the panel's button, or a stopped turn's orphan.  A job the
\* provider has forgotten answers "not_found", which is an answer.
Cancels(j) ==
    /\ provider[j] \in Live
    /\ provider' = [provider EXCEPT ![j] = "cancelled"]
    /\ UNCHANGED <<terms, registries, wait, cached, missed, budgets>>

-----------------------------------------------------------------------------
(* What happens around it. *)

\* What is kept of a job outlives its day: time passes whatever the job is doing.
Lapses(j) ==
    /\ j \in (pending \cup kept) \ lapsed
    /\ lapsed' = lapsed \cup {j}
    /\ UNCHANGED <<provider, terms, asked, pending, kept, told, learnt, wait, cached, missed, budgets>>

\* get: a later call asks for what is kept of a result, and drops it if lapsed.
Recalls(j) ==
    /\ j \in kept \cap lapsed
    /\ kept' = kept \ {j}
    /\ UNCHANGED <<provider, terms, asked, pending, lapsed, told, learnt, wait, cached, missed, budgets>>

\* The provider moves a job, pauses, resumes or expires one, or forgets one that
\* ended.
ProviderMoves(j) ==
    /\ \/ provider[j] = "running"
          /\ \E s \in {"ready", "failed", "expired", "paused"} : provider' = [provider EXCEPT ![j] = s]
       \/ provider[j] = "paused"
          /\ \E s \in {"running", "expired"} : provider' = [provider EXCEPT ![j] = s]
       \/ provider[j] \in Terminal \ {"not_found"}
          /\ provider' = [provider EXCEPT ![j] = "not_found"]
    /\ UNCHANGED <<terms, registries, wait, cached, missed, budgets>>

\* The backend restarts: none of this is persisted.
Restarts ==
    /\ restarts < MaxRestarts
    /\ restarts' = restarts + 1
    /\ asked' = [j \in Jobs |-> "unknown"]
    /\ pending' = {} /\ kept' = {} /\ lapsed' = {}
    /\ told' = {} /\ cached' = [j \in Jobs |-> "none"]
    /\ learnt' = {} /\ wait' = [t \in Turns |-> Idle]
    /\ missed' = [t \in Turns |-> 0]
    /\ UNCHANGED <<provider, terms, faults>>

Polls(t) == PollEnds(t) \/ PollFindsPaused(t) \/ PollGoesOn(t)

Next ==
    \/ \E t \in Turns, j \in Jobs, s \in Sizes \cup {Unpriced}, c \in BOOLEAN,
          v \in {"one", "several"} : Submits(t, j, s, c, v)
    \/ \E t \in Turns, j \in Jobs : SubmitsSeries(t, j) \/ Awaits(t, j)
    \/ \E t \in Turns : Polls(t) \/ PollMisses(t) \/ PollRaises(t) \/ Wakes(t)
    \/ \E j \in Jobs : \/ \E says \in Finished \cup Live : Lists(j, says)
                       \/ Cancels(j) \/ ProviderMoves(j) \/ Lapses(j) \/ Recalls(j)
    \/ Restarts

\* A poll is answered or fails, and a sleep ends.
Fairness == \A t \in Turns : WF_vars(Polls(t) \/ PollMisses(t) \/ PollRaises(t) \/ Wakes(t))

Spec == Init /\ [][Next]_vars /\ Fairness

-----------------------------------------------------------------------------
(* Properties. *)

\* Nothing above the hard cap is ever submitted, and nothing the caps could
\* not wave through is submitted without a confirmation, over every call,
\* retry and narrowed estimate (safe_retrieve).
GateHolds ==
    \A j \in Jobs : provider[j] # "none" =>
        /\ terms[j].size \in Nat => terms[j].size <= HardCap
        /\ terms[j].confirmed \/ (terms[j].size \in Nat /\ terms[j].size <= SoftCap)

\* A wait is abandoned only to an outage that lasts: failed polls with an
\* answered one in between never add up (POLL_TRANSIENT_FAILURE_LIMIT).
BlipsAreForgiven ==
    \A t \in Turns : wait[t].end = "raised" => missed[t] > PollLimit

\* However failed, paused and answered polls alternate, and although the
\* deadline is looked at only after an answered one, no wait outlasts it by
\* more than the sleeps of one forgiven outage.
WaitsAreBounded ==
    \A t \in Turns : wait[t].spent < Timeout + (PollLimit + 1) * PollMax

\* Once any wait has been told a job is ready, the choice the job was
\* submitted with is under the result's handle, whichever of several waits was
\* told first and whatever timed out, paused or failed before: only its own age
\* and a restart take it away (variable_choice_registry and scope_registry).
ChoiceFollowsResult ==
    \A j \in learnt : asked[j] = "one" => j \in kept \cup lapsed

\* A row served from the cache forever is one the provider will never
\* contradict, except by forgetting the job (jobs_service._CACHEABLE_STATUSES).
FinishedRowsAreFinal ==
    \A j \in Jobs : cached[j] # "none" => provider[j] \in {cached[j], "not_found"}

\* Every wait ends, also on a job the provider has paused or never finishes.
WaitsEnd == \A t \in Turns : wait[t].at \in {"poll", "sleep"} ~> wait[t].at \in {"over", "idle"}

\* Nothing large starts unconfirmed, a wait is given up only to an outage that
\* lasts and outstays its deadline only by a forgiven one, the choice a job was
\* submitted with is found under its result, and a row the panel keeps for good
\* is final.
RetrievalsKeepFaith ==
    /\ TypeOK /\ GateHolds /\ BlipsAreForgiven /\ WaitsAreBounded
    /\ ChoiceFollowsResult /\ FinishedRowsAreFinal
=============================================================================
