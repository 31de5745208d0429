------------------------------ MODULE JwksCache ------------------------------
(***************************************************************************)
(* services/supabase_jwt.py: the cached key set every request's token is   *)
(* checked against.  Requests run in threads; the lock guards each look at *)
(* the cache and each write to it, never the fetch between them.           *)
(*                                                                         *)
(* The provider's key sets are numbered by rotation and a key set holds    *)
(* the keys of the last two rotations.  Deadlines are kept as time left,   *)
(* which Tick lowers.  Decoding and the claims of a token are left out.    *)
(***************************************************************************)
EXTENDS Integers

CONSTANTS Requests,     \* threads that check a token
          MaxVersion,   \* bound: rotations of the provider's keys
          MaxOutages,   \* bound: times the provider goes down
          Ttl,          \* cache_ttl
          Retry,        \* retry_interval
          Cooldown      \* kid_refresh_cooldown

ASSUME JwksAssumption ==
  /\ MaxVersion \in Nat \ {0} /\ MaxOutages \in Nat
  /\ Ttl \in Nat \ {0} /\ Retry \in Nat \ {0} /\ Cooldown \in Nat \ {0}

Forged == 0     \* a key id no key set ever held
Warming == -1   \* the warm task: it fetches and looks for no key

VARIABLES
  rotation,   \* number of the provider's key set
  up,         \* whether the provider answers
  outages,    \* outages so far
  entry,      \* _cache_entry: number of the key set, 0 for none, and time left
  cold,       \* time left to _cold_retry_deadline
  window,     \* time left of the kid refresh cooldown
  req         \* one record per request

JwksVars == <<rotation, up, outages, entry, cold, window, req>>
provider == <<rotation, up, outages>>

HeldBy(set) == {set - 1, set} \ {0, -1}
Idle == [pc |-> "idle", kid |-> Forged, forced |-> FALSE, got |-> 0,
         since |-> 0, cached |-> FALSE, answer |-> "none", why |-> "none"]

JwksTypeOK ==
  /\ rotation \in 1..MaxVersion /\ up \in BOOLEAN /\ outages \in 0..MaxOutages
  /\ entry \in [set : 0..MaxVersion, left : 0..(IF Ttl > Retry THEN Ttl ELSE Retry)]
  /\ cold \in 0..Retry /\ window \in 0..Cooldown
  /\ req \in [Requests ->
       [pc : {"idle", "claim", "fetch", "store", "stale", "done"},
        kid : -1..MaxVersion, forced : BOOLEAN, got : 0..MaxVersion,
        since : 0..MaxVersion, cached : BOOLEAN,
        answer : {"none", "accepted", "refused", "unavailable"},
        why : {"none", "throttled", "stale", "fetched"}]]

JwksInit ==
  /\ rotation = 1 /\ up \in BOOLEAN /\ outages = 0
  /\ entry = [set |-> 0, left |-> 0] /\ cold = 0 /\ window = 0
  /\ req = [r \in Requests |-> Idle]

At(r, pc) == req[r].pc = pc

Answers(r, answer, why) ==
  req' = [req EXCEPT ![r].pc = "done", ![r].answer = answer, ![r].why = why]

\* a key set came back: it holds the key, or a refresh has to be claimed, or
\* this was the refresh
Judged(q, set, why) ==
  IF q.kid \in HeldBy(set) \/ q.kid = Warming
  THEN [q EXCEPT !.pc = "done", !.answer = "accepted"]
  ELSE IF q.forced THEN [q EXCEPT !.pc = "done", !.answer = "refused", !.why = why]
  ELSE [q EXCEPT !.pc = "claim"]
Judges(r, set, why) == req' = [req EXCEPT ![r] = Judged(req[r], set, why)]

\* a request reads the cache under the lock; warm goes straight to the fetch
Begins(r, kid) ==
  LET q == [Idle EXCEPT !.kid = kid, !.forced = kid = Warming,
                        !.since = rotation, !.cached = entry.set # 0] IN
  /\ At(r, "idle")
  /\ req' = [req EXCEPT ![r] =
       IF kid # Warming /\ entry.set # 0 /\ entry.left > 0 THEN Judged(q, entry.set, "none")
       ELSE IF kid # Warming /\ entry.set = 0 /\ cold > 0
       THEN [q EXCEPT !.pc = "done", !.answer = "unavailable"]
       ELSE [q EXCEPT !.pc = "fetch"]]
  /\ UNCHANGED <<provider, entry, cold, window>>

\* the fetch, without the lock
Fetches(r) ==
  /\ At(r, "fetch")
  /\ req' = IF up THEN [req EXCEPT ![r].pc = "store", ![r].got = rotation]
            ELSE [req EXCEPT ![r].pc = "stale"]
  /\ UNCHANGED <<provider, entry, cold, window>>

\* Mutant of Stores.
StoresFirst(r) ==
  /\ At(r, "store")
  /\ entry' = [set |-> IF entry.set = 0 THEN req[r].got ELSE entry.set, left |-> Ttl]
  /\ cold' = 0
  /\ Judges(r, req[r].got, "fetched")
  /\ UNCHANGED <<provider, window>>
Stores(r) ==
  /\ At(r, "store")
  /\ entry' = [set |-> req[r].got, left |-> Ttl] /\ cold' = 0
  /\ Judges(r, req[r].got, "fetched")
  /\ UNCHANGED <<provider, window>>

\* _serve_stale_or_fail
ServesStale(r) ==
  /\ At(r, "stale")
  /\ IF entry.set = 0
     THEN cold' = Retry /\ entry' = entry /\ Answers(r, "unavailable", "none")
     ELSE /\ entry' = [entry EXCEPT !.left = IF @ > Retry THEN @ ELSE Retry]
          /\ cold' = cold
          /\ Judges(r, entry.set, "stale")
  /\ UNCHANGED <<provider, window>>

\* _claim_kid_refresh
\* Mutant of Claims.
ClaimsAndLooks(r) ==
  /\ At(r, "claim")
  /\ IF window > 0
     THEN Answers(r, "refused", "throttled") /\ window' = window
     ELSE /\ window' = Cooldown
          /\ Answers(r, "refused", "fetched")
  /\ UNCHANGED <<provider, entry, cold>>
Claims(r) ==
  /\ At(r, "claim")
  /\ IF window > 0
     THEN Answers(r, "refused", "throttled") /\ window' = window
     ELSE /\ window' = Cooldown
          /\ req' = [req EXCEPT ![r].pc = "fetch", ![r].forced = TRUE]
  /\ UNCHANGED <<provider, entry, cold>>

Withdraws(r) ==
  /\ At(r, "done")
  /\ req' = [req EXCEPT ![r] = Idle]
  /\ UNCHANGED <<provider, entry, cold, window>>

Less(n) == IF n = 0 THEN 0 ELSE n - 1
Tick ==
  /\ entry' = [entry EXCEPT !.left = Less(@)]
  /\ cold' = Less(cold) /\ window' = Less(window)
  /\ UNCHANGED <<provider, req>>

Rotates ==
  /\ up /\ rotation < MaxVersion /\ rotation' = rotation + 1
  /\ UNCHANGED <<up, outages, entry, cold, window, req>>
GoesDown ==
  /\ up /\ outages < MaxOutages /\ up' = FALSE /\ outages' = outages + 1
  /\ UNCHANGED <<rotation, entry, cold, window, req>>
ComesUp ==
  /\ ~up /\ up' = TRUE
  /\ UNCHANGED <<rotation, outages, entry, cold, window, req>>

Steps(r) ==
  Fetches(r) \/ Stores(r) \/ ServesStale(r) \/ Claims(r) \/ Withdraws(r)
JwksNext ==
  \/ \E r \in Requests : Steps(r) \/ \E kid \in -1..rotation : Begins(r, kid)
  \/ Tick \/ Rotates \/ GoesDown \/ ComesUp

\* threads run, time passes, the provider comes back, and somebody holds a
\* token of the newest key
JwksFairness ==
  /\ \A r \in Requests : WF_JwksVars(Steps(r))
  /\ SF_JwksVars(\E r \in Requests : Begins(r, MaxVersion))
  /\ WF_JwksVars(Tick) /\ WF_JwksVars(ComesUp)
JwksSpec == JwksInit /\ [][JwksNext]_JwksVars /\ JwksFairness

(***************************************************************************)
(* Properties.                                                             *)
(***************************************************************************)
\* Once a key set is cached no request that begins is told the provider is
\* unavailable, however long the provider stays away (_serve_stale_or_fail).
OutageSparesUsers ==
  \A r \in Requests : req[r].answer = "unavailable" => ~req[r].cached

\* A token whose key the provider held all along is refused only while
\* refreshes are throttled or the refresh failed: a refresh that was claimed
\* and answered always sees the key (_signing_key, _claim_kid_refresh).
RefusalIsExcused ==
  \A r \in Requests :
    req[r].answer = "refused" /\ req[r].why = "fetched"
      => req[r].kid \notin HeldBy(req[r].since) \cap HeldBy(rotation)

\* After the last rotation the cache ends up with the new keys for good,
\* although fetches that started before it may land late (_keyset stores
\* whatever it fetched, last writer wins).
RotationIsLearnt == <>[](rotation = MaxVersion) => <>[](entry.set = MaxVersion)

\* Users with a good token are let in through outages and rotations: only a cold
\* cache makes the provider's absence theirs, and only throttling or a failed
\* refresh a key that was there.
UsersAreServed == JwksTypeOK /\ OutageSparesUsers /\ RefusalIsExcused
=============================================================================
