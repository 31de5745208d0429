------------------------------ MODULE CubeCache ------------------------------
(***************************************************************************)
(* services/cube_cache.py and the open path of services/open_handle.py.    *)
(*                                                                         *)
(* A handle names data the provider delivers.  Opening it asks the cube    *)
(* index first (lookup_by_handle), else exports, reconciles the index with *)
(* the content the export names, serves the cube of that content or opens  *)
(* the file, and may queue a background write of a cube.  The store is a   *)
(* directory of entries with a manifest as completion marker; the index is *)
(* a file any thread reads, changes and replaces without a lock, so that   *)
(* every change of it, a call's or the writer's, is two steps.             *)
(*                                                                         *)
(* Cubes are read lazily for as long as the caller computes, so an entry   *)
(* removed under a reader is a hazard of its own.  A key is a triple of    *)
(* handle, delivered version and pipeline version; file contents, encoding *)
(* and chunking are left out, sizes are small numbers.                     *)
(***************************************************************************)
EXTENDS Integers, Sequences, FiniteSets, SequencesExt, Subsequences

CONSTANTS Handles,      \* data handles
          Digestless,   \* handles whose exports carry no content digest (or are partial)
          Replayed,     \* bound: handles whose export may expire and be replayed
          Turns,        \* chat turns that open handles
          Exports,      \* background exports that open handles outside any turn
          NoKey,        \* no entry in the index
          OpenedBefore, \* opens each first delivery had before the behaviour starts
          MaxVersion,   \* bound: how often the delivered content can change
          MaxPipe,      \* bound: pipeline versions the process restarts into
          MaxOpens,     \* bound: opens in a behaviour
          MaxExpiries,  \* bound: exports that expire
          Capacity,     \* cube_store_max_bytes
          CubeLimit,    \* per_cube_disk_limit
          Estimates,    \* what eviction may expect a cube to take
          Sizes         \* bytes a staged cube may turn out to take

ASSUME CubeAssumption ==
  /\ Digestless \subseteq Handles /\ Replayed \subseteq Handles /\ Turns \cap Exports = {}
  /\ OpenedBefore \in 0..2
  /\ MaxVersion \in Nat \ {0} /\ MaxPipe \in Nat \ {0}
  /\ MaxOpens \in Nat /\ MaxExpiries \in Nat
  /\ Capacity \in Nat /\ CubeLimit \in 1..Capacity /\ Sizes \subseteq Nat \ {0}
  /\ Estimates \subseteq Nat \ {0}
  /\ IsFiniteSet(Handles) /\ Handles # {} /\ IsFiniteSet(Turns)
  /\ NoKey \notin Handles \X (1..MaxVersion) \X (1..MaxPipe)

Callers == Turns \cup Exports
Keys == Handles \X (1..MaxVersion) \X (1..MaxPipe)
HandleOf(k) == k[1]
VersionOf(k) == k[2]

VARIABLES
  delivered,  \* version of the data the provider holds for a handle
  ready,      \* whether its export is still on the provider's disk
  expiries,   \* exports expired so far
  pipe,       \* OPEN_PIPELINE_VERSION of the running process
  store,      \* entry of each key: none, cube, torn (manifest, chunks missing), refused
  size,       \* bytes of each entry with a manifest
  lru,        \* the entries with a manifest, coldest first
  index,      \* handle_index.json
  opens,      \* _open_counts, saturating at two
  inflight,   \* _writes_in_flight
  line,       \* queued write tasks; the head holds the semaphore
  stage,      \* where the head's write is
  snap,       \* the index as the writer's note_handle read it
  seen,       \* the index as each caller read it to change it
  turns,      \* _active_turns
  idle,       \* _idle_event
  call,       \* one record per caller
  opened,     \* opens started so far
  raced       \* ghost: handles whose data changed under a cube or an index being
              \* written, or with no call left to reconcile it

provider == <<delivered, ready, expiries>>
disk == <<store, size, lru>>
writer == <<inflight, line, stage, snap>>
quiet == <<turns, idle>>
cubeVars == <<provider, pipe, disk, index, seen, opens, writer, quiet, call, opened, raced>>

Free == [pc |-> "idle", h |-> CHOOSE h \in Handles : TRUE, v |-> 0,
         key |-> NoKey, recovered |-> FALSE, met |-> FALSE]

Calls ==
  [pc : {"idle", "asks", "forgets", "recovers", "reexports", "opens", "drops", "looks", "notes",
         "reading", "failed"},
   h : Handles, v : 0..MaxVersion, key : Keys \cup {NoKey}, recovered : BOOLEAN, met : BOOLEAN]

Indexes == [Handles -> Keys \cup {NoKey}]
Empty == [h \in Handles |-> NoKey]

CubeTypeOK ==
  /\ delivered \in [Handles -> 1..MaxVersion] /\ ready \in [Handles -> BOOLEAN]
  /\ expiries \in 0..MaxExpiries /\ pipe \in 1..MaxPipe
  /\ store \in [Keys -> {"none", "cube", "torn", "refused"}]
  /\ size \in [Keys -> Nat] /\ lru \in Seq(Keys)
  /\ index \in Indexes /\ snap \in Indexes /\ seen \in [Callers -> Indexes]
  /\ opens \in [Keys -> 0..2] /\ inflight \subseteq Keys /\ line \in Seq(Keys)
  /\ stage \in {"waiting", "released", "staged", "noting", "indexing"}
  /\ turns \in 0..Cardinality(Turns) /\ idle \in BOOLEAN
  /\ call \in [Callers -> Calls]
  /\ opened \in 0..MaxOpens /\ raced \subseteq Handles

CubeInit ==
  /\ delivered = [h \in Handles |-> 1] /\ ready = [h \in Handles |-> TRUE]
  /\ expiries = 0 /\ pipe = 1
  /\ store = [k \in Keys |-> "none"] /\ size = [k \in Keys |-> 0] /\ lru = <<>>
  /\ index = Empty /\ snap = Empty /\ seen = [c \in Callers |-> Empty]
  /\ opens = [k \in Keys |-> IF VersionOf(k) = 1 THEN OpenedBefore ELSE 0]
  /\ inflight = {} /\ line = <<>> /\ stage = "waiting"
  /\ turns = 0 /\ idle = TRUE
  /\ call = [c \in Callers |-> Free] /\ opened = 0 /\ raced = {}

At(c, pc) == call[c].pc = pc
Goes(c, pc) == call' = [call EXCEPT ![c].pc = pc]

(***************************************************************************)
(* The store.                                                              *)
(***************************************************************************)
KeyFor(h, v) == <<h, v, pipe>>
HasManifest(k) == store[k] \in {"cube", "torn"}
\* the bytes a set of entries takes
Bytes(K) == Cardinality(UNION {{k} \X (1..size[k]) : k \in K})
Total == Bytes(Keys)

\* shutil.rmtree of a set of entries
RemoveEntries(gone) ==
  /\ store' = [k \in Keys |-> IF k \in gone THEN "none" ELSE store[k]]
  /\ size' = [k \in Keys |-> IF k \in gone THEN 0 ELSE size[k]]
  /\ lru' = Without(lru, gone)

\* lookup: a whole entry is read and touched, a torn one dropped, else a miss
Whole(k) == store[k] = "cube"
Touch(k) == lru' = Append(Without(lru, {k}), k) /\ UNCHANGED <<store, size>>
LookupMisses(k) == IF HasManifest(k) THEN RemoveEntries({k}) ELSE UNCHANGED disk

\* evict_to_fit: the coldest entries, until what comes fits under the cap
Evicted(incoming) ==
  LET Coldest(n) == {lru[i] : i \in 1..n}
      enough == {n \in 0..Len(lru) : Bytes(Keys \ Coldest(n)) + incoming <= Capacity}
      n == IF enough = {} THEN Len(lru) ELSE CHOOSE m \in enough : \A x \in enough : m <= x
  IN  Coldest(n)

\* cubes of content h no longer delivers
Stale(h) == {k \in Keys : HandleOf(k) = h /\ Whole(k) /\ VersionOf(k) # delivered[h]}

\* the data of h changed since k was exported, or is being changed by another caller
Unsettled(h, k) ==
  \/ VersionOf(k) # delivered[h]
  \/ \E d \in Callers : call[d].h = h /\ At(d, "recovers")
Witness(h, k) == IF Unsettled(h, k) THEN raced \cup {h} ELSE raced

\* _read_index: the caller's copy of the index, to be changed and put back
Copies(c) == seen' = [seen EXCEPT ![c] = index]

\* handles whose stale entry a new index hides from the call about to reconcile it
Hidden(new) == {h \in Handles : new[h] # index[h] /\ Stale(h) # {}}

\* _write_index: the caller's copy, with k for its handle, replaces the index,
\* and with it what others changed since
NoteBack(c, k) ==
  LET new == [seen[c] EXCEPT ![call[c].h] = k] IN
  /\ index' = new
  /\ raced' = (IF k = NoKey THEN raced ELSE Witness(call[c].h, k)) \cup Hidden(new)
  /\ seen' = [seen EXCEPT ![c] = Empty]

(***************************************************************************)
(* Callers.                                                                *)
(***************************************************************************)
Starts(c, h) ==
  /\ At(c, "idle") /\ opened < MaxOpens
  /\ opened' = opened + 1
  /\ call' = [call EXCEPT ![c] = [Free EXCEPT !.pc = "asks", !.h = h, !.met = stage = "released"]]
  /\ IF c \in Turns THEN turns' = turns + 1 /\ idle' = FALSE ELSE UNCHANGED quiet
  /\ UNCHANGED <<provider, pipe, disk, index, seen, opens, writer, raced>>

\* lookup_by_handle finds a whole cube of a content identity
AskHits(c) ==
  LET h == call[c].h  k == index[h] IN
  /\ At(c, "asks") /\ k # NoKey
  /\ h \notin Digestless /\ Whole(k)
  /\ Touch(k)
  /\ call' = [call EXCEPT ![c].pc = "reading", ![c].key = k]
  /\ UNCHANGED <<provider, pipe, index, seen, opens, writer, quiet, opened, raced>>

\* the export is ready, or its data has to be materialised again
Exported(c) ==
  IF ready[call[c].h]
  THEN call' = [call EXCEPT ![c].pc = "opens", ![c].v = delivered[call[c].h]]
  ELSE call' = [call EXCEPT ![c].pc = "recovers", ![c].recovered = TRUE]

\* the index does not help
AskMisses(c) ==
  LET h == call[c].h  k == index[h] IN
  /\ At(c, "asks")
  /\ \/ k = NoKey /\ UNCHANGED disk
     \/ k # NoKey /\ HasManifest(k) /\ h \in Digestless /\ UNCHANGED disk
     \/ k # NoKey /\ HasManifest(k) /\ h \notin Digestless /\ ~Whole(k) /\ LookupMisses(k)
  /\ Exported(c)
  /\ UNCHANGED <<provider, pipe, index, seen, opens, writer, quiet, opened, raced>>

\* it names an entry that is gone: _forget_handle reads the index ...
AskForgets(c) ==
  LET k == index[call[c].h] IN
  /\ At(c, "asks") /\ k # NoKey /\ ~HasManifest(k)
  /\ Copies(c) /\ Goes(c, "forgets")
  /\ UNCHANGED <<provider, pipe, disk, index, opens, writer, quiet, opened, raced>>
\* ... and puts it back without the handle
Forgets(c) ==
  /\ At(c, "forgets")
  /\ NoteBack(c, NoKey) /\ Exported(c)
  /\ UNCHANGED <<provider, pipe, disk, opens, writer, quiet, opened>>

\* a cube of h is on its way, or landed and not yet in the index
Unindexed(h) == \E k \in Keys : HandleOf(k) = h /\ index[h] # k /\ (k \in inflight \/ Whole(k))

\* the provider runs the retrieval again and may deliver other content; the
\* wait for its job may also give up, before or after the data has changed
Rematerialises(c) ==
  LET h == call[c].h IN
  /\ At(c, "recovers")
  /\ \E v \in {delivered[h]} \cup (IF h \in Replayed THEN {delivered[h] + 1} \cap (1..MaxVersion) ELSE {}), ok \in BOOLEAN :
       /\ delivered' = [delivered EXCEPT ![h] = v]
       /\ ready' = [ready EXCEPT ![h] = TRUE]
       /\ Goes(c, IF ok THEN "reexports" ELSE "failed")
       /\ raced' = IF v # delivered[h] /\ (Unindexed(h) \/ (~ok /\ index[h] # NoKey))
                   THEN raced \cup {h} ELSE raced
  /\ UNCHANGED <<expiries, pipe, disk, index, seen, opens, writer, quiet, opened>>

Reexports(c) ==
  LET h == call[c].h IN
  /\ At(c, "reexports")
  /\ IF ready[h]
     THEN call' = [call EXCEPT ![c].pc = "opens", ![c].v = delivered[h]] /\ UNCHANGED raced
     ELSE Goes(c, "failed") /\ raced' = IF Stale(h) = {} THEN raced ELSE raced \cup {h}
  /\ UNCHANGED <<provider, pipe, disk, index, seen, opens, writer, quiet, opened>>

\* Mutant of Reconciles.
ReconcilesIndexOnly(c) ==
  LET h == call[c].h  k == KeyFor(h, call[c].v)  was == index[h] IN
  /\ At(c, "opens")
  /\ IF was \notin {NoKey, k}
     THEN Copies(c) /\ Goes(c, "drops") /\ raced' = raced \ {h}
     ELSE Goes(c, "looks") /\ UNCHANGED <<seen, raced>>
  /\ UNCHANGED <<provider, pipe, disk, index, opens, writer, quiet, opened>>
\* reconcile_handle: an index that names other content loses the cube, and
\* _forget_handle reads it ...
Reconciles(c) ==
  LET h == call[c].h  k == KeyFor(h, call[c].v)  was == index[h] IN
  /\ At(c, "opens")
  /\ IF was \notin {NoKey, k}
     THEN /\ RemoveEntries({was}) /\ Copies(c) /\ Goes(c, "drops")
          /\ raced' = IF Stale(h) \subseteq {was} THEN raced \ {h} ELSE raced
     ELSE Goes(c, "looks") /\ UNCHANGED <<disk, seen, raced>>
  /\ UNCHANGED <<provider, pipe, index, opens, writer, quiet, opened>>
\* ... and puts it back without the handle
Drops(c) ==
  /\ At(c, "drops")
  /\ NoteBack(c, NoKey) /\ Goes(c, "looks")
  /\ UNCHANGED <<provider, pipe, disk, opens, writer, quiet, opened>>

\* consider_write: the second open of a source queues one write of its key
Considers(k) ==
  /\ opens' = [opens EXCEPT ![k] = IF @ = 2 THEN 2 ELSE @ + 1]
  /\ IF opens[k] >= 1 /\ k \notin inflight /\ store[k] \notin {"cube", "refused"}
     THEN inflight' = inflight \cup {k} /\ line' = Append(line, k)
     ELSE UNCHANGED <<inflight, line>>

\* lookup(key): a whole cube, which note_handle adds to an index that lacks it,
\* else the opener on the exported file
Looks(c) ==
  LET h == call[c].h  k == KeyFor(h, call[c].v) IN
  /\ At(c, "looks")
  /\ \/ /\ Whole(k) /\ Touch(k) /\ index[h] = k /\ Considers(k) /\ UNCHANGED seen
        /\ call' = [call EXCEPT ![c].pc = "reading", ![c].key = k]
     \/ /\ Whole(k) /\ Touch(k) /\ index[h] # k /\ Copies(c) /\ UNCHANGED <<opens, inflight, line>>
        /\ call' = [call EXCEPT ![c].pc = "notes", ![c].key = k]
     \/ /\ ~Whole(k) /\ LookupMisses(k) /\ UNCHANGED seen
        /\ \/ Goes(c, "reading") /\ Considers(k)
           \/ /\ call[c].recovered /\ Goes(c, "failed")      \* unreadable again
              /\ UNCHANGED <<opens, inflight, line>>
           \/ /\ ~call[c].recovered
              /\ call' = [call EXCEPT ![c].pc = "recovers", ![c].recovered = TRUE]
              /\ UNCHANGED <<opens, inflight, line>>
  /\ UNCHANGED <<provider, pipe, index, stage, snap, quiet, opened, raced>>
\* note_handle's second half
Notes(c) ==
  LET k == KeyFor(call[c].h, call[c].v) IN
  /\ At(c, "notes")
  /\ NoteBack(c, k) /\ Considers(k) /\ Goes(c, "reading")
  /\ UNCHANGED <<provider, pipe, disk, stage, snap, quiet, opened>>

\* active_turn: the last turn to leave sets the event
TurnsLeft(c) == IF c \in Turns THEN turns - 1 ELSE turns
\* Mutant of Ends.
EndsSettingIdle(c) ==
  /\ call[c].pc \in {"reading", "failed"}
  /\ call' = [call EXCEPT ![c] = Free]
  /\ turns' = TurnsLeft(c)
  /\ idle' = (c \in Turns \/ idle)
  /\ UNCHANGED <<provider, pipe, disk, index, seen, opens, writer, opened, raced>>
Ends(c) ==
  /\ call[c].pc \in {"reading", "failed"}
  /\ call' = [call EXCEPT ![c] = Free]
  /\ turns' = TurnsLeft(c)
  /\ idle' = IF c \in Turns THEN idle \/ TurnsLeft(c) = 0 ELSE idle
  /\ UNCHANGED <<provider, pipe, disk, index, seen, opens, writer, opened, raced>>

(***************************************************************************)
(* The background write at the head of the line: _write_task, write_cube.  *)
(***************************************************************************)
Job == Head(line)
AtWork(s) == line # <<>> /\ stage = s

\* the task is over: semaphore and in-flight mark go
Done == /\ line' = Tail(line) /\ stage' = "waiting"
        /\ inflight' = inflight \ {Job} /\ snap' = Empty

\* _await_quiet_turn: no turn is active, or the wait times out
QuietComes ==
  /\ AtWork("waiting") /\ idle
  /\ stage' = "released"
  /\ UNCHANGED <<provider, pipe, disk, index, seen, opens, inflight, line, snap, quiet, call, opened, raced>>
GivesUp ==
  /\ AtWork("waiting") /\ ~idle
  /\ Done
  /\ UNCHANGED <<provider, pipe, disk, index, seen, opens, quiet, call, opened, raced>>

\* the thread finds the work done, refused or hopeless
WriteSkips ==
  /\ AtWork("released")
  /\ \/ HasManifest(Job) /\ stage' = "noting" /\ UNCHANGED <<inflight, line, snap>>
     \/ ~HasManifest(Job) /\ Done
  /\ UNCHANGED <<provider, pipe, disk, index, seen, opens, quiet, call, opened, raced>>

Smaller(a, b) == IF a < b THEN a ELSE b

\* it evicts the coldest cubes for its own estimate and stages
WriteEvicts ==
  /\ AtWork("released") /\ store[Job] = "none"
  /\ \E estimate \in Estimates : RemoveEntries(Evicted(Smaller(estimate, CubeLimit)))
  /\ stage' = "staged"
  /\ UNCHANGED <<provider, pipe, index, seen, opens, inflight, line, snap, quiet, call, opened, raced>>

\* the staged cube's exact size decides; the rename publishes it
WriteLands ==
  /\ AtWork("staged") /\ store[Job] = "none"
  /\ \E bytes \in Sizes :
       /\ bytes <= CubeLimit
       /\ store' = [store EXCEPT ![Job] = "cube"] /\ size' = [size EXCEPT ![Job] = bytes]
  /\ lru' = Append(lru, Job)
  /\ raced' = Witness(HandleOf(Job), Job)
  /\ stage' = "noting"
  /\ UNCHANGED <<provider, pipe, index, seen, opens, inflight, line, snap, quiet, call, opened>>

\* too large, a full disk, or data that breaks the cube contract (remembered)
WriteFails ==
  /\ AtWork("staged")
  /\ \/ UNCHANGED disk
     \/ /\ store[Job] = "none"
        /\ store' = [store EXCEPT ![Job] = "refused"] /\ UNCHANGED <<size, lru>>
  /\ Done
  /\ UNCHANGED <<provider, pipe, index, seen, opens, quiet, call, opened, raced>>

\* note_handle reads the index ...
WriteNotes ==
  /\ AtWork("noting")
  /\ IF index[HandleOf(Job)] = Job THEN Done
     ELSE snap' = index /\ stage' = "indexing" /\ UNCHANGED <<inflight, line>>
  /\ UNCHANGED <<provider, pipe, disk, index, seen, opens, quiet, call, opened, raced>>
\* ... and replaces it with what it read plus its own entry
WriteIndexes ==
  LET new == [snap EXCEPT ![HandleOf(Job)] = Job] IN
  /\ AtWork("indexing")
  /\ index' = new
  /\ raced' = Witness(HandleOf(Job), Job) \cup Hidden(new)
  /\ Done
  /\ UNCHANGED <<provider, pipe, disk, seen, opens, quiet, call, opened>>

(***************************************************************************)
(* The environment: exports expire, the process restarts.                  *)
(***************************************************************************)
Expires(h) ==
  /\ expiries < MaxExpiries /\ ready[h]
  /\ ready' = [ready EXCEPT ![h] = FALSE] /\ expiries' = expiries + 1
  /\ UNCHANGED <<delivered, pipe, disk, index, seen, opens, writer, quiet, call, opened, raced>>

\* an entry being removed when the process died is torn
Removable ==
  (IF AtWork("released") THEN {lru[i] : i \in 1..Len(lru)} ELSE {})
  \cup {index[call[c].h] : c \in {d \in Callers : At(d, "opens")}}
Tearings == {{}} \cup {{k} : k \in {x \in Removable : x \in Keys /\ store[x] = "cube"}}

\* sweep_store on the way up, then rebuild_index from the manifests left
SweepDrops(k, p) == HasManifest(k) /\ k[3] # p
Manifests == {k \in Keys : store[k] \in {"cube", "torn"}}
Rebuilt ==
  {f \in [Handles -> {NoKey} \cup Manifests'] :
     \A h \in Handles : LET mine == {k \in Manifests' : HandleOf(k) = h} IN
       IF mine = {} THEN f[h] = NoKey ELSE f[h] \in mine}

Restarts ==
  /\ pipe < MaxPipe
  /\ \E torn \in Tearings, p \in {pipe, pipe + 1} :
       LET gone == {k \in Keys : SweepDrops(k, p)} IN
       /\ pipe' = p
       /\ store' = [k \in Keys |-> IF k \in gone THEN "none"
                                   ELSE IF k \in torn THEN "torn" ELSE store[k]]
       /\ size' = [k \in Keys |-> IF k \in gone THEN 0 ELSE size[k]]
       /\ lru' = Without(lru, gone)
  /\ index' \in Rebuilt
  /\ raced' = raced \cup {call[c].h : c \in {d \in Callers : At(d, "reexports") \/ At(d, "opens")}}
  /\ opens' = [k \in Keys |-> 0]
  /\ inflight' = {} /\ line' = <<>> /\ stage' = "waiting"
  /\ snap' = Empty /\ seen' = [c \in Callers |-> Empty]
  /\ turns' = 0 /\ idle' = TRUE
  /\ call' = [c \in Callers |-> Free]
  /\ UNCHANGED <<provider, opened>>

CallerSteps(c) ==
  \/ AskHits(c) \/ AskMisses(c) \/ AskForgets(c) \/ Forgets(c)
  \/ Rematerialises(c) \/ Reexports(c)
  \/ Reconciles(c) \/ Drops(c) \/ Looks(c) \/ Notes(c)
WriterSteps ==
  \/ QuietComes \/ GivesUp \/ WriteSkips \/ WriteEvicts \/ WriteLands \/ WriteFails
  \/ WriteNotes \/ WriteIndexes

CubeNext ==
  \/ \E c \in Callers, h \in Handles : Starts(c, h)
  \/ \E c \in Callers : CallerSteps(c) \/ Ends(c)
  \/ WriterSteps
  \/ \E h \in Replayed : Expires(h)
  \/ Restarts

CubeSpec == CubeInit /\ [][CubeNext]_cubeVars

(***************************************************************************)
(* Properties.                                                             *)
(***************************************************************************)
\* A caller is never handed a torn entry, nor one another pipeline version
\* wrote: what it begins to read is a whole cube of the running pipeline,
\* whatever crashed, was evicted or was superseded before (validate,
\* sweep_store and the manifest as completion marker).
ServesWholeCubes ==
  [][\A c \in Callers :
       call'[c].key # call[c].key /\ call'[c].key # NoKey
         => store[call'[c].key] = "cube" /\ call'[c].key[3] = pipe]_cubeVars

\* An index entry that would serve data the handle no longer delivers exists
\* only until the call that had the data delivered anew reconciles it, unless
\* the cube or the index was being written while the data changed, another
\* change of the index put that entry out of sight, or that call was lost;
\* reconciling takes the entry and the cube, so it does not come back by a
\* restart (reconcile_handle's argument, with the windows it leaves named).
StaleIndexNeedsARace ==
  \A h \in Handles \ Digestless :
    LET k == index[h] IN
    k # NoKey /\ store[k] = "cube" /\ VersionOf(k) # delivered[h]
      /\ ~(\E c \in Callers : call[c].h = h /\ call[c].pc \in {"reexports", "opens"})
      => h \in raced

\* The store exceeds its cap by less than one cube, however far estimates are
\* off: room is made before each write, one write runs at a time, and the
\* exact size of the staged cube is checked (evict_to_fit, write_cube).
StoreBounded == Total < Capacity + CubeLimit

\* Making room never takes the cube a turn is lazily reading, unless that turn
\* began after the writer had seen the process quiet: the quiet wait is what
\* protects readers (active_turn, _await_quiet_turn).
EvictionSparesTurns ==
  [][\A t \in Turns :
       WriteEvicts /\ ~At(t, "idle") /\ call[t].key # NoKey /\ ~call[t].met
         => store'[call[t].key] = store[call[t].key]]_cubeVars

\* Every in-flight mark has its queued task, and only one, however the task
\* ends: a mark left behind would keep its source uncached for the life of the
\* process, a missing one would cube it twice (the finally of _write_task).
MarksHaveTasks ==
  /\ inflight = {line[i] : i \in 1..Len(line)}
  /\ \A i, j \in 1..Len(line) : line[i] = line[j] => i = j

\* What the cache holds and knows: an index entry is stale only after a race
\* that is named, the store stays within its capacity and one write, and a key
\* marked as being written has a task that will unmark it.
CubesAreAccounted ==
  /\ CubeTypeOK /\ StaleIndexNeedsARace /\ StoreBounded /\ MarksHaveTasks

\* A look-up hands out nothing but a whole cube of the running pipeline's
\* version, and no eviction takes a cube while a turn may be reading it.
CubesStay == ServesWholeCubes /\ EvictionSparesTurns
=============================================================================
