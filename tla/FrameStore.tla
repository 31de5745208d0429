----------------------------- MODULE FrameStore -----------------------------
(***************************************************************************)
(* The frame blob store (services/frame_store.py): a chart's frame stack   *)
(* is written as one entry per statistic, each a directory holding the     *)
(* blob and a manifest that records the statistic, the pipeline version    *)
(* and the blob's digest.  Writers on different threads evict the least    *)
(* recently used entries to make room, readers serve the bytes as they     *)
(* stand, and a restart sweeps what a crash left behind.                   *)
(*                                                                         *)
(* Keys are fresh for every write, so an entry is named by its chart and   *)
(* its plane.  A crash may lose bytes that were written but never synced   *)
(* (a failed fsync is ignored) and may stop a removal half way.            *)
(***************************************************************************)
EXTENDS Naturals, Sequences, FiniteSets, SequencesExt, Subsequences

CONSTANTS Charts, Readers,
          Planes,      \* the statistics of one stack, the mean first
          Limit,       \* frame_store_max_bytes, in entries
          MaxPipeline, \* bound: pipeline versions
          MaxCrashes   \* bound: crashes

ASSUME FrameAssumption ==
    /\ IsFiniteSet(Charts) /\ Limit \in Nat /\ MaxPipeline \in Nat \ {0} /\ MaxCrashes \in Nat
    /\ Planes \in Seq(ToSet(Planes)) /\ Planes # <<>> /\ IsInjective(Planes)

EntryKeys == Charts \X ToSet(Planes)

VARIABLES
    blob,      \* each entry's bytes: "none", "whole" or "torn"
    manifest,  \* each entry's manifest: the version it was written under, or 0
    ages,      \* entries by last access, oldest first
    staging,   \* staging directories on disk
    unsynced,  \* entries whose bytes a crash may still lose
    writes,   \* each chart's store_frame_stack
    reader,    \* each request's read_frames
    clean,     \* charts whose write no other write has overlapped
    version, crashes

frameVars == <<blob, manifest, ages, staging, unsynced, writes, reader, clean, version, crashes>>
diskVars == <<blob, manifest, ages>>

NoWrite == [at |-> "idle", plane |-> 1, queue |-> <<>>, total |-> 0, landed |-> {}]
NoRead == [at |-> "idle", key |-> <<>>, got |-> "none"]

\* _entries: what the manifest says is complete.
Entries == {k \in EntryKeys : manifest[k] # 0}
OnDisk == {k \in EntryKeys : blob[k] # "none" \/ manifest[k] # 0}
KeyOf(c) == <<c, Planes[writes[c].plane]>>
Others(c) == {d \in Charts \ {c} : writes[d].at \in {"scan", "evict"}}

Writes ==
    [at : {"idle", "scan", "evict", "done", "dead"}, plane : 1 .. Len(Planes),
     queue : Seq(EntryKeys), total : Nat, landed : SUBSET EntryKeys]

FrameTypeOK ==
    /\ blob \in [EntryKeys -> {"none", "whole", "torn"}]
    /\ manifest \in [EntryKeys -> 0 .. MaxPipeline]
    /\ ages \in Seq(EntryKeys) /\ IsInjective(ages) /\ ToSet(ages) = OnDisk
    /\ staging \subseteq EntryKeys /\ unsynced \subseteq EntryKeys
    /\ writes \in [Charts -> Writes]
    /\ reader \in [Readers -> [at : {"idle", "opened", "over"}, key : EntryKeys \cup {<<>>},
                                got : {"none", "whole", "torn"}]]
    /\ clean \subseteq Charts
    /\ version \in 1 .. MaxPipeline /\ crashes \in 0 .. MaxCrashes

FrameInit ==
    /\ blob = [k \in EntryKeys |-> "none"] /\ manifest = [k \in EntryKeys |-> 0]
    /\ ages = <<>> /\ staging = {} /\ unsynced = {}
    /\ writes = [c \in Charts |-> NoWrite] /\ reader = [r \in Readers |-> NoRead]
    /\ clean = {} /\ version = 1 /\ crashes = 0

\* The entries of K are gone from the disk.
Removed(K) ==
    /\ blob' = [k \in EntryKeys |-> IF k \in K THEN "none" ELSE blob[k]]
    /\ manifest' = [k \in EntryKeys |-> IF k \in K THEN 0 ELSE manifest[k]]
    /\ ages' = Without(ages, K)

-----------------------------------------------------------------------------
(* Writing. *)

\* A chart begins to store its stack.
StoreBegins(c) ==
    /\ writes[c].at = "idle"
    /\ writes' = [writes EXCEPT ![c].at = "scan"]
    /\ clean' = IF Others(c) = {} THEN (clean \cup {c}) \ (Charts \ {c})
                ELSE {}
    /\ UNCHANGED <<diskVars, staging, unsynced, reader, version, crashes>>

\* evict_to_fit reads the directory once.
Scans(c) ==
    /\ writes[c].at = "scan"
    /\ writes' = [writes EXCEPT ![c] = [@ EXCEPT
                    !.at = "evict", !.total = Cardinality(Entries),
                    !.queue = Within(ages, Entries)]]
    /\ UNCHANGED <<diskVars, staging, unsynced, reader, clean, version, crashes>>

\* protect: the stack's own entries that already landed.
Spared(c, k) == k \in writes[c].landed

\* evict_to_fit's loop: the oldest entry of that reading goes, whether or not
\* another thread has removed it since.
EvictsOne(c) ==
    LET k == Head(writes[c].queue) IN
    /\ writes[c].at = "evict" /\ writes[c].queue # <<>>
    /\ writes[c].total + 1 > Limit
    /\ IF Spared(c, k)
       THEN /\ writes' = [writes EXCEPT ![c].queue = Tail(@)]
            /\ UNCHANGED diskVars
       ELSE /\ writes' = [writes EXCEPT ![c].queue = Tail(@), ![c].total = @ - 1]
            /\ Removed({k})
    /\ UNCHANGED <<staging, unsynced, reader, clean, version, crashes>>

\* The next plane of the stack, or its end.
Advanced(w, landed) ==
    IF w.plane = Len(Planes) THEN [NoWrite EXCEPT !.at = "done", !.landed = landed]
    ELSE [NoWrite EXCEPT !.at = "scan", !.plane = w.plane + 1, !.landed = landed]

\* _write_entry: blob and manifest are staged and synced (at best), and appear
\* together.
Lands(c, synced) ==
    LET w == writes[c]
        k == KeyOf(c)
    IN  /\ w.at = "evict"
        /\ w.total + 1 <= Limit \/ w.queue = <<>>
        /\ blob' = [blob EXCEPT ![k] = "whole"]
        /\ manifest' = [manifest EXCEPT ![k] = version]
        /\ ages' = Append(ages, k)
        /\ unsynced' = IF synced THEN unsynced ELSE unsynced \cup {k}
        /\ writes' = [writes EXCEPT ![c] = Advanced(w, w.landed \cup {k})]
        /\ UNCHANGED <<staging, reader, clean, version, crashes>>

\* A write that fails costs the chart that plane and nothing else.
WriteDegrades(c) ==
    /\ writes[c].at = "evict"
    /\ writes' = [writes EXCEPT ![c] = Advanced(@, @.landed)]
    /\ UNCHANGED <<diskVars, staging, unsynced, reader, clean, version, crashes>>

-----------------------------------------------------------------------------
(* Reading. *)

\* A request reads the manifest; one of another version condemns the entry.
OpensEntry(r, k) ==
    /\ reader[r].at = "idle"
    /\ writes[k[1]].at = "done" /\ k \in writes[k[1]].landed
    /\ IF manifest[k] = 0
       THEN reader' = [reader EXCEPT ![r] = [NoRead EXCEPT !.at = "over"]] /\ UNCHANGED diskVars
       ELSE IF manifest[k] # version
       THEN reader' = [reader EXCEPT ![r] = [NoRead EXCEPT !.at = "over"]] /\ Removed({k})
       ELSE reader' = [reader EXCEPT ![r] = [NoRead EXCEPT !.at = "opened", !.key = k]]
            /\ UNCHANGED diskVars
    /\ UNCHANGED <<staging, unsynced, writes, clean, version, crashes>>

\* Mutant of Intact.
IntactOnDisk(bytes) == bytes # "none"
\* _intact: the length and the digest of the bytes just read.
Intact(bytes) == bytes = "whole"

\* The blob is read, checked and served, and the entry is touched; otherwise
\* the entry is removed.
ReadsBlob(r) ==
    LET k == reader[r].key IN
    /\ reader[r].at = "opened"
    /\ IF Intact(blob[k])
       THEN /\ reader' = [reader EXCEPT ![r] = [@ EXCEPT !.at = "over", !.got = blob[k]]]
            /\ ages' = Append(Without(ages, {k}), k)
            /\ UNCHANGED <<blob, manifest>>
       ELSE /\ reader' = [reader EXCEPT ![r] = [@ EXCEPT !.at = "over"]]
            /\ Removed({k})
    /\ UNCHANGED <<staging, unsynced, writes, clean, version, crashes>>

-----------------------------------------------------------------------------
(* Crash and restart. *)

\* What a crash may catch half removed.
BeingRemoved == {k \in OnDisk : \E c \in Charts :
    writes[c].at = "evict" /\ writes[c].queue # <<>> /\ Head(writes[c].queue) = k}

\* sweep_store: staging directories, entries without a manifest and entries of
\* another version.
Swept(m, v) == {k \in EntryKeys : m[k] # v}
Leftovers(found) == {}

\* The process dies: unsynced bytes may be torn, a removal may stop half way,
\* a staged write leaves its directory.  The next start sweeps.
CrashesAndRestarts(T, B, M, v) ==
    /\ crashes < MaxCrashes /\ crashes' = crashes + 1
    /\ T \subseteq unsynced \cap OnDisk
    /\ B \subseteq BeingRemoved /\ M \subseteq BeingRemoved
    /\ v \in {version, version + 1} /\ v <= MaxPipeline
    /\ LET b == [k \in EntryKeys |-> IF k \in B THEN "none" ELSE IF k \in T THEN "torn" ELSE blob[k]]
           m == [k \in EntryKeys |-> IF k \in M THEN 0 ELSE manifest[k]]
           D == Swept(m, v)
       IN  /\ blob' = [k \in EntryKeys |-> IF k \in D THEN "none" ELSE b[k]]
           /\ manifest' = [k \in EntryKeys |-> IF k \in D THEN 0 ELSE m[k]]
           /\ ages' = Without(ages, D)
    /\ staging' = Leftovers({KeyOf(c) : c \in {d \in Charts : writes[d].at = "evict"}})
    /\ version' = v /\ unsynced' = {} /\ clean' = {}
    /\ writes' = [c \in Charts |-> IF writes[c].at = "done" THEN writes[c]
                                 ELSE [NoWrite EXCEPT !.at = "dead"]]
    /\ reader' = [r \in Readers |-> NoRead]

FrameNext ==
    \/ \E c \in Charts : \/ StoreBegins(c) \/ Scans(c) \/ EvictsOne(c) \/ WriteDegrades(c)
                         \/ \E synced \in BOOLEAN : Lands(c, synced)
    \/ \E r \in Readers : ReadsBlob(r) \/ \E k \in EntryKeys : OpensEntry(r, k)
    \/ \E T, B, M \in SUBSET OnDisk, v \in 1 .. MaxPipeline : CrashesAndRestarts(T, B, M, v)

FrameSpec == FrameInit /\ [][FrameNext]_frameVars
-----------------------------------------------------------------------------
(* Properties. *)

\* What a request is served is what was written, whole, although entries are
\* evicted between its two reads and a crash may have torn one (read_frames).
FramesServedWhole == \A r \in Readers : reader[r].got \in {"none", "whole"}

\* Each writer makes room from a reading of its own, and removals are counted
\* whether or not they removed anything: the cap, or one stack when the cap is
\* less, is overrun by no more than one entry for every other writer at work
\* (evict_to_fit).
Room == IF Limit < Len(Planes) THEN Len(Planes) ELSE Limit
FramesBounded == Cardinality(Entries) <= Room + Cardinality(Charts) - 1

\* A stack whose write nothing overlapped has every plane that landed, however
\* requests reorder the entries meanwhile (protect).
OwnPlanesSurvive == \A c \in clean : writes[c].landed \subseteq Entries

\* No crash, half-done removal or release leaves bytes the cap does not count,
\* or entries of a pipeline that no longer runs (sweep_store).
SweptClean == staging = {} /\ \A k \in OnDisk : manifest[k] = version

\* What a reader is served is whole, the store is bounded but for the entries
\* under way, a chart that nobody overlapped keeps all its planes, and a restart
\* leaves only entries of the running version.
FramesAreWhole ==
  /\ FrameTypeOK /\ FramesServedWhole /\ FramesBounded /\ OwnPlanesSurvive /\ SweptClean
=============================================================================
