---------------------------- MODULE ExtractCache ----------------------------
(***************************************************************************)
(* The bundle-extract cache (services/open_handle.py): the members of a    *)
(* zip bundle are extracted into a directory that outlives the call,       *)
(* because the Dataset built on it reads lazily.  Every open first prunes, *)
(* by age and then by size, then adopts a directory that carries the       *)
(* completion marker or extracts into a staging directory and renames it.  *)
(* Opens run on several threads, and a removal is one file at a time.      *)
(*                                                                         *)
(* A directory is a bundle's (final) or an open's (staging).  An entry     *)
(* ages only while no call reads it: a tool call is far shorter than the   *)
(* cache's time to live.  A cube write is not: it is queued by the open    *)
(* and pins the directory it reads only when it begins, after the write    *)
(* semaphore and the wait for a quiet turn, so that meanwhile the          *)
(* directory may age and be removed.                                       *)
(***************************************************************************)
EXTENDS Naturals, Sequences, FiniteSets, SequencesExt, Subsequences

CONSTANTS Openers, Bundles,
          Contents,   \* the files of a bundle
          Cap,       \* bundle_extract_cache_max_bytes, in directories
          MaxOpenings   \* bound: opens

ASSUME ExtractAssumption ==
    /\ Openers \cap Bundles = {} /\ "none" \notin Bundles /\ "marker" \notin Contents
    /\ Cap \in Nat /\ MaxOpenings \in Nat

Dirs == Bundles \cup Openers
Files == Contents \cup {"marker"}

VARIABLES
    files,    \* what each directory holds
    recent,   \* existing directories, oldest modification first
    old,      \* directories nobody has touched for a time to live
    opener,   \* each thread's open
    queued,   \* bundles a scheduled cube write has yet to begin reading
    pinned,   \* bundles a cube write holds
    excused,  \* directories that lost files to a removal for space, to one decided
              \* before they were last used, or before their write began
    openings

extractVars == <<files, recent, old, opener, queued, pinned, excused, openings>>

There == ToSet(recent)
Unused == [at |-> "free", bundle |-> "none", doomed |-> <<>>, todo |-> {}, broken |-> FALSE]
Complete(d) == Contents \subseteq files[d]

Openings ==
    [at : {"free", "remove", "check", "extract", "mark", "rename", "read"},
     bundle : Bundles \cup {"none"}, doomed : Seq(Dirs \X {"age", "size"}),
     todo : SUBSET Contents, broken : BOOLEAN]

ExtractTypeOK ==
    /\ files \in [Dirs -> SUBSET Files]
    /\ recent \in Seq(Dirs) /\ IsInjective(recent)
    /\ \A d \in Dirs \ There : files[d] = {}
    /\ old \subseteq There
    /\ opener \in [Openers -> Openings]
    /\ queued \subseteq Bundles /\ pinned \subseteq Bundles
    /\ excused \subseteq Dirs /\ openings \in 0 .. MaxOpenings

ExtractInit ==
    /\ files = [d \in Dirs |-> {}] /\ recent = <<>> /\ old = {}
    /\ opener = [o \in Openers |-> Unused]
    /\ queued = {} /\ pinned = {} /\ excused = {} /\ openings = 0

\* A write inside d, or os.utime: now the youngest.
Touched(d) == Append(Without(recent, {d}), d)

\* The age pass, then the size pass over what it leaves, oldest first; pinned
\* directories are in neither.
AgePass == Within(recent, old \ pinned)
Survivors == Without(recent, old \cup pinned)
SizePass == SubSeq(Survivors, 1, IF Len(Survivors) > Cap THEN Len(Survivors) - Cap ELSE 0)
Doomed == [i \in 1 .. Len(AgePass) + Len(SizePass) |->
              IF i <= Len(AgePass) THEN <<AgePass[i], "age">>
              ELSE <<SizePass[i - Len(AgePass)], "size">>]

\* _extract_bundle_cached begins: what to remove is decided on one reading.
OpenBegins(o, b) ==
    /\ opener[o].at = "free" /\ openings < MaxOpenings
    /\ openings' = openings + 1
    /\ opener' = [opener EXCEPT ![o] = [Unused EXCEPT !.at = "remove", !.bundle = b,
                                                    !.doomed = Doomed]]
    /\ UNCHANGED <<files, recent, old, queued, pinned, excused>>

\* The directory is used again after the removal was decided.
Late(d, why) == why = "age" /\ d \notin old

\* rmtree: one file, or the emptied directory.
Removes(o) ==
    LET d == Head(opener[o].doomed)[1]
        why == Head(opener[o].doomed)[2]
    IN  /\ opener[o].at = "remove" /\ opener[o].doomed # <<>>
        /\ excused' = IF why = "size" \/ Late(d, why)
                      THEN excused \cup {d} ELSE excused
        /\ IF files[d] # {}
           THEN /\ \E f \in files[d] : files' = [files EXCEPT ![d] = @ \ {f}]
                /\ UNCHANGED <<recent, old, opener>>
           ELSE /\ recent' = Without(recent, {d})
                /\ old' = old \ {d}
                /\ opener' = [opener EXCEPT ![o].doomed = Tail(@)]
                /\ UNCHANGED files
        /\ UNCHANGED <<queued, pinned, openings>>

PruneEnds(o) ==
    /\ opener[o].at = "remove" /\ opener[o].doomed = <<>>
    /\ opener' = [opener EXCEPT ![o].at = "check"]
    /\ UNCHANGED <<files, recent, old, queued, pinned, excused, openings>>

\* A removal is at work on d.
UnderRemoval(d) == \E o \in Openers : opener[o].at = "remove" /\ opener[o].doomed # <<>>
                                      /\ Head(opener[o].doomed)[1] = d

\* Mutant of Adopts.
AdoptsUntouched(o) ==
    LET b == opener[o].bundle IN
    /\ opener[o].at = "check" /\ "marker" \in files[b]
    /\ opener' = [opener EXCEPT ![o].at = "read"]
    /\ excused' = IF UnderRemoval(b) THEN excused \cup {b} ELSE excused
    /\ UNCHANGED <<files, recent, old, queued, pinned, openings>>
\* The marker is there: adopt the directory and keep it young.
Adopts(o) ==
    LET b == opener[o].bundle IN
    /\ opener[o].at = "check" /\ "marker" \in files[b]
    /\ recent' = Touched(b) /\ old' = old \ {b}
    /\ opener' = [opener EXCEPT ![o].at = "read"]
    /\ excused' = IF UnderRemoval(b) THEN excused \cup {b} ELSE excused
    /\ UNCHANGED <<files, queued, pinned, openings>>

\* No marker: extract into a staging directory.
Stages(o) ==
    /\ opener[o].at = "check" /\ "marker" \notin files[opener[o].bundle]
    /\ recent' = Touched(o)
    /\ opener' = [opener EXCEPT ![o] = [@ EXCEPT !.at = "extract", !.todo = Contents]]
    /\ UNCHANGED <<files, old, queued, pinned, excused, openings>>

\* One member; zipfile makes the directory again when it has gone.
Extracts(o, f) ==
    /\ opener[o].at = "extract" /\ f \in opener[o].todo
    /\ files' = [files EXCEPT ![o] = @ \cup {f}]
    /\ recent' = Touched(o)
    /\ excused' = IF o \in There THEN excused ELSE excused \cup {o}
    /\ opener' = [opener EXCEPT ![o].todo = @ \ {f},
                                ![o].at = IF opener[o].todo = {f} THEN "mark" ELSE "extract"]
    /\ UNCHANGED <<old, queued, pinned, openings>>

\* The open gives up: its staging directory goes with it.
Fails(o) ==
    /\ files' = [files EXCEPT ![o] = {}]
    /\ recent' = Without(recent, {o})
    /\ old' = old \ {o} /\ excused' = excused \ {o}
    /\ opener' = [opener EXCEPT ![o] = Unused]

\* A bad member, a full disk.
ExtractFails(o) ==
    /\ opener[o].at = "extract"
    /\ Fails(o)
    /\ UNCHANGED <<queued, pinned, openings>>

\* The marker goes in last; without a directory that fails.
Marks(o) ==
    /\ opener[o].at = "mark"
    /\ IF o \in There
       THEN /\ files' = [files EXCEPT ![o] = @ \cup {"marker"}]
            /\ recent' = Touched(o)
            /\ opener' = [opener EXCEPT ![o].at = "rename"]
            /\ UNCHANGED <<old, excused>>
       ELSE Fails(o)
    /\ UNCHANGED <<queued, pinned, openings>>

\* The rename takes an absent or an emptied place; over anything else it fails,
\* and then a marker there means another open won.
Renames(o) ==
    LET b == opener[o].bundle IN
    /\ opener[o].at = "rename"
    /\ IF o \in There /\ files[b] = {}
       THEN /\ files' = [files EXCEPT ![b] = files[o], ![o] = {}]
            /\ recent' = Append(Without(recent, {o, b}), b)
            /\ old' = old \ {o, b}
            /\ excused' = IF o \in excused THEN (excused \ {o}) \cup {b} ELSE excused \ {o, b}
            /\ opener' = [opener EXCEPT ![o].at = "read"]
       ELSE IF "marker" \in files[b]
       THEN /\ files' = [files EXCEPT ![o] = {}]
            /\ recent' = Without(recent, {o})
            /\ old' = old \ {o} /\ excused' = excused \ {o}
            /\ opener' = [opener EXCEPT ![o].at = "read"]
       ELSE Fails(o)
    /\ UNCHANGED <<queued, pinned, openings>>

\* A lazy read, up to the end of the tool call.
Reads(o) ==
    /\ opener[o].at = "read" /\ ~opener[o].broken
    /\ opener' = [opener EXCEPT ![o].broken = ~Complete(opener[o].bundle)]
    /\ UNCHANGED <<files, recent, old, queued, pinned, excused, openings>>

\* Some removal, decided earlier, still has b in its list.
Condemned(b) == \E o \in Openers : \E i \in DOMAIN opener[o].doomed : opener[o].doomed[i][1] = b

\* _consider_cube: the open's Dataset is to be written to a cube, by a task that
\* has not begun.  One write to a key.
Queues(o) ==
    /\ opener[o].at = "read" /\ opener[o].bundle \notin queued \cup pinned
    /\ queued' = queued \cup {opener[o].bundle}
    /\ UNCHANGED <<files, recent, old, opener, pinned, excused, openings>>

\* The tool call ends.
Closes(o) ==
    /\ opener[o].at = "read"
    /\ opener' = [opener EXCEPT ![o] = Unused]
    /\ UNCHANGED <<files, recent, old, queued, pinned, excused, openings>>

\* The write has the semaphore and found the process quiet: it pins the directory
\* as it finds it.
Pins(b) ==
    /\ b \in queued /\ pinned = {}
    /\ queued' = queued \ {b} /\ pinned' = {b}
    /\ excused' = IF Condemned(b) \/ ~Complete(b) THEN excused \cup {b} ELSE excused
    /\ UNCHANGED <<files, recent, old, opener, openings>>

\* No quiet turn in time: the write is given up.
Abandons(b) ==
    /\ b \in queued
    /\ queued' = queued \ {b}
    /\ UNCHANGED <<files, recent, old, opener, pinned, excused, openings>>

\* The write ends, well or not.
Unpins(b) ==
    /\ b \in pinned
    /\ pinned' = pinned \ {b}
    /\ UNCHANGED <<files, recent, old, opener, queued, excused, openings>>

\* A time to live passes over a directory no call wants, reads or removes.
Passes(d) ==
    /\ d \in There \ old
    /\ \A o \in Openers : o # d /\ opener[o].bundle # d
    /\ ~Condemned(d)
    /\ old' = old \cup {d}
    /\ UNCHANGED <<files, recent, opener, queued, pinned, excused, openings>>

ExtractNext ==
    \/ \E o \in Openers : \/ \E b \in Bundles : OpenBegins(o, b)
                          \/ Removes(o) \/ PruneEnds(o) \/ Adopts(o) \/ Stages(o)
                          \/ \E f \in Contents : Extracts(o, f)
                          \/ ExtractFails(o) \/ Marks(o) \/ Renames(o) \/ Reads(o)
                          \/ Queues(o) \/ Closes(o)
    \/ \E b \in Bundles : Pins(b) \/ Abandons(b) \/ Unpins(b)
    \/ \E d \in Dirs : Passes(d)

ExtractSpec == ExtractInit /\ [][ExtractNext]_extractVars

-----------------------------------------------------------------------------
(* Properties. *)

\* A directory that carries the marker is complete, however many openings of the
\* bundle race, unless a removal for space, or one decided before the directory
\* was used again, has taken files from it (_extract_bundle_cached).
MarkedMeansWhole ==
    \A b \in Bundles : "marker" \in files[b] => Complete(b) \/ b \in excused \/ UnderRemoval(b)

\* A lazy reader finds every member for as long as its call lasts, with the
\* same exception: age alone never takes a directory from it.
ReadersKeepMembers ==
    \A o \in Openers : opener[o].at = "read" =>
        Complete(opener[o].bundle) \/ opener[o].bundle \in excused

\* A directory that a cube write found whole when it pinned it stays whole until
\* the write ends, unless a removal decided before the pin had it in its list.
\* (What it lost while the write was queued, it lost: _write_task.)
PinsHold == \A b \in pinned : Complete(b) \/ b \in excused

\* A marked directory is whole, and a reader or a cube write that holds a bundle
\* finds all its members, but for removals that are named.
ExtractsAreWhole == ExtractTypeOK /\ MarkedMeansWhole /\ ReadersKeepMembers /\ PinsHold
=============================================================================
