---------------------------- MODULE ThreadContext ----------------------------
(***************************************************************************)
(* What a conversation remembers of its satellite work between turns:      *)
(* services/subagent_dispatch.py over the satellite_context column of      *)
(* session_metadata.                                                       *)
(*                                                                         *)
(* A run is one satellite agent at work on one task.  The runs of a batch  *)
(* are dispatched together; a batch saves what its runs captured once they *)
(* all ended, batches of one turn one at a time.  A fast run is a batch of *)
(* its own that read the context before it began.  A saved area is a place *)
(* and the handle the workspace drew for it, either of which may be        *)
(* missing; the search terms and the time range are left out.              *)
(***************************************************************************)
EXTENDS Integers, Sequences, FiniteSets, SequencesExt, FiniteSetsExt

CONSTANTS
    Runs,           \* in request order: integers
    BatchOf,        \* the batch of each run
    Places,
    MaxCalls,       \* bound: calls one run makes
    MaxHandles,     \* bound: areas drawn in all
    MaxDbFaults     \* bound: failed reads and writes of the column

ASSUME ThreadContextAssumption ==
    /\ Runs \subseteq Nat /\ BatchOf \in [Runs -> Nat \ {0}]
    /\ MaxCalls \in Nat /\ MaxHandles \in Nat /\ MaxDbFaults \in Nat

VARIABLES
    saved,      \* the column
    batch,      \* "idle", "running", "merging", "done"
    fast,       \* the batches that are a fast run
    prior,      \* what each batch read
    held,       \* the batch that holds dispatch_persist_lock, or 0
    work,       \* what each run captured
    offers,     \* the area each run was offered at its start
    drawn,      \* the place the workspace drew each handle for
    dbFaults,
    muddled,    \* handles a run used that its last area call had not drawn
    nameable    \* charts a follow-up must be able to name

contextVars == <<saved, batch, fast, prior, held, work, offers, drawn, dbFaults, muddled, nameable>>

Batches == {BatchOf[r] : r \in Runs}
RunsOf(b) == {r \in Runs : BatchOf[r] = b}
NoArea == [place |-> "none", handle |-> 0]
NoContext == [place |-> "none", handle |-> 0, charts |-> {}]
\* captured_context of a run that has done nothing, and the handle its last
\* area call was answered with.
NoWork == [place |-> "none", handle |-> 0, charts |-> {}, calls |-> 0, latest |-> 0]

ContextTypeOK ==
    /\ saved.place \in Places \cup {"none"} /\ saved.handle \in 0 .. MaxHandles
    /\ saved.charts \subseteq Runs
    /\ batch \in [Batches -> {"idle", "running", "merging", "done"}]
    /\ fast \subseteq Batches
    /\ held \in Batches \cup {0}
    /\ \A r \in Runs : work[r].calls \in 0 .. MaxCalls
    /\ Len(drawn) <= MaxHandles

ContextInit ==
    /\ saved = NoContext /\ drawn = <<>> /\ held = 0 /\ dbFaults = 0 /\ fast = {}
    /\ batch = [b \in Batches |-> "idle"]
    /\ prior = [b \in Batches |-> NoContext]
    /\ work = [r \in Runs |-> NoWork]
    /\ offers = [r \in Runs |-> NoArea]
    /\ muddled = {} /\ nameable = {}

-----------------------------------------------------------------------------

\* _load_satellite_context: a failed read is an empty context.
Loaded(failed) == IF failed THEN NoContext ELSE saved
MayFault(failed) ==
    failed => dbFaults < MaxDbFaults
CountFault(failed) == dbFaults' = IF failed THEN dbFaults + 1 ELSE dbFaults

\* _inject_satellite_context: a handle is offered only with its place.
Offered(context) ==
    [place |-> context.place, handle |-> IF context.place = "none" THEN 0 ELSE context.handle]

\* The supervisor dispatches several batches in one turn, a fast run is a turn
\* by itself.
BatchStarts(b) ==
    /\ batch[b] = "idle"
    /\ LET busy == {o \in Batches : batch[o] \in {"running", "merging"}} IN
       /\ busy \cap fast = {}
       /\ \/ UNCHANGED fast
          \/ busy = {} /\ Cardinality(RunsOf(b)) = 1 /\ fast' = fast \cup {b}
    /\ batch' = [batch EXCEPT ![b] = "running"]
    /\ \E failed \in BOOLEAN :
       /\ MayFault(failed) /\ CountFault(failed)
       /\ prior' = [prior EXCEPT ![b] = Loaded(failed)]
       /\ offers' = [r \in Runs |-> IF BatchOf[r] = b THEN Offered(Loaded(failed))
                                    ELSE offers[r]]
    /\ UNCHANGED <<saved, held, work, drawn, muddled, nameable>>

Working(r) == batch[BatchOf[r]] = "running" /\ work[r].calls < MaxCalls

\* One call more of a run, after which it has captured w.
Does(r, w) == work' = [work EXCEPT ![r] = [w EXCEPT !.calls = work[r].calls + 1]]

\* _capture_satellite_context on an area call: the old handle goes.
Captures(w, place) == [w EXCEPT !.place = place, !.handle = 0]

\* define_area_of_interest, answered with a handle.
Defines(r, place) ==
    /\ Working(r) /\ Len(drawn) < MaxHandles
    /\ drawn' = Append(drawn, place)
    /\ Does(r, [Captures(work[r], place) EXCEPT !.latest = Len(drawn) + 1])
    /\ UNCHANGED <<saved, batch, fast, prior, held, offers, dbFaults, muddled, nameable>>

\* The area call is refused as the user's mistake; its arguments were captured
\* all the same.
IsRejected(r, place) ==
    /\ Working(r)
    /\ Does(r, [Captures(work[r], place) EXCEPT !.latest = 0])
    /\ UNCHANGED <<saved, batch, fast, prior, held, offers, drawn, dbFaults, muddled, nameable>>

\* A call that carries a handle: taken for that of the place just named, if one
\* was and had none yet; otherwise its place is not known here.
UsesArea(w, h) ==
    LET definedHere == w.place # "none" /\ w.handle = 0
    IN  [w EXCEPT !.place = IF ~definedHere /\ w.handle # h THEN "none" ELSE @, !.handle = h]

\* The run knows the handle it was offered and those it had drawn.
Uses(r, h) ==
    /\ Working(r)
    /\ h # 0 /\ (h = offers[r].handle \/ h = work[r].latest)
    /\ Does(r, UsesArea(work[r], h))
    /\ muddled' = IF work[r].place # "none" /\ work[r].handle = 0 /\ h # work[r].latest
                  THEN muddled \cup {h} ELSE muddled
    /\ UNCHANGED <<saved, batch, fast, prior, held, offers, drawn, dbFaults, nameable>>

\* A chart is streamed: its id is captured.  One chart per run.
Draws(r) ==
    /\ Working(r) /\ work[r].charts = {}
    /\ Does(r, [work[r] EXCEPT !.charts = {r}])
    /\ UNCHANGED <<saved, batch, fast, prior, held, offers, drawn, dbFaults, muddled, nameable>>

-----------------------------------------------------------------------------
(* Merging and saving. *)

Touched(w) == w.place # "none" \/ w.handle # 0

\* The area one run leaves behind, over what was saved.
Area(w, before) ==
    [place |-> IF w.place = "none" /\ w.handle = before.handle THEN before.place ELSE w.place,
     handle |-> w.handle]

\* _batch_area and merge_satellite_context.  Chart ids accumulate.
Merged(before, runs) ==
    LET areas == {Area(work[r], before) : r \in {q \in runs : Touched(work[q])}}
        area == IF areas = {} THEN [place |-> before.place, handle |-> before.handle]
                ELSE IF Cardinality(areas) > 1 THEN NoArea
                ELSE CHOOSE a \in areas : TRUE
    IN  [place |-> area.place, handle |-> area.handle,
         charts |-> before.charts \cup UNION {work[r].charts : r \in runs}]

Captured(b) == \E r \in RunsOf(b) : Touched(work[r]) \/ work[r].charts # {}
SavedCharts(b) == UNION {work[r].charts : r \in RunsOf(b)}

\* A batch that captured nothing saves nothing.
BatchEndsEmpty(b) ==
    /\ batch[b] = "running" /\ ~Captured(b)
    /\ batch' = [batch EXCEPT ![b] = "done"]
    /\ UNCHANGED <<saved, fast, prior, held, work, offers, drawn, dbFaults, muddled, nameable>>

\* Mutant of BatchReads.
BatchReadsUnlocked(b) ==
    /\ batch[b] = "running" /\ Captured(b) /\ b \notin fast
    /\ batch' = [batch EXCEPT ![b] = "merging"]
    /\ \E failed \in BOOLEAN :
       /\ MayFault(failed) /\ CountFault(failed)
       /\ prior' = [prior EXCEPT ![b] = Loaded(failed)]
       /\ nameable' = IF failed THEN {} ELSE nameable
    /\ UNCHANGED <<saved, fast, held, work, offers, drawn, muddled>>
\* persist_dispatch_contexts reads, under dispatch_persist_lock.
BatchReads(b) ==
    /\ batch[b] = "running" /\ Captured(b) /\ b \notin fast
    /\ held = 0 /\ held' = b
    /\ batch' = [batch EXCEPT ![b] = "merging"]
    /\ \E failed \in BOOLEAN :
       /\ MayFault(failed) /\ CountFault(failed)
       /\ prior' = [prior EXCEPT ![b] = Loaded(failed)]
       /\ nameable' = IF failed THEN {} ELSE nameable
    /\ UNCHANGED <<saved, fast, work, offers, drawn, muddled>>

\* _persist_satellite_context: a failed write is logged and forgotten.
BatchSaves(b) ==
    /\ \/ batch[b] = "merging"
       \/ b \in fast /\ batch[b] = "running" /\ Captured(b)
    /\ batch' = [batch EXCEPT ![b] = "done"]
    /\ held' = IF held = b THEN 0 ELSE held
    /\ \E failed \in BOOLEAN :
       /\ MayFault(failed) /\ CountFault(failed)
       /\ saved' = IF failed THEN saved ELSE Merged(prior[b], RunsOf(b))
       /\ nameable' = IF failed THEN nameable
                      ELSE (IF b \in fast THEN nameable \cap prior[b].charts ELSE nameable)
                           \cup SavedCharts(b)
    /\ UNCHANGED <<fast, prior, work, offers, drawn, muddled>>

ContextNext ==
    \/ \E b \in Batches : BatchStarts(b) \/ BatchEndsEmpty(b) \/ BatchReads(b) \/ BatchSaves(b)
    \/ \E r \in Runs : \/ Draws(r)
                       \/ \E p \in Places : Defines(r, p) \/ IsRejected(r, p)
                       \/ \E h \in 1 .. MaxHandles : Uses(r, h)

ContextSpec == ContextInit /\ [][ContextNext]_contextVars

-----------------------------------------------------------------------------
(* Properties. *)

PairFits(area) == area.place # "none" /\ area.handle # 0 => drawn[area.handle] = area.place

\* A follow-up is offered a handle only with the place it was drawn for.
HandleGoesWithItsPlace == PairFits(Offered(saved))

\* Runs merged in any number, from any reading of the column, never pair a
\* handle with another's place, unless a run itself used, right after naming a
\* place, a handle that was not that place's.
PairsBreakByMisuseOnly == muddled = {} => HandleGoesWithItsPlace

\* Every chart a saved batch drew can be named by a follow-up, although batches
\* of one turn save side by side, until a read of the column fails.
ChartsStayNameable == nameable \subseteq saved.charts

\* A batch that touched no area leaves the saved one standing, whatever failed
\* to be written; only a failed read loses it.
AreaStands ==
    [][(saved'.place # saved.place \/ saved'.handle # saved.handle)
        => dbFaults > 0 \/ \E r \in Runs : batch[BatchOf[r]] # batch'[BatchOf[r]] /\ Touched(work[r])
      ]_contextVars

\* What a thread remembers of its satellite work: the area the next run is
\* offered belongs to its place unless a run misused a handle, charts stay
\* nameable, and an area stands until another one is captured.
ContextStands == [](ContextTypeOK /\ PairsBreakByMisuseOnly /\ ChartsStayNameable) /\ AreaStands
=============================================================================
