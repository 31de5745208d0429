---------------------------- MODULE OpenPipeline ----------------------------
(***************************************************************************)
(* From an exported file to one dataset: which opener a file gets, what    *)
(* becomes of its groups, of the dimensions it names itself, of its chunk  *)
(* sizes, and how the granules of a bundle are put on one time axis        *)
(* (open_handle.py).                                                       *)
(***************************************************************************)
EXTENDS Integers, Sequences, FiniteSets, SequencesExt, FiniteSetsExt, Functions, TLC

None == 0              \* no time, no size
_WIDEST_WORKING_ITEMSIZE == 8

-----------------------------------------------------------------------------
(* The groups of a file: f.root and f.groups, each with a path, data       *)
(* variables and coordinates by leaf name, and the length it gives the     *)
(* dimension they share (None: it does not have it).                       *)

collided(f) ==
    {leaf \in UNION {g.data : g \in Range(f.groups)} :
        \E j, k \in DOMAIN f.groups : j # k /\ leaf \in f.groups[j].data \cap f.groups[k].data}

\* A leaf of several groups keeps its group's name; what it is named for.
NamesOf(f, g) ==
    [leaf \in {<<"", l>> : l \in (g.data \ collided(f)) \cup g.coords} \cup
              {<<g.path, l>> : l \in g.data \cap collided(f)} |-> <<g.path, leaf[2]>>]
\* The first dataset that has a name wins it.
Merged(maps) ==
    [n \in UNION {DOMAIN m : m \in Range(maps)} |-> maps[Min({k \in DOMAIN maps : n \in DOMAIN maps[k]})][n]]
Conflict(f) == \E g, h \in {f.root} \cup Range(f.groups) : g.size # None /\ h.size # None /\ g.size # h.size

Promoted(names, coords) == [names |-> names, coords |-> coords \cup (DOMAIN names \cap {<<"", "lat">>, <<"", "lon">>})]
Bare(g) == {<<"", l>> : l \in g.coords}
Flat(f) == \A g \in Range(f.groups) : g.data = {}
RootNames(f) == [leaf \in {<<"", l>> : l \in f.root.data \cup f.root.coords} |-> <<"/", leaf[2]>>]

\* A file whose dimensions do not fit together is read as its first group.
_open_netcdf(f) ==
    IF Flat(f) THEN [names |-> RootNames(f), coords |-> Bare(f.root)]
    ELSE IF Conflict(f) THEN Promoted(NamesOf(f, f.groups[1]), Bare(f.groups[1]))
    ELSE Promoted(Merged(<<RootNames(f)>> \o [k \in DOMAIN f.groups |-> NamesOf(f, f.groups[k])]),
                  UNION {Bare(g) : g \in {f.root} \cup Range(f.groups)})

-----------------------------------------------------------------------------
(* The dimensions of a group: placeholders, and variables that say what    *)
(* they are called, each with a name, its placeholders and its declaration. *)

Declaring(ds) == {v \in ds.vars : v.declared # <<>> /\ Len(v.declared) = Len(v.dims)}
Claims(ds, dim) ==
    {name \in UNION {{v.declared[k] : k \in {j \in DOMAIN v.dims : v.dims[j] = dim}} : v \in Declaring(ds)} :
        name \notin {"", dim}}
Free(ds, dim, name) ==
    \A v \in ds.vars : v.name = name => v.dims = <<dim>>

\* Any disagreement leaves every dimension as it was.
_apply_declared_dimension_names(ds) ==
    LET mapped == {d \in ds.dims : Claims(ds, d) # {}}
        name == [d \in mapped |-> CHOOSE n \in Claims(ds, d) : TRUE]
        agreed == /\ \A d \in mapped : \A n, m \in Claims(ds, d) : n = m
                  /\ \A d, e \in mapped : d # e => name[d] # name[e]
                  /\ \A d \in mapped : name[d] \notin ds.dims /\ Free(ds, d, name[d])
    IN [d \in ds.dims |-> IF agreed /\ d \in mapped THEN name[d] ELSE d]

-----------------------------------------------------------------------------
(* Chunks.  A variable is its dimensions' chunk lengths, as the file has   *)
(* them, and its item size; sizes agree to a length per dimension.         *)

Merge(vars) ==
    [d \in UNION {DOMAIN v.chunk : v \in vars} |-> Max({v.chunk[d] : v \in {w \in vars : d \in DOMAIN w.chunk}})]
Cells(spec, v) == FoldSet(LAMBDA d, n : n * spec[d], 1, DOMAIN v.chunk)
Itemsize(vars) == Max({v.itemsize : v \in vars} \cup {_WIDEST_WORKING_ITEMSIZE})
worst_bytes(spec, vars) == Max({Cells(spec, v) * Itemsize(vars) : v \in vars})

Widest(spec) == CHOOSE d \in DOMAIN spec : \A e \in DOMAIN spec : spec[e] <= spec[d]
_chunk_ceiling_spec(vars, limit) ==
    LET halved[spec \in [DOMAIN Merge(vars) -> Nat]] ==
            IF worst_bytes(spec, vars) <= limit \/ spec[Widest(spec)] <= 1 THEN spec
            ELSE halved[[spec EXCEPT ![Widest(spec)] = @ \div 2]]
    IN  halved[Merge(vars)]

-----------------------------------------------------------------------------
(* Bundles: members in the order of their names.  A member can be read by  *)
(* some engines, has the times it counts itself under "time", under a      *)
(* dimension of that name in other letters ("Time") or not at all          *)
(* ("none"), and a date in its attributes, or None.  A granule is a pair   *)
(* <<member, position>>.                                                   *)

_open_all_groups(m) == m.engines # {}

\* The member's own times, or its date when it has none of its own; None for
\* a member without either, which the concatenation stacks as it comes.
_synthesize_member_time_coord(m) ==
    IF m.dim = "time" THEN m.times
    ELSE IF m.date = None THEN <<None>>
    ELSE IF m.dim = "Time" /\ m.times # <<None>> THEN m.times
    ELSE <<m.date>>

Granules(times) == UNION {{k} \X DOMAIN times[k] : k \in DOMAIN times}
At(times, g) == times[g[1]][g[2]]
Earlier(g, h) == g[1] < h[1] \/ (g[1] = h[1] /\ g[2] < h[2])

\* A finite set in a strict order, a set of pairs: an element's place is the
\* number of those before it.
InOrder(S, before) ==
    [i \in 1..Cardinality(S) |-> CHOOSE g \in S : Cardinality({h \in S : <<h, g>> \in before}) = i - 1]
ByName(S) == InOrder(S, {p \in S \X S : Earlier(p[1], p[2])})
ByTime(S, times) == InOrder(S, {p \in S \X S : At(times, p[1]) < At(times, p[2])})

First(granules, times) ==
    {g \in granules : \A h \in granules : At(times, h) = At(times, g) => ~Earlier(h, g)}
\* Mutant of _order_bundle_time.
_order_bundle_timeByName(granules, times) == ByName(First(granules, times))

\* One granule per time, the first in the order of names, in the order of time.
_order_bundle_time(granules, times) == ByTime(First(granules, times), times)

Dated(m) == m.dim = "time" \/ m.date # None
Timed(b) == \E k \in DOMAIN b.members : Dated(b.members[k])
Refused(why) == [error |-> why, granules |-> <<>>]

_gate_bundle_size(b, limit) == MapThenSumSet(LAMBDA k : b.members[k].size, DOMAIN b.members) <= limit

\* Every member or none.  A bundle of one is that member.
_open_bundle_members_concurrently(b) ==
    IF \A k \in DOMAIN b.members : _open_all_groups(b.members[k]) THEN b.members ELSE <<>>

_open_netcdf_bundle(b, limit) ==
    LET opened == _open_bundle_members_concurrently(b)
        times == [k \in DOMAIN opened |-> _synthesize_member_time_coord(opened[k])]
        granules == Granules(times)
        stamped(axis) == [i \in DOMAIN axis |-> <<At(times, axis[i]), axis[i]>>]
    IN IF b.members = <<>> THEN Refused("empty")
       ELSE IF ~_gate_bundle_size(b, limit) THEN Refused("too_large")
       ELSE IF opened = <<>> THEN Refused("unreadable")
       ELSE [error |-> "none",
             granules |-> stamped(IF Len(opened) > 1 /\ Timed(b) THEN _order_bundle_time(granules, times)
                                  ELSE ByName(granules))]

-----------------------------------------------------------------------------
(* Cases there can be.  Groups have paths of their own.  A dimension that  *)
(* some variable calls by the name it has is given no other by another:    *)
(* the code takes that for no disagreement.  Some variable has a dimension *)
(* and none an item wider than _WIDEST_WORKING_ITEMSIZE.  Of a bundle all  *)
(* members have a time or none has, and a "Time" that states one is one    *)
(* long and comes with a date: without, the code leaves the member as it is*)
(* and its time is lost.                                                   *)

IsGroupCase(f) ==
    /\ f.groups \in Seq([path : STRING \ {"", "/"}, data : SUBSET STRING, coords : SUBSET STRING, size : Nat])
    /\ \A j, k \in DOMAIN f.groups : f.groups[j].path = f.groups[k].path => j = k

IsDimensionCase(ds) ==
    \A v \in ds.vars :
        /\ v.dims \in Seq(ds.dims) /\ v.declared \in Seq(STRING)
        /\ v \in Declaring(ds) => \A k \in DOMAIN v.dims : v.declared[k] = v.dims[k] => Claims(ds, v.dims[k]) = {}

IsChunkCase(c) ==
    /\ IsFiniteSet(c.vars) /\ c.limit \in Nat
    /\ \A v \in c.vars : /\ v.itemsize \in 1.._WIDEST_WORKING_ITEMSIZE
                         /\ IsFiniteSet(DOMAIN v.chunk) /\ v.chunk \in [DOMAIN v.chunk -> Nat \ {0}]
    /\ \E v \in c.vars : DOMAIN v.chunk # {}

IsMember(m) ==
    /\ m.dim \in {"time", "Time", "none"} /\ m.date \in Nat /\ m.times \in Seq(Nat)
    /\ m.dim = "time" => \A j \in DOMAIN m.times : m.times[j] # None
    /\ m.dim # "time" => Len(m.times) = 1
    /\ m.dim = "none" => m.times[1] = None
    /\ m.dim = "Time" /\ m.times[1] # None => m.date # None
IsBundleCase(b) ==
    /\ b.members \in Seq(Range(b.members))
    /\ \A m \in Range(b.members) : IsMember(m)
    /\ (\A m \in Range(b.members) : Dated(m)) \/ (\A m \in Range(b.members) : ~Dated(m))

-----------------------------------------------------------------------------
(* A leaf read by its bare name is the only one of that name, and no       *)
(* group's variable is lost in the merge or read as another's.  Two cases  *)
(* the code does not cover are excluded: groups whose dimensions do not    *)
(* fit together, and a leaf the root or a group's coordinates also have    *)
(* (_open_netcdf counts leaves among the groups' data only).               *)
Shared(f) ==
    LET taken == f.root.data \cup f.root.coords \cup (UNION {g.coords : g \in Range(f.groups)})
    IN  taken \cap (UNION {g.data : g \in Range(f.groups)})
GroupsKeepTheirVariables(f) ==
    ~Conflict(f) /\ Shared(f) = {} =>
        LET names == _open_netcdf(f).names
        IN \A g \in Range(f.groups) : \A leaf \in g.data :
            LET own == {n \in DOMAIN names : names[n] = <<g.path, leaf>>}
            IN own = {IF \E h \in Range(f.groups) : h # g /\ leaf \in h.data THEN <<g.path, leaf>> ELSE <<"", leaf>>}

(* Dimensions get the names the file declares, all of them or none: after  *)
(* a renaming every variable that declares its dimensions is read by its   *)
(* declaration, and no two dimensions have come to share a name            *)
(* (_apply_declared_dimension_names).                                      *)
DimensionsAreAsDeclared(ds) ==
    LET named == _apply_declared_dimension_names(ds)
    IN /\ \A d, e \in ds.dims : d # e => named[d] # named[e]
       /\ (\E d \in ds.dims : named[d] # d) =>
            \A v \in Declaring(ds) : \A k \in DOMAIN v.dims :
                v.declared[k] # "" => named[v.dims[k]] = v.declared[k]

(* No chunk is wider, at eight bytes a cell, than the ceiling, unless it   *)
(* is one cell, and chunks that were cut are not cut to less than a third  *)
(* of it (_chunk_ceiling_spec, _open_groups_bounded).                      *)
ChunksFitTheCeiling(c) ==
    LET spec == _chunk_ceiling_spec(c.vars, c.limit)
        widest == Max({Cells(spec, v) * _WIDEST_WORKING_ITEMSIZE : v \in c.vars})
    IN /\ widest <= c.limit \/ \A d \in DOMAIN spec : spec[d] = 1
       /\ spec # Merge(c.vars) => 3 * widest > c.limit

Own(m, j) == IF m.times[j] # None THEN m.times[j] ELSE m.date

(* A bundle is delivered whole or not at all: every time of every granule  *)
(* in it is on the axis (_open_bundle_members_concurrently).               *)
BundlesAreWholeOrRefused(b) ==
    LET r == _open_netcdf_bundle(b, b.limit)
    IN r.error = "none" => \A k \in DOMAIN b.members : \A j \in DOMAIN b.members[k].times :
        \E g \in Range(r.granules) : g[1] = Own(b.members[k], j)

(* A granule stands at the time it states itself; its archive date counts  *)
(* only where it states none (_synthesize_member_time_coord).              *)
GranulesKeepTheirTimes(b) ==
    \A g \in Range(_open_netcdf_bundle(b, b.limit).granules) : g[1] = Own(b.members[g[2][1]], g[2][2])

(* The axis of several granules is strictly ascending, whatever they are   *)
(* called, and of granules of one time the first by name is kept           *)
(* (_order_bundle_time), so that a mean counts each time once.             *)
AxisIsOrdered(b) ==
    LET r == _open_netcdf_bundle(b, b.limit).granules
    IN Len(b.members) > 1 /\ Timed(b) =>
        /\ \A i, j \in DOMAIN r : i < j => r[i][1] < r[j][1]
        /\ \A i \in DOMAIN r : \A k \in 1..(r[i][2][1] - 1) :
             \A t \in DOMAIN b.members[k].times : Own(b.members[k], t) # r[i][1]
=============================================================================
