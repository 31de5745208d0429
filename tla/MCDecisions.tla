----------------------------- MODULE MCDecisions -----------------------------
(***************************************************************************)
(* The bounded inputs over which the decisions are checked.                *)
(***************************************************************************)
EXTENDS Decisions, SequencesExt, FiniteSetsExt, TLC

Given(kind, case) == input' = [kind |-> kind, case |-> case]

-----------------------------------------------------------------------------
(* Fields to mask. *)

No == Mask!Unset
Missing == Mask!NaN
Source(fill, lo, hi) == [fill |-> fill, lo |-> lo, hi |-> hi]
Silent == Source(No, No, No)

Pixel(packed, flag) == [packed |-> packed, flag |-> flag]
View(present, ancillary, q, r) ==
    [present |-> present, ancillary |-> ancillary, flags |-> [v \in {"q", "r"} |-> IF v = "q" THEN q ELSE r]]
MaskCase(yaml, umm, cf, scale, pinned, pins, file, proposed, times) ==
    [yaml |-> yaml, umm |-> umm, cf |-> cf, scale |-> scale, pinned |-> pinned, pins |-> pins,
     file |-> file, proposed |-> proposed, times |-> times]

\* Every packed value, each with its own flag left good.
Ramp == <<<<Pixel(0, 0), Pixel(1, 0)>>, <<Pixel(2, 0), Pixel(-1, 0)>>>>
Unflagged == View({}, <<>>, <<>>, <<>>)
RangeEnds == {No, 0, 1}

\* Which source's fill and range a field gets.
RangeInputs ==
    \E y, u \in {Silent} \cup {Source(f, lo, hi) : f \in {No, 1}, lo \in RangeEnds, hi \in RangeEnds} :
        \E cf \in {Silent} \cup {Source(f, lo, hi) : f \in {No}, lo \in {0}, hi \in {0, 1}} :
            \E scale \in {-1, 1, 2} :
                Given("mask", MaskCase(y, u, cf, scale, "none", [good |-> {}, bad |-> {}],
                                       Unflagged, {}, Ramp))

Meanings ==
    {<<>>, <<<<0, "good">>, <<1, "bad">>>>, <<<<0, "bad">>, <<1, "bad">>>>,
     <<<<0, "good">>, <<1, "odd">>>>, <<<<0, "odd">>, <<1, "bad">>>>, <<<<0, "odd">>, <<1, "vague">>>>}
Flag == {0, 1, Missing}

\* Which flag variable judges a field, by which rule.
FlagInputs ==
    \E present \in SUBSET {"q", "r"}, ancillary \in {<<>>, <<"q">>, <<"r", "q">>}, pinned \in {"none", "q"} :
        \E q \in Meanings, r \in {<<>>, <<<<0, "good">>, <<1, "bad">>>>} :
            \E pins \in {[good |-> {}, bad |-> {}], [good |-> {0}, bad |-> {}], [good |-> {}, bad |-> {1}]} :
                \E proposed \in {{}, {"odd"}}, f, g \in Flag, other \in {0, Missing} :
                    /\ pins # [good |-> {}, bad |-> {}] => pinned = "q"
                    /\ Given("mask", MaskCase(Silent, Silent, Source(No, 0, No), 1, pinned, pins,
                                              View(present, ancillary, q, r), proposed,
                                              <<<<Pixel(0, f), Pixel(1, other)>>, <<Pixel(1, g), Pixel(Missing, 0)>>>>))

\* Granules of one cell: a few in up to three buckets, or twenty of two days and
\* one of a third.
MeanInputs ==
    \/ \E granules \in UNION {[1..n -> (1..3) \X {Missing, 0, 2}] : n \in 1..4} :
          Given("mean", [granules |-> granules, whole |-> 12])
    \/ \E split \in 1..19, low \in {Missing, 0} :
          Given("mean", [granules |-> [i \in 1..21 |-> IF i <= split THEN <<1, IF i = 1 THEN low ELSE 4>>
                                                      ELSE IF i <= 20 THEN <<2, 2>> ELSE <<3, 0>>],
                         whole |-> IF low = 0 THEN split * (20 - split)
                                   ELSE IF split = 1 THEN 19 ELSE (split - 1) * (20 - split)])

-----------------------------------------------------------------------------
(* Wide files, and requests for a collection's variables. *)

Signals == {{}, {"units"}, {"mean"}, {"geo"}, {"long"}, {"cf", "geo"}}
Variable(rank, kind, asked, valid, signals) ==
    [rank |-> rank, kind |-> kind, asked |-> asked, valid |-> valid] @@
    [s \in {"mean", "units", "geo", "cf", "long"} |-> s \in signals]
Kinds == {"science", "plumbing"}

\* Two variables of any sort, or three that nobody asked for.
FileInputs ==
    \/ \E k \in [1..2 -> Kinds], a \in [1..2 -> BOOLEAN], v \in [1..2 -> 0..3], s \in [1..2 -> Signals] :
          Given("file", {Variable(i, k[i], a[i], v[i], s[i]) : i \in 1..2})
    \/ \E k \in [1..3 -> Kinds], v \in [1..3 -> {0, 2, 3}], s \in [1..3 -> {{}, {"units"}, {"geo"}}] :
          Given("file", {Variable(i, k[i], FALSE, v[i], s[i]) : i \in 1..3})

Leaf == {"no2", "flag", "angle"}
Groups == {"none", "product", "support"}
CompanionInputs ==
    \E where \in [Leaf -> Groups], companions \in SUBSET {"flag", "angle"} :
        \E asked \in SUBSET (Leaf \X Groups) :
            /\ Cardinality(asked) \in 1..2
            /\ Given("companions",
                     [cfg |-> [members |-> {[group |-> where[l], leaf |-> l] : l \in Leaf},
                               companions |-> companions],
                      requested |-> {[group |-> a[2], leaf |-> a[1], order |-> CHOOSE i \in 1..Cardinality(asked) :
                                        SetToSeq(asked)[i] = a] : a \in asked}])

CascadeInputs ==
    \E named, recorded, primary \in 0..3, units \in BOOLEAN :
        Given("cascade",
              [file |-> {Variable(i, "science", FALSE, 3, IF units /\ i = 2 THEN {"units"} ELSE {}) : i \in 1..3},
               named |-> named, recorded |-> recorded, primary |-> primary])

-----------------------------------------------------------------------------
(* Fields with a time axis. *)

FrameCase(granules, area, starts, span, grid, cells, k) ==
    [granules |-> granules, area |-> area, starts |-> starts, span |-> span, grid |-> grid,
     frames |-> 2, perFrame |-> 2, cells |-> cells, k |-> k]
Rows == {<<a, 1, c>> : a \in {Missing, 2}, c \in {Missing, 2}} \cup {<<0, 1, 2>>, <<Missing, Missing, 0>>}
Every(step) == [b \in 1..7 |-> (b - 1) * step]
Months == <<-3, 0, 1, 4, 5, 9>>

\* Up to three granules of three cells, over spans of up to five intervals.
FrameInputs ==
    \/ \E t \in [1..3 -> 0..4], rows \in [1..3 -> {<<0, 2, Missing>>, <<Missing, Missing, Missing>>}] :
          \E last \in {1, 3, 4}, starts \in {Every(1), Months} :
             /\ t[1] <= t[2] /\ t[2] <= t[3]
             /\ Given("frames", FrameCase([i \in 1..3 |-> [t |-> t[i], row |-> rows[i]]], <<1, 1, 1>>,
                                       starts, <<0, last>>, "plain", 3, 2))
    \/ \E a, b \in Rows, d \in {<<Missing, 1, 2>>, <<Missing, Missing, 0>>}, k \in {2, 3} :
          \E with \in {<<Every(1), <<1, 1, 1>>>>, <<Every(1), <<9, 1, 5>>>>, <<Every(2), <<2, 3, 4>>>>} :
             Given("frames", FrameCase(<<[t |-> 1, row |-> a], [t |-> 2, row |-> b], [t |-> 3, row |-> d]>>, with[2],
                                       with[1], <<1, 3>>, "plain", 3, k))
    \/ \E n \in 1..2, starts \in {<<>>, Every(1)}, grid \in {"plain", "none", "extra"}, cells \in {2, 3} :
          Given("frames", FrameCase([i \in 1..n |-> [t |-> i, row |-> <<0, 1, 2>>]], <<1, 1, 1>>,
                                    starts, <<1, n>>, grid, cells, 1))

HistogramInputs ==
    \E counts \in UNION {[1..n -> {0, 1, 2, 60, 97}] : n \in 1..4} : Given("histogram", counts)

-----------------------------------------------------------------------------
(* Levels.  Coordinates are multiples of sixty, for the means; up to three    *)
(* layers.                                                                    *)

LevelCase(columns, value, unit, axisUnit, coordinate) ==
    [columns |-> columns, value |-> value, unit |-> unit, axisUnit |-> axisUnit, coordinate |-> coordinate]
Column(present, weight, axis) == [present |-> present, weight |-> weight, axis |-> axis]
Profiles == {<<0, 60, 120>>, <<60, 120, 180>>, <<120, 60, 0>>, <<0, 120, Missing>>, <<Missing, Missing, Missing>>}

LevelInputs ==
    \/ \E a, b \in Profiles, d \in {<<0, 60, 120>>, <<120, 60, 0>>, <<0, 120, Missing>>}, here \in BOOLEAN,
         value \in {-60, 30, 60, 90, 150}, w \in {<<1, 1>>, <<2, 1>>, <<1, 3>>} :
          Given("level", LevelCase(<<Column(TRUE, w[1], a), Column(here, w[2], b), Column(TRUE, 1, d)>>, value, 1, 1, <<>>))
    \/ \E a, b \in Profiles, value \in {0, 30, 60}, unit \in {0, 1, 2, 4} :
          \E axisUnit \in {Level!Unpublished, Level!Foreign, 0, 1, 2} :
             Given("level", LevelCase(<<Column(TRUE, 1, a), Column(TRUE, 1, b)>>, value, unit, axisUnit, <<>>))
    \/ \E coordinate \in [1..3 -> 1..3], value \in {0, 60, 120} :
          Given("level", LevelCase(<<Column(TRUE, 1, <<0, 60, 120>>)>>, value, 1, 1, coordinate))

-----------------------------------------------------------------------------
(* Words for places, over atlases that lack some of their assets. *)

Outlines == "new york" :> <<-33, -12>> @@ "georgia" :> <<-28, 4>> @@ "otc" :> <<-37, -6>>
Nations == "georgia" :> <<44, 61>> @@ "britain" :> <<-9, 13>> @@ "russia" :> <<30, 160>> @@ "chile" :> <<70, 99>>
Towns == {"boston", "otc", "otr", "uk", "new york", "georgia", "NY", "britain", "northeast", "fiji"}
Spoken == Towns \cup {"The OTC", "northeastern", "georgia (country)", "russia", "chile", "GA", "nowhere", ""}

\* extra is one more alias, which the resolver accepts only if it is new.
Atlas(assets, nations, extra) ==
    [plain |-> [t \in Spoken |-> CASE t = "The OTC" -> "otc" [] t = "NY" -> "ny" [] t = "GA" -> "ga" [] OTHER -> t],
     presets |-> "northeast" :> <<-42, -3>> @@ "new york" :> <<-33, -12>> @@ "georgia" :> <<-28, 4>>,
     states |-> {"new york", "georgia"},
     postal |-> "ny" :> "new york" @@ "ga" :> "georgia",
     coalitions |-> {"otc"},
     aliases |-> "otr" :> "otc" @@ "northeastern" :> "northeast" @@ extra,
     countries |-> IF nations THEN Nations ELSE <<>>,
     synonyms |-> "uk" :> "britain",
     suffixed |-> "georgia (country)" :> "georgia",
     polygons |-> [a \in assets |-> Outlines[a]],
     gazetteer |-> [t \in Towns |-> [at |-> IF t = "fiji" THEN 93 ELSE 17, pole |-> IF t = "boston" THEN 30 ELSE 90,
                                     outline |-> IF t = "new york" THEN <<2, 3>> ELSE <<>>]]]

RegionInputs ==
    \E assets \in SUBSET {"new york", "georgia", "otc"}, nations \in BOOLEAN,
       extra \in {<<>>, "metro" :> "new york", "new york" :> "northeast"} :
        LET w == Atlas(assets, nations, extra)
        IN /\ Areas!Starts(w)
           /\ \E form \in {"plain", "sum", "within"}, a, b \in Spoken, radius \in {0, 4, 8, 33, 64},
                  unit \in {"known", "none"} :
                /\ form = "plain" => radius = 0 /\ unit = "none" /\ a = b
                /\ form = "sum" => radius = 0 /\ unit = "none"
                /\ form = "within" => a = b
                /\ Given("region", [w |-> w, n |-> [form |-> form, radius |-> radius, unit |-> unit,
                                                    parts |-> IF form = "sum" THEN <<a, b>> ELSE <<a>>]])

-----------------------------------------------------------------------------
(* Scenes: axes that run either way, count to 360, or are not uniform. *)

Axes == {<<-8, -4, 0, 4>>, <<4, 0, -4, -8>>, <<2, 6, 10>>, <<14, 22, 30, 38>>, <<30, 34, 38>>, <<-8, -4, 4, 8>>, <<0>>}
Parts == {{<<-5, 5>>}, {<<-9, -3>>, <<3, 9>>}, {<<-20, -9>>}, {<<-2, -1>>}, {<<1, 3>>}, {<<-1, 7>>}, {<<12, 23>>}}
Scene(lons, layers, data) == [lons |-> lons, layers |-> layers, data |-> data]
Instants(cells, layers, n, values) == [1..n -> [1..layers -> [1..cells -> values]]]

SceneInputs ==
    \/ \E lons \in Axes, region \in Parts, n \in 1..2 :
          \E data \in Instants(Len(lons), 1, n, {Missing, 2, 6}) :
             /\ n = 2 => Len(lons) = 3
             /\ Given("scene", [scene |-> Scene(lons, <<0>>, data), region |-> region, selector |-> Missing])
    \/ \E lons \in {<<2, 6>>, <<6, 2>>}, region \in {{<<1, 7>>}, {<<1, 3>>}} :
          \E layers \in {<<10, 20>>, <<20, 10>>, <<Missing, Missing>>}, selector \in {Missing, 0, 1, 2, 10, 14, 15, 16, 25} :
             \E data \in Instants(2, 2, 1, {Missing, 2, 4}) :
                Given("scene", [scene |-> Scene(lons, layers, data), region |-> region, selector |-> selector])

-----------------------------------------------------------------------------
(* Pictures, and comparisons of two retrievals over three cells. *)

\* Pixels over cells, and between them.
Cells(n) == [i \in 1..n |-> <<i, i>>]
Between(n) == [i \in 1..(2 * n - 1) |-> <<(i + 1) \div 2, i \div 2 + 1>>]
Drawing(arr, warp, range, failing) ==
    [arr |-> arr, warp |-> warp, range |-> range, failing |-> failing, colormap |-> "viridis"]
PictureInputs ==
    \/ \E arr \in [1..3 -> {Missing, -3, 0, 2, 7}], window \in {<<0, 700>>, <<-300, 0>>, <<100, 250>>, <<-1000, 1000>>},
             warp \in {Cells(3), Between(3)} :
          Given("picture", [panels |-> <<Drawing(arr, warp, Picture!Unset, "none")>>, layout |-> "one",
                            lost |-> {}, window |-> window])
    \/ \E a, b \in {<<0, 2>>, <<-3, 7>>, <<2, Missing>>, <<Missing, Missing>>}, range \in {Picture!Unset, 500} :
          \E f, g \in {"none", "render", "write", "values"}, layout \in {"one", "panels", "difference"} :
              \E lost \in SUBSET {"drawn", "values"} :
                  Given("picture", [panels |-> IF layout = "panels" THEN <<Drawing(a, Between(2), range, f), Drawing(b, Cells(2), range, g)>>
                                               ELSE <<Drawing(a, Between(2), range, f)>>,
                                    layout |-> layout, lost |-> lost, window |-> <<0, 300>>])

Meets(n, end) == [transients |-> n, end |-> end]
Fine == Meets(0, "ok")
Side(handle, step, cells, name, units, period) ==
    [handle |-> handle, step |-> step, cells |-> cells, masked |-> {}, name |-> name, units |-> units, period |-> period]
Masked(side, cells) == [side EXCEPT !.masked = cells]
Compared(mode, a, b, align, reopen, labels) ==
    [mode |-> mode, a |-> a, b |-> b, align |-> align, reopen |-> reopen, labels |-> labels, threshold |-> 2]
Labels == {<<"ha", "hb">>, <<"hb", "ha">>, <<"", "">>}

\* What the fields hold, what masks leave, what a step meets and what is declared.
CompareInputs ==
    \/ \E a, b \in {<<1, 60, -30>>, <<60, Missing, 1>>}, x, y \in {{}, {1}, {2, 3}, 1..3},
          mode \in {"region", "period"}, labels \in Labels :
          Given("compare", Compared(mode, Masked(Side("ha", Fine, a, "v", "K", <<>>), x),
                                    Masked(Side("hb", Fine, b, "v", "K", <<>>), y), Fine, Fine, labels))
    \/ \E a, b \in [1..3 -> {Missing, -30, 1, 60}], mode \in {"region", "period"}, labels \in Labels :
          /\ mode = "region" => labels = <<"", "">>
          /\ Given("compare", Compared(mode, Side("ha", Fine, a, "v", "K", <<>>), Side("hb", Fine, b, "v", "K", <<>>),
                                       Fine, Fine, labels))
    \/ \E n \in {0, 4, 5, 6}, end \in {"ok", "permanent", "choice"}, m \in {0, 5}, other \in {"ok", "permanent", "choice"} :
          \E align, reopen \in {Fine, Meets(5, "ok"), Meets(1, "permanent")}, labels \in {<<"hb", "ha">>, <<"ha">>} :
              Given("compare", Compared("period", Side("ha", Meets(n, end), <<1, 2, 3>>, "v", "K", <<>>),
                                        Side("hb", Meets(m, other), <<3, 2, 1>>, "v", "K", <<>>), align, reopen, labels))
    \/ \E n, m \in {"v", "w", ""}, u, w \in {"K", "Pa", ""}, p, q \in {<<>>, <<1, 2>>, <<2, 3>>, <<3, 4>>} :
          \E mode \in {"region", "period"} :
              Given("compare", Compared(mode, Side("ha", Fine, <<1, 2, 3>>, n, u, p), Side("hb", Fine, <<3, 2, 1>>, m, w, q),
                                        Fine, Fine, <<"hb", "ha">>))

-----------------------------------------------------------------------------
(* Files: their groups, dimensions and chunks, and bundles of them. *)

Group(path, data, coords, size) == [path |-> path, data |-> data, coords |-> coords, size |-> size]
Member(dim, times, date, engines) == [dim |-> dim, times |-> times, date |-> date, engines |-> engines, size |-> 2]
BundleMembers ==
    {Member("time", times, 0, {"netcdf4"}) : times \in {<<1>>, <<3, 2>>, <<2, 3>>}} \cup
    {Member("Time", <<t>>, d, {"h5netcdf"}) : t \in {0, 3}, d \in {1, 2}} \cup
    {Member("none", <<0>>, d, e) : d \in {1, 2}, e \in {{}, {"h5netcdf", "netcdf4"}}}
Dateless == {Member(dim, <<0>>, 0, {"netcdf4"}) : dim \in {"Time", "none"}}
Declared(name, dims, declared) == [name |-> name, dims |-> dims, declared |-> declared]

FileOpenings ==
    \/ \E a, b, d \in SUBSET {"no2", "lat"}, root \in SUBSET {"no2", "crs"}, coords \in SUBSET {"lat", "lev"}, s, t \in 0..2 :
          Given("groups", [root |-> Group("/", root, coords, 1),
                           groups |-> <<Group("product", a, {}, s), Group("support", b, {"lev"}, t), Group("geo", d, {}, 0)>>])
    \/ \E u, v, w \in {<<>>, <<"lat">>, <<"lat", "lon">>, <<"lon", "lat">>, <<"d2", "lat">>, <<"lat", "lat">>, <<"", "lon">>} :
          \E lat \in {{}, {Declared("lat", <<"d1">>, <<>>)}}, lon \in {{}, {Declared("lon", <<"d2">>, <<>>)}, {Declared("lon", <<"d1", "d2">>, <<>>)}} :
              Given("dims", [dims |-> {"d1", "d2", "d3"},
                             vars |-> {Declared("no2", <<"d1", "d2">>, u), Declared("qa", <<"d1", "d2">>, v),
                                       Declared("row", <<"d3">>, w)} \cup lat \cup lon])
    \/ \E x, y, z, t \in {1, 3, 4, 7}, n, m \in {2, 4, 8}, limit \in {4, 30, 64, 200} :
          Given("chunks", [vars |-> {[chunk |-> "x" :> x @@ "y" :> y, itemsize |-> n],
                                     [chunk |-> "y" :> t @@ "z" :> z, itemsize |-> m]}, limit |-> limit])
BundleInputs ==
    \E n \in 0..3 : \E members \in [1..n -> BundleMembers] \cup [1..n -> Dateless], limit \in {5, 6} :
        Given("bundle", [members |-> members, limit |-> limit])

-----------------------------------------------------------------------------
FieldInputs ==
    \/ RangeInputs \/ FlagInputs \/ MeanInputs \/ FileInputs \/ CascadeInputs \/ CompanionInputs
    \/ FrameInputs \/ HistogramInputs \/ LevelInputs
ResultInputs ==
    \/ RegionInputs \/ SceneInputs \/ PictureInputs \/ CompareInputs
    \/ FileOpenings \/ BundleInputs

DecisionsNext == Is("none") /\ (FieldInputs \/ ResultInputs)
DecisionsSpec == DecisionsInit /\ [][DecisionsNext]_input
=============================================================================
