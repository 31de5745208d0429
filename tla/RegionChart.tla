----------------------------- MODULE RegionChart -----------------------------
(***************************************************************************)
(* One variable of one opened cube, cut to a region and reduced, by the    *)
(* five tools that answer from it: the map (plot_singular), the statistics *)
(* (compute_statistic_tool), the daily peak (find_daily_peak), the time    *)
(* series (conduct_temporal_statistic) and the profile                     *)
(* (plot_vertical_profile).  Each has its own copy of the chain normalise  *)
(* - mask - crop - select - reduce.                                        *)
(*                                                                         *)
(* A scene has one horizontal axis, scene.lons (doubled, so that cell      *)
(* edges are whole), area weights by place, and scene.data[time][layer]    *)
(* [cell].  A region is a set of half-open intervals.                      *)
(***************************************************************************)
EXTENDS Integers, Sequences, FiniteSets, FiniteSetsExt, TLC

NaN == -100
Half == 24             \* 180 degrees
LoneHalfCell == 1      \* half_cell of an axis with a single cell
MAX_GRID_CELLS == 2

Finite(S) == S \ {NaN}
Weight(lon) == 1 + (IF lon < 0 THEN -lon ELSE lon) \div 8
Bounds(region) == <<Min({i[1] : i \in region}), Max({i[2] : i \in region})>>
Inside(x, region) == \E i \in region : i[1] <= x /\ x < i[2]
Touches(a, b, region) == \E i \in region : i[1] < b /\ a < i[2]

-----------------------------------------------------------------------------
(* The grid: a sequence of cells, each where it is (lon) and what it shows *)
(* (col, its column of the data).                                          *)

Grid(scene) == [i \in DOMAIN scene.lons |-> [lon |-> scene.lons[i], col |-> i]]
Lons(g) == {g[i].lon : i \in DOMAIN g}

Wrapped(lon) == ((lon + Half) % (2 * Half)) - Half
ByLon(cells) ==
    [k \in 1..Cardinality(cells) |->
        CHOOSE cell \in cells : Cardinality({other \in cells : other.lon < cell.lon}) = k - 1]

_normalize_longitudes(g) ==
    IF Min(Lons(g)) < 0 \/ Max(Lons(g)) <= Half THEN g
    ELSE ByLon({[lon |-> Wrapped(g[i].lon), col |-> g[i].col] : i \in DOMAIN g})

_is_uniform_1d(g) == \A i \in 1..(Len(g) - 2) : g[i + 2].lon - g[i + 1].lon = g[i + 1].lon - g[i].lon

Step(g) == IF Len(g) > 1 THEN (g[Len(g)].lon - g[1].lon) \div (Len(g) - 1) ELSE 2
\* The rasterizer walks the axis in equal steps from its first cell.
Centre(g, i) == g[1].lon + (i - 1) * Step(g)
Abs(x) == IF x < 0 THEN -x ELSE x
half_cell(g) == IF Len(g) > 1 THEN Abs(Step(g)) \div 2 ELSE LoneHalfCell

\* Centres inside; when there is none, every cell the region touches.
geometry_mask(g, region) ==
    LET inside == {i \in DOMAIN g : Inside(Centre(g, i), region)}
        touched == {i \in DOMAIN g : Touches(Centre(g, i) - Abs(Step(g)) \div 2,
                                             Centre(g, i) + Abs(Step(g)) \div 2, region)}
    IN IF inside # {} THEN [cells |-> inside, healed |-> FALSE]
       ELSE [cells |-> touched, healed |-> touched # {}]

\* The window of the axis that holds the mask.
_crop_to_mask_footprint(g, cells) ==
    IF cells = {} THEN DOMAIN g ELSE Min(cells)..Max(cells)

\* [cells: the window, each kept or not; region_cells; healed]
Cut(g, mask, window) ==
    [cells |-> [k \in 1..Cardinality(window) |->
                LET i == Min(window) + k - 1
                IN [lon |-> g[i].lon, col |-> g[i].col, kept |-> i \in mask.cells]],
     region_cells |-> Cardinality(mask.cells), healed |-> mask.healed]
mask_data_by_geometry(g, region) ==
    LET mask == geometry_mask(g, region)
    IN  Cut(g, mask, _crop_to_mask_footprint(g, mask.cells))

\* A slice of the axis, which runs in either direction: all from the first cell
\* between the bounds to the last.
sel_bounds(cells, b) ==
    LET between == {k \in DOMAIN cells : b[1] <= cells[k].lon /\ cells[k].lon <= b[2]}
    IN IF between = {} THEN <<>> ELSE SubSeq(cells, Min(between), Max(between))

\* What a tool reduces over, the map, series and profile after a second crop.
Masked(scene, region) == mask_data_by_geometry(_normalize_longitudes(Grid(scene)), region)
Cropped(scene, region) == [Masked(scene, region) EXCEPT !.cells = sel_bounds(@, Bounds(region))]
Refused(scene) == ~_is_uniform_1d(_normalize_longitudes(Grid(scene)))

-----------------------------------------------------------------------------
(* Layers: one is picked, never averaged over. *)

\* Layers a selection leaves; none when the tool refuses.  Without coordinate
\* values a layer is picked by position, from zero.
_normalize_to_2d(layers, selector) ==
    IF Len(layers) = 1 THEN {1}
    ELSE IF selector = NaN THEN {}
    ELSE LET finite == {l \in DOMAIN layers : layers[l] # NaN}
             gap(l) == Abs(layers[l] - selector)
         IN IF finite = {} THEN {l \in DOMAIN layers : l = selector + 1}
            ELSE IF selector < Min({layers[l] : l \in finite}) \/ selector > Max({layers[l] : l \in finite}) THEN {}
            ELSE {CHOOSE l \in finite : \A m \in finite : gap(l) < gap(m) \/ (gap(l) = gap(m) /\ l <= m)}

-----------------------------------------------------------------------------
(* Reductions.  The mean of a cell's values is whole; a weighted mean is a *)
(* pair <<weighted sum, weight>>, <<0, 0>> when empty.                     *)

\* The instants at which one cell of one layer has a value.
Seen(scene, layer, cell) ==
    {t \in DOMAIN scene.data : cell.kept /\ scene.data[t][layer][cell.col] # NaN}
Reduced(scene, layer, cell, stat) ==
    LET seen == Seen(scene, layer, cell)
        value(t) == scene.data[t][layer][cell.col]
    IN IF seen = {} THEN NaN
       ELSE CASE stat = "mean" -> MapThenSumSet(value, seen) \div Cardinality(seen)
              [] stat = "max" -> Max({value(t) : t \in seen})
              [] stat = "min" -> Min({value(t) : t \in seen})

\* The field over the cells, one value per cell, and the places of its values.
Field(scene, layer, cells, stat) ==
    [k \in DOMAIN cells |-> [lon |-> cells[k].lon, v |-> Reduced(scene, layer, cells[k], stat)]]
Known(field) == {k \in DOMAIN field : field[k].v # NaN}
Values(field) == {field[k].v : k \in Known(field)}

area_weighted_mean(field) ==
    <<MapThenSumSet(LAMBDA k : Weight(field[k].lon) * field[k].v, Known(field)),
      MapThenSumSet(LAMBDA k : Weight(field[k].lon), Known(field))>>
Same(a, b) == a[1] * b[2] = b[1] * a[2] /\ (a[2] = 0) = (b[2] = 0)

\* Every n-th cell of a field too large for the payload.
_downsample_grid(field) ==
    LET step == CHOOSE s \in 1..(Len(field) + 1) : s * s * MAX_GRID_CELLS >= Len(field)
                                                   /\ \A r \in 1..(s - 1) : r * r * MAX_GRID_CELLS < Len(field)
    IN [k \in 1..((Len(field) + step - 1) \div step) |-> field[(k - 1) * step + 1]]

_field_statistics(field) == [count |-> Cardinality(Known(field)), mean |-> area_weighted_mean(field)]

\* The mean of one instant and layer over the region.
reduce_keeping_axes(scene, layer, cells, t) ==
    area_weighted_mean(Field([scene EXCEPT !.data = <<@[t]>>], layer, cells, "mean"))

-----------------------------------------------------------------------------
(* The tools. *)

Drawn(field) ==
    LET lons == [k \in DOMAIN field |-> [lon |-> field[k].lon]]
    IN [stats |-> _field_statistics(field), thinned |-> _downsample_grid(field),
        left |-> IF field = <<>> THEN 0 ELSE Min(Lons(field)) - half_cell(lons),
        right |-> IF field = <<>> THEN 0 ELSE Max(Lons(field)) + half_cell(lons)]
plot_singular(scene, region, layer) ==
    Drawn(Field(scene, layer, Cropped(scene, region).cells, "mean"))

Numbers(scene, layer, cells) ==
    LET field == Field(scene, layer, cells, "mean")
        highest == Values(Field(scene, layer, cells, "max"))
        lowest == Values(Field(scene, layer, cells, "min"))
    IN [n_pixels |-> Cardinality(Known(field)), mean |-> area_weighted_mean(field),
        max |-> IF highest = {} THEN NaN ELSE Max(highest),
        min |-> IF lowest = {} THEN NaN ELSE Min(lowest)]
compute_statistic_tool(scene, region, layer) == Numbers(scene, layer, Masked(scene, region).cells)

Peak(field) ==
    IF Known(field) = {} THEN [value |-> NaN, lon |-> NaN]
    ELSE LET k == CHOOSE i \in Known(field) : \A m \in Known(field) : field[i].v >= field[m].v
         IN [value |-> field[k].v, lon |-> field[k].lon]
find_daily_peak(scene, region, layer) == Peak(Field(scene, layer, Masked(scene, region).cells, "max"))

\* The instants with a value, and the mean of each.
Series(scene, layer, cells) ==
    LET mean(t) == reduce_keeping_axes(scene, layer, cells, t)
        seen == {t \in DOMAIN scene.data : mean(t)[2] > 0}
    IN [t \in seen |-> mean(t)]
conduct_temporal_statistic(scene, region, layer) == Series(scene, layer, Cropped(scene, region).cells)

\* The mean over the instants with a value at any layer, of each layer's means;
\* means are pairs, added as fractions.
Plus(a, b) == IF a[2] = 0 THEN b ELSE IF b[2] = 0 THEN a ELSE <<a[1] * b[2] + b[1] * a[2], a[2] * b[2]>>
Profile(scene, cells) ==
    LET slice(t, layer) == reduce_keeping_axes(scene, layer, cells, t)
        seen(layer) == {t \in DOMAIN scene.data : slice(t, layer)[2] > 0}
    IN [layer \in DOMAIN scene.layers |->
          LET sum == FoldSet(LAMBDA t, acc : Plus(slice(t, layer), acc), <<0, 0>>, seen(layer))
          IN <<sum[1], sum[2] * Cardinality(seen(layer))>>]
plot_vertical_profile(scene, region) == Profile(scene, Cropped(scene, region).cells)

\* Mutant of _per_layer_valid_fraction: of the cells of the bounding box.
_per_layer_valid_fractionOfTheBox(scene, region, layer) ==
    LET cut == Cropped(scene, region)
    IN <<MapThenSumSet(LAMBDA k : Cardinality(Seen(scene, layer, cut.cells[k])), DOMAIN cut.cells),
         Len(cut.cells) * Len(scene.data)>>

\* Values found, of the region's cells times the instants.
_per_layer_valid_fraction(scene, region, layer) ==
    LET cut == Cropped(scene, region)
    IN <<MapThenSumSet(LAMBDA k : Cardinality(Seen(scene, layer, cut.cells[k])), DOMAIN cut.cells),
         cut.region_cells * Len(scene.data)>>

-----------------------------------------------------------------------------
(* A case c is a scene c.scene, a region c.region and a selector.  A file  *)
(* counts its longitudes from -180 or from 0, each cell once, and does not *)
(* end on 180 itself; the sentinel is below every value, and values come   *)
(* in a unit fine enough for the mean of as many as there are granules.    *)

IsObservation(v, granules) == v = NaN \/ (v > NaN /\ v % granules = 0)
IsScene(scene) ==
    /\ scene = [lons |-> scene.lons, layers |-> scene.layers, data |-> scene.data]
    /\ scene.lons \in Seq(Int) /\ scene.lons # <<>>
    /\ \A i, j \in DOMAIN scene.lons : scene.lons[i] = scene.lons[j] => i = j
    /\ \A i \in DOMAIN scene.lons : scene.lons[i] % 2 = 0
    /\ \/ \A i \in DOMAIN scene.lons : -Half <= scene.lons[i] /\ scene.lons[i] < Half
       \/ /\ \A i \in DOMAIN scene.lons : 0 <= scene.lons[i] /\ scene.lons[i] < 2 * Half
          /\ (\E i \in DOMAIN scene.lons : scene.lons[i] = Half) => \E i \in DOMAIN scene.lons : scene.lons[i] > Half
    /\ scene.layers \in Seq(Int) /\ scene.layers # <<>>
    /\ scene.data \in Seq([DOMAIN scene.layers -> [DOMAIN scene.lons -> Int]])
    /\ \A t \in DOMAIN scene.data, layer \in DOMAIN scene.layers, col \in DOMAIN scene.lons :
          IsObservation(scene.data[t][layer][col], Len(scene.data))
IsSceneCase(c) ==
    /\ IsScene(c.scene)
    /\ c.region \in SUBSET (Int \X Int) /\ IsFiniteSet(c.region)
    /\ c.selector \in Int

\* Where a cell of the file really is.
Place(scene, col) == Wrapped(scene.lons[col])
Kept(cells) == {cells[k].col : k \in {i \in DOMAIN cells : cells[i].kept}}
Answers(c) == ~Refused(c.scene)
Plain(c) == Answers(c) /\ ~Masked(c.scene, c.region).healed

(* The cells an answer is computed from are those whose own place, on the  *)
(* globe, has its centre in the region, whichever way the file counts its  *)
(* longitudes (_normalize_longitudes, geometry_mask, ensure_supported_grid).*)
CellsAreWhereTheyAre(c) ==
    Plain(c) => Kept(Masked(c.scene, c.region).cells) =
                {col \in DOMAIN c.scene.lons : Inside(Place(c.scene, col), c.region)}

(* The second crop of the map, the series and the profile never drops a    *)
(* cell whose centre the region holds, in either direction of the axis     *)
(* (sel_bounds after mask_data_by_geometry).                               *)
CropsKeepTheRegion(c) ==
    Plain(c) => Kept(Cropped(c.scene, c.region).cells) = Kept(Masked(c.scene, c.region).cells)

MeansAgree(data, layer, map, stats, series, profile) ==
    /\ map.count = stats.n_pixels
    /\ Same(map.mean, stats.mean)
    /\ Len(data) = 1 /\ stats.n_pixels > 0 => Same(series[1], stats.mean)
    /\ Len(data) = 1 \/ (\A t \in DOMAIN data : NaN \notin Range(data[t][layer]))
         => Same(profile[layer], stats.mean)

(* One scene has one number: the map, the statistics, the series and the   *)
(* profile agree on the mean of a single granule, map and statistics on    *)
(* every scene, and the profile, which reduces space before time, with     *)
(* them wherever nothing is missing.                                       *)
OneSceneOneNumber(c) ==
    Plain(c) =>
        \A layer \in _normalize_to_2d(c.scene.layers, c.selector) :
            MeansAgree(c.scene.data, layer,
                       plot_singular(c.scene, c.region, layer).stats,
                       compute_statistic_tool(c.scene, c.region, layer),
                       conduct_temporal_statistic(c.scene, c.region, layer),
                       plot_vertical_profile(c.scene, c.region))

PeakIsReached(scene, layer, peak, series, stats) ==
    /\ peak.value = stats.max
    /\ peak.value # NaN =>
         /\ \E col \in DOMAIN scene.lons, t \in DOMAIN scene.data :
             Place(scene, col) = peak.lon /\ scene.data[t][layer][col] = peak.value
         /\ \A t \in DOMAIN series : series[t][1] <= peak.value * series[t][2]

(* The peak is the largest observation of the region, the statistics' max, *)
(* it lies at a cell that took it, and no mean of the series exceeds it.   *)
PeakIsTheLargest(c) ==
    Plain(c) =>
        \A layer \in _normalize_to_2d(c.scene.layers, c.selector) :
            PeakIsReached(c.scene, layer, find_daily_peak(c.scene, c.region, layer),
                          conduct_temporal_statistic(c.scene, c.region, layer),
                          compute_statistic_tool(c.scene, c.region, layer))

(* An answer is about one layer: with several, a tool needs a selection    *)
(* and takes the layer nearest to it, refusing one outside the axis.       *)
LayersAreNotGuessed(c) ==
    LET layers == c.scene.layers
        chosen == _normalize_to_2d(layers, c.selector)
    IN /\ Len(layers) > 1 /\ c.selector = NaN => chosen = {}
       /\ \A l \in chosen : Len(layers) > 1 /\ layers[l] # NaN =>
            \A m \in DOMAIN layers : layers[m] # NaN =>
                Abs(layers[l] - c.selector) <= Abs(layers[m] - c.selector)
       /\ Cardinality(chosen) <= 1

(* A layer's coverage is of the region, not of its bounding box: complete  *)
(* data reads one, and nothing reads more.                                 *)
CoverageIsOfTheRegion(c) ==
    Plain(c) => \A layer \in DOMAIN c.scene.layers :
        LET covered == _per_layer_valid_fraction(c.scene, c.region, layer)
        IN /\ covered[1] <= covered[2]
           /\ covered[1] = covered[2] <=>
                \A t \in DOMAIN c.scene.data : \A col \in DOMAIN c.scene.lons :
                    Inside(Place(c.scene, col), c.region) => c.scene.data[t][layer][col] # NaN

(* The overlay is pinned edge to edge: every drawn cell spans its own      *)
(* width of the image between the published bounds.  A crop of one column  *)
(* shows no spacing: half_cell then takes a width of its own, and the      *)
(* property leaves it out.                                                 *)
OverlayIsPinned(c) ==
    Plain(c) /\ Len(c.scene.lons) > 1 =>
        LET cells == Cropped(c.scene, c.region).cells
            map == plot_singular(c.scene, c.region, 1)
        IN Len(cells) > 1 => map.right - map.left = Len(cells) * Abs(cells[2].lon - cells[1].lon)

(* What the docstring of sel_bounds says, "so the crop never silently      *)
(* returns an empty array": a region that fell between the centres and was *)
(* given the cells it touches is drawn from those cells.                   *)
HealedRegionsAreShown(c) ==
    Answers(c) /\ Kept(Masked(c.scene, c.region).cells) # {} =>
        Kept(Cropped(c.scene, c.region).cells) # {}
==============================================================================
