------------------------------- MODULE Overlay -------------------------------
(***************************************************************************)
(* The picture of a map and its recolouring.  When a map is drawn, its     *)
(* colours and, beside them, its values as sixteen-bit codes are stored    *)
(* (render_overlay, _render_and_store_overlay); later a reader asks for    *)
(* the picture, or for the values in other colours (chart_overlay_png).    *)
(*                                                                         *)
(* Values are whole; scales and percentiles count in hundredths.           *)
(***************************************************************************)
EXTENDS Integers, Sequences, FiniteSets, FiniteSetsExt

NaN == -100
Unset == -101
Unit == 100
CODE_MAX == 13         \* 65535 in the code
LUT == 6               \* colours of a map, 256 in the code
Colormaps == {"viridis", "no2_omi", "RdBu_r"}

Abs(x) == IF x < 0 THEN -x ELSE x
Clip(x, lo, hi) == IF x < lo THEN lo ELSE IF x > hi THEN hi ELSE x
\* numpy rounds halves to the even neighbour.
RoundHalfEven(num, den) ==
    LET q == num \div den
        twice == 2 * (num % den)
    IN IF twice < den THEN q ELSE IF twice > den THEN q + 1 ELSE q + (q % 2)

Known(field) == {i \in DOMAIN field : field[i] # NaN}
Ranked(field, k) ==
    CHOOSE v \in {field[i] : i \in Known(field)} :
        /\ Cardinality({i \in Known(field) : field[i] < v}) < k
        /\ k <= Cardinality({i \in Known(field) : field[i] <= v})
\* The p-th percentile of few values, by linear interpolation, in hundredths.
Percentile(field, p) ==
    LET rank == (Cardinality(Known(field)) - 1) * p
        at == Ranked(field, rank \div Unit + 1)
    IN IF rank % Unit = 0 THEN Unit * at
       ELSE Unit * at + (rank % Unit) * (Ranked(field, rank \div Unit + 2) - at)

_percentile_bounds(arr) ==
    IF Known(arr) = {} THEN <<0, Unit>>
    ELSE LET lo == Percentile(arr, 2)
             hi == Percentile(arr, 98)
             delta == IF lo = 0 THEN Unit ELSE Abs(lo) \div Unit
         IN IF lo = hi THEN <<lo - delta, hi + delta>> ELSE <<lo, hi>>

-----------------------------------------------------------------------------
(* Colours: 0 is transparent, 1..LUT the entries of the table.             *)

\* The entry of a value given in n-ths of a hundredth, on a scale in hundredths.
Entry(value, n, scale) ==
    LET span == IF scale[1] = scale[2] THEN Unit ELSE scale[2] - scale[1]
    IN 1 + RoundHalfEven(Clip(value - n * scale[1], 0, n * span) * (LUT - 1), n * span)

_colorize(arr, scale) == [i \in DOMAIN arr |-> IF arr[i] = NaN THEN 0 ELSE Entry(Unit * arr[i], 1, scale)]

\* Codes start at one: zero is a pixel without data.
encode_value_raster(arr) ==
    LET known == {arr[i] : i \in Known(arr)}
        span == Max(known) - Min(known)
    IN IF known = {} THEN {}
       ELSE {[lo |-> Min(known), hi |-> Max(known),
              codes |-> [i \in DOMAIN arr |->
                IF arr[i] = NaN THEN 0 ELSE IF span = 0 THEN 1
                ELSE 1 + RoundHalfEven((arr[i] - Min(known)) * (CODE_MAX - 1), span)]]}

render_value_raster_png(raster, scale) ==
    [i \in DOMAIN raster.codes |->
        IF raster.codes[i] = 0 THEN 0
        ELSE Entry(Unit * (raster.lo * (CODE_MAX - 1) + (raster.codes[i] - 1) * (raster.hi - raster.lo)),
                   CODE_MAX - 1, scale)]

-----------------------------------------------------------------------------
(* A chart's overlays.  A source has a scale and the overlay stored for    *)
(* it: at most one drawing and at most one raster.                         *)

\* The pixels of the projected picture: each lies between two cells (or twice on
\* one) and is their mean, or what one of them has when the other has nothing.
Blend(x, y) == IF x = NaN THEN y ELSE IF y = NaN THEN x ELSE (x + y) \div 2
_reproject_to_mercator(arr, warp) == [p \in DOMAIN warp |-> Blend(arr[warp[p][1]], arr[warp[p][2]])]

\* One projection makes both; the value raster's failing costs only the recolouring.
_render_and_store_overlay(arr, warp, scale, failing) ==
    LET pixels == _reproject_to_mercator(arr, warp)
    IN IF failing \in {"render", "write"} THEN [drawn |-> {}, values |-> {}]
       ELSE [drawn |-> {_colorize(pixels, scale)},
             values |-> IF failing = "values" THEN {} ELSE encode_value_raster(pixels)]

\* Without a range given, the scale is the field's own, of the cells before they
\* are projected.
_build_heatmap_payload(panel) ==
    LET scale == IF panel.range = Unset THEN _percentile_bounds(panel.arr) ELSE <<-panel.range, panel.range>>
    IN [scale |-> scale, colormap |-> panel.colormap,
        overlay |-> _render_and_store_overlay(panel.arr, panel.warp, scale, panel.failing)]

\* Several panels and perhaps a difference, or the chart itself; {} when there
\* is no such source.  Panels count from zero, none is Unset.
_chart_overlay_source(chart, panel) ==
    IF chart.type # "heatmap_multi" THEN chart.own
    ELSE IF panel = Unset THEN chart.difference
    ELSE IF panel \in 0..(Len(chart.panels) - 1) THEN {chart.panels[panel + 1]} ELSE {}

Answer(status, content) == [status |-> status, content |-> content]
Served(contents) == IF contents = {} THEN Answer(404, <<>>) ELSE Answer(200, CHOOSE x \in contents : TRUE)

\* Mutant of _rescaled_overlay_png: the panel asked for is ignored.
_rescaled_overlay_pngAnyPanel(chart, q, lost) ==
    LET named == _chart_overlay_source(chart, Unset)
        sources == IF named = {} THEN Range(chart.panels) ELSE named
    IN IF q.vmin = Unset \/ q.vmax = Unset \/ q.vmin >= q.vmax THEN Answer(422, <<>>)
       ELSE IF sources = {} THEN Answer(404, <<>>)
       ELSE IF "values" \in lost THEN Answer(404, <<>>)
       ELSE Served({render_value_raster_png(r, <<q.vmin, q.vmax>>) :
                    r \in UNION {s.overlay.values : s \in sources}})

\* lost: what the store has evicted by the time it is asked.
_rescaled_overlay_png(chart, q, lost) ==
    LET sources == _chart_overlay_source(chart, q.panel)
    IN IF q.vmin = Unset \/ q.vmax = Unset \/ q.vmin >= q.vmax THEN Answer(422, <<>>)
       ELSE IF sources = {} THEN Answer(404, <<>>)
       ELSE LET source == CHOOSE s \in sources : TRUE
                name == IF q.cmap = "none" THEN source.colormap ELSE q.cmap
            IN IF name \notin Colormaps THEN Answer(422, <<>>)
               ELSE IF "values" \in lost THEN Answer(404, <<>>)
               ELSE Served({render_value_raster_png(r, <<q.vmin, q.vmax>>) : r \in source.overlay.values})

chart_overlay_png(chart, q, lost) ==
    IF q.vmin # Unset \/ q.vmax # Unset \/ q.cmap # "none" THEN _rescaled_overlay_png(chart, q, lost)
    ELSE IF "drawn" \in lost THEN Answer(404, <<>>)
    ELSE Served(UNION {s.overlay.drawn : s \in _chart_overlay_source(chart, q.panel)})

-----------------------------------------------------------------------------
(* A case c has panels c.panels (arr, warp, range, colormap, failing),     *)
(* laid out as c.layout says, what was evicted c.lost and a window         *)
(* c.window.                                                               *)

IsPictureCase(c) ==
    /\ c.panels \in Seq([arr : Seq(Int), warp : Seq(Nat \X Nat), range : Int, colormap : STRING,
                         failing : {"none", "values", "render", "write"}]) \ {<<>>}
    /\ \A i \in DOMAIN c.panels : \A p \in DOMAIN c.panels[i].warp :
          {c.panels[i].warp[p][1], c.panels[i].warp[p][2]} \subseteq DOMAIN c.panels[i].arr
    /\ c.layout \in {"one", "panels", "difference"} /\ c.window \in Int \X Int

Chart(c) ==
    LET drawn == [i \in DOMAIN c.panels |-> _build_heatmap_payload(c.panels[i])]
    IN CASE c.layout = "one" -> [type |-> "heatmap", own |-> {drawn[1]}, panels |-> <<>>, difference |-> {}]
         [] c.layout = "panels" -> [type |-> "heatmap_multi", own |-> {}, panels |-> drawn, difference |-> {}]
         [] c.layout = "difference" ->
              [type |-> "heatmap_multi", own |-> {}, panels |-> <<>>, difference |-> {drawn[1]}]
Plain(panel) == [panel |-> panel, vmin |-> Unset, vmax |-> Unset, cmap |-> "none"]
In(panel, scale) == [panel |-> panel, vmin |-> scale[1], vmax |-> scale[2], cmap |-> "none"]
\* Which panel a request means: its own, or the chart's only picture.
PanelOf(c, i) == IF c.layout = "panels" THEN i - 1 ELSE Unset
Shown(c) == IF c.layout = "panels" THEN DOMAIN c.panels ELSE {1}

Pixels(panel) == _reproject_to_mercator(panel.arr, panel.warp)

Near(a, b) == /\ DOMAIN a = DOMAIN b
              /\ \A i \in DOMAIN a : (a[i] = 0) = (b[i] = 0) /\ a[i] - b[i] \in -1..1

\* A scale on which a step of the raster's codes is no more than a colour.
Resolves(raster, scale) ==
    (scale[2] - scale[1]) * (CODE_MAX - 1) >= Unit * (raster.hi - raster.lo) * (LUT - 1)

(* Recolouring is as good as drawing: in any window that the codes         *)
(* resolve, the colours from the stored codes are within one entry of      *)
(* those of the values, and transparent exactly where there are none.      *)
RecolouringAgrees(c) ==
    \A i \in DOMAIN c.panels : \A raster \in encode_value_raster(Pixels(c.panels[i])) :
        Resolves(raster, c.window) =>
            Near(render_value_raster_png(raster, c.window), _colorize(Pixels(c.panels[i]), c.window))

(* The picture a reader sees is the one the recolouring starts from: asked *)
(* for in the scale it was drawn in, every panel comes back as itself,     *)
(* unless a far outlier stretches the codes beyond that scale.             *)
OwnScaleRedraws(c) ==
    \A i \in Shown(c) :
        LET chart == Chart(c)
            scale == _build_heatmap_payload(c.panels[i]).scale
            plain == chart_overlay_png(chart, Plain(PanelOf(c, i)), c.lost)
            own == chart_overlay_png(chart, In(PanelOf(c, i), scale), c.lost)
        IN /\ plain.status = 200 /\ own.status = 200
           /\ \A raster \in encode_value_raster(Pixels(c.panels[i])) : Resolves(raster, scale)
           => Near(plain.content, own.content)

(* A part that fails costs only itself: whenever a panel could be drawn    *)
(* and its drawing is still stored it is served, whatever happened to its  *)
(* values or to other panels.                                              *)
FailuresStayLocal(c) ==
    \A i \in Shown(c) :
        LET answer == chart_overlay_png(Chart(c), Plain(PanelOf(c, i)), c.lost)
        IN answer.status = 200 <=> c.panels[i].failing \in {"none", "values"} /\ "drawn" \notin c.lost
==============================================================================
