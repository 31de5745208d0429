----------------------------- MODULE LevelChoice -----------------------------
(***************************************************************************)
(* Which layer a physical level means (preprocessing/level_resolver.py).   *)
(*                                                                         *)
(* One case is a record:                                                   *)
(*   columns    per pixel [present, weight, axis]: whether the field has a *)
(*              value there, the pixel's area (the cosine of its latitude, *)
(*              in some unit), and its vertical coordinate at each layer   *)
(*   value, unit     the level asked for and its unit's canonical size, 0  *)
(*              for text that is no level                                  *)
(*   axisUnit   the published axis's unit size, 0 when it states none,     *)
(*              Foreign when it states one there is no conversion for, and *)
(*              Unpublished when there is no axis of that kind             *)
(*   coordinate the layer dimension's own values, <<>> when it has none    *)
(* Coordinates are in a part of the axis's unit fine enough for the level  *)
(* and the means to be whole.                                              *)
(***************************************************************************)
EXTENDS Integers, Sequences, FiniteSets, FiniteSetsExt

NaN == -100
Unpublished == -1
Foreign == -2

Layers(c) == DOMAIN c.columns[1].axis
Distance(a, b) == IF a < b THEN b - a ELSE a - b

\* _convert: the level in the axis's own unit.
Requested(c) == (c.value * c.unit) \div c.axisUnit

\* Only pixels the field has a value at speak for the region.
InRegion(c) == {p \in DOMAIN c.columns : c.columns[p].present}
Finite(c, layer) == {p \in InRegion(c) : c.columns[p].axis[layer] # NaN}
Usable(c) == {p \in InRegion(c) : \E l \in Layers(c) : c.columns[p].axis[l] # NaN}

\* Area, not pixels: cos_lat_weights for the mean, _column_weights for the votes.
Area(c, pixels) == MapThenSumSet(LAMBDA p : c.columns[p].weight, pixels)

\* The regional mean of the axis.
Moment(c, layer) == MapThenSumSet(LAMBDA p : c.columns[p].weight * c.columns[p].axis[layer], Finite(c, layer))
Mean(c, layer) ==
    IF Finite(c, layer) = {} THEN NaN ELSE Moment(c, layer) \div Area(c, Finite(c, layer))
Known(c) == {l \in Layers(c) : Mean(c, l) # NaN}

\* The first of the layers nearest to what was asked for, of those with a value.
Nearest(layers, value(_), target) ==
    Min({l \in layers : \A m \in layers : Distance(value(l), target) <= Distance(value(m), target)})
Index(c) == Nearest(Known(c), LAMBDA l : Mean(c, l), Requested(c))

\* _per_pixel_agreement: how much of the area resolves the level to each layer.
Choice(c, p) ==
    Nearest({l \in Layers(c) : c.columns[p].axis[l] # NaN}, LAMBDA l : c.columns[p].axis[l], Requested(c))
Votes(c, layer) == Area(c, {p \in Usable(c) : Choice(c, p) = layer})
Dominant(c) == Min({l \in Layers(c) : \A m \in Layers(c) : Votes(c, l) >= Votes(c, m)})
RunnersUp(c) ==
    {l \in Layers(c) \ {Dominant(c)} :
        Votes(c, l) > 0 /\ \A m \in Layers(c) \ {Dominant(c)} : Votes(c, l) >= Votes(c, m)}

OutsideTheAxis(c) ==
    \/ \A l \in Known(c) : Requested(c) < Mean(c, l)
    \/ \A l \in Known(c) : Requested(c) > Mean(c, l)

\* Mutant of NotOneLayer.
NotOneLayerByCount(c) ==
    \/ 2 * Cardinality({p \in Usable(c) : Choice(c, p) = Dominant(c)}) <= Cardinality(Usable(c))
    \/ RunnersUp(c) # {} /\ Distance(Dominant(c), Min(RunnersUp(c))) > 1
    \/ Dominant(c) # Index(c)
\* _refuse_if_not_honestly_one_layer
NotOneLayer(c) ==
    \/ 2 * Votes(c, Dominant(c)) <= Area(c, Usable(c))
    \/ RunnersUp(c) # {} /\ Distance(Dominant(c), Min(RunnersUp(c))) > 1
    \/ Dominant(c) # Index(c)

\* _selector_value: a layer is selected by its coordinate, which must tell it apart.
Unselectable(c) ==
    LET rising == \A l \in DOMAIN c.coordinate \ {1} : c.coordinate[l] > c.coordinate[l - 1]
        falling == \A l \in DOMAIN c.coordinate \ {1} : c.coordinate[l] < c.coordinate[l - 1]
    IN  ~rising /\ ~falling

Refusal(reason) == [refusal |-> reason, index |-> 0, selector |-> 0]
resolve_level(c) ==
    IF c.unit = 0 THEN Refusal("unparseable")
    ELSE IF c.axisUnit = Unpublished THEN Refusal("axis_not_published")
    ELSE IF c.axisUnit = 0 THEN Refusal("axis_units_unknown")
    ELSE IF c.axisUnit = Foreign THEN Refusal("unconvertible")
    ELSE IF Known(c) = {} THEN Refusal("no_usable_column")
    ELSE IF OutsideTheAxis(c) THEN Refusal("outside_the_axis")
    ELSE IF NotOneLayer(c) THEN Refusal("not_one_layer")
    ELSE IF Unselectable(c) THEN Refusal("unselectable")
    ELSE [refusal |-> "none", index |-> Index(c),
          selector |-> IF c.coordinate = <<>> THEN Index(c) ELSE c.coordinate[Index(c)]]

Resolved(c) == resolve_level(c).refusal = "none"

-----------------------------------------------------------------------------
(* Properties of one case: the columns have the same layers, the layer        *)
(* dimension has a value for each or none, and the coordinates are fine enough *)
(* to hold the level that is asked for and the means.                         *)

IsLevelCase(c) ==
    LET layers == DOMAIN c.columns[1].axis
    IN  /\ c.columns # <<>> /\ c.columns[1].axis \in Seq(Int) \ {<<>>}
        /\ c.columns \in Seq([present : BOOLEAN, weight : Nat \ {0}, axis : [layers -> Int]])
        /\ \A l \in layers : Finite(c, l) # {} => Moment(c, l) % Area(c, Finite(c, l)) = 0
        /\ c.coordinate = <<>> \/ c.coordinate \in [layers -> Int]
        /\ c.value \in Int /\ c.unit \in Nat /\ c.axisUnit \in Nat \cup {Unpublished, Foreign}
        /\ c.axisUnit > 0 => (c.value * c.unit) % c.axisUnit = 0

\* A level is answered with one layer only when that layer is the nearest one over
\* more than half of the area of the region's usable pixels.
MostAreaAgrees(c) ==
    Resolved(c) =>
        LET i == resolve_level(c).index
            agree == {p \in Usable(c) :
                        \A l \in Layers(c) : c.columns[p].axis[l] # NaN =>
                            /\ c.columns[p].axis[i] # NaN
                            /\ Distance(c.columns[p].axis[i], Requested(c))
                                 <= Distance(c.columns[p].axis[l], Requested(c))}
        IN  2 * Area(c, agree) > Area(c, Usable(c))

\* The answer is never further from the request than half the way to the next
\* layer beyond it: an edge layer does not stand for everything past it.
ErrorWithinHalfGap(c) ==
    Resolved(c) =>
        LET i == resolve_level(c).index IN
        Mean(c, i) # Requested(c) =>
            \E l \in Known(c) \ {i} :
                /\ (Mean(c, l) > Mean(c, i)) = (Requested(c) > Mean(c, i))
                /\ 2 * Distance(Mean(c, i), Requested(c)) <= Distance(Mean(c, l), Mean(c, i))

\* Whatever units the request and the axis are in, no other layer is nearer in
\* physical terms.
NearestInTruth(c) ==
    Resolved(c) =>
        \A l \in Known(c) :
            Distance(Mean(c, resolve_level(c).index) * c.axisUnit, c.value * c.unit)
                <= Distance(Mean(c, l) * c.axisUnit, c.value * c.unit)

\* Selecting the nearest coordinate to the returned value by bisection finds the
\* resolved layer: the values are in order and none repeats.
SelectorFindsTheLayer(c) ==
    Resolved(c) /\ c.coordinate # <<>> =>
        LET r == resolve_level(c) IN
        /\ {l \in DOMAIN c.coordinate : c.coordinate[l] = r.selector} = {r.index}
        /\ \/ \A l \in DOMAIN c.coordinate : (l < r.index) = (c.coordinate[l] < r.selector)
           \/ \A l \in DOMAIN c.coordinate : (l < r.index) = (c.coordinate[l] > r.selector)
=============================================================================
