------------------------------ MODULE Comparison ------------------------------
(***************************************************************************)
(* Two retrievals compared (compare).  Both sides are opened at once, each *)
(* with its own retries; a comparison of regions draws two panels on one   *)
(* scale, a comparison of periods has the two aligned to one grid by the   *)
(* server and draws B minus A.                                             *)
(*                                                                         *)
(* A side is what its opening meets, in order, and the field it yields: a  *)
(* value per cell, weighted by the cell's place, with the variable's name, *)
(* its units ("" when undeclared) and its period (<<>> without times).  A  *)
(* cell's value is the mean over time of what the quality mask leaves of   *)
(* it; the cells it leaves nothing of are masked.                          *)
(***************************************************************************)
EXTENDS Overlay

_TRANSIENT_RETRY_ATTEMPTS == 5
BaseDelay == 3         \* half seconds
MaxDelay == 20
FloorShare == 20       \* the baseline's floor is one twentieth of its spread

Weight(cell) == IF cell = 1 THEN 2 ELSE 1

\* A step meets a number of transient failures and then ends one way.
_retry_transient(step) ==
    IF step.transients >= _TRANSIENT_RETRY_ATTEMPTS
    THEN [out |-> "provider_unavailable", tries |-> _TRANSIENT_RETRY_ATTEMPTS]
    ELSE [out |-> step.end, tries |-> step.transients + 1]
Delay(k) == Min({BaseDelay * 2 ^ (k - 1), MaxDelay})
Waited(tries) == MapThenSumSet(Delay, 1..(tries - 1))

\* The side that fails says so; A's failure is told before B's, and only the
\* failure told puts its card before the user.
Refusal(why, cards) == [chart |-> "none", error |-> why, cards |-> cards]
CardOf(side) == IF side.out = "choice" THEN 1 ELSE 0
SidesTold(a, b) ==
    IF a.out # "ok" THEN {Refusal(<<"a", a.out>>, CardOf(a))}
    ELSE IF b.out # "ok" THEN {Refusal(<<"b", b.out>>, CardOf(b))} ELSE {}

_variable_mismatch_error(a, b) == a.name # "" /\ b.name # "" /\ a.name # b.name
_units_mismatch_error(a, b) == a.units # b.units
_empty_overlap_error(side) == Known(side.cells) = {}
_disjoint_periods_error(a, b) ==
    /\ a.period # <<>> /\ b.period # <<>>
    /\ a.period[2] < b.period[1] \/ b.period[2] < a.period[1]

-----------------------------------------------------------------------------
(* Fields and what is said of them. *)

\* The map made of a side, after the gates have looked at what was opened.
_prepare_2d(side) == [i \in DOMAIN side.cells |-> IF i \in side.masked THEN NaN ELSE side.cells[i]]

TotalOver(cells, field) == MapThenSumSet(LAMBDA i : Weight(i) * field[i], cells)
Total(field) == TotalOver(Known(field), field)
TotalWeight(field) == MapThenSumSet(Weight, Known(field))

_difference(a, b) == [i \in DOMAIN a |-> IF a[i] = NaN \/ b[i] = NaN THEN NaN ELSE b[i] - a[i]]

\* In hundredths, times FloorShare.
Magnitudes(field) == [i \in Known(field) |-> Abs(field[i])]
Spread(field) == Percentile(Magnitudes(field), 98) - Percentile(Magnitudes(field), 2)

\* percent is <<numerator, denominator>>, <<>> when it is withheld.
_anomaly_stats(a, b, threshold) ==
    LET diff == _difference(a, b)
        paired == [i \in DOMAIN a |-> IF diff[i] = NaN THEN NaN ELSE a[i]]
        small == Abs(Total(paired)) * Unit * FloorShare < Spread(paired) * TotalWeight(paired)
    IN [n_cells |-> Cardinality(Known(diff)), mean |-> <<Total(diff), TotalWeight(diff)>>,
        percent |-> IF Known(diff) = {} \/ Total(paired) = 0 \/ small THEN <<>>
                    ELSE <<Total(diff), Total(paired)>>,
        exceeding |-> Cardinality({i \in Known(diff) : Abs(diff[i]) >= threshold})]

\* {} for a side of which nothing is left.
_region_stats(field) ==
    IF Known(field) = {} THEN {}
    ELSE {[mean |-> <<Total(field), TotalWeight(field)>>, n_pixels |-> Cardinality(Known(field)),
           max |-> Max({field[i] : i \in Known(field)}), min |-> Min({field[i] : i \in Known(field)})]}

_shared_bounds(a, b) == _percentile_bounds(a \o b)
_diverging_bounds(diff) ==
    LET largest == IF Known(diff) = {} THEN 0 ELSE Percentile(Magnitudes(diff), 98)
    IN IF largest = 0 THEN <<-Unit, Unit>> ELSE <<-largest, largest>>

\* Mutant of _aligned_source_order.
_aligned_source_orderAsAsked(labels, a, b) == <<1, 2>>

\* Which of the aligned sources is which side: by their handles when both are
\* labelled with them, else in the order they were asked for.
_aligned_source_order(labels, a, b) ==
    IF a \in Range(labels) /\ b \in Range(labels)
    THEN <<CHOOSE i \in DOMAIN labels : labels[i] = a, CHOOSE i \in DOMAIN labels : labels[i] = b>>
    ELSE <<1, 2>>

-----------------------------------------------------------------------------
(* The tool.  c.align and c.reopen are the steps on the server, c.labels   *)
(* the labels of the aligned sources, in the order they are stored.        *)

_build_region_comparison(one, other) ==
    LET a == _prepare_2d(one)
        b == _prepare_2d(other)
        scale == _shared_bounds(a, b)
    IN [chart |-> "panels", error |-> <<>>, cards |-> 0, scale |-> scale,
        drawn |-> <<_colorize(a, scale), _colorize(b, scale)>>,
        stats |-> <<_region_stats(a), _region_stats(b)>>]

_build_period_comparison(one, other, threshold) ==
    LET a == _prepare_2d(one)
        b == _prepare_2d(other)
        diff == _difference(a, b)
        scale == _diverging_bounds(diff)
    IN [chart |-> "difference", error |-> <<>>, cards |-> 0, scale |-> scale,
        diff |-> diff, drawn |-> <<_colorize(diff, scale)>>, stats |-> _anomaly_stats(a, b, threshold)]

\* External: the server's alignment keeps every source's values and flags;
\* sources it does not label come in the order they were asked for.
Aligned(c) == [i \in DOMAIN c.labels |->
                 IF c.labels[i] = c.a.handle THEN c.a
                 ELSE IF c.labels[i] = c.b.handle THEN c.b
                 ELSE IF i = 1 THEN c.a ELSE c.b]

compare(c) ==
    LET told == SidesTold(_retry_transient(c.a.step), _retry_transient(c.b.step))
        align == _retry_transient(c.align)
        reopen == _retry_transient(c.reopen)
        order == _aligned_source_order(c.labels, c.a.handle, c.b.handle)
    IN IF told # {} THEN CHOOSE r \in told : TRUE
       ELSE IF _variable_mismatch_error(c.a, c.b) THEN Refusal(<<"variables">>, 0)
       ELSE IF _units_mismatch_error(c.a, c.b) THEN Refusal(<<"units">>, 0)
       ELSE IF _empty_overlap_error(c.a) \/ _empty_overlap_error(c.b) THEN Refusal(<<"empty">>, 0)
       ELSE IF c.mode = "region"
            THEN IF _disjoint_periods_error(c.a, c.b) THEN Refusal(<<"disjoint">>, 0)
                 ELSE _build_region_comparison(c.a, c.b)
       ELSE IF align.out # "ok" THEN Refusal(<<"align", align.out>>, 0)
       ELSE IF reopen.out # "ok" THEN Refusal(<<"reopen", reopen.out>>, 0)
       ELSE IF Len(c.labels) # 2 THEN Refusal(<<"sources">>, 0)
       ELSE _build_period_comparison(Aligned(c)[order[1]], Aligned(c)[order[2]], c.threshold)

-----------------------------------------------------------------------------
(* Any case: on one grid two sides have the same cells, a sentinel is no   *)
(* difference, two sources are labelled both or not at all.                *)
IsSide(s) == /\ s.step \in [transients : Nat, end : STRING]
             /\ s.cells \in Seq(Int)
IsComparisonCase(c) ==
    /\ IsSide(c.a) /\ IsSide(c.b) /\ c.a.handle # c.b.handle
    /\ {c.align, c.reopen} \subseteq [transients : Nat, end : STRING]
    /\ c.labels \in Seq(STRING)
    /\ Len(c.labels) = 2 => \/ Range(c.labels) = {c.a.handle, c.b.handle}
                            \/ Range(c.labels) \cap {c.a.handle, c.b.handle} = {}
    /\ c.mode # "region" => Len(c.a.cells) = Len(c.b.cells)
    /\ \A i \in Known(c.a.cells) \cap Known(c.b.cells) : c.b.cells[i] - c.a.cells[i] \notin {NaN, -NaN}

-----------------------------------------------------------------------------
(* Properties of a case c and of r, what compare answers to it.            *)

\* The same comparison the other way round.
Swapped(c) == [mode |-> c.mode, a |-> c.b, b |-> c.a, threshold |-> c.threshold,
               align |-> c.align, reopen |-> c.reopen, labels |-> c.labels]

(* The order of the two sides is only a sign: swapped, a comparison is     *)
(* refused or drawn as before, on the same scale and cells, and its        *)
(* difference is the negative, whatever order the server stored the        *)
(* aligned sources in (_split_aligned, _units_mismatch_error and the other *)
(* gates).                                                                 *)
SwappingIsASign(one, other) ==
    /\ one.chart = other.chart /\ (one.chart # "none" => one.scale = other.scale)
    /\ one.chart = "panels" => one.stats[1] = other.stats[2] /\ one.drawn[1] = other.drawn[2]
    /\ one.chart = "difference" =>
         /\ \A i \in DOMAIN one.diff : IF one.diff[i] = NaN THEN other.diff[i] = NaN
                                       ELSE other.diff[i] = -one.diff[i]
         /\ other.stats.exceeding = one.stats.exceeding

(* A difference is B minus A, as its sign convention says, cell by cell of *)
(* what each side's own mask leaves of it.                                 *)
DifferenceIsBMinusA(c, r) ==
    r.chart = "difference" => r.diff = _difference(_prepare_2d(c.a), _prepare_2d(c.b))

(* A percentage relates the two means the reader is shown: A's mean over   *)
(* the compared cells, changed by it, is B's mean over the same cells.     *)
PercentIsOfThePairedCells(c, r) ==
    r.chart = "difference" /\ r.stats.percent # <<>> =>
        LET p == r.stats.percent
            a == _prepare_2d(c.a)
            b == _prepare_2d(c.b)
            both == Known(a) \cap Known(b)
        IN TotalOver(both, a) * (p[2] + p[1]) = TotalOver(both, b) * p[2]

(* Side by side, a colour means a value: equal values have equal colours   *)
(* in both panels, and a larger one never has a lower colour; both panels  *)
(* together reach the ends of the scale, unless nearly all is one value or *)
(* nothing is left of either side.                                         *)
ColoursCompare(c, r) ==
    r.chart = "panels" =>
        LET drawn == r.drawn
            a == _prepare_2d(c.a)
            b == _prepare_2d(c.b)
            both == a \o b
            shown == {<<a[i], drawn[1][i]>> : i \in Known(a)} \cup {<<b[i], drawn[2][i]>> : i \in Known(b)}
        IN /\ \A x, y \in shown : x[1] <= y[1] => x[2] <= y[2]
           /\ Known(both) # {} /\ Percentile(both, 2) < Percentile(both, 98) => {1, LUT} \subseteq {x[2] : x \in shown}

(* A rise and a fall of one size are mirrored about the middle colour.     *)
ChangesMirror(r) ==
    r.chart = "difference" =>
        \A i, j \in Known(r.diff) : r.diff[i] = -r.diff[j] =>
            r.drawn[1][i] + r.drawn[1][j] - (LUT + 1) \in -1..1

(* However the provider falters, the user gets one answer in bounded time: *)
(* at most one card, for the failure told, and no step tried more than     *)
(* five times or waited for longer than twenty-one seconds; a failure that *)
(* is not the provider's is not retried into a success or a different one. *)
OneAnswerInTime(c, r) ==
    /\ r.cards = IF r.error \in {<<"a", "choice">>, <<"b", "choice">>} THEN 1 ELSE 0
    /\ \A step \in {c.a.step, c.b.step, c.align, c.reopen} :
        LET met == _retry_transient(step)
        IN met.tries <= 5 /\ Waited(met.tries) <= 42 /\ (met.out # step.end => met.out = "provider_unavailable")
==============================================================================
