------------------------------ MODULE FrameAxis ------------------------------
(***************************************************************************)
(* The scrubber's frame stack (preprocessing/frame_stack.py): whether a    *)
(* field gets a time axis, how granules fall into cadence intervals and    *)
(* intervals into frames, and what the frames hold at each block of the    *)
(* coarsened grid.                                                         *)
(*                                                                         *)
(* One case is a record:                                                   *)
(*   granules   a sequence of [t, row]; a row is a tuple of cells, NaN     *)
(*              where there is no value                                    *)
(*   area       of each cell of a row: the cosine of its latitude, in some *)
(*              unit                                                       *)
(*   starts     the ticks the cadence's intervals start at, around the     *)
(*              span; months need not be as wide as one another; <<>> when *)
(*              the cadence is not known                                   *)
(*   span       the request's first and last tick                          *)
(*   grid       "plain", "none" or "extra": the dimensions beside time     *)
(*   frames, perFrame, cells   MAX_FRAMES, MAX_BUCKETS_PER_FRAME and       *)
(*              MAX_FRAME_NATIVE_CELLS                                     *)
(*   k          the coarsening factor                                      *)
(* A row stands for the latitude-longitude grid, a block for k cells.      *)
(***************************************************************************)
EXTENDS Integers, Sequences, FiniteSets, FiniteSetsExt

NaN == -100

Ceil(a, b) == (a + b - 1) \div b
Least(a, b) == IF a < b THEN a ELSE b

-----------------------------------------------------------------------------
(* The axis. *)

\* _bucket_starts: the last interval that starts no later than a tick.
BucketAt(c, t) == Max({b \in DOMAIN c.starts : c.starts[b] <= t})
BucketOf(c, i) == BucketAt(c, c.granules[i].t)

\* The cadence intervals from the one the span starts in to the last it reaches.
Axis(c) == BucketAt(c, c.span[1])..BucketAt(c, c.span[2])

frame_gate(c) ==
    IF Len(c.granules) < 2 THEN "no_time_axis"
    ELSE IF c.starts = <<>> THEN "cadence_unknown"
    ELSE IF c.grid = "none" THEN "no_spatial_grid"
    ELSE IF c.grid = "extra" THEN "extra_dimensions"
    ELSE IF Len(c.granules[1].row) > c.cells THEN "extent_too_large"
    ELSE IF Cardinality(Axis(c)) < 2 THEN "single_interval"
    ELSE IF Cardinality(Axis(c)) > c.frames * c.perFrame THEN "span_too_long"
    ELSE "none"

\* How many intervals each frame averages.
_frame_group_size(c) ==
    IF Cardinality(Axis(c)) <= c.frames THEN 1 ELSE Ceil(Cardinality(Axis(c)), c.frames)

Frames(c) == 0..(Ceil(Cardinality(Axis(c)), _frame_group_size(c)) - 1)
FrameOf(c, bucket) == (bucket - Min(Axis(c))) \div _frame_group_size(c)
BucketsOf(c, frame) == {b \in Axis(c) : FrameOf(c, b) = frame}

\* Mutant of _frame_intervals.
_frame_intervalsUncut(c, frame) ==
    LET first == Min(Axis(c)) + frame * _frame_group_size(c)
    IN  <<c.starts[first], c.starts[Least(first + _frame_group_size(c), Len(c.starts))]>>
\* A frame's interval runs from its first cadence interval to the end of its last,
\* where the next one starts (_bucket_end).
_frame_intervals(c, frame) ==
    LET first == Min(Axis(c)) + frame * _frame_group_size(c)
        last == Least(first + _frame_group_size(c), Max(Axis(c)) + 1) - 1
    IN  <<c.starts[first], c.starts[last + 1]>>

Contributes(c, i) == \E x \in DOMAIN c.granules[i].row : c.granules[i].row[x] # NaN

\* The granules of a frame's intervals that have a value anywhere.
n_granules(c, frame) ==
    Cardinality({i \in DOMAIN c.granules :
                    BucketOf(c, i) \in BucketsOf(c, frame) /\ Contributes(c, i)})

-----------------------------------------------------------------------------
(* The planes. *)

\* A statistic over the finite ones among value(i), i \in S.
Pool(how, S, value(_)) ==
    LET finite == {i \in S : value(i) # NaN}
        values == {value(i) : i \in finite}
    IN  IF finite = {} THEN NaN
        ELSE IF how = "max" THEN Max(values)
        ELSE IF how = "min" THEN Min(values)
        ELSE MapThenSumSet(value, finite) \div Cardinality(finite)

BucketValue(c, how, bucket, x) ==
    Pool(how, {i \in DOMAIN c.granules : BucketOf(c, i) = bucket}, LAMBDA i : c.granules[i].row[x])

FrameValue(c, how, frame, x) ==
    Pool(how, BucketsOf(c, frame), LAMBDA b : BucketValue(c, how, b, x))
PeriodValue(c, how, x) == Pool(how, Axis(c), LAMBDA b : BucketValue(c, how, b, x))

\* _block_reduce: the last block may be short.
Blocks(c) == 1..Ceil(Len(c.granules[1].row), c.k)
Cells(c, block) == {x \in DOMAIN c.granules[1].row : Ceil(x, c.k) = block}
FrameBlock(c, how, frame, block) ==
    Pool(how, Cells(c, block), LAMBDA x : FrameValue(c, how, frame, x))
PeriodBlock(c, how, block) == Pool(how, Cells(c, block), LAMBDA x : PeriodValue(c, how, x))

\* The cells a stored max plane paints, and those that held their block's maximum.
Painted(c, frame) ==
    UNION {Cells(c, b) : b \in {d \in Blocks(c) : FrameBlock(c, "max", frame, d) # NaN}}
AtPeak(c, frame) ==
    {x \in DOMAIN c.granules[1].row :
        /\ FrameValue(c, "max", frame, x) # NaN
        /\ FrameValue(c, "max", frame, x) = FrameBlock(c, "max", frame, Ceil(x, c.k))}

\* Both are measured by the area they cover; uncoarsened, there is nothing to measure.
AreaOf(c, cells) == MapThenSumSet(LAMBDA x : c.area[x], cells)
painted_area(c, frame) == AreaOf(c, Painted(c, frame))
\* Mutant of peak_area.
peak_areaByCount(c, frame) == Cardinality(AtPeak(c, frame))
peak_area(c, frame) == AreaOf(c, AtPeak(c, frame))
Measurable(c) == {f \in Frames(c) : c.k > 1 /\ peak_area(c, f) > 0}
\* _extent_overstatement, as a fraction
Headline(c) ==
    <<MapThenSumSet(LAMBDA f : painted_area(c, f), Measurable(c)),
      MapThenSumSet(LAMBDA f : peak_area(c, f), Measurable(c))>>

-----------------------------------------------------------------------------
(* The pooled colour range of a histogram: where in the bins the 2nd and the *)
(* 98th percentile fall.                                                     *)

Below(counts, i) == MapThenSumSet(LAMBDA j : counts[j], 1..i)

\* part in whole of the way through the bin that the percentile is reached in
At(counts, percent) ==
    LET all == Below(counts, Len(counts))
        index == Min({i \in DOMAIN counts : Below(counts, i) * 100 >= percent * all})
        whole == 100 * counts[index]
    IN  [bin |-> index, whole |-> whole,
         part |-> Least(whole, percent * all - 100 * Below(counts, index - 1))]
_pooled_range(counts) ==
    IF Below(counts, Len(counts)) = 0 THEN <<>> ELSE <<At(counts, 2), At(counts, 98)>>

-----------------------------------------------------------------------------
(* Properties of one case: rows of one length at whole ticks, a calendar the *)
(* span and the granules lie within, and limits that leave room for two      *)
(* frames; and of a histogram.                                               *)

IsFrameCase(c) ==
    /\ c.granules \in Seq([t : Int, row : Seq(Int)])
    /\ \A i, j \in DOMAIN c.granules : Len(c.granules[i].row) = Len(c.granules[j].row)
    /\ c.area \in Seq(Nat \ {0})
    /\ \A i \in DOMAIN c.granules : Len(c.granules[i].row) = Len(c.area)
    /\ c.span \in Int \X Int
    /\ c.starts \in Seq(Int)
    /\ \A b, d \in DOMAIN c.starts : b < d => c.starts[b] < c.starts[d]
    /\ c.starts # <<>> =>
          \A t \in {c.span[1], c.span[2]} \cup {c.granules[i].t : i \in DOMAIN c.granules} :
              c.starts[1] <= t /\ t < c.starts[Len(c.starts)]
    /\ c.frames \in Nat \ {0, 1} /\ c.perFrame \in Nat \ {0} /\ c.cells \in Nat /\ c.k \in Nat \ {0}

IsHistogram(counts) == counts \in Seq(Nat)

\* An axis the gate admits has at least two stops and no more than it may have,
\* and no stop averages more intervals than it may.
AxisWithinBudget(c) ==
    frame_gate(c) = "none" =>
        /\ Cardinality(Frames(c)) \in 2..c.frames
        /\ \A f \in Frames(c) : Cardinality(BucketsOf(c, f)) \in 1..c.perFrame

\* The stops' intervals follow one another without gap or overlap over whole
\* cadence intervals, and the granules a stop says it has are the ones with data
\* whose time is inside the interval it states.
GranulesFallInTheirInterval(c) ==
    frame_gate(c) = "none" =>
        /\ _frame_intervals(c, 0)[1] = c.starts[Min(Axis(c))]
        /\ _frame_intervals(c, Max(Frames(c)))[2] = c.starts[Max(Axis(c)) + 1]
        /\ \A f \in Frames(c) \ {0} : _frame_intervals(c, f)[1] = _frame_intervals(c, f - 1)[2]
        /\ \A f \in Frames(c) :
              LET interval == _frame_intervals(c, f) IN
              n_granules(c, f) =
                Cardinality({i \in DOMAIN c.granules :
                                /\ interval[1] <= c.granules[i].t /\ c.granules[i].t < interval[2]
                                /\ Contributes(c, i)})

\* The stored max and min planes agree exactly with the stored period plane: its
\* extreme at a block is the extreme of the frames there, at either tier.
ExtremesAgree(c) ==
    frame_gate(c) = "none" =>
        \A how \in {"max", "min"}, b \in Blocks(c) :
            Pool(how, Frames(c), LAMBDA f : FrameBlock(c, how, f, b)) = PeriodBlock(c, how, b)

\* How much ground a max plane overstates is at least one, no more than its worst
\* frame does, and no frame's is above the cells of a block times what the areas
\* of two cells of one block may differ by: k^2 itself only where they are alike.
OverstatementWithinCeiling(c) ==
    frame_gate(c) = "none" =>
        LET h == Headline(c) IN
        Measurable(c) # {} =>
            /\ h[1] >= h[2]
            /\ \E f \in Measurable(c) : h[1] * peak_area(c, f) <= h[2] * painted_area(c, f)
            /\ \A f \in Measurable(c) : \E b \in Blocks(c) : \E x, y \in Cells(c, b) :
                  painted_area(c, f) * c.area[y] <= c.k * c.area[x] * peak_area(c, f)

\* The pooled range is in order and inside the bins, and no more than the clipped
\* share lies in bins wholly outside it on either side.
RangeHoldsTheMiddle(counts) ==
    LET all == Below(counts, Len(counts))
        lo == _pooled_range(counts)[1]
        hi == _pooled_range(counts)[2]
    IN  all > 0 =>
            /\ \A at \in {lo, hi} : at.bin \in DOMAIN counts /\ 0 <= at.part /\ at.part <= at.whole
            /\ lo.bin < hi.bin \/ (lo.bin = hi.bin /\ lo.part <= hi.part)
            /\ Below(counts, IF lo.part = lo.whole THEN lo.bin ELSE lo.bin - 1) * 100 <= 2 * all
            /\ (all - Below(counts, IF hi.part = 0 THEN hi.bin - 1 ELSE hi.bin)) * 100 <= 2 * all
=============================================================================
