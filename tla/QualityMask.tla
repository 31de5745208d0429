----------------------------- MODULE QualityMask -----------------------------
(***************************************************************************)
(* What a measured field keeps (preprocessing/aggregation_service.py,      *)
(* datasets/mask_info.py, datasets/qa_flags.py): its fill value and valid  *)
(* range, the quality flag that judges it, what the provenance says of     *)
(* that, and the mean over time of what is left.                           *)
(*                                                                         *)
(* One case is a record:                                                   *)
(*   yaml, umm, cf  the three sources of facts, each [fill, lo, hi]        *)
(*   scale          the packing factor of the CF attributes                *)
(*   pinned         the registry's flag variable, or "none"                *)
(*   pins           the registry's [good, bad] flag values, {} if unstated *)
(*   file           [present, ancillary, flags]: the variables in the      *)
(*                  opened view, those the field names, and what each flag *)
(*                  variable's attributes declare, as <<value, token>>     *)
(*   proposed       the tokens a caller proposes to read as good           *)
(*   times          per time step, the pixels [packed, flag]               *)
(* Good and bad tokens are "good" and "bad"; any other is unclear.         *)
(***************************************************************************)
EXTENDS Integers, Sequences, FiniteSets, FiniteSetsExt

Unset == -101
NaN == -100

-----------------------------------------------------------------------------
(* Fill and range.  The first source that states either end gives both. *)

Fill(c) ==
    LET stated == SelectSeq(<<c.yaml, c.umm, c.cf>>, LAMBDA s : s.fill # Unset)
    IN  IF stated = <<>> THEN Unset ELSE stated[1].fill

\* CF bounds speak of packed values, the field holds physical ones.
Scaled(s, scale) ==
    LET lo == IF s.lo = Unset THEN Unset ELSE s.lo * scale
        hi == IF s.hi = Unset THEN Unset ELSE s.hi * scale
    IN  IF lo # Unset /\ hi # Unset /\ lo > hi THEN [lo |-> hi, hi |-> lo] ELSE [lo |-> lo, hi |-> hi]

Bounds(c) ==
    IF c.yaml.lo # Unset \/ c.yaml.hi # Unset THEN [lo |-> c.yaml.lo, hi |-> c.yaml.hi]
    ELSE IF c.umm.lo # Unset \/ c.umm.hi # Unset THEN [lo |-> c.umm.lo, hi |-> c.umm.hi]
    ELSE Scaled(c.cf, c.scale)

Physical(pixel, c) == pixel.packed * c.scale

\* What is checked against the flag: a value left by fill and range.
Checked(pixel, c) ==
    LET v == Physical(pixel, c) IN
    /\ pixel.packed # NaN
    /\ Fill(c) # Unset => v # Fill(c)
    /\ Bounds(c).lo # Unset => v >= Bounds(c).lo
    /\ Bounds(c).hi # Unset => v <= Bounds(c).hi

-----------------------------------------------------------------------------
(* The quality flag. *)

FlagVariables(file) == {v \in file.present : file.flags[v] # <<>>}
FirstPresent(file) == SelectSeq(file.ancillary, LAMBDA v : v \in file.present)

\* _resolve_qa_flag_var: the registry's, the first ancillary variable that is
\* there, or the only variable that declares flags.
flag_variable(c) ==
    IF c.pinned # "none" THEN c.pinned
    ELSE IF FirstPresent(c.file) # <<>> THEN FirstPresent(c.file)[1]
    ELSE IF Cardinality(FlagVariables(c.file)) = 1 THEN CHOOSE v \in FlagVariables(c.file) : TRUE
    ELSE "none"

Declared(c) ==
    IF flag_variable(c) \in c.file.present THEN c.file.flags[flag_variable(c)] ELSE <<>>
ValuesOf(declared, tokens) == {d[1] : d \in {e \in Range(declared) : e[2] \in tokens}}
Unclear(declared) == {d[2] : d \in Range(declared)} \ {"good", "bad"}

Rule(keep, values, status) == [keep |-> keep, values |-> values, status |-> status]

\* Mutant of resolve_qa_info.
resolve_qa_infoGuessing(c) ==
    IF c.pins.good # {} THEN Rule("good", c.pins.good, "verified")
    ELSE IF c.pins.bad # {} THEN Rule("bad", c.pins.bad, "verified")
    ELSE IF Declared(c) = <<>> THEN Rule("all", {}, "not applied")
    ELSE IF ValuesOf(Declared(c), {"good"}) = {} THEN Rule("all", {}, "pending")
    ELSE Rule("good", ValuesOf(Declared(c), {"good"}), "deterministic")
resolve_qa_info(c) ==
    LET declared == Declared(c)
        good == ValuesOf(declared, {"good"})
    IN  IF c.pins.good # {} THEN Rule("good", c.pins.good, "verified")
        ELSE IF c.pins.bad # {} THEN Rule("bad", c.pins.bad, "verified")
        ELSE IF declared = <<>> THEN Rule("all", {}, "not applied")
        ELSE IF Unclear(declared) = {} /\ good = {} THEN Rule("all", {}, "pending")
        ELSE IF Unclear(declared) = {} THEN Rule("good", good, "deterministic")
        ELSE IF c.proposed # {}
        THEN Rule("good", good \cup ValuesOf(declared, Unclear(declared) \cap c.proposed), "inferred")
        ELSE Rule("all", {}, "pending")

Claims == {"verified", "deterministic", "inferred"}

Applied(c) == flag_variable(c) \in c.file.present /\ resolve_qa_info(c).keep # "all"

\* What the provenance says: a rule whose flag is not in the view was not applied.
qa_status(c) ==
    LET status == resolve_qa_info(c).status IN
    IF flag_variable(c) = "none" THEN "no flag variable"
    ELSE IF status \in Claims /\ ~Applied(c) THEN "not applied"
    ELSE status

\* A missing flag passes under neither kind of rule.
flag_pass_condition(flag, rule) ==
    IF rule.keep = "good" THEN flag \in rule.values ELSE flag # NaN /\ flag \notin rule.values

Kept(pixel, c) ==
    Checked(pixel, c) /\ (Applied(c) => flag_pass_condition(pixel.flag, resolve_qa_info(c)))

\* _count_qa_pixels
Pixels(c) == UNION {{t} \X DOMAIN c.times[t] : t \in DOMAIN c.times}
At(c, at) == c.times[at[1]][at[2]]
Counts(c) ==
    [checked |-> Cardinality({p \in Pixels(c) : Checked(At(c, p), c)}),
     passing |-> Cardinality({p \in Pixels(c) : Kept(At(c, p), c)}),
     flag_missing |-> Cardinality({p \in Pixels(c) : Checked(At(c, p), c) /\ At(c, p).flag = NaN})]

\* Fused with the counting when a flag was applied, else asked of the masked field.
valid_time_indices(c) ==
    {t \in DOMAIN c.times :
        \E i \in DOMAIN c.times[t] :
            /\ Checked(c.times[t][i], c)
            /\ Applied(c) => flag_pass_condition(c.times[t][i].flag, resolve_qa_info(c))}

-----------------------------------------------------------------------------
(* The mean over time of one cell, from granules <<bucket, value>>.  Weights   *)
(* are kept in parts of a whole that every bucket's count divides.            *)

\* How many granules of this one's bucket have a value here.
Contributing(granules, i) ==
    Cardinality({j \in DOMAIN granules : granules[j][1] = granules[i][1] /\ granules[j][2] # NaN})

Weigh(granules, whole, i) ==
    IF granules[i][2] = NaN THEN 0 ELSE whole \div Contributing(granules, i)
Total(granules, whole) ==
    MapThenSumSet(LAMBDA i : Weigh(granules, whole, i) * granules[i][2], DOMAIN granules)
WeightOfAll(granules, whole) ==
    MapThenSumSet(LAMBDA i : Weigh(granules, whole, i), DOMAIN granules)

-----------------------------------------------------------------------------
(* Cases there can be. *)

\* Unset is no bound once scaled, NaN no flag a rule or an attribute names, and
\* "none" no variable.  CF bounds are in order and, packed by a negative factor,
\* stated at both ends: the reordering of _scale_cf_bounds_to_physical leaves a
\* single end on the side it was.
IsMaskCase(c) ==
    LET Source == [fill : Int, lo : Int, hi : Int]
        both == c.cf.lo # Unset /\ c.cf.hi # Unset
    IN  /\ c.yaml \in Source /\ c.umm \in Source /\ c.cf \in Source
        /\ c.scale \in Int \ {0}
        /\ \A end \in {c.cf.lo, c.cf.hi} : end # Unset => end * c.scale # Unset
        /\ both => c.cf.lo <= c.cf.hi
        /\ c.scale < 0 /\ ~both => c.cf.lo = Unset /\ c.cf.hi = Unset
        /\ NaN \notin c.pins.good
        /\ "none" \notin c.file.present
        /\ \A d \in Range(Declared(c)) : d[1] # NaN
        /\ c.times \in Seq(Seq([packed : Int, flag : Int]))

\* The whole is one the counts divide, as for any granules there is, and a value
\* raised by one still is one.
IsMeanCase(c) ==
    /\ c.granules \in Seq(Int \X Int)
    /\ c.whole \in Nat \ {0}
    /\ \A i \in DOMAIN c.granules :
        /\ c.granules[i][2] + 1 # NaN
        /\ c.granules[i][2] # NaN => c.whole % Contributing(c.granules, i) = 0

-----------------------------------------------------------------------------
(* Properties of one case. *)

\* The provenance claims a quality mask exactly when one decided: under a claim
\* every kept pixel has a flag of the rule's, and without one the flag cost no
\* pixel.
StatusIsHonest(c) ==
    \A p \in Pixels(c) :
        LET pixel == At(c, p)  good == ValuesOf(Declared(c), {"good"} \cup c.proposed) IN
        IF qa_status(c) \in Claims
        THEN Kept(pixel, c) =>
                /\ flag_variable(c) \in c.file.present
                /\ pixel.flag # NaN
                /\ pixel.flag \notin c.pins.bad \/ c.pins.good # {}
                /\ c.pins.good = {} /\ c.pins.bad = {} => pixel.flag \in good
        ELSE Kept(pixel, c) = Checked(pixel, c)

\* With nothing pinned and nothing proposed, a pixel is lost to its flag only if
\* the flag is missing, undeclared, or declared by a token known to be bad.
UnclearFlagsCostNothing(c) ==
    c.pins.good = {} /\ c.pins.bad = {} /\ c.proposed = {} =>
        \A p \in Pixels(c) :
            LET pixel == At(c, p) IN
            Checked(pixel, c) /\ ~Kept(pixel, c) =>
                \A d \in Range(Declared(c)) : d[1] = pixel.flag => d[2] = "bad"

\* What the range drops, a single source said to drop, both of its ends
\* together, in that source's own units.
RangeIsOneSources(c) ==
    LET within(v, s) == (s.lo # Unset => v >= s.lo) /\ (s.hi # Unset => v <= s.hi)
        unfilled == {p \in Pixels(c) : At(c, p).packed # NaN /\ Physical(At(c, p), c) # Fill(c)}
    IN  \/ \A p \in unfilled : Checked(At(c, p), c) = within(Physical(At(c, p), c), c.yaml)
        \/ \A p \in unfilled : Checked(At(c, p), c) = within(Physical(At(c, p), c), c.umm)
        \/ \A p \in unfilled : Checked(At(c, p), c) = within(At(c, p).packed, c.cf)

\* The counts beside the map add up: no pixel whose flag is missing is among
\* those that passed a quality mask.
CountsAddUp(c) ==
    Applied(c) => Counts(c).passing + Counts(c).flag_missing <= Counts(c).checked

\* The time steps averaged are the ones the masked field has a value at.
KeptTimesAreTheMaskedOnes(c) ==
    valid_time_indices(c) = {t \in DOMAIN c.times : \E i \in DOMAIN c.times[t] : Kept(c.times[t][i], c)}

\* Every bucket that has a value at a cell weighs as much as any other in its
\* mean: raising all the values of one bucket raises the mean as much as
\* raising those of another.
BucketsWeighAlike(c) ==
    LET granules == c.granules
        raised(b) == [i \in DOMAIN granules |->
                        IF granules[i][1] = b /\ granules[i][2] # NaN
                        THEN <<b, granules[i][2] + 1>> ELSE granules[i]]
        seen == {granules[i][1] : i \in {j \in DOMAIN granules : granules[j][2] # NaN}}
    IN  /\ \A a, b \in seen : Total(raised(a), c.whole) = Total(raised(b), c.whole)
        /\ WeightOfAll(granules, c.whole) = c.whole * Cardinality(seen)
=============================================================================
