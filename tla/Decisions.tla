------------------------------ MODULE Decisions ------------------------------
(***************************************************************************)
(* The pure decisions of the data path and what is promised of each.  A    *)
(* behaviour is one step from no input to one input of one kind; each      *)
(* property judges the inputs of its kind.  Which inputs there are is left *)
(* open: any that is well formed here, the bounded ones of MCDecisions     *)
(* for the runs.                                                           *)
(***************************************************************************)
EXTENDS Integers, Sequences, FiniteSets

VARIABLE input

Mask == INSTANCE QualityMask
Choice == INSTANCE VariableChoice
Axis == INSTANCE FrameAxis
Level == INSTANCE LevelChoice
Areas == INSTANCE Regions
Chart == INSTANCE RegionChart
Picture == INSTANCE Overlay
Pair == INSTANCE Comparison
Opening == INSTANCE OpenPipeline

Is(kind) == input.kind = kind

-----------------------------------------------------------------------------
(* Any well-formed input. *)

WellFormed ==
    /\ Is("mask") => Mask!IsMaskCase(input.case)
    /\ Is("mean") => Mask!IsMeanCase(input.case)
    /\ Is("file") => Choice!IsFile(input.case)
    /\ Is("companions") => Choice!IsRequest(input.case.requested)
    /\ Is("frames") => Axis!IsFrameCase(input.case)
    /\ Is("histogram") => Axis!IsHistogram(input.case)
    /\ Is("level") => Level!IsLevelCase(input.case)
    /\ Is("region") => Areas!IsPlaceCase(input.case)
    /\ Is("scene") => Chart!IsSceneCase(input.case)
    /\ Is("picture") => Picture!IsPictureCase(input.case)
    /\ Is("compare") => Pair!IsComparisonCase(input.case)
    /\ Is("groups") => Opening!IsGroupCase(input.case)
    /\ Is("dims") => Opening!IsDimensionCase(input.case)
    /\ Is("chunks") => Opening!IsChunkCase(input.case)
    /\ Is("bundle") => Opening!IsBundleCase(input.case)

DecisionsInit == input = [kind |-> "none"]
Decide == Is("none") /\ WellFormed'
AnyDecision == DecisionsInit /\ [][Decide]_input

-----------------------------------------------------------------------------
\* What a mask removes is what its sources say, and what the provenance says
\* of it: no flag is guessed, a range comes from one source, the counts add up,
\* the times kept are the masked ones, and buckets weigh alike in the mean.
MasksAreHonest ==
    /\ Is("mask") =>
        /\ Mask!IsMaskCase(input.case)
        /\ Mask!StatusIsHonest(input.case)
        /\ Mask!UnclearFlagsCostNothing(input.case)
        /\ Mask!RangeIsOneSources(input.case)
        /\ Mask!CountsAddUp(input.case)
        /\ Mask!KeptTimesAreTheMaskedOnes(input.case)
    /\ Is("mean") =>
        /\ Mask!IsMeanCase(input.case)
        /\ Mask!BucketsWeighAlike(input.case)

\* The variable charted is the one that was meant: plumbing and empty twins
\* change nothing, a silent choice has no rival, coverage comes first, a choice
\* once settled stands, and companions are retrieved with it.
VariablesAreMeant ==
    /\ Is("file") =>
        /\ Choice!IsFile(input.case)
        /\ Choice!NoiseDoesNotMatter(input.case)
        /\ Choice!SilenceMeansUnrivalled(input.case)
        /\ Choice!CoverageComesFirst(input.case)
    /\ Is("cascade") => Choice!SettledChoicesStand(input.case.file, input.case.named,
                                                  input.case.recorded, input.case.primary)
    /\ Is("companions") =>
        /\ Choice!IsRequest(input.case.requested)
        /\ Choice!CompanionsComeAlong(input.case.requested, input.case.cfg)

\* A scrubber's frames hold every granule once, in its interval and within the
\* budget; whole-span extremes are those of the frames, coarse blocks overstate
\* within a ceiling, and the colour range holds the middle of the values.
FramesKeepTime ==
    /\ Is("frames") =>
        /\ Axis!IsFrameCase(input.case)
        /\ Axis!AxisWithinBudget(input.case)
        /\ Axis!GranulesFallInTheirInterval(input.case)
        /\ Axis!ExtremesAgree(input.case)
        /\ Axis!OverstatementWithinCeiling(input.case)
    /\ Is("histogram") =>
        /\ Axis!IsHistogram(input.case)
        /\ Axis!RangeHoldsTheMiddle(input.case)

\* The layer shown for a level is the one nearest over most of the area, within
\* half a gap of what was asked, and the selector finds that very layer again.
LayersAreMeant ==
    /\ Is("level") =>
        /\ Level!IsLevelCase(input.case)
        /\ Level!MostAreaAgrees(input.case)
        /\ Level!ErrorWithinHalfGap(input.case)
        /\ Level!NearestInTruth(input.case)
        /\ Level!SelectorFindsTheLayer(input.case)

\* What is retrieved for a place covers what is masked for it; a word that was
\* claimed and failed is not geocoded, members are not guessed, and shapes fit
\* the map, whatever boundary assets are missing.
PlacesAgree ==
    /\ Is("region") =>
        /\ Areas!IsPlaceCase(input.case)
        /\ Areas!RetrievalCoversTheMask(input.case)
        /\ Areas!FailedClaimsStayFailed(input.case)
        /\ Areas!OwnWordsAreNotGeocoded(input.case)
        /\ Areas!NoMemberIsGuessed(input.case)
        /\ Areas!ShapesFitTheMap(input.case)

\* The five tools that mask, crop and reduce a region show its cells where they
\* are and get one number for one scene, whatever way its axes run.
ChartsAreTrue ==
    /\ Is("scene") =>
        /\ Chart!IsSceneCase(input.case)
        /\ Chart!CellsAreWhereTheyAre(input.case)
        /\ Chart!CropsKeepTheRegion(input.case)
        /\ Chart!OneSceneOneNumber(input.case)
        /\ Chart!PeakIsTheLargest(input.case)
        /\ Chart!LayersAreNotGuessed(input.case)
        /\ Chart!CoverageIsOfTheRegion(input.case)
        /\ Chart!OverlayIsPinned(input.case)

\* A region smaller than a cell that its mask gave the cells it touches is
\* still there after the crop.
HealedRegionsAreShown == Is("scene") => Chart!HealedRegionsAreShown(input.case)

\* A picture redrawn from its codes says what the values say, on its own scale
\* the same as when it was drawn, and one panel's failure stays its own.
PicturesAreTrue ==
    /\ Is("picture") =>
        /\ Picture!IsPictureCase(input.case)
        /\ Picture!RecolouringAgrees(input.case)
        /\ Picture!OwnScaleRedraws(input.case)
        /\ Picture!FailuresStayLocal(input.case)

Fair(case, answer) ==
    /\ Pair!DifferenceIsBMinusA(case, answer)
    /\ Pair!PercentIsOfThePairedCells(case, answer)
    /\ Pair!ColoursCompare(case, answer)
    /\ Pair!ChangesMirror(answer)
    /\ Pair!OneAnswerInTime(case, answer)

\* A comparison is B minus A in whatever order the server answers, over the
\* cells both have, in colours that compare; swapping its sides changes a sign,
\* and it answers within its slower side's time.
ComparisonsAreFair ==
    /\ Is("compare") =>
        /\ Pair!IsComparisonCase(input.case)
        /\ Pair!SwappingIsASign(Pair!compare(input.case), Pair!compare(Pair!Swapped(input.case)))
        /\ Fair(input.case, Pair!compare(input.case))

\* An opened result has every group's variables on the dimensions declared, in
\* chunks that fit, and every granule of its bundle, each at its own time.
OpeningsAreWhole ==
    /\ Is("groups") =>
        /\ Opening!IsGroupCase(input.case)
        /\ Opening!GroupsKeepTheirVariables(input.case)
    /\ Is("dims") =>
        /\ Opening!IsDimensionCase(input.case)
        /\ Opening!DimensionsAreAsDeclared(input.case)
    /\ Is("chunks") =>
        /\ Opening!IsChunkCase(input.case)
        /\ Opening!ChunksFitTheCeiling(input.case)
    /\ Is("bundle") =>
        /\ Opening!IsBundleCase(input.case)
        /\ Opening!BundlesAreWholeOrRefused(input.case)
        /\ Opening!GranulesKeepTheirTimes(input.case)
        /\ Opening!AxisIsOrdered(input.case)
=============================================================================
