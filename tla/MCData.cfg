SPECIFICATION Spec
CHECK_DEADLOCK FALSE
CONSTANTS
  Handles = {h1, h2}
  Digestless = {h2}
  Replayed = {h1}
  Turns = {t1, t2}
  Exports = {}
  NoKey = NoKey
  OpenedBefore = 1
  MaxVersion = 2
  MaxPipe = 2
  MaxOpens = 3
  MaxExpiries = 1
  Capacity = 3
  CubeLimit = 2
  Estimates = {1, 2}
  Sizes = {2, 3}
  Charts = {c1, c2}
  Readers = {r1}
  Planes <- MCPlanes
  Limit = 2
  MaxPipeline = 2
  MaxCrashes = 1
  Openers = {o1, o2}
  Bundles = {b1, b2}
  Contents = {m1, m2}
  Cap = 1
  MaxOpenings = 3
INVARIANTS
    CubesAreAccounted
    FramesAreWhole
    ExtractsAreWhole
    MasksAreHonest
    VariablesAreMeant
    FramesKeepTime
    LayersAreMeant
    PlacesAgree
    ChartsAreTrue
    PicturesAreTrue
    ComparisonsAreFair
    OpeningsAreWhole
PROPERTIES
    CubesStay
