SPECIFICATION FairSpec
CONSTANTS
  MaxAddr = 4
  BodyKinds = {"readA", "writeB", "copyAC", "scratchB", "wait", "barrier"}
  EdgeKinds = {"writeA", "readC", "arrive"}
  Modules <- StraightAndRegions
INVARIANTS RaceFree DanglingBuffersKnown
PROPERTY Termination
