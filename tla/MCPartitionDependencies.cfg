SPECIFICATION SoundSpec
CONSTANTS
  Loops <- SmallAndTrees
  Trips = {0, 3}
  Stages = {0, 1}
INVARIANTS ReadsAsSequential BuffersExclusive
PROPERTY Termination
