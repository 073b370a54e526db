SPECIFICATION FairSpec
CONSTANTS
  Loops <- OnlyReuseArgument
  Trips = {3}
  Stages = {0}
PROPERTY Termination
