CONSTANTS
  Loops <- MCLoops
  Trips <- MCTrips
SPECIFICATION Spec
INVARIANT DefsBeforeUses
INVARIANT StagesAsAsked
INVARIANT ReadsOwnCopy
PROPERTY ImplementsLoop
PROPERTY Finishes
CHECK_DEADLOCK FALSE
