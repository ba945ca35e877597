\* Two shards on one lane: an operator calls checkpointNow on one, a driver steps the other.
SPECIFICATION Spec
CONSTANTS
  Shards = {"a", "b"}
  Laned = {"a", "b"}
  Driven = {"b"}
  Named = {"a"}
  Capacity = 2
  Threshold = 1
  MaxFailures = 0
INVARIANTS OneCheckpointPerLane NowTellsTheTruth
