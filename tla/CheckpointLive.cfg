\* A shard of its own and its operator: what must happen in the end.  A cut that throws
\* takes the consumer out of service, and then the shard really stops.
SPECIFICATION FairSpec
CONSTANTS
  Shards = {"a"}
  Laned = {}
  Driven = {}
  Named = {"a"}
  Capacity = 2
  Threshold = 2
  MaxFailures = 1
PROPERTIES NowReturns ThresholdIsHonoured
CHECK_DEADLOCK FALSE
