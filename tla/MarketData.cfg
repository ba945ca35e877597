\* A subscriber over lossy datagrams and one over TCP, under one publisher.
SPECIFICATION Spec
CONSTANT Feeds <- AllFeeds
INVARIANTS BookIsAPrefix GapIsPursued
CHECK_DEADLOCK FALSE
