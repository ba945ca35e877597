\* Group commit, a process without fsync, and a shard that loses a snapshot.
SPECIFICATION Spec
CONSTANTS
  Deployments <- ShardDeployments
CHECK_DEADLOCK FALSE
INVARIANTS NoAckedUnsynced DirectoryIsSound NeverRefused
PROPERTIES RecoversFaithfully
