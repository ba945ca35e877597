\* Two publishers on buses built in five ways, stopped and torn down.
SPECIFICATION FairSpec
CONSTANTS
  Publishers = {"p", "q"}
  Deployments <- MCDeployments
  Slack = 1
  Closed <- MCClosed
INVARIANTS SlotsAreOwned NothingOverwritten DeliversExactly
PROPERTIES KeepsMoving
