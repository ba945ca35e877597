----------------------------- MODULE MCEventBus -----------------------------
(* Model values for EventBus: the deployments the run looks at. *)
EXTENDS EventBus

MCClosed == -1000

Plain == [capacity |-> 2, bounded |-> {}, batchers |-> {}, required |-> {"r"},
          optional |-> {}, dropBehind |-> FALSE, maxRun |-> 2, drain |-> TRUE,
          listenerThrows |-> FALSE, eventThrows |-> FALSE, runs |-> 1,
          calls |-> [p \in Publishers |-> 2]]

\* Listeners and event constructors that may throw; two kinds of publisher before and
\* after a restart; a batch beside single publishes; on a ring of one slot, an
\* optional consumer that is waited for, and one that drops behind.
MCDeployments == {
  [Plain EXCEPT !.listenerThrows = TRUE, !.eventThrows = TRUE],
  [Plain EXCEPT !.bounded = {"q"}, !.runs = 2, !.calls["q"] = 1],
  [Plain EXCEPT !.capacity = 4, !.batchers = {"p"}, !.calls["q"] = 1],
  [Plain EXCEPT !.capacity = 1, !.bounded = {"q"}, !.optional = {"o"}, !.maxRun = 1,
                !.calls = [p \in Publishers |-> 1]],
  [Plain EXCEPT !.capacity = 1, !.optional = {"o"}, !.dropBehind = TRUE, !.maxRun = 1,
                !.drain = FALSE, !.calls = [p \in Publishers |-> 1]] }
=============================================================================
