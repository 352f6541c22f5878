\* Two commands on the same two ports, one kill, a port taken by a stranger.
CONSTANTS
  Slots = {1, 2, 3, 4}
  Commands <- MCCommands
  NPorts = 2
  MaxLaunches = 2
  MaxKills = 1
  MaxSeizures = 1
SPECIFICATION Spec
INVARIANTS TypeOK OneOfEach
PROPERTIES KeepsServing ShellReturns StaysAttached
CHECK_DEADLOCK FALSE
