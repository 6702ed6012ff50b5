CONSTANTS
    Behaviours = {{}, {"signals", "death"}, {"slow", "signals", "death"},
                  {"asking", "slow", "slowstart", "death"}}
    MaxStops = 2
    MaxKeys = 4
SPECIFICATION Spec
INVARIANTS StateAgrees PanesFresh NeverRestarted
PROPERTIES StopsShown
CHECK_DEADLOCK FALSE
