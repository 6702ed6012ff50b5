CONSTANTS
    N = 2
    Faults = {{}, {"powerloss"}, {"powerloss", "childfirst"}, {"powerloss", "slow"}}
    MaxCrashes = 2
SPECIFICATION Spec
INVARIANTS OneAtATime StopSkipsRest EndsRight RebootAtMostOnce
PROPERTIES RunCompletes
CHECK_DEADLOCK FALSE
