SPECIFICATION Spec
CONSTANTS
 Plans = {1,2,3}
 MaxFaults = 2
INVARIANT OneReplacement
CHECK_DEADLOCK FALSE
