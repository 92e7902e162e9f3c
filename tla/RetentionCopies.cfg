SPECIFICATION Spec
CONSTANTS
    Backups = {1, 2, 3}
    Locations = {"a"}
    Nodes = {"n"}
    Retention = 2
    MaxDue = 1
    MaxFaults = 1
PROPERTY RetentionKeepsCopies
CHECK_DEADLOCK FALSE
