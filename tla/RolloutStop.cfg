SPECIFICATION Spec
CONSTANTS
    ReplacementPlans = {1, 2}
    ReplacementFaults = 2
    EvacuatedPods = {"a", "b"}
    PodLayouts <- VolumeLayouts
    MaxInstances = 2
    LossAccepted = FALSE
    ProvisionPlans = {1, 2, 3}
    OwnedMachines = {1, 2, 3, 4}
    ProviderVmids = {100, 101, 102, 103}
    MachineRequests <- MachineSpecs
    ProvisionFaults = 1
    Configs = {"x", "y"}
    MaxRevisions = 3
    ConfigFaults = 1
    Layouts <- ClusterLayouts
    Targets = {2, 3}
    MaxRuns = 2
    RolloutFaults = 2
    KeyFiles = {"a", "b", "c"}
    StoreKeys = {1, 2, 3}
    StoreFaults = 1
    AuditRequests = {1, 2, 3}
    MaxEntries = 2
    AuditFaults = 2
    Backups = {1, 2}
    Locations = {l1, l2}
    ControlPlanes = {n1, n2}
    Retention = 1
    MaxDue = 1
    BackupFaults = 1
    Tokens = {1}
    Tickets = {1, 2}
    TicketLimit = 1
    SigningKeys = {1, 2}
    Clients = {1, 2}
    MaxChanges = 2
    SessionFaults = 1
PROPERTY StopStrandsNothing
CHECK_DEADLOCK FALSE
