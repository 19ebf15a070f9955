SPECIFICATION Spec
CONSTANTS
    Machines <- MCMachines
    CGroups = {1, 2}
    Processes = {11, 12}
    Threads = {21}
    Clients <- MCClients
    MaxGranted = 3
CHECK_DEADLOCK FALSE
INVARIANTS
    MappingSound
    HeadsInEffect
    SeparateRestored
    StopRestores
