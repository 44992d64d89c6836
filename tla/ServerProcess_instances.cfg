\* Two processes, started, stopped and killed at any moment, on either system.
SPECIFICATION FairSpec

CONSTANTS
    Processes = {p1, p2}
    Nobody    = Nobody
    Stale     = Stale

INVARIANTS
    TypeOK
    InstanceGuarded
    PidFileRemoved
    ServerListens

PROPERTIES
    RunsUntilStopped
    ShutdownEnds
