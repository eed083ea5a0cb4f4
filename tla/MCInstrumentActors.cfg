SPECIFICATION FairSpec
CONSTANTS
    daq = daq
    laser = laser
    both = both
    first = first
    Key = {daq, laser}
    Thread = {both, first}
    Retirer = {release}
    Replacement = replacement
    Backend = {b1, b2}
    FirstBackend = b1
    Slot = {a1, a2}
    Wants <- MCWants
    Scope <- MCScope
    None = None
INVARIANTS
    OneConnection
    NoGhostOwner
    ConnectedToActive
PROPERTIES
    OwnerKeepsDevice
    MaintenanceEnds
CHECK_DEADLOCK FALSE
