SPECIFICATION MaintenanceSpec
CONSTANTS
    Servers = {a1, a2}
    ResourceTasks <- OneReaper
    Managed = {vm}
    MaxAge = 2
    MaxStops = 1
    Askers = {w1}
    Daemons = {a1, a2}
INVARIANTS ResourcesAreSound DiagnosisIsGenuine
PROPERTIES ResourceIsDestroyed InvestigationEnds
CHECK_DEADLOCK FALSE
