CONSTANTS
    TaskCount = 2
    AppEvents = {"event"}
    Msgs = {m1, m2, m3}
    MaxTimers = 2
    Timeouts = {1, 2}
    Reloaded <- MCReloaded
    MaxElapsed = 1
    MaxCalls = 6
SPECIFICATION FairSpec
INVARIANTS
    OneTimerPerEvent
PROPERTIES
    ImplementsServices
    EventsServed
