\* Two registrations at a time, three events, two deaths of the consumer's process
\* and a restart of the service.
SPECIFICATION Spec
CONSTANTS
    r1 = r1  r2 = r2
    Request = {r1, r2}
    MaxEvents = 3
    MaxCrashes = 2
    MaxRestarts = 1
    NoOffset = NoOffset
    NoCall = NoCall
\* A behaviour ends once its registrations and crashes are used up.
CHECK_DEADLOCK FALSE
INVARIANTS
    TypeOK
    OneProducer
    OneLossPerCrash
PROPERTIES
    DeliversInOrder
    AnnouncementsHandled
