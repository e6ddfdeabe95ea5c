CONSTANTS
    Users <- MCUsers
    Creds <- MCCreds
    Targets <- MCTargets
    ExtraMethods <- MCExtraMethods
    EmptyGreeting = TRUE
SPECIFICATION FairSpec
PROPERTIES
    ZeroNMethodsRejected
\* The run is about a handshake stuck with both sides waiting.
CHECK_DEADLOCK FALSE
