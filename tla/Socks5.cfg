CONSTANTS
    Users <- MCUsers
    Creds <- MCCreds
    Targets <- MCTargets
    ExtraMethods <- MCExtraMethods
    EmptyGreeting = FALSE
SPECIFICATION FairSpec
INVARIANTS
    HandshakeAgreement
    CredentialsChecked
PROPERTIES
    HandshakeTerminates
\* A handshake ends with both sides returned; a CONNECT that succeeded
\* goes on to relay, which is not part of this model.
CHECK_DEADLOCK FALSE
