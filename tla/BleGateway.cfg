SPECIFICATION Spec
CONSTANTS
    Commands = {10}
    MaxSessions = 2
    MaxFrames = 2
    MaxFaults = 2
    MaxTries = 3
    DedupeMax = 1
INVARIANTS AppliedOnce PhoneFollows RefusedForCause
PROPERTY RevokedIsOut
CHECK_DEADLOCK FALSE
