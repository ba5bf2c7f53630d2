SPECIFICATION FairSpec
CONSTANTS
    Address = {a1, a2}
    a1 = a1
    a2 = a2
    None = None
    Fixture = {f1}
    f1 = f1
    Bodies <- MCBodies
    FadeTicks = 2
    MaxCommands = 2
    MaxEvents = 2
INVARIANTS HeadsWhereTold OneSocket
PROPERTY LightsArrive
CHECK_DEADLOCK FALSE
