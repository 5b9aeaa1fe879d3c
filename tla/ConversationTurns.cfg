CONSTANTS
    alice = alice
    bob = bob
    NoChat = NoChat
    NotLoaded = NotLoaded
    NoFile = NoFile
    Chats = {alice, bob}
    Window = 5
    MaxIteration = 2
    MaxCalls = 1
    MaxTurns = 3
    MaxCrashes = 1
    StopWithCalls = FALSE
    TornSaves = TRUE
    SaveFaults = {"create", "write"}
    LoadFaults = {"open", "read"}
SPECIFICATION FairSpec
INVARIANTS
    TypeOK
    RequestWellFormed
    FreshStart
    Remembered
PROPERTIES
    ImplementsSessionStore
    TurnShrinks
    TurnEnds
CHECK_DEADLOCK FALSE
