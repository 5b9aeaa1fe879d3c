CONSTANTS
    alice = alice
    bob = bob
    NoChat = NoChat
    NotLoaded = NotLoaded
    NoFile = NoFile
    Chats = {alice}
    Window = 5
    MaxIteration = 2
    MaxCalls = 2
    MaxTurns = 4
    MaxCrashes = 1
    StopWithCalls = FALSE
    TornSaves = FALSE
    SaveFaults = {}
    LoadFaults = {}
SPECIFICATION Spec
INVARIANTS
    HistoryStartsWithUser
CHECK_DEADLOCK FALSE
