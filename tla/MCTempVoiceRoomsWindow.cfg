SPECIFICATION RoomSpec
CONSTANTS
    Rooms = {r1}
    Members = {a, b}
    Handlers = {h1, h2}
    Recon = recon
    Lobby = lobby
    Away = away
    Nobody = nobody
    MaxMoves = 2
    MaxTroubles = 1
INVARIANTS
    RoomTypeOK
PROPERTIES
    WindowKept
CHECK_DEADLOCK FALSE
