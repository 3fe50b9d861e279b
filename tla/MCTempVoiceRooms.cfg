SPECIFICATION RoomFairSpec
CONSTANTS
    Rooms = {r1}
    Members = {a, b}
    Handlers = {h1, h2}
    Recon = recon
    Lobby = lobby
    Away = away
    Nobody = nobody
    MaxMoves = 2
    MaxTroubles = 1
INVARIANTS
    Tracked
PROPERTIES
    ExpiryJustified
    RoomsSettle
CHECK_DEADLOCK FALSE
