SPECIFICATION PlaybackSpec
CONSTANTS
    Deck = {d1}
    Caller = {spine, client, fader, gone}
    Fader = fader
    Spine = spine
    Client = client
    Gone = gone
    e1 = e1
    e2 = e2
    e3 = e3
    Entry = {e1, e2, e3}
    NoLoad = NoLoad
    NoEntry = NoEntry
    RingCap = 1
    LoadResults = {TRUE}
    EndKinds = {"Eof"}
    MaxLoads = 3
    MaxEnds = 1
    InitQueue <- Rows2
    Modes <- QueueModes
    Gestures = {"play", "delete", "clear"}
    MaxFailures = 2
CHECK_DEADLOCK FALSE
INVARIANTS
    PlaybackTypeOK
    ObserversKnowTheState
    RowAgrees
    StoppedIsSilent
    ObserversKnowTheTrack
PROPERTIES
    ObserversSeeTracks
    LandedRowIsPlaying
    AdvanceKeepsOrder
