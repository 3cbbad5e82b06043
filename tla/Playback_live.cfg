SPECIFICATION PlaybackFairSpec
CONSTANTS
    Deck = {d1}
    Caller = {spine, client, fader, gone}
    Fader = fader
    Spine = spine
    Client = client
    Gone = gone
    e1 = e1
    e2 = e2
    e3 = e3
    Entry = {e1, e2, e3}
    NoLoad = NoLoad
    NoEntry = NoEntry
    RingCap = 2
    LoadResults = {TRUE}
    EndKinds = {"Eof"}
    MaxLoads = 3
    MaxEnds = 1
    InitQueue <- Rows2
    Modes <- Linear
    Gestures = {"play"}
    MaxFailures = 2
CHECK_DEADLOCK FALSE
PROPERTIES
    SpineComesBack
    GestureReturns
    EndIsResolved
