SPECIFICATION CrossfadeSpec
CONSTANTS
    Deck = {d1, d2}
    Client = {c1}
    Spine = spine
    Fader = fader
    Free = free
    e1 = e1
    e2 = e2
    Entry = {e1, e2}
    Streams = {}
    NoEntry = NoEntry
    InitQueue <- Rows2
    Gestures = {"play", "skip", "delete"}
    SkipFades = TRUE
    BoundaryFades = FALSE
    LoadResults = {TRUE}
    MaxGestures = 3
    Ticks = {}
    MaxLag = 0
CHECK_DEADLOCK FALSE
PROPERTY DeleteAbandonsTheTarget
