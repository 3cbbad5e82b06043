SPECIFICATION CrossfadeSpec
CONSTANTS
    Deck = {d1, d2}
    Client = {c1}
    Spine = spine
    Fader = fader
    Free = free
    e1 = e1
    e2 = e2
    Entry = {e1, e2}
    Streams = {}
    NoEntry = NoEntry
    InitQueue <- Rows2
    Gestures = {"play", "stop"}
    SkipFades = TRUE
    BoundaryFades = TRUE
    LoadResults = {TRUE}
    MaxGestures = 2
    Ticks = {2}
    MaxLag = 1
CHECK_DEADLOCK FALSE
INVARIANT StopSilencesBoth
