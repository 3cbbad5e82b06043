SPECIFICATION Spec
CONSTANTS
    Deck = {d1}
    Caller = {c1}
    Entry = {e1, e2}
    NoLoad = NoLoad
    RingCap = 2
    LoadResults = {TRUE}
    EndKinds = {"Eof"}
    MaxLoads = 2
    MaxEnds = 1
PROPERTY SupersededDipKeepsTheTrack
