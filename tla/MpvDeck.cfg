SPECIFICATION FairSpec
CONSTANTS
    Deck = {d1}
    Caller = {c1}
    Entry = {e1}
    NoLoad = NoLoad
    RingCap = 1
    LoadResults = {TRUE, FALSE}
    EndKinds = {"Eof", "LoadErr"}
    MaxLoads = 3
    MaxEnds = 1
INVARIANTS TypeOK OneEofPerLoad DeckTellsTruth
PROPERTY EveryCommandAnswered
