--------------------------- MODULE TrackLifecycle ---------------------------
(***************************************************************************)
(* What every observer of the event stream is promised: at most one track  *)
(* is open, it is closed before another is opened, and a track is closed   *)
(* at most once.  `edges' holds the edges of the latest publication.       *)
(***************************************************************************)
EXTENDS Sequences

CONSTANTS Entry, NoEntry

VARIABLES open, edges

D == INSTANCE Director

Init == open = NoEntry /\ edges = << >>

Start(q) ==
    /\ open = NoEntry
    /\ open' = q /\ edges' = <<D!TrackStart(q)>>

End(q) ==
    /\ open = q
    /\ open' = NoEntry /\ edges' = <<D!TrackEnd(q)>>

\* A skip: the open track is closed and the next one opened in one go.
EndThenStart(q, r) ==
    /\ open = q /\ q # r
    /\ open' = r /\ edges' = <<D!TrackEnd(q), D!TrackStart(r)>>

\* Playback stops: an open track is abandoned.
Stopped == open' = NoEntry /\ edges' = <<D!StateChanged("Stopped")>>

\* Pausing and resuming concern a track that is open.
PauseOrResume ==
    /\ open # NoEntry
    /\ edges' \in {<<D!StateChanged("Paused")>>, <<D!StateChanged("Playing")>>}
    /\ UNCHANGED open

Nothing == edges' = << >> /\ UNCHANGED open

Next ==
    \/ \E q \in Entry : Start(q) \/ End(q)
    \/ \E q, r \in Entry : EndThenStart(q, r)
    \/ Stopped \/ PauseOrResume \/ Nothing

Spec == Init /\ [][Next]_<<open, edges>>
=============================================================================
