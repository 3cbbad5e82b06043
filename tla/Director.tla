------------------------------ MODULE Director ------------------------------
(***************************************************************************)
(* The publisher of crates/hypodj-core/src/director.rs: it turns raw       *)
(* player events into the edges observers see, by diffing each event       *)
(* against the entry it has latched.                                       *)
(*                                                                         *)
(* A publisher is a record: the latched entry, the play state observers    *)
(* were last shown, the one-shot that swallows a transient Stopped, and    *)
(* the edges the latest event produced, in order.                          *)
(***************************************************************************)
EXTENDS Sequences

CONSTANTS NoEntry

TrackStart(q) == [edge |-> "TrackStart", entry |-> q]
TrackEnd(q) == [edge |-> "TrackEnd", entry |-> q]
StateChanged(s) == [edge |-> s, entry |-> NoEntry]

PublisherInit ==
    [latch |-> NoEntry, last |-> "Stopped", suppress |-> FALSE, edges |-> << >>]

\* Variant: the same id is taken for nothing new.
OnPlayingIgnoresResume(p, q) ==
    IF p.latch = q THEN [p EXCEPT !.edges = << >>]
    ELSE [latch |-> q, last |-> "Playing", suppress |-> FALSE,
          edges |-> IF p.latch = NoEntry THEN <<TrackStart(q)>>
                    ELSE <<TrackEnd(p.latch), TrackStart(q)>>]

\* Variant: a play over a playing track starts the new one only.
OnPlayingLeavesOpen(p, q) ==
    [latch |-> q, last |-> "Playing", suppress |-> FALSE,
     edges |-> IF p.latch = q THEN << >> ELSE <<TrackStart(q)>>]

\* A Playing event: a new id closes the latched track and starts; the same id
\* is a resume, shown only if observers believed otherwise.
OnPlaying(p, q) ==
    [latch |-> q, last |-> "Playing", suppress |-> FALSE,
     edges |-> IF p.latch = q
               THEN IF p.last = "Playing" THEN << >> ELSE <<StateChanged("Playing")>>
               ELSE IF p.latch = NoEntry THEN <<TrackStart(q)>>
               ELSE <<TrackEnd(p.latch), TrackStart(q)>>]

OnPaused(p) ==
    IF p.last # "Playing" THEN [p EXCEPT !.edges = << >>]
    ELSE [p EXCEPT !.last = "Paused", !.edges = <<StateChanged("Paused")>>]

\* Variant: only the state is shown as stopped.
OnStoppedKeepsLatch(p) ==
    IF p.suppress THEN [p EXCEPT !.suppress = FALSE, !.edges = << >>]
    ELSE [p EXCEPT !.last = "Stopped", !.edges = <<StateChanged("Stopped")>>]

OnStopped(p) ==
    IF p.suppress THEN [p EXCEPT !.suppress = FALSE, !.edges = << >>]
    ELSE [p EXCEPT !.latch = NoEntry, !.last = "Stopped",
                   !.edges = IF p.last = "Stopped" THEN << >>
                             ELSE <<StateChanged("Stopped")>>]

\* The end of a track, before anything advances; an end that names no entry
\* closes nothing.
OnEof(p, q) ==
    [p EXCEPT !.latch = NoEntry,
              !.edges = IF q = NoEntry THEN << >> ELSE <<TrackEnd(q)>>]

MarkAdvanced(p) == [p EXCEPT !.suppress = TRUE]

\* A crossfaded end was already advanced over by the crossfade itself.
OnCrossfadedEof(p, q) == MarkAdvanced(OnEof(p, q))
=============================================================================
