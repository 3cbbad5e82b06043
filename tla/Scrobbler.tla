----------------------------- MODULE Scrobbler -----------------------------
(***************************************************************************)
(* The scrobbler of crates/hypodj-core/src/scrobble.rs, which the spine    *)
(* feeds every player event before it looks at it.  It follows one song at *)
(* a time: the last one to start.  A scrobbler is a record; `sent' is the  *)
(* song the latest event made it submit as played.                         *)
(*                                                                         *)
(* A position is a place in a track: 0 is short of the thirty-second       *)
(* floor, 1 is past it, 2 is past the half-way mark as well.               *)
(***************************************************************************)
EXTENDS Naturals

CONSTANTS NoEntry

Places == 0..2

ScrobblerInit ==
    [song |-> NoEntry, reached |-> 0, measured |-> FALSE, submitted |-> FALSE,
     sent |-> NoEntry]

\* threshold_met: without a duration only the floor counts.
ThresholdMet(s) == s.reached >= IF s.measured THEN 2 ELSE 1

Quiet(s) == [s EXCEPT !.sent = NoEntry]

Submit(s) ==
    IF ~s.submitted /\ ThresholdMet(s) THEN [s EXCEPT !.submitted = TRUE, !.sent = s.song]
    ELSE Quiet(s)

\* on_playing: the song already followed is a resume, not a new play.
OnPlaying(s, song) ==
    IF s.song = song THEN Quiet(s) ELSE [ScrobblerInit EXCEPT !.song = song]

\* set_duration: the lookup its start asked for has come back.
SetDuration(s) == [Quiet(s) EXCEPT !.measured = TRUE]

\* decide_timepos: whatever a position belongs to, it is the song's.
OnTimePos(s, place) ==
    IF s.song = NoEntry THEN s
    ELSE Submit([s EXCEPT !.reached = IF place > @ THEN place ELSE @])

\* decide_eof: a last chance to submit, then nothing is followed.
OnEof(s, song) ==
    IF s.song # song THEN Quiet(s)
    ELSE [ScrobblerInit EXCEPT !.sent = Submit(s).sent]
=============================================================================
