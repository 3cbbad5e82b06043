----------------------------- MODULE MCPlayback -----------------------------
(* Small instances of Playback. *)
EXTENDS Playback, TLC

CONSTANTS e1, e2, e3
Rows2 == <<e1, e2>>
Rows3 == <<e1, e2, e3>>

Mode(f) == [single |-> "single" \in f, repeat |-> "repeat" \in f,
            random |-> "random" \in f, consume |-> "consume" \in f]
Linear == {Mode({})}
Consuming == {Mode({"consume"})}
LinearOrConsume == Linear \cup Consuming
QueueModes == LinearOrConsume \cup {Mode({"random", "repeat"}), Mode({"single"})}
=============================================================================
