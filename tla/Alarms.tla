------------------------------- MODULE Alarms -------------------------------
(***************************************************************************)
(* What a wall-clock timer source promises (crates/hypodj-core/src/        *)
(* timer.rs): an alarm that is set rings at most once, never before its    *)
(* time, and not at all once it has been cleared.                          *)
(***************************************************************************)
EXTENDS Naturals, Sequences

VARIABLES
    clock,   \* the shared clock
    due,     \* the deadline of every alarm ever set; alarms are numbered
    armed,   \* the alarms that may still ring
    rung     \* the alarms that have rung

Init == clock = 0 /\ due = << >> /\ armed = {} /\ rung = {}

\* New alarms are set, and old or new ones are cleared.
Change ==
    /\ Len(due) <= Len(due') /\ SubSeq(due', 1, Len(due)) = due
    /\ armed' \subseteq armed \cup (Len(due) + 1)..Len(due')
    /\ UNCHANGED <<clock, rung>>

Ring ==
    /\ \E id \in armed :
          /\ due[id] <= clock
          /\ armed' = armed \ {id} /\ rung' = rung \cup {id}
    /\ UNCHANGED <<clock, due>>

Pass == clock' = clock + 1 /\ UNCHANGED <<due, armed, rung>>

Next == Change \/ Ring \/ Pass

Spec == Init /\ [][Next]_<<clock, due, armed, rung>>
=============================================================================
