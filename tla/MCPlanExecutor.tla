--------------------------- MODULE MCPlanExecutor ---------------------------
(* Instances of PlanExecutor. *)
EXTENDS PlanExecutor

CONSTANTS e1, e2, c1, c2

MCEntry == {e1, e2}
MCQueue == <<e1, e2>>
\* The two rows are of different albums.
MCAlbum == [e \in MCEntry |-> e]
Two == {c1, c2}
One == {c1}

Ask(kind, origin) == [kind |-> kind, origin |-> origin]

\* Two single-instance timers race; a remaining-plan follows a seek through pauses,
\* plays and ends, and is sought to and fro while its fires are on their way; the
\* plans of a boundary meet advances, plays and deletes.
Singletons == [requests |-> {Ask("deadline", "sleep"), Ask("immediate", "")},
               plans |-> 2, ticks |-> 0, edits |-> 0, moves |-> 0, time |-> 2, consume |-> FALSE, by |-> Two]
Remaining == [requests |-> {Ask("remaining", "sleep")},
              plans |-> 1, ticks |-> 2, edits |-> 0, moves |-> 1, time |-> 1, consume |-> FALSE, by |-> One]
Sought == [Remaining EXCEPT !.ticks = 3, !.moves = 0, !.time = 2]
Boundaries == [requests |-> {Ask("album", ""), Ask("start", "")},
               plans |-> 2, ticks |-> 0, edits |-> 1, moves |-> 2, time |-> 0, consume |-> FALSE, by |-> One]
Consumed == [Boundaries EXCEPT !.plans = 1, !.consume = TRUE]
All == {Singletons, Remaining, Sought, Boundaries, Consumed}
JustConsumed == {Consumed}
=============================================================================
