------------------------------ MODULE QueueOps ------------------------------
(***************************************************************************)
(* The index arithmetic of the play queue (crates/hypodj-core/src/         *)
(* handler.rs, impl State): what plays after a row, what an eviction does  *)
(* to the indices that outlive it, and where a stable id sits now.  A      *)
(* queue is a sequence of entry ids; index 0 stands for None.              *)
(***************************************************************************)
EXTENDS Naturals, Sequences

\* Where an entry sits, 0 when it has left the queue.
PositionOf(queue, entry) ==
    IF \E i \in DOMAIN queue : queue[i] = entry
    THEN CHOOSE i \in DOMAIN queue :
            queue[i] = entry /\ \A j \in 1..(i - 1) : queue[j] # entry
    ELSE 0

\* The rows an advance from `cur' may go to: a set, because `random' draws.
\* Modes is a record [single, repeat, random, consume] of booleans.
PeekNextFrom(queue, cur, auto, modes) ==
    LET len == Len(queue) IN
    IF len = 0 THEN {0}
    ELSE IF auto /\ modes.single THEN {IF modes.repeat THEN cur ELSE 0}
    ELSE IF modes.random THEN IF len = 1 THEN {1} ELSE (1..len) \ {cur}
    ELSE IF cur + 1 <= len THEN {cur + 1}
    ELSE {IF modes.repeat THEN 1 ELSE 0}

\* The same question where a draw would be wrong: no answer under random or
\* single, so nothing is warmed on a guess.
PeekNextDeterministic(queue, cur, modes) ==
    IF modes.random \/ modes.single \/ queue = << >> THEN 0
    ELSE IF cur + 1 <= Len(queue) THEN cur + 1
    ELSE IF modes.repeat THEN 1 ELSE 0

\* Is there nothing left to play after `cur', whatever `single' says?
IsTrueDrain(queue, cur, modes) ==
    IF cur = 0 THEN queue = << >>
    ELSE \/ queue = << >>
         \/ ~modes.repeat /\ ~modes.random /\ cur + 1 > Len(queue)

RemoveRow(queue, pos) ==
    [i \in 1..(Len(queue) - 1) |-> IF i < pos THEN queue[i] ELSE queue[i + 1]]

\* Variant: the rows behind the gap keep their index.
RemapLeavesLater(i, pos) == IF i = pos THEN 0 ELSE i

\* An index over the shrink: the row that went is forgotten, later rows move up.
Remap(i, pos) == IF i = pos THEN 0 ELSE IF i > pos THEN i - 1 ELSE i

\* Variant: the target is not moved over the shrink.
ConsumeTargetUnshifted(next, cur, newLen, repeat) ==
    IF newLen = 0 THEN 0 ELSE IF next > newLen THEN IF repeat THEN 1 ELSE 0 ELSE next

\* plan_next's own remap of its target after `consume' took row `cur'.
ConsumeTarget(next, cur, newLen, repeat) ==
    LET shifted == IF next > cur THEN next - 1 ELSE next IN
    IF newLen = 0 THEN 0
    ELSE IF shifted > newLen THEN IF repeat THEN 1 ELSE 0
    ELSE shifted
=============================================================================
