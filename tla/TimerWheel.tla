----------------------------- MODULE TimerWheel -----------------------------
(***************************************************************************)
(* The wall-clock timer source of crates/hypodj-core/src/timer.rs: one     *)
(* task owns a heap of deadlines and the set of live ids; handles reach it *)
(* over an unbounded control channel.  Dropping a guard only sends a       *)
(* Cancel, which may still be queued when the deadline is reached, and a   *)
(* cancelled id leaves its heap entry behind.                              *)
(***************************************************************************)
EXTENDS Naturals, Sequences, FiniteSets

CONSTANTS
    MaxTime,     \* bound on the clock
    MaxTimers    \* bound on the timers armed in a behaviour

ASSUME WheelAssumption == MaxTime \in Nat /\ MaxTimers \in Nat

VARIABLES
    clock,    \* the shared clock
    due,      \* due[id]: the deadline timer `id' was armed with; ids are minted in order
    guards,   \* the ids whose TimerGuard somebody still holds
    ctl,      \* the control channel
    heap,     \* the ids with an entry in the deadline heap
    live,     \* the live-set
    firing,   \* the id whose sleep the select has seen end, 0 when it is waiting
    fires,    \* fired ids on their way to the director
    rung      \* history: every id that has fired

wheelVars == <<clock, due, guards, ctl, heap, live, firing, fires, rung>>

TimerId == DOMAIN due
TimerCmd == [op : {"Arm", "Cancel"}, id : Nat \ {0}]

WheelInit ==
    /\ clock = 0 /\ due = << >> /\ guards = {} /\ ctl = << >>
    /\ heap = {} /\ live = {} /\ firing = 0 /\ fires = << >> /\ rung = {}
-----------------------------------------------------------------------------
\* The order of the heap: earliest deadline first, then the lower id.
Before(i, j) == due[i] < due[j] \/ (due[i] = due[j] /\ i < j)
IsTop(id, h) == id \in h /\ \A j \in h \ {id} : Before(id, j)

\* Dead tops are dropped before the loop sleeps on what is left: an entry
\* survives if it is live or sits behind one that is.
Reaped(h, l) == {i \in h : i \in l \/ \E j \in h \cap l : Before(j, i)}

\* TimerHandle::arm: a fresh id, a message and a guard.  `ArmEach' is for a
\* caller that arms several timers in one lock scope.
ArmEach(deadlines) ==
    LET n == Len(due) IN
    /\ due' = due \o deadlines
    /\ ctl' = ctl \o [k \in 1..Len(deadlines) |-> [op |-> "Arm", id |-> n + k]]

Arm(deadline) == ArmEach(<<deadline>>) /\ guards' = guards \cup {Len(due) + 1}

\* Drop for TimerGuard, which is also what TimerHandle::cancel sends.
DropGuard(id) ==
    /\ id \in guards
    /\ guards' = guards \ {id}
    /\ ctl' = Append(ctl, [op |-> "Cancel", id |-> id])
    /\ UNCHANGED due

\* apply_cmd, and the reaping that starts the loop's next round.
ApplyCmd ==
    /\ firing = 0 /\ ctl # << >>
    /\ LET cmd == Head(ctl)
           l == IF cmd.op = "Arm" THEN live \cup {cmd.id} ELSE live \ {cmd.id}
           h == IF cmd.op = "Arm" THEN heap \cup {cmd.id} ELSE heap
       IN live' = l /\ heap' = Reaped(h, l)
    /\ ctl' = Tail(ctl)
    /\ UNCHANGED <<clock, due, guards, firing, fires, rung>>

\* Variant: a sleep that is over wins over waiting commands.
SleepEndsFirst ==
    /\ firing = 0
    /\ \E id \in heap : IsTop(id, heap) /\ due[id] <= clock /\ firing' = id
    /\ UNCHANGED <<clock, due, guards, ctl, heap, live, fires, rung>>

\* The select polls the channel before the sleep: a deadline is seen only when
\* no command waits.  One may still arrive before the fire is sent.
SleepEnds ==
    /\ firing = 0 /\ ctl = << >>
    /\ \E id \in heap : IsTop(id, heap) /\ due[id] <= clock /\ firing' = id
    /\ UNCHANGED <<clock, due, guards, ctl, heap, live, fires, rung>>

\* The entry is popped and, being live, delivered.
Fire ==
    /\ firing # 0
    /\ live' = live \ {firing}
    /\ heap' = Reaped(heap \ {firing}, live')
    /\ IF firing \in live
       THEN fires' = Append(fires, firing) /\ rung' = rung \cup {firing}
       ELSE UNCHANGED <<fires, rung>>
    /\ firing' = 0
    /\ UNCHANGED <<clock, due, guards, ctl>>

\* Time goes by.
Pass ==
    /\ clock < MaxTime
    /\ clock' = clock + 1
    /\ UNCHANGED <<due, guards, ctl, heap, live, firing, fires, rung>>

Wheel == ApplyCmd \/ SleepEnds \/ Fire

\* On its own the source serves any callers, and a reader that empties `fires'.
Caller ==
    /\ \/ Len(due) < MaxTimers /\ \E d \in 0..MaxTime : Arm(d)
       \/ \E id \in guards : DropGuard(id)
    /\ UNCHANGED <<clock, heap, live, firing, fires, rung>>

Reader ==
    /\ fires # << >>
    /\ fires' = Tail(fires)
    /\ UNCHANGED <<clock, due, guards, ctl, heap, live, firing, rung>>

WheelNext == Wheel \/ Caller \/ Reader \/ Pass
WheelSpec == WheelInit /\ [][WheelNext]_wheelVars
-----------------------------------------------------------------------------
Queued(op) == {ctl[i].id : i \in {j \in DOMAIN ctl : ctl[j].op = op}}

\* The timers that may still ring: live or about to be, and no Cancel sent, or
\* already past the point where a Cancel is looked at.
Pending == ((live \cup Queued("Arm")) \ Queued("Cancel"))
           \cup (IF firing = 0 THEN {} ELSE {firing})

WheelTypeOK ==
    /\ clock \in Nat
    /\ due \in Seq(Nat)
    /\ guards \subseteq TimerId
    /\ ctl \in Seq(TimerCmd)
    /\ heap \subseteq TimerId /\ live \subseteq heap
    /\ firing \in TimerId \cup {0}
    /\ fires \in Seq(TimerId)
    /\ rung \subseteq TimerId

\* The source implements the abstract alarms: in particular a guard dropped
\* before the select has seen the deadline silences its timer for good, however
\* late the Cancel is read (timer.rs, "cancel without phantom fires").
A == INSTANCE Alarms WITH armed <- Pending
ImplementsAlarms == A!Spec
=============================================================================
