---------------------------- MODULE StoreBudget ----------------------------
(***************************************************************************)
(* The arithmetic of the offline store's budget, store.rs: how much of the *)
(* disk the store may use, how far it may fill it with pins, and how far   *)
(* it must shrink.  Sizes are numbers of some unit; the code's are bytes.  *)
(***************************************************************************)
EXTENDS Integers

CONSTANTS
    ReserveFloor,    \* STORE_RESERVE_FLOOR, 20 GiB
    ReservePct,      \* STORE_RESERVE_FRACTION_PCT, 5
    Setback,         \* STORE_PIN_CEILING_SETBACK, 512 MiB
    EvictFloor,      \* STORE_EVICT_FLOOR, 2 GiB
    CriticalAvail,   \* STORE_CRITICAL_AVAIL, 5 GiB
    StarFloorBytes   \* STAR_FLOOR_BYTES, 2 GiB

ASSUME BudgetAssumption ==
    /\ ReserveFloor \in Nat /\ ReservePct \in Nat /\ Setback \in Nat
    /\ EvictFloor \in Nat /\ CriticalAvail \in Nat /\ StarFloorBytes \in Nat

Least(a, b) == IF a <= b THEN a ELSE b
Greatest(a, b) == IF a <= b THEN b ELSE a
SatSub(a, b) == Greatest(a - b, 0)

\* A disk that could not be measured: the caller falls back to the configured cap.
Unmeasured == -1

BudgetReserve(total) == Greatest(ReserveFloor, (total \div 100) * ReservePct)

\* As if the store's own bytes were another program's.
DeriveWithoutOwn(avail, total, own, configured) ==
    IF avail > total THEN Unmeasured
    ELSE Least(configured, SatSub(avail, BudgetReserve(total)))

\* What is free and what the store itself holds, less the reserve, under the cap.
DeriveBudget(avail, total, own, configured) ==
    IF avail > total THEN Unmeasured
    ELSE Least(configured, SatSub(avail + own, BudgetReserve(total)))

\* What a full pass evicts down to: the free-space budget only once the disk is
\* critically low, and otherwise never below a floor.
EvictTarget(max, configured, avail) ==
    IF avail <= CriticalAvail THEN max
    ELSE Greatest(max, Least(EvictFloor, configured))

PinCeiling(max) == SatSub(max, Least(Setback, max \div 4))

StarFloor(ceiling) == Least(StarFloorBytes, ceiling \div 2)
=============================================================================
