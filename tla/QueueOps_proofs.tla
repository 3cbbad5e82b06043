--------------------------- MODULE QueueOps_proofs ---------------------------
(***************************************************************************)
(* What the index arithmetic of QueueOps promises, for every queue: a row  *)
(* that outlives an eviction is still found at the index the code moves to. *)
(***************************************************************************)
EXTENDS QueueOps, TLAPS, WellFoundedInduction

\* A non-empty set of indices has a least one.
LEMMA LeastIndex ==
    ASSUME NEW S \in SUBSET Nat, S # {}
    PROVE  \E i \in S : \A j \in S : i <= j
<1>1. PICK i \in S : \A j \in S : ~(<<j, i>> \in OpToRel(<, Nat))
    BY NatLessThanWellFounded, WFMin
<1>2. \A j \in S : <<j, i>> \in Nat \X Nat
    OBVIOUS
<1>3. \A j \in S : ~(j < i)
    BY <1>1, <1>2 DEF OpToRel
<1>4. \A j \in S : i \in Nat /\ j \in Nat
    OBVIOUS
<1>5. \A j \in S : i <= j
    BY <1>3, <1>4
<1> QED
    BY <1>5

\* Where an entry sits is a row that holds it, and the first; 0 is for an entry
\* that no row holds.
LEMMA PositionIsFirst ==
    ASSUME NEW E, NEW queue \in Seq(E), NEW entry
    PROVE  /\ PositionOf(queue, entry) \in 0..Len(queue)
           /\ (\E i \in DOMAIN queue : queue[i] = entry) =>
                 /\ PositionOf(queue, entry) \in 1..Len(queue)
                 /\ queue[PositionOf(queue, entry)] = entry
                 /\ \A j \in 1..(PositionOf(queue, entry) - 1) : queue[j] # entry
           /\ (\A i \in DOMAIN queue : queue[i] # entry) => PositionOf(queue, entry) = 0
<1>1. DOMAIN queue = 1..Len(queue) /\ Len(queue) \in Nat
    OBVIOUS
<1>2. CASE \E i \in DOMAIN queue : queue[i] = entry
  <2> DEFINE S == {i \in DOMAIN queue : queue[i] = entry}
             first(i) == queue[i] = entry /\ \A j \in 1..(i - 1) : queue[j] # entry
  <2>1. S \in SUBSET Nat /\ S # {}
    BY <1>1, <1>2
  <2>2. PICK i \in S : \A j \in S : i <= j
    BY <2>1, LeastIndex
  <2>3. i \in DOMAIN queue /\ queue[i] = entry
    OBVIOUS
  <2>4. ASSUME NEW j \in 1..(i - 1) PROVE queue[j] # entry
    <3>1. j \in DOMAIN queue /\ ~(i <= j)
      BY <1>1, <2>3
    <3>2. QED  BY <2>2, <3>1
  <2>5. first(i)
    BY <2>3, <2>4
  <2> HIDE DEF S
  <2>6. PositionOf(queue, entry) = CHOOSE k \in DOMAIN queue : first(k)
    BY <1>2 DEF PositionOf
  <2> HIDE DEF first
  <2>7. PositionOf(queue, entry) \in DOMAIN queue /\ first(PositionOf(queue, entry))
    BY <2>3, <2>5, <2>6
  <2>8. QED  BY <1>1, <1>2, <2>7 DEF first
<1>3. CASE ~ \E i \in DOMAIN queue : queue[i] = entry
    BY <1>1, <1>3 DEF PositionOf
<1>4. QED  BY <1>2, <1>3

\* An eviction leaves a queue one row shorter.
LEMMA RemoveRowShape ==
    ASSUME NEW E, NEW queue \in Seq(E), NEW pos \in 1..Len(queue)
    PROVE  /\ RemoveRow(queue, pos) \in Seq(E)
           /\ Len(RemoveRow(queue, pos)) = Len(queue) - 1
           /\ \A i \in 1..(Len(queue) - 1) :
                RemoveRow(queue, pos)[i] = IF i < pos THEN queue[i] ELSE queue[i + 1]
<1> DEFINE n == Len(queue) - 1
           row(i) == IF i < pos THEN queue[i] ELSE queue[i + 1]
<1>1. n \in Nat
    OBVIOUS
<1>2. \A i \in 1..n : row(i) \in E
    OBVIOUS
<1>3. RemoveRow(queue, pos) = [i \in 1..n |-> row(i)]
    BY DEF RemoveRow
<1> HIDE DEF n, row
<1>4. [i \in 1..n |-> row(i)] \in Seq(E) /\ Len([i \in 1..n |-> row(i)]) = n
    BY <1>1, <1>2
<1>5. \A i \in 1..n : RemoveRow(queue, pos)[i] = row(i)
    BY <1>3
<1> QED
    BY <1>3, <1>4, <1>5 DEF n, row

\* evict_qid: every index the state keeps, but that of the row that went, still
\* names the row it named.
THEOREM RemapFollows ==
    ASSUME NEW E, NEW queue \in Seq(E), NEW pos \in 1..Len(queue),
           NEW i \in 1..Len(queue), i # pos
    PROVE  /\ Remap(i, pos) \in 1..Len(RemoveRow(queue, pos))
           /\ RemoveRow(queue, pos)[Remap(i, pos)] = queue[i]
<1>1. Remap(i, pos) \in 1..(Len(queue) - 1)
    BY DEF Remap
<1>2. (IF Remap(i, pos) < pos THEN queue[Remap(i, pos)] ELSE queue[Remap(i, pos) + 1]) = queue[i]
    BY DEF Remap
<1> QED
    BY <1>1, <1>2, RemoveRowShape

\* plan_next under `consume': the target of the advance is the row it was chosen
\* as, once the row that ended is gone.
THEOREM ConsumeFollows ==
    ASSUME NEW E, NEW queue \in Seq(E), NEW cur \in 1..Len(queue),
           NEW next \in 1..Len(queue), next # cur, NEW repeat \in BOOLEAN
    PROVE  LET rest == RemoveRow(queue, cur)
               target == ConsumeTarget(next, cur, Len(rest), repeat) IN
           target \in 1..Len(rest) /\ rest[target] = queue[next]
<1> DEFINE rest == RemoveRow(queue, cur)
<1>1. Len(rest) = Len(queue) - 1 /\ Len(rest) # 0
    BY RemoveRowShape
<1> HIDE DEF rest
<1>2. ConsumeTarget(next, cur, Len(rest), repeat) = Remap(next, cur)
    BY <1>1 DEF ConsumeTarget, Remap
<1> QED
    BY <1>2, RemapFollows DEF rest
=============================================================================
