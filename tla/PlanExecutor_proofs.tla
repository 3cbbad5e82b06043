------------------------- MODULE PlanExecutor_proofs -------------------------
(***************************************************************************)
(* What PlanExecutor promises of armed plans, for every queue, every set   *)
(* of requests, every bound and every capacity of the broadcast: a plan    *)
(* acts once, a timed one never early, a single-instance origin has one    *)
(* plan, and the timers underneath still implement Alarms though plans arm *)
(* and drop several of them in one lock scope.                             *)
(*                                                                         *)
(* The argument: an id is in one place at a time - a draft, the registry,  *)
(* or the histories; a plan's deadline is the one its timer was armed      *)
(* with; and an edge that carries a fired timer is due.                    *)
(***************************************************************************)
EXTENDS PlanExecutor, TimerWheel_proofs, QueueOps_proofs, FiniteSetTheorems, SequenceTheorems

MaybeEntry == Entry \cup {NoEntry}
PubEdge == [edge : {"TrackStart", "TrackEnd", "Playing", "Paused", "Stopped"}, entry : MaybeEntry]
Publisher == [latch : MaybeEntry, last : {"Playing", "Paused", "Stopped"},
              suppress : BOOLEAN, edges : Seq(PubEdge)]

\* The queue, the deck and what is left of the scenario.
DeckInv ==
    /\ queue \in Seq(Entry) /\ current \in 0..Len(queue) /\ version \in Nat
    /\ deck \in [entry : MaybeEntry, st : {"playing", "paused", "stopped"}, told : BOOLEAN]
    /\ pos \in Nat /\ goto \in MaybeEntry
    /\ bounds \in Scenario

\* What the spine has published, and an edge of a timer is due.
PubInv ==
    /\ pub \in Publisher /\ seen \in Nat
    /\ trig \in Seq(Event)
    /\ bcast \in Seq(Event) /\ Len(bcast) <= BcastCap
    /\ exec \in [last : Nat, paused : BOOLEAN]

DueInv ==
    /\ \A i \in DOMAIN fires : due[fires[i]] <= clock
    /\ \A i \in DOMAIN trig :
          trig[i].kind = "WallClock" => trig[i].timer \in TimerId /\ due[trig[i].timer] <= clock

\* The timer of a plan is guarded and was armed for the plan's deadline.
Timed(p) ==
    /\ p.timer # 0 => p.timer \in guards /\ due[p.timer] = p.deadline
    /\ p.kind = "deadline" => p.timer # 0

PlanInv ==
    /\ plans \subseteq Plan /\ IsFiniteSet(plans) /\ minted \in Nat
    /\ draft \in [Requester -> Plan \cup {NoPlan}]
    /\ \A p \in plans : Timed(p)
    /\ \A c \in Requester : draft[c] # NoPlan =>
          /\ Timed(draft[c])
          /\ draft[c].timer \notin TimersOf(plans)
          /\ \A b \in Requester \ {c} : draft[b].timer # draft[c].timer \/ draft[c].timer = 0

\* The ids in the registry, in the drafts and in the histories.
Drafted == {draft[c].id : c \in {b \in Requester : draft[b] # NoPlan}}
Done == {a.plan.id : a \in acted}
Ended == {e.id : e \in ended}

IdInv ==
    /\ \A p, q \in plans : p.id = q.id => p = q
    /\ \A b, c \in Requester : draft[b] # NoPlan /\ draft[b].id = draft[c].id => b = c
    /\ \A p \in plans : p.id \in (1..minted) \ (Drafted \cup Done \cup Ended)
    /\ Drafted \cup Done \cup Ended \subseteq 1..minted
    /\ Drafted \cap (Done \cup Ended) = {} /\ Done \cap Ended = {}
    /\ nudges \in Seq(1..minted)
    /\ \A i \in DOMAIN nudges :
          /\ nudges[i] \notin Drafted
          /\ \A p \in plans : p.id = nudges[i] => p.kind = "immediate"

ExecutorInv ==
    /\ WheelInv /\ DeckInv /\ PubInv /\ DueInv /\ PlanInv /\ IdInv
    /\ ActsOnce /\ NeverEarly /\ OneOfEach
-----------------------------------------------------------------------------
(* Several timers armed and dropped in one lock scope. *)

\* A set of commands put in some order: each of them, once.
LEMMA SetInOrder ==
    ASSUME NEW S, IsFiniteSet(S)
    PROVE  /\ SetToSeq(S) \in Seq(S)
           /\ \A i \in DOMAIN SetToSeq(S) : SetToSeq(S)[i] \in S
           /\ \A x \in S : \E i \in DOMAIN SetToSeq(S) : SetToSeq(S)[i] = x
<1>1. Cardinality(S) \in Nat /\ ExistsBijection(1..Cardinality(S), S)
  BY FS_CardinalityType
<1>2. PICK g \in Bijection(1..Cardinality(S), S) : TRUE
  BY <1>1 DEF ExistsBijection
<1>3. g \in [1..Cardinality(S) -> S] /\ IsInjective(g)
  BY <1>2 DEF Bijection, Injection, IsInjective
<1>4. SetToSeq(S) \in [1..Cardinality(S) -> S] /\ IsInjective(SetToSeq(S))
  BY <1>3 DEF SetToSeq
<1> DEFINE f == SetToSeq(S)
<1> HIDE DEF f
<1>5. f \in Injection(1..Cardinality(S), S)
  BY <1>4 DEF Injection, IsInjective, f
<1>6. Cardinality(1..Cardinality(S)) = Cardinality(S)
  BY <1>1, FS_Interval
<1>7. f \in Surjection(1..Cardinality(S), S)
  BY <1>5, <1>6, FS_Injection
<1>8. QED  BY <1>1, <1>4, <1>7 DEF Surjection, f

\* A channel with several commands more.
LEMMA ChannelExtended ==
    ASSUME ctl \in Seq(TimerCmd), NEW s \in Seq(TimerCmd), ctl' = ctl \o s
    PROVE  /\ ctl' \in Seq(TimerCmd)
           /\ \A i \in DOMAIN ctl : i \in Nat /\ i \in DOMAIN ctl' /\ ctl'[i] = ctl[i]
           /\ \A i \in DOMAIN s : i + Len(ctl) \in DOMAIN ctl' /\ ctl'[i + Len(ctl)] = s[i]
           /\ \A i \in DOMAIN ctl' :
                 \/ i \in DOMAIN ctl
                 \/ \E k \in DOMAIN s : k \in Nat /\ i = k + Len(ctl)
<1>1. DOMAIN ctl = 1..Len(ctl) /\ DOMAIN s = 1..Len(s) /\ Len(ctl) \in Nat /\ Len(s) \in Nat
  OBVIOUS
<1>2. /\ ctl' \in Seq(TimerCmd) /\ Len(ctl') = Len(ctl) + Len(s) /\ DOMAIN ctl' = 1..Len(ctl')
      /\ \A i \in 1..Len(ctl') : ctl'[i] = IF i <= Len(ctl) THEN ctl[i] ELSE s[i - Len(ctl)]
  OBVIOUS
<1>3. ASSUME NEW i \in DOMAIN ctl', i \notin DOMAIN ctl
      PROVE  \E k \in DOMAIN s : k \in Nat /\ i = k + Len(ctl)
  <2>1. i - Len(ctl) \in DOMAIN s /\ i - Len(ctl) \in Nat /\ i = (i - Len(ctl)) + Len(ctl)
    BY <1>1, <1>2, <1>3
  <2>2. QED  BY <2>1
<1>4. QED  BY <1>1, <1>2, <1>3

\* The minted ids after several more were.
LEMMA SeveralMinted ==
    ASSUME due \in Seq(Nat), NEW ds \in Seq(Nat), due' = due \o ds
    PROVE  /\ due' \in Seq(Nat) /\ Len(due') = Len(due) + Len(ds)
           /\ TimerId = 1..Len(due) /\ TimerId' = 1..(Len(due) + Len(ds))
           /\ Len(due) \in Nat /\ Len(ds) \in Nat
           /\ \A i \in TimerId : i \in TimerId' /\ i \in Nat /\ i # 0 /\ due'[i] = due[i]
           /\ \A k \in 1..Len(ds) : due'[Len(due) + k] = ds[k]
           /\ SubSeq(due', 1, Len(due)) = due
BY DEF TimerId

\* Several timers are minted, and commands sent that arm each of the new ones
\* at most once, before they cancel it.
Sends(ds, s) ==
    /\ ds \in Seq(Nat) /\ s \in Seq(TimerCmd)
    /\ due' = due \o ds /\ ctl' = ctl \o s
    /\ guards' \subseteq 1..(Len(due) + Len(ds))
    /\ UNCHANGED <<clock, heap, live, firing, fires, rung>>
    /\ \A i \in DOMAIN s : s[i].id \in 1..(Len(due) + Len(ds))
    /\ \A i \in DOMAIN s : s[i].op = "Arm" => s[i].id > Len(due)
    /\ \A i, j \in DOMAIN s :
          s[i].op = "Arm" /\ s[j].op = "Arm" /\ s[i].id = s[j].id => i = j
    /\ \A i, j \in DOMAIN s :
          s[i].op = "Cancel" /\ s[j].op = "Arm" /\ s[i].id = s[j].id => j < i

\* Sending keeps the channel and the heap in order, and is a change of alarms.
LEMMA SendsKeep ==
    ASSUME WheelInv, NEW ds, NEW s, Sends(ds, s)
    PROVE  WheelInv' /\ A!Change
<1>1. due \in Seq(Nat) /\ ctl \in Seq(TimerCmd) /\ heap \subseteq TimerId /\ live \subseteq heap
  BY DEF WheelInv, WheelTypeOK
<1>2. /\ ds \in Seq(Nat) /\ s \in Seq(TimerCmd) /\ due' = due \o ds /\ ctl' = ctl \o s
      /\ UNCHANGED <<clock, heap, live, firing, fires, rung>>
  BY DEF Sends
<1>3. /\ due' \in Seq(Nat) /\ Len(due') = Len(due) + Len(ds)
      /\ TimerId = 1..Len(due) /\ TimerId' = 1..(Len(due) + Len(ds))
      /\ Len(due) \in Nat /\ Len(ds) \in Nat
      /\ \A i \in TimerId : i \in TimerId' /\ i \in Nat /\ i # 0 /\ due'[i] = due[i]
      /\ SubSeq(due', 1, Len(due)) = due
  BY <1>1, <1>2, SeveralMinted
<1>4. /\ ctl' \in Seq(TimerCmd)
      /\ \A i \in DOMAIN ctl : i \in Nat /\ i \in DOMAIN ctl' /\ ctl'[i] = ctl[i]
      /\ \A i \in DOMAIN s : i + Len(ctl) \in DOMAIN ctl' /\ ctl'[i + Len(ctl)] = s[i]
      /\ \A i \in DOMAIN ctl' :
            i \in DOMAIN ctl \/ \E k \in DOMAIN s : k \in Nat /\ i = k + Len(ctl)
  BY <1>1, <1>2, ChannelExtended
<1>5. /\ Len(ctl) \in Nat /\ DOMAIN ctl = 1..Len(ctl)
      /\ \A i \in DOMAIN ctl : ctl[i].id \in TimerId
  BY <1>1 DEF WheelInv, ChannelInv
<1>6. /\ \A i \in DOMAIN s : i \in Nat /\ s[i].id \in TimerId'
      /\ \A i \in DOMAIN s : s[i].op = "Arm" => s[i].id \notin TimerId
      /\ \A i, j \in DOMAIN s :
            s[i].op = "Arm" /\ s[j].op = "Arm" /\ s[i].id = s[j].id => i = j
      /\ \A i, j \in DOMAIN s :
            s[i].op = "Cancel" /\ s[j].op = "Arm" /\ s[i].id = s[j].id => j < i
  BY <1>3 DEF Sends
<1>7. WheelTypeOK'
  <2>1. /\ guards' \subseteq TimerId' /\ heap' \subseteq TimerId' /\ live' \subseteq heap'
        /\ firing' \in TimerId' \cup {0} /\ rung' \subseteq TimerId'
    BY <1>1, <1>2, <1>3 DEF WheelInv, WheelTypeOK, Sends
  <2>2. fires' \in Seq(TimerId') /\ clock' \in Nat
    BY <1>2, <1>3 DEF WheelInv, WheelTypeOK
  <2>3. QED  BY <1>3, <1>4, <2>1, <2>2 DEF WheelTypeOK
<1>8. ChannelInv'
  <2>1. \A i \in DOMAIN ctl' : ctl'[i].id \in TimerId'
    BY <1>3, <1>4, <1>5, <1>6
  <2>2. \A i, j \in DOMAIN ctl' :
          ctl'[i].op = "Arm" /\ ctl'[j].op = "Arm" /\ ctl'[i].id = ctl'[j].id => i = j
    <3> SUFFICES ASSUME NEW i \in DOMAIN ctl', NEW j \in DOMAIN ctl', ctl'[i].op = "Arm",
                        ctl'[j].op = "Arm", ctl'[i].id = ctl'[j].id
                 PROVE  i = j
      OBVIOUS
    <3>1. CASE i \in DOMAIN ctl /\ j \in DOMAIN ctl
      BY <1>4, <3>1 DEF WheelInv, ChannelInv
    <3>2. CASE i \in DOMAIN ctl /\ \E k \in DOMAIN s : k \in Nat /\ j = k + Len(ctl)
      BY <1>4, <1>5, <1>6, <3>2
    <3>3. CASE j \in DOMAIN ctl /\ \E k \in DOMAIN s : k \in Nat /\ i = k + Len(ctl)
      BY <1>4, <1>5, <1>6, <3>3
    <3>4. CASE /\ \E k \in DOMAIN s : k \in Nat /\ i = k + Len(ctl)
               /\ \E k \in DOMAIN s : k \in Nat /\ j = k + Len(ctl)
      BY <1>4, <1>6, <3>4
    <3>5. QED  BY <1>4, <3>1, <3>2, <3>3, <3>4
  <2>3. \A i, j \in DOMAIN ctl' :
          ctl'[i].op = "Cancel" /\ ctl'[j].op = "Arm" /\ ctl'[i].id = ctl'[j].id => j < i
    <3> SUFFICES ASSUME NEW i \in DOMAIN ctl', NEW j \in DOMAIN ctl', ctl'[i].op = "Cancel",
                        ctl'[j].op = "Arm", ctl'[i].id = ctl'[j].id
                 PROVE  j < i
      OBVIOUS
    <3>1. CASE i \in DOMAIN ctl /\ j \in DOMAIN ctl
      BY <1>4, <3>1 DEF WheelInv, ChannelInv
    <3>2. CASE i \in DOMAIN ctl /\ \E k \in DOMAIN s : k \in Nat /\ j = k + Len(ctl)
      BY <1>4, <1>5, <1>6, <3>2
    <3>3. CASE j \in DOMAIN ctl /\ \E k \in DOMAIN s : k \in Nat /\ i = k + Len(ctl)
      <4>1. PICK k \in DOMAIN s : k \in Nat /\ i = k + Len(ctl)
        BY <3>3
      <4>2. k \in 1..Len(s) /\ j \in 1..Len(ctl)
        BY <1>2, <1>5, <3>3
      <4>3. QED  BY <1>5, <4>1, <4>2
    <3>4. CASE /\ \E k \in DOMAIN s : k \in Nat /\ i = k + Len(ctl)
               /\ \E k \in DOMAIN s : k \in Nat /\ j = k + Len(ctl)
      <4>1. PICK k \in DOMAIN s, l \in DOMAIN s :
              k \in Nat /\ l \in Nat /\ i = k + Len(ctl) /\ j = l + Len(ctl)
        BY <3>4
      <4>2. l < k
        BY <1>4, <1>6, <4>1
      <4>3. QED  BY <1>5, <4>1, <4>2
    <3>5. QED  BY <1>4, <3>1, <3>2, <3>3, <3>4
  <2>4. QED  BY <2>1, <2>2, <2>3 DEF ChannelInv
<1>9. HeapInv'
  <2>1. \A i \in DOMAIN ctl' : ctl'[i].op = "Arm" => ctl'[i].id \notin heap'
    BY <1>1, <1>2, <1>4, <1>6 DEF WheelInv, HeapInv
  <2>2. \A i, j \in heap : Before(i, j)' <=> Before(i, j)
    BY <1>1, <1>3 DEF Before
  <2>3. \A i \in heap' : i \in live' \/ \E j \in heap' \cap live' : Before(j, i)'
    BY <1>2, <2>2 DEF WheelInv, HeapInv
  <2>4. firing' # 0 => firing' \in live' /\ due'[firing'] <= clock'
    BY <1>1, <1>2, <1>3 DEF WheelInv, HeapInv
  <2>5. QED  BY <2>1, <2>3, <2>4 DEF HeapInv
<1>10. A!Change
  <2>1. ASSUME NEW op
        PROVE \A id : id \in Queued(op)' <=> \E i \in DOMAIN ctl' : ctl'[i].op = op /\ ctl'[i].id = id
    BY DEF Queued
  <2>2. \A id \in Queued("Cancel") : id \in Queued("Cancel")'
    BY <1>4, <2>1, QueuedIs
  <2>3. \A id \in Queued("Arm")' : id \in Queued("Arm") \/ id \in (Len(due) + 1)..Len(due')
    <3>1. ASSUME NEW k \in DOMAIN s, s[k].op = "Arm"
          PROVE  s[k].id \in (Len(due) + 1)..Len(due')
      BY <1>3, <1>6, <3>1
    <3>2. QED  BY <1>4, <2>1, <3>1, QueuedIs
  <2>4. Pending' \subseteq Pending \cup (Len(due) + 1)..Len(due')
    BY <1>2, <2>2, <2>3 DEF Pending
  <2>5. QED  BY <1>2, <1>3, <2>4 DEF A!Change
<1>11. QED  BY <1>7, <1>8, <1>9, <1>10 DEF WheelInv
-----------------------------------------------------------------------------
\* The registry's Arms, then its Cancels.
Arms(ds) == [k \in 1..Len(ds) |-> [op |-> "Arm", id |-> Len(due) + k]]
Fresh(ds) == (Len(due) + 1)..(Len(due) + Len(ds))
Dropped(new, ds) == (TimersOf(plans) \cup Fresh(ds)) \ TimersOf(new)
Cancels(new, ds) == {[op |-> "Cancel", id |-> t] : t \in Dropped(new, ds)}

\* What a change of the registry sends.
LEMMA RegistrySends ==
    ASSUME WheelInv, TimersOf(plans) \subseteq guards, NEW ds \in Seq(Nat), NEW new, Registry(new, ds)
    PROVE  Sends(ds, Arms(ds) \o SetToSeq(Cancels(new, ds)))
<1>1. due \in Seq(Nat) /\ guards \subseteq 1..Len(due) /\ Len(due) \in Nat /\ Len(ds) \in Nat
  BY DEF WheelInv, WheelTypeOK, TimerId
<1>2. Dropped(new, ds) \subseteq 1..(Len(due) + Len(ds))
  <2>1. \A t \in Fresh(ds) : t \in 1..(Len(due) + Len(ds))
    BY <1>1 DEF Fresh
  <2>2. \A t \in 1..Len(due) : t \in 1..(Len(due) + Len(ds))
    BY <1>1
  <2>3. QED  BY <1>1, <2>1, <2>2 DEF Dropped
<1>3. IsFiniteSet(Dropped(new, ds))
  <2>1. IsFiniteSet(1..(Len(due) + Len(ds)))
    BY <1>1, FS_Interval
  <2>2. QED  BY <1>2, <2>1, FS_Subset
<1> DEFINE S == Cancels(new, ds)
           g == [x \in S |-> x.id]
<1>4. \A x \in S : x.op = "Cancel" /\ x.id \in Dropped(new, ds) /\ x \in TimerCmd
  BY <1>1, <1>2 DEF Cancels, TimerCmd
<1>5. g \in Injection(S, Dropped(new, ds))
  BY DEF Cancels, Injection, IsInjective
<1>6. IsFiniteSet(S)
  BY <1>3, <1>5, FS_Injection
<1> DEFINE c == SetToSeq(S)
           a == Arms(ds)
<1>7. c \in Seq(S) /\ \A i \in DOMAIN c : c[i] \in S
  BY <1>6, SetInOrder
<1> HIDE DEF g, S
<1>8. /\ c \in Seq(TimerCmd) /\ Len(c) \in Nat /\ DOMAIN c = 1..Len(c)
      /\ \A i \in DOMAIN c : c[i].op = "Cancel" /\ c[i].id \in Dropped(new, ds)
  <2> HIDE DEF c
  <2>1. S \subseteq TimerCmd
    BY <1>4
  <2>2. QED  BY <1>4, <1>7, <2>1
<1>9. /\ a \in Seq(TimerCmd) /\ Len(a) = Len(ds) /\ DOMAIN a = 1..Len(ds)
      /\ \A i \in DOMAIN a : a[i].op = "Arm" /\ a[i].id = Len(due) + i
  <2>1. \A i \in 1..Len(ds) : [op |-> "Arm", id |-> Len(due) + i] \in TimerCmd
    BY <1>1 DEF TimerCmd
  <2>2. QED  BY <1>1, <2>1 DEF Arms
<1> HIDE DEF a, c
<1> DEFINE s == a \o c
<1>10. /\ s \in Seq(TimerCmd) /\ Len(s) = Len(ds) + Len(c) /\ DOMAIN s = 1..(Len(ds) + Len(c))
       /\ \A i \in DOMAIN s : s[i] = IF i <= Len(ds) THEN a[i] ELSE c[i - Len(ds)]
  <2>1. a \in Seq(TimerCmd) /\ c \in Seq(TimerCmd)
    BY <1>8, <1>9
  <2>2. /\ s \in Seq(TimerCmd) /\ Len(s) = Len(a) + Len(c)
        /\ \A i \in 1..(Len(a) + Len(c)) : s[i] = IF i <= Len(a) THEN a[i] ELSE c[i - Len(a)]
    BY <2>1, ConcatProperties
  <2> HIDE DEF s
  <2>3. Len(a) = Len(ds)
    BY <1>9
  <2>4. DOMAIN s = 1..Len(s)
    BY <2>2
  <2>5. QED  BY <2>2, <2>3, <2>4
<1> HIDE DEF s
<1>11. \A i \in DOMAIN s :
          \/ i \in 1..Len(ds) /\ s[i].op = "Arm" /\ s[i].id = Len(due) + i
          \/ i > Len(ds) /\ s[i].op = "Cancel" /\ s[i].id \in Dropped(new, ds)
  <2> SUFFICES ASSUME NEW i \in DOMAIN s
               PROVE  \/ i \in 1..Len(ds) /\ s[i].op = "Arm" /\ s[i].id = Len(due) + i
                      \/ i > Len(ds) /\ s[i].op = "Cancel" /\ s[i].id \in Dropped(new, ds)
    OBVIOUS
  <2>1. CASE i <= Len(ds)
    BY <1>1, <1>9, <1>10, <2>1
  <2>2. CASE ~(i <= Len(ds))
    <3>1. i - Len(ds) \in DOMAIN c /\ s[i] = c[i - Len(ds)] /\ i > Len(ds)
      BY <1>1, <1>8, <1>10, <2>2
    <3>2. QED  BY <1>8, <3>1
  <2>3. QED  BY <2>1, <2>2
<1>12. /\ \A i \in DOMAIN s : i \in Nat /\ s[i].id \in 1..(Len(due) + Len(ds))
       /\ \A i \in DOMAIN s : s[i].op = "Arm" => s[i].id > Len(due)
       /\ \A i, j \in DOMAIN s :
             s[i].op = "Arm" /\ s[j].op = "Arm" /\ s[i].id = s[j].id => i = j
       /\ \A i, j \in DOMAIN s :
             s[i].op = "Cancel" /\ s[j].op = "Arm" /\ s[i].id = s[j].id => j < i
  <2>1. \A i \in DOMAIN s : i \in Nat
    BY <1>10
  <2>2. \A i \in 1..Len(ds) : Len(due) + i \in 1..(Len(due) + Len(ds)) /\ Len(due) + i > Len(due)
    BY <1>1
  <2>3. \A i \in DOMAIN s : s[i].id \in 1..(Len(due) + Len(ds))
    BY <1>2, <1>11, <2>2
  <2>4. \A i \in DOMAIN s : s[i].op = "Arm" =>
            i \in 1..Len(ds) /\ s[i].id = Len(due) + i /\ s[i].id > Len(due)
    BY <1>11, <2>2
  <2>5. ASSUME NEW i \in DOMAIN s, NEW j \in DOMAIN s,
               s[i].op = "Arm", s[j].op = "Arm", s[i].id = s[j].id
        PROVE  i = j
    <3>1. i \in Nat /\ j \in Nat /\ Len(due) + i = Len(due) + j
      BY <2>1, <2>4, <2>5
    <3>2. QED  BY <1>1, <3>1
  <2>6. ASSUME NEW i \in DOMAIN s, NEW j \in DOMAIN s, s[i].op = "Cancel", s[j].op = "Arm"
        PROVE  j < i
    <3>1. j \in 1..Len(ds) /\ i > Len(ds) /\ i \in Nat
      BY <1>11, <2>1, <2>4, <2>6
    <3>2. QED  BY <1>1, <3>1
  <2>7. QED  BY <2>1, <2>3, <2>4, <2>5, <2>6
<1>13. ctl' = (ctl \o a) \o c
  BY DEF Registry, Arms, Cancels, Dropped, Fresh, a, c, S
<1>14. ctl \in Seq(TimerCmd)
  BY DEF WheelInv, WheelTypeOK
<1>15. ctl' = ctl \o s
  BY <1>8, <1>9, <1>13, <1>14, ConcatAssociative DEF s
<1>16. due' = due \o ds /\ UNCHANGED <<clock, heap, live, firing, fires, rung>>
  BY DEF Registry
<1>17. guards' \subseteq 1..(Len(due) + Len(ds))
  <2>1. guards' \subseteq guards \cup Fresh(ds)
    BY DEF Registry, Fresh
  <2>2. \A t \in Fresh(ds) \cup 1..Len(due) : t \in 1..(Len(due) + Len(ds))
    BY <1>1 DEF Fresh
  <2>3. QED  BY <1>1, <2>1, <2>2
<1>18. QED  BY <1>10, <1>12, <1>15, <1>16, <1>17 DEF Sends, s, a, c, S

\* A change of the registry: the wheel, and which timers keep their guard.
LEMMA RegistryKeeps ==
    ASSUME WheelInv, TimersOf(plans) \subseteq guards, NEW ds \in Seq(Nat), NEW new, Registry(new, ds)
    PROVE  /\ WheelInv' /\ A!Change
           /\ plans' = new /\ due' = due \o ds
           /\ UNCHANGED <<clock, heap, live, firing, fires, rung>>
           /\ TimerId = 1..Len(due) /\ TimerId' = 1..(Len(due) + Len(ds))
           /\ \A i \in TimerId : i \in TimerId' /\ i # 0 /\ due'[i] = due[i]
           /\ \A t \in Fresh(ds) : t \in TimerId' /\ t \notin TimerId
           /\ \A t \in guards \cup Fresh(ds) : t \in guards' \/ t \in TimersOf(plans) \cup Fresh(ds)
           /\ \A t \in (guards \cup Fresh(ds)) \cap TimersOf(new) : t \in guards'
<1>1. WheelInv' /\ A!Change
  BY RegistrySends, SendsKeep
<1>2. due \in Seq(Nat)
  BY DEF WheelInv, WheelTypeOK
<1>3. due' = due \o ds /\ plans' = new /\ UNCHANGED <<clock, heap, live, firing, fires, rung>>
  BY DEF Registry
<1>4. /\ TimerId = 1..Len(due) /\ TimerId' = 1..(Len(due) + Len(ds))
      /\ Len(due) \in Nat /\ Len(ds) \in Nat
      /\ \A i \in TimerId : i \in TimerId' /\ i # 0 /\ due'[i] = due[i]
  BY <1>2, <1>3, SeveralMinted
<1>5. guards' = (guards \cup Fresh(ds)) \ Dropped(new, ds)
  BY DEF Registry, Fresh, Dropped
<1>6. \A t \in Fresh(ds) : t \in TimerId' /\ t \notin TimerId
  BY <1>4 DEF Fresh
<1>7. QED  BY <1>1, <1>3, <1>4, <1>5, <1>6 DEF Dropped
-----------------------------------------------------------------------------
(* The director's side. *)

USE DEF MaybeEntry

LEMMA DirectorTypes ==
    ASSUME NEW p \in Publisher, NEW q \in MaybeEntry
    PROVE  /\ D!OnPlaying(p, q) \in Publisher
           /\ D!OnPaused(p) \in Publisher
           /\ D!OnEof(p, q) \in Publisher
           /\ D!OnStopped(p) \in Publisher
<1>1. /\ D!TrackStart(q) \in PubEdge /\ D!TrackEnd(q) \in PubEdge /\ D!TrackEnd(p.latch) \in PubEdge
      /\ \A s \in {"Playing", "Paused", "Stopped"} : D!StateChanged(s) \in PubEdge
  BY DEF D!TrackStart, D!TrackEnd, D!StateChanged, Publisher, PubEdge
<1>2. /\ << >> \in Seq(PubEdge)
      /\ <<D!TrackStart(q)>> \in Seq(PubEdge) /\ <<D!TrackEnd(q)>> \in Seq(PubEdge)
      /\ <<D!TrackEnd(p.latch), D!TrackStart(q)>> \in Seq(PubEdge)
      /\ \A s \in {"Playing", "Paused", "Stopped"} : <<D!StateChanged(s)>> \in Seq(PubEdge)
  BY <1>1
<1>3. D!OnPlaying(p, q) \in Publisher
  BY <1>2 DEF D!OnPlaying, Publisher
<1>4. D!OnPaused(p) \in Publisher
  BY <1>2 DEF D!OnPaused, Publisher
<1>5. D!OnEof(p, q) \in Publisher
  BY <1>2 DEF D!OnEof, Publisher
<1>6. D!OnStopped(p) \in Publisher
  BY <1>2 DEF D!OnStopped, Publisher
<1>7. QED  BY <1>3, <1>4, <1>5, <1>6

\* What is left in a broadcast is no more than it holds.
LEMMA LossyType ==
    ASSUME NEW events \in Seq(Event)
    PROVE  Lossy(events) \in Seq(Event) /\ Len(Lossy(events)) <= BcastCap
<1>1. BcastCap \in Nat /\ Len(events) \in Nat
  BY ExecutorAssumption
<1>2. CASE Len(events) <= BcastCap
  BY <1>2 DEF Lossy
<1>3. CASE ~(Len(events) <= BcastCap)
  <2> DEFINE m == Len(events) - BcastCap + 1
             n == Len(events)
  <2>1. m \in 1..(n + 1) /\ n \in m-1..n /\ n - m + 1 = BcastCap
    BY <1>1, <1>3
  <2>2. SubSeq(events, m, n) \in Seq(Event) /\ Len(SubSeq(events, m, n)) = n - m + 1
    BY <2>1, SubSeqProperties
  <2>3. QED  BY <1>1, <1>3, <2>1, <2>2 DEF Lossy
<1>4. QED  BY <1>2, <1>3

LEMMA EventType ==
    ASSUME clock \in Nat, NEW k \in Edge \cup {"Tick", "Resync"}, NEW e \in MaybeEntry,
           NEW t \in Nat, NEW r \in Nat, NEW v \in Nat
    PROVE  /\ EventOf(k, e, t, r, v) \in Event
           /\ EventOf(k, e, t, r, v).kind = k /\ EventOf(k, e, t, r, v).timer = t
BY DEF EventOf, Event

\* Publishing appends to the lossless stream and keeps the lossy one bounded.
LEMMA PublishKeeps ==
    ASSUME PubInv, clock \in Nat, version \in Nat, NEW events \in Seq(Event), Publish(events)
    PROVE  /\ seen' \in Nat /\ trig' \in Seq(Event)
           /\ bcast' \in Seq(Event) /\ Len(bcast') <= BcastCap
           /\ \A i \in DOMAIN trig' : \/ \E j \in DOMAIN trig : trig'[i] = trig[j]
                                      \/ \E k \in DOMAIN events : trig'[i] = events[k]
<1>1. trig \in Seq(Event) /\ bcast \in Seq(Event) /\ seen \in Nat
  BY DEF PubInv
<1>2. seen' \in Nat
  BY <1>1 DEF Publish
<1>3. EventOf("Resync", NoEntry, 0, 0, version) \in Event
  BY EventType
<1> DEFINE more == (IF events = << >> \/ version = seen THEN << >>
                    ELSE <<EventOf("Resync", NoEntry, 0, 0, version)>>) \o events
<1>4. more \in Seq(Event)
  BY <1>3
<1>5. bcast' = Lossy(bcast \o (IF events = << >> \/ version = seen THEN << >>
                     ELSE <<EventOf("Resync", NoEntry, 0, 0, version)>>) \o events)
  BY DEF Publish
<1> DEFINE r == IF events = << >> \/ version = seen THEN << >>
                ELSE <<EventOf("Resync", NoEntry, 0, 0, version)>>
<1>6. r \in Seq(Event)
  BY <1>3
<1>7. bcast' = Lossy((bcast \o r) \o events)
  BY <1>5
<1> HIDE DEF r
<1>8. (bcast \o r) \o events \in Seq(Event)
  BY <1>1, <1>6
<1>9. bcast' \in Seq(Event) /\ Len(bcast') <= BcastCap
  BY <1>7, <1>8, LossyType
<1>10. trig' = trig \o events
  BY DEF Publish
<1>11. trig' \in Seq(Event)
  BY <1>1, <1>10
<1>12. ASSUME NEW i \in DOMAIN trig'
       PROVE  \/ \E j \in DOMAIN trig : trig'[i] = trig[j]
              \/ \E k \in DOMAIN events : trig'[i] = events[k]
  <2>1. /\ DOMAIN trig = 1..Len(trig) /\ DOMAIN events = 1..Len(events)
        /\ Len(trig) \in Nat /\ Len(events) \in Nat
        /\ i \in 1..(Len(trig) + Len(events))
        /\ trig'[i] = IF i <= Len(trig) THEN trig[i] ELSE events[i - Len(trig)]
    BY <1>1, <1>10
  <2>2. CASE i <= Len(trig)
    BY <2>1, <2>2
  <2>3. CASE ~(i <= Len(trig))
    <3>1. i - Len(trig) \in DOMAIN events
      BY <2>1, <2>3
    <3>2. QED  BY <2>1, <2>3, <3>1
  <2>4. QED  BY <2>2, <2>3
<1>13. QED  BY <1>2, <1>9, <1>11, <1>12

\* The edges of the publisher carry no timer.
LEMMA EdgesKeep ==
    ASSUME WheelInv, DeckInv, PubInv, DueInv, NEW p \in Publisher, PublishEdges(p),
           UNCHANGED <<wheelVars, exec>>
    PROVE  PubInv' /\ DueInv'
<1> DEFINE ev(i) == EventOf(p.edges[i].edge, p.edges[i].entry, 0, 0, version)
           events == [i \in DOMAIN p.edges |-> ev(i)]
<1>1. clock \in Nat /\ version \in Nat
  BY DEF WheelInv, WheelTypeOK, DeckInv
<1>2. p.edges \in Seq(PubEdge) /\ Len(p.edges) \in Nat /\ DOMAIN p.edges = 1..Len(p.edges)
  BY DEF Publisher
<1>3. \A i \in DOMAIN p.edges : ev(i) \in Event /\ ev(i).kind # "WallClock"
  <2> SUFFICES ASSUME NEW i \in DOMAIN p.edges
               PROVE  ev(i) \in Event /\ ev(i).kind # "WallClock"
    OBVIOUS
  <2>1. p.edges[i] \in PubEdge
    BY <1>2
  <2>2. /\ p.edges[i].edge \in {"TrackStart", "TrackEnd", "Playing", "Paused", "Stopped"}
        /\ p.edges[i].entry \in MaybeEntry
    BY <2>1 DEF PubEdge
  <2>3. p.edges[i].edge \in Edge \cup {"Tick", "Resync"}
    BY <2>2 DEF Edge
  <2>4. QED  BY <1>1, <2>2, <2>3, EventType
<1>4. Publish(events) /\ pub' = [p EXCEPT !.edges = << >>]
  BY DEF PublishEdges
<1> HIDE DEF ev
<1>5. events \in Seq(Event) /\ \A k \in DOMAIN events : events[k].kind # "WallClock"
  BY <1>2, <1>3
<1> HIDE DEF events
<1>6. /\ seen' \in Nat /\ trig' \in Seq(Event)
      /\ bcast' \in Seq(Event) /\ Len(bcast') <= BcastCap
      /\ \A i \in DOMAIN trig' : \/ \E j \in DOMAIN trig : trig'[i] = trig[j]
                                 \/ \E k \in DOMAIN events : trig'[i] = events[k]
  BY <1>1, <1>4, <1>5, PublishKeeps
<1>7. pub' \in Publisher
  <2>1. << >> \in Seq(PubEdge)
    OBVIOUS
  <2>2. QED  BY <1>4, <2>1 DEF Publisher
<1>8. exec' \in [last : Nat, paused : BOOLEAN]
  BY DEF PubInv
<1>9. PubInv'
  BY <1>6, <1>7, <1>8 DEF PubInv
<1>10. UNCHANGED <<clock, due, fires>>
  BY DEF wheelVars
<1>11. DueInv'
  BY <1>5, <1>6, <1>10 DEF DueInv, TimerId
<1>12. QED  BY <1>9, <1>11

\* A step of the rest of the world leaves the plans alone.
LEMMA PlansStay ==
    ASSUME ExecutorInv, UNCHANGED <<due, guards, planVars>>
    PROVE  PlanInv' /\ IdInv' /\ ActsOnce' /\ NeverEarly' /\ OneOfEach'
<1>1. UNCHANGED <<due, guards, plans, draft, nudges, minted, acted, ended>>
  BY DEF planVars
<1>2. PlanInv'
  BY <1>1 DEF ExecutorInv, PlanInv, Timed, TimersOf
<1>3. Drafted' = Drafted /\ Done' = Done /\ Ended' = Ended
  BY <1>1 DEF Drafted, Done, Ended
<1>4. IdInv'
  BY <1>1, <1>3 DEF ExecutorInv, IdInv
<1>5. QED  BY <1>1, <1>2, <1>4 DEF ExecutorInv, ActsOnce, NeverEarly, OneOfEach

LEMMA WheelStays ==
    ASSUME WheelInv, UNCHANGED wheelVars
    PROVE  WheelInv'
BY InvStutter
-----------------------------------------------------------------------------
(* The steps that leave the plans alone. *)

\* Every step that publishes edges and moves the deck.
LEMMA EdgeStep ==
    ASSUME ExecutorInv, NEW p \in Publisher, PublishEdges(p), DeckInv',
           UNCHANGED <<wheelVars, planVars>>
    PROVE  ExecutorInv'
<1>1. UNCHANGED <<due, guards, exec>>
  BY DEF wheelVars, planVars
<1>2. PubInv' /\ DueInv'
  BY <1>1, EdgesKeep DEF ExecutorInv
<1>3. PlanInv' /\ IdInv' /\ ActsOnce' /\ NeverEarly' /\ OneOfEach'
  BY <1>1, PlansStay
<1>4. WheelInv'
  BY WheelStays DEF ExecutorInv
<1>5. QED  BY <1>2, <1>3, <1>4 DEF ExecutorInv

\* Every step that publishes nothing, and moves only the deck and the queue.
LEMMA SilentStep ==
    ASSUME ExecutorInv, DeckInv', UNCHANGED <<wheelVars, pubVars, planVars>>
    PROVE  ExecutorInv'
<1>1. UNCHANGED <<due, guards, exec, clock, fires, trig, bcast, pub, seen>>
  BY DEF wheelVars, planVars, pubVars
<1>2. PubInv' /\ DueInv'
  BY <1>1 DEF ExecutorInv, PubInv, DueInv, TimerId
<1>3. PlanInv' /\ IdInv' /\ ActsOnce' /\ NeverEarly' /\ OneOfEach'
  BY <1>1, PlansStay
<1>4. WheelInv'
  BY WheelStays DEF ExecutorInv
<1>5. QED  BY <1>2, <1>3, <1>4 DEF ExecutorInv

LEMMA InvSpinePlaying == ExecutorInv /\ SpinePlaying => ExecutorInv'
<1> SUFFICES ASSUME ExecutorInv, SpinePlaying PROVE ExecutorInv'
  OBVIOUS
<1>1. D!OnPlaying(pub, deck.entry) \in Publisher
  BY DirectorTypes DEF ExecutorInv, PubInv, DeckInv
<1>2. DeckInv'
  BY DEF ExecutorInv, DeckInv, SpinePlaying, queueVars, worldVars
<1>3. QED  BY <1>1, <1>2, EdgeStep DEF SpinePlaying

LEMMA InvSpinePaused == ExecutorInv /\ SpinePaused => ExecutorInv'
<1> SUFFICES ASSUME ExecutorInv, SpinePaused PROVE ExecutorInv'
  OBVIOUS
<1>1. D!OnPaused(pub) \in Publisher
  BY DirectorTypes DEF ExecutorInv, PubInv, DeckInv
<1>2. DeckInv'
  BY DEF ExecutorInv, DeckInv, SpinePaused, queueVars, Move
<1>3. QED  BY <1>1, <1>2, EdgeStep DEF SpinePaused

LEMMA InvSpineResumed == ExecutorInv /\ SpineResumed => ExecutorInv'
<1> SUFFICES ASSUME ExecutorInv, SpineResumed PROVE ExecutorInv'
  OBVIOUS
<1>1. D!OnPlaying(pub, deck.entry) \in Publisher
  BY DirectorTypes DEF ExecutorInv, PubInv, DeckInv
<1>2. DeckInv'
  BY DEF ExecutorInv, DeckInv, SpineResumed, queueVars, Move
<1>3. QED  BY <1>1, <1>2, EdgeStep DEF SpineResumed

LEMMA InvSpineEof == ExecutorInv /\ SpineEof => ExecutorInv'
<1> SUFFICES ASSUME ExecutorInv, SpineEof PROVE ExecutorInv'
  OBVIOUS
<1>1. D!OnEof(pub, deck.entry) \in Publisher
  BY DirectorTypes DEF ExecutorInv, PubInv, DeckInv
<1>2. DeckInv'
  BY DEF ExecutorInv, DeckInv, SpineEof, queueVars, Move
<1>3. QED  BY <1>1, <1>2, EdgeStep DEF SpineEof

\* What is left of a track.
LEMMA Remains ==
    ASSUME NEW d \in Nat, NEW n \in 0..d
    PROVE  d - n \in Nat
OBVIOUS

LEMMA InvSpineTimePos == ExecutorInv /\ SpineTimePos => ExecutorInv'
<1> SUFFICES ASSUME ExecutorInv, SpineTimePos PROVE ExecutorInv'
  OBVIOUS
<1>1. Duration \in Nat /\ pos' \in 0..Duration
  BY ExecutorAssumption DEF SpineTimePos
<1> DEFINE e == EventOf("Tick", NoEntry, 0, Duration - pos', seen)
<1>2. e \in Event
  <2>1. Duration - pos' \in Nat
    BY <1>1, Remains
  <2>2. clock \in Nat /\ seen \in Nat
    BY DEF ExecutorInv, WheelInv, WheelTypeOK, PubInv
  <2>3. QED  BY <2>1, <2>2, EventType
<1>3. bcast' = Lossy(Append(bcast, e))
  BY DEF SpineTimePos
<1> HIDE DEF e
<1>4. Append(bcast, e) \in Seq(Event)
  BY <1>2 DEF ExecutorInv, PubInv
<1>5. bcast' \in Seq(Event) /\ Len(bcast') <= BcastCap
  BY <1>3, <1>4, LossyType
<1>6. /\ UNCHANGED <<pub, seen, trig, exec, due, guards, clock, fires>>
      /\ UNCHANGED wheelVars /\ UNCHANGED planVars /\ UNCHANGED <<queueVars, deck, goto, bounds>>
  BY DEF SpineTimePos, wheelVars, planVars
<1>7. DeckInv'
  BY <1>1, <1>6 DEF ExecutorInv, DeckInv, queueVars
<1>8. PubInv' /\ DueInv'
  BY <1>5, <1>6 DEF ExecutorInv, PubInv, DueInv, TimerId
<1>9. PlanInv' /\ IdInv' /\ ActsOnce' /\ NeverEarly' /\ OneOfEach'
  BY <1>6, PlansStay
<1>10. WheelInv'
  BY <1>6, WheelStays DEF ExecutorInv
<1>11. QED  BY <1>7, <1>8, <1>9, <1>10 DEF ExecutorInv

\* The advance, with or without `consume', lands on a row of what is left.
LEMMA InvSpineAdvance == ExecutorInv /\ SpineAdvance => ExecutorInv'
<1> SUFFICES ASSUME ExecutorInv, SpineAdvance PROVE ExecutorInv'
  OBVIOUS
<1>1. /\ queue \in Seq(Entry) /\ Len(queue) \in Nat /\ current \in 0..Len(queue) /\ version \in Nat
      /\ DOMAIN queue = 1..Len(queue)
      /\ bounds \in Scenario /\ goto \in MaybeEntry /\ pub \in Publisher
  BY DEF ExecutorInv, DeckInv, PubInv
<1> DEFINE next == IF current + 1 <= Len(queue) THEN current + 1 ELSE 0
           to == IF bounds.consume THEN ConsumeTarget(next, current, Len(queue) - 1, FALSE) ELSE next
           rest == IF bounds.consume /\ current \in DOMAIN queue THEN RemoveRow(queue, current) ELSE queue
<1>2. /\ queue' = rest /\ current' = to
      /\ version' = IF rest = queue THEN version ELSE version + 1
      /\ deck' = IF to = 0 THEN [entry |-> NoEntry, st |-> "stopped", told |-> TRUE]
                 ELSE [entry |-> rest[to], st |-> "playing", told |-> FALSE]
      /\ pos' = 0 /\ goto' = goto /\ bounds' = bounds
      /\ IF to = 0 THEN PublishEdges(D!OnStopped(pub)) ELSE UNCHANGED pubVars
      /\ UNCHANGED wheelVars /\ UNCHANGED planVars
  BY DEF SpineAdvance, worldVars
<1>3. next \in 0..Len(queue)
  BY <1>1
<1>4. rest \in Seq(Entry) /\ to \in 0..Len(rest)
  <2>1. CASE bounds.consume /\ current \in DOMAIN queue
    <3>1. /\ current \in 1..Len(queue)
          /\ RemoveRow(queue, current) \in Seq(Entry)
          /\ Len(RemoveRow(queue, current)) = Len(queue) - 1
      BY <1>1, <2>1, RemoveRowShape
    <3>2. ConsumeTarget(next, current, Len(queue) - 1, FALSE) \in 0..(Len(queue) - 1)
      BY <1>1, <1>3, <3>1 DEF ConsumeTarget
    <3>3. QED  BY <2>1, <3>1, <3>2
  <2>2. CASE bounds.consume /\ current \notin DOMAIN queue
    <3>1. ConsumeTarget(next, current, Len(queue) - 1, FALSE) \in 0..Len(queue)
      BY <1>1, <1>3, <2>2 DEF ConsumeTarget
    <3>2. QED  BY <1>1, <2>2, <3>1
  <2>3. CASE ~bounds.consume
    BY <1>1, <1>3, <2>3
  <2>4. QED  BY <2>1, <2>2, <2>3
<1> HIDE DEF next, to, rest
<1>5. to # 0 => rest[to] \in Entry
  BY <1>4
<1>6. DeckInv'
  <2>1. queue' \in Seq(Entry) /\ current' \in 0..Len(queue') /\ version' \in Nat
    BY <1>1, <1>2, <1>4
  <2>2. deck' \in [entry : MaybeEntry, st : {"playing", "paused", "stopped"}, told : BOOLEAN]
    BY <1>2, <1>5
  <2>3. QED  BY <1>1, <1>2, <2>1, <2>2 DEF DeckInv
<1>7. CASE to = 0
  <2>1. D!OnStopped(pub) \in Publisher
    BY <1>1, DirectorTypes
  <2>2. QED  BY <1>2, <1>6, <1>7, <2>1, EdgeStep
<1>8. CASE to # 0
  BY <1>2, <1>6, <1>8, SilentStep
<1>9. QED  BY <1>7, <1>8

LEMMA InvPlayIndex ==
    ASSUME ExecutorInv, NEW i \in DOMAIN queue, PlayIndex(i)
    PROVE  ExecutorInv'
<1>1. queue[i] \in Entry
  BY DEF ExecutorInv, DeckInv
<1>2. DeckInv'
  BY <1>1 DEF ExecutorInv, DeckInv, PlayIndex, queueVars, Move
<1>3. QED  BY <1>2, SilentStep DEF PlayIndex

LEMMA InvPlayIndexReturns == ExecutorInv /\ PlayIndexReturns => ExecutorInv'
<1> SUFFICES ASSUME ExecutorInv, PlayIndexReturns PROVE ExecutorInv'
  OBVIOUS
<1>1. PositionOf(queue, goto) \in 0..Len(queue)
  BY PositionIsFirst DEF ExecutorInv, DeckInv
<1>2. DeckInv'
  BY <1>1 DEF ExecutorInv, DeckInv, PlayIndexReturns, worldVars
<1>3. QED  BY <1>2, SilentStep DEF PlayIndexReturns

LEMMA InvDeleteRow ==
    ASSUME ExecutorInv, NEW i \in DOMAIN queue, DeleteRow(i)
    PROVE  ExecutorInv'
<1>1. /\ queue \in Seq(Entry) /\ current \in 0..Len(queue) /\ i \in 1..Len(queue) /\ i # current
      /\ version \in Nat
  BY DEF ExecutorInv, DeckInv, DeleteRow
<1>2. RemoveRow(queue, i) \in Seq(Entry) /\ Len(RemoveRow(queue, i)) = Len(queue) - 1
  BY <1>1, RemoveRowShape
<1>3. Remap(current, i) \in 0..(Len(queue) - 1)
  BY <1>1 DEF Remap
<1>4. queue' = RemoveRow(queue, i) /\ current' = Remap(current, i) /\ version' = version + 1
  BY DEF DeleteRow
<1>5. DeckInv'
  BY <1>1, <1>2, <1>3, <1>4 DEF ExecutorInv, DeckInv, DeleteRow, deckVars
<1>6. QED  BY <1>5, SilentStep DEF DeleteRow
-----------------------------------------------------------------------------
-----------------------------------------------------------------------------
(* The wheel, the clock, and the fires the spine takes off the wheel. *)

\* What is left of a channel, and what was taken off it.
LEMMA Taken ==
    ASSUME NEW S, NEW s \in Seq(S), s # << >>
    PROVE  /\ Head(s) \in S /\ Head(s) = s[1] /\ 1 \in DOMAIN s
           /\ Tail(s) \in Seq(S) /\ Len(Tail(s)) <= Len(s)
           /\ \A i \in DOMAIN Tail(s) : \E j \in DOMAIN s : Tail(s)[i] = s[j]
<1>1. /\ Len(s) \in Nat \ {0} /\ DOMAIN s = 1..Len(s) /\ Head(s) = s[1]
      /\ Tail(s) \in Seq(S) /\ Len(Tail(s)) = Len(s) - 1 /\ DOMAIN Tail(s) = 1..(Len(s) - 1)
      /\ \A i \in 1..(Len(s) - 1) : Tail(s)[i] = s[i + 1]
  OBVIOUS
<1>2. \A i \in 1..(Len(s) - 1) : i + 1 \in 1..Len(s)
  BY <1>1
<1>3. QED  BY <1>1, <1>2

\* What is due stays due while the minted ids only grow.
LEMMA DueStays ==
    ASSUME ExecutorInv,
           \A i \in TimerId : i \in TimerId' /\ due'[i] = due[i],
           clock' = clock, fires' = fires,
           \A i \in DOMAIN trig' : \E j \in DOMAIN trig : trig'[i] = trig[j]
    PROVE  DueInv'
<1>1. \A i \in DOMAIN fires : fires[i] \in TimerId
  BY DEF ExecutorInv, WheelInv, WheelTypeOK
<1>2. QED  BY <1>1 DEF ExecutorInv, DueInv

LEMMA InvSpineFires == ExecutorInv /\ SpineFires => ExecutorInv'
<1> SUFFICES ASSUME ExecutorInv, SpineFires PROVE ExecutorInv'
  OBVIOUS
<1> DEFINE e == EventOf("WallClock", NoEntry, Head(fires), 0, version)
<1>1. /\ fires # << >> /\ fires' = Tail(fires) /\ Publish(<<e>>)
      /\ UNCHANGED <<clock, due, guards, ctl, heap, live, firing, rung>>
      /\ UNCHANGED <<queue, current, version, deck, pos, spine, goto, pub, bounds>>
      /\ UNCHANGED planVars
  BY DEF SpineFires, queueVars, deckVars, worldVars
<1>2. clock \in Nat /\ version \in Nat /\ fires \in Seq(TimerId) /\ TimerId \subseteq Nat
  BY DEF ExecutorInv, WheelInv, WheelTypeOK, DeckInv, TimerId
<1>3. /\ Head(fires) \in TimerId /\ Head(fires) = fires[1] /\ 1 \in DOMAIN fires
      /\ \A i \in DOMAIN Tail(fires) : \E j \in DOMAIN fires : Tail(fires)[i] = fires[j]
  BY <1>1, <1>2, Taken
<1>4. e \in Event /\ e.kind = "WallClock" /\ e.timer = Head(fires)
  <2>1. "WallClock" \in Edge \cup {"Tick", "Resync"} /\ NoEntry \in MaybeEntry /\ 0 \in Nat
    BY DEF Edge
  <2>2. Head(fires) \in Nat
    BY <1>2, <1>3
  <2>3. ASSUME NEW t \in Nat
        PROVE  LET w == EventOf("WallClock", NoEntry, t, 0, version)
               IN  w \in Event /\ w.kind = "WallClock" /\ w.timer = t
    BY <1>2, <2>1 DEF EventOf, Event, MaybeEntry
  <2>4. QED  BY <2>2, <2>3
<1> HIDE DEF e
<1>5. <<e>> \in Seq(Event) /\ DOMAIN <<e>> = {1} /\ <<e>>[1] = e
  BY <1>4
<1>6. /\ seen' \in Nat /\ trig' \in Seq(Event)
      /\ bcast' \in Seq(Event) /\ Len(bcast') <= BcastCap
      /\ \A i \in DOMAIN trig' : (\E j \in DOMAIN trig : trig'[i] = trig[j]) \/ trig'[i] = e
  BY <1>1, <1>2, <1>5, PublishKeeps DEF ExecutorInv
<1>7. PubInv'
  BY <1>1, <1>6 DEF ExecutorInv, PubInv, planVars
<1>8. due[Head(fires)] <= clock
  BY <1>3 DEF ExecutorInv, DueInv
<1>9. DueInv'
  <2>1. \A i \in DOMAIN fires' : due'[fires'[i]] <= clock'
    BY <1>1, <1>3 DEF ExecutorInv, DueInv
  <2>2. \A i \in DOMAIN trig' : trig'[i].kind = "WallClock" =>
            trig'[i].timer \in TimerId' /\ due'[trig'[i].timer] <= clock'
    BY <1>1, <1>3, <1>4, <1>6, <1>8 DEF ExecutorInv, DueInv, TimerId
  <2>3. QED  BY <2>1, <2>2 DEF DueInv
<1>10. WheelInv'
  BY <1>1, InvReader DEF ExecutorInv, Reader
<1>11. DeckInv'
  BY <1>1 DEF ExecutorInv, DeckInv
<1>12. PlanInv' /\ IdInv' /\ ActsOnce' /\ NeverEarly' /\ OneOfEach'
  BY <1>1, PlansStay
<1>13. QED  BY <1>7, <1>9, <1>10, <1>11, <1>12 DEF ExecutorInv

LEMMA InvSource == ExecutorInv /\ Source => ExecutorInv'
<1> SUFFICES ASSUME ExecutorInv, Source PROVE ExecutorInv'
  OBVIOUS
<1>1. /\ Wheel /\ UNCHANGED planVars /\ UNCHANGED <<clock, due, guards>>
      /\ UNCHANGED <<queue, current, version, deck, pos, spine, goto, pub, seen, trig, bcast, exec, bounds>>
  BY DEF Source, Wheel, ApplyCmd, SleepEnds, Fire, queueVars, deckVars, pubVars, planVars, worldVars
<1>2. WheelInv'
  BY <1>1, InvApplyCmd, InvSleepEnds, InvFire DEF Wheel, ExecutorInv
<1>3. DeckInv' /\ PubInv'
  BY <1>1 DEF ExecutorInv, DeckInv, PubInv
<1>4. \A i \in DOMAIN trig' : trig'[i].kind = "WallClock" =>
          trig'[i].timer \in TimerId' /\ due'[trig'[i].timer] <= clock'
  BY <1>1 DEF ExecutorInv, DueInv, TimerId
<1>5. \A i \in DOMAIN fires' : due'[fires'[i]] <= clock'
  <2>1. CASE ApplyCmd \/ SleepEnds
    <3>1. fires' = fires
      BY <2>1 DEF ApplyCmd, SleepEnds
    <3>2. QED  BY <1>1, <3>1 DEF ExecutorInv, DueInv
  <2>2. CASE Fire
    <3>1. /\ fires \in Seq(TimerId) /\ firing \in TimerId /\ due[firing] <= clock
          /\ fires' = Append(fires, firing)
      BY <2>2 DEF Fire, ExecutorInv, WheelInv, WheelTypeOK, HeapInv
    <3>2. \A i \in DOMAIN fires' : fires'[i] = firing \/ (i \in DOMAIN fires /\ fires'[i] = fires[i])
      BY <3>1
    <3>3. QED  BY <1>1, <3>1, <3>2 DEF ExecutorInv, DueInv
  <2>3. QED  BY <1>1, <2>1, <2>2 DEF Wheel
<1>6. PlanInv' /\ IdInv' /\ ActsOnce' /\ NeverEarly' /\ OneOfEach'
  BY <1>1, PlansStay
<1>7. QED  BY <1>2, <1>3, <1>4, <1>5, <1>6 DEF ExecutorInv, DueInv

LEMMA InvTimeGoesBy == ExecutorInv /\ TimeGoesBy => ExecutorInv'
<1> SUFFICES ASSUME ExecutorInv, TimeGoesBy PROVE ExecutorInv'
  OBVIOUS
<1>1. /\ Pass /\ UNCHANGED planVars /\ UNCHANGED <<due, guards, fires>> /\ clock' = clock + 1
      /\ UNCHANGED <<queue, current, version, deck, spine, goto, pub, seen, trig, bcast, exec, bounds>>
      /\ pos' = IF deck.st = "playing" /\ pos < Duration THEN pos + 1 ELSE pos
  BY DEF TimeGoesBy, Pass, queueVars, pubVars, planVars, worldVars
<1>2. WheelInv'
  BY <1>1, InvPass DEF ExecutorInv
<1>3. pos \in Nat
  BY DEF ExecutorInv, DeckInv
<1>4. pos' \in Nat
  BY <1>1, <1>3
<1>5. DeckInv' /\ PubInv'
  BY <1>1, <1>4 DEF ExecutorInv, DeckInv, PubInv
<1>6. clock \in Nat /\ \A i \in TimerId : due[i] \in Nat
  BY DEF ExecutorInv, WheelInv, WheelTypeOK, TimerId
<1>7. \A i \in TimerId : due[i] <= clock => due'[i] <= clock'
  BY <1>1, <1>6
<1>8. \A i \in DOMAIN fires : fires[i] \in TimerId
  BY DEF ExecutorInv, WheelInv, WheelTypeOK
<1>9. DueInv'
  BY <1>1, <1>7, <1>8 DEF ExecutorInv, DueInv, TimerId
<1>10. PlanInv' /\ IdInv' /\ ActsOnce' /\ NeverEarly' /\ OneOfEach'
  BY <1>1, PlansStay
<1>11. QED  BY <1>2, <1>5, <1>9, <1>10 DEF ExecutorInv
-----------------------------------------------------------------------------
(* The steps that change the registry. *)

\* The timers of the plans and of the drafts are minted.
LEMMA TimersMinted ==
    ASSUME ExecutorInv
    PROVE  /\ TimersOf(plans) \subseteq guards /\ guards \subseteq TimerId
           /\ \A p \in plans : p.timer = 0 \/ p.timer \in TimerId
           /\ \A c \in Requester : draft[c] # NoPlan =>
                 draft[c].timer = 0 \/ draft[c].timer \in TimerId
BY DEF ExecutorInv, WheelInv, WheelTypeOK, PlanInv, Timed, TimersOf

\* The plans of a new registry are timed if each has kept its timer or was given
\* a fresh one; what is still a draft keeps its guard.
LEMMA RegistryPlans ==
    ASSUME ExecutorInv, NEW ds \in Seq(Nat), NEW new \in SUBSET Plan, IsFiniteSet(new),
           Registry(new, ds), minted' = minted,
           draft' \in [Requester -> Plan \cup {NoPlan}],
           \A c \in Requester : draft'[c] # NoPlan => draft'[c] = draft[c],
           \A p \in new : p.kind = "deadline" => p.timer # 0,
           \A p \in new : p.timer # 0 =>
              \/ /\ p.timer \in guards /\ due[p.timer] = p.deadline
                 /\ \A c \in Requester : draft'[c] # NoPlan => draft'[c].timer # p.timer
              \/ p.timer \in Fresh(ds) /\ due'[p.timer] = p.deadline
    PROVE  PlanInv'
<1>1. /\ plans' = new /\ due' = due \o ds
      /\ \A i \in TimerId : i \in TimerId' /\ i # 0 /\ due'[i] = due[i]
      /\ \A t \in Fresh(ds) : t \in TimerId' /\ t \notin TimerId
      /\ \A t \in guards \cup Fresh(ds) : t \in guards' \/ t \in TimersOf(plans) \cup Fresh(ds)
      /\ \A t \in (guards \cup Fresh(ds)) \cap TimersOf(new) : t \in guards'
  BY RegistryKeeps, TimersMinted DEF ExecutorInv
<1>2. guards \subseteq TimerId
  BY TimersMinted
<1>3. ASSUME NEW p \in new PROVE Timed(p)'
  <2>1. CASE p.timer = 0
    BY <2>1 DEF Timed
  <2>2. CASE p.timer # 0
    <3>1. p.timer \in TimersOf(new)
      BY <2>2 DEF TimersOf
    <3>2. p.timer \in guards' /\ due'[p.timer] = p.deadline
      BY <1>1, <1>2, <2>2, <3>1
    <3>3. QED  BY <2>2, <3>2 DEF Timed
  <2>3. QED  BY <2>1, <2>2
<1>4. ASSUME NEW c \in Requester, draft'[c] # NoPlan
      PROVE  /\ Timed(draft[c])'
             /\ draft[c].timer \notin TimersOf(new)
             /\ \A b \in Requester \ {c} : draft'[b].timer # draft[c].timer \/ draft[c].timer = 0
  <2>1. /\ draft'[c] = draft[c] /\ draft[c] # NoPlan /\ Timed(draft[c])
        /\ draft[c].timer \notin TimersOf(plans)
        /\ \A b \in Requester \ {c} : draft[b].timer # draft[c].timer \/ draft[c].timer = 0
    BY <1>4 DEF ExecutorInv, PlanInv
  <2>2. draft[c].timer # 0 => draft[c].timer \in guards /\ draft[c].timer \in TimerId
    BY <1>2, <2>1 DEF Timed
  <2>3. draft[c].timer # 0 => draft[c].timer \in guards' /\ due'[draft[c].timer] = due[draft[c].timer]
    BY <1>1, <2>1, <2>2
  <2>4. draft'[c].timer # 0 => draft'[c].timer \in guards' /\ due'[draft'[c].timer] = draft'[c].deadline
    BY <2>1, <2>3 DEF Timed
  <2>5. draft[c].timer \notin TimersOf(new)
    <3>1. ASSUME NEW p \in new, p.timer # 0, p.timer = draft[c].timer PROVE FALSE
      BY <1>1, <1>4, <2>1, <2>2, <3>1
    <3>2. QED  BY <3>1 DEF TimersOf
  <2>6. ASSUME NEW b \in Requester \ {c}
        PROVE  draft'[b].timer # draft[c].timer \/ draft[c].timer = 0
    <3>1. NoPlan.timer = 0
      BY DEF NoPlan
    <3>2. draft'[b] = NoPlan \/ draft'[b] = draft[b]
      OBVIOUS
    <3>3. QED  BY <2>1, <3>1, <3>2
  <2>7. QED  BY <2>1, <2>4, <2>5, <2>6 DEF Timed
<1>5. QED
  <2>1. \A c \in Requester : draft'[c] # NoPlan =>
          /\ Timed(draft[c])'
          /\ draft'[c].timer \notin TimersOf(new)
          /\ \A b \in Requester \ {c} : draft'[b].timer # draft'[c].timer \/ draft'[c].timer = 0
    BY <1>4
  <2>2. minted' \in Nat
    BY DEF ExecutorInv, PlanInv
  <2>3. TimersOf(plans)' = TimersOf(new)
    BY <1>1 DEF TimersOf
  <2>4. QED  BY <1>1, <1>3, <2>1, <2>2, <2>3 DEF PlanInv

\* Plans leave the registry: some act, some end, and the rest stay who they were.
LEMMA IdsMove ==
    ASSUME ExecutorInv, NEW new, NEW yes, NEW gone, plans' = new, acted' = Acts(yes),
           Ended' = Ended \cup gone,
           \A p \in new \cup yes : \E q \in plans :
              p.id = q.id /\ p.kind = q.kind /\ p.origin = q.origin,
           gone \subseteq {q.id : q \in plans},
           \A p, q \in new \cup yes : p.id = q.id => p = q,
           new \cap yes = {},
           \A p \in new \cup yes : p.id \notin gone,
           UNCHANGED <<draft, minted>>,
           nudges' \in Seq(1..minted),
           \A i \in DOMAIN nudges' : \E j \in DOMAIN nudges : nudges'[i] = nudges[j]
    PROVE  IdInv' /\ ActsOnce' /\ OneOfEach'
<1> DEFINE ids == {p.id : p \in yes}
<1>1. \A p \in new \cup yes : p.id \in (1..minted) \ (Drafted \cup Done \cup Ended)
  BY DEF ExecutorInv, IdInv
<1>2. \A i \in gone : i \in (1..minted) \ (Drafted \cup Done \cup Ended)
  BY DEF ExecutorInv, IdInv
<1>3. Done' = Done \cup ids
  <2>1. \A p \in yes : Act(p).plan = p
    BY DEF Act
  <2>2. QED  BY <2>1 DEF Done, Acts
<1>4. Drafted' = Drafted
  BY DEF Drafted
<1>5. /\ \A i \in ids : i \in (1..minted) \ (Drafted \cup Done \cup Ended) /\ i \notin gone
      /\ \A p \in new : p.id \notin ids
  BY <1>1
<1>6. IdInv'
  <2>1. \A p, q \in plans' : p.id = q.id => p = q
    OBVIOUS
  <2>2. \A b, c \in Requester : draft'[b] # NoPlan /\ draft'[b].id = draft'[c].id => b = c
    BY DEF ExecutorInv, IdInv
  <2>3. \A p \in plans' : p.id \in (1..minted') \ (Drafted' \cup Done' \cup Ended')
    BY <1>1, <1>3, <1>4, <1>5
  <2>4. Drafted \cup Done \cup Ended \subseteq 1..minted
        /\ Drafted \cap (Done \cup Ended) = {} /\ Done \cap Ended = {}
    BY DEF ExecutorInv, IdInv
  <2>5. /\ Drafted' \cup Done' \cup Ended' \subseteq 1..minted'
        /\ Drafted' \cap (Done' \cup Ended') = {} /\ Done' \cap Ended' = {}
    <3> HIDE DEF ids
    <3>1. QED  BY <1>2, <1>3, <1>4, <1>5, <2>4
  <2>6. \A i \in DOMAIN nudges' :
          /\ nudges'[i] \notin Drafted'
          /\ \A p \in plans' : p.id = nudges'[i] => p.kind = "immediate"
    BY <1>4 DEF ExecutorInv, IdInv
  <2>7. QED  BY <2>1, <2>2, <2>3, <2>5, <2>6 DEF IdInv
<1>7. ActsOnce'
  <2>1. \A p \in yes : Act(p).plan = p /\ ~Act(p).again
    <3>1. ASSUME NEW p \in yes, NEW a \in acted PROVE a.plan.id # p.id
      BY <1>1 DEF Done
    <3>2. QED  BY <3>1 DEF Act
  <2>2. /\ \A a \in acted : ~a.again /\ a.plan.id \in Done
        /\ \A a, b \in acted : a.plan.id = b.plan.id => a = b
    BY DEF ExecutorInv, ActsOnce, Done
  <2>3. \A a \in acted' : a \in acted \/ \E p \in yes : a = Act(p)
    BY DEF Acts
  <2>4. \A p \in yes : p.id \notin Done
    BY <1>1
  <2>5. \A a \in acted' : ~a.again
    BY <2>1, <2>2, <2>3
  <2>6. ASSUME NEW a \in acted', NEW b \in acted', a.plan.id = b.plan.id PROVE a = b
    <3>1. CASE a \in acted /\ b \in acted
      BY <2>2, <2>6, <3>1
    <3>2. CASE a \in acted /\ \E p \in yes : b = Act(p)
      BY <2>1, <2>2, <2>4, <2>6, <3>2
    <3>3. CASE b \in acted /\ \E p \in yes : a = Act(p)
      BY <2>1, <2>2, <2>4, <2>6, <3>3
    <3>4. CASE (\E p \in yes : a = Act(p)) /\ (\E p \in yes : b = Act(p))
      BY <2>1, <2>6, <3>4
    <3>5. QED  BY <2>3, <3>1, <3>2, <3>3, <3>4
  <2>7. Done' \cap Ended' = {} /\ (Done' \cup Ended') \cap {p.id : p \in plans'} = {}
    BY <1>6 DEF IdInv
  <2>8. Done' = {a.plan.id : a \in acted'} /\ Ended' = {e.id : e \in ended'}
    BY DEF Done, Ended
  <2>9. QED  BY <2>5, <2>6, <2>7, <2>8 DEF ActsOnce
<1>8. OneOfEach'
  <2> SUFFICES ASSUME NEW p \in new, NEW q \in new, p.origin # "", p.origin = q.origin
               PROVE  p = q
    BY DEF OneOfEach
  <2>1. PICK r \in plans, s \in plans :
          p.id = r.id /\ p.origin = r.origin /\ q.id = s.id /\ q.origin = s.origin
    OBVIOUS
  <2>2. r = s
    BY <2>1 DEF ExecutorInv, OneOfEach
  <2>3. QED  BY <2>1, <2>2
<1>9. QED  BY <1>6, <1>7, <1>8

\* maintain_remaining: plans stay who they are; those that wait for the end of
\* their track are re-armed, all for the same moment, or let go of their timer.
LEMMA MaintainedIs ==
    ASSUME ExecutorInv, NEW ps \in SUBSET plans, NEW ev \in Event
    PROVE  /\ Deadlines(ps, ev) \in Seq(Nat) /\ IsFiniteSet(Maintained(ps, ev))
           /\ Maintained(ps, ev) \in SUBSET Plan
           /\ \A p \in Maintained(ps, ev) : \E q \in ps :
                 /\ p.id = q.id /\ p.kind = q.kind /\ p.origin = q.origin /\ p.entry = q.entry
                 /\ \/ p = q
                    \/ p.kind # "deadline" /\ p.timer = 0
                    \/ /\ p.kind # "deadline" /\ ev.kind = "Tick"
                       /\ p.timer \in Fresh(Deadlines(ps, ev))
                       /\ Deadlines(ps, ev)[p.timer - Len(due)] = p.deadline
           /\ \A p, q \in Maintained(ps, ev) : p.id = q.id => p = q
<1> DEFINE arms == Rearms(ps, ev)
           n == Cardinality(arms)
           at == ArmsAt(ev)
<1>1. ps \subseteq Plan /\ IsFiniteSet(ps)
  BY FS_Subset DEF ExecutorInv, PlanInv
<1>2. arms \subseteq ps /\ IsFiniteSet(arms)
  <2>1. arms \subseteq ps
    BY DEF Rearms
  <2>2. QED  BY <1>1, <2>1, FS_Subset
<1>3. at \in Nat
  <2>1. ev.now \in Nat /\ ev.rem \in Nat /\ Lead \in Nat
    BY ExecutorAssumption DEF Event
  <2>2. QED  BY <2>1 DEF ArmsAt
<1>4. n \in Nat
  BY <1>2, FS_CardinalityType
<1>5. Len(due) \in Nat
  BY DEF ExecutorInv, WheelInv, WheelTypeOK
<1> HIDE DEF n, at, arms
<1>6. Deadlines(ps, ev) = [k \in 1..n |-> at]
  BY DEF Deadlines, n, at, arms
<1>7. /\ Deadlines(ps, ev) \in Seq(Nat) /\ Len(Deadlines(ps, ev)) = n
      /\ \A k \in 1..n : Deadlines(ps, ev)[k] = at
  BY <1>3, <1>4, <1>6
<1>8. ASSUME NEW q \in arms
      PROVE  Cardinality({r \in arms : r.id <= q.id}) \in 1..n
  <2> DEFINE S == {r \in arms : r.id <= q.id}
  <2>1. S \subseteq arms
    OBVIOUS
  <2>2. IsFiniteSet(S) /\ Cardinality(S) \in Nat /\ Cardinality(S) <= n
    BY <1>2, <1>4, <2>1, FS_Subset, FS_CardinalityType DEF n
  <2>3. q \in S
    <3>1. q.id \in Nat
      BY <1>1, <1>2 DEF Plan
    <3>2. q.id <= q.id
      BY <3>1
    <3>3. QED  BY <3>2
  <2>4. Cardinality(S) # 0
    BY <2>2, <2>3, FS_EmptySet
  <2> HIDE DEF S
  <2>5. Cardinality(S) \in 1..n
    BY <1>4, <2>2, <2>4
  <2>6. QED  BY <2>5 DEF S
<1>9. ASSUME NEW q \in ps
      PROVE  LET p == Kept(q, arms, ev) IN
             /\ p \in Plan
             /\ p.id = q.id /\ p.kind = q.kind /\ p.origin = q.origin /\ p.entry = q.entry
             /\ \/ p = q
                \/ p.kind # "deadline" /\ p.timer = 0
                \/ /\ p.kind # "deadline" /\ ev.kind = "Tick"
                   /\ p.timer \in Fresh(Deadlines(ps, ev))
                   /\ Deadlines(ps, ev)[p.timer - Len(due)] = p.deadline
  <2> DEFINE c == Cardinality({r \in arms : r.id <= q.id})
             dropped == [q EXCEPT !.timer = 0, !.deadline = 0]
             armed == [q EXCEPT !.timer = Len(due) + c, !.deadline = at]
  <2>1. q \in Plan
    BY <1>1
  <2>2. /\ dropped \in Plan /\ dropped.timer = 0 /\ dropped.id = q.id /\ dropped.kind = q.kind
        /\ dropped.origin = q.origin /\ dropped.entry = q.entry
    BY <2>1 DEF Plan
  <2>3. CASE q \in arms
    <3>1. c \in 1..n
      BY <1>8, <2>3
    <3> HIDE DEF c
    <3>2. Len(due) + c \in Nat /\ Len(due) + c - Len(due) = c /\ Len(due) + c \in (Len(due) + 1)..(Len(due) + n)
      BY <1>4, <1>5, <3>1
    <3>3. /\ armed \in Plan /\ armed.timer = Len(due) + c /\ armed.deadline = at
          /\ armed.id = q.id /\ armed.kind = q.kind
          /\ armed.origin = q.origin /\ armed.entry = q.entry
      BY <1>3, <2>1, <3>2 DEF Plan
    <3>4. armed.timer \in Fresh(Deadlines(ps, ev))
          /\ Deadlines(ps, ev)[armed.timer - Len(due)] = armed.deadline
      BY <1>7, <3>1, <3>2, <3>3 DEF Fresh
    <3>5. q.kind = "remaining" /\ ev.kind = "Tick"
      BY <2>3 DEF arms, Rearms
    <3>6. Kept(q, arms, ev) \in {q, dropped, armed}
      BY DEF Kept, at, c
    <3> HIDE DEF armed, dropped
    <3>7. QED  BY <2>1, <2>2, <3>3, <3>4, <3>5, <3>6
  <2>4. CASE q \notin arms
    <3>1. Kept(q, arms, ev) = q \/ (q.kind = "remaining" /\ Kept(q, arms, ev) = dropped)
      BY <2>4 DEF Kept
    <3> HIDE DEF dropped
    <3>2. QED  BY <2>1, <2>2, <3>1
  <2>5. QED  BY <2>3, <2>4
<1>10. Maintained(ps, ev) = {Kept(q, arms, ev) : q \in ps}
  BY DEF Maintained, arms
<1>11. \A p, q \in Maintained(ps, ev) : p.id = q.id => p = q
  <2>1. \A p, q \in ps : p.id = q.id => p = q
    BY DEF ExecutorInv, IdInv
  <2>2. QED  BY <1>9, <1>10, <2>1
<1>12. IsFiniteSet(Maintained(ps, ev))
  <2> DEFINE f == [q \in ps |-> Kept(q, arms, ev)]
             M == {Kept(q, arms, ev) : q \in ps}
  <2>1. f \in Surjection(ps, M)
    BY DEF Surjection
  <2>2. IsFiniteSet(M)
    BY <1>1, <2>1, FS_Surjection
  <2>3. QED  BY <1>10, <2>2
<1>13. QED  BY <1>7, <1>9, <1>10, <1>11, <1>12
-----------------------------------------------------------------------------
\* Nothing acts when nothing is chosen to.
LEMMA NoneActs == Acts({}) = acted
BY DEF Acts

\* What a step of the registry leaves alone, apart from the plans.
LEMMA RegistryFrame ==
    ASSUME ExecutorInv, NEW ds \in Seq(Nat), NEW new, Registry(new, ds),
           UNCHANGED <<queueVars, deckVars, pub, seen, worldVars>>,
           trig' \in Seq(Event), \A i \in DOMAIN trig' : \E j \in DOMAIN trig : trig'[i] = trig[j],
           bcast' \in Seq(Event), Len(bcast') <= Len(bcast),
           exec' \in [last : Nat, paused : BOOLEAN]
    PROVE  WheelInv' /\ DeckInv' /\ PubInv' /\ DueInv'
<1>1. /\ WheelInv' /\ UNCHANGED <<clock, fires>>
      /\ \A i \in TimerId : i \in TimerId' /\ due'[i] = due[i]
  BY RegistryKeeps, TimersMinted DEF ExecutorInv
<1>2. DueInv'
  BY <1>1, DueStays
<1>3. DeckInv'
  BY DEF ExecutorInv, DeckInv, queueVars, deckVars, worldVars
<1>4. PubInv'
  <2>1. Len(bcast) \in Nat /\ Len(bcast') \in Nat /\ BcastCap \in Nat /\ Len(bcast) <= BcastCap
    BY ExecutorAssumption DEF ExecutorInv, PubInv
  <2>2. Len(bcast') <= BcastCap
    BY <2>1
  <2>3. QED  BY <2>2 DEF ExecutorInv, PubInv
<1>5. QED  BY <1>1, <1>2, <1>3, <1>4

\* A stream that was not read.
LEMMA Unread ==
    ASSUME ExecutorInv
    PROVE  /\ trig \in Seq(Event) /\ bcast \in Seq(Event) /\ Len(bcast) \in Nat
           /\ \A i \in DOMAIN trig : \E j \in DOMAIN trig : trig[i] = trig[j]
           /\ exec \in [last : Nat, paused : BOOLEAN]
           /\ nudges \in Seq(1..minted)
           /\ \A i \in DOMAIN nudges : \E j \in DOMAIN nudges : nudges[i] = nudges[j]
           /\ << >> \in Seq(Nat)
BY DEF ExecutorInv, PubInv, IdInv

\* A plan of the registry, as it was.
LEMMA OldPlans ==
    ASSUME ExecutorInv
    PROVE  /\ plans \subseteq Plan /\ IsFiniteSet(plans)
           /\ \A p \in plans : p.kind = "deadline" => p.timer # 0
           /\ \A p \in plans : p.timer # 0 =>
                 /\ p.timer \in guards /\ due[p.timer] = p.deadline
                 /\ \A c \in Requester : draft[c] # NoPlan => draft[c].timer # p.timer
           /\ draft \in [Requester -> Plan \cup {NoPlan}]
           /\ \A p, q \in plans : p.id = q.id => p = q
<1>1. ASSUME NEW p \in plans, p.timer # 0, NEW c \in Requester, draft[c] # NoPlan
      PROVE  draft[c].timer # p.timer
  <2>1. p.timer \in TimersOf(plans)
    BY <1>1 DEF TimersOf
  <2>2. QED  BY <1>1, <2>1 DEF ExecutorInv, PlanInv
<1>2. QED  BY <1>1 DEF ExecutorInv, PlanInv, IdInv, Timed

\* Plans that leave the registry take nothing from those that stay.
LEMMA PlansLeave ==
    ASSUME ExecutorInv, NEW ds \in Seq(Nat), NEW new \in SUBSET plans, Registry(new, ds),
           UNCHANGED <<draft, minted>>
    PROVE  PlanInv'
<1>1. new \in SUBSET Plan /\ IsFiniteSet(new)
  BY OldPlans, FS_Subset
<1>2. /\ \A p \in new : p.kind = "deadline" => p.timer # 0
      /\ \A p \in new : p.timer # 0 =>
            /\ p.timer \in guards /\ due[p.timer] = p.deadline
            /\ \A c \in Requester : draft[c] # NoPlan => draft[c].timer # p.timer
  BY OldPlans
<1>3. draft' \in [Requester -> Plan \cup {NoPlan}] /\ draft' = draft /\ minted' = minted
  BY OldPlans
<1>4. QED  BY <1>1, <1>2, <1>3, RegistryPlans

LEMMA InvPlanCancel ==
    ASSUME ExecutorInv, NEW p \in plans, PlanCancel(p)
    PROVE  ExecutorInv'
<1> DEFINE none == << >>
           new == {o \in plans : o.id # p.id}
<1>1. /\ Registry(new, none) /\ ended' = ended \cup {[id |-> p.id, how |-> "cancelled"]}
      /\ UNCHANGED <<queueVars, deckVars, pub, seen, trig, bcast, worldVars>>
      /\ UNCHANGED <<draft, nudges, minted, exec, acted>>
  BY DEF PlanCancel, pubVars
<1>2. new \subseteq plans
  OBVIOUS
<1>3. new \in SUBSET Plan /\ IsFiniteSet(new)
  BY <1>2, OldPlans, FS_Subset
<1>4. \A q \in new : q.id # p.id
  OBVIOUS
<1>0. none \in Seq(Nat)
  OBVIOUS
<1> HIDE DEF new, none
<1>5. WheelInv' /\ DeckInv' /\ PubInv' /\ DueInv'
  BY <1>0, <1>1, Unread, RegistryFrame
<1>6. PlanInv'
  BY <1>0, <1>1, <1>2, PlansLeave
<1>7. plans' = new /\ acted' = Acts({}) /\ Ended' = Ended \cup {p.id}
  <2> DEFINE e == [id |-> p.id, how |-> "cancelled"]
  <2>1. ended' = ended \cup {e} /\ e.id = p.id
    BY <1>1
  <2> HIDE DEF e
  <2>2. Ended' = Ended \cup {p.id}
    BY <2>1 DEF Ended
  <2>3. QED  BY <1>1, <2>2, NoneActs DEF Registry
<1>8. /\ {p.id} \subseteq {q.id : q \in plans} /\ new \cap {} = {}
      /\ \A q \in new \cup {} : q.id \notin {p.id} /\ \E r \in plans :
            q.id = r.id /\ q.kind = r.kind /\ q.origin = r.origin
      /\ \A q, r \in new \cup {} : q.id = r.id => q = r
  BY <1>2, <1>4, OldPlans
<1>9. IdInv' /\ ActsOnce' /\ OneOfEach'
  <2>1. UNCHANGED <<draft, minted>> /\ nudges' = nudges
    BY <1>1
  <2>2. QED  BY <1>7, <1>8, <2>1, Unread, IdsMove
<1>10. NeverEarly'
  BY <1>1 DEF ExecutorInv, NeverEarly
<1>11. QED  BY <1>5, <1>6, <1>9, <1>10 DEF ExecutorInv

LEMMA InvOnImmediate == ExecutorInv /\ OnImmediate => ExecutorInv'
<1> SUFFICES ASSUME ExecutorInv, OnImmediate PROVE ExecutorInv'
  OBVIOUS
<1> DEFINE none == << >>
           ours == {p \in plans : p.id = Head(nudges)}
           new == plans \ ours
<1>1. /\ nudges # << >> /\ nudges' = Tail(nudges) /\ Registry(new, none) /\ acted' = Acts(ours)
      /\ UNCHANGED <<queueVars, deckVars, pub, seen, trig, bcast, worldVars>>
      /\ UNCHANGED <<draft, minted, exec, ended>>
  BY DEF OnImmediate, pubVars
<1>2. new \subseteq plans /\ ours \subseteq plans /\ new \cap ours = {}
  OBVIOUS
<1>3. new \in SUBSET Plan /\ IsFiniteSet(new)
  BY <1>2, OldPlans, FS_Subset
<1>4. \A p \in ours : p.id = Head(nudges)
  OBVIOUS
<1>0. none \in Seq(Nat)
  OBVIOUS
<1> HIDE DEF new, ours, none
<1>5. WheelInv' /\ DeckInv' /\ PubInv' /\ DueInv' /\ PlanInv'
  <2>1. WheelInv' /\ DeckInv' /\ PubInv' /\ DueInv'
    BY <1>0, <1>1, Unread, RegistryFrame
  <2>2. PlanInv'
    BY <1>0, <1>1, <1>2, PlansLeave
  <2>3. QED  BY <2>1, <2>2
<1>6. /\ Head(nudges) = nudges[1] /\ 1 \in DOMAIN nudges /\ nudges' \in Seq(1..minted)
      /\ \A i \in DOMAIN nudges' : \E j \in DOMAIN nudges : nudges'[i] = nudges[j]
  BY <1>1, Unread, Taken
<1>7. \A p \in ours : p.kind = "immediate"
  BY <1>2, <1>4, <1>6 DEF ExecutorInv, IdInv
<1>8. plans' = new /\ Ended' = Ended \cup {}
  BY <1>1 DEF Registry, Ended
<1>9. /\ \A q \in new \cup ours : \E r \in plans :
            q.id = r.id /\ q.kind = r.kind /\ q.origin = r.origin
      /\ \A q, r \in new \cup ours : q.id = r.id => q = r
  BY <1>2, OldPlans
<1>10. NeverEarly'
  <2>1. \A a \in acted' : a \in acted \/ a.plan.kind = "immediate"
    BY <1>1, <1>7 DEF Acts, Act
  <2>2. QED  BY <2>1 DEF ExecutorInv, NeverEarly
<1>11. IdInv' /\ ActsOnce' /\ OneOfEach'
  <2>1. {} \subseteq {q.id : q \in plans} /\ \A p \in new \cup ours : p.id \notin {}
    OBVIOUS
  <2>2. QED  BY <1>1, <1>2, <1>6, <1>8, <1>9, <2>1, IdsMove
<1>12. QED  BY <1>5, <1>10, <1>11 DEF ExecutorInv

\* An event read off a stream leaves the executor's own state in its type.
LEMMA PausedType ==
    ASSUME ExecutorInv, NEW ev \in Event
    PROVE  Paused(ev) \in BOOLEAN /\ ev.version \in Nat /\ exec.last \in Nat
BY DEF ExecutorInv, PubInv, Event, Paused

\* The plans of the maintained registry are timed, whichever of them stay.
LEMMA MaintainedTimed ==
    ASSUME ExecutorInv, NEW ps \in SUBSET plans, NEW ev \in Event,
           NEW new \in SUBSET Maintained(ps, ev), Registry(new, Deadlines(ps, ev)),
           UNCHANGED <<draft, minted>>
    PROVE  PlanInv'
<1> DEFINE ds == Deadlines(ps, ev)
           M == Maintained(ps, ev)
<1>1. /\ ds \in Seq(Nat) /\ IsFiniteSet(M) /\ M \in SUBSET Plan
      /\ \A p \in M : \E q \in ps :
            /\ p.kind = q.kind
            /\ \/ p = q
               \/ p.kind # "deadline" /\ p.timer = 0
               \/ /\ p.kind # "deadline"
                  /\ p.timer \in Fresh(ds) /\ ds[p.timer - Len(due)] = p.deadline
  BY MaintainedIs
<1> HIDE DEF ds, M
<1>2. Registry(new, ds) /\ new \subseteq M
  BY DEF ds, M
<1>3. new \in SUBSET Plan /\ IsFiniteSet(new)
  BY <1>1, <1>2, FS_Subset
<1>4. due \in Seq(Nat) /\ due' = due \o ds
  BY <1>2 DEF Registry, ExecutorInv, WheelInv, WheelTypeOK
<1>5. \A k \in 1..Len(ds) : due'[Len(due) + k] = ds[k]
  BY <1>1, <1>4, SeveralMinted
<1>6. \A t \in Fresh(ds) : t \in Nat /\ t - Len(due) \in 1..Len(ds) /\ Len(due) + (t - Len(due)) = t
  BY <1>1, <1>4 DEF Fresh
<1>7. \A t \in Fresh(ds) : due'[t] = ds[t - Len(due)]
  BY <1>5, <1>6
<1>8. ASSUME NEW p \in new
      PROVE  /\ p.kind = "deadline" => p.timer # 0
             /\ p.timer # 0 =>
                  \/ /\ p.timer \in guards /\ due[p.timer] = p.deadline
                     /\ \A c \in Requester : draft'[c] # NoPlan => draft'[c].timer # p.timer
                  \/ p.timer \in Fresh(ds) /\ due'[p.timer] = p.deadline
  <2>1. PICK q \in ps :
            /\ p.kind = q.kind
            /\ \/ p = q
               \/ p.kind # "deadline" /\ p.timer = 0
               \/ /\ p.kind # "deadline"
                  /\ p.timer \in Fresh(ds) /\ ds[p.timer - Len(due)] = p.deadline
    BY <1>1, <1>2
  <2>2. CASE p = q
    BY <2>2, OldPlans
  <2>3. CASE p.kind # "deadline" /\ p.timer = 0
    BY <2>3
  <2>4. CASE /\ p.kind # "deadline"
             /\ p.timer \in Fresh(ds) /\ ds[p.timer - Len(due)] = p.deadline
    BY <1>7, <2>4
  <2>5. QED  BY <2>1, <2>2, <2>3, <2>4
<1>9. QED  BY <1>1, <1>2, <1>3, <1>8, OldPlans, RegistryPlans

LEMMA InvOnTick == ExecutorInv /\ OnTick => ExecutorInv'
<1> SUFFICES ASSUME ExecutorInv, OnTick PROVE ExecutorInv'
  OBVIOUS
<1> DEFINE ev == Head(bcast)
           M == Maintained(plans, ev)
           ds == Deadlines(plans, ev)
<1>1. /\ bcast # << >> /\ bcast' = Tail(bcast) /\ Registry(M, ds)
      /\ exec' = [exec EXCEPT !.paused = Paused(ev)]
      /\ UNCHANGED <<queueVars, deckVars, pub, seen, trig, worldVars>>
      /\ UNCHANGED <<draft, nudges, minted, acted, ended>>
  BY DEF OnTick
<1>2. ev \in Event /\ bcast' \in Seq(Event) /\ Len(bcast') <= Len(bcast)
  BY <1>1, Unread, Taken
<1> HIDE DEF ev
<1>3. /\ ds \in Seq(Nat)
      /\ \A p \in M : \E q \in plans : p.id = q.id /\ p.kind = q.kind /\ p.origin = q.origin
      /\ \A p, q \in M : p.id = q.id => p = q
  BY <1>2, MaintainedIs
<1>4. exec' \in [last : Nat, paused : BOOLEAN]
  BY <1>1, <1>2, PausedType, Unread
<1>5. PlanInv'
  BY <1>1, <1>2, MaintainedTimed
<1> HIDE DEF M, ds
<1>6. WheelInv' /\ DeckInv' /\ PubInv' /\ DueInv'
  BY <1>1, <1>2, <1>3, <1>4, Unread, RegistryFrame
<1>7. plans' = M /\ acted' = Acts({}) /\ Ended' = Ended \cup {}
  BY <1>1, NoneActs DEF Registry, Ended
<1>8. IdInv' /\ ActsOnce' /\ OneOfEach'
  <2>1. UNCHANGED <<draft, minted>> /\ nudges' = nudges
    BY <1>1
  <2>2. /\ {} \subseteq {q.id : q \in plans} /\ M \cap {} = {}
        /\ \A p \in M \cup {} : p.id \notin {} /\ p \in M
    OBVIOUS
  <2>3. /\ \A p \in M \cup {} : \E q \in plans : p.id = q.id /\ p.kind = q.kind /\ p.origin = q.origin
        /\ \A p, q \in M \cup {} : p.id = q.id => p = q
    BY <1>3
  <2>4. QED  BY <1>7, <2>1, <2>2, <2>3, Unread, IdsMove
<1>9. NeverEarly'
  BY <1>1 DEF ExecutorInv, NeverEarly
<1>10. QED  BY <1>5, <1>6, <1>8, <1>9 DEF ExecutorInv

\* A plan that waits on a timer acts on a fire of the timer it holds, which was
\* armed for the plan's deadline: a fire of an earlier one is not its own.
LEMMA FiresDue ==
    ASSUME ExecutorInv, trig # << >>, NEW ps \in SUBSET plans,
           NEW p \in Maintained(ps, Head(trig)), Fires(p, Head(trig)) = "yes",
           p.kind \in {"deadline", "remaining"}
    PROVE  p.deadline <= clock
<1> DEFINE ev == Head(trig)
<1>1. ev \in Event /\ ev = trig[1] /\ 1 \in DOMAIN trig
  BY Unread, Taken
<1>2. ev.kind = "WallClock" /\ ev.timer = p.timer
  BY DEF Fires
<1>3. p.timer \in TimerId /\ due[p.timer] <= clock
  <2>1. trig[1].kind = "WallClock" /\ trig[1].timer = p.timer
    BY <1>1, <1>2
  <2>2. QED  BY <1>1, <2>1 DEF ExecutorInv, DueInv
<1>4. p.timer # 0
  BY <1>3 DEF TimerId, ExecutorInv, WheelInv, WheelTypeOK
<1> HIDE DEF ev
<1>5. PICK q \in ps :
        \/ p = q
        \/ p.kind # "deadline" /\ p.timer = 0
        \/ p.kind # "deadline" /\ ev.kind = "Tick"
  BY <1>1, MaintainedIs DEF ev
<1>6. p \in plans
  BY <1>2, <1>4, <1>5
<1>7. due[p.timer] = p.deadline
  BY <1>4, <1>6, OldPlans
<1>8. QED  BY <1>3, <1>7

LEMMA InvOnEvent == ExecutorInv /\ OnEvent => ExecutorInv'
<1> SUFFICES ASSUME ExecutorInv, OnEvent PROVE ExecutorInv'
  OBVIOUS
<1> DEFINE ev == Head(trig)
           orphans == {p \in plans : ev.version # exec.last /\ Orphaned(p)}
           kept == plans \ orphans
           M == Maintained(kept, ev)
           ds == Deadlines(kept, ev)
           now(answer) == {p \in M : Fires(p, ev) = answer}
           how(p) == IF ev.kind = "TrackEnd" /\ p.kind = "album" /\ p.entry = ev.entry
                     THEN "at its boundary" ELSE "expired"
           new == now("no")
           yes == now("yes")
           over == orphans \cup now("stale")
           gone == {p.id : p \in over}
<1>1. /\ trig # << >> /\ trig' = Tail(trig) /\ Registry(new, ds)
      /\ exec' = [last |-> ev.version, paused |-> Paused(ev)] /\ acted' = Acts(yes)
      /\ ended' = ended \cup {[id |-> p.id, how |-> how(p)] : p \in over}
      /\ UNCHANGED <<queueVars, deckVars, pub, seen, bcast, worldVars>>
      /\ UNCHANGED <<draft, nudges, minted>>
  BY DEF OnEvent
<1>2. /\ ev \in Event /\ trig' \in Seq(Event)
      /\ \A i \in DOMAIN trig' : \E j \in DOMAIN trig : trig'[i] = trig[j]
  <2>1. trig # << >> /\ trig' = Tail(trig)
    BY <1>1
  <2>2. QED  BY <2>1, Unread, Taken
<1>3. Ended' = Ended \cup gone
  <2> DEFINE log == {[id |-> p.id, how |-> how(p)] : p \in over}
  <2> HIDE DEF over, how
  <2>1. /\ \A e \in log : \E p \in over : e.id = p.id
        /\ \A p \in over : \E e \in log : e.id = p.id
    <3>1. \A p \in over : LET e == [id |-> p.id, how |-> how(p)] IN e \in log /\ e.id = p.id
      OBVIOUS
    <3>2. \A e \in log : \E p \in over : e.id = p.id
      OBVIOUS
    <3> HIDE DEF log
    <3>3. QED  BY <3>1, <3>2
  <2>2. ended' = ended \cup log
    BY <1>1
  <2> HIDE DEF log
  <2>3. QED  BY <2>1, <2>2 DEF Ended
<1>4. kept \in SUBSET plans /\ orphans \subseteq plans
  OBVIOUS
<1>5. ASSUME NEW p \in yes, p.kind \in {"deadline", "remaining"} PROVE p.deadline <= clock
  BY <1>1, <1>4, <1>5, FiresDue
<1>6. /\ new \subseteq M /\ yes \subseteq M /\ new \cap yes = {}
      /\ \A p \in over : p \in orphans \/ (p \in M /\ p \notin new /\ p \notin yes)
  OBVIOUS
<1>7. \A p \in kept : p \in plans /\ p \notin orphans
  OBVIOUS
<1> HIDE DEF new, yes, over, orphans, kept, now, how, ev
<1>8. /\ ds \in Seq(Nat)
      /\ \A p \in M : \E q \in kept : p.id = q.id /\ p.kind = q.kind /\ p.origin = q.origin
      /\ \A p, q \in M : p.id = q.id => p = q
  BY <1>2, <1>4, MaintainedIs
<1>9. exec' \in [last : Nat, paused : BOOLEAN]
  BY <1>1, <1>2, PausedType
<1>10. PlanInv'
  BY <1>1, <1>2, <1>4, <1>6, MaintainedTimed
<1> HIDE DEF M, ds
<1>11. WheelInv' /\ DeckInv' /\ PubInv' /\ DueInv'
  BY <1>1, <1>2, <1>8, <1>9, Unread, RegistryFrame
<1>12. \A p \in new \cup yes : p \in M
  BY <1>6
<1>13. gone \subseteq {q.id : q \in plans}
  <2>1. ASSUME NEW p \in over PROVE \E q \in plans : p.id = q.id
    BY <1>4, <1>6, <1>7, <1>8
  <2>2. QED  BY <2>1
<1>14. \A p \in new \cup yes : p.id \notin gone
  <2>1. ASSUME NEW p \in new \cup yes, NEW o \in over, p.id = o.id PROVE FALSE
    <3>1. PICK q \in kept : p.id = q.id
      BY <1>8, <1>12
    <3>2. CASE o \in orphans
      BY <1>4, <1>7, <2>1, <3>1, <3>2, OldPlans
    <3>3. CASE o \in M /\ o \notin new /\ o \notin yes
      BY <1>8, <1>12, <2>1, <3>3
    <3>4. QED  BY <1>6, <3>2, <3>3
  <2>2. QED  BY <2>1
<1>15. NeverEarly'
  <2>1. \A a \in acted' : a \in acted \/ \E p \in yes : a.plan = p /\ a.at = clock
    BY <1>1 DEF Acts, Act
  <2>2. clock \in Nat /\ \A p \in yes : p.deadline \in Nat
    <3>1. M \in SUBSET Plan
      BY <1>2, <1>4, MaintainedIs DEF M
    <3>2. \A p \in yes : p \in Plan
      BY <1>12, <3>1
    <3>3. clock \in Nat
      BY DEF ExecutorInv, WheelInv, WheelTypeOK
    <3>4. QED  BY <3>2, <3>3 DEF Plan
  <2>3. QED  BY <1>5, <2>1, <2>2 DEF ExecutorInv, NeverEarly
<1> HIDE DEF gone
<1>16. IdInv' /\ ActsOnce' /\ OneOfEach'
  <2>1. UNCHANGED <<draft, minted>> /\ nudges' = nudges /\ plans' = new
    BY <1>1 DEF Registry
  <2>2. /\ \A p \in new \cup yes : \E q \in plans :
              p.id = q.id /\ p.kind = q.kind /\ p.origin = q.origin
        /\ \A p, q \in new \cup yes : p.id = q.id => p = q
    BY <1>7, <1>8, <1>12
  <2>3. QED  BY <1>1, <1>3, <1>6, <1>13, <1>14, <2>1, <2>2, Unread, IdsMove
<1>17. QED  BY <1>10, <1>11, <1>15, <1>16 DEF ExecutorInv

\* A sequence with one member more.
LEMMA Appended ==
    ASSUME NEW S, NEW s \in Seq(S), NEW x \in S
    PROVE  /\ Append(s, x) \in Seq(S)
           /\ \A i \in DOMAIN Append(s, x) :
                 Append(s, x)[i] = x \/ (i \in DOMAIN s /\ Append(s, x)[i] = s[i])
OBVIOUS

\* A draft becomes a plan, and the plan it replaces goes in the same scope.
LEMMA InvCommit ==
    ASSUME ExecutorInv, NEW c \in Requester, Commit(c)
    PROVE  ExecutorInv'
<1> DEFINE p == draft[c]
           gone == {o \in plans : p.origin # "" /\ o.origin = p.origin}
           new == (plans \ gone) \cup {p}
           none == << >>
           ids == {o.id : o \in gone}
<1>1. /\ p # NoPlan /\ Registry(new, none) /\ draft' = [draft EXCEPT ![c] = NoPlan]
      /\ nudges' = IF p.kind = "immediate" THEN Append(nudges, p.id) ELSE nudges
      /\ ended' = ended \cup {[id |-> o.id, how |-> "cancelled"] : o \in gone}
      /\ UNCHANGED <<queueVars, deckVars, pub, seen, trig, bcast, worldVars>>
      /\ UNCHANGED <<minted, exec, acted>>
  BY DEF Commit, pubVars
<1>2. Ended' = Ended \cup ids
  <2> DEFINE log == {[id |-> o.id, how |-> "cancelled"] : o \in gone}
  <2> HIDE DEF gone
  <2>1. /\ \A e \in log : \E o \in gone : e.id = o.id
        /\ \A o \in gone : \E e \in log : e.id = o.id
    <3>1. \A o \in gone : LET e == [id |-> o.id, how |-> "cancelled"] IN e \in log /\ e.id = o.id
      OBVIOUS
    <3>2. \A e \in log : \E o \in gone : e.id = o.id
      OBVIOUS
    <3> HIDE DEF log
    <3>3. QED  BY <3>1, <3>2
  <2>2. ended' = ended \cup log
    BY <1>1
  <2> HIDE DEF log
  <2>3. QED  BY <2>1, <2>2 DEF Ended
<1>3. /\ draft \in [Requester -> Plan \cup {NoPlan}] /\ p \in Plan
      /\ p.id \in Drafted /\ Drafted \subseteq 1..minted
      /\ Drafted \cap (Done \cup Ended) = {}
  <2>1. draft \in [Requester -> Plan \cup {NoPlan}]
    BY OldPlans
  <2>2. p \in Plan
    BY <1>1, <2>1
  <2>3. p.id \in Drafted
    BY <1>1 DEF Drafted
  <2>4. QED  BY <2>1, <2>2, <2>3 DEF ExecutorInv, IdInv
<1>4. /\ \A q \in new : q = p \/ (q \in plans /\ q \notin gone)
      /\ gone \subseteq plans /\ new \subseteq plans \cup {p}
  OBVIOUS
<1>5. \A q \in new : q # p /\ p.origin # "" => q.origin # p.origin
  OBVIOUS
<1>6. new \in SUBSET Plan /\ IsFiniteSet(new)
  <2>1. IsFiniteSet(plans \cup {p})
    BY OldPlans, FS_AddElement
  <2>2. IsFiniteSet(new)
    BY <1>4, <2>1, FS_Subset
  <2>3. QED  BY <1>3, <1>4, <2>2, OldPlans
<1>7. /\ draft' \in [Requester -> Plan \cup {NoPlan}]
      /\ draft'[c] = NoPlan
      /\ \A b \in Requester : draft'[b] # NoPlan => b # c /\ draft'[b] = draft[b]
  BY <1>1, <1>3
<1>8. none \in Seq(Nat)
  OBVIOUS
<1> HIDE DEF none, new, gone
<1>9. WheelInv' /\ DeckInv' /\ PubInv' /\ DueInv'
  BY <1>1, <1>8, Unread, RegistryFrame
<1>10. Timed(p) /\ \A b \in Requester \ {c} : draft[b].timer # p.timer \/ p.timer = 0
  BY <1>1 DEF ExecutorInv, PlanInv
<1>11. PlanInv'
  <2>1. \A q \in new : q.kind = "deadline" => q.timer # 0
    BY <1>4, <1>10, OldPlans DEF Timed
  <2>2. ASSUME NEW q \in new, q.timer # 0
        PROVE  /\ q.timer \in guards /\ due[q.timer] = q.deadline
               /\ \A b \in Requester : draft'[b] # NoPlan => draft'[b].timer # q.timer
    <3>1. CASE q = p
      BY <1>7, <1>10, <2>2, <3>1 DEF Timed
    <3>2. CASE q \in plans
      BY <1>7, <2>2, <3>2, OldPlans
    <3>3. QED  BY <1>4, <3>1, <3>2
  <2>3. minted' = minted /\ \A b \in Requester : draft'[b] # NoPlan => draft'[b] = draft[b]
    BY <1>1, <1>7
  <2>4. QED  BY <1>1, <1>6, <1>7, <1>8, <2>1, <2>2, <2>3, RegistryPlans
<1>12. plans' = new /\ Done' = Done /\ acted' = acted
  BY <1>1 DEF Registry, Done
<1>13. \A q \in plans : q.id \in (1..minted) \ (Drafted \cup Done \cup Ended)
  BY DEF ExecutorInv, IdInv
<1>14. /\ Drafted' \subseteq Drafted /\ p.id \notin Drafted'
  <2>1. \A b \in Requester : draft'[b] # NoPlan => draft'[b].id \in Drafted /\ draft'[b].id # p.id
    BY <1>1, <1>7 DEF Drafted, ExecutorInv, IdInv
  <2>2. QED  BY <2>1 DEF Drafted
<1>15. /\ \A i \in ids : i \in (1..minted) \ (Drafted \cup Done \cup Ended)
       /\ \A q \in new : q.id \notin ids
  <2>1. \A o \in gone : o.id \in (1..minted) \ (Drafted \cup Done \cup Ended)
    BY <1>4, <1>13
  <2>2. ASSUME NEW q \in new, NEW o \in gone PROVE q.id # o.id
    BY <1>3, <1>4, <2>1, OldPlans
  <2>3. QED  BY <2>1, <2>2
<1> HIDE DEF ids
<1>16. IdInv'
  <2>1. \A q, r \in plans' : q.id = r.id => q = r
    BY <1>3, <1>4, <1>12, <1>13, OldPlans
  <2>2. \A a, b \in Requester : draft'[a] # NoPlan /\ draft'[a].id = draft'[b].id => a = b
    <3> SUFFICES ASSUME NEW a \in Requester, NEW b \in Requester, draft'[a] # NoPlan,
                        draft'[a].id = draft'[b].id
                 PROVE  a = b
      OBVIOUS
    <3>1. draft[a] # NoPlan /\ draft'[a] = draft[a] /\ draft[a].id \in Nat \ {0}
      BY <1>3, <1>7 DEF Plan
    <3>2. draft'[b] # NoPlan
      <4>1. NoPlan.id = 0
        BY DEF NoPlan
      <4>2. draft'[b].id # 0
        BY <3>1
      <4>3. QED  BY <4>1, <4>2
    <3>3. QED  BY <1>7, <3>1, <3>2 DEF ExecutorInv, IdInv
  <2>3. \A q \in plans' : q.id \in (1..minted') \ (Drafted' \cup Done' \cup Ended')
    <3>1. minted' = minted
      BY <1>1
    <3>2. ASSUME NEW q \in new PROVE q.id \in (1..minted) \ (Drafted' \cup Done \cup Ended \cup ids)
      BY <1>3, <1>4, <1>13, <1>14, <1>15
    <3>3. QED  BY <1>2, <1>12, <3>1, <3>2
  <2>4. /\ Drafted' \cup Done' \cup Ended' \subseteq 1..minted'
        /\ Drafted' \cap (Done' \cup Ended') = {} /\ Done' \cap Ended' = {}
    <3>1. /\ Drafted \cup Done \cup Ended \subseteq 1..minted
          /\ Drafted \cap (Done \cup Ended) = {} /\ Done \cap Ended = {}
      BY DEF ExecutorInv, IdInv
    <3>2. minted' = minted
      BY <1>1
    <3>3. QED  BY <1>2, <1>12, <1>14, <1>15, <3>1, <3>2
  <2>5. /\ nudges' \in Seq(1..minted')
        /\ \A i \in DOMAIN nudges' : 
              \/ nudges'[i] = p.id /\ p.kind = "immediate"
              \/ i \in DOMAIN nudges /\ nudges'[i] = nudges[i]
    <3>1. nudges \in Seq(1..minted) /\ minted' = minted /\ p.id \in 1..minted
      BY <1>1, <1>3, Unread
    <3>2. CASE p.kind = "immediate"
      BY <1>1, <3>1, <3>2, Appended
    <3>3. CASE p.kind # "immediate"
      BY <1>1, <3>1, <3>3
    <3>4. QED  BY <3>2, <3>3
  <2>6. ASSUME NEW i \in DOMAIN nudges'
        PROVE  /\ nudges'[i] \notin Drafted'
               /\ \A q \in plans' : q.id = nudges'[i] => q.kind = "immediate"
    <3>1. CASE nudges'[i] = p.id /\ p.kind = "immediate"
      <4>1. \A q \in new : q.id = p.id => q = p
        BY <1>3, <1>4, <1>13
      <4>2. QED  BY <1>12, <1>14, <3>1, <4>1
    <3>2. CASE i \in DOMAIN nudges /\ nudges'[i] = nudges[i]
      <4>1. nudges[i] \notin Drafted /\ \A q \in plans : q.id = nudges[i] => q.kind = "immediate"
        BY <3>2 DEF ExecutorInv, IdInv
      <4>2. QED  BY <1>3, <1>4, <1>12, <1>14, <3>2, <4>1
    <3>3. QED  BY <2>5, <3>1, <3>2
  <2>7. QED  BY <2>1, <2>2, <2>3, <2>4, <2>5, <2>6 DEF IdInv
<1>17. ActsOnce'
  <2>1. /\ \A a \in acted : ~a.again
        /\ \A a, b \in acted : a.plan.id = b.plan.id => a = b
    BY DEF ExecutorInv, ActsOnce
  <2>2. Done' \cap Ended' = {} /\ (Done' \cup Ended') \cap {q.id : q \in plans'} = {}
    BY <1>16 DEF IdInv
  <2>3. Done' = {a.plan.id : a \in acted'} /\ Ended' = {e.id : e \in ended'}
    BY DEF Done, Ended
  <2>4. QED  BY <1>12, <2>1, <2>2, <2>3 DEF ActsOnce
<1>18. OneOfEach'
  BY <1>4, <1>5, <1>12 DEF ExecutorInv, OneOfEach
<1>19. NeverEarly'
  BY <1>12 DEF ExecutorInv, NeverEarly
<1>20. QED  BY <1>9, <1>11, <1>16, <1>17, <1>18, <1>19 DEF ExecutorInv

\* A moment that is ahead.
LEMMA Ahead ==
    ASSUME NEW m \in Nat, NEW n \in Nat, NEW at \in (m + 1)..n
    PROVE  at \in Nat
OBVIOUS

\* What a sequence holds.
LEMMA MemberOf ==
    ASSUME NEW S, NEW s \in Seq(S), NEW i \in DOMAIN s
    PROVE  s[i] \in S
OBVIOUS

\* What a request may be validated into.
LEMMA TargetsType ==
    ASSUME DeckInv, NEW k \in Kinds, NEW q \in TargetsOf(k)
    PROVE  q \in MaybeEntry
<1>1. \A i \in DOMAIN queue : queue[i] \in Entry
  BY DEF DeckInv
<1>2. \/ q = NoEntry
      \/ q \in {queue[i] : i \in {j \in DOMAIN queue : current # 0 /\ j > current}}
      \/ q \in {queue[i] : i \in DOMAIN queue}
  BY DEF TargetsOf, Kinds
<1>3. QED  BY <1>1, <1>2 DEF MaybeEntry

\* One timer, armed by the preparation of a plan.
LEMMA PreparedArm ==
    ASSUME WheelInv, NEW at \in Nat, Arm(at), UNCHANGED <<clock, heap, live, firing, fires, rung>>
    PROVE  /\ WheelInv' /\ A!Change
           /\ due' = Append(due, at) /\ guards' = guards \cup {Len(due) + 1}
<1> DEFINE new == Len(due) + 1
           c == [op |-> "Arm", id |-> new]
           ds == <<at>>
           s == <<c>>
<1>1. /\ due \in Seq(Nat) /\ ctl \in Seq(TimerCmd) /\ guards \subseteq 1..Len(due)
      /\ Len(due) \in Nat
  BY DEF WheelInv, WheelTypeOK, TimerId
<1>2. due' = Append(due, at) /\ ctl' = Append(ctl, c) /\ guards' = guards \cup {new}
  BY <1>1, ArmSends DEF Arm
<1>3. c \in TimerCmd /\ c.op = "Arm" /\ c.id = new
  BY <1>1 DEF TimerCmd
<1> HIDE DEF c
<1>4. ctl' = ctl \o s /\ s \in Seq(TimerCmd) /\ DOMAIN s = {1} /\ s[1] = c
  <2>1. Append(ctl, c) = ctl \o <<c>>
    BY <1>1, <1>3
  <2>2. s \in Seq(TimerCmd) /\ DOMAIN s = {1} /\ s[1] = c
    BY <1>3
  <2>3. QED  BY <1>2, <2>1, <2>2
<1>5. due' = due \o ds /\ ds \in Seq(Nat) /\ Len(ds) = 1
  BY <1>1, <1>2
<1>6. guards' \subseteq 1..(Len(due) + 1) /\ new \in 1..(Len(due) + 1) /\ new > Len(due)
  <2>1. \A t \in 1..Len(due) : t \in 1..(Len(due) + 1)
    BY <1>1
  <2>2. new \in 1..(Len(due) + 1) /\ new > Len(due)
    BY <1>1
  <2>3. QED  BY <1>1, <1>2, <2>1, <2>2
<1> HIDE DEF s, ds
<1>7. Sends(ds, s)
  BY <1>3, <1>4, <1>5, <1>6 DEF Sends
<1>8. QED  BY <1>2, <1>7, SendsKeep

LEMMA InvPrepare ==
    ASSUME ExecutorInv, NEW c \in Requester, Prepare(c)
    PROVE  ExecutorInv' /\ (UNCHANGED wheelVars \/ A!Change)
<1>1. PICK r \in bounds.requests : \E q \in TargetsOf(r.kind) :
        \E at \in IF r.kind = "deadline" THEN (clock + 1)..bounds.time ELSE {0} :
          /\ draft' = [draft EXCEPT ![c] =
                [id |-> minted + 1, kind |-> r.kind, origin |-> r.origin, entry |-> q,
                 timer |-> IF r.kind = "deadline" THEN Len(due) + 1 ELSE 0, deadline |-> at]]
          /\ IF r.kind = "deadline"
             THEN Arm(at) /\ UNCHANGED <<clock, heap, live, firing, fires, rung>>
             ELSE UNCHANGED wheelVars
  BY DEF Prepare
<1>2. PICK q \in TargetsOf(r.kind),
           at \in IF r.kind = "deadline" THEN (clock + 1)..bounds.time ELSE {0} :
          /\ draft' = [draft EXCEPT ![c] =
                [id |-> minted + 1, kind |-> r.kind, origin |-> r.origin, entry |-> q,
                 timer |-> IF r.kind = "deadline" THEN Len(due) + 1 ELSE 0, deadline |-> at]]
          /\ IF r.kind = "deadline"
             THEN Arm(at) /\ UNCHANGED <<clock, heap, live, firing, fires, rung>>
             ELSE UNCHANGED wheelVars
  BY <1>1
<1> DEFINE timer == IF r.kind = "deadline" THEN Len(due) + 1 ELSE 0
           p == [id |-> minted + 1, kind |-> r.kind, origin |-> r.origin, entry |-> q,
                 timer |-> timer, deadline |-> at]
<1>3. /\ draft[c] = NoPlan /\ draft' = [draft EXCEPT ![c] = p] /\ minted' = minted + 1
      /\ UNCHANGED <<queueVars, deckVars, pubVars, plans, nudges, exec, acted, ended, worldVars>>
  BY <1>2 DEF Prepare
<1>4. /\ clock \in Nat /\ Len(due) \in Nat /\ minted \in Nat /\ bounds \in Scenario
      /\ due \in Seq(Nat) /\ guards \subseteq TimerId /\ fires \in Seq(TimerId)
  BY DEF ExecutorInv, WheelInv, WheelTypeOK, PlanInv, DeckInv
<1>5. r.kind \in Kinds /\ r.origin \in {"", "sleep"} /\ bounds.time \in Nat
  BY <1>4 DEF Scenario, Request
<1>6. at \in Nat
  <2>1. CASE r.kind = "deadline"
    <3>1. at \in (clock + 1)..bounds.time
      BY <2>1
    <3>2. QED  BY <1>4, <1>5, <3>1, Ahead
  <2>2. CASE r.kind # "deadline"
    BY <2>2
  <2>3. QED  BY <2>1, <2>2
<1>7. q \in MaybeEntry
  BY <1>5, TargetsType DEF ExecutorInv
<1>8. p \in Plan /\ p.id = minted + 1 /\ p.timer = timer /\ p.deadline = at /\ p.kind = r.kind
  <2>1. minted + 1 \in Nat \ {0} /\ timer \in Nat
    BY <1>4
  <2> HIDE DEF timer
  <2>2. QED  BY <1>5, <1>6, <1>7, <2>1 DEF Plan, MaybeEntry
<1>9. /\ WheelInv' /\ (UNCHANGED wheelVars \/ A!Change)
      /\ UNCHANGED <<clock, fires>>
      /\ \A t \in guards : t \in guards'
      /\ \A t \in TimerId : t \in TimerId' /\ due'[t] = due[t]
      /\ timer # 0 => timer \in guards' /\ timer \notin TimerId /\ due'[timer] = at
  <2>1. CASE r.kind = "deadline"
    <3>1. /\ WheelInv' /\ A!Change
          /\ due' = Append(due, at) /\ guards' = guards \cup {Len(due) + 1}
          /\ UNCHANGED <<clock, fires>>
      BY <1>2, <1>6, <2>1, PreparedArm DEF ExecutorInv
    <3>2. timer = Len(due) + 1
      BY <2>1
    <3>3. /\ \A t \in TimerId : t \in TimerId' /\ due'[t] = due[t]
          /\ Len(due) + 1 \notin TimerId /\ due'[Len(due) + 1] = at
      <4>1. /\ TimerId' = TimerId \cup {Len(due) + 1} /\ Len(due) + 1 \notin TimerId
            /\ \A t \in TimerId : due'[t] = due[t]
        BY <1>4, <1>6, <3>1, MintedGrow
      <4>2. due'[Len(due) + 1] = at
        BY <1>4, <1>6, <3>1
      <4>3. QED  BY <4>1, <4>2
    <3>4. QED  BY <3>1, <3>2, <3>3
  <2>2. CASE r.kind # "deadline"
    <3>1. UNCHANGED wheelVars
      BY <1>2, <2>2
    <3>2. UNCHANGED <<clock, fires, guards, due>>
      BY <3>1 DEF wheelVars
    <3>3. QED  BY <2>2, <3>1, <3>2, WheelStays DEF ExecutorInv, TimerId
  <2>3. QED  BY <2>1, <2>2
<1>10. r.kind = "deadline" => timer # 0
  BY <1>4
<1> HIDE DEF timer, p
<1>11. UNCHANGED <<trig, plans, nudges, exec, acted, ended>>
  BY <1>3 DEF pubVars
<1>12. DueInv'
  BY <1>9, <1>11, DueStays, Unread
<1>13. DeckInv' /\ PubInv'
  BY <1>3 DEF ExecutorInv, DeckInv, PubInv, queueVars, deckVars, pubVars, worldVars
<1>14. /\ draft' \in [Requester -> Plan \cup {NoPlan}]
       /\ draft'[c] = p
       /\ \A b \in Requester \ {c} : draft'[b] = draft[b]
  BY <1>3, <1>8, OldPlans
<1>15. \A t \in TimersOf(plans) : t \in guards /\ t \in TimerId
  BY TimersMinted
<1>16. p # NoPlan
  <2>1. p.id # 0
    BY <1>4, <1>8
  <2>2. NoPlan.id = 0
    BY DEF NoPlan
  <2>3. QED  BY <2>1, <2>2
<1>17. PlanInv'
  <2>1. ASSUME NEW o \in plans PROVE Timed(o)'
    BY <1>4, <1>9 DEF ExecutorInv, PlanInv, Timed
  <2>2. \A b \in Requester \ {c} : draft[b] # NoPlan =>
            draft[b].timer = 0 \/ (draft[b].timer \in guards /\ draft[b].timer \in TimerId)
    BY <1>4 DEF ExecutorInv, PlanInv, Timed
  <2>3. ASSUME NEW b \in Requester, draft'[b] # NoPlan
        PROVE  /\ Timed(draft[b])'
               /\ draft'[b].timer \notin TimersOf(plans)
               /\ \A a \in Requester \ {b} : draft'[a].timer # draft'[b].timer \/ draft'[b].timer = 0
    <3>1. CASE b = c
      <4>1. draft'[b] = p /\ p.timer = timer
        BY <1>8, <1>14, <3>1
      <4>2. Timed(draft[b])'
        BY <1>8, <1>9, <1>10, <4>1 DEF Timed
      <4>3. timer \notin TimersOf(plans)
        BY <1>9, <1>15 DEF TimersOf
      <4>4. \A a \in Requester \ {c} : draft[a].timer # timer \/ timer = 0
        <5>1. NoPlan.timer = 0
          BY DEF NoPlan
        <5>2. QED  BY <1>9, <2>2, <5>1
      <4>5. QED  BY <1>14, <3>1, <4>1, <4>2, <4>3, <4>4
    <3>2. CASE b # c
      <4>1. /\ draft'[b] = draft[b] /\ draft[b] # NoPlan /\ Timed(draft[b])
            /\ draft[b].timer \notin TimersOf(plans)
            /\ \A a \in Requester \ {b} : draft[a].timer # draft[b].timer \/ draft[b].timer = 0
        BY <1>14, <2>3, <3>2 DEF ExecutorInv, PlanInv
      <4>2. Timed(draft[b])'
        BY <1>4, <1>9, <4>1 DEF Timed
      <4>3. \A a \in Requester \ {b} : draft'[a].timer # draft[b].timer \/ draft[b].timer = 0
        <5>1. timer # draft[b].timer \/ draft[b].timer = 0
          BY <1>9, <2>2, <3>2, <4>1
        <5>2. QED  BY <1>8, <1>14, <4>1, <5>1
      <4>4. QED  BY <4>1, <4>2, <4>3
    <3>3. QED  BY <3>1, <3>2
  <2>4. /\ plans' \subseteq Plan /\ IsFiniteSet(plans)' /\ minted' \in Nat
        /\ TimersOf(plans)' = TimersOf(plans)
    BY <1>3, <1>4, <1>11, OldPlans DEF TimersOf
  <2>5. QED  BY <1>11, <1>14, <2>1, <2>3, <2>4 DEF PlanInv
<1>18. /\ Done' = Done /\ Ended' = Ended
       /\ \A i \in Drafted' : i \in Drafted \/ i = minted + 1
  <2>1. Done' = Done /\ Ended' = Ended
    BY <1>11 DEF Done, Ended
  <2>2. ASSUME NEW b \in Requester, draft'[b] # NoPlan PROVE draft'[b].id \in Drafted \/ draft'[b].id = minted + 1
    BY <1>8, <1>14, <2>2 DEF Drafted
  <2>3. QED  BY <2>1, <2>2 DEF Drafted
<1>19. /\ Drafted \cup Done \cup Ended \subseteq 1..minted
       /\ Drafted \cap (Done \cup Ended) = {} /\ Done \cap Ended = {}
       /\ \A o \in plans : o.id \in (1..minted) \ (Drafted \cup Done \cup Ended)
       /\ nudges \in Seq(1..minted)
       /\ \A i \in DOMAIN nudges : nudges[i] \notin Drafted /\ nudges[i] \in 1..minted
  <2>1. IdInv
    BY DEF ExecutorInv
  <2>2. nudges \in Seq(1..minted) /\ \A i \in DOMAIN nudges : nudges[i] \notin Drafted
    BY <2>1 DEF IdInv
  <2>3. \A i \in DOMAIN nudges : nudges[i] \in 1..minted
    BY <2>2, MemberOf
  <2>4. QED  BY <2>1, <2>2, <2>3 DEF IdInv
<1>20. minted + 1 \notin 1..minted /\ minted + 1 \in 1..(minted + 1) /\ 1..minted \subseteq 1..(minted + 1)
  BY <1>4
<1>21. IdInv'
  <2>1. \A o, s \in plans' : o.id = s.id => o = s
    BY <1>11, OldPlans
  <2>2. \A a, b \in Requester : draft'[a] # NoPlan /\ draft'[a].id = draft'[b].id => a = b
    <3> SUFFICES ASSUME NEW a \in Requester, NEW b \in Requester, draft'[a] # NoPlan,
                        draft'[a].id = draft'[b].id
                 PROVE  a = b
      OBVIOUS
    <3>1. NoPlan.id = 0 /\ 0 # minted + 1
      <4>1. 0 # minted + 1
        BY <1>4
      <4>2. QED  BY <4>1 DEF NoPlan
    <3>2. ASSUME NEW d \in Requester, d # c PROVE draft'[d].id # minted + 1
      <4>1. CASE draft[d] = NoPlan
        BY <1>14, <3>1, <3>2, <4>1
      <4>2. CASE draft[d] # NoPlan
        <5>1. draft[d].id \in Drafted
          BY <4>2 DEF Drafted
        <5>2. QED  BY <1>14, <1>19, <1>20, <3>2, <5>1
      <4>3. QED  BY <4>1, <4>2
    <3>3. CASE a = c \/ b = c
      BY <1>8, <1>14, <3>2, <3>3
    <3>4. CASE a # c /\ b # c
      BY <1>14, <3>4 DEF ExecutorInv, IdInv
    <3>5. QED  BY <3>3, <3>4
  <2>3. \A o \in plans' : o.id \in (1..minted') \ (Drafted' \cup Done' \cup Ended')
    BY <1>3, <1>11, <1>18, <1>19, <1>20
  <2>4. /\ Drafted' \cup Done' \cup Ended' \subseteq 1..minted'
        /\ Drafted' \cap (Done' \cup Ended') = {} /\ Done' \cap Ended' = {}
    <3>1. \A i \in Done \cup Ended : i # minted + 1
      BY <1>19, <1>20
    <3>2. QED  BY <1>3, <1>18, <1>19, <1>20, <3>1
  <2>5. nudges' \in Seq(1..minted')
    BY <1>3, <1>11, <1>19, <1>20
  <2>6. \A i \in DOMAIN nudges' :
          /\ nudges'[i] \notin Drafted'
          /\ \A o \in plans' : o.id = nudges'[i] => o.kind = "immediate"
    BY <1>11, <1>18, <1>19, <1>20 DEF ExecutorInv, IdInv
  <2>7. QED  BY <2>1, <2>2, <2>3, <2>4, <2>5, <2>6 DEF IdInv
<1>22. ActsOnce' /\ OneOfEach' /\ NeverEarly'
  BY <1>11 DEF ExecutorInv, ActsOnce, OneOfEach, NeverEarly
<1>23. QED  BY <1>9, <1>12, <1>13, <1>17, <1>21, <1>22 DEF ExecutorInv
-----------------------------------------------------------------------------
(* The invariant, and what follows from it. *)

LEMMA InvExecutorInit == ExecutorInit => ExecutorInv
<1> SUFFICES ASSUME ExecutorInit PROVE ExecutorInv
  OBVIOUS
<1>1. WheelInv /\ fires = << >>
  BY InvInit DEF ExecutorInit, WheelInit
<1>2. InitQueue \in Seq(Entry) /\ Len(InitQueue) \in Nat \ {0} /\ InitQueue[1] \in Entry
  BY ExecutorAssumption
<1>3. DeckInv
  BY <1>2, ExecutorAssumption DEF ExecutorInit, DeckInv, MaybeEntry
<1>4. PubInv
  <2>1. pub \in Publisher
    BY <1>2 DEF ExecutorInit, Publisher, MaybeEntry
  <2>2. Len(<< >>) <= BcastCap
    BY ExecutorAssumption
  <2>3. QED  BY <2>1, <2>2 DEF ExecutorInit, PubInv
<1>5. DueInv
  BY <1>1 DEF ExecutorInit, DueInv
<1>6. plans = {} /\ draft = [c \in Requester |-> NoPlan] /\ nudges = << >> /\ minted = 0
      /\ acted = {} /\ ended = {}
  BY DEF ExecutorInit
<1>7. PlanInv
  BY <1>6, FS_EmptySet DEF PlanInv
<1>8. Drafted = {} /\ Done = {} /\ Ended = {}
  BY <1>6 DEF Drafted, Done, Ended
<1>9. IdInv
  BY <1>6, <1>8 DEF IdInv
<1>10. ActsOnce /\ NeverEarly /\ OneOfEach
  BY <1>6 DEF ActsOnce, NeverEarly, OneOfEach
<1>11. QED  BY <1>1, <1>3, <1>4, <1>5, <1>7, <1>9, <1>10 DEF ExecutorInv

LEMMA InvExecutorNext == ExecutorInv /\ ExecutorNext => ExecutorInv'
<1> SUFFICES ASSUME ExecutorInv, ExecutorNext PROVE ExecutorInv'
  OBVIOUS
<1>1. CASE Executor
  BY <1>1, InvOnEvent, InvOnTick, InvOnImmediate DEF Executor
<1>2. CASE Spine
  BY <1>2, InvSpinePlaying, InvSpineAdvance, InvSpineFires DEF Spine
<1>3. CASE Source
  BY <1>3, InvSource
<1>4. CASE TimeGoesBy
  BY <1>4, InvTimeGoesBy
<1>5. CASE World
  <2>1. CASE SpinePaused \/ SpineResumed \/ SpineTimePos \/ SpineEof \/ PlayIndexReturns
    BY <2>1, InvSpinePaused, InvSpineResumed, InvSpineTimePos, InvSpineEof, InvPlayIndexReturns
  <2>2. CASE \E i \in DOMAIN queue : PlayIndex(i) \/ DeleteRow(i)
    BY <2>2, InvPlayIndex, InvDeleteRow
  <2>3. QED  BY <1>5, <2>1, <2>2 DEF World
<1>6. CASE Clients
  BY <1>6, InvPrepare, InvCommit, InvPlanCancel DEF Clients
<1>7. QED  BY <1>1, <1>2, <1>3, <1>4, <1>5, <1>6 DEF ExecutorNext

LEMMA InvExecutorStutter == ExecutorInv /\ UNCHANGED vars => ExecutorInv'
<1> SUFFICES ASSUME ExecutorInv, UNCHANGED vars PROVE ExecutorInv'
  OBVIOUS
<1>1. UNCHANGED wheelVars /\ UNCHANGED <<queueVars, deckVars, pubVars, planVars, worldVars>>
  BY DEF vars
<1>2. DeckInv'
  BY <1>1 DEF ExecutorInv, DeckInv, queueVars, deckVars, worldVars
<1>3. QED  BY <1>1, <1>2, SilentStep

\* Ids, deadlines and dues stay in order whatever clients ask, the world does,
\* and the executor reads first.
THEOREM ExecutorInvariant == ExecutorSpec => []ExecutorInv
<1>1. ExecutorInv /\ [ExecutorNext]_vars => ExecutorInv'
  BY InvExecutorNext, InvExecutorStutter
<1>2. QED  BY <1>1, InvExecutorInit, PTL DEF ExecutorSpec

\* Every variable stays in its type, and no plan waits on a timer whose guard is
\* gone (executor.rs, arm; timer.rs, Drop for TimerGuard).
THEOREM ExecutorTyped == ExecutorSpec => []ExecutorTypeOK
<1>1. ExecutorInv => ExecutorTypeOK
  <2> SUFFICES ASSUME ExecutorInv PROVE ExecutorTypeOK
    OBVIOUS
  <2>1. TimersOf(plans) \subseteq guards
    BY TimersMinted
  <2>2. QED  BY <2>1 DEF ExecutorTypeOK, ExecutorInv, WheelInv, DeckInv, PubInv, PlanInv, MaybeEntry
<1>2. QED  BY <1>1, ExecutorInvariant, PTL

\* A plan acts at most once, and never after it was cancelled, replaced or
\* reported as expired, in whatever order the executor reads its two streams
\* and clients race it (executor.rs, on_event; handler.rs, plan_cancel).
THEOREM PlansActOnce == ExecutorSpec => []ActsOnce
<1>1. ExecutorInv => ActsOnce
  BY DEF ExecutorInv
<1>2. QED  BY <1>1, ExecutorInvariant, PTL

\* A timed plan never acts before the deadline it is armed for, though fires of
\* the timers it had before are still on their way (executor.rs, on_event).
THEOREM PlansNeverEarly == ExecutorSpec => []NeverEarly
<1>1. ExecutorInv => NeverEarly
  BY DEF ExecutorInv
<1>2. QED  BY <1>1, ExecutorInvariant, PTL

\* A single-instance origin has one plan, however two requests race
\* (handler.rs, set_singleton).
THEOREM PlansOneOfEach == ExecutorSpec => []OneOfEach
<1>1. ExecutorInv => OneOfEach
  BY DEF ExecutorInv
<1>2. QED  BY <1>1, ExecutorInvariant, PTL

\* A step of the registry is a change of alarms.
LEMMA RegistryMaps ==
    ASSUME ExecutorInv, NEW new, NEW ds \in Seq(Nat), Registry(new, ds)
    PROVE  A!Change
BY RegistryKeeps, TimersMinted DEF ExecutorInv

\* Every step of the composition, seen from the alarms.
LEMMA ExecutorMaps ==
    ASSUME ExecutorInv, [ExecutorNext]_vars
    PROVE  [A!Next]_<<clock, due, Pending, rung>>
<1>1. ASSUME UNCHANGED <<clock, due, live, ctl, firing, rung>>
      PROVE  UNCHANGED <<clock, due, Pending, rung>>
  BY <1>1 DEF Pending, Queued
<1>2. << >> \in Seq(Nat)
  OBVIOUS
<1>3. CASE OnEvent
  <2> DEFINE ev == Head(trig)
             kept == plans \ {p \in plans : ev.version # exec.last /\ Orphaned(p)}
             ds == Deadlines(kept, ev)
  <2>1. trig # << >>
    BY <1>3 DEF OnEvent
  <2>2. ev \in Event
    BY <2>1, Unread, Taken
  <2>3. \E new : Registry(new, ds)
    BY <1>3 DEF OnEvent
  <2>4. kept \in SUBSET plans
    OBVIOUS
  <2> HIDE DEF ev, kept
  <2>5. ds \in Seq(Nat)
    BY <2>2, <2>4, MaintainedIs
  <2> HIDE DEF ds
  <2>6. QED  BY <2>3, <2>5, RegistryMaps DEF A!Next
<1>4. CASE OnTick
  <2> DEFINE ev == Head(bcast)
             ds == Deadlines(plans, ev)
  <2>1. bcast # << >>
    BY <1>4 DEF OnTick
  <2>2. ev \in Event
    BY <2>1, Unread, Taken
  <2>3. \E new : Registry(new, ds)
    BY <1>4 DEF OnTick
  <2> HIDE DEF ev
  <2>4. ds \in Seq(Nat)
    BY <2>2, MaintainedIs
  <2> HIDE DEF ds
  <2>5. QED  BY <2>3, <2>4, RegistryMaps DEF A!Next
<1>5. CASE OnImmediate \/ (\E c \in Requester : Commit(c)) \/ (\E p \in plans : PlanCancel(p))
  <2> DEFINE none == << >>
  <2>1. \E new : Registry(new, none)
    BY <1>5 DEF OnImmediate, Commit, PlanCancel
  <2>2. none \in Seq(Nat)
    OBVIOUS
  <2> HIDE DEF none
  <2>3. QED  BY <2>1, <2>2, RegistryMaps DEF A!Next
<1>6. CASE \E c \in Requester : Prepare(c)
  <2>1. UNCHANGED wheelVars \/ A!Change
    BY <1>6, InvPrepare
  <2>2. QED  BY <1>1, <2>1 DEF A!Next, wheelVars
<1>7. CASE Source
  BY <1>7, PendingApplyCmd, PendingSleepEnds, PendingFire
     DEF Source, Wheel, ExecutorInv, ApplyCmd, SleepEnds, A!Next
<1>8. CASE SpineFires
  BY <1>1, <1>8 DEF SpineFires
<1>9. CASE TimeGoesBy
  <2>1. clock' = clock + 1 /\ UNCHANGED <<due, live, ctl, firing, rung>>
    BY <1>9 DEF TimeGoesBy, Pass
  <2>2. UNCHANGED Pending
    BY <2>1 DEF Pending, Queued
  <2>3. QED  BY <2>1, <2>2 DEF A!Next, A!Pass
<1>10. CASE UNCHANGED wheelVars
  BY <1>1, <1>10 DEF wheelVars
<1>11. CASE SpinePlaying \/ SpineAdvance \/ World \/ UNCHANGED vars
  <2>1. UNCHANGED wheelVars
    BY <1>11 DEF SpinePlaying, SpineAdvance, World, SpinePaused, SpineResumed, SpineTimePos,
                 SpineEof, PlayIndexReturns, PlayIndex, DeleteRow, vars
  <2>2. QED  BY <1>10, <2>1
<1>12. QED
  BY <1>3, <1>4, <1>5, <1>6, <1>7, <1>8, <1>9, <1>11
     DEF ExecutorNext, Executor, Spine, Clients

\* With plans as its callers and the spine as its reader, the timer source still
\* implements Alarms: the executor, which arms and drops several timers in one
\* lock scope, never asks of it what it does not promise.
THEOREM ExecutorImplementsAlarms == ExecutorSpec => ImplementsAlarms
<1>1. ExecutorInit => A!Init
  BY DEF ExecutorInit, WheelInit, A!Init, Pending, Queued
<1>2. QED
  BY <1>1, ExecutorMaps, ExecutorInvariant, PTL DEF ExecutorSpec, ImplementsAlarms, A!Spec
=============================================================================
