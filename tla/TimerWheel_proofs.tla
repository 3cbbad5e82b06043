-------------------------- MODULE TimerWheel_proofs --------------------------
(***************************************************************************)
(* The timer source of TimerWheel implements Alarms, for every bound on    *)
(* the clock and on the timers.  The invariant that carries it says how    *)
(* the two places an id can be in, the control channel and the heap,       *)
(* exclude and order each other.                                           *)
(***************************************************************************)
EXTENDS TimerWheel, TLAPS

\* Commands speak of minted ids, an id is armed by one command, and no Cancel
\* of it comes before that.
ChannelInv ==
    /\ \A i \in DOMAIN ctl : ctl[i].id \in TimerId
    /\ \A i, j \in DOMAIN ctl :
          ctl[i].op = "Arm" /\ ctl[j].op = "Arm" /\ ctl[i].id = ctl[j].id => i = j
    /\ \A i, j \in DOMAIN ctl :
          ctl[i].op = "Cancel" /\ ctl[j].op = "Arm" /\ ctl[i].id = ctl[j].id => j < i

\* What is still to be armed is in neither heap nor live-set; an entry is live
\* or behind a live one; the sleep that has ended is a live timer's, and due.
HeapInv ==
    /\ \A i \in DOMAIN ctl : ctl[i].op = "Arm" => ctl[i].id \notin heap
    /\ \A i \in heap : i \in live \/ \E j \in heap \cap live : Before(j, i)
    /\ firing # 0 => firing \in live /\ due[firing] <= clock

WheelInv == WheelTypeOK /\ ChannelInv /\ HeapInv
-----------------------------------------------------------------------------
\* Reaping keeps what is live and leaves nothing in front of it.
LEMMA ReapedLeaves ==
    ASSUME NEW h, NEW l
    PROVE  /\ Reaped(h, l) \subseteq h
           /\ h \cap l \subseteq Reaped(h, l)
           /\ \A i \in Reaped(h, l) :
                 i \in l \/ \E j \in Reaped(h, l) \cap l : Before(j, i)
BY DEF Reaped

\* The entry at the top of the heap is live.
LEMMA TopIsLive ==
    ASSUME WheelInv, NEW id, IsTop(id, heap)
    PROVE  id \in live
<1>1. due \in [TimerId -> Nat] /\ heap \subseteq TimerId /\ TimerId \subseteq Nat
  BY DEF WheelInv, WheelTypeOK, TimerId
<1>2. SUFFICES ASSUME NEW j \in heap \cap live, Before(j, id) PROVE FALSE
  BY DEF WheelInv, HeapInv, IsTop
<1>3. CASE j = id
  BY <1>1, <1>2, <1>3 DEF Before
<1>4. CASE j # id
  BY <1>1, <1>2, <1>4 DEF Before, IsTop
<1>5. QED  BY <1>3, <1>4

\* What is left of a channel whose head was taken.
LEMMA TailOfChannel ==
    ASSUME ctl \in Seq(TimerCmd), ctl # << >>
    PROVE  /\ Tail(ctl) \in Seq(TimerCmd)
           /\ Head(ctl) = ctl[1] /\ ctl[1] \in TimerCmd /\ 1 \in DOMAIN ctl
           /\ \A i \in DOMAIN Tail(ctl) :
                 i \in Nat /\ i + 1 \in DOMAIN ctl /\ i + 1 # 1 /\ Tail(ctl)[i] = ctl[i + 1]
           /\ \A i \in DOMAIN ctl : i = 1 \/ (i - 1 \in DOMAIN Tail(ctl)
                                              /\ Tail(ctl)[i - 1] = ctl[i])
OBVIOUS

\* A channel with one command more.
LEMMA GrownChannel ==
    ASSUME ctl \in Seq(TimerCmd), NEW c \in TimerCmd, NEW s, s = Append(ctl, c)
    PROVE  /\ s \in Seq(TimerCmd)
           /\ DOMAIN s = DOMAIN ctl \cup {Len(ctl) + 1}
           /\ s[Len(ctl) + 1] = c
           /\ \A i \in DOMAIN ctl : i \in Nat /\ i < Len(ctl) + 1 /\ s[i] = ctl[i]
OBVIOUS

\* TimerHandle::arm, seen from the channel and the minted ids.
LEMMA ArmSends ==
    ASSUME due \in Seq(Nat), ctl \in Seq(TimerCmd), NEW d \in Nat, ArmEach(<<d>>)
    PROVE  /\ due' = Append(due, d)
           /\ ctl' = Append(ctl, [op |-> "Arm", id |-> Len(due) + 1])
<1> DEFINE n == Len(due)
           s == [k \in 1..Len(<<d>>) |-> [op |-> "Arm", id |-> n + k]]
           c == [op |-> "Arm", id |-> n + 1]
<1>1. s = <<c>>
  <2>1. n \in Nat /\ Len(<<d>>) = 1
    OBVIOUS
  <2>2. s = [k \in 1..1 |-> c]
    BY <2>1
  <2>3. QED  BY <2>2
<1>2. c \in TimerCmd
  BY DEF TimerCmd
<1>3. ctl' = ctl \o <<c>> /\ due' = due \o <<d>>
  BY <1>1 DEF ArmEach
<1> HIDE DEF c
<1>4. ctl \o <<c>> = Append(ctl, c)
  BY <1>2
<1>5. due \o <<d>> = Append(due, d)
  OBVIOUS
<1>6. QED  BY <1>3, <1>4, <1>5 DEF c

\* The minted ids after one more was.
LEMMA MintedGrow ==
    ASSUME due \in Seq(Nat), NEW d \in Nat, due' = Append(due, d)
    PROVE  /\ due' \in Seq(Nat)
           /\ TimerId' = TimerId \cup {Len(due) + 1}
           /\ Len(due) + 1 \notin TimerId
           /\ \A i \in TimerId : i \in Nat /\ i # 0 /\ due'[i] = due[i]
           /\ Len(due) <= Len(due')
           /\ SubSeq(due', 1, Len(due)) = due
           /\ Len(due) + 1 \in (Len(due) + 1)..Len(due')
BY DEF TimerId

\* Minting leaves the order of the older ids alone.
LEMMA OrderStays ==
    ASSUME due \in Seq(Nat), NEW d \in Nat, due' = Append(due, d),
           NEW i \in TimerId, NEW j \in TimerId
    PROVE  Before(i, j)' <=> Before(i, j)
BY MintedGrow DEF Before
-----------------------------------------------------------------------------
LEMMA InvInit == WheelInit => WheelInv
BY DEF WheelInit, WheelInv, WheelTypeOK, ChannelInv, HeapInv, TimerId, TimerCmd

\* A command taken off the channel.
LEMMA InvApplyCmd == WheelInv /\ ApplyCmd => WheelInv'
<1> SUFFICES ASSUME WheelInv, ApplyCmd PROVE WheelInv'
  OBVIOUS
<1> DEFINE cmd == Head(ctl)
           l == IF cmd.op = "Arm" THEN live \cup {cmd.id} ELSE live \ {cmd.id}
           h == IF cmd.op = "Arm" THEN heap \cup {cmd.id} ELSE heap
<1>1. /\ live' = l /\ heap' = Reaped(h, l) /\ ctl' = Tail(ctl) /\ firing = 0
      /\ UNCHANGED <<clock, due, guards, firing, fires, rung>>
  BY DEF ApplyCmd
<1>2. /\ ctl \in Seq(TimerCmd) /\ ctl # << >>
      /\ heap \subseteq TimerId /\ live \subseteq heap
  BY DEF WheelInv, WheelTypeOK, ApplyCmd
<1>3. cmd = ctl[1] /\ cmd \in TimerCmd /\ 1 \in DOMAIN ctl /\ cmd.id \in TimerId
  BY <1>2, TailOfChannel DEF WheelInv, ChannelInv
<1>5. h \subseteq TimerId /\ l \subseteq h
  BY <1>2, <1>3
<1>6. heap' \subseteq h /\ h \cap l \subseteq heap'
      /\ \A i \in heap' : i \in l \/ \E j \in heap' \cap l : Before(j, i)
  <2> HIDE DEF h, l
  <2>1. QED  BY <1>1, ReapedLeaves
<1>7. TimerId' = TimerId /\ \A i, j : Before(i, j)' <=> Before(i, j)
  BY <1>1 DEF TimerId, Before
<1>8. WheelTypeOK'
  <2>1. ctl' \in Seq(TimerCmd)
    BY <1>1, <1>2, TailOfChannel
  <2>2. heap' \subseteq TimerId /\ live' \subseteq heap'
    BY <1>1, <1>5, <1>6
  <2>3. QED
    BY <1>1, <1>7, <2>1, <2>2 DEF WheelInv, WheelTypeOK
<1>9. ChannelInv'
  BY <1>1, <1>2, <1>7, TailOfChannel DEF WheelInv, ChannelInv
<1>10. HeapInv'
  <2>1. ASSUME NEW i \in DOMAIN ctl', ctl'[i].op = "Arm" PROVE ctl'[i].id \notin heap'
    <3>1. i + 1 \in DOMAIN ctl /\ i + 1 # 1 /\ ctl'[i] = ctl[i + 1]
      BY <1>1, <1>2, <2>1, TailOfChannel
    <3>2. ctl[i + 1].id \notin heap
      BY <2>1, <3>1 DEF WheelInv, HeapInv
    <3>3. cmd.op = "Arm" => ctl[i + 1].id # cmd.id
      BY <1>3, <2>1, <3>1 DEF WheelInv, ChannelInv
    <3>4. QED  BY <1>6, <3>1, <3>2, <3>3
  <2>2. \A i \in heap' : i \in live' \/ \E j \in heap' \cap live' : Before(j, i)'
    BY <1>1, <1>6, <1>7
  <2>3. QED  BY <1>1, <2>1, <2>2 DEF HeapInv
<1>11. QED  BY <1>8, <1>9, <1>10 DEF WheelInv

\* A sleep that is over.
LEMMA InvSleepEnds == WheelInv /\ SleepEnds => WheelInv'
<1> SUFFICES ASSUME WheelInv, SleepEnds PROVE WheelInv'
  OBVIOUS
<1>1. PICK id \in heap : IsTop(id, heap) /\ due[id] <= clock /\ firing' = id
  BY DEF SleepEnds
<1>2. UNCHANGED <<clock, due, guards, ctl, heap, live, fires, rung>>
  BY DEF SleepEnds
<1>3. id \in live /\ id \in TimerId
  BY <1>1, TopIsLive DEF WheelInv, WheelTypeOK
<1>4. TimerId' = TimerId /\ \A i, j : Before(i, j)' <=> Before(i, j)
  BY <1>2 DEF TimerId, Before
<1>5. WheelTypeOK'
  BY <1>1, <1>2, <1>3, <1>4 DEF WheelInv, WheelTypeOK
<1>6. ChannelInv'
  BY <1>2, <1>4 DEF WheelInv, ChannelInv
<1>7. HeapInv'
  BY <1>1, <1>2, <1>3, <1>4 DEF WheelInv, HeapInv
<1>8. QED  BY <1>5, <1>6, <1>7 DEF WheelInv

\* An entry served.
LEMMA InvFire == WheelInv /\ Fire => WheelInv'
<1> SUFFICES ASSUME WheelInv, Fire PROVE WheelInv'
  OBVIOUS
<1>1. /\ live' = live \ {firing} /\ heap' = Reaped(heap \ {firing}, live')
      /\ firing # 0 /\ firing' = 0 /\ UNCHANGED <<clock, due, guards, ctl>>
  BY DEF Fire
<1>2. firing \in live /\ firing \in TimerId
  BY <1>1 DEF WheelInv, WheelTypeOK, HeapInv
<1>3. fires' = Append(fires, firing) /\ rung' = rung \cup {firing}
  BY <1>2 DEF Fire
<1>4. heap' \subseteq heap \ {firing} /\ (heap \ {firing}) \cap live' \subseteq heap'
      /\ \A i \in heap' : i \in live' \/ \E j \in heap' \cap live' : Before(j, i)
  BY <1>1, ReapedLeaves
<1>5. TimerId' = TimerId /\ \A i, j : Before(i, j)' <=> Before(i, j)
  BY <1>1 DEF TimerId, Before
<1>6. WheelTypeOK'
  <2>1. fires' \in Seq(TimerId) /\ rung' \subseteq TimerId
    BY <1>2, <1>3 DEF WheelInv, WheelTypeOK
  <2>2. heap' \subseteq TimerId /\ live' \subseteq heap'
    BY <1>1, <1>4 DEF WheelInv, WheelTypeOK
  <2>3. QED
    BY <1>1, <1>5, <2>1, <2>2 DEF WheelInv, WheelTypeOK
<1>7. ChannelInv'
  BY <1>1, <1>5 DEF WheelInv, ChannelInv
<1>8. HeapInv'
  BY <1>1, <1>4, <1>5 DEF WheelInv, HeapInv
<1>9. QED  BY <1>6, <1>7, <1>8 DEF WheelInv

\* A caller's arm or cancel.
LEMMA InvCaller == WheelInv /\ Caller => WheelInv'
<1> SUFFICES ASSUME WheelInv, Caller PROVE WheelInv'
  OBVIOUS
<1>1. UNCHANGED <<clock, heap, live, firing, fires, rung>>
  BY DEF Caller
<1>2. due \in Seq(Nat) /\ ctl \in Seq(TimerCmd) /\ heap \subseteq TimerId
  BY DEF WheelInv, WheelTypeOK
<1>3. CASE \E d \in 0..MaxTime : Arm(d)
  <2>1. PICK d \in Nat : ArmEach(<<d>>) /\ guards' = guards \cup {Len(due) + 1}
    BY <1>3, WheelAssumption DEF Arm
  <2> DEFINE new == Len(due) + 1
             c == [op |-> "Arm", id |-> new]
  <2>2. due' = Append(due, d) /\ ctl' = Append(ctl, c)
    BY <1>2, <2>1, ArmSends
  <2>3. /\ due' \in Seq(Nat) /\ TimerId' = TimerId \cup {new} /\ new \notin TimerId
        /\ \A i \in TimerId : i # 0 /\ due'[i] = due[i]
    BY <1>2, <2>2, MintedGrow
  <2>4. c \in TimerCmd
    BY <1>2 DEF TimerCmd
  <2>5. /\ ctl' \in Seq(TimerCmd)
        /\ DOMAIN ctl' = DOMAIN ctl \cup {Len(ctl) + 1}
        /\ ctl'[Len(ctl) + 1] = c
        /\ \A i \in DOMAIN ctl : i \in Nat /\ i < Len(ctl) + 1 /\ ctl'[i] = ctl[i]
    <3> HIDE DEF c
    <3>1. QED  BY <1>2, <2>2, <2>4, GrownChannel
  <2>6. c.op = "Arm" /\ c.id = new
    OBVIOUS
  <2>7. \A i \in DOMAIN ctl : ctl[i].id # new
    BY <2>3 DEF WheelInv, ChannelInv
  <2> HIDE DEF c, new
  <2>8. WheelTypeOK'
    <3>1. /\ guards' \subseteq TimerId' /\ heap' \subseteq TimerId' /\ live' \subseteq heap'
          /\ firing' \in TimerId' \cup {0} /\ rung' \subseteq TimerId'
      BY <1>1, <1>2, <2>1, <2>3 DEF WheelInv, WheelTypeOK, new
    <3>2. fires' \in Seq(TimerId') /\ clock' \in Nat
      BY <1>1, <2>3 DEF WheelInv, WheelTypeOK
    <3>3. QED  BY <2>3, <2>5, <3>1, <3>2 DEF WheelTypeOK, TimerCmd
  <2>9. ChannelInv'
    BY <1>2, <2>3, <2>5, <2>6, <2>7 DEF WheelInv, ChannelInv
  <2>10. HeapInv'
    <3>1. \A i \in DOMAIN ctl' : ctl'[i].op = "Arm" => ctl'[i].id \notin heap'
      BY <1>1, <1>2, <2>3, <2>5, <2>6 DEF WheelInv, HeapInv
    <3>2. \A i \in heap' : i \in live' \/ \E j \in heap' \cap live' : Before(j, i)'
      BY <1>1, <1>2, <2>2, OrderStays DEF WheelInv, HeapInv
    <3>3. firing' # 0 => firing' \in live' /\ due'[firing'] <= clock'
      BY <1>1, <1>2, <2>3 DEF WheelInv, WheelTypeOK, HeapInv
    <3>4. QED  BY <3>1, <3>2, <3>3 DEF HeapInv
  <2>11. QED  BY <2>8, <2>9, <2>10 DEF WheelInv
<1>4. CASE \E id \in guards : DropGuard(id)
  <2>1. PICK id \in guards : DropGuard(id)
    BY <1>4
  <2> DEFINE c == [op |-> "Cancel", id |-> id]
  <2>2. guards' = guards \ {id} /\ ctl' = Append(ctl, c) /\ due' = due
    BY <2>1 DEF DropGuard
  <2>3. id \in TimerId /\ c \in TimerCmd /\ c.op = "Cancel" /\ c.id = id
    BY <1>2 DEF WheelInv, WheelTypeOK, TimerId, TimerCmd
  <2> HIDE DEF c
  <2>4. /\ ctl' \in Seq(TimerCmd)
        /\ DOMAIN ctl' = DOMAIN ctl \cup {Len(ctl) + 1}
        /\ ctl'[Len(ctl) + 1] = c
        /\ \A i \in DOMAIN ctl : i \in Nat /\ i < Len(ctl) + 1 /\ ctl'[i] = ctl[i]
    BY <1>2, <2>2, <2>3, GrownChannel
  <2>5. TimerId' = TimerId /\ \A i, j : Before(i, j)' <=> Before(i, j)
    BY <2>2 DEF TimerId, Before
  <2>6. WheelTypeOK'
    BY <1>1, <2>2, <2>4, <2>5 DEF WheelInv, WheelTypeOK, TimerCmd
  <2>7. ChannelInv'
    BY <1>2, <2>3, <2>4, <2>5 DEF WheelInv, ChannelInv
  <2>8. HeapInv'
    BY <1>1, <2>2, <2>3, <2>4, <2>5 DEF WheelInv, HeapInv
  <2>9. QED  BY <2>6, <2>7, <2>8 DEF WheelInv
<1>5. QED  BY <1>3, <1>4 DEF Caller

\* The reader of the fires, the clock, and no step at all.
LEMMA InvReader == WheelInv /\ Reader => WheelInv'
<1> SUFFICES ASSUME WheelInv, Reader PROVE WheelInv'
  OBVIOUS
<1>1. /\ UNCHANGED <<clock, due, guards, ctl, heap, live, firing, rung>>
      /\ fires # << >> /\ fires' = Tail(fires)
  BY DEF Reader
<1>2. TimerId' = TimerId /\ \A i, j : Before(i, j)' <=> Before(i, j)
  BY <1>1 DEF TimerId, Before
<1>3. fires' \in Seq(TimerId)
  BY <1>1 DEF WheelInv, WheelTypeOK
<1>4. WheelTypeOK'
  BY <1>1, <1>2, <1>3 DEF WheelInv, WheelTypeOK
<1>5. QED  BY <1>1, <1>2, <1>4 DEF WheelInv, ChannelInv, HeapInv

LEMMA InvPass == WheelInv /\ Pass => WheelInv'
<1> SUFFICES ASSUME WheelInv, Pass PROVE WheelInv'
  OBVIOUS
<1>1. clock' = clock + 1 /\ UNCHANGED <<due, guards, ctl, heap, live, firing, fires, rung>>
  BY DEF Pass
<1>2. TimerId' = TimerId /\ \A i, j : Before(i, j)' <=> Before(i, j)
  BY <1>1 DEF TimerId, Before
<1>3. WheelTypeOK'
  BY <1>1, <1>2 DEF WheelInv, WheelTypeOK
<1>4. firing' # 0 => firing' \in live' /\ due'[firing'] <= clock'
  <2>1. ASSUME firing # 0 PROVE due[firing] \in Nat /\ clock \in Nat
    BY <2>1 DEF WheelInv, WheelTypeOK, TimerId
  <2>2. QED  BY <1>1, <2>1 DEF WheelInv, HeapInv
<1>5. QED  BY <1>1, <1>2, <1>3, <1>4 DEF WheelInv, ChannelInv, HeapInv

LEMMA InvStutter == WheelInv /\ UNCHANGED wheelVars => WheelInv'
BY DEF WheelInv, WheelTypeOK, ChannelInv, HeapInv, TimerId, Before, wheelVars

\* The channel and the heap stay in order, and their types with them, whatever
\* the callers of timer.rs arm and drop.
THEOREM WheelInvariant == WheelSpec => []WheelInv
<1>1. WheelInv /\ [WheelNext]_wheelVars => WheelInv'
  BY InvApplyCmd, InvSleepEnds, InvFire, InvCaller, InvReader, InvPass, InvStutter
     DEF WheelNext, Wheel
<1>2. QED  BY <1>1, InvInit, PTL DEF WheelSpec
-----------------------------------------------------------------------------
LEMMA QueuedIs ==
    ASSUME NEW op
    PROVE  \A id : id \in Queued(op) <=> \E i \in DOMAIN ctl : ctl[i].op = op /\ ctl[i].id = id
BY DEF Queued

\* Taking a command leaves the set of timers that may still ring as it was.
LEMMA PendingApplyCmd == WheelInv /\ ApplyCmd => Pending' = Pending
<1> SUFFICES ASSUME WheelInv, ApplyCmd PROVE Pending' = Pending
  OBVIOUS
<1> DEFINE cmd == Head(ctl)
<1>1. /\ live' = IF cmd.op = "Arm" THEN live \cup {cmd.id} ELSE live \ {cmd.id}
      /\ ctl' = Tail(ctl) /\ firing = 0 /\ firing' = 0 /\ ctl # << >>
  BY DEF ApplyCmd
<1>2. /\ cmd = ctl[1] /\ cmd.op \in {"Arm", "Cancel"} /\ 1 \in DOMAIN ctl
      /\ \A i \in DOMAIN ctl' : i + 1 \in DOMAIN ctl /\ i + 1 # 1 /\ ctl'[i] = ctl[i + 1]
      /\ \A i \in DOMAIN ctl : i = 1 \/ (i - 1 \in DOMAIN ctl' /\ ctl'[i - 1] = ctl[i])
  BY <1>1, TailOfChannel DEF WheelInv, WheelTypeOK, TimerCmd
<1> HIDE DEF cmd
<1>3. ASSUME NEW op PROVE Queued(op) = Queued(op)' \cup (IF cmd.op = op THEN {cmd.id} ELSE {})
  <2>1. \A id : id \in Queued(op)' <=> \E i \in DOMAIN ctl' : ctl'[i].op = op /\ ctl'[i].id = id
    BY DEF Queued
  <2>2. \A id \in Queued(op)' : id \in Queued(op)
    BY <1>2, <2>1, QueuedIs
  <2>3. cmd.op = op => cmd.id \in Queued(op)
    BY <1>2, QueuedIs
  <2>4. \A id \in Queued(op) : id \in Queued(op)' \/ (cmd.op = op /\ id = cmd.id)
    BY <1>2, <2>1, QueuedIs
  <2>5. QED  BY <2>2, <2>3, <2>4
<1>4. CASE cmd.op = "Arm"
  <2>1. Queued("Arm") = Queued("Arm")' \cup {cmd.id} /\ Queued("Cancel") = Queued("Cancel")'
    BY <1>3, <1>4
  <2>2. live' = live \cup {cmd.id}
    BY <1>1, <1>4
  <2>3. QED  BY <1>1, <2>1, <2>2 DEF Pending
<1>5. CASE cmd.op = "Cancel"
  <2>1. Queued("Cancel") = Queued("Cancel")' \cup {cmd.id} /\ Queued("Arm") = Queued("Arm")'
    BY <1>3, <1>5
  <2>2. live' = live \ {cmd.id}
    BY <1>1, <1>5
  <2>3. cmd.id \notin Queued("Arm")
    <3>1. ASSUME NEW i \in DOMAIN ctl, ctl[i].op = "Arm", ctl[i].id = cmd.id PROVE FALSE
      <4>1. i < 1
        BY <1>2, <1>5, <3>1 DEF WheelInv, ChannelInv
      <4>2. i \in Nat /\ i # 0
        BY DEF WheelInv, WheelTypeOK
      <4>3. QED  BY <4>1, <4>2
    <3>2. QED  BY <3>1, QueuedIs
  <2>4. QED  BY <1>1, <2>1, <2>2, <2>3 DEF Pending
<1>6. QED  BY <1>2, <1>4, <1>5

\* A sleep ends only for a timer that may still ring.
LEMMA PendingSleepEnds == WheelInv /\ SleepEnds => Pending' = Pending
<1> SUFFICES ASSUME WheelInv, SleepEnds PROVE Pending' = Pending
  OBVIOUS
<1>1. PICK id \in heap : IsTop(id, heap) /\ firing' = id
  BY DEF SleepEnds
<1>2. ctl = << >> /\ firing = 0 /\ ctl' = ctl /\ live' = live
  BY DEF SleepEnds
<1>3. id \in live /\ id # 0
  BY <1>1, TopIsLive DEF WheelInv, WheelTypeOK, TimerId
<1>4. \A op : Queued(op) = {} /\ Queued(op)' = {}
  BY <1>2 DEF Queued
<1>5. QED  BY <1>1, <1>2, <1>3, <1>4 DEF Pending

\* What fires was due, may have rung until now, and may not ring again.
LEMMA PendingFire == WheelInv /\ Fire => A!Ring
<1> SUFFICES ASSUME WheelInv, Fire PROVE A!Ring
  OBVIOUS
<1>1. firing # 0 /\ firing \in live /\ due[firing] <= clock
  BY DEF Fire, WheelInv, HeapInv
<1>2. /\ live' = live \ {firing} /\ firing' = 0 /\ rung' = rung \cup {firing}
      /\ UNCHANGED <<clock, due, ctl>>
  BY <1>1 DEF Fire
<1>3. \A op : Queued(op)' = Queued(op)
  BY <1>2 DEF Queued
<1>4. firing \notin Queued("Arm")
  BY <1>1, QueuedIs DEF WheelInv, WheelTypeOK, HeapInv
<1>5. Pending' = Pending \ {firing} /\ firing \in Pending
  BY <1>1, <1>2, <1>3, <1>4 DEF Pending
<1>6. QED  BY <1>1, <1>2, <1>5 DEF A!Ring

\* Callers set new alarms and clear old ones.
LEMMA PendingCaller == WheelInv /\ Caller => A!Change
<1> SUFFICES ASSUME WheelInv, Caller PROVE A!Change
  OBVIOUS
<1>1. UNCHANGED <<clock, heap, live, firing, fires, rung>>
  BY DEF Caller
<1>2. due \in Seq(Nat) /\ ctl \in Seq(TimerCmd)
  BY DEF WheelInv, WheelTypeOK
<1>3. ASSUME NEW op
      PROVE \A id : id \in Queued(op)' <=> \E i \in DOMAIN ctl' : ctl'[i].op = op /\ ctl'[i].id = id
  BY DEF Queued
<1>4. CASE \E d \in 0..MaxTime : Arm(d)
  <2>1. PICK d \in Nat : ArmEach(<<d>>)
    BY <1>4, WheelAssumption DEF Arm
  <2> DEFINE new == Len(due) + 1
             c == [op |-> "Arm", id |-> new]
  <2>2. due' = Append(due, d) /\ ctl' = Append(ctl, c)
    BY <1>2, <2>1, ArmSends
  <2>3. c \in TimerCmd /\ c.op = "Arm" /\ c.id = new
    BY <1>2 DEF TimerCmd
  <2>4. /\ Len(due) <= Len(due') /\ SubSeq(due', 1, Len(due)) = due
        /\ new \in (Len(due) + 1)..Len(due')
    BY <1>2, <2>2, MintedGrow
  <2> HIDE DEF c
  <2>5. /\ DOMAIN ctl' = DOMAIN ctl \cup {Len(ctl) + 1}
        /\ ctl'[Len(ctl) + 1] = c
        /\ \A i \in DOMAIN ctl : ctl'[i] = ctl[i]
    BY <1>2, <2>2, <2>3, GrownChannel
  <2>6. \A id \in Queued("Arm")' : id \in Queued("Arm") \/ id = new
    BY <1>3, <2>3, <2>5, QueuedIs
  <2>7. \A id \in Queued("Cancel") : id \in Queued("Cancel")'
    BY <1>3, <2>5, QueuedIs
  <2>8. Pending' \subseteq Pending \cup (Len(due) + 1)..Len(due')
    BY <1>1, <2>4, <2>6, <2>7 DEF Pending
  <2>9. QED  BY <1>1, <2>4, <2>8 DEF A!Change
<1>5. CASE \E id \in guards : DropGuard(id)
  <2>1. PICK id \in guards : DropGuard(id)
    BY <1>5
  <2> DEFINE c == [op |-> "Cancel", id |-> id]
  <2>2. ctl' = Append(ctl, c) /\ due' = due
    BY <2>1 DEF DropGuard
  <2>3. c \in TimerCmd /\ c.op = "Cancel"
    BY <1>2 DEF WheelInv, WheelTypeOK, TimerId, TimerCmd
  <2> HIDE DEF c
  <2>4. /\ DOMAIN ctl' = DOMAIN ctl \cup {Len(ctl) + 1}
        /\ ctl'[Len(ctl) + 1] = c
        /\ \A i \in DOMAIN ctl : ctl'[i] = ctl[i]
    BY <1>2, <2>2, <2>3, GrownChannel
  <2>5. \A i \in Queued("Arm")' : i \in Queued("Arm")
    BY <1>3, <2>3, <2>4, QueuedIs
  <2>6. \A i \in Queued("Cancel") : i \in Queued("Cancel")'
    BY <1>3, <2>4, QueuedIs
  <2>7. Pending' \subseteq Pending
    BY <1>1, <2>5, <2>6 DEF Pending
  <2>8. Len(due) <= Len(due') /\ SubSeq(due', 1, Len(due)) = due
    BY <1>2, <2>2
  <2>9. QED  BY <1>1, <2>2, <2>7, <2>8 DEF A!Change
<1>6. QED  BY <1>4, <1>5 DEF Caller

\* Every step of the source, its callers and its reader is a step of Alarms or
\* leaves them as they are.
LEMMA StepMaps ==
    ASSUME WheelInv, [WheelNext]_wheelVars
    PROVE  [A!Next]_<<clock, due, Pending, rung>>
<1>1. CASE ApplyCmd
  BY <1>1, PendingApplyCmd DEF ApplyCmd
<1>2. CASE SleepEnds
  BY <1>2, PendingSleepEnds DEF SleepEnds
<1>3. CASE Fire
  BY <1>3, PendingFire DEF A!Next
<1>4. CASE Caller
  BY <1>4, PendingCaller DEF A!Next
<1>5. CASE Reader
  BY <1>5 DEF Reader, Pending, Queued
<1>6. CASE Pass
  <2>1. clock' = clock + 1 /\ UNCHANGED <<due, Pending, rung>>
    BY <1>6 DEF Pass, Pending, Queued
  <2>2. QED  BY <2>1 DEF A!Next, A!Pass
<1>7. CASE UNCHANGED wheelVars
  BY <1>7 DEF wheelVars, Pending, Queued
<1>8. QED
  BY <1>1, <1>2, <1>3, <1>4, <1>5, <1>6, <1>7 DEF WheelNext, Wheel

\* The timer source keeps the promise of timer.rs, "cancel without phantom
\* fires": no timer rings twice, before its deadline, or after its guard was
\* dropped while no ended sleep of it was in hand.
THEOREM WheelImplementsAlarms == WheelSpec => ImplementsAlarms
<1>1. WheelInit => A!Init
  BY DEF WheelInit, A!Init, Pending, Queued
<1>2. QED
  BY <1>1, StepMaps, WheelInvariant, PTL DEF WheelSpec, ImplementsAlarms, A!Spec
=============================================================================
