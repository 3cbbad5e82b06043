--------------------------- MODULE Playback_proofs ---------------------------
(***************************************************************************)
(* Proofs about the queue over one deck, for every queue, every set of     *)
(* modes and gestures, every ring capacity and everything mpv may do: the  *)
(* types, the order an advance keeps, what MpvDeck promises carried over   *)
(* to a deck that is asked by these tasks, and what observers are shown.   *)
(***************************************************************************)
EXTENDS Playback, MpvDeck_proofs, QueueOps_proofs, FiniteSetTheorems

MaybeEntry == Entry \cup {NoEntry}
Edge == [edge : {"TrackStart", "TrackEnd", "Playing", "Paused", "Stopped"}, entry : MaybeEntry]
Publisher == [latch : MaybeEntry, last : PlayState, suppress : BOOLEAN, edges : Seq(Edge)]

\* Where the spine is between the Eof it has read and its return to the ring.
AdvancePcs == {"advance", "goto", "loading", "todo", "orphan", "advanced"}

QueueTypes ==
    /\ queue \in Seq(Entry)
    /\ current \in Nat
    /\ pendingPause \in BOOLEAN
    /\ modes \in ModeFlags
    /\ fails \in 0..MaxFailures
    /\ {origin, continuing} \subseteq MaybeEntry
    /\ slot \in Slot
    /\ fade \in Fades
    /\ contested \in {"no", "yes", "late", "afresh"}

\* A call with straight-line work left has some; a task that is to load or to
\* park something knows what.
TaskTypes ==
    /\ task \in [{Spine, Client} -> Task]
    /\ \A c \in {Spine, Client} : At(c, "todo") => task[c].todo # << >>
    /\ \A c \in {Spine, Client} : task[c].pc \in {"load", "prefetch"} => task[c].item \in Entry
    /\ task[Spine].pc \in AdvancePcs \cup {"idle", "prefetch", "unwarm"}

Types == TypeInv /\ QueueTypes /\ TaskTypes /\ pub \in Publisher
-----------------------------------------------------------------------------
(* The constants. *)

LEMMA DeckIsOne == deck \in Deck
  <1>0. Cardinality(Deck) = 1
    BY PlaybackAssumption
  <1>1. Deck # {}
    BY <1>0, FS_EmptySet
  <1> QED
    BY <1>1 DEF deck

LEMMA TasksDiffer ==
    /\ {Spine, Client, Fader, Gone} = Caller
    /\ Spine # Client /\ Gone # Spine
    /\ Client # Fader /\ Client # Gone /\ Spine # Fader /\ Fader # Gone
  <1>1. Cardinality({}) = 0 /\ IsFiniteSet({})
    BY FS_EmptySet
  <1>2. \A S, x : IsFiniteSet(S) => /\ IsFiniteSet(S \cup {x})
                                    /\ Cardinality(S) \in Nat
                                    /\ Cardinality(S \cup {x}) <= Cardinality(S) + 1
    <2> SUFFICES ASSUME NEW S, NEW x, IsFiniteSet(S)
                 PROVE  /\ IsFiniteSet(S \cup {x}) /\ Cardinality(S) \in Nat
                        /\ Cardinality(S \cup {x}) <= Cardinality(S) + 1
      OBVIOUS
    <2>1. Cardinality(S) \in Nat
      BY FS_CardinalityType
    <2> QED
      BY <2>1, FS_AddElement
  <1>3. \A x, y, z : /\ IsFiniteSet({x, y, z}) /\ Cardinality({x, y, z}) \in Nat
                     /\ Cardinality({x, y, z}) <= 3
    <2> SUFFICES ASSUME NEW x, NEW y, NEW z
                 PROVE  /\ IsFiniteSet({x, y, z}) /\ Cardinality({x, y, z}) \in Nat
                        /\ Cardinality({x, y, z}) <= 3
      OBVIOUS
    <2>1. IsFiniteSet({x}) /\ Cardinality({x}) \in Nat /\ Cardinality({x}) <= 1
      <3>1. IsFiniteSet({} \cup {x}) /\ Cardinality({} \cup {x}) <= 0 + 1
        BY <1>1, <1>2
      <3>2. {} \cup {x} = {x}
        OBVIOUS
      <3> QED
        BY <3>1, <3>2, FS_CardinalityType
    <2>2. IsFiniteSet({x, y}) /\ Cardinality({x, y}) \in Nat /\ Cardinality({x, y}) <= 2
      <3>1. IsFiniteSet({x} \cup {y}) /\ Cardinality({x} \cup {y}) <= Cardinality({x}) + 1
        BY <1>2, <2>1
      <3>2. {x} \cup {y} = {x, y}
        OBVIOUS
      <3>3. Cardinality({x, y}) \in Nat
        BY <3>1, <3>2, FS_CardinalityType
      <3> QED
        BY <2>1, <3>1, <3>2, <3>3
    <2>3. IsFiniteSet({x, y} \cup {z}) /\ Cardinality({x, y} \cup {z}) <= Cardinality({x, y}) + 1
      BY <1>2, <2>2
    <2>4. {x, y} \cup {z} = {x, y, z}
      OBVIOUS
    <2>5. Cardinality({x, y, z}) \in Nat
      BY <2>3, <2>4, FS_CardinalityType
    <2> QED
      BY <2>2, <2>3, <2>4, <2>5
  <1>4. Caller = {Spine, Client, Fader, Gone} /\ Cardinality(Caller) = 4
    BY PlaybackAssumption
  <1>5. Spine # Client
    <2> SUFFICES ASSUME Spine = Client PROVE FALSE
      OBVIOUS
    <2>1. Caller = {Client, Fader, Gone}
      BY <1>4
    <2> QED
      BY <1>3, <1>4, <2>1
  <1>6. Gone # Spine
    <2> SUFFICES ASSUME Gone = Spine PROVE FALSE
      OBVIOUS
    <2>1. Caller = {Client, Fader, Gone}
      BY <1>4
    <2>2. Cardinality({Client, Fader, Gone}) \in Nat /\ Cardinality({Client, Fader, Gone}) <= 3
      BY <1>3
    <2> QED
      BY <1>4, <2>1, <2>2
  <1>7. ASSUME NEW x, NEW y, NEW z, Caller = {x, y, z} PROVE FALSE
    <2>1. Cardinality({x, y, z}) \in Nat /\ Cardinality({x, y, z}) <= 3
      BY <1>3
    <2>2. Cardinality({x, y, z}) = 4
      BY <1>4, <1>7
    <2> QED
      BY <2>1, <2>2
  <1>8. Client # Fader /\ Client # Gone /\ Spine # Fader /\ Fader # Gone
    <2>1. /\ Client = Fader => Caller = {Spine, Client, Gone}
          /\ Client = Gone => Caller = {Spine, Client, Fader}
          /\ Spine = Fader => Caller = {Spine, Client, Gone}
          /\ Fader = Gone => Caller = {Spine, Client, Fader}
      BY <1>4
    <2> QED
      BY <1>7, <2>1
  <1> QED
    BY <1>4, <1>5, <1>6, <1>8

\* The entry of a load, or of none.
LEMMA EntryOfType ==
    /\ \A l \in MaybeLoad : EntryOf(l) \in MaybeEntry
    /\ \A l \in Load : EntryOf(l) = l.entry /\ EntryOf(l) \in Entry /\ EntryOf(l) # NoEntry
    /\ EntryOf(NoLoad) = NoEntry
  BY DeckAssumption, PlaybackAssumption DEF EntryOf, MaybeLoad, Load, MaybeEntry
-----------------------------------------------------------------------------
(***************************************************************************)
(* The deck under the queue is a deck of MpvDeck: every step of the queue  *)
(* leaves the deck alone, asks it something, reads its ring, or is the     *)
(* deck's own - but for the spine giving up on an answer.                  *)
(***************************************************************************)
LEMMA AskIsRequest ==
    ASSUME NEW c \in Caller, UNCHANGED <<mpv, actor, ring, eofs>>
    PROVE  /\ \A op \in PlainOps : Ask(c, op) => AnyRequest(c)
           /\ \A op \in LoadOps, e \in Entry : AskLoad(c, op, e) => AnyRequest(c)
  BY DeckIsOne DEF Ask, AskLoad, AnyRequest

\* What the deck sees of a step.
DeckSees ==
    \/ UNCHANGED deckVars
    \/ \E c \in Caller : AnyRequest(c)
    \/ Consume
    \/ ActorStep(deck) \/ MpvStep(deck)

LEMMA SpineSees ==
    ASSUME Types, SpineStep
    PROVE  DeckSees \/ AdvanceTimeout
  <1>1. Spine \in Caller /\ {"Stop", "DropWarm"} \subseteq PlainOps /\ "PlayUrl" \in LoadOps
    BY TasksDiffer DEF PlainOps, LoadOps
  <1>2. ASSUME NEW k, SpineReads(k) PROVE Consume
    BY <1>2 DEF SpineReads, Consume
  <1>3. CASE SpinePlaying \/ SpinePaused \/ SpineStopped \/ SpineTimePos \/ SpineEof
    BY <1>2, <1>3 DEF SpinePlaying, SpinePaused, SpineStopped, SpineTimePos, SpineEof, DeckSees
  <1>4. CASE \/ HaltFailedAdvance \/ PlanNext \/ CommitLandedAdvance
             \/ DrainTerminal \/ AdvanceReturns \/ Unwarmed
    BY <1>4 DEF HaltFailedAdvance, PlanNext, CommitLandedAdvance, DrainTerminal, AdvanceReturns,
                Unwarmed, DeckQuiet, NoRequest, deckVars, DeckSees
  <1>5. CASE AdvanceLoads
    <2>1. queue \in Seq(Entry)
      BY DEF Types, QueueTypes
    <2>2. Target \in DOMAIN queue => queue[Target] \in Entry
      BY <2>1
    <2>3. UNCHANGED <<mpv, actor, ring, eofs>>
      BY <1>5 DEF AdvanceLoads, DeckQuiet
    <2>4. \/ Target \in DOMAIN queue /\ AskLoad(Spine, "PlayUrl", queue[Target])
          \/ NoRequest
      BY <1>5 DEF AdvanceLoads
    <2> QED
      BY <1>1, <2>2, <2>3, <2>4, AskIsRequest DEF NoRequest, deckVars, DeckSees
  <1>6. CASE LandedNowhere
    <2>1. UNCHANGED <<mpv, actor, ring, eofs>> /\ (NoRequest \/ Ask(Spine, "Stop"))
      BY <1>6 DEF LandedNowhere, DeckQuiet
    <2> QED
      BY <1>1, <2>1, AskIsRequest DEF NoRequest, deckVars, DeckSees
  <1>7. CASE PrefetchReturns
    <2>1. UNCHANGED <<mpv, actor, ring, eofs>> /\ (NoRequest \/ Ask(Spine, "DropWarm"))
      BY <1>7 DEF PrefetchReturns, DeckQuiet
    <2> QED
      BY <1>1, <2>1, AskIsRequest DEF NoRequest, deckVars, DeckSees
  <1> QED
    BY <1>3, <1>4, <1>5, <1>6, <1>7 DEF SpineStep

LEMMA BeginSees ==
    ASSUME Types, Begin
    PROVE  DeckSees
  <1>1. /\ {Spine, Client} \subseteq Caller
        /\ {"Stop", "DropWarm", "Resume"} \subseteq PlainOps /\ "PrefetchContinuation" \in LoadOps
    BY TasksDiffer DEF PlainOps, LoadOps
  <1>2. CASE WarmFires
    <2>1. UNCHANGED <<mpv, actor, ring, eofs>>
      BY <1>2 DEF WarmFires, DeckQuiet
    <2>2. CASE NoRequest
      BY <2>1, <2>2 DEF NoRequest, deckVars, DeckSees
    <2>3. CASE ~NoRequest
      <3>1. WarmReady # 0 /\ AskLoad(Spine, "PrefetchContinuation", queue[WarmReady])
        BY <1>2, <2>3 DEF WarmFires
      <3>2. queue[WarmReady] \in Entry
        <4>1. queue \in Seq(Entry) /\ current \in Nat /\ modes \in ModeFlags
          BY DEF Types, QueueTypes
        <4>2. PeekNextDeterministic(queue, current, modes) \in 0..Len(queue)
          BY <4>1 DEF PeekNextDeterministic, ModeFlags
        <4>3. WarmReady \in 0..Len(queue)
          BY <4>1, <4>2 DEF WarmReady
        <4> QED
          BY <3>1, <4>1, <4>3
      <3> QED
        BY <1>1, <2>1, <3>1, <3>2, AskIsRequest DEF DeckSees
    <2> QED
      BY <2>2, <2>3
  <1>3. CASE ClientPlay \/ ClientPicksUp
    BY <1>3 DEF ClientPlay, ClientPicksUp, PlayIndex, NoRequest, deckVars, DeckSees
  <1>4. CASE ClientDelete
    BY <1>4 DEF ClientDelete, DeckQuiet, NoRequest, deckVars, DeckSees
  <1>5. CASE ClientStop \/ ClientClear \/ ClientPause \/ ClientResumesStopped
    <2>1. /\ UNCHANGED <<mpv, actor, ring, eofs>>
          /\ Ask(Client, "Stop") \/ Ask(Client, "DropWarm") \/ Ask(Client, "Resume")
      BY <1>5 DEF ClientStop, ClientClear, ClientPause, ClientResumesStopped, Sent, DeckQuiet
    <2> QED
      BY <1>1, <2>1, AskIsRequest DEF DeckSees
  <1>6. CASE ClientResume
    <2>1. UNCHANGED <<mpv, actor, ring, eofs>> /\ (NoRequest \/ Ask(Client, "Resume"))
      BY <1>6 DEF ClientResume, DeckQuiet
    <2> QED
      BY <1>1, <2>1, AskIsRequest DEF NoRequest, deckVars, DeckSees
  <1> QED
    BY <1>2, <1>3, <1>4, <1>5, <1>6 DEF Begin

LEMMA GoesOnSees ==
    ASSUME Types,
           ClientStep \/ FadeStep \/ (\E c \in {Spine, Client} : TaskStep(c)) \/ DeckStep
    PROVE  DeckSees
  <1>1. /\ {Spine, Client, Fader} \subseteq Caller
        /\ {"Stop", "DropWarm", "Pause"} \subseteq PlainOps /\ "PlayUrl" \in LoadOps
    BY TasksDiffer DEF PlainOps, LoadOps
  <1>2. CASE ClientLoads
    <2>1. /\ task[Client].item \in Entry /\ AskLoad(Client, "PlayUrl", task[Client].item)
          /\ UNCHANGED <<mpv, actor, ring, eofs>>
      BY <1>2 DEF ClientLoads, DeckQuiet, Types, TaskTypes, At
    <2> QED
      BY <1>1, <2>1, AskIsRequest DEF DeckSees
  <1>3. CASE ClientEvicts
    <2>1. UNCHANGED <<mpv, actor, ring, eofs>> /\ (NoRequest \/ Ask(Client, "Stop"))
      BY <1>3 DEF ClientEvicts, Sent, DeckQuiet
    <2> QED
      BY <1>1, <2>1, AskIsRequest DEF NoRequest, deckVars, DeckSees
  <1>4. CASE ClientRampsUp
    <2>1. UNCHANGED <<mpv, actor, ring, eofs>> /\ Ask(Client, "DropWarm")
      BY <1>4 DEF ClientRampsUp, Sent, DeckQuiet
    <2> QED
      BY <1>1, <2>1, AskIsRequest DEF DeckSees
  <1>5. CASE FadePauses
    <2>1. UNCHANGED <<mpv, actor, ring, eofs>> /\ Ask(Fader, "Pause")
      BY <1>5 DEF FadePauses, DeckQuiet
    <2> QED
      BY <1>1, <2>1, AskIsRequest DEF DeckSees
  <1>6. CASE FadePaused \/ FadeRestored
    BY <1>6 DEF FadePaused, FadeRestored, DeckQuiet, NoRequest, deckVars, DeckSees
  <1>7. ASSUME NEW c \in {Spine, Client}, LoadReturns(c) \/ Waited(c) \/ Arm(c) PROVE DeckSees
    BY <1>7 DEF LoadReturns, Waited, Arm, DeckQuiet, NoRequest, deckVars, DeckSees
  <1>8. ASSUME NEW c \in {Spine, Client}, Disarm(c) \/ Drop(c) PROVE DeckSees
    <2>1. UNCHANGED <<mpv, actor, ring, eofs>> /\ (NoRequest \/ Ask(c, "DropWarm"))
      BY <1>8 DEF Disarm, Drop, DeckQuiet
    <2> QED
      BY <1>1, <2>1, AskIsRequest DEF NoRequest, deckVars, DeckSees
  <1>9. CASE DeckStep
    BY <1>9 DEF DeckStep, MpvStep, DeckSees
  <1> QED
    BY <1>2, <1>3, <1>4, <1>5, <1>6, <1>7, <1>8, <1>9 DEF ClientStep, FadeStep, TaskStep

\* What every invariant of MpvDeck carries over by.
LEMMA NextSees ==
    ASSUME Types, [PlaybackNext]_vars
    PROVE  DeckSees \/ AdvanceTimeout
  <1>1. CASE UNCHANGED vars
    BY <1>1 DEF vars, deckVars, DeckSees
  <1> QED
    BY <1>1, SpineSees, BeginSees, GoesOnSees DEF PlaybackNext

LEMMA SeesNext == DeckSees => [Next]_deckVars
  BY DeckIsOne DEF DeckSees, Next

LEMMA DeckStarts == PlaybackInit => DeckInit
  BY DEF PlaybackInit
-----------------------------------------------------------------------------
(* Giving up on an answer changes who is answered, and nothing else. *)

LEMMA AbandonedSame ==
    ASSUME TypeInv, AdvanceTimeout
    PROVE  /\ UNCHANGED <<mpv, ring, loads, eofs>>
           /\ actor' \in [Deck -> ActorState] /\ cmds' \in [Deck -> Seq(Command)]
           /\ reply' \in [Caller -> {"none", "wait", "ok", "err"}]
           /\ \A d \in Deck : /\ actor'[d].latch = actor[d].latch
                              /\ actor'[d].warm = actor[d].warm
                              /\ actor'[d].watch = actor[d].watch
                              /\ actor'[d].adrift = actor[d].adrift
                              /\ Len(cmds'[d]) = Len(cmds[d])
                              /\ \A i \in 1..Len(cmds[d]) :
                                    /\ cmds'[d][i].load = cmds[d][i].load
                                    /\ cmds'[d][i].op = cmds[d][i].op
           /\ Len(actor'[deck].out) = Len(actor[deck].out)
           /\ \A i \in 1..Len(actor[deck].out) :
                actor'[deck].out[i] = AbandonReply(actor[deck].out[i])
  <1> DEFINE C == cmds[deck]
             O == actor[deck].out
             C1 == [i \in DOMAIN C |-> Abandon(C[i])]
             O1 == [i \in DOMAIN O |-> AbandonReply(O[i])]
  <1>1. /\ deck \in Deck /\ Gone \in Caller /\ Spine \in Caller
        /\ actor \in [Deck -> ActorState] /\ cmds \in [Deck -> Seq(Command)]
        /\ reply \in [Caller -> {"none", "wait", "ok", "err"}]
        /\ C \in Seq(Command) /\ O \in Seq(Effect)
    BY DeckIsOne, TasksDiffer DEF TypeInv, TypeOK, ActorState
  <1>2. /\ UNCHANGED <<mpv, ring, loads, eofs>>
        /\ reply' = [reply EXCEPT ![Spine] = "none"]
        /\ cmds' = [cmds EXCEPT ![deck] = C1]
        /\ actor' = [actor EXCEPT ![deck].out = O1]
    BY <1>1 DEF AdvanceTimeout
  <1>3. \A x \in Command : Abandon(x) \in Command /\ Abandon(x).load = x.load /\ Abandon(x).op = x.op
    BY <1>1 DEF Abandon, Command
  <1>4. \A x \in Effect : AbandonReply(x) \in Effect
    BY <1>1 DEF AbandonReply, Effect
  <1>5. /\ DOMAIN C = 1..Len(C) /\ Len(C) \in Nat /\ \A i \in 1..Len(C) : C[i] \in Command
        /\ DOMAIN O = 1..Len(O) /\ Len(O) \in Nat /\ \A i \in 1..Len(O) : O[i] \in Effect
    BY <1>1
  <1>6. C1 \in Seq(Command) /\ Len(C1) = Len(C) /\ \A i \in 1..Len(C) : C1[i] = Abandon(C[i])
    BY <1>3, <1>5
  <1>7. O1 \in Seq(Effect) /\ Len(O1) = Len(O) /\ \A i \in 1..Len(O) : O1[i] = AbandonReply(O[i])
    BY <1>4, <1>5
  <1> HIDE DEF C1, O1
  <1>8. /\ actor' \in [Deck -> ActorState] /\ actor'[deck].out = O1
        /\ \A d \in Deck : /\ actor'[d].latch = actor[d].latch
                           /\ actor'[d].warm = actor[d].warm
                           /\ actor'[d].watch = actor[d].watch
                           /\ actor'[d].adrift = actor[d].adrift
    <2>1. actor' \in [Deck -> ActorState]
      BY <1>1, <1>2, <1>7, ActorFieldType
    <2>2. actor' = [actor EXCEPT ![deck] = [actor[deck] EXCEPT !.out = O1]]
      BY <1>1, <1>2
    <2>3. actor'[deck] = [actor[deck] EXCEPT !.out = O1] /\ \A d \in Deck : d # deck => actor'[d] = actor[d]
      BY <1>1, <2>2
    <2>4. actor[deck] \in ActorState
      BY <1>1
    <2> QED
      BY <2>1, <2>3, <2>4 DEF ActorState
  <1>9. cmds' \in [Deck -> Seq(Command)] /\ reply' \in [Caller -> {"none", "wait", "ok", "err"}]
    BY <1>1, <1>2, <1>6
  <1>10. \A d \in Deck : /\ Len(cmds'[d]) = Len(cmds[d])
                         /\ \A i \in 1..Len(cmds[d]) : /\ cmds'[d][i].load = cmds[d][i].load
                                                       /\ cmds'[d][i].op = cmds[d][i].op
    <2> TAKE d \in Deck
    <2>1. CASE d = deck
      <3>1. cmds'[d] = C1 /\ cmds[d] = C
        BY <1>1, <1>2, <2>1
      <3> HIDE DEF C
      <3> QED
        BY <1>3, <1>5, <1>6, <3>1
    <2>2. CASE d # deck
      BY <1>1, <1>2, <2>2
    <2> QED
      BY <2>1, <2>2
  <1> QED
    BY <1>2, <1>7, <1>8, <1>9, <1>10

LEMMA TimeoutType ==
    ASSUME TypeInv, AdvanceTimeout
    PROVE  TypeInv'
  BY AbandonedSame DEF TypeInv, TypeOK, Sound

LEMMA TimeoutEof ==
    ASSUME TypeInv, EofInv, AdvanceTimeout
    PROVE  EofInv'
  <1>1. \A d \in Deck, s \in Latches : Latched(d, s)' = Latched(d, s)
    BY AbandonedSame DEF Latched
  <1>2. /\ UNCHANGED <<loads, eofs>>
        /\ \A d \in Deck : /\ Len(cmds'[d]) = Len(cmds[d])
                           /\ \A i \in 1..Len(cmds[d]) : cmds'[d][i].load = cmds[d][i].load
    BY AbandonedSame
  <1>3. LiveInv'
    BY <1>1, <1>2 DEF EofInv, LiveInv, Live
  <1>4. ApartInv'
    <2>1. ApartInv
      BY DEF EofInv
    <2>2. \A d, e \in Deck, s, t \in Latches :
             d # e \/ s # t => Apart(Latched(d, s), Latched(e, t))'
      BY <1>1, <2>1 DEF ApartInv, Apart
    <2>3. \A d, e \in Deck, s \in Latches : \A i \in 1..Len(cmds'[e]) :
             Apart(Latched(d, s)', cmds'[e][i].load)
      BY <1>1, <1>2, <2>1 DEF ApartInv
    <2>4. \A d, e \in Deck : \A i \in 1..Len(cmds'[d]), j \in 1..Len(cmds'[e]) :
             d # e \/ i # j => Apart(cmds'[d][i].load, cmds'[e][j].load)
      BY <1>2, <2>1 DEF ApartInv
    <2> QED
      BY <2>2, <2>3, <2>4 DEF ApartInv, Apart
  <1> QED
    BY <1>2, <1>3, <1>4 DEF EofInv, OneEofPerLoad

LEMMA TimeoutTruth ==
    ASSUME TypeInv, TruthInv, AdvanceTimeout
    PROVE  TruthInv'
  <1> SUFFICES ASSUME NEW d \in Deck, ~actor'[d].adrift PROVE Truth(mpv'[d], actor'[d])
    BY DEF TruthInv
  <1>1. /\ mpv'[d] = mpv[d] /\ ~actor[d].adrift
        /\ actor'[d].latch = actor[d].latch /\ actor'[d].warm = actor[d].warm
        /\ actor'[d].watch = actor[d].watch
    BY AbandonedSame
  <1>2. Truth(mpv[d], actor[d])
    BY <1>1 DEF TruthInv
  <1> QED
    BY <1>1, <1>2 DEF Truth
-----------------------------------------------------------------------------
(* Types. *)

\* The rows an advance may go to, and the one it is moved to over an eviction,
\* are numbers.
LEMMA TargetType ==
    ASSUME NEW q \in Seq(Entry), NEW cur \in Nat, NEW m \in ModeFlags
    PROVE  /\ PeekNextFrom(q, cur, TRUE, m) \subseteq Nat
           /\ PeekNextDeterministic(q, cur, m) \in Nat
           /\ \A n \in Nat, k \in Nat : ConsumeTarget(n, cur, k, m.repeat) \in Nat
  <1>1. Len(q) \in Nat /\ m.repeat \in BOOLEAN
    BY DEF ModeFlags
  <1>2. PeekNextFrom(q, cur, TRUE, m) \subseteq Nat
    BY <1>1 DEF PeekNextFrom
  <1>3. PeekNextDeterministic(q, cur, m) \in Nat
    BY <1>1 DEF PeekNextDeterministic
  <1>4. \A n \in Nat, k \in Nat : ConsumeTarget(n, cur, k, m.repeat) \in Nat
    BY DEF ConsumeTarget
  <1> QED
    BY <1>2, <1>3, <1>4

\* What the publisher makes of an event.
LEMMA PublisherType ==
    ASSUME NEW p \in Publisher, NEW q \in MaybeEntry
    PROVE  /\ D!OnPlaying(p, q) \in Publisher /\ D!OnPaused(p) \in Publisher
           /\ D!OnStopped(p) \in Publisher /\ D!OnEof(p, q) \in Publisher
           /\ [p EXCEPT !.edges = << >>] \in Publisher
           /\ D!MarkAdvanced([p EXCEPT !.edges = << >>]) \in Publisher
  <1>1. /\ << >> \in Seq(Edge)
        /\ \A x \in Edge : <<x>> \in Seq(Edge)
        /\ \A x, y \in Edge : <<x, y>> \in Seq(Edge)
    OBVIOUS
  <1>2. /\ \A r \in MaybeEntry : D!TrackStart(r) \in Edge /\ D!TrackEnd(r) \in Edge
        /\ \A s \in {"Playing", "Paused", "Stopped"} : D!StateChanged(s) \in Edge
    BY DEF D!TrackStart, D!TrackEnd, D!StateChanged, Edge, MaybeEntry
  <1>3. p.latch \in MaybeEntry
    BY DEF Publisher
  <1>4. ASSUME NEW x \in Seq(Edge)
        PROVE  /\ [p EXCEPT !.edges = x] \in Publisher
               /\ [p EXCEPT !.edges = x, !.suppress = TRUE] \in Publisher
    BY <1>4 DEF Publisher
  <1>5. D!OnPlaying(p, q) \in Publisher
    <2> DEFINE x == IF p.latch = q
                    THEN IF p.last = "Playing" THEN << >> ELSE <<D!StateChanged("Playing")>>
                    ELSE IF p.latch = NoEntry THEN <<D!TrackStart(q)>>
                    ELSE <<D!TrackEnd(p.latch), D!TrackStart(q)>>
    <2>1. x \in Seq(Edge)
      BY <1>1, <1>2, <1>3
    <2>2. D!OnPlaying(p, q) = [latch |-> q, last |-> "Playing", suppress |-> FALSE, edges |-> x]
      BY DEF D!OnPlaying
    <2> HIDE DEF x
    <2> QED
      BY <2>1, <2>2 DEF Publisher, PlayState
  <1>6. D!OnPaused(p) \in Publisher
    <2>1. <<D!StateChanged("Paused")>> \in Seq(Edge)
      BY <1>1, <1>2
    <2>2. \A x \in Seq(Edge) : [p EXCEPT !.last = "Paused", !.edges = x] \in Publisher
      BY DEF Publisher, PlayState
    <2> QED
      BY <1>1, <1>4, <2>1, <2>2 DEF D!OnPaused
  <1>7. D!OnStopped(p) \in Publisher
    <2>1. (IF p.last = "Stopped" THEN << >> ELSE <<D!StateChanged("Stopped")>>) \in Seq(Edge)
      BY <1>1, <1>2
    <2>2. \A x \in Seq(Edge) :
             /\ [p EXCEPT !.latch = NoEntry, !.last = "Stopped", !.edges = x] \in Publisher
             /\ [p EXCEPT !.suppress = FALSE, !.edges = x] \in Publisher
      BY DEF Publisher, PlayState, MaybeEntry
    <2> QED
      BY <1>1, <2>1, <2>2 DEF D!OnStopped
  <1>8. D!OnEof(p, q) \in Publisher
    <2>1. (IF q = NoEntry THEN << >> ELSE <<D!TrackEnd(q)>>) \in Seq(Edge)
      BY <1>1, <1>2
    <2>2. \A x \in Seq(Edge) : [p EXCEPT !.latch = NoEntry, !.edges = x] \in Publisher
      BY DEF Publisher, MaybeEntry
    <2> QED
      BY <2>1, <2>2 DEF D!OnEof
  <1>9. D!MarkAdvanced([p EXCEPT !.edges = << >>]) \in Publisher
    BY <1>1, <1>4 DEF D!MarkAdvanced, Publisher
  <1> QED
    BY <1>1, <1>4, <1>5, <1>6, <1>7, <1>8, <1>9

\* Each task's record after a step is one the types allow.
LEMMA TaskUpdate ==
    ASSUME TaskTypes, NEW c \in {Spine, Client}, NEW r \in Task,
           task' = [task EXCEPT ![c] = r],
           r.pc = "todo" => r.todo # << >>,
           r.pc \in {"load", "prefetch"} => r.item \in Entry,
           c = Spine => r.pc \in AdvancePcs \cup {"idle", "prefetch", "unwarm"}
    PROVE  TaskTypes'
  BY TasksDiffer DEF TaskTypes, At

LEMMA NoTaskType == NoTask \in Task /\ NoTask.pc = "idle" /\ NoTask.todo = << >>
  <1>1. << >> \in Seq(Todo)
    OBVIOUS
  <1> QED
    BY <1>1 DEF NoTask, Task, Pcs

\* Going to a place with no conditions of its own.
LEMMA GotoType ==
    ASSUME TaskTypes, NEW c \in {Spine, Client}, NEW pc \in Pcs \ {"todo", "load", "prefetch"},
           Goto(c, pc), c = Spine => pc \in AdvancePcs \cup {"unwarm"}
    PROVE  TaskTypes'
  <1> DEFINE r == [task[c] EXCEPT !.pc = pc]
  <1>1. task[c] \in Task /\ task' = [task EXCEPT ![c] = r]
    BY DEF TaskTypes, Goto
  <1>2. r \in Task /\ r.pc = pc
    BY <1>1 DEF Task
  <1> HIDE DEF r
  <1> QED
    BY <1>1, <1>2, TaskUpdate

\* Going on with what is left of a call, or returning.
LEMMA ContinueType ==
    ASSUME TaskTypes, NEW c \in {Spine, Client}, NEW todo \in Seq(Todo), Continue(c, todo)
    PROVE  TaskTypes'
  <1> DEFINE r == IF todo = << >> THEN Returned(c)
                  ELSE [task[c] EXCEPT !.pc = "todo", !.todo = todo]
  <1>1. task[c] \in Task /\ task' = [task EXCEPT ![c] = r]
    BY DEF TaskTypes, Continue
  <1>2. << >> \in Seq(Todo)
    OBVIOUS
  <1>3. /\ r \in Task /\ (r.pc = "todo" => r.todo # << >>) /\ r.pc \notin {"load", "prefetch"}
        /\ c = Spine => r.pc \in AdvancePcs
    <2>1. CASE todo # << >>
      BY <1>1, <2>1 DEF Task, Pcs, AdvancePcs
    <2>2. CASE todo = << >> /\ c = Spine
      BY <1>1, <1>2, <2>2 DEF Returned, Task, Pcs, AdvancePcs
    <2>3. CASE todo = << >> /\ c # Spine
      BY <2>3, NoTaskType DEF Returned
    <2> QED
      BY <2>1, <2>2, <2>3
  <1> HIDE DEF r
  <1> QED
    BY <1>1, <1>3, TaskUpdate

\* A task that is over.
LEMMA DoneType ==
    ASSUME TaskTypes, NEW c \in {Spine, Client}, task' = [task EXCEPT ![c] = NoTask]
    PROVE  TaskTypes'
  BY NoTaskType, TaskUpdate

\* What is left of a call after its first step.
LEMMA RestType ==
    ASSUME TaskTypes, NEW c \in {Spine, Client}, At(c, "todo")
    PROVE  /\ Rest(c) \in Seq(Todo) /\ <<"wait">> \o Rest(c) \in Seq(Todo)
           /\ task[c].todo = <<Head(task[c].todo)>> \o Rest(c)
  <1>1. task[c].todo \in Seq(Todo) /\ task[c].todo # << >>
    BY DEF TaskTypes, Task
  <1>2. Rest(c) \in Seq(Todo)
    BY <1>1, HeadTailProperties DEF Rest
  <1>3. <<"wait">> \in Seq(Todo)
    BY DEF Todo
  <1>4. task[c].todo = <<Head(task[c].todo)>> \o Tail(task[c].todo)
    BY <1>1
  <1> QED
    BY <1>2, <1>3, <1>4, ConcatProperties DEF Rest
-----------------------------------------------------------------------------
(***************************************************************************)
(* What observers are shown.  Between the deck's latch and the publisher's *)
(* lie the sends the actor has left to make and the events in the ring.    *)
(* Read in order they lead from the one entry to the other, and each finds *)
(* on its way the entry it is about: that is the invariant.                *)
(***************************************************************************)
\* An effect finds observers on entry v and takes them to w.
Shown(v, x, w) ==
    IF x.what = "reply" THEN w = v
    ELSE /\ w = IF x.ev.kind = "Playing" THEN EntryOf(x.ev.load)
                ELSE IF x.ev.kind \in {"Stopped", "Eof"} THEN NoEntry
                ELSE v
         /\ x.ev.kind \in {"Playing", "Paused"} => x.ev.load # NoLoad
         /\ x.ev.kind \in {"Paused", "Eof"} => EntryOf(x.ev.load) = v
         /\ x.ev.kind = "Eof" => x.ev.flag # "noid"

Chain(s, v, w) ==
    \E h \in [0..Len(s) -> MaybeEntry] :
        /\ h[0] = v /\ h[Len(s)] = w
        /\ \A i \in 1..Len(s) : Shown(h[i - 1], s[i], h[i])

\* The events of the ring, as the sends they were.
Ringed == [i \in 1..Len(ring) |-> Send(ring[i])]

FlightInv ==
    /\ \E u \in MaybeEntry : /\ Chain(Ringed, pub.latch, u)
                             /\ Chain(actor[deck].out, u, EntryOf(actor[deck].latch))
    /\ actor[deck].warm.kind # "None" => actor[deck].warm.load # NoLoad

LEMMA ChainNil ==
    ASSUME NEW v \in MaybeEntry, NEW w
    PROVE  Chain(<< >>, v, w) <=> v = w
  <1>1. Len(<< >>) = 0
    OBVIOUS
  <1>2. ASSUME v = w PROVE Chain(<< >>, v, w)
    <2> DEFINE h == [i \in 0..0 |-> v]
    <2>1. h \in [0..0 -> MaybeEntry] /\ h[0] = v
      OBVIOUS
    <2> HIDE DEF h
    <2> QED
      BY <1>1, <1>2, <2>1 DEF Chain
  <1> QED
    BY <1>1, <1>2 DEF Chain

\* The first of several effects, and the rest.
LEMMA ChainHead ==
    ASSUME NEW S, NEW s \in Seq(S), s # << >>, NEW v, NEW w, Chain(s, v, w)
    PROVE  \E u \in MaybeEntry : Shown(v, Head(s), u) /\ Chain(Tail(s), u, w)
  <1>1. PICK h \in [0..Len(s) -> MaybeEntry] :
            /\ h[0] = v /\ h[Len(s)] = w
            /\ \A i \in 1..Len(s) : Shown(h[i - 1], s[i], h[i])
    BY DEF Chain
  <1>2. /\ Len(s) \in Nat \ {0} /\ Head(s) = s[1] /\ Len(Tail(s)) = Len(s) - 1
        /\ \A i \in 1..(Len(s) - 1) : Tail(s)[i] = s[i + 1]
    BY HeadTailProperties, EmptySeq
  <1> DEFINE n == Len(s) - 1
             g == [i \in 0..n |-> h[i + 1]]
  <1>3. \A i \in 0..n : i + 1 \in 0..Len(s)
    BY <1>2
  <1>4. g \in [0..n -> MaybeEntry] /\ \A i \in 0..n : g[i] = h[i + 1]
    BY <1>3
  <1>5. 0 \in 0..n /\ n \in 0..n /\ 0 + 1 = 1 /\ n + 1 = Len(s) /\ n \in Nat
    BY <1>2
  <1> HIDE DEF n, g
  <1>6. g[0] = h[1] /\ g[n] = h[Len(s)]
    BY <1>4, <1>5
  <1>7. ASSUME NEW i \in 1..n PROVE Shown(g[i - 1], Tail(s)[i], g[i])
    <2>1. /\ i \in 0..n /\ i - 1 \in 0..n /\ (i - 1) + 1 = i /\ (i + 1) - 1 = i
          /\ i + 1 \in 1..Len(s) /\ i \in 1..(Len(s) - 1)
      BY <1>5 DEF n
    <2>2. g[i - 1] = h[i] /\ g[i] = h[i + 1] /\ Tail(s)[i] = s[i + 1]
      BY <1>2, <1>4, <2>1
    <2>3. Shown(h[(i + 1) - 1], s[i + 1], h[i + 1])
      BY <1>1, <2>1
    <2> QED
      BY <2>1, <2>2, <2>3
  <1>8. Len(Tail(s)) = n
    BY <1>2 DEF n
  <1>9. Chain(Tail(s), h[1], w)
    BY <1>1, <1>4, <1>6, <1>7, <1>8 DEF Chain
  <1>10. 1 \in 1..Len(s) /\ 1 \in 0..Len(s) /\ 1 - 1 = 0
    BY <1>2
  <1>11. Shown(v, Head(s), h[1]) /\ h[1] \in MaybeEntry
    BY <1>1, <1>2, <1>10
  <1> QED
    BY <1>9, <1>11

\* One more effect.
LEMMA ChainAppend ==
    ASSUME NEW S, NEW s \in Seq(S), NEW x \in S, NEW v, NEW u, NEW w \in MaybeEntry,
           Chain(s, v, u), Shown(u, x, w)
    PROVE  Chain(Append(s, x), v, w)
  <1>1. PICK h \in [0..Len(s) -> MaybeEntry] :
            /\ h[0] = v /\ h[Len(s)] = u
            /\ \A i \in 1..Len(s) : Shown(h[i - 1], s[i], h[i])
    BY DEF Chain
  <1>2. /\ Len(s) \in Nat /\ Len(Append(s, x)) = Len(s) + 1
        /\ \A i \in 1..Len(s) : Append(s, x)[i] = s[i]
        /\ Append(s, x)[Len(s) + 1] = x
    BY AppendProperties
  <1> DEFINE n == Len(s) + 1
             g == [i \in 0..n |-> IF i = n THEN w ELSE h[i]]
  <1>3. \A i \in 0..n : i = n \/ i \in 0..Len(s)
    BY <1>2
  <1>4. g \in [0..n -> MaybeEntry] /\ \A i \in 0..n : g[i] = IF i = n THEN w ELSE h[i]
    BY <1>3
  <1>5. n \in 0..n /\ 0 \in 0..n /\ 0 # n /\ Len(s) \in 0..n /\ Len(s) # n /\ n - 1 = Len(s)
    BY <1>2
  <1> HIDE DEF g
  <1>6. g[0] = v /\ g[n] = w /\ g[Len(s)] = u
    BY <1>1, <1>4, <1>5
  <1>7. ASSUME NEW i \in 1..n PROVE Shown(g[i - 1], Append(s, x)[i], g[i])
    <2>1. CASE i = n
      <3>1. g[i - 1] = u /\ g[i] = w /\ Append(s, x)[i] = x
        BY <1>2, <1>5, <1>6, <2>1
      <3> QED
        BY <3>1
    <2>2. CASE i # n
      <3>1. i \in 1..Len(s) /\ i \in 0..n /\ i - 1 \in 0..n /\ i - 1 # n
        BY <1>2, <2>2
      <3>2. g[i - 1] = h[i - 1] /\ g[i] = h[i] /\ Append(s, x)[i] = s[i]
        BY <1>2, <1>4, <2>2, <3>1
      <3> QED
        BY <1>1, <3>1, <3>2
    <2> QED
      BY <2>1, <2>2
  <1> QED
    BY <1>2, <1>4, <1>6, <1>7 DEF Chain

\* One, two and three effects in a row.
LEMMA ChainFew ==
    ASSUME NEW v \in MaybeEntry, NEW w \in MaybeEntry
    PROVE  /\ \A x \in Effect : Shown(v, x, w) => Chain(<<x>>, v, w)
           /\ \A x, y \in Effect, u \in MaybeEntry :
                Shown(v, x, u) /\ Shown(u, y, w) => Chain(<<x, y>>, v, w)
  <1>1. ASSUME NEW x \in Effect, NEW z \in MaybeEntry, Shown(v, x, z) PROVE Chain(<<x>>, v, z)
    <2>1. << >> \in Seq(Effect) /\ Append(<< >>, x) = <<x>>
      OBVIOUS
    <2>2. Chain(<< >>, v, v)
      BY ChainNil
    <2>3. Chain(Append(<< >>, x), v, z)
      BY <1>1, <2>1, <2>2, ChainAppend
    <2> QED
      BY <2>1, <2>3
  <1>2. ASSUME NEW x \in Effect, NEW y \in Effect, NEW u \in MaybeEntry,
               Shown(v, x, u), Shown(u, y, w)
        PROVE  Chain(<<x, y>>, v, w)
    <2> DEFINE s == <<x, y>>
               h == [i \in 0..2 |-> IF i = 0 THEN v ELSE IF i = 1 THEN u ELSE w]
    <2>1. Len(s) = 2 /\ s[1] = x /\ s[2] = y
      OBVIOUS
    <2>2. h \in [0..2 -> MaybeEntry] /\ h[0] = v /\ h[1] = u /\ h[2] = w
      OBVIOUS
    <2>3. \A i \in 1..2 : i = 1 \/ i = 2
      OBVIOUS
    <2> HIDE DEF s, h
    <2>4. \A i \in 1..2 : Shown(h[i - 1], s[i], h[i])
      <3>1. Shown(h[0], s[1], h[1]) /\ Shown(h[1], s[2], h[2])
        BY <1>2, <2>1, <2>2
      <3>2. 1 - 1 = 0 /\ 2 - 1 = 1
        OBVIOUS
      <3> QED
        BY <2>3, <3>1, <3>2
    <2>5. Chain(s, v, w)
      BY <2>1, <2>2, <2>4 DEF Chain
    <2> QED
      BY <2>5 DEF s
  <1> QED
    BY <1>1, <1>2

\* A step of the actor that starts with nothing left to send: what it leaves to
\* send leads from the latch it had to the latch it has.
LEMMA ActorShows ==
    ASSUME TypeInv, FlightInv, pub.latch \in MaybeEntry,
           actor[deck].out = << >>, UNCHANGED <<ring, pub>>,
           Chain(actor'[deck].out, EntryOf(actor[deck].latch), EntryOf(actor'[deck].latch)),
           actor'[deck].warm.kind # "None" => actor'[deck].warm.load # NoLoad
    PROVE  FlightInv'
  <1>1. PICK u \in MaybeEntry : /\ Chain(Ringed, pub.latch, u)
                                /\ Chain(<< >>, u, EntryOf(actor[deck].latch))
    BY DEF FlightInv
  <1>2. u = EntryOf(actor[deck].latch)
    BY <1>1, ChainNil
  <1>3. Ringed' = Ringed /\ pub'.latch = pub.latch
    BY DEF Ringed
  <1>4. Chain(Ringed', pub'.latch, u) /\ Chain(actor'[deck].out, u, EntryOf(actor'[deck].latch))
    BY <1>1, <1>2, <1>3
  <1> QED
    BY <1>4 DEF FlightInv, Chain, Shown, Ringed

\* The ring as sends, and what happens to it when an event comes or goes.
LEMMA RingedGrows ==
    ASSUME ring \in Seq(Event)
    PROVE  /\ Ringed \in Seq(Effect)
           /\ \A x \in Event : ring' = Append(ring, x) => Ringed' = Append(Ringed, Send(x))
           /\ ring # << >> /\ ring' = Tail(ring) =>
                Ringed # << >> /\ Head(Ringed) = Send(Head(ring)) /\ Ringed' = Tail(Ringed)
  <1>1. \A x \in Event : Send(x) \in Effect
    BY DEF Send, Effect
  <1>2. Len(ring) \in Nat /\ \A i \in 1..Len(ring) : ring[i] \in Event
    OBVIOUS
  <1>3. /\ Ringed \in Seq(Effect) /\ Len(Ringed) = Len(ring)
        /\ \A i \in 1..Len(ring) : Ringed[i] = Send(ring[i])
    BY <1>1, <1>2 DEF Ringed
  <1>4. ASSUME NEW x \in Event, ring' = Append(ring, x)
        PROVE  Ringed' = Append(Ringed, Send(x))
    <2>1. /\ Append(ring, x) \in Seq(Event) /\ Len(Append(ring, x)) = Len(ring) + 1
          /\ \A i \in 1..Len(ring) : Append(ring, x)[i] = ring[i]
          /\ Append(ring, x)[Len(ring) + 1] = x
      BY AppendProperties
    <2> DEFINE n == Len(ring) + 1
    <2>2. n \in Nat /\ \A i \in 1..n : i \in 1..Len(ring) \/ i = n
      BY <1>2
    <2>3. Ringed' = [i \in 1..n |-> Send(ring'[i])]
      BY <1>4, <2>1 DEF Ringed
    <2>4. /\ Append(Ringed, Send(x)) \in Seq(Effect) /\ Len(Append(Ringed, Send(x))) = Len(Ringed) + 1
          /\ \A i \in 1..Len(Ringed) : Append(Ringed, Send(x))[i] = Ringed[i]
          /\ Append(Ringed, Send(x))[Len(Ringed) + 1] = Send(x)
      BY <1>1, <1>3, AppendProperties
    <2>5. \A i \in 1..n : ring'[i] \in Event
      BY <1>4, <2>1
    <2> HIDE DEF n
    <2>6. Ringed' \in Seq(Effect) /\ Len(Ringed') = n
      BY <1>1, <2>2, <2>3, <2>5
    <2>7. \A i \in 1..n : Ringed'[i] = Append(Ringed, Send(x))[i]
      <3> SUFFICES ASSUME NEW i \in 1..n PROVE Ringed'[i] = Append(Ringed, Send(x))[i]
        OBVIOUS
      <3>1. Ringed'[i] = Send(ring'[i])
        BY <2>3
      <3>2. CASE i \in 1..Len(ring)
        BY <1>3, <1>4, <2>1, <2>4, <3>1, <3>2
      <3>3. CASE i = n
        BY <1>3, <1>4, <2>1, <2>4, <3>1, <3>3 DEF n
      <3> QED
        BY <2>2, <3>2, <3>3
    <2>8. Len(Append(Ringed, Send(x))) = n
      BY <1>3, <2>4 DEF n
    <2> QED
      BY <2>4, <2>6, <2>7, <2>8, SeqEqual
  <1>5. ASSUME ring # << >>, ring' = Tail(ring)
        PROVE  Ringed # << >> /\ Head(Ringed) = Send(Head(ring)) /\ Ringed' = Tail(Ringed)
    <2>1. /\ Len(ring) \in Nat \ {0} /\ Head(ring) = ring[1] /\ Tail(ring) \in Seq(Event)
          /\ Len(Tail(ring)) = Len(ring) - 1
          /\ \A i \in 1..(Len(ring) - 1) : Tail(ring)[i] = ring[i + 1]
      BY <1>5, HeadTailProperties, EmptySeq
    <2>2. Ringed # << >>
      BY <1>3, <2>1, EmptySeq
    <2>3. /\ Head(Ringed) = Ringed[1] /\ Tail(Ringed) \in Seq(Effect)
          /\ Len(Tail(Ringed)) = Len(ring) - 1
          /\ \A i \in 1..(Len(ring) - 1) : Tail(Ringed)[i] = Ringed[i + 1]
      BY <1>3, <2>2, HeadTailProperties
    <2> DEFINE n == Len(ring) - 1
    <2>4. n \in Nat /\ \A i \in 1..n : i + 1 \in 1..Len(ring)
      BY <2>1
    <2>5. Ringed' = [i \in 1..n |-> Send(ring'[i])]
      BY <1>5, <2>1 DEF Ringed
    <2>6. \A i \in 1..n : ring'[i] = ring[i + 1] /\ ring'[i] \in Event
      BY <1>2, <1>5, <2>1, <2>4
    <2> HIDE DEF n
    <2>7. Ringed' \in Seq(Effect) /\ Len(Ringed') = n
      BY <1>1, <2>4, <2>5, <2>6
    <2>8. \A i \in 1..n : Ringed'[i] = Tail(Ringed)[i]
      BY <1>3, <2>3, <2>4, <2>5, <2>6 DEF n
    <2>9. Ringed' = Tail(Ringed)
      BY <2>3, <2>7, <2>8, SeqEqual DEF n
    <2> QED
      BY <1>3, <2>1, <2>2, <2>3, <2>9
  <1> QED
    BY <1>3, <1>4, <1>5

\* How each kind of effect moves observers.
LEMMA EachShown ==
    ASSUME NEW v, NEW d, NEW f, NEW x
    PROVE  /\ \A c, ok : Shown(v, Reply(c, ok), v)
           /\ \A l : Shown(v, Send(Ev(d, "TimePos", l, f, x)), v)
           /\ \A l : Shown(v, Send(Ev(d, "Stopped", l, f, x)), NoEntry)
           /\ \A l : l # NoLoad => Shown(v, Send(Ev(d, "Playing", l, f, x)), EntryOf(l))
           /\ \A l : l # NoLoad => Shown(EntryOf(l), Send(Ev(d, "Paused", l, f, x)), EntryOf(l))
           /\ \A l : f # "noid" => Shown(EntryOf(l), Send(Ev(d, "Eof", l, f, x)), NoEntry)
  BY DEF Shown, Reply, Send, Ev

\* One or two effects, from the latch an actor had to the latch it has.
LEMMA FewShown ==
    ASSUME NEW d \in Deck, NEW l \in MaybeLoad, NEW x \in MaybeLoad, NEW c \in Caller, NEW ok \in BOOLEAN,
           NEW f \in {"plain", "errored", "landed", "crossfaded"}
    PROVE  /\ Chain(<<Reply(c, ok)>>, EntryOf(l), EntryOf(l))
           /\ Chain(<<Send(Ev(d, "TimePos", l, "plain", x)), Reply(c, ok)>>, EntryOf(l), EntryOf(l))
           /\ Chain(<<Send(Ev(d, "Stopped", NoLoad, "plain", NoLoad)), Reply(c, ok)>>,
                    EntryOf(l), NoEntry)
           /\ Chain(<<Send(Ev(d, "Stopped", NoLoad, "plain", NoLoad))>>, EntryOf(l), NoEntry)
           /\ Chain(<<Send(Ev(d, "Eof", l, f, x)), Reply(c, ok)>>, EntryOf(l), NoEntry)
           /\ Chain(<<Send(Ev(d, "Eof", l, f, x)),
                      Send(Ev(d, "Stopped", NoLoad, "plain", NoLoad))>>, EntryOf(l), NoEntry)
           /\ \A k \in Load :
                /\ Chain(<<Reply(c, ok), Send(Ev(d, "Playing", k, "plain", k))>>,
                         EntryOf(l), EntryOf(k))
                /\ Chain(<<Send(Ev(d, "Eof", l, f, x)), Send(Ev(d, "Playing", k, "noid", k))>>,
                         EntryOf(l), EntryOf(k))
           /\ l # NoLoad => \A s \in {"Playing", "Paused"} :
                Chain(<<Send(Ev(d, s, l, "plain", l)), Reply(c, ok)>>, EntryOf(l), EntryOf(l))
  <1> DEFINE v == EntryOf(l)
             r == Reply(c, ok)
             stop == Send(Ev(d, "Stopped", NoLoad, "plain", NoLoad))
             time == Send(Ev(d, "TimePos", l, "plain", x))
             eof == Send(Ev(d, "Eof", l, f, x))
  <1>1. v \in MaybeEntry /\ NoEntry \in MaybeEntry
    BY EntryOfType DEF MaybeEntry
  <1>2. {r, stop, time, eof} \subseteq Effect
    BY EffectType
  <1>3. /\ \A y \in MaybeEntry : Shown(y, r, y) /\ Shown(y, time, y) /\ Shown(y, stop, NoEntry)
        /\ Shown(v, eof, NoEntry)
    BY EachShown
  <1>4. \A k \in Load : k # NoLoad /\ k \in MaybeLoad /\ EntryOf(k) \in MaybeEntry
    BY EntryOfType, DeckAssumption DEF MaybeLoad
  <1>5. ASSUME NEW k \in MaybeLoad, k # NoLoad, NEW s \in {"Playing", "Paused"}, NEW g \in {"plain", "noid"}
        PROVE  /\ Send(Ev(d, s, k, g, k)) \in Effect
               /\ Shown(EntryOf(k), Send(Ev(d, s, k, g, k)), EntryOf(k))
               /\ s = "Playing" => \A y : Shown(y, Send(Ev(d, s, k, g, k)), EntryOf(k))
    BY <1>5, EffectType, EachShown
  <1>6. l # NoLoad => \A s \in {"Playing", "Paused"} :
            Chain(<<Send(Ev(d, s, l, "plain", l)), Reply(c, ok)>>, EntryOf(l), EntryOf(l))
    <2> SUFFICES ASSUME l # NoLoad, NEW s \in {"Playing", "Paused"}
                 PROVE  Chain(<<Send(Ev(d, s, l, "plain", l)), Reply(c, ok)>>, EntryOf(l), EntryOf(l))
      OBVIOUS
    <2> DEFINE p == Send(Ev(d, s, l, "plain", l))
    <2>1. p \in Effect /\ Shown(v, p, v)
      BY <1>5
    <2> HIDE DEF p, r
    <2>2. Chain(<<p, r>>, v, v)
      BY <1>1, <1>2, <1>3, <2>1, ChainFew
    <2> QED
      BY <2>2 DEF p, r
  <1>7. ASSUME NEW k \in Load
        PROVE  /\ Chain(<<Reply(c, ok), Send(Ev(d, "Playing", k, "plain", k))>>, v, EntryOf(k))
               /\ Chain(<<Send(Ev(d, "Eof", l, f, x)), Send(Ev(d, "Playing", k, "noid", k))>>,
                        v, EntryOf(k))
    <2> DEFINE p == Send(Ev(d, "Playing", k, "plain", k))
               n == Send(Ev(d, "Playing", k, "noid", k))
               w == EntryOf(k)
    <2>1. /\ p \in Effect /\ n \in Effect /\ w \in MaybeEntry
          /\ \A y : Shown(y, p, w) /\ Shown(y, n, w)
      BY <1>4, <1>5
    <2> HIDE DEF p, n, r, eof, v, w
    <2>2. Chain(<<r, p>>, v, w)
      BY <1>1, <1>2, <1>3, <2>1, ChainFew
    <2>3. Chain(<<eof, n>>, v, w)
      BY <1>1, <1>2, <1>3, <2>1, ChainFew
    <2> QED
      BY <2>2, <2>3 DEF p, n, r, eof, v, w
  <1> HIDE DEF v, r, stop, time, eof
  <1>8. Chain(<<r>>, v, v) /\ Chain(<<stop>>, v, NoEntry)
    BY <1>1, <1>2, <1>3, ChainFew
  <1>9. Chain(<<time, r>>, v, v)
    BY <1>1, <1>2, <1>3, ChainFew
  <1>10. Chain(<<stop, r>>, v, NoEntry) /\ Chain(<<eof, r>>, v, NoEntry)
    BY <1>1, <1>2, <1>3, ChainFew
  <1>11. Chain(<<eof, stop>>, v, NoEntry)
    BY <1>1, <1>2, <1>3, ChainFew
  <1> QED
    BY <1>6, <1>7, <1>8, <1>9, <1>10, <1>11 DEF v, r, stop, time, eof

\* An honest stop, whatever is latched.
LEMMA HonestStopShows ==
    ASSUME NEW d \in Deck, NEW a \in ActorState, NEW f \in {"plain", "errored"}, NEW x \in MaybeLoad
    PROVE  Chain(HonestStopSends(d, a, f, x), EntryOf(a.latch), NoEntry)
  <1> DEFINE stop == Send(Ev(d, "Stopped", NoLoad, "plain", NoLoad))
             eof == Send(Ev(d, "Eof", a.latch, f, x))
  <1>1. a.latch \in MaybeLoad /\ stop \in Effect /\ eof \in Effect
    BY EffectType DEF ActorState
  <1>2. EntryOf(a.latch) \in MaybeEntry /\ NoEntry \in MaybeEntry
    BY <1>1, EntryOfType DEF MaybeEntry
  <1>3. \A v : Shown(v, stop, NoEntry)
    BY EachShown
  <1>4. Shown(EntryOf(a.latch), eof, NoEntry)
    BY EachShown
  <1>5. HonestStopSends(d, a, f, x) = (IF a.latch = NoLoad THEN << >> ELSE <<eof>>) \o <<stop>>
    BY DEF HonestStopSends
  <1> HIDE DEF stop, eof
  <1>6. Chain(<<stop>>, EntryOf(a.latch), NoEntry) /\ Chain(<<eof>>, EntryOf(a.latch), NoEntry)
    BY <1>1, <1>2, <1>3, <1>4, ChainFew
  <1>7. <<stop>> \in Seq(Effect) /\ <<eof>> \in Seq(Effect)
    BY <1>1
  <1>8. << >> \o <<stop>> = <<stop>> /\ <<eof>> \o <<stop>> = Append(<<eof>>, stop)
    BY <1>1, <1>7, ConcatEmptySeq, AppendIsConcat
  <1>9. Chain(Append(<<eof>>, stop), EntryOf(a.latch), NoEntry)
    BY <1>1, <1>2, <1>3, <1>6, <1>7, ChainAppend
  <1> QED
    BY <1>5, <1>6, <1>8, <1>9

\* The commands: what is sent leads to what is latched.
LEMMA CmdShows ==
    ASSUME TypeInv, FlightInv, pub.latch \in MaybeEntry, HandleCmd(deck), UNCHANGED pub
    PROVE  FlightInv'
  <1> DEFINE c == Head(cmds[deck])
             a == actor[deck]
             b == actor'[deck]
  <1>1. /\ deck \in Deck /\ a \in ActorState /\ actor \in [Deck -> ActorState]
        /\ a.latch \in MaybeLoad /\ \A d \in Deck : actor[d] \in ActorState
        /\ a.warm \in Warm
    BY DeckIsOne DEF TypeInv, TypeOK, ActorState
  <1>2. a.out = << >> /\ ring' = ring
    BY DEF HandleCmd, PlayUrl, PrefetchWarm, PrefetchContinuation, SwitchWarmed,
           EmitCrossfadedEof, DropWarm, Pause, Resume, SetPause, Stop, Seek, Taking
  <1>3. ASSUME Chain(b.out, EntryOf(a.latch), EntryOf(b.latch)),
               b.warm.kind # "None" => b.warm.load # NoLoad
        PROVE  FlightInv'
    BY <1>2, <1>3, ActorShows
  <1>4. a.warm.kind # "None" => a.warm.load # NoLoad
    BY DEF FlightInv
  <1>5. NoWarm.kind = "None" /\ EntryOf(NoLoad) = NoEntry
    BY EntryOfType DEF NoWarm
  <1>6. ASSUME NEW op, Taking(deck, op)
        PROVE  /\ c.by \in Caller /\ (op \in LoadOps => c.load \in Load)
               /\ op \in LoadOps => c.load # NoLoad
    BY <1>1, <1>6, TakingType, DeckAssumption
  <1>7. CASE PlayUrl(deck) \/ SwitchWarmed(deck)
    <2>1. c.by \in Caller /\ c.load \in Load
      BY <1>6, <1>7 DEF PlayUrl, SwitchWarmed, LoadOps
    <2>2. \/ b = Loaded(deck, a, c)
          \/ b = Refused(a, c)
      BY <1>1, <1>7 DEF PlayUrl, SwitchWarmed
    <2> HIDE DEF c
    <2>3. CASE b = Loaded(deck, a, c)
      <3>1. /\ b.latch = c.load /\ b.warm = NoWarm
            /\ b.out = <<Reply(c.by, TRUE), Send(Ev(deck, "Playing", c.load, "plain", c.load))>>
        BY <1>1, <2>3 DEF Loaded, ActorState
      <3>2. Chain(b.out, EntryOf(a.latch), EntryOf(b.latch))
        BY <1>1, <2>1, <3>1, FewShown
      <3> QED
        BY <1>3, <1>5, <3>1, <3>2
    <2>4. CASE b = Refused(a, c)
      <3>1. b.latch = a.latch /\ b.warm = NoWarm /\ b.out = <<Reply(c.by, FALSE)>>
        BY <1>1, <2>4 DEF Refused, ActorState
      <3>2. Chain(b.out, EntryOf(a.latch), EntryOf(b.latch))
        BY <1>1, <2>1, <3>1, FewShown
      <3> QED
        BY <1>3, <1>5, <3>1, <3>2
    <2> QED
      BY <2>2, <2>3, <2>4
  <1>8. CASE PrefetchWarm(deck) \/ PrefetchContinuation(deck) \/ DropWarm(deck)
    <2>1. PICK ok \in BOOLEAN, w \in {NoWarm, [kind |-> "Skip", load |-> c.load],
                                      [kind |-> "Continuation", load |-> c.load]} :
            /\ b.latch = a.latch /\ b.warm = w /\ b.out = <<Reply(c.by, ok)>>
            /\ w # NoWarm => ~DropWarm(deck)
      <3>1. CASE PrefetchWarm(deck)
        <4>1. PICK ok \in LoadResults :
                actor' = [actor EXCEPT
                      ![deck].warm = IF ok THEN [kind |-> "Skip", load |-> c.load] ELSE NoWarm,
                      ![deck].adrift = @ \/ EndQueued(deck),
                      ![deck].out = <<Reply(c.by, ok)>>]
          BY <3>1 DEF PrefetchWarm
        <4>2. ok \in BOOLEAN
          BY DeckAssumption
        <4>3. /\ b.latch = a.latch /\ b.out = <<Reply(c.by, ok)>>
              /\ b.warm = IF ok THEN [kind |-> "Skip", load |-> c.load] ELSE NoWarm
          BY <1>1, <4>1 DEF ActorState
        <4>4. ~DropWarm(deck)
          BY <3>1 DEF PrefetchWarm, DropWarm, Taking
        <4> QED
          BY <4>2, <4>3, <4>4
      <3>2. CASE PrefetchContinuation(deck)
        <4>1. PICK ok \in LoadResults :
                actor' = [actor EXCEPT
                      ![deck].warm = IF ok THEN [kind |-> "Continuation", load |-> c.load]
                                     ELSE NoWarm,
                      ![deck].adrift = @ \/ EndQueued(deck),
                      ![deck].out = <<Reply(c.by, ok)>>]
          BY <3>2 DEF PrefetchContinuation
        <4>2. ok \in BOOLEAN
          BY DeckAssumption
        <4>3. /\ b.latch = a.latch /\ b.out = <<Reply(c.by, ok)>>
              /\ b.warm = IF ok THEN [kind |-> "Continuation", load |-> c.load] ELSE NoWarm
          BY <1>1, <4>1 DEF ActorState
        <4>4. ~DropWarm(deck)
          BY <3>2 DEF PrefetchContinuation, DropWarm, Taking
        <4> QED
          BY <4>2, <4>3, <4>4
      <3>3. CASE DropWarm(deck)
        <4>1. b.latch = a.latch /\ b.out = <<Reply(c.by, TRUE)>> /\ b.warm = NoWarm
          BY <1>1, <3>3 DEF DropWarm, ActorState
        <4> QED
          BY <4>1
      <3> QED
        BY <1>8, <3>1, <3>2, <3>3
    <2>2. c.by \in Caller
      BY <1>6, <1>8 DEF PrefetchWarm, PrefetchContinuation, DropWarm
    <2>3. w = NoWarm \/ w.load # NoLoad
      <3>1. CASE DropWarm(deck)
        BY <2>1, <3>1
      <3>2. CASE PrefetchWarm(deck) \/ PrefetchContinuation(deck)
        <4>1. c.load # NoLoad
          BY <1>6, <3>2 DEF PrefetchWarm, PrefetchContinuation, LoadOps
        <4> QED
          BY <4>1
      <3> QED
        BY <1>8, <3>1, <3>2
    <2> HIDE DEF c
    <2>4. Chain(b.out, EntryOf(a.latch), EntryOf(b.latch))
      BY <1>1, <2>1, <2>2, FewShown
    <2> QED
      BY <1>3, <1>5, <2>1, <2>3, <2>4
  <1>9. CASE EmitCrossfadedEof(deck)
    <2>1. c.by \in Caller
      BY <1>6, <1>9 DEF EmitCrossfadedEof
    <2> DEFINE x == Playing(mpv[deck])
               r == Reply(c.by, TRUE)
               eof == Send(Ev(deck, "Eof", a.latch, "crossfaded", x))
    <2>2. x \in MaybeLoad
      BY <1>1, PlayingType DEF TypeInv
    <2>3. /\ b.latch = NoLoad /\ b.warm = a.warm
          /\ b.out = (IF a.latch = NoLoad THEN << >> ELSE <<eof>>) \o <<r>>
      BY <1>1, <1>9 DEF EmitCrossfadedEof, ActorState
    <2>4. EntryOf(a.latch) \in MaybeEntry /\ NoEntry \in MaybeEntry /\ r \in Effect /\ eof \in Effect
      BY <1>1, <2>1, <2>2, EntryOfType, EffectType DEF MaybeEntry
    <2>5. /\ Shown(EntryOf(a.latch), eof, NoEntry)
          /\ \A v : Shown(v, r, v)
      BY EachShown
    <2> HIDE DEF c, x, r, eof
    <2>6. <<r>> \in Seq(Effect) /\ <<eof>> \in Seq(Effect)
      BY <2>4
    <2>7. << >> \o <<r>> = <<r>> /\ <<eof>> \o <<r>> = Append(<<eof>>, r)
      BY <2>4, <2>6, ConcatEmptySeq, AppendIsConcat
    <2>8. Chain(<<eof>>, EntryOf(a.latch), NoEntry) /\ Chain(<<r>>, NoEntry, NoEntry)
      BY <2>4, <2>5, ChainFew
    <2>9. Chain(Append(<<eof>>, r), EntryOf(a.latch), NoEntry)
      BY <2>4, <2>5, <2>6, <2>8, ChainAppend
    <2>10. Chain(b.out, EntryOf(a.latch), EntryOf(b.latch))
      BY <1>5, <2>3, <2>7, <2>8, <2>9
    <2> QED
      BY <1>3, <1>4, <2>3, <2>10
  <1>10. CASE Pause(deck) \/ Resume(deck)
    <2>1. PICK op \in {"Pause", "Resume"}, on \in BOOLEAN : SetPause(deck, op, on)
      BY <1>10 DEF Pause, Resume
    <2>2. c.by \in Caller
      BY <1>6, <2>1 DEF SetPause
    <2>3. /\ b.latch = a.latch /\ b.warm = a.warm
          /\ b.out = IF a.latch = NoLoad THEN <<Reply(c.by, TRUE)>>
                     ELSE <<Send(Ev(deck, IF on THEN "Paused" ELSE "Playing", a.latch, "plain", a.latch)),
                            Reply(c.by, TRUE)>>
      BY <1>1, <2>1 DEF SetPause, ActorState
    <2> HIDE DEF c
    <2>4. Chain(b.out, EntryOf(a.latch), EntryOf(b.latch))
      BY <1>1, <2>2, <2>3, FewShown
    <2> QED
      BY <1>3, <1>4, <2>3, <2>4
  <1>11. CASE Stop(deck)
    <2>1. c.by \in Caller
      BY <1>6, <1>11 DEF Stop
    <2>2. /\ b.latch = NoLoad /\ b.warm = NoWarm
          /\ b.out = <<Send(Ev(deck, "Stopped", NoLoad, "plain", NoLoad)), Reply(c.by, TRUE)>>
      BY <1>1, <1>11 DEF Stop, ActorState
    <2> HIDE DEF c
    <2>3. Chain(b.out, EntryOf(a.latch), NoEntry)
      BY <1>1, <2>1, <2>2, FewShown
    <2>4. EntryOf(b.latch) = NoEntry
      BY <1>5, <2>2
    <2> QED
      BY <1>3, <1>5, <2>2, <2>3, <2>4
  <1>12. CASE Seek(deck)
    <2> DEFINE x == Playing(mpv[deck])
    <2>1. c.by \in Caller /\ x \in MaybeLoad
      BY <1>1, <1>6, <1>12, PlayingType DEF Seek, TypeInv
    <2>2. /\ b.latch = a.latch /\ b.warm = a.warm
          /\ b.out = IF mpv[deck].pos = 0 THEN <<Reply(c.by, FALSE)>>
                     ELSE <<Send(Ev(deck, "TimePos", a.latch, "plain", x)), Reply(c.by, TRUE)>>
      BY <1>1, <1>12 DEF Seek, ActorState
    <2> HIDE DEF c, x
    <2>3. Chain(b.out, EntryOf(a.latch), EntryOf(b.latch))
      BY <1>1, <2>1, <2>2, FewShown
    <2> QED
      BY <1>3, <1>4, <2>2, <2>3
  <1> QED
    BY <1>7, <1>8, <1>9, <1>10, <1>11, <1>12 DEF HandleCmd

\* What the actor makes of mpv's reports.
LEMMA PumpShows ==
    ASSUME TypeInv, FlightInv, pub.latch \in MaybeEntry, PumpEvent(deck), UNCHANGED pub
    PROVE  FlightInv'
  <1> DEFINE e == Head(mpv[deck].ends)
             a == actor[deck]
             b == actor'[deck]
  <1>1. /\ deck \in Deck /\ a \in ActorState /\ actor \in [Deck -> ActorState]
        /\ a.latch \in MaybeLoad /\ a.warm \in Warm /\ a.out \in Seq(Effect)
        /\ mpv[deck] \in Core
    BY DeckIsOne DEF TypeInv, TypeOK, ActorState
  <1>2. a.out = << >>
    BY DEF PumpEvent, PumpPosition, EndFileSkip, EndFileLanded, EndFileHonestStop, EndFileStop,
           LoadFailure, PumpingEnd, Pumping
  <1>3. ASSUME ring' = ring, Chain(b.out, EntryOf(a.latch), EntryOf(b.latch)),
               b.warm.kind # "None" => b.warm.load # NoLoad
        PROVE  FlightInv'
    BY <1>2, <1>3, ActorShows
  <1>4. a.warm.kind # "None" => a.warm.load # NoLoad
    BY DEF FlightInv
  <1>5. NoWarm.kind = "None" /\ EntryOf(NoLoad) = NoEntry
    BY EntryOfType DEF NoWarm
  <1>6. Chain(<< >>, EntryOf(a.latch), EntryOf(a.latch))
    BY <1>1, EntryOfType, ChainNil
  <1>7. ASSUME NEW r, PumpingEnd(deck, r)
        PROVE  ring' = ring /\ e \in EndReport /\ e.load \in MaybeLoad
    <2>1. mpv[deck].ends \in Seq(EndReport) /\ mpv[deck].ends # << >>
      BY <1>1, <1>7 DEF PumpingEnd, Core
    <2> QED
      <3>1. e \in EndReport
        BY <2>1, HeadTailProperties
      <3>2. ring' = ring
        BY <1>7 DEF PumpingEnd
      <3> HIDE DEF e
      <3>3. e.load \in MaybeLoad
        BY <3>1 DEF EndReport, MaybeLoad
      <3> QED
        BY <3>1, <3>2, <3>3
  <1>8. CASE PumpPosition(deck)
    <2> DEFINE x == Send(Ev(deck, "TimePos", a.latch, "plain", mpv[deck].tick))
    <2>1. actor' = actor
      BY <1>8 DEF PumpPosition
    <2>2. CASE ring' = ring
      BY <1>2, <1>3, <1>4, <1>6, <2>1, <2>2
    <2>3. CASE ring' = Append(ring, x.ev)
      <3>1. PICK u \in MaybeEntry : Chain(Ringed, pub.latch, u) /\ Chain(a.out, u, EntryOf(a.latch))
        BY DEF FlightInv
      <3>2. x \in Effect /\ Shown(u, x, u)
        BY <1>1, EffectType, EachShown DEF Core
      <3>3. Ringed \in Seq(Effect) /\ Ringed' = Append(Ringed, x)
        <4> DEFINE y == Ev(deck, "TimePos", a.latch, "plain", mpv[deck].tick)
        <4>1. y \in Event /\ x = Send(y) /\ x.ev = y
          BY <1>1, EffectType DEF Core, Send
        <4>2. ring \in Seq(Event)
          BY DEF TypeInv, TypeOK
        <4> HIDE DEF y
        <4> QED
          BY <2>3, <4>1, <4>2, RingedGrows
      <3> HIDE DEF x
      <3>4. Chain(Append(Ringed, x), pub.latch, u)
        BY <3>1, <3>2, <3>3, ChainAppend
      <3>5. Chain(Ringed', pub'.latch, u) /\ Chain(b.out, u, EntryOf(b.latch))
        BY <2>1, <3>1, <3>3, <3>4
      <3> QED
        BY <1>4, <2>1, <3>5 DEF FlightInv, Chain, Shown, Ringed
    <2> QED
      BY <1>8, <2>2, <2>3 DEF PumpPosition, Send
  <1>9. CASE EndFileSkip(deck)
    <2>1. ring' = ring
      BY <1>7, <1>9 DEF EndFileSkip
    <2>2. b.latch = a.latch /\ b.warm = a.warm /\ b.out = a.out
      BY <1>1, <1>9 DEF EndFileSkip, ActorState
    <2> QED
      BY <1>2, <1>3, <1>4, <1>6, <2>1, <2>2
  <1>10. CASE EndFileLanded(deck)
    <2>1. ring' = ring /\ e.load \in MaybeLoad /\ a.warm.kind = "Continuation"
      BY <1>7, <1>10 DEF EndFileLanded
    <2>2. a.warm.load \in Load
      BY <1>1, <1>4, <2>1 DEF Warm, MaybeLoad
    <2>3. /\ b.latch = a.warm.load /\ b.warm = NoWarm
          /\ b.out = <<Send(Ev(deck, "Eof", a.latch, "landed", e.load)),
                       Send(Ev(deck, "Playing", a.warm.load, "noid", a.warm.load))>>
      BY <1>1, <1>10 DEF EndFileLanded, ActorState
    <2>4. PICK c \in Caller : TRUE
      BY TasksDiffer
    <2> HIDE DEF e
    <2>5. Chain(b.out, EntryOf(a.latch), EntryOf(b.latch))
      BY <1>1, <2>1, <2>2, <2>3, <2>4, FewShown
    <2> QED
      BY <1>3, <1>5, <2>1, <2>3, <2>5
  <1>11. ASSUME NEW f \in {"plain", "errored"}, NEW r, PumpingEnd(deck, r),
                b = EmitHonestStop(deck, a, f, e.load)
                \/ \E x \in BOOLEAN : b = [EmitHonestStop(deck, a, f, e.load) EXCEPT !.adrift = x]
         PROVE  FlightInv'
    <2>1. ring' = ring /\ e.load \in MaybeLoad
      BY <1>7, <1>11
    <2>2. EmitHonestStop(deck, a, f, e.load) \in ActorState
      BY <1>1, <2>1, EmitHonestStopType
    <2>3. /\ EmitHonestStop(deck, a, f, e.load).latch = NoLoad
          /\ EmitHonestStop(deck, a, f, e.load).warm = NoWarm
          /\ EmitHonestStop(deck, a, f, e.load).out = HonestStopSends(deck, a, f, e.load)
      BY <1>1 DEF EmitHonestStop, ActorState
    <2>4. b.latch = NoLoad /\ b.warm = NoWarm /\ b.out = HonestStopSends(deck, a, f, e.load)
      <3> DEFINE h == EmitHonestStop(deck, a, f, e.load)
      <3> HIDE DEF h
      <3>1. \A x \in BOOLEAN : LET k == [h EXCEPT !.adrift = x] IN
               k.latch = h.latch /\ k.warm = h.warm /\ k.out = h.out
        BY <2>2 DEF ActorState, h
      <3> QED
        BY <1>11, <2>3, <3>1 DEF h
    <2>5. Chain(b.out, EntryOf(a.latch), NoEntry)
      BY <1>1, <2>1, <2>4, HonestStopShows
    <2> QED
      BY <1>3, <1>5, <2>1, <2>4, <2>5
  <1>12. CASE EndFileHonestStop(deck)
    <2>1. PumpingEnd(deck, {"Eof", "Error"})
      BY <1>12 DEF EndFileHonestStop
    <2>2. EndFlag(e) \in {"plain", "errored"}
      BY DEF EndFlag
    <2>3. b = [EmitHonestStop(deck, a, EndFlag(e), e.load)
                  EXCEPT !.adrift = @ \/ a.warm.kind = "Continuation"]
      BY <1>1, <1>12 DEF EndFileHonestStop
    <2>4. \E x \in BOOLEAN : b = [EmitHonestStop(deck, a, EndFlag(e), e.load) EXCEPT !.adrift = x]
      <3> DEFINE h == EmitHonestStop(deck, a, EndFlag(e), e.load)
                 x == h.adrift \/ a.warm.kind = "Continuation"
      <3>1. b = [h EXCEPT !.adrift = x] /\ x \in BOOLEAN
        BY <2>3
      <3> HIDE DEF h, x
      <3> QED
        BY <3>1 DEF h
    <2> QED
      BY <1>11, <2>1, <2>2, <2>4
  <1>13. CASE EndFileStop(deck)
    <2>1. ring' = ring
      BY <1>7, <1>13 DEF EndFileStop
    <2>2. b.latch = a.latch /\ b.warm = NoWarm /\ b.out = a.out
      BY <1>1, <1>13 DEF EndFileStop, ActorState
    <2> QED
      BY <1>2, <1>3, <1>5, <1>6, <2>1, <2>2
  <1>14. CASE LoadFailure(deck)
    <2>1. PumpingEnd(deck, {"LoadErr"}) /\ ring' = ring
      BY <1>7, <1>14 DEF LoadFailure
    <2>2. \/ b = EmitHonestStop(deck, a, "errored", e.load)
          \/ b.latch = a.latch /\ b.warm = a.warm /\ b.out = a.out
      BY <1>1, <1>14 DEF LoadFailure, ActorState
    <2> QED
      BY <1>2, <1>3, <1>4, <1>6, <1>11, <2>1, <2>2
  <1> QED
    BY <1>8, <1>9, <1>10, <1>12, <1>13, <1>14 DEF PumpEvent

\* A send goes from the actor to the ring; a reply concerns no observer.
LEMMA EffectShows ==
    ASSUME TypeInv, FlightInv, pub.latch \in MaybeEntry, ActorEffect(deck), UNCHANGED pub
    PROVE  FlightInv'
  <1> DEFINE out == actor[deck].out
             e == Head(out)
             b == actor'[deck]
  <1>1. /\ deck \in Deck /\ actor[deck] \in ActorState /\ actor \in [Deck -> ActorState]
        /\ out \in Seq(Effect) /\ out # << >> /\ ring \in Seq(Event)
    BY DeckIsOne DEF TypeInv, TypeOK, ActorState, ActorEffect
  <1>2. /\ b.latch = actor[deck].latch /\ b.warm = actor[deck].warm /\ b.out = Tail(out)
    BY <1>1 DEF ActorEffect, ActorState
  <1>3. actor[deck].warm.kind # "None" => actor[deck].warm.load # NoLoad
    BY DEF FlightInv
  <1>4. PICK u \in MaybeEntry : Chain(Ringed, pub.latch, u) /\ Chain(out, u, EntryOf(actor[deck].latch))
    BY DEF FlightInv
  <1>5. PICK w \in MaybeEntry : Shown(u, e, w) /\ Chain(Tail(out), w, EntryOf(actor[deck].latch))
    <2>1. \E w \in MaybeEntry : Shown(u, Head(out), w) /\ Chain(Tail(out), w, EntryOf(actor[deck].latch))
      <3> HIDE DEF out
      <3> QED
        BY <1>1, <1>4, ChainHead
    <2> QED
      BY <2>1
  <1>6. e \in Effect
    BY <1>1, HeadTailProperties
  <1>7. Ringed \in Seq(Effect)
    BY <1>1, RingedGrows
  <1>8. Chain(Ringed', pub.latch, w)
    <2>1. CASE e.what = "send" /\ ring' = Append(ring, e.ev)
      <3>1. e.ev \in Event /\ e = Send(e.ev)
        <4> HIDE DEF e
        <4> QED
          BY <1>6, <2>1 DEF Effect, Send
      <3>2. Ringed' = Append(Ringed, e)
        <4>1. Ringed' = Append(Ringed, Send(e.ev))
          BY <1>1, <2>1, <3>1, RingedGrows
        <4> QED
          BY <3>1, <4>1
      <3> HIDE DEF e
      <3> QED
        BY <1>4, <1>5, <1>6, <1>7, <3>2, ChainAppend
    <2>2. CASE e.what = "reply" /\ ring' = ring
      <3>1. w = u /\ Ringed' = Ringed
        BY <1>5, <2>2 DEF Shown, Ringed
      <3> QED
        BY <1>4, <3>1
    <2> QED
      BY <2>1, <2>2 DEF ActorEffect
  <1>9. Chain(Ringed', pub'.latch, w) /\ Chain(b.out, w, EntryOf(b.latch))
    BY <1>2, <1>5, <1>8
  <1> QED
    BY <1>2, <1>3, <1>9 DEF FlightInv, Chain, Shown, Ringed

\* The spine takes the head of the ring, and the publisher goes where it leads.
LEMMA ReadShows ==
    ASSUME TypeInv, FlightInv, ring # << >>, ring' = Tail(ring), UNCHANGED actor,
           \A w \in MaybeEntry : Shown(pub.latch, Send(Head(ring)), w) => pub'.latch = w
    PROVE  FlightInv'
  <1>1. PICK u \in MaybeEntry : /\ Chain(Ringed, pub.latch, u)
                                /\ Chain(actor[deck].out, u, EntryOf(actor[deck].latch))
    BY DEF FlightInv
  <1>2. /\ Ringed \in Seq(Effect) /\ Ringed # << >> /\ Head(Ringed) = Send(Head(ring))
        /\ Ringed' = Tail(Ringed)
    BY RingedGrows DEF TypeInv, TypeOK
  <1>3. PICK w \in MaybeEntry : Shown(pub.latch, Head(Ringed), w) /\ Chain(Tail(Ringed), w, u)
    BY <1>1, <1>2, ChainHead
  <1>4. pub'.latch = w
    BY <1>2, <1>3
  <1>5. Chain(Ringed', pub'.latch, u) /\ Chain(actor'[deck].out, u, EntryOf(actor'[deck].latch))
    BY <1>1, <1>2, <1>3, <1>4
  <1>6. actor'[deck].warm.kind # "None" => actor'[deck].warm.load # NoLoad
    BY DEF FlightInv
  <1> QED
    BY <1>5, <1>6 DEF FlightInv, Chain, Shown, Ringed

\* What the head of the ring is about.
LEMMA HeadShown ==
    ASSUME TypeInv, FlightInv, pub.latch \in MaybeEntry, ring # << >>
    PROVE  /\ Head(ring) \in Event
           /\ \E w \in MaybeEntry : Shown(pub.latch, Send(Head(ring)), w)
  <1>1. PICK u \in MaybeEntry : Chain(Ringed, pub.latch, u)
    BY DEF FlightInv
  <1>2. ring \in Seq(Event)
    BY DEF TypeInv, TypeOK
  <1>3. Ringed \in Seq(Effect) /\ Ringed # << >> /\ Head(Ringed) = Send(Head(ring))
    <2>1. ring \in Seq(Event) /\ Ringed \in Seq(Effect)
      BY <1>2, RingedGrows
    <2>2. Len(ring) \in Nat \ {0} /\ Head(ring) = ring[1]
      BY <1>2, EmptySeq
    <2>3. Len(Ringed) = Len(ring) /\ Ringed[1] = Send(ring[1])
      BY <2>2 DEF Ringed
    <2>4. Ringed # << >>
      BY <2>1, <2>2, <2>3, EmptySeq
    <2> QED
      BY <2>1, <2>2, <2>3, <2>4
  <1>4. \E w \in MaybeEntry : Shown(pub.latch, Head(Ringed), w)
    BY <1>1, <1>3, ChainHead
  <1>5. Head(ring) \in Event
    BY <1>2, HeadTailProperties
  <1> QED
    BY <1>3, <1>4, <1>5

\* Giving up on an answer changes no send.
LEMMA TimeoutShows ==
    ASSUME TypeInv, FlightInv, AdvanceTimeout
    PROVE  FlightInv'
  <1>1. /\ ring' = ring /\ pub' = pub
        /\ actor'[deck].latch = actor[deck].latch /\ actor'[deck].warm = actor[deck].warm
        /\ Len(actor'[deck].out) = Len(actor[deck].out)
        /\ \A i \in 1..Len(actor[deck].out) :
                actor'[deck].out[i] = AbandonReply(actor[deck].out[i])
    BY AbandonedSame, DeckIsOne DEF AdvanceTimeout
  <1>2. PICK u \in MaybeEntry : /\ Chain(Ringed, pub.latch, u)
                                /\ Chain(actor[deck].out, u, EntryOf(actor[deck].latch))
    BY DEF FlightInv
  <1>3. \A v, w : \A x \in Effect : Shown(v, x, w) => Shown(v, AbandonReply(x), w)
    BY DEF Shown, AbandonReply, Effect
  <1>4. actor[deck].out \in Seq(Effect)
    BY DeckIsOne DEF TypeInv, TypeOK, ActorState
  <1>5. Chain(actor'[deck].out, u, EntryOf(actor'[deck].latch))
    <2>1. PICK h \in [0..Len(actor[deck].out) -> MaybeEntry] :
            /\ h[0] = u /\ h[Len(actor[deck].out)] = EntryOf(actor[deck].latch)
            /\ \A i \in 1..Len(actor[deck].out) : Shown(h[i - 1], actor[deck].out[i], h[i])
      BY <1>2 DEF Chain
    <2>2. \A i \in 1..Len(actor[deck].out) : actor[deck].out[i] \in Effect
      BY <1>4, ElementOfSeq
    <2>3. \A i \in 1..Len(actor[deck].out) : Shown(h[i - 1], actor'[deck].out[i], h[i])
      BY <1>1, <1>3, <2>1, <2>2
    <2> QED
      BY <1>1, <2>1, <2>3 DEF Chain
  <1>6. Chain(Ringed', pub'.latch, u)
    BY <1>1, <1>2 DEF Ringed
  <1> QED
    BY <1>1, <1>5, <1>6 DEF FlightInv, Chain, Shown, Ringed
-----------------------------------------------------------------------------
(***************************************************************************)
(* The publisher.  A swallowed Stopped, and the whole of an advance, find  *)
(* it with no track open: the Eof has closed it.                           *)
(***************************************************************************)
PubInv ==
    /\ pub.suppress => pub.latch = NoEntry
    /\ pub.last = "Stopped" => pub.latch = NoEntry
    /\ task[Spine].pc \in AdvancePcs => pub.latch = NoEntry

PlayInv == Types /\ FlightInv /\ PubInv

\* A step of observers' track, or none.
LStep == [L!Next]_<<pub.latch, pub.edges>>

LEMMA PlayingShows ==
    ASSUME PlayInv, SpinePlaying
    PROVE  FlightInv' /\ PubInv' /\ pub' \in Publisher /\ LStep
  <1> DEFINE e == Head(ring)
             q == EntryOf(e.load)
  <1>1. /\ ring # << >> /\ e.kind = "Playing" /\ ring' = Tail(ring) /\ actor' = actor
        /\ pub' = D!OnPlaying(pub, q) /\ task' = task /\ task[Spine].pc = "idle"
    BY DEF SpinePlaying, SpineReads, At
  <1>2. pub \in Publisher /\ pub.latch \in MaybeEntry /\ TypeInv /\ FlightInv
    BY DEF PlayInv, Types, Publisher
  <1>3. e \in Event /\ \E w \in MaybeEntry : Shown(pub.latch, Send(e), w)
    BY <1>1, <1>2, HeadShown
  <1> HIDE DEF e
  <1>4. e.load # NoLoad /\ e.load \in Load
    BY <1>1, <1>3 DEF Shown, Send, Event, MaybeLoad
  <1>5. q \in Entry /\ q # NoEntry /\ q \in MaybeEntry
    BY <1>4, EntryOfType DEF MaybeEntry
  <1> HIDE DEF q
  <1>6. pub'.latch = q /\ pub'.last = "Playing" /\ pub'.suppress = FALSE
    BY <1>1 DEF D!OnPlaying
  <1>7. FlightInv'
    <2>1. \A w : Shown(pub.latch, Send(e), w) => w = q
      BY <1>1 DEF Shown, Send, q
    <2> QED
      BY <1>1, <1>2, <1>6, <2>1, ReadShows DEF e
  <1>8. PubInv'
    BY <1>1, <1>6 DEF PubInv, AdvancePcs
  <1>9. pub' \in Publisher
    BY <1>1, <1>2, <1>5, PublisherType
  <1>10. LStep
    <2>1. pub'.edges = IF pub.latch = q
               THEN IF pub.last = "Playing" THEN << >> ELSE <<D!StateChanged("Playing")>>
               ELSE IF pub.latch = NoEntry THEN <<D!TrackStart(q)>>
               ELSE <<D!TrackEnd(pub.latch), D!TrackStart(q)>>
      BY <1>1 DEF D!OnPlaying
    <2>2. CASE pub.latch = q /\ pub.last = "Playing"
      BY <1>6, <2>1, <2>2 DEF LStep, L!Next, L!Nothing
    <2>3. CASE pub.latch = q /\ pub.last # "Playing"
      BY <1>5, <1>6, <2>1, <2>3 DEF LStep, L!Next, L!PauseOrResume, L!D!StateChanged, D!StateChanged
    <2>4. CASE pub.latch # q /\ pub.latch = NoEntry
      BY <1>5, <1>6, <2>1, <2>4 DEF LStep, L!Next, L!Start, L!D!TrackStart, D!TrackStart
    <2>5. CASE pub.latch # q /\ pub.latch # NoEntry
      <3>1. pub.latch \in Entry
        BY <1>2, <2>5 DEF MaybeEntry
      <3> QED
        BY <1>5, <1>6, <2>1, <2>5, <3>1
        DEF LStep, L!Next, L!EndThenStart, L!D!TrackStart, D!TrackStart, L!D!TrackEnd, D!TrackEnd
    <2> QED
      BY <2>2, <2>3, <2>4, <2>5
  <1> QED
    BY <1>7, <1>8, <1>9, <1>10

LEMMA PausedShows ==
    ASSUME PlayInv, SpinePaused
    PROVE  FlightInv' /\ PubInv' /\ pub' \in Publisher /\ LStep
  <1> DEFINE e == Head(ring)
  <1>1. /\ ring # << >> /\ e.kind = "Paused" /\ ring' = Tail(ring) /\ actor' = actor
        /\ pub' = D!OnPaused(pub) /\ task' = task
    BY DEF SpinePaused, SpineReads
  <1>2. pub \in Publisher /\ pub.latch \in MaybeEntry /\ TypeInv /\ FlightInv /\ PubInv
    BY DEF PlayInv, Types, Publisher
  <1>3. e \in Event /\ \E w \in MaybeEntry : Shown(pub.latch, Send(e), w)
    BY <1>1, <1>2, HeadShown
  <1> HIDE DEF e
  <1>4. e.load \in Load /\ EntryOf(e.load) = pub.latch
    BY <1>1, <1>3 DEF Shown, Send, Event, MaybeLoad
  <1>5. pub.latch # NoEntry
    BY <1>4, EntryOfType
  <1>6. /\ pub'.latch = pub.latch /\ pub'.suppress = pub.suppress
        /\ pub'.last = IF pub.last # "Playing" THEN pub.last ELSE "Paused"
        /\ pub'.edges = IF pub.last # "Playing" THEN << >> ELSE <<D!StateChanged("Paused")>>
    BY <1>1, <1>2 DEF D!OnPaused, Publisher
  <1>7. FlightInv'
    <2>1. \A w : Shown(pub.latch, Send(e), w) => w = pub.latch
      BY <1>1 DEF Shown, Send
    <2> QED
      BY <1>1, <1>2, <1>6, <2>1, ReadShows DEF e
  <1>8. PubInv'
    BY <1>1, <1>2, <1>6 DEF PubInv
  <1>9. pub' \in Publisher
    <2>1. NoEntry \in MaybeEntry
      BY DEF MaybeEntry
    <2> QED
      BY <1>1, <1>2, <2>1, PublisherType
  <1>10. LStep
    <2>1. CASE pub.last # "Playing"
      BY <1>6, <2>1 DEF LStep, L!Next, L!Nothing
    <2>2. CASE pub.last = "Playing"
      BY <1>5, <1>6, <2>2 DEF LStep, L!Next, L!PauseOrResume, L!D!StateChanged, D!StateChanged
    <2> QED
      BY <2>1, <2>2
  <1> QED
    BY <1>7, <1>8, <1>9, <1>10

LEMMA StoppedShows ==
    ASSUME PlayInv, SpineStopped
    PROVE  FlightInv' /\ PubInv' /\ pub' \in Publisher /\ LStep
  <1> DEFINE e == Head(ring)
  <1>1. /\ ring # << >> /\ e.kind = "Stopped" /\ ring' = Tail(ring) /\ actor' = actor
        /\ pub' = D!OnStopped(pub) /\ task' = task
    BY DEF SpineStopped, SpineReads
  <1>2. pub \in Publisher /\ TypeInv /\ FlightInv /\ PubInv /\ NoEntry \in MaybeEntry
    BY DEF PlayInv, Types, MaybeEntry
  <1> HIDE DEF e
  <1>3. ASSUME pub.suppress PROVE LStep
    <2>1. /\ pub'.latch = pub.latch /\ pub'.suppress = FALSE /\ pub'.last = pub.last
          /\ pub'.edges = << >>
      BY <1>1, <1>2, <1>3 DEF D!OnStopped, Publisher
    <2> QED
      BY <2>1 DEF LStep, L!Next, L!Nothing
  <1>4. ASSUME ~pub.suppress PROVE LStep
    <2>1. /\ pub'.latch = NoEntry /\ pub'.last = "Stopped" /\ pub'.suppress = pub.suppress
          /\ pub'.edges = IF pub.last = "Stopped" THEN << >> ELSE <<D!StateChanged("Stopped")>>
      BY <1>1, <1>2, <1>4 DEF D!OnStopped, Publisher
    <2>2. CASE pub.last = "Stopped"
      <3>1. pub'.latch = pub.latch
        BY <1>2, <2>1, <2>2 DEF PubInv
      <3> QED
        BY <2>1, <2>2, <3>1 DEF LStep, L!Next, L!Nothing
    <2>3. CASE pub.last # "Stopped"
      BY <2>1, <2>3 DEF LStep, L!Next, L!Stopped, L!D!StateChanged, D!StateChanged
    <2> QED
      BY <2>2, <2>3
  <1>5. pub'.latch = NoEntry
    <2>1. pub.suppress => pub.latch = NoEntry
      BY <1>2 DEF PubInv
    <2> QED
      BY <1>1, <1>2, <2>1 DEF D!OnStopped, Publisher
  <1>6. FlightInv'
    <2>1. \A w : Shown(pub.latch, Send(e), w) => w = NoEntry
      BY <1>1 DEF Shown, Send
    <2> QED
      BY <1>1, <1>2, <1>5, <2>1, ReadShows DEF e
  <1>7. PubInv'
    BY <1>5 DEF PubInv
  <1>8. pub' \in Publisher
    BY <1>1, <1>2, PublisherType
  <1> QED
    BY <1>3, <1>4, <1>6, <1>7, <1>8

LEMMA TimePosShows ==
    ASSUME PlayInv, SpineTimePos
    PROVE  FlightInv' /\ PubInv' /\ pub' \in Publisher /\ LStep
  <1> DEFINE e == Head(ring)
  <1>1. /\ ring # << >> /\ e.kind = "TimePos" /\ ring' = Tail(ring) /\ actor' = actor
        /\ pub' = pub /\ task' = task
    BY DEF SpineTimePos, SpineReads
  <1>2. pub \in Publisher /\ TypeInv /\ FlightInv /\ PubInv
    BY DEF PlayInv, Types
  <1> HIDE DEF e
  <1>3. FlightInv'
    <2>1. \A w : Shown(pub.latch, Send(e), w) => w = pub.latch
      BY <1>1 DEF Shown, Send
    <2> QED
      BY <1>1, <1>2, <2>1, ReadShows DEF e
  <1> QED
    BY <1>1, <1>2, <1>3 DEF PubInv, LStep

\* The end of a track, and what the spine's task becomes with it.
LEMMA EofShows ==
    ASSUME PlayInv, SpineEof
    PROVE  FlightInv' /\ PubInv' /\ pub' \in Publisher /\ LStep /\ TaskTypes'
  <1> DEFINE e == Head(ring)
             q == EntryOf(e.load)
             r == [NoTask EXCEPT !.pc = "advance", !.ended = q, !.how = e.flag]
  <1>1. /\ ring # << >> /\ e.kind = "Eof" /\ ring' = Tail(ring) /\ actor' = actor
        /\ pub' = D!OnEof(pub, q) /\ task' = [task EXCEPT ![Spine] = r]
    BY DEF SpineEof, SpineReads
  <1>2. pub \in Publisher /\ pub.latch \in MaybeEntry /\ TypeInv /\ FlightInv /\ TaskTypes
    BY DEF PlayInv, Types, Publisher
  <1>3. e \in Event /\ \E w \in MaybeEntry : Shown(pub.latch, Send(e), w)
    BY <1>1, <1>2, HeadShown
  <1> HIDE DEF e
  <1>4. e.load \in MaybeLoad /\ q = pub.latch /\ e.flag \in {"plain", "errored", "landed", "crossfaded"}
    BY <1>1, <1>3 DEF Shown, Send, Event
  <1>5. r \in Task /\ r.pc = "advance"
    <2>1. \A f \in {"plain", "errored", "landed", "crossfaded"} :
             [NoTask EXCEPT !.pc = "advance", !.ended = q, !.how = f] \in Task
      BY <1>2, <1>4, NoTaskType DEF Task, Pcs, MaybeEntry
    <2>2. \A f : [NoTask EXCEPT !.pc = "advance", !.ended = q, !.how = f].pc = "advance"
      BY DEF NoTask
    <2> QED
      BY <1>4, <2>1, <2>2
  <1> HIDE DEF r
  <1>6. TaskTypes'
    BY <1>1, <1>2, <1>5, TaskUpdate, TasksDiffer DEF AdvancePcs
  <1>7. /\ pub'.latch = NoEntry /\ pub'.edges = IF q = NoEntry THEN << >> ELSE <<D!TrackEnd(q)>>
    BY <1>1, <1>2 DEF D!OnEof, Publisher
  <1>8. FlightInv'
    <2>1. \A w : Shown(pub.latch, Send(e), w) => w = NoEntry
      BY <1>1 DEF Shown, Send
    <2> QED
      BY <1>1, <1>2, <1>7, <2>1, ReadShows DEF e
  <1>9. PubInv'
    BY <1>7 DEF PubInv
  <1>10. pub' \in Publisher
    <2> HIDE DEF q
    <2>1. q \in MaybeEntry
      BY <1>2, <1>4
    <2> QED
      BY <1>1, <1>2, <2>1, PublisherType
  <1>11. LStep
    <2>1. CASE q = NoEntry
      BY <1>4, <1>7, <2>1 DEF LStep, L!Next, L!Nothing
    <2>2. CASE q # NoEntry
      <3> HIDE DEF q
      <3>1. q \in Entry
        BY <1>2, <1>4, <2>2 DEF MaybeEntry
      <3> QED
        BY <1>4, <1>7, <2>2, <3>1 DEF LStep, L!Next, L!End, L!D!TrackEnd, D!TrackEnd
    <2> QED
      BY <2>1, <2>2
  <1> QED
    BY <1>6, <1>8, <1>9, <1>10, <1>11

\* Back from an advance: the edges are over, the open track is none either way.
LEMMA ReturnShows ==
    ASSUME PlayInv, AdvanceReturns
    PROVE  FlightInv' /\ PubInv' /\ pub' \in Publisher /\ LStep /\ TaskTypes'
  <1>1. /\ pub' = [pub EXCEPT !.edges = << >>]
           \/ pub' = D!MarkAdvanced([pub EXCEPT !.edges = << >>])
        /\ task' = [task EXCEPT ![Spine] = NoTask] /\ task[Spine].pc = "advanced"
        /\ UNCHANGED <<actor, ring>>
    BY DEF AdvanceReturns, DeckQuiet, At
  <1>2. pub \in Publisher /\ TypeInv /\ FlightInv /\ TaskTypes /\ PubInv /\ NoEntry \in MaybeEntry
    BY DEF PlayInv, Types, MaybeEntry
  <1>3. pub.latch = NoEntry
    BY <1>1, <1>2 DEF PubInv, AdvancePcs
  <1>4. pub'.latch = pub.latch /\ pub'.edges = << >>
    BY <1>1, <1>2 DEF D!MarkAdvanced, Publisher
  <1>5. FlightInv'
    <2>1. Ringed' = Ringed
      BY <1>1 DEF Ringed
    <2>2. PICK u \in MaybeEntry : /\ Chain(Ringed, pub.latch, u)
                                  /\ Chain(actor[deck].out, u, EntryOf(actor[deck].latch))
      BY <1>2 DEF FlightInv
    <2>3. /\ Chain(Ringed', pub'.latch, u)
          /\ Chain(actor'[deck].out, u, EntryOf(actor'[deck].latch))
      BY <1>1, <1>4, <2>1, <2>2
    <2> QED
      BY <1>1, <1>2, <2>3 DEF FlightInv, Chain, Shown, Ringed
  <1>6. PubInv'
    BY <1>3, <1>4 DEF PubInv
  <1>7. pub' \in Publisher
    BY <1>1, <1>2, PublisherType
  <1>8. LStep
    BY <1>4 DEF LStep, L!Next, L!Nothing
  <1>9. TaskTypes'
    BY <1>1, <1>2, DoneType
  <1> QED
    BY <1>5, <1>6, <1>7, <1>8, <1>9
-----------------------------------------------------------------------------
(***************************************************************************)
(* The steps that are no events.  None touches the publisher, and none     *)
(* takes the spine into an advance: only an Eof does.                      *)
(***************************************************************************)
Tidy ==
    /\ QueueTypes' /\ TaskTypes'
    /\ UNCHANGED <<pub, actor, ring>>
    /\ task'[Spine].pc \in AdvancePcs => task[Spine].pc \in AdvancePcs

LEMMA ContestType ==
    ASSUME contested \in {"no", "yes", "late", "afresh"}, Contest
    PROVE  contested' \in {"no", "yes", "late", "afresh"}
  BY DEF Contest

LEMMA GiveUpType ==
    ASSUME contested \in {"no", "yes", "late", "afresh"}, GiveUp
    PROVE  contested' \in {"no", "yes", "late", "afresh"}
  BY DEF GiveUp

\* A step of one task only.
LEMMA OneTask ==
    ASSUME TaskTypes, NEW c \in {Spine, Client}, NEW r, task' = [task EXCEPT ![c] = r]
    PROVE  /\ task'[c] = r
           /\ c = Client => task'[Spine] = task[Spine]
  BY TasksDiffer DEF TaskTypes

LEMMA FailsType ==
    ASSUME QueueTypes
    PROVE  FailsAfter \in 0..MaxFailures /\ OriginAfter \in MaybeEntry /\ NoEntry \in MaybeEntry
  <1>1. fails \in 0..MaxFailures /\ MaxFailures \in Nat /\ origin \in MaybeEntry
    BY PlaybackAssumption DEF QueueTypes
  <1> QED
    BY <1>1 DEF FailsAfter, OriginAfter, MaybeEntry

LEMMA PositionType ==
    ASSUME QueueTypes
    PROVE  \A e : PositionOf(queue, e) \in Nat /\ BackTo(e) \in Nat
  <1>1. queue \in Seq(Entry) /\ current \in Nat
    BY DEF QueueTypes
  <1>2. ASSUME NEW e PROVE PositionOf(queue, e) \in Nat
    <2>1. PositionOf(queue, e) \in 0..Len(queue)
      BY <1>1, PositionIsFirst
    <2> QED
      BY <2>1
  <1> QED
    BY <1>1, <1>2 DEF BackTo

\* An advance goes to a place with no conditions of its own.
LEMMA AdvanceGoes ==
    ASSUME TaskTypes, task[Spine].pc \in AdvancePcs,
           NEW pc \in {"goto", "loading", "orphan", "advanced"}, Goto(Spine, pc)
    PROVE  TaskTypes'
  BY GotoType DEF Pcs, AdvancePcs

LEMMA HaltTidy ==
    ASSUME Types, HaltFailedAdvance
    PROVE  Tidy
  <1>1. QueueTypes /\ TaskTypes /\ task[Spine].pc = "advance"
    BY DEF Types, HaltFailedAdvance, At
  <1>2. TaskTypes'
    BY <1>1, AdvanceGoes DEF HaltFailedAdvance, AdvancePcs
  <1>3. (pendingPause \/ BackTo(OriginAfter) \in DOMAIN queue) \in BOOLEAN
    BY <1>1 DEF QueueTypes
  <1>4. QueueTypes'
    BY <1>1, <1>3, FailsType, PositionType, ContestType DEF HaltFailedAdvance, QueueTypes, DeckQuiet
  <1> QED
    BY <1>1, <1>2, <1>4 DEF Tidy, HaltFailedAdvance, AdvancePcs, DeckQuiet

LEMMA PlanTidy ==
    ASSUME Types, PlanNext
    PROVE  Tidy
  <1> DEFINE len == Len(queue)
             eats == modes.consume /\ OriginAfter = NoEntry /\ current # 0 /\ len # 0
             rest == IF eats /\ current <= len THEN RemoveRow(queue, current) ELSE queue
             ns == IF current = 0 THEN {0} ELSE PeekNextFrom(queue, current, TRUE, modes)
             drained == /\ IsTrueDrain(queue, current, modes)
                        /\ ~(OnRow /\ queue[current] = continuing)
             at(n) == IF eats /\ n # 0 THEN ConsumeTarget(n, current, Len(rest), modes.repeat) ELSE n
  <1>1. QueueTypes /\ TaskTypes /\ task[Spine].pc = "advance"
    BY DEF Types, PlanNext, At
  <1>2. queue \in Seq(Entry) /\ current \in Nat /\ modes \in ModeFlags /\ len \in Nat
    BY <1>1 DEF QueueTypes
  <1>3. rest \in Seq(Entry)
    BY <1>2, RemoveRowShape
  <1>4. Len(rest) \in Nat
    BY <1>3
  <1>5. ns \subseteq Nat
    BY <1>2, TargetType
  <1>6. \A n \in ns : at(n) \in Nat
    BY <1>2, <1>4, <1>5, TargetType
  <1>7. drained \in BOOLEAN
    BY DEF IsTrueDrain
  <1>8. PICK n \in ns :
          /\ queue' = rest
          /\ task' = [task EXCEPT ![Spine].pc = "goto", ![Spine].flag = drained,
                                  ![Spine].idx = at(n)]
    BY DEF PlanNext
  <1>9. at(n) \in Nat
    BY <1>6
  <1> HIDE DEF rest, ns, drained, at
  <1>10. TaskTypes' /\ task'[Spine].pc = "goto"
    <2> DEFINE r == [task[Spine] EXCEPT !.pc = "goto", !.flag = drained, !.idx = at(n)]
    <2>1. task[Spine] \in Task /\ task \in [{Spine, Client} -> Task]
      BY <1>1 DEF TaskTypes
    <2>2. task' = [task EXCEPT ![Spine] = r]
      BY <1>8, <2>1
    <2>3. r \in Task /\ r.pc = "goto"
      BY <1>7, <1>9, <2>1 DEF Task, Pcs
    <2> HIDE DEF r
    <2>4. TaskTypes'
      BY <1>1, <2>2, <2>3, TaskUpdate DEF AdvancePcs
    <2> QED
      BY <1>1, <2>2, <2>3, <2>4, OneTask
  <1>11. QueueTypes'
    BY <1>1, <1>3, <1>8, FailsType, ContestType DEF PlanNext, QueueTypes, DeckQuiet
  <1> QED
    BY <1>1, <1>10, <1>11 DEF Tidy, PlanNext, AdvancePcs, DeckQuiet

\* What the spine's calls may leave to do, and the slot when it is free.
LEMMA ScheduleType ==
    /\ Reschedule \in Seq(Todo) /\ << >> \in Seq(Todo) /\ <<"disarm">> \in Seq(Todo)
    /\ <<"wait">> \o Reschedule \in Seq(Todo) /\ <<"wait">> \o <<"disarm">> \in Seq(Todo)
    /\ <<"wait">> \o << >> \in Seq(Todo)
    /\ <<"wait">> \o (Reschedule \o <<"drop", "disarm">>) \in Seq(Todo)
    /\ <<"wait">> \o (Reschedule \o Reschedule) \in Seq(Todo)
  <1>1. /\ <<"wait">> \in Seq(Todo) /\ <<"disarm">> \in Seq(Todo) /\ << >> \in Seq(Todo)
        /\ <<"disarm", "arm">> \in Seq(Todo) /\ <<"drop", "disarm">> \in Seq(Todo)
    BY DEF Todo
  <1>2. \A s, t \in Seq(Todo) : s \o t \in Seq(Todo)
    BY ConcatProperties
  <1> QED
    BY <1>1, <1>2 DEF Reschedule

LEMMA SlotType ==
    /\ NoSlot \in Slot
    /\ [st |-> "armed", fired |-> FALSE, entry |-> NoEntry] \in Slot
    /\ \A s \in Slot : /\ s.st = "warmed" => s.entry \in Entry
                       /\ s.st = "armed" => [s EXCEPT !.fired = TRUE] \in Slot
                       /\ s.st = "armed" /\ s.fired =>
                            \A e \in Entry : [s EXCEPT !.st = "warmed", !.entry = e] \in Slot
  BY DEF NoSlot, Slot

\* Going on with a call of the spine's is no new advance.
LEMMA GoingOn ==
    ASSUME TaskTypes, NEW c \in {Spine, Client}, NEW todo \in Seq(Todo), Continue(c, todo),
           task[c].pc \notin {"idle", "prefetch", "unwarm"}
    PROVE  /\ TaskTypes'
           /\ task'[Spine].pc \in AdvancePcs => task[Spine].pc \in AdvancePcs
  <1>0. c = Spine \/ c = Client
    OBVIOUS
  <1> DEFINE r == IF todo = << >> THEN Returned(c)
                  ELSE [task[c] EXCEPT !.pc = "todo", !.todo = todo]
  <1>1. TaskTypes'
    BY ContinueType
  <1>2. task' = [task EXCEPT ![c] = r]
    BY DEF TaskTypes, Continue
  <1> HIDE DEF r
  <1>3. c = Client => task'[Spine] = task[Spine]
    BY <1>2, OneTask
  <1>4. c = Spine => task[Spine].pc \in AdvancePcs
    BY DEF TaskTypes
  <1> QED
    BY <1>0, <1>1, <1>3, <1>4

LEMMA CommitTidy ==
    ASSUME Types, CommitLandedAdvance
    PROVE  Tidy
  <1>1. /\ QueueTypes /\ TaskTypes /\ task[Spine].pc = "goto"
        /\ task[Spine] \in Task /\ Spine \in {Spine, Client}
    BY DEF Types, CommitLandedAdvance, At, TaskTypes
  <1>2. Continue(Spine, Reschedule)
    BY DEF CommitLandedAdvance
  <1>3. TaskTypes' /\ (task'[Spine].pc \in AdvancePcs => task[Spine].pc \in AdvancePcs)
    BY <1>1, <1>2, GoingOn, ScheduleType
  <1>4. Target \in Nat
    BY <1>1 DEF Task, Target
  <1>5. QueueTypes'
    BY <1>1, <1>4, SlotType, ContestType DEF CommitLandedAdvance, QueueTypes, DeckQuiet
  <1> QED
    BY <1>3, <1>5 DEF Tidy, CommitLandedAdvance, DeckQuiet

\* A step of the queue's state that moves the spine's advance on.
LEMMA AdvanceTidy ==
    ASSUME Types, task[Spine].pc \in AdvancePcs,
           NEW pc \in {"goto", "loading", "orphan", "advanced"}, Goto(Spine, pc),
           QueueTypes', UNCHANGED <<pub, actor, ring>>
    PROVE  Tidy
  BY AdvanceGoes DEF Tidy, Types

LEMMA LoadsTidy ==
    ASSUME Types, AdvanceLoads
    PROVE  Tidy
  <1>1. QueueTypes /\ task[Spine].pc \in AdvancePcs /\ (Goto(Spine, "loading") \/ Goto(Spine, "advanced"))
    BY DEF Types, AdvanceLoads, At, AdvancePcs
  <1>2. QueueTypes'
    BY <1>1, ContestType DEF AdvanceLoads, QueueTypes, DeckQuiet, queueVars
  <1> QED
    BY <1>1, <1>2, AdvanceTidy DEF AdvanceLoads, DeckQuiet

LEMMA LandedTidy ==
    ASSUME Types, LandedNowhere
    PROVE  Tidy
  <1>1. QueueTypes /\ task[Spine].pc \in AdvancePcs /\ (Goto(Spine, "orphan") \/ Goto(Spine, "advanced"))
    BY DEF Types, LandedNowhere, At, AdvancePcs
  <1>2. queue \in Seq(Entry) /\ Len(queue) + 1 \in Nat /\ slot \in Slot
    BY <1>1 DEF QueueTypes
  <1>3. slot.st = "warmed" => slot.entry \in Entry /\ Append(queue, slot.entry) \in Seq(Entry)
    BY <1>2, SlotType, AppendProperties
  <1>4. QueueTypes'
    BY <1>1, <1>2, <1>3, SlotType, ContestType DEF LandedNowhere, QueueTypes, DeckQuiet, MaybeEntry
  <1> QED
    BY <1>1, <1>4, AdvanceTidy DEF LandedNowhere, DeckQuiet

LEMMA DrainTidy ==
    ASSUME Types, DrainTerminal
    PROVE  Tidy
  <1>1. QueueTypes /\ task[Spine].pc \in AdvancePcs /\ Goto(Spine, "advanced")
    BY DEF Types, DrainTerminal, At, AdvancePcs
  <1>2. (IF origin = NoEntry THEN 0 ELSE PositionOf(queue, origin)) \in Nat
    BY <1>1, PositionType
  <1>3. current' \in Nat /\ pendingPause' \in BOOLEAN
    BY <1>2 DEF DrainTerminal
  <1>4. QueueTypes'
    BY <1>1, <1>3, ContestType DEF DrainTerminal, QueueTypes, DeckQuiet, MaybeEntry
  <1> QED
    BY <1>1, <1>4, AdvanceTidy DEF DrainTerminal, DeckQuiet

LEMMA PrefetchTidy ==
    ASSUME Types, PrefetchReturns
    PROVE  Tidy
  <1>1. QueueTypes /\ TaskTypes /\ task[Spine].pc = "prefetch" /\ task[Spine].item \in Entry
    BY DEF Types, PrefetchReturns, At, TaskTypes
  <1>2. slot' \in Slot
    BY <1>1, SlotType DEF PrefetchReturns, OursStill, QueueTypes
  <1>3. QueueTypes'
    BY <1>1, <1>2, ContestType DEF PrefetchReturns, QueueTypes, DeckQuiet, queueVars
  <1>4. CASE Goto(Spine, "unwarm")
    <2>1. TaskTypes'
      BY <1>1, <1>4, GotoType DEF Pcs
    <2>2. task'[Spine].pc = "unwarm"
      BY <1>1, <1>4 DEF Goto, TaskTypes, Task
    <2> QED
      BY <1>3, <2>1, <2>2 DEF Tidy, PrefetchReturns, DeckQuiet, AdvancePcs
  <1>5. CASE task' = [task EXCEPT ![Spine] = NoTask]
    <2>1. TaskTypes' /\ task'[Spine].pc = "idle"
      BY <1>1, <1>5, DoneType, OneTask, NoTaskType
    <2> QED
      BY <1>3, <2>1 DEF Tidy, PrefetchReturns, DeckQuiet, AdvancePcs
  <1> QED
    BY <1>4, <1>5 DEF PrefetchReturns

LEMMA UnwarmedTidy ==
    ASSUME Types, Unwarmed
    PROVE  Tidy
  <1>1. QueueTypes /\ TaskTypes /\ task' = [task EXCEPT ![Spine] = NoTask]
    BY DEF Types, Unwarmed
  <1>2. TaskTypes' /\ task'[Spine].pc = "idle"
    BY <1>1, DoneType, OneTask, NoTaskType
  <1>3. QueueTypes'
    BY <1>1, ContestType DEF Unwarmed, QueueTypes, DeckQuiet, queueVars
  <1> QED
    BY <1>2, <1>3 DEF Tidy, Unwarmed, DeckQuiet, AdvancePcs
-----------------------------------------------------------------------------
(* Gestures, and the warm's timer. *)

\* The client's task takes another record; the spine's is untouched.
LEMMA ClientTask ==
    ASSUME TaskTypes, NEW r \in Task, task' = [task EXCEPT ![Client] = r],
           r.pc = "todo" => r.todo # << >>, r.pc \in {"load", "prefetch"} => r.item \in Entry
    PROVE  TaskTypes' /\ (task'[Spine].pc \in AdvancePcs => task[Spine].pc \in AdvancePcs)
  BY TaskUpdate, OneTask, TasksDiffer

LEMMA ClientGoesOn ==
    ASSUME TaskTypes, NEW todo \in Seq(Todo), Continue(Client, todo)
    PROVE  TaskTypes' /\ (task'[Spine].pc \in AdvancePcs => task[Spine].pc \in AdvancePcs)
  <1> DEFINE r == IF todo = << >> THEN Returned(Client)
                  ELSE [task[Client] EXCEPT !.pc = "todo", !.todo = todo]
  <1>1. task' = [task EXCEPT ![Client] = r]
    BY DEF TaskTypes, Continue
  <1> HIDE DEF r
  <1> QED
    BY <1>1, OneTask, ContinueType

LEMMA WarmTidy ==
    ASSUME Types, WarmFires
    PROVE  Tidy
  <1>1. /\ QueueTypes /\ TaskTypes /\ slot.st = "armed" /\ slot \in Slot
        /\ queue \in Seq(Entry) /\ current \in Nat /\ modes \in ModeFlags
        /\ task[Spine] \in Task /\ Spine \in {Spine, Client}
    BY DEF Types, WarmFires, QueueTypes, TaskTypes
  <1>2. slot' \in Slot
    BY <1>1, SlotType DEF WarmFires
  <1>3. QueueTypes'
    BY <1>1, <1>2, ContestType DEF WarmFires, QueueTypes, DeckQuiet, queueVars
  <1>4. CASE UNCHANGED task
    BY <1>1, <1>3, <1>4 DEF Tidy, WarmFires, DeckQuiet, TaskTypes, At
  <1>5. CASE WarmReady # 0
    <2> DEFINE r == [task[Spine] EXCEPT !.pc = "prefetch", !.item = queue[WarmReady]]
    <2>1. queue[WarmReady] \in Entry
      <3>1. WarmReady \in 0..Len(queue)
        <4>1. PeekNextDeterministic(queue, current, modes) \in 0..Len(queue)
          BY <1>1 DEF PeekNextDeterministic
        <4>2. 0 \in 0..Len(queue)
          BY <1>1
        <4> HIDE DEF PeekNextDeterministic
        <4> QED
          BY <4>1, <4>2 DEF WarmReady
      <3> QED
        BY <1>1, <1>5, <3>1
    <2>2. task' = [task EXCEPT ![Spine] = r]
      BY <1>1, <1>5 DEF WarmFires, TaskTypes
    <2>3. r \in Task /\ r.pc = "prefetch" /\ r.item \in Entry
      <3> HIDE DEF WarmReady
      <3> QED
        BY <1>1, <2>1 DEF Task, Pcs
    <2> HIDE DEF r
    <2>4. TaskTypes' /\ task'[Spine].pc = "prefetch"
      BY <1>1, <2>2, <2>3, TaskUpdate, OneTask
    <2> QED
      BY <1>3, <2>4 DEF Tidy, WarmFires, DeckQuiet, AdvancePcs
  <1> QED
    BY <1>4, <1>5 DEF WarmFires

LEMMA PlayTidy ==
    ASSUME Types, NEW i \in DOMAIN queue, NEW held \in BOOLEAN, PlayIndex(i, held)
    PROVE  Tidy
  <1> DEFINE r == [NoTask EXCEPT !.pc = "load", !.idx = i, !.item = queue[i], !.flag = held]
  <1>1. QueueTypes /\ TaskTypes /\ queue \in Seq(Entry) /\ MaxFailures \in Nat
    BY PlaybackAssumption DEF Types, QueueTypes
  <1>2. queue[i] \in Entry /\ i \in Nat
    BY <1>1
  <1>3. task' = [task EXCEPT ![Client] = r]
    BY DEF PlayIndex
  <1>4. r \in Task /\ r.pc = "load" /\ r.item \in Entry
    <2>1. \A e \in Entry, n \in Nat :
            LET s == [NoTask EXCEPT !.pc = "load", !.idx = n, !.item = e, !.flag = held]
            IN  s \in Task /\ s.pc = "load" /\ s.item = e
      BY NoTaskType DEF Task, Pcs
    <2> QED
      BY <1>2, <2>1
  <1> HIDE DEF r
  <1>5. TaskTypes' /\ (task'[Spine].pc \in AdvancePcs => task[Spine].pc \in AdvancePcs)
    BY <1>1, <1>3, <1>4, ClientTask
  <1>6. contested' \in {"no", "yes", "late", "afresh"} /\ 0 \in 0..MaxFailures /\ FALSE \in BOOLEAN
    BY <1>1 DEF PlayIndex, QueueTypes
  <1>7. QueueTypes'
    BY <1>1, <1>2, <1>6 DEF PlayIndex, CancelFade, QueueTypes, MaybeEntry, Fades
  <1> QED
    BY <1>5, <1>7 DEF Tidy, PlayIndex

\* The gestures whose call goes on behind a command.
LEMMA SentTidy ==
    ASSUME Types, NEW todo \in Seq(Todo), Continue(Client, todo), QueueTypes',
           UNCHANGED <<pub, actor, ring>>
    PROVE  Tidy
  BY ClientGoesOn DEF Tidy, Types

LEMMA StopTidy ==
    ASSUME Types, ClientStop \/ ClientClear \/ ClientPause \/ ClientResumesStopped
    PROVE  Tidy
  <1>1. QueueTypes /\ << >> \in Seq(Entry) /\ 0 \in Nat
    BY DEF Types
  <1>2. CASE ClientStop
    <2>1. QueueTypes'
      BY <1>1, <1>2, ContestType DEF ClientStop, CancelFade, QueueTypes, DeckQuiet, Fades
    <2> QED
      BY <1>2, <2>1, SentTidy, ScheduleType DEF ClientStop, Sent, DeckQuiet
  <1>3. CASE ClientClear
    <2>1. QueueTypes'
      BY <1>1, <1>3, ContestType DEF ClientClear, CancelFade, QueueTypes, DeckQuiet, Fades
    <2> QED
      BY <1>3, <2>1, SentTidy, ScheduleType DEF ClientClear, Sent, DeckQuiet
  <1>4. CASE ClientPause
    <2>1. QueueTypes'
      BY <1>1, <1>4, ContestType DEF ClientPause, QueueTypes, DeckQuiet, Fades
    <2> QED
      BY <1>4, <2>1, SentTidy, ScheduleType DEF ClientPause, Sent, DeckQuiet
  <1>5. CASE ClientResumesStopped
    <2>1. QueueTypes'
      BY <1>1, <1>5, ContestType DEF ClientResumesStopped, QueueTypes, DeckQuiet, queueVars
    <2> QED
      BY <1>5, <2>1, SentTidy, ScheduleType DEF ClientResumesStopped, Sent, DeckQuiet
  <1> QED
    BY <1>2, <1>3, <1>4, <1>5

LEMMA DeleteTidy ==
    ASSUME Types, ClientDelete
    PROVE  Tidy
  <1>1. QueueTypes /\ TaskTypes /\ queue \in Seq(Entry)
    BY DEF Types, QueueTypes
  <1>2. PICK i \in DOMAIN queue :
          task' = [task EXCEPT ![Client] =
                     [NoTask EXCEPT !.pc = "evict", !.item = queue[i], !.flag = (i = current)]]
    BY DEF ClientDelete
  <1>3. queue[i] \in Entry
    BY <1>1
  <1>4. \A e \in Entry, b \in BOOLEAN :
          LET s == [NoTask EXCEPT !.pc = "evict", !.item = e, !.flag = b]
          IN  s \in Task /\ s.pc = "evict"
    BY NoTaskType DEF Task, Pcs
  <1>5. TaskTypes' /\ (task'[Spine].pc \in AdvancePcs => task[Spine].pc \in AdvancePcs)
    BY <1>1, <1>2, <1>3, <1>4, ClientTask
  <1>6. QueueTypes'
    BY <1>1, ContestType DEF ClientDelete, QueueTypes, DeckQuiet, queueVars
  <1> QED
    BY <1>5, <1>6 DEF Tidy, ClientDelete, DeckQuiet

LEMMA ResumeTidy ==
    ASSUME Types, ClientResume
    PROVE  Tidy
  <1>1. QueueTypes /\ TaskTypes
    BY DEF Types
  <1>2. [NoTask EXCEPT !.pc = "install"] \in Task /\ [NoTask EXCEPT !.pc = "install"].pc = "install"
    BY NoTaskType DEF Task, Pcs
  <1>3. task' = [task EXCEPT ![Client] = [NoTask EXCEPT !.pc = "install"]]
    BY DEF ClientResume
  <1>4. TaskTypes' /\ (task'[Spine].pc \in AdvancePcs => task[Spine].pc \in AdvancePcs)
    BY <1>1, <1>2, <1>3, ClientTask
  <1>5. QueueTypes'
    BY <1>1, ContestType DEF ClientResume, CancelFade, QueueTypes, DeckQuiet, Fades
  <1> QED
    BY <1>4, <1>5 DEF Tidy, ClientResume, DeckQuiet

LEMMA BeginTidy ==
    ASSUME Types, Begin
    PROVE  Tidy
  <1>1. CASE ClientPlay
    BY <1>1, PlayTidy DEF ClientPlay
  <1>2. CASE ClientPicksUp
    <2>1. current \in DOMAIN queue
      <3>1. Reported = "Paused" /\ actor[deck].watch = "Stopped"
        BY <1>2 DEF ClientPicksUp
      <3> QED
        BY <3>1 DEF Reported, OnRow
    <2> QED
      BY <1>2, <2>1, PlayTidy DEF ClientPicksUp
  <1> QED
    BY <1>1, <1>2, WarmTidy, StopTidy, DeleteTidy, ResumeTidy DEF Begin
-----------------------------------------------------------------------------
(* What goes on once begun. *)

LEMMA LoadTidy ==
    ASSUME Types, ClientLoads
    PROVE  Tidy
  <1>1. QueueTypes /\ TaskTypes /\ Goto(Client, "loading")
    BY DEF Types, ClientLoads
  <1>2. TaskTypes'
    BY <1>1, GotoType, TasksDiffer DEF Pcs
  <1>3. task' = [task EXCEPT ![Client] = [task[Client] EXCEPT !.pc = "loading"]]
    BY <1>1 DEF Goto, TaskTypes
  <1>4. task'[Spine] = task[Spine]
    BY <1>1, <1>3, OneTask
  <1>5. QueueTypes'
    BY <1>1, ContestType DEF ClientLoads, QueueTypes, DeckQuiet, queueVars
  <1> QED
    BY <1>2, <1>4, <1>5 DEF Tidy, ClientLoads, DeckQuiet

LEMMA EvictTidy ==
    ASSUME Types, ClientEvicts
    PROVE  Tidy
  <1> DEFINE pos == PositionOf(queue, task[Client].item)
  <1>1. QueueTypes /\ TaskTypes /\ queue \in Seq(Entry) /\ current \in Nat
    BY DEF Types, QueueTypes
  <1>2. pos \in 0..Len(queue)
    BY <1>1, PositionIsFirst
  <1>3. queue' = (IF pos = 0 THEN queue ELSE RemoveRow(queue, pos))
        /\ current' = (IF pos = 0 THEN current ELSE Remap(current, pos))
    BY DEF ClientEvicts
  <1> HIDE DEF pos
  <1>4. queue' \in Seq(Entry)
    <2>1. pos # 0 => pos \in 1..Len(queue)
      BY <1>2
    <2> QED
      BY <1>1, <1>3, <2>1, RemoveRowShape
  <1>5. current' \in Nat
    <2>1. pos \in Nat
      BY <1>2
    <2> QED
      BY <1>1, <1>3, <2>1 DEF Remap
  <1>6. pendingPause' \in BOOLEAN /\ fade' \in Fades
    BY <1>1 DEF ClientEvicts, CancelFade, QueueTypes, Fades
  <1>7. QueueTypes'
    BY <1>1, <1>4, <1>5, <1>6, ContestType DEF ClientEvicts, QueueTypes, DeckQuiet
  <1>8. Continue(Client, Reschedule) \/ Continue(Client, <<"wait">> \o Reschedule)
    BY DEF ClientEvicts, Sent
  <1> QED
    BY <1>7, <1>8, SentTidy, ScheduleType DEF ClientEvicts, DeckQuiet

LEMMA RampTidy ==
    ASSUME Types, ClientRampsUp
    PROVE  Tidy
  <1>1. QueueTypes
    BY DEF Types
  <1>2. QueueTypes'
    BY <1>1, ContestType DEF ClientRampsUp, QueueTypes, DeckQuiet, queueVars, Fades
  <1> QED
    BY <1>2, SentTidy, ScheduleType DEF ClientRampsUp, Sent, DeckQuiet

LEMMA FadeTidy ==
    ASSUME Types, FadeStep
    PROVE  Tidy
  <1>1. QueueTypes /\ TaskTypes
    BY DEF Types
  <1>2. task' = task /\ pub' = pub /\ UNCHANGED <<actor, ring>>
    BY DEF FadeStep, FadePauses, FadePaused, FadeRestored, DeckQuiet
  <1>3. TaskTypes'
    BY <1>1, <1>2 DEF TaskTypes, At
  <1>4. QueueTypes'
    BY <1>1, ContestType
    DEF FadeStep, FadePauses, FadePaused, FadeRestored, DeckQuiet, QueueTypes, queueVars, Fades
  <1> QED
    BY <1>2, <1>3, <1>4 DEF Tidy

LEMMA ReturnsTidy ==
    ASSUME Types, NEW c \in {Spine, Client}, LoadReturns(c)
    PROVE  Tidy
  <1>1. /\ QueueTypes /\ TaskTypes /\ task[c].pc = "loading" /\ task[c] \in Task
    BY DEF Types, LoadReturns, At, TaskTypes
  <1>2. Continue(c, Reschedule) \/ Continue(c, << >>)
    BY DEF LoadReturns
  <1>3. TaskTypes' /\ (task'[Spine].pc \in AdvancePcs => task[Spine].pc \in AdvancePcs)
    BY <1>1, <1>2, GoingOn, ScheduleType
  <1>4. task[c].idx \in Nat
    BY <1>1 DEF Task
  <1>5. current' \in Nat /\ pendingPause' \in BOOLEAN /\ contested' \in {"no", "yes", "late", "afresh"}
    BY <1>1, <1>4 DEF LoadReturns, QueueTypes
  <1>6. QueueTypes'
    BY <1>1, <1>5 DEF LoadReturns, QueueTypes
  <1> QED
    BY <1>3, <1>6 DEF Tidy, LoadReturns

\* The straight-line ends of a call.
LEMMA EndsTidy ==
    ASSUME Types, NEW c \in {Spine, Client}, Disarm(c) \/ Drop(c) \/ Waited(c) \/ Arm(c)
    PROVE  Tidy
  <1>1. QueueTypes /\ TaskTypes /\ At(c, "todo") /\ task[c].pc = "todo"
    BY DEF Types, Disarm, Drop, Waited, Arm, Doing, At
  <1>2. Rest(c) \in Seq(Todo) /\ <<"wait">> \o Rest(c) \in Seq(Todo)
    BY <1>1, RestType
  <1>3. Continue(c, Rest(c)) \/ Continue(c, <<"wait">> \o Rest(c))
    BY DEF Disarm, Drop, Waited, Arm
  <1>4. TaskTypes' /\ (task'[Spine].pc \in AdvancePcs => task[Spine].pc \in AdvancePcs)
    BY <1>1, <1>2, <1>3, GoingOn
  <1>5. slot' \in Slot
    BY <1>1, SlotType DEF Disarm, Drop, Waited, Arm, QueueTypes
  <1>6. /\ Contest /\ UNCHANGED <<queueVars, fade, pub, actor, ring>>
    BY DEF Disarm, Drop, Waited, Arm, DeckQuiet
  <1>7. QueueTypes'
    BY <1>1, <1>5, <1>6, ContestType DEF QueueTypes, queueVars
  <1> QED
    BY <1>4, <1>6, <1>7 DEF Tidy

LEMMA DeckTidy ==
    ASSUME Types, DeckStep
    PROVE  QueueTypes' /\ TaskTypes' /\ UNCHANGED <<pub, task>>
  <1>1. QueueTypes /\ TaskTypes /\ Contest /\ UNCHANGED <<queueVars, slot, fade, pub, task>>
    BY DEF Types, DeckStep, DeckFrame
  <1>2. QueueTypes'
    BY <1>1, ContestType DEF QueueTypes, queueVars
  <1>3. TaskTypes'
    BY <1>1 DEF TaskTypes, At
  <1> QED
    BY <1>1, <1>2, <1>3

\* Giving up on an answer: the spine's task goes back, or on to its return.
LEMMA TimeoutTidy ==
    ASSUME Types, AdvanceTimeout
    PROVE  /\ QueueTypes' /\ TaskTypes' /\ UNCHANGED pub
           /\ task'[Spine].pc \in AdvancePcs => task[Spine].pc \in AdvancePcs
  <1> DEFINE r == IF task[Spine].pc \in {"prefetch", "unwarm"} THEN NoTask ELSE Returned(Spine)
  <1>1. /\ QueueTypes /\ TaskTypes /\ task[Spine] \in Task /\ task' = [task EXCEPT ![Spine] = r]
        /\ GiveUp /\ UNCHANGED <<queueVars, slot, fade, pub>>
        /\ task[Spine].pc \in AdvancePcs \cup {"prefetch", "unwarm"}
    BY DEF Types, AdvanceTimeout, TaskTypes, AdvancePcs
  <1>2. Returned(Spine) \in Task /\ Returned(Spine).pc = "advanced"
    <2>1. << >> \in Seq(Todo)
      OBVIOUS
    <2> QED
      BY <1>1, <2>1 DEF Returned, Task, Pcs
  <1>3. r \in Task /\ r.pc \in {"idle", "advanced"} /\ (r.pc = "advanced" => task[Spine].pc \in AdvancePcs)
    BY <1>1, <1>2, NoTaskType DEF AdvancePcs
  <1> HIDE DEF r
  <1>4. TaskTypes' /\ task'[Spine] = r
    BY <1>1, <1>3, TaskUpdate, OneTask DEF AdvancePcs
  <1>5. QueueTypes'
    BY <1>1, GiveUpType DEF QueueTypes, queueVars
  <1> QED
    BY <1>1, <1>3, <1>4, <1>5 DEF AdvancePcs

\* Reading an event leaves the queue well-typed.
LEMMA ReadTypes ==
    ASSUME Types,
           SpinePlaying \/ SpinePaused \/ SpineStopped \/ SpineTimePos \/ SpineEof \/ AdvanceReturns
    PROVE  QueueTypes'
  <1>1. QueueTypes /\ 0 \in 0..MaxFailures
    BY PlaybackAssumption DEF Types
  <1>2. CASE AdvanceReturns
    BY <1>1, <1>2, ContestType DEF AdvanceReturns, DeckQuiet, QueueTypes, queueVars
  <1>3. CASE SpineTimePos
    BY <1>1, <1>3, ContestType DEF SpineTimePos, SpineReads, QueueTypes, MaybeEntry
  <1>4. CASE SpinePlaying \/ SpinePaused \/ SpineStopped \/ SpineEof
    BY <1>1, <1>4, ContestType
    DEF SpinePlaying, SpinePaused, SpineStopped, SpineEof, SpineReads, QueueTypes, queueVars
  <1> QED
    BY <1>2, <1>3, <1>4
-----------------------------------------------------------------------------
(* The invariant of the queue over its deck. *)

LEMMA SameFlight ==
    ASSUME FlightInv, UNCHANGED <<pub, actor, ring>>
    PROVE  FlightInv'
  <1>1. Ringed' = Ringed
    BY DEF Ringed
  <1>2. PICK u \in MaybeEntry : /\ Chain(Ringed, pub.latch, u)
                                /\ Chain(actor[deck].out, u, EntryOf(actor[deck].latch))
    BY DEF FlightInv
  <1>3. /\ Chain(Ringed', pub'.latch, u)
        /\ Chain(actor'[deck].out, u, EntryOf(actor'[deck].latch))
    BY <1>1, <1>2
  <1> QED
    BY <1>3 DEF FlightInv, Chain, Shown, Ringed

LEMMA SamePub ==
    ASSUME PubInv, pub' = pub, task'[Spine].pc \in AdvancePcs => task[Spine].pc \in AdvancePcs
    PROVE  PubInv' /\ LStep
  BY DEF PubInv, LStep

LEMMA DeckShows ==
    ASSUME PlayInv, DeckStep
    PROVE  FlightInv' /\ PubInv' /\ LStep
  <1>1. /\ TypeInv /\ Types /\ FlightInv /\ PubInv /\ pub.latch \in MaybeEntry
    BY DEF PlayInv, Types, Publisher
  <1>2. UNCHANGED <<pub, task>>
    BY <1>1, DeckTidy
  <1>3. PubInv' /\ LStep
    BY <1>1, <1>2, SamePub
  <1>4. CASE MpvPosition(deck) \/ MpvFileEnds(deck)
    BY <1>1, <1>2, <1>3, <1>4, SameFlight DEF MpvPosition, MpvFileEnds
  <1>5. CASE ActorStep(deck)
    BY <1>1, <1>2, <1>3, <1>5, CmdShows, PumpShows, EffectShows DEF ActorStep
  <1> QED
    BY <1>4, <1>5 DEF DeckStep

\* Every step that reads no event and is not the deck's.
LEMMA TidyNext ==
    ASSUME Types,
           \/ HaltFailedAdvance \/ PlanNext \/ CommitLandedAdvance \/ AdvanceLoads
           \/ LandedNowhere \/ DrainTerminal \/ PrefetchReturns \/ Unwarmed
           \/ Begin \/ ClientStep \/ FadeStep \/ \E c \in {Spine, Client} : TaskStep(c)
    PROVE  Tidy
  <1>1. CASE \/ HaltFailedAdvance \/ PlanNext \/ CommitLandedAdvance \/ AdvanceLoads
             \/ LandedNowhere \/ DrainTerminal \/ PrefetchReturns \/ Unwarmed
    BY <1>1, HaltTidy, PlanTidy, CommitTidy, LoadsTidy, LandedTidy, DrainTidy, PrefetchTidy,
       UnwarmedTidy
  <1>2. CASE ClientStep
    BY <1>2, LoadTidy, EvictTidy, RampTidy DEF ClientStep
  <1>3. ASSUME NEW c \in {Spine, Client}, TaskStep(c) PROVE Tidy
    BY <1>3, ReturnsTidy, EndsTidy DEF TaskStep
  <1> QED
    BY <1>1, <1>2, <1>3, BeginTidy, FadeTidy

LEMMA NextPlay ==
    ASSUME PlayInv, [PlaybackNext]_vars
    PROVE  PlayInv' /\ LStep
  <1>1. TypeInv /\ Types /\ FlightInv /\ PubInv /\ pub \in Publisher
    BY DEF PlayInv, Types
  <1>2. TypeInv'
    <2>1. CASE AdvanceTimeout
      BY <1>1, <2>1, TimeoutType
    <2>2. CASE DeckSees
      BY <1>1, <2>2, SeesNext, NextType
    <2> QED
      BY <1>1, <2>1, <2>2, NextSees
  <1>3. CASE Tidy
    BY <1>1, <1>2, <1>3, SameFlight, SamePub DEF Tidy, PlayInv, Types
  <1>4. CASE AdvanceTimeout
    BY <1>1, <1>2, <1>4, TimeoutTidy, TimeoutShows, SamePub DEF PlayInv, Types
  <1>5. CASE DeckStep
    BY <1>1, <1>2, <1>5, DeckTidy, DeckShows DEF PlayInv, Types
  <1>6. CASE SpinePlaying \/ SpinePaused \/ SpineStopped \/ SpineTimePos
    <2>1. QueueTypes' /\ task' = task
      BY <1>1, <1>6, ReadTypes DEF SpinePlaying, SpinePaused, SpineStopped, SpineTimePos
    <2>2. TaskTypes'
      BY <1>1, <2>1 DEF Types, TaskTypes, At
    <2> QED
      BY <1>2, <1>6, <2>1, <2>2, PlayingShows, PausedShows, StoppedShows, TimePosShows
      DEF PlayInv, Types
  <1>7. CASE SpineEof \/ AdvanceReturns
    <2>1. QueueTypes'
      BY <1>1, <1>7, ReadTypes
    <2> QED
      BY <1>2, <1>7, <2>1, EofShows, ReturnShows DEF PlayInv, Types
  <1>8. CASE UNCHANGED vars
    <2>1. UNCHANGED <<pub, actor, ring, task, queueVars, slot, fade, contested>>
      BY <1>8 DEF vars, queueVars
    <2>2. Tidy
      BY <1>1, <2>1 DEF Tidy, Types, QueueTypes, TaskTypes, At, queueVars
    <2> QED
      BY <1>3, <2>2
  <1> QED
    BY <1>1, <1>3, <1>4, <1>5, <1>6, <1>7, <1>8, TidyNext DEF PlaybackNext, SpineStep

LEMMA InitPlay == PlaybackInit => PlayInv
  <1> SUFFICES ASSUME PlaybackInit PROVE PlayInv
    OBVIOUS
  <1>1. TypeInv
    BY InitType, DeckStarts
  <1>2. QueueTypes
    <2>1. /\ MaxFailures \in Nat \ {0} /\ Modes \subseteq ModeFlags
          /\ InitQueue \in Seq(Entry)
      BY PlaybackAssumption
    <2>2. /\ queue = InitQueue /\ current = 0 /\ pendingPause = FALSE /\ modes \in Modes /\ fails = 0
          /\ origin = NoEntry /\ continuing = NoEntry /\ slot = NoSlot /\ fade = "none"
          /\ contested = "no"
      BY DEF PlaybackInit
    <2>3. fails \in 0..MaxFailures /\ current \in Nat
      BY <2>1, <2>2
    <2> QED
      BY <2>1, <2>2, <2>3, SlotType DEF QueueTypes, MaybeEntry, Fades
  <1>3. task = [c \in {Spine, Client} |-> NoTask] /\ pub = D!PublisherInit
    BY DEF PlaybackInit
  <1>4. TaskTypes
    BY <1>3, NoTaskType DEF TaskTypes, At
  <1>5. pub \in Publisher /\ pub.latch = NoEntry /\ ~pub.suppress
    <2>1. << >> \in Seq(Edge)
      OBVIOUS
    <2> QED
      BY <1>3, <2>1 DEF D!PublisherInit, Publisher, PlayState, MaybeEntry
  <1>6. /\ ring = << >> /\ actor[deck].out = << >> /\ actor[deck].latch = NoLoad
        /\ actor[deck].warm = NoWarm
    BY DeckIsOne DEF PlaybackInit, DeckInit
  <1>7. FlightInv
    <2>1. Ringed = << >>
      BY <1>6 DEF Ringed
    <2>2. NoEntry \in MaybeEntry /\ Chain(<< >>, NoEntry, NoEntry)
      BY ChainNil DEF MaybeEntry
    <2>3. EntryOf(actor[deck].latch) = NoEntry
      BY <1>6, EntryOfType
    <2>4. actor[deck].warm.kind = "None"
      BY <1>6 DEF NoWarm
    <2> QED
      BY <1>5, <1>6, <2>1, <2>2, <2>3, <2>4 DEF FlightInv
  <1>8. PubInv
    BY <1>5 DEF PubInv
  <1> QED
    BY <1>1, <1>2, <1>4, <1>5, <1>7, <1>8 DEF PlayInv, Types
-----------------------------------------------------------------------------
(***************************************************************************)
(* What holds of the queue over its deck, always.                          *)
(***************************************************************************)
\* Every variable keeps its type, the spine's and the client's half-done calls
\* and the warm's slot among them.
THEOREM PlaybackTyped == PlaybackSpec => []PlaybackTypeOK
  <1>1. PlayInv /\ [PlaybackNext]_vars => PlayInv'
    BY NextPlay
  <1>2. PlayInv => PlaybackTypeOK
    BY DEF PlayInv, Types, TypeInv, QueueTypes, TaskTypes, PlaybackTypeOK, MaybeEntry
  <1> QED
    BY InitPlay, <1>1, <1>2, PTL DEF PlaybackSpec

\* However gestures, advances and abandoned calls interleave, the deck under the
\* queue reports the end of a load once, and never twice (player.rs, the
\* `latched.take()' of every end).
THEOREM QueueFinishedOnce == PlaybackSpec => []OneEofPerLoad
  <1>1. PlaybackInit => PlayInv /\ EofInv
    BY InitPlay, InitEof, DeckStarts
  <1>2. PlayInv /\ EofInv /\ [PlaybackNext]_vars => (PlayInv /\ EofInv)'
    <2> SUFFICES ASSUME PlayInv, EofInv, [PlaybackNext]_vars PROVE PlayInv' /\ EofInv'
      OBVIOUS
    <2>1. Types /\ TypeInv /\ PlayInv' /\ TypeInv'
      BY NextPlay DEF PlayInv, Types
    <2> QED
      BY <2>1, NextSees, SeesNext, NextEof, TimeoutEof
  <1>3. EofInv => OneEofPerLoad
    BY DEF EofInv
  <1> QED
    BY <1>1, <1>2, <1>3, PTL DEF PlaybackSpec

\* A deck that has not let go of what mpv plays tells the truth about it, under
\* every gesture and every advance, and when a call to it is given up.
THEOREM QueueDeckTruthful == PlaybackSpec => []DeckTellsTruth
  <1>1. PlaybackInit => PlayInv /\ TruthInv
    BY InitPlay, InitTruth, DeckStarts
  <1>2. PlayInv /\ TruthInv /\ [PlaybackNext]_vars => (PlayInv /\ TruthInv)'
    <2> SUFFICES ASSUME PlayInv, TruthInv, [PlaybackNext]_vars PROVE PlayInv' /\ TruthInv'
      OBVIOUS
    <2>1. Types /\ TypeInv /\ PlayInv'
      BY NextPlay DEF PlayInv, Types
    <2> QED
      BY <2>1, NextSees, SeesNext, NextTruth, TimeoutTruth
  <1>3. TruthInv => DeckTellsTruth
    BY TruthTells
  <1> QED
    BY <1>1, <1>2, <1>3, PTL DEF PlaybackSpec

\* Whatever raced whatever, once nothing is under way observers have the track
\* the deck has (director.rs, the publisher; player.rs, the identity every event
\* carries).
THEOREM ObserversTold == PlaybackSpec => []ObserversKnowTheTrack
  <1>1. PlayInv /\ [PlaybackNext]_vars => PlayInv'
    BY NextPlay
  <1>2. PlayInv => ObserversKnowTheTrack
    <2> SUFFICES ASSUME PlayInv, ring = << >>, actor[deck].out = << >>
                 PROVE  pub.latch = EntryOf(actor[deck].latch)
      BY DEF ObserversKnowTheTrack, Settled
    <2>1. Ringed = << >>
      BY DEF Ringed
    <2>2. PICK u \in MaybeEntry : /\ Chain(<< >>, pub.latch, u)
                                  /\ Chain(<< >>, u, EntryOf(actor[deck].latch))
      BY <2>1 DEF PlayInv, FlightInv
    <2>3. pub.latch \in MaybeEntry
      BY DEF PlayInv, Types, Publisher
    <2> QED
      BY <2>2, <2>3, ChainNil
  <1> QED
    BY InitPlay, <1>1, <1>2, PTL DEF PlaybackSpec

\* Observers see tracks open and close one at a time, each closed once: the
\* queue implements TrackLifecycle.
THEOREM ObserversSee == PlaybackSpec => ObserversSeeTracks
  <1>1. PlayInv /\ [PlaybackNext]_vars => PlayInv' /\ [L!Next]_<<pub.latch, pub.edges>>
    BY NextPlay DEF LStep
  <1>2. PlaybackInit => L!Init
    BY DEF PlaybackInit, L!Init, D!PublisherInit
  <1> QED
    BY InitPlay, <1>1, <1>2, PTL DEF PlaybackSpec, ObserversSeeTracks, L!Spec

\* An advance goes to the entry behind the one it leaves, whatever `consume' does
\* to the indices in between (handler.rs, plan_next).
THEOREM OrderKept == PlaybackSpec => AdvanceKeepsOrder
  <1>1. PlayInv /\ [PlaybackNext]_vars => PlayInv'
    BY NextPlay
  <1>2. ASSUME PlayInv, PlanNext, ~modes.random, ~modes.single, OnRow, current < Len(queue)
        PROVE  /\ task'[Spine].idx \in DOMAIN queue'
               /\ queue'[task'[Spine].idx] = queue[current + 1]
    <2> DEFINE len == Len(queue)
               eats == modes.consume /\ OriginAfter = NoEntry /\ current # 0 /\ len # 0
               rest == IF eats /\ current <= len THEN RemoveRow(queue, current) ELSE queue
               drained == /\ IsTrueDrain(queue, current, modes)
                          /\ ~(OnRow /\ queue[current] = continuing)
               at(n) == IF eats /\ n # 0 THEN ConsumeTarget(n, current, Len(rest), modes.repeat) ELSE n
    <2>1. /\ queue \in Seq(Entry) /\ current \in 1..Len(queue) /\ modes.repeat \in BOOLEAN
          /\ task \in [{Spine, Client} -> Task] /\ len \in Nat
      BY <1>2 DEF PlayInv, Types, QueueTypes, TaskTypes, OnRow, ModeFlags
    <2>2. PeekNextFrom(queue, current, TRUE, modes) = {current + 1}
      BY <1>2, <2>1 DEF PeekNextFrom
    <2>3. /\ queue' = rest
          /\ task' = [task EXCEPT ![Spine].pc = "goto", ![Spine].flag = drained,
                                  ![Spine].idx = at(current + 1)]
      <3>0. (IF current = 0 THEN {0} ELSE PeekNextFrom(queue, current, TRUE, modes))
              = {current + 1}
        <4>1. current # 0
          BY <2>1
        <4> QED
          BY <2>2, <4>1
      <3>1. PICK n \in IF current = 0 THEN {0} ELSE PeekNextFrom(queue, current, TRUE, modes) :
              /\ queue' = rest
              /\ task' = [task EXCEPT ![Spine].pc = "goto", ![Spine].flag = drained,
                                      ![Spine].idx = at(n)]
        BY <1>2 DEF PlanNext
      <3>2. n = current + 1
        BY <3>0
      <3> HIDE DEF rest, drained, at
      <3> QED
        BY <3>1, <3>2
    <2>4. at(current + 1) \in 1..Len(rest) /\ rest[at(current + 1)] = queue[current + 1]
      <3>1. current + 1 \in 1..Len(queue) /\ current + 1 # current /\ current + 1 # 0
        BY <1>2, <2>1
      <3>2. CASE eats
        BY <2>1, <3>1, <3>2, ConsumeFollows
      <3>3. CASE ~eats
        BY <3>1, <3>3
      <3> QED
        BY <3>2, <3>3
    <2>5. rest \in Seq(Entry)
      BY <2>1, RemoveRowShape
    <2> HIDE DEF rest, drained, at
    <2>6. task'[Spine].idx = at(current + 1)
      BY <2>1, <2>3 DEF Task
    <2> QED
      BY <2>3, <2>4, <2>5, <2>6
  <1>3. PlayInv /\ [PlaybackNext]_vars =>
          [PlanNext /\ ~modes.random /\ ~modes.single /\ OnRow /\ current < Len(queue)
             => /\ task'[Spine].idx \in DOMAIN queue'
                /\ queue'[task'[Spine].idx] = queue[current + 1]]_vars
    BY <1>2
  <1> QED
    BY InitPlay, <1>1, <1>3, PTL DEF PlaybackSpec, AdvanceKeepsOrder
=============================================================================
