-------------------------- MODULE Crossfade_proofs --------------------------
(***************************************************************************)
(* The fade slot and the two decks, for any number of clients and any      *)
(* queue: the types of Crossfade, who holds the slot's lock, that the mark *)
(* of a crossfade and the task that drives it come and go together; then   *)
(* what each deck, the row and the gain are at every step of a transition, *)
(* and the properties of Crossfade that follow from it.                    *)
(***************************************************************************)
EXTENDS Crossfade, QueueOps_proofs

Tasks == Client \cup {Spine, Fader}

\* Where a task is while it holds the slot's lock.
HoldingPcs == {"abandon", "attribute", "promote", "silence", "land", "switch", "swap"}

Types ==
    /\ deck \in [Deck -> DeckState] /\ active \in Deck
    /\ st \in HandlerState
    /\ slot \in Fade
    /\ lock \in Client \cup {Fader, Free}
    /\ proc \in [Tasks -> Proc]
    /\ ring \in Seq(Event)
    /\ made \in 0..MaxGestures
    /\ heard \subseteq Entry
    /\ slips \subseteq SlipKinds

LockInv == \A p \in Client \cup {Fader} : lock = p <=> proc[p].pc \in HoldingPcs

\* The task at p moved, no other did.
OnlyMoves(p) == \A q \in Tasks : q # p => proc'[q] = proc[q]

\* And a fade is only ever cancelled unsettled by a resume.
Moves(p) == OnlyMoves(p) /\ (proc'[p].pc = "release" => proc'[p].act = "resumeIn")
-----------------------------------------------------------------------------
(* The queue's arithmetic, and the records the state is made of. *)

LEMMA EvictTypes ==
    ASSUME NEW s \in HandlerState, NEW e
    PROVE  /\ EvictQid(s, e) \in HandlerState
           /\ EvictQid(s, e).crossfading = s.crossfading
<1> DEFINE pos == PositionOf(s.queue, e)
<1>1. s.queue \in Seq(Entry) /\ s.current \in Nat /\ s.pendingSkip \in Nat
  BY DEF HandlerState
<1>2. pos \in 0..Len(s.queue)
  BY <1>1, PositionIsFirst
<1>3. CASE pos = 0
  BY <1>3 DEF EvictQid
<1>4. CASE pos # 0
  <2>1. pos \in 1..Len(s.queue)
    BY <1>2, <1>4
  <2>2. RemoveRow(s.queue, pos) \in Seq(Entry)
    BY <1>1, <2>1, RemoveRowShape
  <2>3. Remap(s.current, pos) \in Nat /\ Remap(s.pendingSkip, pos) \in Nat
    BY <1>1, <2>1 DEF Remap
  <2>4. EvictQid(s, e) = [s EXCEPT !.queue = RemoveRow(s.queue, pos),
                                   !.current = Remap(s.current, pos),
                                   !.pendingSkip = Remap(s.pendingSkip, pos)]
    BY <1>4 DEF EvictQid
  <2> HIDE DEF pos
  <2>5. QED  BY <2>2, <2>3, <2>4 DEF HandlerState
<1>5. QED  BY <1>3, <1>4

LEMMA FollowTypes ==
    ASSUME NEW s \in HandlerState, NEW f
    PROVE  Follow(s, f) \in HandlerState /\ Follow(s, f).crossfading = s.crossfading
<1> DEFINE t == EvictQid(s, f.evict)
<1>1. t \in HandlerState /\ t.crossfading = s.crossfading
  BY EvictTypes
<1>2. t.queue \in Seq(Entry)
  BY <1>1 DEF HandlerState
<1>3. PositionOf(t.queue, f.target) \in Nat
  BY <1>2, PositionIsFirst
<1>4. Follow(s, f) = IF f.target = NoEntry THEN t
                     ELSE [t EXCEPT !.current = PositionOf(t.queue, f.target)]
  BY DEF Follow
<1> HIDE DEF t
<1>5. QED  BY <1>1, <1>3, <1>4 DEF HandlerState

LEMMA VolumeTypes ==
    ASSUME NEW s \in HandlerState, NEW loaded
    PROVE  /\ SetManualVolume(s, loaded) \in HandlerState
           /\ SetManualVolume(s, loaded).crossfading = s.crossfading
BY DEF SetManualVolume, HandlerState

LEMMA EntryAtTypes ==
    ASSUME st \in HandlerState, NEW i
    PROVE  EntryAt(i) \in MaybeEntry
BY DEF EntryAt, HandlerState, MaybeEntry

LEMMA SpareIsOther == ASSUME active \in Deck PROVE Spare \in Deck /\ Spare # active
<1>1. \E d \in Deck : d # active
  BY CrossfadeAssumption
<1>2. QED  BY <1>1 DEF Spare

LEMMA IdleIsProc == IdleProc \in Proc /\ NoFade \in Fade
<1>1. Deck0 \in Deck
  BY CrossfadeAssumption DEF Deck0
<1>2. NoFade \in Fade
  BY DEF NoFade, Fade, FadeKinds, MaybeEntry
<1>3. QED  BY <1>1, <1>2 DEF IdleProc, Proc, Pcs, Acts, MaybeEntry
-----------------------------------------------------------------------------
(* What a task's step does to proc, and to the lock. *)

LEMMA PutTypes ==
    ASSUME proc \in [Tasks -> Proc], NEW p \in Tasks, NEW r \in Proc,
           proc' = [proc EXCEPT ![p] = r]
    PROVE  proc' \in [Tasks -> Proc] /\ proc'[p] = r /\ OnlyMoves(p)
BY DEF OnlyMoves

LEMMA GotoTypes ==
    ASSUME proc \in [Tasks -> Proc], NEW p \in Tasks, NEW pc \in Pcs, Goto(p, pc)
    PROVE  /\ proc' \in [Tasks -> Proc] /\ OnlyMoves(p)
           /\ proc'[p].pc = pc /\ proc'[p].act = proc[p].act
<1>1. [proc[p] EXCEPT !.pc = pc] \in Proc
  BY DEF Proc
<1>2. proc' = [proc EXCEPT ![p] = [proc[p] EXCEPT !.pc = pc]]
  BY DEF Goto
<1>3. proc[p] \in Proc
  OBVIOUS
<1>4. [proc[p] EXCEPT !.pc = pc].pc = pc /\ [proc[p] EXCEPT !.pc = pc].act = proc[p].act
  BY <1>3 DEF Proc
<1>5. proc'[p] = [proc[p] EXCEPT !.pc = pc] /\ proc' \in [Tasks -> Proc] /\ OnlyMoves(p)
  BY <1>1, <1>2, PutTypes
<1>6. QED  BY <1>4, <1>5

LEMMA DoneTypes ==
    ASSUME proc \in [Tasks -> Proc], NEW p \in Tasks, Done(p)
    PROVE  proc' \in [Tasks -> Proc] /\ OnlyMoves(p) /\ proc'[p].pc = "idle"
BY IdleIsProc, PutTypes DEF Done, IdleProc

LEMMA StartTypes ==
    ASSUME proc \in [Tasks -> Proc], st \in HandlerState, NEW p \in Tasks,
           NEW pc \in Pcs, NEW act \in Acts, NEW idx \in Nat, NEW gone \in MaybeEntry,
           Start(p, pc, act, idx, gone)
    PROVE  /\ proc' \in [Tasks -> Proc] /\ OnlyMoves(p)
           /\ proc'[p].pc = pc /\ proc'[p].act = act
<1> DEFINE r == [IdleProc EXCEPT !.pc = pc, !.act = act, !.idx = idx,
                                 !.item = EntryAt(idx), !.gone = gone]
<1>1. EntryAt(idx) \in MaybeEntry
  BY EntryAtTypes
<1>2. r \in Proc /\ r.pc = pc /\ r.act = act
  BY <1>1, IdleIsProc DEF Proc
<1>3. proc' = [proc EXCEPT ![p] = r]
  BY DEF Start
<1> HIDE DEF r
<1>4. QED  BY <1>2, <1>3, PutTypes

LEMMA LockKept ==
    ASSUME LockInv, NEW p \in Tasks, OnlyMoves(p), lock' = lock,
           proc[p].pc \in HoldingPcs <=> proc'[p].pc \in HoldingPcs
    PROVE  LockInv'
BY DEF LockInv, OnlyMoves, Tasks

LEMMA LockTaken ==
    ASSUME LockInv, NEW p \in Client \cup {Fader}, OnlyMoves(p), lock = Free, lock' = p,
           proc'[p].pc \in HoldingPcs
    PROVE  LockInv'
BY CrossfadeAssumption DEF LockInv, OnlyMoves, Tasks

LEMMA LockFreed ==
    ASSUME LockInv, NEW p \in Client \cup {Fader}, OnlyMoves(p), lock = p, lock' = Free,
           proc'[p].pc \notin HoldingPcs
    PROVE  LockInv'
BY CrossfadeAssumption DEF LockInv, OnlyMoves, Tasks

LEMMA LockUntouched == ASSUME LockInv, lock' = lock, proc' = proc PROVE LockInv'
BY DEF LockInv
-----------------------------------------------------------------------------
(* What a command does to a deck and to the ring. *)

LEMMA EventTypes ==
    ASSUME NEW kind \in {"Playing", "Paused", "Stopped", "Eof", "TimePos"}, NEW e \in MaybeEntry
    PROVE  Ev(kind, e) \in Event
BY DEF Ev, Event, S!Places

LEMMA TellTypes ==
    ASSUME deck \in [Deck -> DeckState], ring \in Seq(Event), NEW d \in Deck,
           NEW new \in DeckState, NEW events \in Seq(Event), Tell(d, new, events)
    PROVE  deck' \in [Deck -> DeckState] /\ ring' \in Seq(Event)
BY DEF Tell

LEMMA LoadedTypes ==
    ASSUME deck \in [Deck -> DeckState], ring \in Seq(Event), NEW d \in Deck,
           NEW e \in MaybeEntry, NEW gain \in Gain, Loaded(d, e, gain)
    PROVE  deck' \in [Deck -> DeckState] /\ ring' \in Seq(Event)
<1>1. [entry |-> e, state |-> "Playing", gain |-> gain, place |-> 0] \in DeckState
  BY DEF DeckState, PlayState, S!Places
<1>2. <<Ev("Playing", e)>> \in Seq(Event)
  BY EventTypes
<1>3. QED  BY <1>1, <1>2, TellTypes DEF Loaded

LEMMA StoppedTypes ==
    ASSUME deck \in [Deck -> DeckState], ring \in Seq(Event), NEW d \in Deck,
           NEW gain \in Gain, Stopped(d, gain)
    PROVE  deck' \in [Deck -> DeckState] /\ ring' \in Seq(Event)
<1>1. [entry |-> NoEntry, state |-> "Stopped", gain |-> gain, place |-> 0] \in DeckState
  BY DEF DeckState, PlayState, S!Places, MaybeEntry
<1>2. <<Ev("Stopped", NoEntry)>> \in Seq(Event)
  BY EventTypes DEF MaybeEntry
<1>3. QED  BY <1>1, <1>2, TellTypes DEF Stopped

LEMMA SetGainTypes ==
    ASSUME deck \in [Deck -> DeckState], NEW d \in Deck, NEW gain \in Gain, SetGain(d, gain)
    PROVE  deck' \in [Deck -> DeckState] /\ ring' = ring
BY DEF SetGain, DeckState

LEMMA DeckFields ==
    ASSUME deck \in [Deck -> DeckState], NEW d \in Deck
    PROVE  deck[d].entry \in MaybeEntry /\ deck[d].gain \in Gain
BY DEF DeckState

LEMMA ProcFields ==
    ASSUME proc \in [Tasks -> Proc], NEW p \in Tasks
    PROVE  /\ proc[p].idx \in Nat /\ proc[p].item \in MaybeEntry /\ proc[p].gone \in MaybeEntry
           /\ proc[p].on \in Deck /\ proc[p].settling \in Fade /\ proc[p].act \in Acts
BY DEF Proc

\* Naming the deck a task prepares keeps its record well-typed.
LEMMA ProcSpared ==
    ASSUME NEW r \in Proc, NEW pc \in Pcs, NEW d \in Deck
    PROVE  [r EXCEPT !.pc = pc, !.on = d] \in Proc
BY DEF Proc
-----------------------------------------------------------------------------
(* Each action keeps the types and the lock. *)

LEMMA ArmStepTypes ==
    ASSUME Types, LockInv, NEW p \in Client \cup {Spine}, ArmStep(p)
    PROVE  Types' /\ LockInv' /\ Moves(p)
<1> USE DEF Types, Moves
<1>1. p \in Tasks /\ Spare \in Deck /\ Spine \in Tasks
  BY SpareIsOther DEF Tasks
<1>2. /\ proc[p].idx \in Nat /\ proc[p].item \in MaybeEntry /\ proc[p].gone \in MaybeEntry
      /\ proc[p].on \in Deck
  BY <1>1, ProcFields
<1>3. CASE Mute(p)
  <2>1. deck' \in [Deck -> DeckState] /\ ring' = ring
    BY <1>1, <1>3, SetGainTypes DEF Mute, Gain
  <2>2. proc' = [proc EXCEPT ![p] = [proc[p] EXCEPT !.pc = "arm", !.on = Spare]]
    BY <1>3 DEF Mute
  <2>3. [proc[p] EXCEPT !.pc = "arm", !.on = Spare] \in Proc
    <3>1. proc[p] \in Proc /\ "arm" \in Pcs
      BY <1>1 DEF Pcs
    <3>2. QED  BY <1>1, <3>1, ProcSpared
  <2>4. proc' \in [Tasks -> Proc] /\ OnlyMoves(p) /\ proc'[p].pc = "arm"
    BY <1>1, <2>2, <2>3, PutTypes DEF Proc
  <2>5. LockInv'
    BY <1>1, <1>3, <2>4, LockKept DEF Mute, At, HoldingPcs
  <2>6. QED  BY <1>3, <2>1, <2>4, <2>5 DEF Mute, Slip, SlipKinds, History
<1>4. CASE Arm(p)
  <2>1. PICK ok \in LoadResults :
          /\ IF ok THEN Loaded(proc[p].on, proc[p].item, deck[proc[p].on].gain) ELSE NoCommand
          /\ Goto(p, IF ok THEN "install" ELSE "retreat")
    BY <1>4 DEF Arm
  <2>2. deck' \in [Deck -> DeckState] /\ ring' \in Seq(Event)
    BY <1>2, <2>1, DeckFields, LoadedTypes DEF NoCommand
  <2>3. proc' \in [Tasks -> Proc] /\ OnlyMoves(p) /\ proc'[p].pc \in {"install", "retreat"}
    BY <1>1, <2>1, GotoTypes DEF Pcs
  <2>4. LockInv'
    BY <1>1, <1>4, <2>3, LockKept DEF Arm, At, HoldingPcs
  <2>5. QED  BY <1>4, <2>2, <2>3, <2>4 DEF Arm, Slip, SlipKinds, History
<1>5. CASE Retreat(p)
  <2>1. deck' \in [Deck -> DeckState] /\ ring' \in Seq(Event)
    BY <1>1, <1>5, DeckFields, StoppedTypes DEF Retreat
  <2>2. proc' \in [Tasks -> Proc] /\ OnlyMoves(p) /\ proc'[p].pc \in {"idle", "aim"}
    BY <1>1, <1>5, GotoTypes, DoneTypes DEF Retreat, Pcs
  <2>3. LockInv'
    BY <1>1, <1>5, <2>2, LockKept DEF Retreat, At, HoldingPcs
  <2>4. QED  BY <1>5, <2>1, <2>2, <2>3 DEF Retreat, Slip, SlipKinds, History
<1>6. CASE Install(p)
  <2>1. slot' \in Fade
    BY <1>2, <1>6 DEF Install, Fade, FadeKinds
  <2>2. st' \in HandlerState
    BY <1>2, <1>6 DEF Install, HandlerState
  <2>3. proc' \in [Tasks -> Proc] /\ OnlyMoves(p) /\ proc'[p].pc = "idle"
    BY <1>1, <1>6, DoneTypes DEF Install
  <2>4. LockInv'
    BY <1>1, <1>6, <2>3, LockKept DEF Install, At, HoldingPcs
  <2>5. QED  BY <1>6, <2>1, <2>2, <2>3, <2>4 DEF Install, SlipKinds, History, NoCommand
<1>7. CASE Commit(p)
  <2>1. st' \in HandlerState
    BY <1>2, <1>7 DEF Commit, HandlerState
  <2>2. proc' \in [Tasks -> Proc] /\ OnlyMoves(p) /\ proc'[p].pc \in {"advanced", "idle"}
    BY <1>1, <1>7, GotoTypes, DoneTypes DEF Commit, Pcs
  <2>3. LockInv'
    BY <1>1, <1>7, <2>2, LockKept DEF Commit, At, HoldingPcs
  <2>4. QED  BY <1>7, <2>1, <2>2, <2>3 DEF Commit, Slips, SlipKinds, History, NoCommand
<1>8. QED  BY <1>3, <1>4, <1>5, <1>6, <1>7 DEF ArmStep

LEMMA FollowedTypes ==
    ASSUME Types, NEW p \in Client \cup {Fader}
    PROVE  Followed(p) \in HandlerState /\ Followed(p).crossfading = st.crossfading
<1>1. CASE p = Fader \/ Promotes(p)
  BY <1>1, FollowTypes DEF Followed, Types
<1>2. CASE ~(p = Fader \/ Promotes(p))
  BY <1>2 DEF Followed, Types
<1>3. QED  BY <1>1, <1>2

LEMMA CommitStepTypes ==
    ASSUME Types, LockInv, NEW p \in Client \cup {Fader}, CommitStep(p)
    PROVE  Types' /\ LockInv' /\ Moves(p)
<1> USE DEF Types, Moves
<1>1. p \in Tasks /\ Spare \in Deck
  BY SpareIsOther DEF Tasks
<1>2. proc[p].on \in Deck
  BY <1>1, ProcFields
<1>3. CASE Attribute(p)
  <2>1. deck' \in [Deck -> DeckState]
    BY <1>3 DEF Attribute, DeckState, MaybeEntry
  <2> DEFINE end == [Ev("Eof", deck[active].entry) EXCEPT !.crossfaded = TRUE]
  <2>2. end \in Event
    <3> DEFINE eof == Ev("Eof", deck[active].entry)
    <3>1. eof \in Event
      BY EventTypes, DeckFields
    <3> HIDE DEF eof
    <3>2. [eof EXCEPT !.crossfaded = TRUE] \in Event
      BY <3>1 DEF Event
    <3>3. QED  BY <3>2 DEF eof
  <2>3. ring' \in Seq(Event)
    <3>1. ring' = ring \/ ring' = Append(ring, end)
      BY <1>3 DEF Attribute
    <3> HIDE DEF end
    <3>2. QED  BY <2>2, <3>1
  <2>4. proc' \in [Tasks -> Proc] /\ OnlyMoves(p) /\ proc'[p].pc = "promote"
    BY <1>1, <1>3, GotoTypes DEF Attribute, Pcs
  <2>5. LockInv'
    BY <1>1, <1>3, <2>4, LockKept DEF Attribute, At, HoldingPcs
  <2>6. QED  BY <1>3, <2>1, <2>3, <2>4, <2>5 DEF Attribute, History
<1>4. CASE Promote(p)
  <2>1. proc' = [proc EXCEPT ![p] = [proc[p] EXCEPT !.pc = "silence", !.on = active]]
    BY <1>4 DEF Promote
  <2>2. [proc[p] EXCEPT !.pc = "silence", !.on = active] \in Proc
        /\ [proc[p] EXCEPT !.pc = "silence", !.on = active].pc = "silence"
    BY <1>1 DEF Proc, Pcs
  <2>3. proc' \in [Tasks -> Proc] /\ OnlyMoves(p) /\ proc'[p].pc = "silence"
    BY <1>1, <2>1, <2>2, PutTypes
  <2>4. LockInv'
    BY <1>1, <1>4, <2>3, LockKept DEF Promote, At, HoldingPcs
  <2>5. QED  BY <1>1, <1>4, <2>3, <2>4 DEF Promote, Slip, SlipKinds, History, NoCommand
<1>5. CASE Silence(p)
  <2>1. deck' \in [Deck -> DeckState] /\ ring' \in Seq(Event)
    BY <1>2, <1>5, DeckFields, StoppedTypes DEF Silence
  <2>2. proc' \in [Tasks -> Proc] /\ OnlyMoves(p) /\ proc'[p].pc = "land"
    BY <1>1, <1>5, GotoTypes DEF Silence, Pcs
  <2>3. LockInv'
    BY <1>1, <1>5, <2>2, LockKept DEF Silence, At, HoldingPcs
  <2>4. QED  BY <1>5, <2>1, <2>2, <2>3 DEF Silence, History
<1>6. CASE Land(p)
  <2> DEFINE s == [Followed(p) EXCEPT !.crossfading = FALSE]
  <2>1. s \in HandlerState
    BY FollowedTypes DEF HandlerState
  <2>2. Landed(p, s) /\ lock' = Free
    BY <1>6 DEF Land
  <2> HIDE DEF s
  <2>3. st' \in HandlerState
    BY <2>1, <2>2, VolumeTypes DEF Landed
  <2>4. deck' \in [Deck -> DeckState] /\ ring' = ring
    BY <2>2, SetGainTypes DEF Landed, Gain
  <2>5. slot' \in Fade
    BY <2>2, IdleIsProc DEF Landed
  <2>6. proc' \in [Tasks -> Proc] /\ OnlyMoves(p) /\ proc'[p].pc \in {"idle", "take"}
    BY <1>1, <2>2, GotoTypes, DoneTypes DEF Landed, Pcs
  <2>7. lock = p
    BY <2>2 DEF Landed, At, LockInv, HoldingPcs
  <2>8. LockInv'
    BY <2>2, <2>6, <2>7, LockFreed DEF HoldingPcs
  <2>9. QED  BY <2>2, <2>3, <2>4, <2>5, <2>6, <2>8 DEF Landed, History
<1>7. QED  BY <1>3, <1>4, <1>5, <1>6 DEF CommitStep

LEMMA GestureTypes ==
    ASSUME Types, LockInv, NEW c \in Client, Gesture(c)
    PROVE  Types' /\ LockInv' /\ Moves(c)
<1> USE DEF Types, Moves
<1>1. c \in Tasks /\ NoEntry \in MaybeEntry
  BY DEF Tasks, MaybeEntry
<1>2. /\ At(c, "idle") /\ UNCHANGED <<active, slot, lock, deck, ring, heard, slips>>
      /\ made' \in 0..MaxGestures
  <2>1. ASSUME NEW g, Begins(c, g)
        PROVE  /\ At(c, "idle") /\ UNCHANGED <<active, slot, lock, deck, ring, heard, slips>>
               /\ made' \in 0..MaxGestures
    BY <2>1, CrossfadeAssumption DEF Begins, NoCommand
  <2>2. QED  BY <2>1 DEF Gesture, Skip, Play, StopPlayback, Clear, SetVol, Delete, Pause, Resume
<1>3. st.queue \in Seq(Entry) /\ st.current \in Nat /\ st.pendingSkip \in Nat
  BY DEF HandlerState
<1>4. st' \in HandlerState
  <2>1. CASE Pause(c)
    BY <2>1 DEF Pause, HandlerState
  <2>2. CASE ~Pause(c)
    BY <2>2 DEF Gesture, Skip, Play, StopPlayback, Clear, SetVol, Delete, Resume
  <2>3. QED  BY <2>1, <2>2
<1> DEFINE Starts ==
        \E pc \in {"mute", "aim", "settle", "evict", "release"}, act \in Acts, idx \in Nat,
           gone \in MaybeEntry :
             Start(c, pc, act, idx, gone) /\ (pc = "release" => act = "resumeIn")
<1>5. Starts
  <2>1. ASSUME Skip(c) PROVE Starts
    BY <1>1, <1>3, <2>1 DEF Skip, SkipWithFade, Acts
  <2>2. ASSUME Play(c) PROVE Starts
    BY <1>1, <1>3, <2>2 DEF Play, Acts
  <2>3. ASSUME Delete(c) PROVE Starts
    <3>1. \A pos : EntryAt(pos) \in MaybeEntry
      BY EntryAtTypes
    <3>2. \A pos \in DOMAIN st.queue : pos \in Nat /\ pos + 1 \in Nat
      BY <1>3
    <3>3. QED  BY <1>1, <1>3, <2>3, <3>1, <3>2 DEF Delete, SkipWithFade, Acts
  <2>4. ASSUME StopPlayback(c) \/ Clear(c) \/ SetVol(c) \/ Pause(c) \/ Resume(c) PROVE Starts
    BY <1>1, <2>4 DEF StopPlayback, Clear, SetVol, Pause, Resume, Acts
  <2>5. QED  BY <2>1, <2>2, <2>3, <2>4 DEF Gesture
<1>6. proc' \in [Tasks -> Proc] /\ OnlyMoves(c)
      /\ proc'[c].pc \in {"mute", "aim", "settle", "evict", "release"}
      /\ (proc'[c].pc = "release" => proc'[c].act = "resumeIn")
  BY <1>1, <1>5, StartTypes DEF Pcs
<1>7. LockInv'
  BY <1>1, <1>2, <1>6, LockKept DEF At, HoldingPcs
<1>8. QED  BY <1>2, <1>4, <1>6, <1>7

LEMMA ClientStepTypes ==
    ASSUME Types, LockInv, NEW c \in Client, ClientStep(c)
    PROVE  Types' /\ LockInv' /\ Moves(c)
<1> USE DEF Types, Moves
<1>1. c \in Tasks /\ c \in Client \cup {Fader} /\ Spare \in Deck /\ NoEntry \in MaybeEntry
  BY SpareIsOther DEF Tasks, MaybeEntry
<1>2. /\ proc[c].idx \in Nat /\ proc[c].item \in MaybeEntry /\ proc[c].gone \in MaybeEntry
      /\ proc[c].on \in Deck /\ proc[c].act \in Acts
  BY <1>1, ProcFields
<1>3. deck[active].gain \in Gain /\ "baseline" \in Gain
  BY DeckFields DEF Gain
<1>4. CASE Settle(c)
  <2>1. CASE ~st.crossfading
    <3>1. proc' \in [Tasks -> Proc] /\ OnlyMoves(c) /\ proc'[c].pc = "take"
      BY <1>1, <1>4, <2>1, GotoTypes DEF Settle, Pcs
    <3>2. LockInv'
      BY <1>1, <1>4, <2>1, <3>1, LockKept DEF Settle, At, HoldingPcs
    <3>3. QED  BY <1>4, <2>1, <3>1, <3>2 DEF Settle, NoCommand, History
  <2>2. CASE st.crossfading
    <3> DEFINE pc == IF ~Promotes(c) THEN "abandon" ELSE IF st.finish THEN "attribute"
                     ELSE "promote"
               f == [kind |-> "crossfade", target |-> EntryAt(st.pendingSkip),
                     evict |-> st.evict, finish |-> st.finish]
               r == [proc[c] EXCEPT !.settling = f, !.pc = pc]
    <3>1. EntryAt(st.pendingSkip) \in MaybeEntry
      BY EntryAtTypes
    <3>2. f \in Fade
      BY <3>1 DEF Fade, FadeKinds, HandlerState
    <3>3. pc \in HoldingPcs /\ pc \in Pcs
      BY DEF HoldingPcs, Pcs
    <3>4. proc' = [proc EXCEPT ![c] = r]
      BY <1>4, <2>2 DEF Settle
    <3>5. r \in Proc /\ r.pc = pc
      <4> HIDE DEF f, pc
      <4>1. QED  BY <1>1, <3>2, <3>3 DEF Proc
    <3> HIDE DEF f, pc, r
    <3>6. proc' \in [Tasks -> Proc] /\ OnlyMoves(c) /\ proc'[c].pc \in HoldingPcs
      BY <1>1, <3>3, <3>4, <3>5, PutTypes
    <3>7. LockInv'
      BY <1>1, <1>4, <2>2, <3>6, LockTaken DEF Settle
    <3>8. st' \in HandlerState
      BY <1>1, <1>4, <2>2 DEF Settle, HandlerState
    <3>9. QED
      BY <1>4, <2>2, <3>6, <3>7, <3>8, IdleIsProc
      DEF Settle, Slip, SlipKinds, NoCommand, History, HoldingPcs
  <2>3. QED  BY <2>1, <2>2 DEF HandlerState
<1>5. CASE Abandon(c)
  <2>1. deck' \in [Deck -> DeckState] /\ ring' \in Seq(Event)
    BY <1>1, <1>5, DeckFields, StoppedTypes DEF Abandon
  <2>2. proc' \in [Tasks -> Proc] /\ OnlyMoves(c) /\ proc'[c].pc = "land"
    BY <1>1, <1>5, GotoTypes DEF Abandon, Pcs
  <2>3. LockInv'
    BY <1>1, <1>5, <2>2, LockKept DEF Abandon, At, HoldingPcs
  <2>4. QED  BY <1>5, <2>1, <2>2, <2>3 DEF Abandon, History
<1>6. CASE Aim(c)
  <2>1. st' \in HandlerState
    BY <1>2, <1>6 DEF Aim, HandlerState
  <2>2. proc' \in [Tasks -> Proc] /\ OnlyMoves(c) /\ proc'[c].pc = "settle"
    BY <1>1, <1>6, GotoTypes DEF Aim, Pcs
  <2>3. LockInv'
    BY <1>1, <1>6, <2>2, LockKept DEF Aim, At, HoldingPcs
  <2>4. QED  BY <1>6, <2>1, <2>2, <2>3 DEF Aim, Slip, SlipKinds, NoCommand, History
<1>7. CASE TakeSkipLoad(c)
  <2>1. st' \in HandlerState
    BY <1>7 DEF TakeSkipLoad, HandlerState
  <2>2. proc' \in [Tasks -> Proc] /\ OnlyMoves(c) /\ proc'[c].pc = "idle"
    BY <1>1, <1>7, DoneTypes DEF TakeSkipLoad
  <2>3. lock' = lock
    BY <1>7 DEF TakeSkipLoad, TakesSlot
  <2>4. LockInv'
    BY <1>1, <1>7, <2>2, <2>3, LockKept DEF TakeSkipLoad, Takes, At, HoldingPcs
  <2>5. slot' \in Fade
    BY <1>2, <1>7 DEF TakeSkipLoad, Fade, FadeKinds
  <2>6. QED
    BY <1>7, <2>1, <2>2, <2>4, <2>5
    DEF TakeSkipLoad, TakesSlot, Slips, SlipKinds, NoCommand, History
<1>8. CASE TakeFade(c)
  <2>1. st' \in HandlerState
    BY <1>8 DEF TakeFade, HandlerState
  <2>2. proc' \in [Tasks -> Proc] /\ OnlyMoves(c) /\ proc'[c].pc = "idle"
    BY <1>1, <1>8, DoneTypes DEF TakeFade
  <2>3. lock' = lock
    BY <1>8 DEF TakeFade, TakesSlot
  <2>4. LockInv'
    BY <1>1, <1>8, <2>2, <2>3, LockKept DEF TakeFade, Takes, At, HoldingPcs
  <2>5. slot' \in Fade
    BY <1>2, <1>8 DEF TakeFade, NoFade, Fade, FadeKinds, MaybeEntry
  <2>6. QED
    BY <1>8, <2>1, <2>2, <2>4, <2>5 DEF TakeFade, TakesSlot, Slip, SlipKinds, NoCommand, History
<1>9. CASE TakeNothing(c)
  <2> DEFINE s == SetManualVolume(st, DeckLoaded \/ proc[c].act # "unpick")
  <2>1. s \in HandlerState
    BY VolumeTypes
  <2>2. st' = s \/ st' = [s EXCEPT !.queue = << >>, !.current = 0]
    BY <1>9 DEF TakeNothing
  <2>3. st' \in HandlerState
    <3> HIDE DEF s
    <3>1. << >> \in Seq(Entry)
      OBVIOUS
    <3>2. [s EXCEPT !.queue = << >>, !.current = 0] \in HandlerState
      BY <2>1, <3>1 DEF HandlerState
    <3>3. QED  BY <2>1, <2>2, <3>2
  <2>4. proc' \in [Tasks -> Proc] /\ OnlyMoves(c) /\ proc'[c].pc \in {"load", "evict", "halt"}
    BY <1>1, <1>9, GotoTypes DEF TakeNothing, Pcs
  <2>5. lock' = lock
    BY <1>9 DEF TakeNothing, TakesSlot
  <2>6. LockInv'
    BY <1>1, <1>9, <2>4, <2>5, LockKept DEF TakeNothing, Takes, At, HoldingPcs
  <2>7. QED
    BY <1>9, <2>3, <2>4, <2>6, IdleIsProc
    DEF TakeNothing, TakesSlot, Slip, SlipKinds, NoCommand, History
<1>10. CASE Load(c)
  <2>1. PICK ok \in LoadResults :
          IF ok THEN Loaded(active, proc[c].item, "baseline") /\ Goto(c, "commit")
          ELSE SetGain(active, "baseline") /\ Done(c)
    BY <1>10 DEF Load, LoadAt
  <2>2. deck' \in [Deck -> DeckState] /\ ring' \in Seq(Event)
    BY <1>2, <1>3, <2>1, LoadedTypes, SetGainTypes
  <2>3. proc' \in [Tasks -> Proc] /\ OnlyMoves(c) /\ proc'[c].pc \in {"commit", "idle"}
    BY <1>1, <2>1, GotoTypes, DoneTypes DEF Pcs
  <2>4. LockInv'
    BY <1>1, <1>10, <2>3, LockKept DEF Load, LoadAt, At, HoldingPcs
  <2>5. QED  BY <1>10, <2>2, <2>3, <2>4 DEF Load, LoadAt, Slips, SlipKinds, History
<1>11. CASE Halt(c)
  <2>1. deck' \in [Deck -> DeckState] /\ ring' \in Seq(Event)
    BY <1>3, <1>11, StoppedTypes DEF Halt
  <2>2. proc' \in [Tasks -> Proc] /\ OnlyMoves(c) /\ proc'[c].pc = "idle"
    BY <1>1, <1>11, DoneTypes DEF Halt
  <2>3. LockInv'
    BY <1>1, <1>11, <2>2, LockKept DEF Halt, At, HoldingPcs
  <2>4. QED  BY <1>11, <2>1, <2>2, <2>3 DEF Halt, Slip, SlipKinds, History
<1>12. CASE Evict(c)
  <2> DEFINE r == [IdleProc EXCEPT !.pc = "settle", !.act = "knob"]
  <2>1. st' \in HandlerState
    BY <1>12, EvictTypes DEF Evict
  <2>2. r \in Proc /\ r.pc = "settle"
    BY IdleIsProc DEF Proc, Pcs, Acts
  <2>3. proc' = [proc EXCEPT ![c] = r] \/ Goto(c, "halt") \/ Done(c)
    BY <1>12 DEF Evict
  <2> HIDE DEF r
  <2>4. proc' \in [Tasks -> Proc] /\ OnlyMoves(c) /\ proc'[c].pc \in {"settle", "halt", "idle"}
    BY <1>1, <2>2, <2>3, PutTypes, GotoTypes, DoneTypes DEF Pcs
  <2>5. LockInv'
    BY <1>1, <1>12, <2>4, LockKept DEF Evict, At, HoldingPcs
  <2>6. QED  BY <1>12, <2>1, <2>4, <2>5 DEF Evict, Slip, SlipKinds, NoCommand, History
<1>13. CASE Release(c)
  <2>1. st' \in HandlerState
    BY <1>13 DEF Release, HandlerState
  <2>2. proc' \in [Tasks -> Proc] /\ OnlyMoves(c) /\ proc'[c].pc \in {"wake", "settle"}
    BY <1>1, <1>13, GotoTypes DEF Release, Pcs
  <2>3. LockInv'
    BY <1>1, <1>13, <2>2, LockKept DEF Release, At, HoldingPcs
  <2>4. QED  BY <1>13, <2>1, <2>2, <2>3, IdleIsProc DEF Release, NoCommand, History
<1>14. CASE Wake(c)
  <2> DEFINE e == deck[active].entry
             new == [deck[active] EXCEPT !.gain = "silent",
                                         !.state = IF e = NoEntry THEN @ ELSE "Playing"]
             events == IF e = NoEntry THEN << >> ELSE <<Ev("Playing", e)>>
  <2>1. new \in DeckState
    BY DEF DeckState, Gain, PlayState
  <2>2. events \in Seq(Event)
    <3>1. Ev("Playing", e) \in Event
      BY DeckFields, EventTypes
    <3>2. QED  BY <3>1
  <2>3. Tell(active, new, events)
    BY <1>14 DEF Wake
  <2> HIDE DEF new, events
  <2>4. deck' \in [Deck -> DeckState] /\ ring' \in Seq(Event)
    BY <2>1, <2>2, <2>3, TellTypes
  <2>5. proc' \in [Tasks -> Proc] /\ OnlyMoves(c) /\ proc'[c].pc = "settle"
    BY <1>1, <1>14, GotoTypes DEF Wake, Pcs
  <2>6. LockInv'
    BY <1>1, <1>14, <2>5, LockKept DEF Wake, At, HoldingPcs
  <2>7. QED  BY <1>14, <2>4, <2>5, <2>6 DEF Wake, History
<1>15. QED
  BY <1>4, <1>5, <1>6, <1>7, <1>8, <1>9, <1>10, <1>11, <1>12, <1>13, <1>14 DEF ClientStep

LEMMA HoldTypes ==
    ASSUME Types, LockInv, lock = Free, NEW pc \in HoldingPcs, Hold(pc)
    PROVE  /\ lock' = Fader /\ proc' \in [Tasks -> Proc] /\ OnlyMoves(Fader)
           /\ proc'[Fader].pc = pc /\ LockInv'
<1> DEFINE r == [IdleProc EXCEPT !.pc = pc, !.settling = slot]
<1>1. Fader \in Tasks /\ pc \in Pcs /\ slot \in Fade
  BY DEF Tasks, HoldingPcs, Pcs, Types
<1>2. r \in Proc /\ r.pc = pc
  BY <1>1, IdleIsProc DEF Proc
<1>3. lock' = Fader /\ proc' = [proc EXCEPT ![Fader] = r]
  BY DEF Hold
<1> HIDE DEF r
<1>4. proc' \in [Tasks -> Proc] /\ OnlyMoves(Fader) /\ proc'[Fader].pc = pc
  BY <1>1, <1>2, <1>3, PutTypes DEF Types
<1>5. LockInv'
  BY <1>3, <1>4, LockTaken
<1>6. QED  BY <1>3, <1>4, <1>5

LEMMA FaderStepTypes ==
    ASSUME Types, LockInv, FaderStep
    PROVE  Types' /\ LockInv'
<1> USE DEF Types
<1>1. Fader \in Tasks /\ Spare \in Deck /\ NoEntry \in MaybeEntry
  BY SpareIsOther DEF Tasks, MaybeEntry
<1>2. /\ deck[active].gain \in Gain /\ "baseline" \in Gain
      /\ slot.target \in MaybeEntry /\ slot.evict \in MaybeEntry
  BY DeckFields DEF Gain, Fade
<1>3. CASE RampMoves
  <2>1. \A d \in Deck : [deck[d] EXCEPT !.gain = "between"] \in DeckState
    BY DEF DeckState, Gain
  <2>2. deck' \in [Deck -> DeckState]
    BY <1>3, <2>1 DEF RampMoves
  <2>3. QED  BY <1>3, <2>2, LockUntouched DEF RampMoves, History
<1>4. CASE CrossfadeEnds
  <2>1. deck' \in [Deck -> DeckState]
    <3>1. \A d \in Deck : /\ [deck[d] EXCEPT !.gain = "silent"] \in DeckState
                          /\ [deck[d] EXCEPT !.gain = "baseline"] \in DeckState
      BY DEF DeckState, Gain
    <3>2. deck' = [[deck EXCEPT ![active] = [deck[active] EXCEPT !.gain = "silent"]]
                         EXCEPT ![Spare] = [deck[Spare] EXCEPT !.gain = "baseline"]]
      BY <1>1, <1>4, SpareIsOther DEF CrossfadeEnds
    <3>3. QED  BY <1>1, <3>1, <3>2
  <2>2. proc' \in [Tasks -> Proc] /\ lock' = Fader /\ LockInv'
    BY <1>4, HoldTypes DEF CrossfadeEnds, RampEnds, HoldingPcs
  <2>3. QED  BY <1>4, <2>1, <2>2 DEF CrossfadeEnds, History
<1>5. CASE SetBaseline
  <2>1. deck' \in [Deck -> DeckState] /\ ring' = ring
    BY <1>2, <1>5, SetGainTypes DEF SetBaseline
  <2>2. st' \in HandlerState
    BY <1>5, VolumeTypes DEF SetBaseline
  <2>3. QED
    BY <1>5, <2>1, <2>2, IdleIsProc, LockUntouched DEF SetBaseline, History
<1>6. CASE PauseTerminal
  <2> DEFINE e == deck[active].entry
             new == [deck[active] EXCEPT !.gain = "baseline",
                                         !.state = IF e = NoEntry THEN @ ELSE "Paused"]
             events == IF e = NoEntry THEN << >> ELSE <<Ev("Paused", e)>>
  <2>1. new \in DeckState
    BY DEF DeckState, Gain, PlayState
  <2>2. events \in Seq(Event)
    <3>1. Ev("Paused", e) \in Event
      BY DeckFields, EventTypes
    <3>2. QED  BY <3>1
  <2>3. Tell(active, new, events)
    BY <1>6 DEF PauseTerminal
  <2> HIDE DEF new, events
  <2>4. deck' \in [Deck -> DeckState] /\ ring' \in Seq(Event)
    BY <2>1, <2>2, <2>3, TellTypes
  <2>5. st' \in HandlerState
    BY <1>6 DEF PauseTerminal, HandlerState
  <2>6. QED
    BY <1>6, <2>4, <2>5, IdleIsProc, LockUntouched DEF PauseTerminal, Slip, SlipKinds, History
<1>7. CASE StopRestore
  <2> DEFINE s == [SetManualVolume(st, FALSE) EXCEPT !.pendingPause = FALSE]
  <2>1. deck' \in [Deck -> DeckState] /\ ring' \in Seq(Event)
    BY <1>2, <1>7, StoppedTypes DEF StopRestore
  <2>2. s \in HandlerState
    BY VolumeTypes DEF HandlerState
  <2>3. st' = EvictQid(s, slot.evict)
    BY <1>7 DEF StopRestore
  <2> HIDE DEF s
  <2>4. st' \in HandlerState
    BY <2>2, <2>3, EvictTypes
  <2>5. QED
    BY <1>7, <2>1, <2>4, IdleIsProc, LockUntouched DEF StopRestore, History
<1>8. CASE DipEnds
  <2>1. proc' \in [Tasks -> Proc] /\ lock' = Fader /\ LockInv'
    BY <1>8, HoldTypes DEF DipEnds, RampEnds, HoldingPcs
  <2>2. QED  BY <1>8, <2>1 DEF DipEnds, NoCommand, History
<1>9. CASE Switch
  <2>1. PICK ok \in LoadResults :
          /\ IF ok THEN Loaded(active, slot.target, deck[active].gain) ELSE NoCommand
          /\ slips' \subseteq SlipKinds
    BY <1>9 DEF Switch, SlipKinds
  <2>2. deck' \in [Deck -> DeckState] /\ ring' \in Seq(Event)
    BY <1>2, <2>1, LoadedTypes DEF NoCommand
  <2>3. proc' \in [Tasks -> Proc] /\ OnlyMoves(Fader) /\ proc'[Fader].pc = "swap"
    BY <1>1, <1>9, GotoTypes DEF Switch, Pcs
  <2>4. LockInv'
    BY <1>1, <1>9, <2>3, LockKept DEF Switch, At, HoldingPcs
  <2>5. QED  BY <1>9, <2>1, <2>2, <2>3, <2>4 DEF Switch, History
<1>10. CASE Swap
  <2>1. st' = [Follow(st, slot) EXCEPT !.pendingSkip = 0, !.fading = TRUE]
    BY <1>10 DEF Swap
  <2>2. st' \in HandlerState
    BY <2>1, FollowTypes DEF HandlerState
  <2>3. proc' \in [Tasks -> Proc] /\ OnlyMoves(Fader) /\ proc'[Fader].pc = "idle"
    BY <1>1, <1>10, DoneTypes DEF Swap
  <2>4. lock = Fader
    BY <1>10 DEF Swap, At, LockInv, HoldingPcs
  <2>5. LockInv'
    BY <1>10, <2>3, <2>4, LockFreed DEF Swap, HoldingPcs
  <2>6. slot' \in Fade
    BY <1>10, IdleIsProc DEF Swap, Fade, FadeKinds
  <2>7. QED
    BY <1>10, <2>2, <2>3, <2>5, <2>6 DEF Swap, Slip, SlipKinds, NoCommand, History
<1>11. QED
  BY <1>3, <1>4, <1>5, <1>6, <1>7, <1>8, <1>9, <1>10 DEF FaderStep

LEMMA SpineStepTypes ==
    ASSUME Types, LockInv, SpineStep
    PROVE  Types' /\ LockInv'
<1> USE DEF Types
<1>1. Spine \in Tasks /\ Spine \notin Client \cup {Fader} /\ NoEntry \in MaybeEntry
  BY CrossfadeAssumption DEF Tasks, MaybeEntry
<1>2. /\ proc[Spine].idx \in Nat /\ proc[Spine].item \in MaybeEntry
      /\ st.current \in Nat /\ st.queue \in Seq(Entry)
  BY <1>1, ProcFields DEF HandlerState
<1>3. ASSUME OnlyMoves(Spine), lock' = lock PROVE LockInv'
  BY <1>1, <1>3 DEF LockInv, OnlyMoves, Tasks
<1>4. CASE ReadPlaying \/ ReadPaused \/ ReadStopped \/ ReadCrossfadedEof
  <2>1. \E kind : Reads(kind)
    BY <1>4 DEF ReadPlaying, ReadPaused, ReadStopped, ReadCrossfadedEof
  <2>2. ring' \in Seq(Event)
    BY <2>1 DEF Reads
  <2>3. UNCHANGED <<st, proc>>
    BY <1>4 DEF ReadPlaying, ReadPaused, ReadStopped, ReadCrossfadedEof
  <2>4. QED  BY <2>1, <2>2, <2>3, LockUntouched DEF Reads
<1>5. CASE ReadEof
  <2> DEFINE r == [IdleProc EXCEPT !.pc = "advance", !.gone = Head(ring).entry]
  <2>1. ring # << >> /\ ring' = Tail(ring)
    BY <1>5 DEF ReadEof, Reads
  <2>2. Head(ring) \in Event /\ ring' \in Seq(Event)
    BY <2>1
  <2>3. Head(ring).entry \in MaybeEntry
    BY <2>2 DEF Event
  <2>4. r \in Proc
    BY <2>3, IdleIsProc DEF Proc, Pcs
  <2>5. proc' = [proc EXCEPT ![Spine] = r]
    BY <1>5 DEF ReadEof
  <2> HIDE DEF r
  <2>6. proc' \in [Tasks -> Proc] /\ OnlyMoves(Spine)
    BY <1>1, <2>4, <2>5, PutTypes
  <2>7. UNCHANGED <<deck, active, slot, lock, made, heard, slips, st>>
    BY <1>5 DEF ReadEof, Reads
  <2>8. QED  BY <1>3, <2>2, <2>6, <2>7
<1>6. CASE ReadTimePos
  <2>1. ring' \in Seq(Event) /\ UNCHANGED <<deck, active, slot, lock, made, heard, slips, st>>
    BY <1>6 DEF ReadTimePos, Reads
  <2>2. Start(Spine, "mute", "none", st.current + 1, NoEntry) \/ proc' = proc
    BY <1>6 DEF ReadTimePos
  <2>3. proc' \in [Tasks -> Proc] /\ OnlyMoves(Spine)
    BY <1>1, <1>2, <2>2, StartTypes DEF Pcs, Acts, OnlyMoves
  <2>4. QED  BY <1>3, <2>1, <2>3
<1>7. CASE Advance
  <2> DEFINE r == [proc[Spine] EXCEPT !.pc = "load", !.idx = st.current + 1,
                                      !.item = EntryAt(st.current + 1)]
  <2>1. Goto(Spine, "advanced") \/ proc' = [proc EXCEPT ![Spine] = r]
    BY <1>7 DEF Advance
  <2>2. EntryAt(st.current + 1) \in MaybeEntry
    BY EntryAtTypes
  <2>3. r \in Proc
    <3> DEFINE next == st.current + 1
               item == EntryAt(next)
    <3>1. next \in Nat /\ item \in MaybeEntry /\ proc[Spine] \in Proc
      BY <1>1, <1>2, <2>2
    <3> HIDE DEF next, item
    <3>2. [proc[Spine] EXCEPT !.pc = "load", !.idx = next, !.item = item] \in Proc
      BY <3>1 DEF Proc, Pcs
    <3>3. QED  BY <3>2 DEF next, item
  <2> HIDE DEF r
  <2>4. proc' \in [Tasks -> Proc] /\ OnlyMoves(Spine)
    BY <1>1, <2>1, <2>3, GotoTypes, PutTypes DEF Pcs
  <2>5. st' \in HandlerState
    <3>1. [st EXCEPT !.current = 0, !.pendingPause = FALSE] \in HandlerState
      BY DEF HandlerState
    <3>2. st' = st \/ st' = [st EXCEPT !.current = 0, !.pendingPause = FALSE]
      BY <1>7 DEF Advance
    <3>3. QED  BY <3>1, <3>2
  <2>6. UNCHANGED <<deck, active, slot, lock, ring, made, heard, slips>>
    BY <1>7 DEF Advance, NoCommand, History
  <2>7. QED  BY <1>3, <2>4, <2>5, <2>6
<1>8. CASE AdvanceLoads
  <2>1. PICK ok \in LoadResults :
          IF ok THEN Loaded(active, proc[Spine].item, deck[active].gain) /\ Goto(Spine, "commit")
          ELSE NoCommand /\ Goto(Spine, "advanced")
    BY <1>8 DEF AdvanceLoads
  <2>2. deck' \in [Deck -> DeckState] /\ ring' \in Seq(Event)
    BY <1>2, <2>1, DeckFields, LoadedTypes DEF NoCommand
  <2>3. proc' \in [Tasks -> Proc] /\ OnlyMoves(Spine)
    BY <1>1, <2>1, GotoTypes DEF Pcs
  <2>4. QED  BY <1>3, <1>8, <2>2, <2>3 DEF AdvanceLoads, History
<1>9. CASE AdvanceReturns
  <2>1. proc' \in [Tasks -> Proc] /\ OnlyMoves(Spine)
    BY <1>1, <1>9, DoneTypes DEF AdvanceReturns
  <2>2. QED  BY <1>3, <1>9, <2>1 DEF AdvanceReturns, NoCommand
<1>10. QED  BY <1>4, <1>5, <1>6, <1>7, <1>8, <1>9 DEF SpineStep

LEMMA DeckStepTypes ==
    ASSUME Types, LockInv, NEW d \in Deck, Tick(d) \/ End(d)
    PROVE  Types' /\ LockInv'
<1> USE DEF Types
<1>1. deck[d] \in DeckState /\ deck[d].entry \in MaybeEntry /\ deck[d].gain \in Gain
  BY DeckFields
<1>2. CASE Tick(d)
  <2>1. PICK place \in Ticks :
          /\ deck' = [deck EXCEPT ![d] = [deck[d] EXCEPT !.place = place]]
          /\ ring' = Append(ring, [Ev("TimePos", deck[d].entry) EXCEPT !.place = place])
    BY <1>2 DEF Tick
  <2>2. place \in S!Places
    BY CrossfadeAssumption DEF S!Places
  <2>3. [deck[d] EXCEPT !.place = place] \in DeckState
    BY <1>1, <2>2 DEF DeckState
  <2> DEFINE e == Ev("TimePos", deck[d].entry)
             tick == [e EXCEPT !.place = place]
  <2>4. e \in Event
    BY <1>1, EventTypes
  <2>5. tick \in Event
    <3> HIDE DEF e
    <3>1. QED  BY <2>2, <2>4 DEF Event
  <2>6. deck' \in [Deck -> DeckState]
    BY <2>1, <2>3
  <2>7. ring' \in Seq(Event)
    <3>1. ring' = Append(ring, tick)
      BY <2>1
    <3> HIDE DEF tick
    <3>2. QED  BY <2>5, <3>1
  <2>8. heard' \subseteq Entry
    BY <1>1, <1>2 DEF Tick, MaybeEntry
  <2>9. UNCHANGED <<active, st, slot, lock, proc, made, slips>>
    BY <1>2 DEF Tick
  <2>10. QED  BY <2>6, <2>7, <2>8, <2>9, LockUntouched
<1>3. CASE End(d)
  <2> DEFINE new == [deck[d] EXCEPT !.entry = NoEntry, !.state = "Stopped", !.place = 0]
             events == (IF deck[d].entry = NoEntry THEN << >> ELSE <<Ev("Eof", deck[d].entry)>>)
                       \o <<Ev("Stopped", NoEntry)>>
  <2>1. new \in DeckState
    <3>1. 0 \in S!Places /\ NoEntry \in MaybeEntry
      BY DEF S!Places, MaybeEntry
    <3>2. QED  BY <1>1, <3>1 DEF DeckState, PlayState
  <2>2. events \in Seq(Event)
    <3>1. Ev("Eof", deck[d].entry) \in Event /\ Ev("Stopped", NoEntry) \in Event
      BY <1>1, EventTypes DEF MaybeEntry
    <3>2. QED  BY <3>1
  <2>3. Tell(d, new, events)
    BY <1>3 DEF End
  <2> HIDE DEF new, events
  <2>4. deck' \in [Deck -> DeckState] /\ ring' \in Seq(Event)
    BY <2>1, <2>2, <2>3, TellTypes
  <2>5. QED
    BY <1>3, <2>4, LockUntouched DEF End, Slip, SlipKinds
<1>4. QED  BY <1>2, <1>3

\* Every variable keeps its type, and the slot's lock is held by exactly the
\* task that is inside a settlement or a terminal (handler.rs, settle_crossfade
\* and the tasks of the fade slot): no step of another task runs under it.
THEOREM CrossfadeTypes == CrossfadeSpec => []CrossfadeTypeOK
<1>1. CrossfadeInit => Types /\ LockInv
  <2> SUFFICES ASSUME CrossfadeInit PROVE Types /\ LockInv
    OBVIOUS
  <2>1. Deck0 \in Deck
    BY CrossfadeAssumption DEF Deck0
  <2>2. deck \in [Deck -> DeckState] /\ active \in Deck
    BY <2>1 DEF CrossfadeInit, DeckState, MaybeEntry, PlayState, Gain, S!Places
  <2>3. st \in HandlerState
    BY CrossfadeAssumption DEF CrossfadeInit, HandlerState, MaybeEntry
  <2>4. proc \in [Tasks -> Proc] /\ \A p \in Tasks : proc[p] = IdleProc
    BY IdleIsProc DEF CrossfadeInit, Tasks
  <2>5. LockInv
    BY <2>4, CrossfadeAssumption DEF CrossfadeInit, LockInv, IdleProc, HoldingPcs, Tasks
  <2>6. QED
    BY <2>2, <2>3, <2>4, <2>5, IdleIsProc, CrossfadeAssumption DEF CrossfadeInit, Types
<1>2. Types /\ LockInv /\ [CrossfadeNext]_vars => Types' /\ LockInv'
  <2> SUFFICES ASSUME Types, LockInv, [CrossfadeNext]_vars PROVE Types' /\ LockInv'
    OBVIOUS
  <2>1. CASE UNCHANGED vars
    BY <2>1 DEF vars, Types, LockInv
  <2>2. CASE DurationArrives
    BY <2>2 DEF DurationArrives, Types, LockInv
  <2>3. CASE \E c \in Client : Gesture(c) \/ ClientStep(c)
    BY <2>3, GestureTypes, ClientStepTypes
  <2>4. CASE \E p \in Client \cup {Spine} : ArmStep(p)
    BY <2>4, ArmStepTypes
  <2>5. CASE \E p \in Client \cup {Fader} : CommitStep(p)
    BY <2>5, CommitStepTypes
  <2>6. CASE FaderStep \/ SpineStep
    BY <2>6, FaderStepTypes, SpineStepTypes
  <2>7. CASE \E d \in Deck : Tick(d) \/ End(d)
    BY <2>7, DeckStepTypes
  <2>8. QED  BY <2>1, <2>2, <2>3, <2>4, <2>5, <2>6, <2>7 DEF CrossfadeNext
<1>3. Types /\ LockInv => CrossfadeTypeOK
  BY DEF Types, LockInv, CrossfadeTypeOK, Tasks, HoldingPcs
<1>4. QED  BY <1>1, <1>2, <1>3, PTL DEF CrossfadeSpec
-----------------------------------------------------------------------------
(***************************************************************************)
(* The mark of a crossfade and its driver.  While nothing has slipped, a   *)
(* fade in the slot is a crossfade exactly when the state is marked so;    *)
(* the mark outlives the fade only while a client settles it, or between   *)
(* the two halves of a resume, which cancels first and settles after.      *)
(***************************************************************************)
Rising == \E c \in Client : proc[c].pc \in {"wake", "settle"} /\ proc[c].act = "resumeIn"

DriverInv ==
    /\ slot.kind # "none" => (st.crossfading <=> slot.kind = "crossfade")
    /\ st.crossfading => slot.kind = "crossfade" \/ lock \in Client \/ Rising
    /\ lock \in Client => slot.kind = "none"
    /\ proc[Fader].pc \in {"switch", "swap"} => slot.kind = "skipLoad"

ActInv == \A c \in Client : At(c, "release") => proc[c].act = "resumeIn"

SlotInv == ActInv /\ (slips = {} => DriverInv)

LEMMA ActKept ==
    ASSUME ActInv, NEW p \in Tasks, Moves(p) PROVE ActInv'
BY DEF ActInv, Moves, OnlyMoves, At, Tasks

LEMMA ActUntouched ==
    ASSUME ActInv, \A c \in Client : proc'[c] = proc[c] PROVE ActInv'
BY DEF ActInv, At

\* A step that leaves the slot, the lock and the mark alone, and no resume half done.
LEMMA DriverKept ==
    ASSUME DriverInv, NEW p \in Tasks, OnlyMoves(p),
           slot' = slot, lock' = lock, st'.crossfading = st.crossfading,
           \/ proc[p].pc \notin {"wake", "settle"} \/ ~st.crossfading
           \/ proc'[p].pc \in {"wake", "settle"} /\ proc'[p].act = proc[p].act,
           p = Fader => (proc'[Fader].pc \in {"switch", "swap"}
                            => proc[Fader].pc \in {"switch", "swap"})
    PROVE  DriverInv'
<1>1. Fader \in Tasks
  BY DEF Tasks
<1>2. st.crossfading /\ Rising => Rising'
  BY DEF Rising, OnlyMoves, Tasks
<1>3. proc'[Fader].pc \in {"switch", "swap"} => proc[Fader].pc \in {"switch", "swap"}
  BY <1>1 DEF OnlyMoves
<1>4. QED  BY <1>2, <1>3 DEF DriverInv

LEMMA ArmStepDriver ==
    ASSUME Types, LockInv, SlotInv, NEW p \in Client \cup {Spine}, ArmStep(p)
    PROVE  SlotInv'
<1>1. Moves(p) /\ p \in Tasks /\ p # Fader /\ ActInv'
  BY ArmStepTypes, ActKept, CrossfadeAssumption DEF Tasks, SlotInv
<1>2. ASSUME slips' = {} PROVE DriverInv'
  <2>1. slips = {} /\ DriverInv
    BY <1>2 DEF ArmStep, Mute, Arm, Retreat, Install, Commit, Slip, Slips, SlotInv
  <2>2. CASE Mute(p) \/ Arm(p) \/ Retreat(p) \/ Commit(p)
    <3>1. slot' = slot /\ lock' = lock /\ st'.crossfading = st.crossfading
      BY <2>2 DEF Mute, Arm, Retreat, Commit, HandlerState, Types
    <3>2. proc[p].pc \notin {"wake", "settle"}
      BY <2>2 DEF Mute, Arm, Retreat, Commit, At
    <3>3. QED  BY <1>1, <2>1, <3>1, <3>2, DriverKept DEF Moves
  <2>3. CASE Install(p)
    <3>1. ~st.crossfading /\ lock = Free /\ lock' = lock
      BY <1>2, <2>3 DEF Install, InHand
    <3>2. slot'.kind = "crossfade" /\ st'.crossfading
      BY <2>3 DEF Install, Types, HandlerState
    <3>3. proc[Fader].pc \notin HoldingPcs /\ proc'[Fader] = proc[Fader]
      BY <1>1, <3>1, CrossfadeAssumption DEF LockInv, Moves, OnlyMoves, Tasks
    <3>4. lock' \notin Client
      BY <3>1, CrossfadeAssumption
    <3>5. QED  BY <3>2, <3>3, <3>4 DEF DriverInv, HoldingPcs
  <2>4. QED  BY <2>2, <2>3 DEF ArmStep
<1>3. QED  BY <1>1, <1>2 DEF SlotInv

LEMMA LandClears ==
    ASSUME Types, NEW p \in Client \cup {Fader}, Land(p) PROVE ~st'.crossfading
<1> DEFINE s == [Followed(p) EXCEPT !.crossfading = FALSE]
<1>1. s \in HandlerState /\ ~s.crossfading
  BY FollowedTypes DEF HandlerState
<1>2. st' = SetManualVolume(s, TRUE)
  BY DEF Land, Landed
<1> HIDE DEF s
<1>3. QED  BY <1>1, <1>2, VolumeTypes

LEMMA CommitStepDriver ==
    ASSUME Types, LockInv, SlotInv, NEW p \in Client \cup {Fader}, CommitStep(p)
    PROVE  SlotInv'
<1>1. Moves(p) /\ p \in Tasks /\ ActInv'
  BY CommitStepTypes, ActKept DEF Tasks, SlotInv
<1>2. ASSUME slips' = {} PROVE DriverInv'
  <2>1. slips = {} /\ DriverInv
    BY <1>2 DEF CommitStep, Attribute, Promote, Silence, Land, Landed, Slip, SlotInv
  <2>2. CASE Attribute(p) \/ Promote(p) \/ Silence(p)
    <3>1. slot' = slot /\ lock' = lock /\ st' = st
      BY <2>2 DEF Attribute, Promote, Silence
    <3>2. proc[p].pc \notin {"wake", "settle"}
      BY <2>2 DEF Attribute, Promote, Silence, At
    <3>3. proc'[p].pc \notin {"switch", "swap"}
      BY <1>1, <2>2 DEF Attribute, Promote, Silence, Goto, Types, Proc
    <3>4. QED  BY <1>1, <2>1, <3>1, <3>2, <3>3, DriverKept DEF Moves
  <2>3. CASE Land(p)
    <3>1. ~st'.crossfading /\ lock' = Free
      BY <2>3, LandClears DEF Land
    <3>2. lock = p
      BY <2>3 DEF Land, Landed, At, LockInv, HoldingPcs
    <3>3. slot'.kind = "none"
      BY <2>1, <2>3, <3>2 DEF Land, Landed, DriverInv, NoFade
    <3>4. proc'[Fader].pc \notin {"switch", "swap"}
      <4>1. CASE p = Fader
        BY <1>1, <2>3, <4>1, DoneTypes DEF Land, Landed, Types
      <4>2. CASE p # Fader
        BY <1>1, <3>2, <4>2 DEF LockInv, HoldingPcs, Moves, OnlyMoves, Tasks
      <4>3. QED  BY <4>1, <4>2
    <3>5. QED  BY <3>1, <3>3, <3>4, CrossfadeAssumption DEF DriverInv
  <2>4. QED  BY <2>2, <2>3 DEF CommitStep
<1>3. QED  BY <1>1, <1>2 DEF SlotInv

LEMMA GestureDriver ==
    ASSUME Types, LockInv, SlotInv, NEW c \in Client, Gesture(c)
    PROVE  SlotInv'
<1>1. Moves(c) /\ c \in Tasks /\ c # Fader /\ ActInv'
  BY GestureTypes, ActKept, CrossfadeAssumption DEF Tasks, SlotInv
<1>2. At(c, "idle") /\ UNCHANGED <<slot, lock, slips>>
  BY DEF Gesture, Skip, Play, StopPlayback, Clear, SetVol, Delete, Pause, Resume, Begins
<1>3. st'.crossfading = st.crossfading
  BY DEF Gesture, Skip, Play, StopPlayback, Clear, SetVol, Delete, Pause, Resume,
         HandlerState, Types
<1>4. ASSUME slips' = {} PROVE DriverInv'
  BY <1>1, <1>2, <1>3, <1>4, DriverKept DEF SlotInv, At, Moves
<1>5. QED  BY <1>1, <1>4 DEF SlotInv

LEMMA ClientStepDriver ==
    ASSUME Types, LockInv, SlotInv, NEW c \in Client, ClientStep(c)
    PROVE  SlotInv'
<1>1. Moves(c) /\ c \in Tasks /\ Fader \in Tasks /\ c # Fader /\ ActInv'
  BY ClientStepTypes, ActKept, CrossfadeAssumption DEF Tasks, SlotInv
<1>2. proc'[Fader] = proc[Fader]
  BY <1>1 DEF Moves, OnlyMoves
<1>3. lock = Free => lock \notin Client /\ proc[Fader].pc \notin {"switch", "swap"}
  BY CrossfadeAssumption DEF LockInv, HoldingPcs
<1>4. ASSUME slips' = {} PROVE DriverInv'
  <2>1. slips = {} /\ DriverInv
    BY <1>4
    DEF ClientStep, Settle, Abandon, Aim, TakeSkipLoad, TakeFade, TakeNothing, Load, LoadAt,
        Halt, Evict, Release, Wake, Slip, Slips, SlotInv
  <2>2. CASE Abandon(c) \/ Aim(c) \/ Load(c) \/ Halt(c) \/ Evict(c)
    <3>1. slot' = slot /\ lock' = lock
      BY <2>2 DEF Abandon, Aim, Load, LoadAt, Halt, Evict
    <3>2. st'.crossfading = st.crossfading
      <4>1. CASE Abandon(c) \/ Load(c) \/ Halt(c)
        BY <4>1 DEF Abandon, Load, LoadAt, Halt
      <4>2. CASE Aim(c)
        BY <4>2 DEF Aim, Types, HandlerState
      <4>3. CASE Evict(c)
        BY <4>3, EvictTypes DEF Evict, Types
      <4>4. QED  BY <2>2, <4>1, <4>2, <4>3
    <3>3. proc[c].pc \notin {"wake", "settle"}
      BY <2>2 DEF Abandon, Aim, Load, LoadAt, Halt, Evict, At
    <3>4. QED  BY <1>1, <2>1, <3>1, <3>2, <3>3, DriverKept DEF Moves
  <2>3. CASE Wake(c)
    <3>1. slot' = slot /\ lock' = lock /\ st' = st /\ Goto(c, "settle")
      BY <2>3 DEF Wake
    <3>2. proc'[c].pc = "settle" /\ proc'[c].act = proc[c].act
      BY <1>1, <3>1, GotoTypes DEF Types, Pcs
    <3>3. QED  BY <1>1, <2>1, <3>1, <3>2, DriverKept DEF Moves
  <2>4. CASE Settle(c)
    <3>1. CASE ~st.crossfading
      BY <1>1, <2>1, <2>4, <3>1, DriverKept DEF Settle, Moves
    <3>2. CASE st.crossfading
      <4>1. lock' = c /\ slot'.kind = "none"
        BY <2>4, <3>2 DEF Settle, NoFade
      <4>2. QED  BY <1>2, <1>3, <2>4, <4>1 DEF Settle, DriverInv
    <3>3. QED  BY <3>1, <3>2
  <2>5. CASE TakeSkipLoad(c) \/ TakeFade(c) \/ TakeNothing(c)
    <3>1. lock = Free /\ lock' = lock /\ ~st.crossfading
      BY <1>4, <2>5 DEF TakeSkipLoad, TakeFade, TakeNothing, Takes, TakesSlot, Slip, Slips
    <3>2. slot'.kind # "crossfade"
      <4>1. CASE TakeSkipLoad(c)
        BY <4>1 DEF TakeSkipLoad
      <4>2. CASE TakeFade(c)
        <5>1. slot'.kind = IF proc[c].act \in {"pause", "stopRestore"} THEN proc[c].act
                           ELSE "setBaseline"
          BY <4>2 DEF TakeFade, NoFade
        <5>2. QED  BY <5>1
      <4>3. CASE TakeNothing(c)
        BY <4>3 DEF TakeNothing, NoFade
      <4>4. QED  BY <2>5, <4>1, <4>2, <4>3
    <3>3. st'.crossfading = st.crossfading
      <4>1. CASE TakeSkipLoad(c) \/ TakeFade(c)
        BY <4>1 DEF TakeSkipLoad, TakeFade, Types, HandlerState
      <4>2. CASE TakeNothing(c)
        <5> DEFINE s == SetManualVolume(st, DeckLoaded \/ proc[c].act # "unpick")
        <5>1. s \in HandlerState /\ s.crossfading = st.crossfading
          BY VolumeTypes DEF Types
        <5>2. st' = s \/ st' = [s EXCEPT !.queue = << >>, !.current = 0]
          BY <4>2 DEF TakeNothing
        <5> HIDE DEF s
        <5>3. QED  BY <5>1, <5>2 DEF HandlerState
      <4>3. QED  BY <2>5, <4>1, <4>2
    <3>4. QED  BY <1>2, <1>3, <3>1, <3>2, <3>3 DEF DriverInv
  <2>6. CASE Release(c)
    <3>1. lock = Free /\ lock' = lock /\ slot'.kind = "none" /\ st'.crossfading = st.crossfading
      BY <2>6 DEF Release, NoFade, Types, HandlerState
    <3>2. proc[c].act = "resumeIn"
      BY <2>6 DEF Release, SlotInv, ActInv
    <3>3. proc'[c].pc \in {"wake", "settle"} /\ proc'[c].act = proc[c].act
      BY <1>1, <2>6, GotoTypes DEF Release, Types, Pcs
    <3>4. Rising'
      BY <3>2, <3>3 DEF Rising
    <3>5. QED  BY <1>2, <1>3, <3>1, <3>4 DEF DriverInv
  <2>7. QED  BY <2>2, <2>3, <2>4, <2>5, <2>6 DEF ClientStep
<1>5. QED  BY <1>1, <1>4 DEF SlotInv

LEMMA FaderStepDriver ==
    ASSUME Types, LockInv, SlotInv, FaderStep
    PROVE  SlotInv'
<1>1. OnlyMoves(Fader) /\ Fader \in Tasks
  BY DEF FaderStep, RampMoves, CrossfadeEnds, SetBaseline, PauseTerminal, StopRestore, DipEnds,
         Switch, Swap, Hold, Goto, Done, OnlyMoves, Types, Tasks
<1>2. \A c \in Client : proc'[c] = proc[c]
  BY <1>1, CrossfadeAssumption DEF OnlyMoves, Tasks
<1>3. ActInv'
  BY <1>2, ActUntouched DEF SlotInv
<1>4. Rising => Rising'
  BY <1>2 DEF Rising
<1>5. Free \notin Client /\ Fader \notin Client
  BY CrossfadeAssumption
<1>6. ASSUME slips' = {} PROVE DriverInv'
  <2>1. slips = {} /\ DriverInv
    BY <1>6
    DEF FaderStep, RampMoves, CrossfadeEnds, SetBaseline, PauseTerminal, StopRestore, DipEnds,
        Switch, Swap, Slip, SlotInv
  <2>2. CASE RampMoves
    BY <1>4, <2>1, <2>2 DEF RampMoves, DriverInv
  <2>3. CASE CrossfadeEnds \/ DipEnds
    <3>1. /\ lock' = Fader /\ lock = Free /\ slot' = slot /\ st' = st
          /\ proc'[Fader].pc \in {"switch", "swap"} => slot.kind = "skipLoad"
      <4>1. CASE CrossfadeEnds
        <5>1. proc'[Fader].pc \in {"attribute", "promote"}
          BY <4>1, HoldTypes DEF CrossfadeEnds, RampEnds, HoldingPcs
        <5>2. QED  BY <4>1, <5>1 DEF CrossfadeEnds, RampEnds, Hold
      <4>2. CASE DipEnds
        BY <4>2 DEF DipEnds, RampEnds, Hold
      <4>3. QED  BY <2>3, <4>1, <4>2
    <3>2. QED  BY <1>4, <1>5, <2>1, <3>1 DEF DriverInv
  <2>4. CASE SetBaseline \/ PauseTerminal \/ StopRestore
    <3>1. /\ lock = Free /\ lock' = lock /\ slot'.kind = "none" /\ proc' = proc
          /\ slot.kind \notin {"none", "crossfade"} /\ proc[Fader].pc = "idle"
      BY <2>4 DEF SetBaseline, PauseTerminal, StopRestore, RampEnds, Ramping, NoFade, At
    <3>2. ~st.crossfading
      BY <2>1, <3>1 DEF DriverInv
    <3>3. st'.crossfading = st.crossfading
      <4>1. CASE SetBaseline
        BY <4>1, VolumeTypes DEF SetBaseline, Types
      <4>2. CASE PauseTerminal
        BY <4>2 DEF PauseTerminal, Types, HandlerState
      <4>3. CASE StopRestore
        <5> DEFINE s == [SetManualVolume(st, FALSE) EXCEPT !.pendingPause = FALSE]
        <5>1. s \in HandlerState /\ s.crossfading = st.crossfading
          BY VolumeTypes DEF HandlerState, Types
        <5>2. st' = EvictQid(s, slot.evict)
          BY <4>3 DEF StopRestore
        <5> HIDE DEF s
        <5>3. QED  BY <5>1, <5>2, EvictTypes
      <4>4. QED  BY <2>4, <4>1, <4>2, <4>3
    <3>4. QED  BY <1>5, <3>1, <3>2, <3>3 DEF DriverInv
  <2>5. CASE Switch
    BY <1>4, <2>1, <2>5 DEF Switch, DriverInv, At
  <2>6. CASE Swap
    <3>1. ~st.crossfading
      BY <2>1, <2>6 DEF Swap, At, DriverInv
    <3>2. st'.crossfading = st.crossfading
      BY <2>6, FollowTypes DEF Swap, Types, HandlerState
    <3>3. slot'.kind = "setBaseline" /\ lock' = Free
      BY <2>6 DEF Swap, NoFade
    <3>4. proc'[Fader].pc = "idle"
      BY <1>1, <2>6, DoneTypes DEF Swap, Types
    <3>5. QED  BY <1>5, <3>1, <3>2, <3>3, <3>4 DEF DriverInv
  <2>7. QED  BY <2>2, <2>3, <2>4, <2>5, <2>6 DEF FaderStep
<1>7. QED  BY <1>3, <1>6 DEF SlotInv

LEMMA OtherStepDriver ==
    ASSUME Types, LockInv, SlotInv,
           SpineStep \/ DurationArrives \/ (\E d \in Deck : Tick(d) \/ End(d))
    PROVE  SlotInv'
<1>1. slot' = slot /\ lock' = lock /\ (slips' = {} => slips = {})
  BY DEF SpineStep, ReadPlaying, ReadPaused, ReadStopped, ReadCrossfadedEof, ReadEof,
         ReadTimePos, Reads, Advance, AdvanceLoads, AdvanceReturns, DurationArrives, Tick, End, Slip
<1>2. st'.crossfading = st.crossfading
  BY DEF SpineStep, ReadPlaying, ReadPaused, ReadStopped, ReadCrossfadedEof, ReadEof,
         ReadTimePos, Advance, AdvanceLoads, AdvanceReturns, DurationArrives, Tick, End,
         Types, HandlerState
<1>3. \A p \in Client \cup {Fader} : proc'[p] = proc[p]
  <2>1. OnlyMoves(Spine)
    BY DEF SpineStep, ReadPlaying, ReadPaused, ReadStopped, ReadCrossfadedEof, ReadEof,
           ReadTimePos, Start, Advance, AdvanceLoads, AdvanceReturns, Goto, Done,
           DurationArrives, Tick, End, OnlyMoves, Types, Tasks
  <2>2. QED  BY <2>1, CrossfadeAssumption DEF OnlyMoves, Tasks
<1>4. ActInv'
  BY <1>3, ActUntouched DEF SlotInv
<1>5. ASSUME slips' = {} PROVE DriverInv'
  <2>1. Rising => Rising'
    BY <1>3 DEF Rising
  <2>2. QED  BY <1>1, <1>2, <1>3, <1>5, <2>1 DEF DriverInv, SlotInv
<1>6. QED  BY <1>4, <1>5 DEF SlotInv

LEMMA TypesUnfold == ASSUME CrossfadeTypeOK PROVE Types /\ LockInv
BY DEF Types, LockInv, CrossfadeTypeOK, Tasks, HoldingPcs

\* The mark and the slot at every step.
LEMMA SlotHolds == CrossfadeSpec => []SlotInv
<1>1. CrossfadeInit => SlotInv
  <2> SUFFICES ASSUME CrossfadeInit PROVE SlotInv
    OBVIOUS
  <2>1. \A p \in Tasks : proc[p].pc = "idle"
    BY DEF CrossfadeInit, Tasks, IdleProc
  <2>2. slot.kind = "none" /\ ~st.crossfading
    BY DEF CrossfadeInit, NoFade
  <2>3. QED  BY <2>1, <2>2 DEF SlotInv, ActInv, DriverInv, At, Tasks
<1>2. CrossfadeTypeOK /\ SlotInv /\ [CrossfadeNext]_vars => SlotInv'
  <2> SUFFICES ASSUME Types, LockInv, SlotInv, [CrossfadeNext]_vars PROVE SlotInv'
    BY TypesUnfold
  <2>1. CASE UNCHANGED vars
    BY <2>1 DEF vars, SlotInv, ActInv, DriverInv, Rising, At
  <2>2. CASE \E c \in Client : Gesture(c) \/ ClientStep(c)
    BY <2>2, GestureDriver, ClientStepDriver
  <2>3. CASE \E p \in Client \cup {Spine} : ArmStep(p)
    BY <2>3, ArmStepDriver
  <2>4. CASE \E p \in Client \cup {Fader} : CommitStep(p)
    BY <2>4, CommitStepDriver
  <2>5. CASE FaderStep
    BY <2>5, FaderStepDriver
  <2>6. CASE SpineStep \/ DurationArrives \/ (\E d \in Deck : Tick(d) \/ End(d))
    BY <2>6, OtherStepDriver
  <2>7. QED  BY <2>1, <2>2, <2>3, <2>4, <2>5, <2>6 DEF CrossfadeNext
<1>3. QED  BY <1>1, <1>2, CrossfadeTypes, PTL DEF CrossfadeSpec

\* Whenever every task has returned and nothing slipped, the state is marked as
\* crossfading exactly when a crossfade is in the slot (handler.rs, where
\* every gesture but a resume settles before it takes the slot): no gesture is
\* left to settle a fade that is not there, and no fade runs unseen.
THEOREM OneDriverHolds == CrossfadeSpec => []OneDriver
<1>1. CrossfadeTypeOK /\ SlotInv => OneDriver
  <2> SUFFICES ASSUME LockInv, Types, SlotInv, Undisturbed
               PROVE  st.crossfading <=> slot.kind = "crossfade"
    BY TypesUnfold DEF OneDriver
  <2>1. \A p \in Tasks : proc[p].pc = "idle"
    BY DEF Undisturbed, NobodyActs, At, Tasks
  <2>2. lock \notin Client
    BY <2>1 DEF LockInv, HoldingPcs, Tasks
  <2>3. ~Rising
    BY <2>1 DEF Rising, Tasks
  <2>4. QED  BY <2>2, <2>3 DEF Undisturbed, SlotInv, DriverInv, Types, Fade
<1>2. QED  BY <1>1, CrossfadeTypes, SlotHolds, PTL
-----------------------------------------------------------------------------
(***************************************************************************)
(* The two decks, the row and the gain.  A transition arms the spare deck, *)
(* takes the slot, promotes the deck and silences the other; what each     *)
(* deck holds at each of these steps is what the properties about rest     *)
(* follow from.  While nothing has slipped, for any number of clients:     *)
(***************************************************************************)
Preparers == Client \cup {Spine}
Settlers == Client \cup {Fader}
Rows == {st.queue[i] : i \in DOMAIN st.queue}
CommitPcs == {"attribute", "promote", "silence", "land"}
Preparing(p) == proc[p].pc \in {"arm", "retreat", "install"}

\* One task prepares the spare deck, and only while no crossfade is under way.
PrepareInv ==
    \A p \in Preparers : Preparing(p) =>
        /\ ~st.crossfading /\ proc[p].on = Spare
        /\ \A q \in Preparers : Preparing(q) => p = q
        /\ proc[p].pc = "install" => Sounds(Spare) /\ deck[Spare].entry = proc[p].item

\* The spare deck sounds for a crossfade, or for one about to take the slot.
SpareInv ==
    Sounds(Spare) => st.crossfading \/ \E p \in Preparers : proc[p].pc = "install"

\* Until it is settled a crossfade has its target on the spare deck, and the row
\* it reports, if a pause has not taken that back, holds the same entry.
IncomingInv ==
    st.crossfading /\ lock = Free =>
        /\ Sounds(Spare) /\ deck[Spare].entry \in Entry
        /\ st.pendingSkip # 0 => EntryAt(st.pendingSkip) = deck[Spare].entry
        /\ st.evict # deck[Spare].entry
        /\ slot.kind = "crossfade" => slot.target = deck[Spare].entry

\* Only a pause, which then settles, takes the report back.
PauseInv ==
    slot.kind = "crossfade" /\ st.pendingSkip = 0 /\ lock = Free =>
        \E c \in Client : proc[c].pc \in {"settle", "take"} /\ proc[c].act = "pause"

\* Who settles knows what it promotes, silences the right deck, and finds the
\* row again; the spine may meanwhile have loaded over an end of the new track.
SettleInv ==
    \A p \in Settlers :
        /\ proc[p].pc \in CommitPcs \cup {"abandon"} => st.crossfading
        /\ proc[p].pc = "abandon" => ~Promotes(p)
        /\ \/ proc[p].pc \in {"attribute", "promote", "silence"}
           \/ proc[p].pc = "land" /\ p = Fader
           => Promotes(p)
        /\ proc[p].pc \in {"attribute", "promote"} =>
              Sounds(Spare) /\ deck[Spare].entry = proc[p].settling.target
        /\ proc[p].pc = "silence" => proc[p].on = Spare
        /\ proc[p].pc = "land" => ~Sounds(Spare)
        /\ proc[p].pc \in CommitPcs /\ Promotes(p) =>
              /\ proc[p].settling.target \in Rows
              /\ proc[p].settling.evict # proc[p].settling.target
        /\ proc[p].pc \in {"silence", "land"} /\ Promotes(p) =>
              \/ deck[active].state = "Stopped" \/ At(Spine, "commit")
              \/ deck[active].entry = proc[p].settling.target

\* What a transition in the slot will make current is in the queue, and is not
\* what it evicts.
TargetInv ==
    slot.kind \in {"crossfade", "skipLoad"} => slot.target \in Rows /\ slot.evict # slot.target

\* The ends the spine has still to read.
IsEnd(e) == e.kind = "Eof" /\ ~e.crossfaded
NoEnds(s) == \A i \in DOMAIN s : ~IsEnd(s[i])
OneEnd(s) == \A i, j \in DOMAIN s : IsEnd(s[i]) /\ IsEnd(s[j]) => i = j

\* An end under way is the only one, and is that of the active deck.
EndInv ==
    /\ proc[Spine].pc \in {"advance", "load"} => deck[active].state = "Stopped" /\ NoEnds(ring)
    /\ ~NoEnds(ring) => deck[active].state = "Stopped"
    /\ OneEnd(ring)

\* What the active deck holds is the current row, or somebody is about to say
\* which row it is, or to stop the deck.
RowInv ==
    deck[active].state # "Stopped" =>
        \/ OnRow /\ st.queue[st.current] = deck[active].entry
        \/ \E p \in Preparers : At(p, "commit")
        \/ \E c \in Client : At(c, "halt")
        \/ At(Fader, "swap")
        \/ \E p \in Settlers : proc[p].pc \in {"promote", "silence", "land"} /\ Promotes(p)

DecksInv ==
    /\ PrepareInv /\ SpareInv /\ IncomingInv /\ PauseInv /\ SettleInv /\ TargetInv
    /\ EndInv /\ RowInv

\* And always: a task that is to load an entry knows it, a stopped deck holds
\* nothing, no entry is in the queue twice, and a gain off the baseline with no
\* fade to bring it back is owed to a client.
AimInv ==
    \A p \in Preparers :
        LET aims == proc[p].pc \in {"mute", "arm", "retreat", "install", "aim"} IN
        /\ \/ aims \/ proc[p].pc \in {"load", "commit"}
           \/ p # Spine /\ proc[p].act \in {"load", "skipLoad"}
           => proc[p].item \in Entry
        /\ aims \/ (p # Spine /\ proc[p].act = "skipLoad") => proc[p].gone # proc[p].item

HoldInv == \A d \in Deck : deck[d].state = "Stopped" => deck[d].entry = NoEntry

UniqueInv == \A i, j \in DOMAIN st.queue : st.queue[i] = st.queue[j] => i = j

Owes(c) ==
    \/ proc[c].pc \in CommitPcs \cup {"abandon", "load", "halt", "wake"}
    \/ proc[c].pc = "evict" /\ proc[c].act \in {"unpick", "unload"}
    \/ proc[c].pc \in {"settle", "take"} /\ proc[c].act \in {"resumeIn", "knob"}

GainInv ==
    /\ slot.kind = "none" /\ deck[active].gain # "baseline" => \E c \in Client : Owes(c)
    /\ proc[Fader].pc # "idle" => proc[Fader].pc \in HoldingPcs /\ slot.kind # "none"
    /\ \A c \in Client : proc[c].pc \in {"release", "wake"} => proc[c].act = "resumeIn"

AlwaysInv == AimInv /\ HoldInv /\ UniqueInv /\ GainInv
TransitionInv == AlwaysInv /\ (slips = {} => DecksInv)
-----------------------------------------------------------------------------
(* The two decks, and what a command leaves on them. *)

LEMMA TwoDecks ==
    ASSUME active \in Deck
    PROVE  /\ Spare \in Deck /\ Spare # active
           /\ \A d \in Deck : d = active \/ d = Spare
<1>1. Spare \in Deck /\ Spare # active
  BY SpareIsOther
<1>2. PICK a \in Deck, b \in Deck : Deck = {a, b}
  BY CrossfadeAssumption
<1>3. QED  BY <1>1, <1>2

LEMMA SpareStays == ASSUME active' = active PROVE Spare' = Spare
BY DEF Spare

LEMMA SpareSwaps == ASSUME active \in Deck, active' = Spare PROVE Spare' = active
<1>1. active' \in Deck
  BY SpareIsOther
<1>2. Spare' \in Deck /\ Spare' # active'
  <2>1. \E d \in Deck : d # active'
    BY CrossfadeAssumption
  <2>2. QED  BY <2>1 DEF Spare
<1>3. QED  BY <1>2, TwoDecks

\* A step leaves on deck d what it held; it is told to play, or is stopped.
Same(d) == deck'[d].state = deck[d].state /\ deck'[d].entry = deck[d].entry
Plays(d, e) == deck'[d].state = "Playing" /\ deck'[d].entry = e
Silent(d) == deck'[d].state = "Stopped" /\ deck'[d].entry = NoEntry
SameGain(d) == deck'[d].gain = deck[d].gain
Others(d) == \A o \in Deck : o # d => deck'[o] = deck[o]

LEMMA LoadedHolds ==
    ASSUME deck \in [Deck -> DeckState], NEW d \in Deck, NEW e, NEW gain, Loaded(d, e, gain)
    PROVE  /\ Plays(d, e) /\ deck'[d].gain = gain /\ Others(d)
           /\ ring' = ring \o <<Ev("Playing", e)>>
BY DEF Loaded, Tell, Plays, Others

LEMMA StoppedHolds ==
    ASSUME deck \in [Deck -> DeckState], NEW d \in Deck, NEW gain, Stopped(d, gain)
    PROVE  /\ Silent(d) /\ deck'[d].gain = gain /\ Others(d)
           /\ ring' = ring \o <<Ev("Stopped", NoEntry)>>
BY DEF Stopped, Tell, Silent, Others

LEMMA SetGainHolds ==
    ASSUME deck \in [Deck -> DeckState], NEW d \in Deck, NEW gain, SetGain(d, gain)
    PROVE  /\ Same(d) /\ deck'[d].gain = gain /\ Others(d) /\ ring' = ring
BY DEF SetGain, Same, Others, DeckState
-----------------------------------------------------------------------------
(* Where a task's step leaves it. *)

LEMMA GotoKeeps ==
    ASSUME proc \in [Tasks -> Proc], NEW p \in Tasks, NEW pc, Goto(p, pc)
    PROVE  /\ OnlyMoves(p) /\ proc'[p].pc = pc
           /\ proc'[p].act = proc[p].act /\ proc'[p].idx = proc[p].idx
           /\ proc'[p].item = proc[p].item /\ proc'[p].gone = proc[p].gone
           /\ proc'[p].on = proc[p].on /\ proc'[p].settling = proc[p].settling
<1>1. proc[p] \in Proc
  OBVIOUS
<1>2. proc'[p] = [proc[p] EXCEPT !.pc = pc] /\ OnlyMoves(p)
  BY DEF Goto, OnlyMoves
<1>3. QED  BY <1>1, <1>2 DEF Proc

LEMMA DoneLeaves ==
    ASSUME proc \in [Tasks -> Proc], NEW p \in Tasks, Done(p)
    PROVE  /\ OnlyMoves(p) /\ proc'[p].pc = "idle" /\ proc'[p].act = "none"
BY DEF Done, IdleProc, OnlyMoves

LEMMA StartSets ==
    ASSUME proc \in [Tasks -> Proc], NEW p \in Tasks, NEW pc, NEW act, NEW idx, NEW gone,
           Start(p, pc, act, idx, gone)
    PROVE  /\ OnlyMoves(p) /\ proc'[p].pc = pc /\ proc'[p].act = act /\ proc'[p].idx = idx
           /\ proc'[p].item = EntryAt(idx) /\ proc'[p].gone = gone
BY DEF Start, IdleProc, OnlyMoves
-----------------------------------------------------------------------------
(* The ring. *)

LEMMA EndsAppended ==
    ASSUME NEW s \in Seq(Event), NEW e \in Event
    PROVE  /\ ~IsEnd(e) => (NoEnds(s \o <<e>>) <=> NoEnds(s)) /\ (OneEnd(s) => OneEnd(s \o <<e>>))
           /\ NoEnds(s) => OneEnd(s \o <<e>>)
<1>1. /\ DOMAIN s = 1..Len(s) /\ DOMAIN (s \o <<e>>) = 1..(Len(s) + 1) /\ Len(s) \in Nat
      /\ \A i \in 1..Len(s) : (s \o <<e>>)[i] = s[i]
      /\ (s \o <<e>>)[Len(s) + 1] = e
  OBVIOUS
<1> DEFINE t == s \o <<e>>
<1> HIDE DEF t
<1>2. \A i \in 1..(Len(s) + 1) : i \in 1..Len(s) \/ i = Len(s) + 1
  BY <1>1
<1>3. 1..Len(s) \subseteq 1..(Len(s) + 1) /\ Len(s) + 1 \in 1..(Len(s) + 1)
  BY <1>1
<1>4. /\ DOMAIN t = 1..(Len(s) + 1) /\ \A i \in 1..Len(s) : t[i] = s[i]
      /\ t[Len(s) + 1] = e
  BY <1>1 DEF t
<1>5. ASSUME ~IsEnd(e) PROVE NoEnds(t) <=> NoEnds(s)
  BY <1>1, <1>2, <1>3, <1>4, <1>5 DEF NoEnds
<1>6. ASSUME ~IsEnd(e), OneEnd(s) PROVE OneEnd(t)
  BY <1>1, <1>2, <1>3, <1>4, <1>6 DEF OneEnd
<1>7. ASSUME NoEnds(s) PROVE OneEnd(t)
  BY <1>1, <1>2, <1>3, <1>4, <1>7 DEF OneEnd, NoEnds
<1>8. QED  BY <1>5, <1>6, <1>7 DEF t

LEMMA EndsRead ==
    ASSUME NEW s \in Seq(Event), s # << >>
    PROVE  /\ NoEnds(s) => NoEnds(Tail(s))
           /\ OneEnd(s) => OneEnd(Tail(s))
           /\ OneEnd(s) /\ IsEnd(Head(s)) => NoEnds(Tail(s))
<1>1. /\ Len(s) \in Nat \ {0} /\ DOMAIN s = 1..Len(s) /\ Head(s) = s[1]
      /\ DOMAIN Tail(s) = 1..(Len(s) - 1)
      /\ \A i \in 1..(Len(s) - 1) : Tail(s)[i] = s[i + 1]
  OBVIOUS
<1>2. \A i \in 1..(Len(s) - 1) : i \in Nat /\ i + 1 \in 1..Len(s) /\ i + 1 # 1
  BY <1>1
<1>3. 1 \in 1..Len(s)
  BY <1>1
<1>4. ASSUME NoEnds(s) PROVE NoEnds(Tail(s))
  BY <1>1, <1>2, <1>4 DEF NoEnds
<1>5. ASSUME OneEnd(s) PROVE OneEnd(Tail(s))
  <2>1. ASSUME NEW i \in 1..(Len(s) - 1), NEW j \in 1..(Len(s) - 1),
               IsEnd(Tail(s)[i]), IsEnd(Tail(s)[j])
        PROVE  i = j
    <3>1. IsEnd(s[i + 1]) /\ IsEnd(s[j + 1]) /\ i + 1 \in DOMAIN s /\ j + 1 \in DOMAIN s
      BY <1>1, <1>2, <2>1
    <3>2. i + 1 = j + 1
      BY <1>5, <3>1 DEF OneEnd
    <3>3. QED  BY <1>2, <3>2
  <2>2. QED  BY <1>1, <2>1 DEF OneEnd
<1>6. ASSUME OneEnd(s), IsEnd(Head(s)) PROVE NoEnds(Tail(s))
  <2>1. ASSUME NEW i \in 1..(Len(s) - 1), IsEnd(Tail(s)[i]) PROVE FALSE
    <3>1. IsEnd(s[i + 1]) /\ IsEnd(s[1]) /\ i + 1 \in DOMAIN s /\ 1 \in DOMAIN s
      BY <1>1, <1>2, <1>3, <1>6, <2>1
    <3>2. QED  BY <1>2, <1>6, <3>1 DEF OneEnd
  <2>2. QED  BY <1>1, <2>1 DEF NoEnds
<1>7. QED  BY <1>4, <1>5, <1>6

-----------------------------------------------------------------------------
(* What each conjunct of the invariant depends on. *)
Exempt == {"commit", "halt", "swap", "promote", "silence", "land"}

LEMMA PrepareKept ==
    ASSUME PrepareInv, active' = active, st'.crossfading => st.crossfading, Same(Spare),
           \A p \in Preparers : Preparing(p)' =>
              /\ Preparing(p) /\ proc'[p].on = proc[p].on /\ proc'[p].item = proc[p].item
              /\ proc'[p].pc = "install" => proc[p].pc = "install"
    PROVE  PrepareInv'
<1>1. Spare' = Spare
  BY SpareStays
<1>2. QED  BY <1>1 DEF PrepareInv, Preparing, Same, Sounds

LEMMA SpareKept ==
    ASSUME SpareInv, active' = active, deck'[Spare].state = "Playing" => Sounds(Spare),
           st.crossfading => st'.crossfading,
           \A p \in Preparers : proc[p].pc = "install" => proc'[p].pc = "install"
    PROVE  SpareInv'
<1>1. Spare' = Spare
  BY SpareStays
<1>2. QED  BY <1>1 DEF SpareInv, Sounds

LEMMA IncomingKept ==
    ASSUME IncomingInv, active' = active, Same(Spare),
           st'.crossfading /\ lock' = Free =>
              /\ st.crossfading /\ lock = Free /\ st'.evict = st.evict
              /\ st'.pendingSkip # 0 =>
                    st.pendingSkip # 0 /\ EntryAt(st.pendingSkip)' = EntryAt(st.pendingSkip),
           slot'.kind = "crossfade" => slot' = slot
    PROVE  IncomingInv'
<1>1. Spare' = Spare
  BY SpareStays
<1> DEFINE e == EntryAt(st.pendingSkip)
<1>2. IncomingInv <=> (st.crossfading /\ lock = Free =>
        /\ Sounds(Spare) /\ deck[Spare].entry \in Entry
        /\ st.pendingSkip # 0 => e = deck[Spare].entry
        /\ st.evict # deck[Spare].entry
        /\ slot.kind = "crossfade" => slot.target = deck[Spare].entry)
  BY DEF IncomingInv
<1>3. IncomingInv' <=> (st'.crossfading /\ lock' = Free =>
        /\ Sounds(Spare)' /\ deck'[Spare].entry \in Entry
        /\ st'.pendingSkip # 0 => e' = deck'[Spare].entry
        /\ st'.evict # deck'[Spare].entry
        /\ slot'.kind = "crossfade" => slot'.target = deck'[Spare].entry)
  BY <1>1 DEF IncomingInv
<1>4. e' = EntryAt(st.pendingSkip)'
  OBVIOUS
<1>5. (Sounds(Spare)' <=> Sounds(Spare)) /\ deck'[Spare].entry = deck[Spare].entry
  BY <1>1 DEF Same, Sounds
<1>6. st'.pendingSkip # 0 /\ st'.crossfading /\ lock' = Free => st.pendingSkip # 0 /\ e' = e
  BY <1>4
<1> HIDE DEF e
<1>7. QED  BY <1>2, <1>3, <1>5, <1>6

LEMMA PauseKept ==
    ASSUME PauseInv,
           slot'.kind = "crossfade" /\ st'.pendingSkip = 0 /\ lock' = Free =>
              slot.kind = "crossfade" /\ st.pendingSkip = 0 /\ lock = Free,
           \A c \in Client : proc[c].pc \in {"settle", "take"} /\ proc[c].act = "pause" =>
              proc'[c].pc \in {"settle", "take"} /\ proc'[c].act = "pause"
    PROVE  PauseInv'
BY DEF PauseInv

LEMMA SettleKept ==
    ASSUME SettleInv, active' = active, st.crossfading => st'.crossfading, Same(Spare),
           \/ deck'[active].state = "Stopped"
           \/ At(Spine, "commit")'
           \/ deck[active].state # "Stopped" /\ deck'[active].entry = deck[active].entry,
           At(Spine, "commit") => At(Spine, "commit")',
           \A p \in Settlers :
              proc[p].pc \in CommitPcs /\ proc[p].settling.target \in Rows =>
                 proc[p].settling.target \in Rows',
           \A p \in Settlers : proc'[p].pc \in CommitPcs \cup {"abandon"} => proc'[p] = proc[p]
    PROVE  SettleInv'
<1>1. Spare' = Spare
  BY SpareStays
<1>2. ASSUME NEW p \in Settlers, proc'[p].pc \in CommitPcs \cup {"abandon"}
      PROVE  /\ st'.crossfading
             /\ \/ proc'[p].pc \in {"attribute", "promote", "silence"}
                \/ proc'[p].pc = "land" /\ p = Fader
                => Promotes(p)'
             /\ proc'[p].pc = "abandon" => ~Promotes(p)'
             /\ proc'[p].pc \in {"attribute", "promote"} =>
                   Sounds(Spare)' /\ deck'[Spare].entry = proc'[p].settling.target
             /\ proc'[p].pc = "silence" => proc'[p].on = Spare
             /\ proc'[p].pc = "land" => ~Sounds(Spare)'
             /\ proc'[p].pc \in CommitPcs /\ Promotes(p)' =>
                   /\ proc'[p].settling.target \in Rows'
                   /\ proc'[p].settling.evict # proc'[p].settling.target
             /\ proc'[p].pc \in {"silence", "land"} /\ Promotes(p)' =>
                   \/ deck'[active].state = "Stopped" \/ At(Spine, "commit")'
                   \/ deck'[active].entry = proc'[p].settling.target
  <2>1. proc'[p] = proc[p] /\ (Promotes(p)' <=> Promotes(p))
    BY <1>2 DEF Promotes
  <2>2. Sounds(Spare)' <=> Sounds(Spare)
    BY <1>1 DEF Sounds, Same
  <2>3. proc[p].pc \in CommitPcs /\ proc[p].settling.target \in Rows =>
           proc[p].settling.target \in Rows'
    OBVIOUS
  <2>4. QED  BY <1>2, <2>1, <2>2, <2>3 DEF SettleInv, Same
<1>3. QED  BY <1>1, <1>2 DEF SettleInv, CommitPcs

LEMMA SettleEmpty ==
    ASSUME SettleInv, ~st.crossfading,
           \A p \in Settlers : proc'[p].pc \in CommitPcs \cup {"abandon"} => proc'[p].pc = proc[p].pc
    PROVE  SettleInv'
BY DEF SettleInv, CommitPcs

LEMMA TargetKept ==
    ASSUME TargetInv, slot'.kind \in {"crossfade", "skipLoad"} => slot' = slot,
           slot.kind \in {"crossfade", "skipLoad"} /\ slot.target \in Rows => slot.target \in Rows'
    PROVE  TargetInv'
BY DEF TargetInv

LEMMA EndKept ==
    ASSUME EndInv, deck[active].state = "Stopped" => deck'[active'].state = "Stopped",
           proc'[Spine].pc \in {"advance", "load"} => proc[Spine].pc \in {"advance", "load"},
           NoEnds(ring) => NoEnds(ring'), OneEnd(ring')
    PROVE  EndInv'
<1>1. NoEnds(ring)' <=> NoEnds(ring')
  BY DEF NoEnds, IsEnd
<1>2. OneEnd(ring)' <=> OneEnd(ring')
  BY DEF OneEnd, IsEnd
<1>3. QED  BY <1>1, <1>2 DEF EndInv

LEMMA RowFollows ==
    ASSUME RowInv, active' = active,
           deck'[active].state # "Stopped" =>
              deck[active].state # "Stopped" /\ deck'[active].entry = deck[active].entry,
           OnRow => OnRow' /\ st'.queue[st'.current] = st.queue[st.current],
           \A p \in Tasks : proc[p].pc \in Exempt => proc'[p] = proc[p]
    PROVE  RowInv'
<1>1. \A p \in Tasks : At(p, "commit") => At(p, "commit")'
  BY DEF At, Exempt
<1>2. \A p \in Tasks : At(p, "halt") => At(p, "halt")'
  BY DEF At, Exempt
<1>3. At(Fader, "swap") => At(Fader, "swap")'
  BY DEF At, Exempt, Tasks
<1>4. \A p \in Settlers : proc[p].pc \in {"promote", "silence", "land"} /\ Promotes(p) =>
         (proc[p].pc \in {"promote", "silence", "land"} /\ Promotes(p))'
  BY DEF Promotes, Exempt, Tasks, Settlers
<1>5. Preparers \subseteq Tasks /\ Client \subseteq Tasks
  BY DEF Preparers, Tasks
<1>6. QED  BY <1>1, <1>2, <1>3, <1>4, <1>5 DEF RowInv

LEMMA RowKept ==
    ASSUME RowInv, active' = active,
           deck'[active].state # "Stopped" =>
              deck[active].state # "Stopped" /\ deck'[active].entry = deck[active].entry,
           st'.queue = st.queue, st'.current = st.current,
           \A p \in Tasks : proc[p].pc \in Exempt => proc'[p] = proc[p]
    PROVE  RowInv'
<1>1. OnRow => OnRow' /\ st'.queue[st'.current] = st.queue[st.current]
  BY DEF OnRow
<1>2. QED  BY <1>1, RowFollows

LEMMA AimedAt ==
    ASSUME AimInv, NEW p \in Preparers
    PROVE  /\ proc[p].pc \in {"mute", "arm", "retreat", "install", "aim"} =>
                proc[p].item \in Entry /\ proc[p].gone # proc[p].item
           /\ proc[p].pc \in {"load", "commit"} => proc[p].item \in Entry
           /\ p # Spine /\ proc[p].act = "skipLoad" =>
                proc[p].item \in Entry /\ proc[p].gone # proc[p].item
BY DEF AimInv

LEMMA AimKept ==
    ASSUME AimInv, NEW p \in Tasks, OnlyMoves(p),
           proc'[p].item = proc[p].item, proc'[p].gone = proc[p].gone, proc'[p].act = proc[p].act,
           proc'[p].pc \in {"mute", "arm", "retreat", "install", "aim"} =>
              proc[p].pc \in {"mute", "arm", "retreat", "install", "aim"},
           proc'[p].pc \in {"load", "commit"} =>
              proc[p].pc \in {"load", "commit"} \/ (p # Spine /\ proc[p].act = "load")
    PROVE  AimInv'
BY DEF AimInv, OnlyMoves, Preparers, Tasks

LEMMA AimElsewhere ==
    ASSUME AimInv, \A p \in Preparers : proc'[p] = proc[p]
    PROVE  AimInv'
BY DEF AimInv

LEMMA AimSet ==
    ASSUME AimInv, NEW p \in Tasks, OnlyMoves(p),
           \/ /\ proc'[p].pc \notin {"mute", "arm", "retreat", "install", "aim", "load", "commit"}
              /\ proc'[p].act \notin {"load", "skipLoad"}
           \/ proc'[p].item \in Entry /\ proc'[p].gone # proc'[p].item
           \/ proc'[p].item \in Entry /\ p = Spine /\ proc'[p].pc = "load"
    PROVE  AimInv'
BY DEF AimInv, OnlyMoves, Preparers, Tasks

LEMMA GainKept ==
    ASSUME GainInv, NEW p \in Tasks, OnlyMoves(p),
           slot'.kind = "none" => slot.kind = "none" /\ p # Fader,
           active' = active,
           deck'[active].gain = deck[active].gain \/ deck'[active].gain = "baseline",
           p \in Client /\ Owes(p) => Owes(p)' \/ deck'[active].gain = "baseline",
           p = Fader => slot'.kind # "none" /\ proc'[p].pc \in HoldingPcs,
           proc'[p].pc \in {"release", "wake"} => proc'[p].act = "resumeIn"
    PROVE  GainInv'
<1>1. \A c \in Client : c # p => (Owes(c)' <=> Owes(c))
  BY DEF Owes, OnlyMoves, Tasks
<1>2. \A c \in Client : proc'[c].pc \in {"release", "wake"} => proc'[c].act = "resumeIn"
  BY DEF GainInv, OnlyMoves, Tasks
<1>3. proc'[Fader].pc # "idle" => proc'[Fader].pc \in HoldingPcs /\ slot'.kind # "none"
  <2>1. CASE p = Fader
    BY <2>1
  <2>2. CASE p # Fader
    BY <2>2 DEF GainInv, OnlyMoves, Tasks
  <2>3. QED  BY <2>1, <2>2
<1>4. slot'.kind = "none" /\ deck'[active'].gain # "baseline" => \E c \in Client : Owes(c)'
  BY <1>1 DEF GainInv
<1>5. QED  BY <1>2, <1>3, <1>4 DEF GainInv, Owes

\* The client that moved owes the gain, or a fade is there, or nothing is owed.
LEMMA GainOwed ==
    ASSUME GainInv, LockInv, NEW c \in Client, OnlyMoves(c), slot' = slot \/ lock = Free,
           Owes(c)' \/ slot'.kind # "none" \/ deck'[active'].gain = "baseline",
           proc'[c].pc \in {"release", "wake"} => proc'[c].act = "resumeIn"
    PROVE  GainInv'
<1>1. proc'[Fader] = proc[Fader] /\ Fader \in Tasks
  BY CrossfadeAssumption DEF OnlyMoves, Tasks
<1>2. proc'[Fader].pc # "idle" => proc'[Fader].pc \in HoldingPcs /\ slot'.kind # "none"
  BY <1>1, CrossfadeAssumption DEF GainInv, LockInv
<1>3. \A q \in Client : proc'[q].pc \in {"release", "wake"} => proc'[q].act = "resumeIn"
  BY DEF GainInv, OnlyMoves, Tasks
<1>4. slot'.kind = "none" /\ deck'[active'].gain # "baseline" => \E q \in Client : Owes(q)'
  OBVIOUS
<1>5. QED  BY <1>2, <1>3, <1>4 DEF GainInv, Owes

-----------------------------------------------------------------------------
(* What an eviction leaves of the queue, and what a promotion finds in it. *)
RowsOf(s) == {s.queue[i] : i \in DOMAIN s.queue}
Distinct(s) == \A i, j \in DOMAIN s.queue : s.queue[i] = s.queue[j] => i = j

LEMMA EvictKeeps ==
    ASSUME NEW s \in HandlerState, NEW e
    PROVE  LET t == EvictQid(s, e) IN
           /\ RowsOf(s) \ {e} \subseteq RowsOf(t) /\ t.evict = s.evict
           /\ Distinct(s) => Distinct(t)
           /\ s.current \in DOMAIN s.queue /\ s.queue[s.current] # e =>
                 t.current \in DOMAIN t.queue /\ t.queue[t.current] = s.queue[s.current]
           /\ s.pendingSkip \in DOMAIN s.queue /\ s.queue[s.pendingSkip] # e =>
                 /\ t.pendingSkip \in DOMAIN t.queue
                 /\ t.queue[t.pendingSkip] = s.queue[s.pendingSkip]
           /\ s.pendingSkip = 0 => t.pendingSkip = 0
<1> DEFINE t == EvictQid(s, e)
           pos == PositionOf(s.queue, e)
           rest == RemoveRow(s.queue, pos)
<1>1. /\ s.queue \in Seq(Entry) /\ s.current \in Nat /\ s.pendingSkip \in Nat
      /\ Len(s.queue) \in Nat /\ DOMAIN s.queue = 1..Len(s.queue)
  BY DEF HandlerState
<1>2. CASE pos = 0
  <2>1. t = s
    BY <1>2 DEF EvictQid
  <2> HIDE DEF t
  <2>2. QED  BY <2>1 DEF t
<1>3. CASE pos # 0
  <2>1. pos \in 1..Len(s.queue) /\ s.queue[pos] = e
    BY <1>1, <1>3, PositionIsFirst
  <2>2. t = [s EXCEPT !.queue = rest, !.current = Remap(s.current, pos),
                      !.pendingSkip = Remap(s.pendingSkip, pos)]
    BY <1>3 DEF EvictQid
  <2> HIDE DEF t, pos, rest
  <2>3. /\ t.queue = rest /\ t.current = Remap(s.current, pos) /\ t.evict = s.evict
        /\ t.pendingSkip = Remap(s.pendingSkip, pos)
    BY <2>2 DEF HandlerState
  <2>4. /\ rest \in Seq(Entry) /\ Len(rest) = Len(s.queue) - 1
        /\ \A i \in 1..(Len(s.queue) - 1) :
              rest[i] = IF i < pos THEN s.queue[i] ELSE s.queue[i + 1]
    BY <1>1, <2>1, RemoveRowShape DEF rest
  <2>5. DOMAIN rest = 1..(Len(s.queue) - 1)
    BY <2>4
  <2>6. ASSUME NEW i \in DOMAIN s.queue, s.queue[i] # e
        PROVE  Remap(i, pos) \in DOMAIN rest /\ rest[Remap(i, pos)] = s.queue[i]
    <3>1. i \in 1..Len(s.queue) /\ i # pos
      BY <1>1, <2>1, <2>6
    <3>2. QED  BY <1>1, <2>1, <2>4, <2>5, <3>1, RemapFollows DEF rest
  <2>7. RowsOf(s) \ {e} \subseteq RowsOf(t)
    BY <2>3, <2>6 DEF RowsOf
  <2>8. ASSUME Distinct(s) PROVE Distinct(t)
    <3>1. ASSUME NEW i \in DOMAIN rest, NEW j \in DOMAIN rest, rest[i] = rest[j] PROVE i = j
      <4> DEFINE k == IF i < pos THEN i ELSE i + 1
                 l == IF j < pos THEN j ELSE j + 1
      <4>1. i \in 1..(Len(s.queue) - 1) /\ j \in 1..(Len(s.queue) - 1)
        BY <2>5
      <4>2. k \in DOMAIN s.queue /\ l \in DOMAIN s.queue
        BY <1>1, <4>1
      <4>3. s.queue[k] = s.queue[l]
        BY <2>4, <3>1, <4>1
      <4>4. k = l
        <5> HIDE DEF k, l
        <5>1. QED  BY <2>8, <4>2, <4>3 DEF Distinct
      <4>5. pos \in Nat
        BY <2>1
      <4>6. QED  BY <4>1, <4>4, <4>5
    <3>2. QED  BY <2>3, <3>1 DEF Distinct
  <2>9. Remap(0, pos) = 0
    BY <2>1 DEF Remap
  <2>10. QED  BY <2>3, <2>6, <2>7, <2>8, <2>9 DEF t
<1>4. QED  BY <1>2, <1>3

\* The row of what was promoted is found again.
LEMMA FollowFinds ==
    ASSUME NEW s \in HandlerState, NEW f, f.target \in RowsOf(s), f.evict # f.target
    PROVE  LET t == Follow(s, f) IN
           /\ t.current \in DOMAIN t.queue /\ t.queue[t.current] = f.target
           /\ Distinct(s) => Distinct(t)
<1> DEFINE u == EvictQid(s, f.evict)
           t == Follow(s, f)
<1>1. u \in HandlerState /\ f.target \in RowsOf(u) /\ (Distinct(s) => Distinct(u))
  BY EvictTypes, EvictKeeps
<1>2. f.target \in Entry
  BY DEF HandlerState, RowsOf
<1>3. f.target # NoEntry
  BY <1>2, CrossfadeAssumption
<1>4. t = [u EXCEPT !.current = PositionOf(u.queue, f.target)]
  BY <1>3 DEF Follow
<1> HIDE DEF u, t
<1>5. t.queue = u.queue /\ t.current = PositionOf(u.queue, f.target) /\ u.queue \in Seq(Entry)
  BY <1>1, <1>4 DEF HandlerState
<1>6. \E i \in DOMAIN u.queue : u.queue[i] = f.target
  BY <1>1 DEF RowsOf
<1>7. /\ PositionOf(u.queue, f.target) \in 1..Len(u.queue)
      /\ u.queue[PositionOf(u.queue, f.target)] = f.target
  BY <1>5, <1>6, PositionIsFirst
<1>8. t.current \in DOMAIN t.queue /\ t.queue[t.current] = f.target
  BY <1>5, <1>7
<1>9. Distinct(u) => Distinct(t)
  BY <1>5 DEF Distinct
<1>10. QED  BY <1>1, <1>8, <1>9 DEF t

LEMMA FollowDistinct ==
    ASSUME NEW s \in HandlerState, NEW f, Distinct(s)
    PROVE  Distinct(Follow(s, f))
<1> DEFINE u == EvictQid(s, f.evict)
           t == Follow(s, f)
<1>1. u \in HandlerState /\ Distinct(u)
  BY EvictTypes, EvictKeeps
<1>2. t = u \/ t = [u EXCEPT !.current = PositionOf(u.queue, f.target)]
  BY DEF Follow
<1> HIDE DEF u, t
<1>3. t.queue = u.queue
  BY <1>1, <1>2 DEF HandlerState
<1>4. QED  BY <1>1, <1>3 DEF Distinct, t

LEMMA VolumeKeeps ==
    ASSUME NEW s \in HandlerState, NEW loaded
    PROVE  LET t == SetManualVolume(s, loaded) IN
           /\ t.queue = s.queue /\ t.current = s.current /\ t.pendingSkip = 0 /\ t.evict = s.evict
BY DEF SetManualVolume, HandlerState

-----------------------------------------------------------------------------
(* What always holds, action by action. *)

LEMMA HoldKept ==
    ASSUME HoldInv, NEW d \in Deck, Others(d),
           Same(d) \/ Silent(d) \/ deck'[d].state # "Stopped"
    PROVE  HoldInv'
BY DEF HoldInv, Others, Same, Silent

LEMMA HoldUntouched == ASSUME HoldInv, ring' = ring, NoCommand PROVE HoldInv'
BY DEF HoldInv, NoCommand

LEMMA UniqueKept == ASSUME UniqueInv, st'.queue = st.queue PROVE UniqueInv'
BY DEF UniqueInv

LEMMA ArmStepAlways ==
    ASSUME Types, AlwaysInv, NEW p \in Preparers, ArmStep(p)
    PROVE  AlwaysInv'
<1> USE DEF Types
<1>1. /\ p \in Tasks /\ p # Fader /\ Spare \in Deck /\ Spare # active
      /\ AimInv /\ HoldInv /\ UniqueInv /\ GainInv /\ proc[p].on \in Deck
  BY SpareIsOther, ProcFields, CrossfadeAssumption DEF Tasks, Preparers, AlwaysInv
<1>2. CASE Mute(p)
  <2>1. Same(Spare) /\ Others(Spare)
    BY <1>1, <1>2, SetGainHolds DEF Mute
  <2>2. /\ OnlyMoves(p) /\ proc'[p].pc = "arm" /\ proc'[p].item = proc[p].item
        /\ proc'[p].gone = proc[p].gone /\ proc'[p].act = proc[p].act
    BY <1>1, <1>2 DEF Mute, OnlyMoves, Proc
  <2>3. AimInv'
    BY <1>1, <1>2, <2>2, AimKept DEF Mute, At
  <2>4. UniqueInv' /\ HoldInv'
    BY <1>1, <1>2, <2>1, UniqueKept, HoldKept DEF Mute
  <2>5. GainInv'
    <3>1. ~Owes(p)
      BY <1>2 DEF Mute, At, Owes, CommitPcs
    <3>2. deck'[active].gain = deck[active].gain /\ slot' = slot /\ active' = active
      BY <1>1, <1>2, <2>1 DEF Mute, Others
    <3>3. QED  BY <1>1, <2>2, <3>1, <3>2, GainKept
  <2>6. QED  BY <2>3, <2>4, <2>5 DEF AlwaysInv
<1>3. CASE Arm(p) \/ Install(p) \/ Commit(p) \/ Retreat(p)
  <2>1. HoldInv'
    <3>1. CASE Arm(p)
      <4>1. Loaded(proc[p].on, proc[p].item, deck[proc[p].on].gain) \/ NoCommand
        BY <3>1 DEF Arm
      <4>2. CASE NoCommand
        BY <1>1, <4>2, HoldUntouched DEF NoCommand
      <4>3. CASE Loaded(proc[p].on, proc[p].item, deck[proc[p].on].gain)
        <5>1. Plays(proc[p].on, proc[p].item) /\ Others(proc[p].on)
          BY <1>1, <4>3, LoadedHolds
        <5>2. deck'[proc[p].on].state # "Stopped"
          BY <5>1 DEF Plays
        <5>3. QED  BY <1>1, <5>1, <5>2, HoldKept
      <4>4. QED  BY <4>1, <4>2, <4>3
    <3>2. CASE Retreat(p)
      BY <1>1, <3>2, StoppedHolds, HoldKept DEF Retreat
    <3>3. CASE Install(p) \/ Commit(p)
      BY <1>1, <3>3, HoldUntouched DEF Install, Commit, NoCommand
    <3>4. QED  BY <1>3, <3>1, <3>2, <3>3
  <2>2. UniqueInv'
    <3>1. st'.queue = st.queue
      BY <1>3 DEF Arm, Retreat, Install, Commit, HandlerState
    <3>2. QED  BY <1>1, <3>1, UniqueKept
  <2>3. /\ OnlyMoves(p)
        /\ \/ proc'[p].pc = "idle" /\ proc'[p].act = "none"
           \/ /\ proc'[p].item = proc[p].item /\ proc'[p].gone = proc[p].gone
              /\ proc'[p].act = proc[p].act
              /\ proc'[p].pc \in {"install", "retreat", "aim", "advanced"}
              /\ proc'[p].pc # "advanced" => proc[p].pc \in {"arm", "retreat"}
    BY <1>1, <1>3, GotoKeeps, DoneLeaves DEF Arm, Retreat, Install, Commit, At
  <2>4. AimInv'
    <3>1. CASE proc'[p].pc = "idle" /\ proc'[p].act = "none"
      BY <1>1, <2>3, <3>1, AimSet
    <3>2. CASE proc'[p].item = proc[p].item /\ proc'[p].pc # "idle"
      BY <1>1, <2>3, <3>2, AimKept
    <3>3. QED  BY <2>3, <3>1, <3>2
  <2>5. GainInv'
    <3>1. ~Owes(p)
      BY <1>3 DEF Arm, Retreat, Install, Commit, At, Owes, CommitPcs
    <3>2. deck'[active].gain = deck[active].gain /\ active' = active
      <4>1. CASE Arm(p)
        <5>1. Loaded(proc[p].on, proc[p].item, deck[proc[p].on].gain) \/ NoCommand
          BY <4>1 DEF Arm
        <5>2. QED  BY <1>1, <4>1, <5>1, LoadedHolds DEF Arm, NoCommand, Others
      <4>2. CASE Retreat(p)
        BY <1>1, <4>2, StoppedHolds DEF Retreat, Others
      <4>3. CASE Install(p) \/ Commit(p)
        BY <4>3 DEF Install, Commit, NoCommand
      <4>4. QED  BY <1>3, <4>1, <4>2, <4>3
    <3>3. slot'.kind = "none" => slot.kind = "none"
      BY <1>3 DEF Arm, Retreat, Install, Commit
    <3>4. QED  BY <1>1, <2>3, <3>1, <3>2, <3>3, GainKept
  <2>6. QED  BY <2>1, <2>2, <2>4, <2>5 DEF AlwaysInv
<1>4. QED  BY <1>2, <1>3 DEF ArmStep

-----------------------------------------------------------------------------
(* What holds while nothing has slipped: arming. *)

\* A task alone prepares the spare deck.
LEMMA AloneIn ==
    ASSUME PrepareInv, NEW p \in Preparers, ~InHand(Spare, p)
    PROVE  \A q \in Preparers : Preparing(q) => q = p
BY DEF PrepareInv, Preparing, InHand, Preparers

LEMMA ArmStepDecks ==
    ASSUME Types, LockInv, DriverInv, AlwaysInv, DecksInv,
           NEW p \in Preparers, ArmStep(p), slips' = {}
    PROVE  DecksInv'
<1> USE DEF Types
<1>1. /\ p \in Tasks /\ p # Fader /\ Spare \in Deck /\ Spare # active
      /\ PrepareInv /\ SpareInv /\ IncomingInv /\ PauseInv /\ SettleInv /\ TargetInv
      /\ EndInv /\ RowInv /\ AimInv
  BY SpareIsOther, CrossfadeAssumption DEF Tasks, Preparers, AlwaysInv, DecksInv
<1>2. slips = {} /\ ~st.crossfading
  BY DEF ArmStep, Mute, Arm, Retreat, Install, Commit, Slip, Slips, InHand
<1>3. active' = active /\ lock' = lock /\ Spare' = Spare
  BY SpareStays DEF ArmStep, Mute, Arm, Retreat, Install, Commit
<1>4. OnlyMoves(p) /\ proc[p].pc \in {"mute", "arm", "retreat", "install", "commit"}
  BY <1>1 DEF ArmStep, Mute, Arm, Retreat, Install, Commit, Goto, Done, OnlyMoves, At
<1>5. \A c \in Client : proc[c].pc \in {"settle", "take"} /\ proc[c].act = "pause" =>
         proc'[c].pc \in {"settle", "take"} /\ proc'[c].act = "pause"
  BY <1>4 DEF OnlyMoves, Tasks
<1>6. proc'[p].pc \in {"arm", "install", "retreat", "aim", "idle", "advanced"}
  BY <1>1, GotoKeeps, DoneLeaves
  DEF ArmStep, Mute, Arm, Retreat, Install, Commit, Proc
<1>7. SettleInv'
  BY <1>1, <1>2, <1>4, <1>6, SettleEmpty DEF OnlyMoves, Settlers, Tasks, CommitPcs
<1>8. CASE Mute(p)
  <2>1. Same(Spare) /\ Others(Spare) /\ ring' = ring
    BY <1>1, <1>8, SetGainHolds DEF Mute
  <2>2. proc'[p].pc = "arm" /\ proc'[p].on = Spare
    BY <1>1, <1>8 DEF Mute, Proc
  <2>3. \A q \in Preparers : Preparing(q) => q = p
    BY <1>1, <1>8, AloneIn DEF Mute, Slip
  <2>4. Same(active) /\ st' = st /\ slot' = slot
    BY <1>1, <1>8, <2>1 DEF Mute, Others, Same
  <2>5. PrepareInv'
    <3>1. \A q \in Preparers : q # p => ~Preparing(q)'
      BY <1>4, <2>3 DEF Preparing, OnlyMoves, Preparers, Tasks
    <3>2. QED  BY <1>2, <1>3, <2>2, <2>4, <3>1 DEF PrepareInv
  <2>6. SpareInv'
    BY <1>1, <1>3, <1>4, <2>1, <2>4, SpareKept, <1>8
    DEF Mute, At, OnlyMoves, Preparers, Tasks, Same, Sounds
  <2>7. IncomingInv' /\ PauseInv' /\ TargetInv'
    <3>1. IncomingInv'
      BY <1>2, <2>4 DEF IncomingInv
    <3>2. PauseInv'
      BY <1>1, <1>3, <1>5, <2>4, PauseKept
    <3>3. TargetInv'
      BY <1>1, <2>4, TargetKept DEF Rows
    <3>4. QED  BY <3>1, <3>2, <3>3
  <2>8. EndInv'
    BY <1>1, <1>3, <1>4, <1>6, <2>1, <2>4, EndKept DEF OnlyMoves, Tasks, Same, EndInv
  <2>9. RowInv'
    BY <1>1, <1>3, <1>4, <2>4, RowKept, <1>8 DEF OnlyMoves, Tasks, Same, Exempt, Mute, At
  <2>10. QED  BY <1>7, <2>5, <2>6, <2>7, <2>8, <2>9 DEF DecksInv
<1>9. CASE Arm(p)
  <2>1. proc[p].on = Spare /\ Preparing(p)
    BY <1>1, <1>9 DEF Arm, At, Preparing, PrepareInv
  <2>2. \A q \in Preparers : Preparing(q) => q = p
    BY <1>1, <2>1 DEF PrepareInv
  <2>3. PICK ok \in LoadResults :
          /\ IF ok THEN Loaded(Spare, proc[p].item, deck[Spare].gain) ELSE NoCommand
          /\ Goto(p, IF ok THEN "install" ELSE "retreat")
    BY <1>9, <2>1 DEF Arm
  <2>4. /\ proc'[p].pc = (IF ok THEN "install" ELSE "retreat")
        /\ proc'[p].on = Spare /\ proc'[p].item = proc[p].item
    BY <1>1, <2>1, <2>3, GotoKeeps
  <2>5. /\ Others(Spare) /\ Same(active) /\ st' = st /\ slot' = slot
        /\ IF ok THEN Plays(Spare, proc[p].item) /\ ring' = ring \o <<Ev("Playing", proc[p].item)>>
           ELSE Same(Spare) /\ ring' = ring
    <3>1. CASE ok
      BY <1>1, <1>9, <2>3, <3>1, LoadedHolds DEF Arm, Others, Same
    <3>2. CASE ~ok
      BY <1>1, <1>9, <2>3, <3>2 DEF Arm, NoCommand, Others, Same
    <3>3. QED  BY <3>1, <3>2
  <2>6. PrepareInv'
    <3>1. \A q \in Preparers : q # p => ~Preparing(q)'
      BY <1>4, <2>2 DEF Preparing, OnlyMoves, Preparers, Tasks
    <3>2. proc'[p].pc = "install" => deck'[Spare].state = "Playing" /\ deck'[Spare].entry = proc'[p].item
      BY <2>4, <2>5 DEF Plays
    <3>3. QED  BY <1>2, <1>3, <2>4, <2>5, <3>1, <3>2 DEF PrepareInv, Sounds
  <2>7. SpareInv'
    <3>1. CASE ok
      BY <2>4, <3>1 DEF SpareInv
    <3>2. CASE ~ok
      BY <1>1, <1>3, <1>4, <2>5, <3>2, SpareKept, <1>9
      DEF Arm, At, OnlyMoves, Preparers, Tasks, Same, Sounds
    <3>3. QED  BY <3>1, <3>2
  <2>8. IncomingInv' /\ PauseInv' /\ TargetInv'
    <3>1. IncomingInv'
      BY <1>2, <2>5 DEF IncomingInv
    <3>2. PauseInv'
      BY <1>1, <1>3, <1>5, <2>5, PauseKept
    <3>3. TargetInv'
      BY <1>1, <2>5, TargetKept DEF Rows
    <3>4. QED  BY <3>1, <3>2, <3>3
  <2>9. EndInv'
    <3>1. (NoEnds(ring) => NoEnds(ring')) /\ OneEnd(ring')
      <4>1. Ev("Playing", proc[p].item) \in Event /\ ~IsEnd(Ev("Playing", proc[p].item))
        BY <1>1, ProcFields, EventTypes DEF IsEnd, Ev
      <4>2. OneEnd(ring)
        BY <1>1 DEF EndInv
      <4>3. QED  BY <2>5, <4>1, <4>2, EndsAppended
    <3>2. QED  BY <1>1, <1>3, <1>4, <1>6, <2>4, <2>5, <3>1, EndKept DEF OnlyMoves, Tasks, Same
  <2>10. RowInv'
    BY <1>1, <1>3, <1>4, <2>5, RowKept, <1>9 DEF OnlyMoves, Tasks, Same, Exempt, Arm, At
  <2>11. QED  BY <1>7, <2>6, <2>7, <2>8, <2>9, <2>10 DEF DecksInv
<1>10. CASE Retreat(p)
  <2>1. Silent(Spare) /\ Others(Spare) /\ ring' = ring \o <<Ev("Stopped", NoEntry)>>
    BY <1>1, <1>10, StoppedHolds DEF Retreat
  <2>2. Same(active) /\ st' = st /\ slot' = slot
    BY <1>1, <1>10, <2>1 DEF Retreat, Others, Same
  <2>3. \A q \in Preparers : Preparing(q) => q = p
    BY <1>1, <1>10 DEF Retreat, At, Preparing, PrepareInv
  <2>4. proc'[p].pc \in {"aim", "idle"}
    BY <1>1, <1>10, GotoKeeps, DoneLeaves DEF Retreat
  <2>5. PrepareInv'
    BY <1>4, <2>3, <2>4 DEF PrepareInv, Preparing, OnlyMoves, Preparers, Tasks
  <2>6. SpareInv'
    BY <1>3, <2>1 DEF SpareInv, Sounds, Silent
  <2>7. IncomingInv' /\ PauseInv' /\ TargetInv'
    <3>1. IncomingInv'
      BY <1>2, <2>2 DEF IncomingInv
    <3>2. PauseInv'
      BY <1>1, <1>3, <1>5, <2>2, PauseKept
    <3>3. TargetInv'
      BY <1>1, <2>2, TargetKept DEF Rows
    <3>4. QED  BY <3>1, <3>2, <3>3
  <2>8. EndInv'
    <3>1. (NoEnds(ring) => NoEnds(ring')) /\ OneEnd(ring')
      <4>1. Ev("Stopped", NoEntry) \in Event /\ ~IsEnd(Ev("Stopped", NoEntry))
        BY EventTypes DEF IsEnd, Ev, MaybeEntry
      <4>2. OneEnd(ring)
        BY <1>1 DEF EndInv
      <4>3. QED  BY <2>1, <4>1, <4>2, EndsAppended
    <3>2. QED  BY <1>1, <1>3, <1>4, <2>4, <2>2, <3>1, EndKept DEF OnlyMoves, Tasks, Same
  <2>9. RowInv'
    BY <1>1, <1>3, <1>4, <2>2, RowKept, <1>10 DEF OnlyMoves, Tasks, Same, Exempt, Retreat, At
  <2>10. QED  BY <1>7, <2>5, <2>6, <2>7, <2>8, <2>9 DEF DecksInv
<1>11. CASE Install(p)
  <2> DEFINE t == proc[p].item
  <2>1. /\ Sounds(Spare) /\ deck[Spare].entry = t /\ t \in Entry /\ proc[p].gone # t
        /\ \A q \in Preparers : Preparing(q) => q = p
    <3>1. At(p, "install") /\ Preparing(p)
      BY <1>11 DEF Install, At, Preparing
    <3>2. t \in Entry /\ proc[p].gone # t
      BY <1>1, <3>1, AimedAt DEF At
    <3>3. QED  BY <1>1, <3>1, <3>2 DEF At, PrepareInv
  <2>2. EntryAt(proc[p].idx) = t /\ lock = Free /\ deck' = deck /\ ring' = ring
    BY <1>11 DEF Install, Moved, NoCommand
  <2>3. proc[p].idx \in DOMAIN st.queue /\ st.queue[proc[p].idx] = t /\ proc[p].idx # 0
    BY <2>1, <2>2, CrossfadeAssumption DEF EntryAt, HandlerState
  <2>4. /\ st'.crossfading /\ st'.pendingSkip = proc[p].idx /\ st'.evict = proc[p].gone
        /\ st'.queue = st.queue /\ st'.current = st.current
    BY <1>11 DEF Install, HandlerState
  <2>5. /\ slot'.kind = "crossfade" /\ slot'.target = t /\ slot'.evict = proc[p].gone
        /\ proc'[p].pc = "idle"
    BY <1>1, <1>11, DoneLeaves DEF Install
  <2>6. PrepareInv'
    BY <1>4, <2>1, <2>5 DEF PrepareInv, Preparing, OnlyMoves, Preparers, Tasks
  <2>7. SpareInv'
    BY <2>4 DEF SpareInv
  <2>8. IncomingInv'
    <3>1. EntryAt(st.pendingSkip)' = t
      BY <2>3, <2>4 DEF EntryAt
    <3>2. Sounds(Spare)' /\ deck' = deck
      BY <1>3, <2>1, <2>2 DEF Sounds
    <3>3. QED  BY <1>3, <2>1, <2>2, <2>4, <2>5, <3>1, <3>2 DEF IncomingInv
  <2>9. PauseInv' /\ TargetInv'
    BY <2>1, <2>3, <2>4, <2>5 DEF PauseInv, TargetInv, Rows
  <2>10. EndInv'
    BY <1>1, <1>3, <1>4, <2>2, <2>5, EndKept DEF OnlyMoves, Tasks, EndInv
  <2>11. RowInv'
    BY <1>1, <1>3, <1>4, <2>2, <2>4, RowKept, <1>11 DEF OnlyMoves, Tasks, Exempt, Install, At
  <2>12. QED  BY <1>7, <2>6, <2>7, <2>8, <2>9, <2>10, <2>11 DEF DecksInv
<1>12. CASE Commit(p)
  <2>1. /\ EntryAt(proc[p].idx) = proc[p].item /\ deck[active].entry = proc[p].item
        /\ proc[p].item \in Entry
    BY <1>1, <1>12, AimedAt DEF Commit, Slips, Moved, At
  <2>2. deck' = deck /\ ring' = ring /\ slot' = slot
    BY <1>12 DEF Commit, NoCommand
  <2>3. /\ st'.crossfading = st.crossfading /\ st'.queue = st.queue
        /\ st'.pendingSkip = st.pendingSkip /\ st'.current = proc[p].idx
    BY <1>12 DEF Commit, HandlerState
  <2>4. proc'[p].pc \in {"idle", "advanced"}
    BY <1>1, <1>12, GotoKeeps, DoneLeaves DEF Commit
  <2>5. PrepareInv'
    BY <1>1, <1>3, <1>4, <2>2, <2>3, <2>4, PrepareKept
    DEF Preparing, OnlyMoves, Preparers, Tasks, Same
  <2>6. SpareInv'
    BY <1>1, <1>3, <1>4, <2>2, <2>3, SpareKept, <1>12
    DEF Commit, At, OnlyMoves, Preparers, Tasks, Sounds
  <2>7. IncomingInv' /\ PauseInv' /\ TargetInv'
    <3>1. IncomingInv'
      BY <1>2, <2>3 DEF IncomingInv
    <3>2. PauseInv'
      BY <1>1, <1>3, <1>5, <2>2, <2>3, PauseKept
    <3>3. TargetInv'
      BY <1>1, <2>2, <2>3, TargetKept DEF Rows
    <3>4. QED  BY <3>1, <3>2, <3>3
  <2>8. EndInv'
    BY <1>1, <1>3, <1>4, <2>2, <2>4, EndKept DEF OnlyMoves, Tasks, EndInv
  <2>9. RowInv'
    <3>1. proc[p].idx \in DOMAIN st.queue /\ st.queue[proc[p].idx] = deck[active].entry
      BY <2>1, CrossfadeAssumption DEF EntryAt
    <3>2. QED  BY <1>3, <2>2, <2>3, <3>1 DEF RowInv, OnRow
  <2>10. QED  BY <1>7, <2>5, <2>6, <2>7, <2>8, <2>9 DEF DecksInv
<1>13. QED  BY <1>8, <1>9, <1>10, <1>11, <1>12 DEF ArmStep

-----------------------------------------------------------------------------
(* The promotion. *)

LEMMA CommitStepAlways ==
    ASSUME Types, AlwaysInv, NEW p \in Settlers, CommitStep(p)
    PROVE  AlwaysInv'
<1> USE DEF Types
<1>1. /\ p \in Tasks /\ p # Spine /\ active \in Deck
      /\ AimInv /\ HoldInv /\ UniqueInv /\ GainInv /\ proc[p].on \in Deck
  BY ProcFields, CrossfadeAssumption DEF Tasks, Settlers, AlwaysInv
<1>2. /\ OnlyMoves(p) /\ proc[p].pc \in CommitPcs
      /\ \/ proc'[p].pc = "idle" /\ p = Fader /\ slot'.kind = "none"
         \/ /\ proc'[p].item = proc[p].item /\ proc'[p].gone = proc[p].gone
            /\ proc'[p].act = proc[p].act
            /\ proc'[p].pc \in {"promote", "silence", "land", "take"} /\ slot' = slot
            /\ proc'[p].pc = "take" => p # Fader /\ proc[p].pc = "land"
  <2>1. CASE Attribute(p) \/ Silence(p)
    BY <1>1, <2>1, GotoKeeps DEF Attribute, Silence, At, CommitPcs
  <2>2. CASE Promote(p)
    BY <1>1, <2>2 DEF Promote, At, CommitPcs, OnlyMoves, Proc
  <2>3. CASE Land(p)
    BY <1>1, <2>3, GotoKeeps, DoneLeaves DEF Land, Landed, At, CommitPcs, NoFade
  <2>4. QED  BY <2>1, <2>2, <2>3 DEF CommitStep
<1>3. AimInv'
  <2>1. CASE p = Fader
    BY <1>1, <1>2, <2>1, AimElsewhere, CrossfadeAssumption DEF OnlyMoves, Preparers, Tasks
  <2>2. CASE p # Fader
    BY <1>1, <1>2, <2>2, AimKept
  <2>3. QED  BY <2>1, <2>2
<1>4. HoldInv'
  <2>1. CASE Attribute(p)
    <3>1. /\ \A d \in Deck : deck'[d].state = deck[d].state
          /\ \A d \in Deck : deck'[d].entry \in {deck[d].entry, NoEntry}
      BY <1>1, <2>1 DEF Attribute, DeckState
    <3>2. QED  BY <1>1, <3>1 DEF HoldInv
  <2>2. CASE Promote(p)
    BY <1>1, <2>2, HoldUntouched DEF Promote, NoCommand
  <2>3. CASE Silence(p)
    BY <1>1, <2>3, StoppedHolds, HoldKept DEF Silence
  <2>4. CASE Land(p)
    BY <1>1, <2>4, SetGainHolds, HoldKept DEF Land, Landed
  <2>5. QED  BY <2>1, <2>2, <2>3, <2>4 DEF CommitStep
<1>5. UniqueInv'
  <2>1. CASE Land(p)
    <3> DEFINE s == [Followed(p) EXCEPT !.crossfading = FALSE]
    <3>1. Followed(p) \in HandlerState
      BY FollowedTypes DEF Settlers
    <3>2. s \in HandlerState /\ s.queue = Followed(p).queue
      BY <3>1 DEF HandlerState
    <3>3. Distinct(Followed(p))
      BY <1>1, FollowDistinct DEF Followed, Distinct, UniqueInv
    <3>4. st' = SetManualVolume(s, TRUE)
      BY <2>1 DEF Land, Landed
    <3> HIDE DEF s
    <3>5. st'.queue = Followed(p).queue
      BY <3>2, <3>4, VolumeKeeps
    <3>6. QED  BY <3>3, <3>5 DEF UniqueInv, Distinct
  <2>2. CASE Attribute(p) \/ Promote(p) \/ Silence(p)
    BY <1>1, <2>2, UniqueKept DEF Attribute, Promote, Silence
  <2>3. QED  BY <2>1, <2>2 DEF CommitStep
<1>6. GainInv'
  <2>1. CASE Attribute(p) \/ Silence(p)
    <3>1. \A d \in Deck : deck'[d].gain = deck[d].gain
      <4>1. CASE Attribute(p)
        BY <4>1 DEF Attribute, DeckState
      <4>2. CASE Silence(p)
        BY <1>1, <4>2, StoppedHolds DEF Silence, Others
      <4>3. QED  BY <2>1, <4>1, <4>2
    <3>2. active' = active /\ slot' = slot /\ proc'[p].pc \in {"promote", "land"}
      BY <1>1, <2>1, GotoKeeps DEF Attribute, Silence
    <3>3. slot.kind = "none" => p # Fader
      BY <1>1, <1>2 DEF GainInv, CommitPcs
    <3>4. Owes(p)'
      BY <3>2 DEF Owes, CommitPcs
    <3>5. QED  BY <1>1, <1>2, <3>1, <3>2, <3>3, <3>4, GainKept DEF HoldingPcs
  <2>2. CASE Promote(p)
    <3>1. proc'[p].pc = "silence" /\ slot' = slot
      BY <1>1, <2>2 DEF Promote, Proc
    <3>2. Owes(p)'
      BY <3>1 DEF Owes, CommitPcs
    <3>3. p = Fader => slot.kind # "none"
      BY <1>1, <1>2 DEF GainInv, CommitPcs
    <3>4. \A c \in Client : proc'[c].pc \in {"release", "wake"} => proc'[c].act = "resumeIn"
      BY <1>1, <1>2, <3>1 DEF GainInv, OnlyMoves, Tasks
    <3>5. proc'[Fader].pc # "idle" => proc'[Fader].pc \in HoldingPcs /\ slot'.kind # "none"
      BY <1>1, <1>2, <3>1, <3>3 DEF GainInv, OnlyMoves, Tasks, HoldingPcs
    <3>6. slot'.kind = "none" => \E c \in Client : Owes(c)'
      BY <3>1, <3>2, <3>3 DEF Settlers
    <3>7. QED  BY <3>4, <3>5, <3>6 DEF GainInv, Owes
  <2>3. CASE Land(p)
    <3>1. deck'[active'].gain = "baseline" /\ active' = active
      BY <1>1, <2>3, SetGainHolds DEF Land, Landed
    <3>2. \A c \in Client : proc'[c].pc \in {"release", "wake"} => proc'[c].act = "resumeIn"
      BY <1>1, <1>2 DEF GainInv, OnlyMoves, Tasks
    <3>3. proc'[Fader].pc # "idle" => proc'[Fader].pc \in HoldingPcs /\ slot'.kind # "none"
      BY <1>1, <1>2 DEF GainInv, OnlyMoves, Tasks, CommitPcs, HoldingPcs
    <3>4. QED  BY <3>1, <3>2, <3>3 DEF GainInv, Owes
  <2>4. QED  BY <2>1, <2>2, <2>3 DEF CommitStep
<1>7. QED  BY <1>3, <1>4, <1>5, <1>6 DEF AlwaysInv

\* What holds the lock is alone in a settlement.
LEMMA LockAlone ==
    ASSUME LockInv, NEW p \in Settlers, proc[p].pc \in HoldingPcs
    PROVE  lock = p /\ \A q \in Settlers : q # p => proc[q].pc \notin HoldingPcs
BY DEF LockInv, Settlers

\* While a crossfade is under way nobody prepares the spare deck.
LEMMA NonePrepare ==
    ASSUME PrepareInv, st.crossfading PROVE \A q \in Preparers : ~Preparing(q)
BY DEF PrepareInv

LEMMA NoneWillPrepare ==
    ASSUME \A q \in Preparers : ~Preparing(q), NEW p \in Tasks, OnlyMoves(p),
           proc'[p].pc \notin {"arm", "retreat", "install"}
    PROVE  PrepareInv'
BY DEF PrepareInv, Preparing, OnlyMoves, Preparers, Tasks

LEMMA CommitStepDecks ==
    ASSUME Types, LockInv, DriverInv, AlwaysInv, DecksInv,
           NEW p \in Settlers, CommitStep(p), slips' = {}
    PROVE  DecksInv'
<1> USE DEF Types
<1>1. /\ p \in Tasks /\ p # Spine /\ active \in Deck /\ Spare \in Deck /\ Spare # active
      /\ PrepareInv /\ SpareInv /\ IncomingInv /\ PauseInv /\ SettleInv /\ TargetInv
      /\ EndInv /\ RowInv
  BY SpareIsOther, CrossfadeAssumption DEF Tasks, Settlers, DecksInv
<1>2. /\ proc[p].pc \in CommitPcs /\ OnlyMoves(p)
      /\ proc'[p].pc \in {"promote", "silence", "land", "take", "idle"}
  <2>1. CASE Attribute(p) \/ Silence(p)
    BY <1>1, <2>1, GotoKeeps DEF Attribute, Silence, At, CommitPcs
  <2>2. CASE Promote(p)
    BY <1>1, <2>2 DEF Promote, At, CommitPcs, OnlyMoves, Proc
  <2>3. CASE Land(p)
    BY <1>1, <2>3, GotoKeeps, DoneLeaves DEF Land, Landed, At, CommitPcs
  <2>4. QED  BY <2>1, <2>2, <2>3 DEF CommitStep
<1>3. lock = p /\ \A q \in Settlers : q # p => proc[q].pc \notin HoldingPcs
  BY <1>2, LockAlone DEF CommitPcs, HoldingPcs
<1>4. lock # Free /\ st.crossfading
  BY <1>1, <1>2, <1>3, CrossfadeAssumption DEF SettleInv, Settlers
<1>5. PrepareInv'
  <2>1. \A q \in Preparers : ~Preparing(q)
    BY <1>1, <1>4, NonePrepare
  <2>2. QED  BY <1>1, <1>2, <2>1, NoneWillPrepare
<1>6. \A q \in Settlers : q # p => proc'[q].pc \notin CommitPcs \cup {"abandon"}
  BY <1>2, <1>3 DEF OnlyMoves, Settlers, Tasks, CommitPcs, HoldingPcs
<1>7. CASE Attribute(p)
  <2>1. /\ proc'[p].pc = "promote" /\ proc'[p].settling = proc[p].settling
        /\ proc'[p].act = proc[p].act /\ (Promotes(p)' <=> Promotes(p))
    BY <1>1, <1>7, GotoKeeps DEF Attribute, Promotes
  <2>2. /\ active' = active /\ Spare' = Spare /\ st' = st /\ slot' = slot /\ lock' = lock
        /\ deck'[Spare] = deck[Spare] /\ deck'[active].state = deck[active].state
    BY <1>1, <1>7, SpareStays DEF Attribute, DeckState
  <2>3. Promotes(p) /\ Sounds(Spare) /\ deck[Spare].entry = proc[p].settling.target
    BY <1>1, <1>7 DEF Attribute, At, SettleInv
  <2>4. SpareInv'
    BY <1>4, <2>2 DEF SpareInv
  <2>5. IncomingInv' /\ PauseInv'
    BY <1>4, <2>2 DEF IncomingInv, PauseInv
  <2>6. SettleInv'
    <3>1. /\ proc[p].settling.target \in Rows
          /\ proc[p].settling.evict # proc[p].settling.target
      BY <1>1, <1>2, <2>3 DEF SettleInv
    <3>2. Rows' = Rows /\ (Sounds(Spare)' <=> Sounds(Spare))
      BY <2>2 DEF Rows, Sounds
    <3>3. QED  BY <1>4, <1>6, <2>1, <2>2, <2>3, <3>1, <3>2 DEF SettleInv, CommitPcs
  <2>7. TargetInv'
    BY <1>1, <2>2, TargetKept DEF Rows
  <2>8. EndInv'
    <3> DEFINE end == [Ev("Eof", deck[active].entry) EXCEPT !.crossfaded = TRUE]
    <3>1. end \in Event /\ ~IsEnd(end)
      <4>1. Ev("Eof", deck[active].entry) \in Event
        BY <1>1, DeckFields, EventTypes
      <4>2. QED  BY <4>1 DEF Event, IsEnd
    <3>2. ring' = ring \/ ring' = Append(ring, end)
      BY <1>7 DEF Attribute
    <3> HIDE DEF end
    <3>3. (NoEnds(ring) => NoEnds(ring')) /\ OneEnd(ring')
      <4>1. OneEnd(ring)
        BY <1>1 DEF EndInv
      <4>2. Append(ring, end) = ring \o <<end>>
        BY <3>1
      <4>3. QED  BY <3>1, <3>2, <4>1, <4>2, EndsAppended
    <3>4. QED  BY <1>1, <1>2, <2>2, <3>3, EndKept DEF OnlyMoves, Tasks
  <2>9. RowInv'
    BY <2>1, <2>3 DEF RowInv
  <2>10. QED  BY <1>5, <2>4, <2>5, <2>6, <2>7, <2>8, <2>9 DEF DecksInv
<1>8. CASE Promote(p)
  <2>1. /\ proc'[p].pc = "silence" /\ proc'[p].on = active
        /\ proc'[p].settling = proc[p].settling /\ (Promotes(p)' <=> Promotes(p))
    BY <1>1, <1>8 DEF Promote, Proc, Promotes
  <2>2. /\ active' = Spare /\ Spare' = active /\ st' = st /\ slot' = slot /\ lock' = lock
        /\ deck' = deck /\ ring' = ring
    BY <1>1, <1>8, SpareSwaps DEF Promote, NoCommand
  <2>3. Promotes(p) /\ Sounds(Spare) /\ deck[Spare].entry = proc[p].settling.target
    BY <1>1, <1>8 DEF Promote, At, SettleInv
  <2>4. NoEnds(ring) /\ proc[Spine].pc \notin {"advance", "load", "commit"}
    BY <1>8 DEF Promote, Slip, EndIsPending, NoEnds, IsEnd
  <2>5. SpareInv'
    BY <1>4, <2>2 DEF SpareInv
  <2>6. IncomingInv' /\ PauseInv'
    BY <1>4, <2>2 DEF IncomingInv, PauseInv
  <2>7. SettleInv'
    <3>1. /\ proc[p].settling.target \in Rows
          /\ proc[p].settling.evict # proc[p].settling.target
      BY <1>1, <1>2, <2>3 DEF SettleInv
    <3>2. Rows' = Rows
      BY <2>2 DEF Rows
    <3>3. QED  BY <1>4, <1>6, <2>1, <2>2, <2>3, <3>1, <3>2 DEF SettleInv, CommitPcs
  <2>8. TargetInv'
    BY <1>1, <2>2, TargetKept DEF Rows
  <2>9. EndInv'
    <3>1. proc'[Spine] = proc[Spine]
      BY <1>1, <1>2 DEF OnlyMoves, Tasks
    <3>2. NoEnds(ring)' /\ OneEnd(ring)'
      BY <2>2, <2>4 DEF NoEnds, OneEnd, IsEnd
    <3>3. QED  BY <2>4, <3>1, <3>2 DEF EndInv
  <2>10. RowInv'
    BY <2>1, <2>3 DEF RowInv
  <2>11. QED  BY <1>5, <2>5, <2>6, <2>7, <2>8, <2>9, <2>10 DEF DecksInv
<1>9. CASE Silence(p)
  <2>1. /\ proc'[p].pc = "land" /\ proc'[p].settling = proc[p].settling
        /\ proc'[p].act = proc[p].act /\ (Promotes(p)' <=> Promotes(p))
    BY <1>1, <1>9, GotoKeeps DEF Silence, Promotes
  <2>2. Promotes(p) /\ proc[p].on = Spare
    BY <1>1, <1>9 DEF Silence, At, SettleInv
  <2>3. /\ active' = active /\ Spare' = Spare /\ st' = st /\ slot' = slot /\ lock' = lock
    BY <1>9, SpareStays DEF Silence
  <2>4. Silent(Spare) /\ Others(Spare) /\ ring' = ring \o <<Ev("Stopped", NoEntry)>>
    BY <1>1, <1>9, <2>2, StoppedHolds DEF Silence
  <2>5. deck'[active] = deck[active]
    BY <1>1, <2>4 DEF Others
  <2>6. SpareInv'
    BY <1>4, <2>3 DEF SpareInv
  <2>7. IncomingInv' /\ PauseInv'
    BY <1>4, <2>3 DEF IncomingInv, PauseInv
  <2>8. SettleInv'
    <3>1. /\ proc[p].settling.target \in Rows
          /\ proc[p].settling.evict # proc[p].settling.target
          /\ \/ deck[active].state = "Stopped" \/ At(Spine, "commit")
             \/ deck[active].entry = proc[p].settling.target
      BY <1>1, <1>2, <1>9, <2>2 DEF SettleInv, Silence, At
    <3>2. Rows' = Rows /\ ~Sounds(Spare)'
      BY <2>3, <2>4 DEF Rows, Sounds, Silent
    <3>3. At(Spine, "commit") => At(Spine, "commit")'
      BY <1>1, <1>2 DEF At, OnlyMoves, Tasks
    <3>4. QED
      BY <1>4, <1>6, <2>1, <2>2, <2>3, <2>5, <3>1, <3>2, <3>3 DEF SettleInv, CommitPcs
  <2>9. TargetInv'
    BY <1>1, <2>3, TargetKept DEF Rows
  <2>10. EndInv'
    <3>1. (NoEnds(ring) => NoEnds(ring')) /\ OneEnd(ring')
      <4>1. Ev("Stopped", NoEntry) \in Event /\ ~IsEnd(Ev("Stopped", NoEntry))
        BY EventTypes DEF IsEnd, Ev, MaybeEntry
      <4>2. OneEnd(ring)
        BY <1>1 DEF EndInv
      <4>3. QED  BY <2>4, <4>1, <4>2, EndsAppended
    <3>2. QED  BY <1>1, <1>2, <2>3, <2>5, <3>1, EndKept DEF OnlyMoves, Tasks
  <2>11. RowInv'
    BY <2>1, <2>2 DEF RowInv
  <2>12. QED  BY <1>5, <2>6, <2>7, <2>8, <2>9, <2>10, <2>11 DEF DecksInv
<1>10. CASE Land(p)
  <2> DEFINE s == [Followed(p) EXCEPT !.crossfading = FALSE]
  <2>1. active' = active /\ Spare' = Spare /\ lock' = Free /\ Same(active) /\ Others(active)
        /\ ring' = ring
    BY <1>1, <1>10, SpareStays, SetGainHolds DEF Land, Landed
  <2>2. slot'.kind = "none"
    BY <1>3, <1>10 DEF Land, Landed, DriverInv, NoFade, Settlers
  <2>3. proc'[p].pc \in {"take", "idle"}
    BY <1>1, <1>10, GotoKeeps, DoneLeaves DEF Land, Landed
  <2>4. ~st'.crossfading
    BY <1>10, LandClears DEF Settlers
  <2>5. Followed(p) \in HandlerState
    BY FollowedTypes DEF Settlers
  <2>6. s \in HandlerState /\ s.queue = Followed(p).queue /\ s.current = Followed(p).current
    BY <2>5 DEF HandlerState
  <2>7. st' = SetManualVolume(s, TRUE)
    BY <1>10 DEF Land, Landed
  <2> HIDE DEF s
  <2>8. st'.queue = Followed(p).queue /\ st'.current = Followed(p).current
    BY <2>6, <2>7, VolumeKeeps
  <2>9. SpareInv'
    <3>1. ~Sounds(Spare) /\ deck'[Spare] = deck[Spare]
      BY <1>1, <1>10, <2>1 DEF Land, Landed, At, SettleInv, Others
    <3>2. QED  BY <2>1, <3>1 DEF SpareInv, Sounds
  <2>10. IncomingInv' /\ PauseInv' /\ TargetInv'
    BY <2>2, <2>4 DEF IncomingInv, PauseInv, TargetInv
  <2>11. SettleInv'
    BY <1>6, <2>3 DEF SettleInv, CommitPcs
  <2>12. EndInv'
    BY <1>1, <1>2, <2>1, EndKept DEF OnlyMoves, Tasks, Same, EndInv
  <2>13. RowInv'
    <3>1. CASE p = Fader \/ Promotes(p)
      <4>1. Promotes(p) /\ At(p, "land")
        BY <1>1, <1>10, <3>1 DEF Land, Landed, At, SettleInv
      <4>2. /\ proc[p].settling.target \in Rows
            /\ proc[p].settling.evict # proc[p].settling.target
            /\ \/ deck[active].state = "Stopped" \/ At(Spine, "commit")
               \/ deck[active].entry = proc[p].settling.target
        BY <1>1, <4>1, <1>2 DEF SettleInv, At
      <4>3. Followed(p) = Follow(st, proc[p].settling)
        BY <3>1 DEF Followed
      <4>4. /\ st'.current \in DOMAIN st'.queue
            /\ st'.queue[st'.current] = proc[p].settling.target
        BY <2>8, <4>2, <4>3, FollowFinds DEF Rows, RowsOf
      <4>5. CASE At(Spine, "commit")
        <5>1. At(Spine, "commit")' /\ Spine \in Preparers
          BY <1>1, <1>2, <4>5 DEF At, OnlyMoves, Tasks, Preparers
        <5>2. QED  BY <5>1 DEF RowInv
      <4>6. CASE ~At(Spine, "commit")
        BY <2>1, <4>2, <4>4, <4>6 DEF RowInv, OnRow, Same
      <4>7. QED  BY <4>5, <4>6
    <3>2. CASE ~(p = Fader \/ Promotes(p))
      <4>1. st'.queue = st.queue /\ st'.current = st.current
        BY <2>8, <3>2 DEF Followed
      <4>2. deck'[active].state = deck[active].state /\ deck'[active].entry = deck[active].entry
        BY <2>1 DEF Same
      <4>3. \A q \in Tasks : q # p => proc'[q] = proc[q]
        BY <1>2 DEF OnlyMoves
      <4>4. proc[p].pc = "land"
        BY <1>10 DEF Land, Landed, At
      <4>5. OnRow /\ st.queue[st.current] = deck[active].entry =>
               OnRow' /\ st'.queue[st'.current] = deck'[active].entry
        BY <4>1, <4>2 DEF OnRow
      <4>6. \A q \in Preparers : At(q, "commit") => At(q, "commit")'
        BY <4>3, <4>4 DEF At, Preparers, Tasks
      <4>7. \A c \in Client : At(c, "halt") => At(c, "halt")'
        BY <4>3, <4>4 DEF At, Tasks
      <4>8. ~At(Fader, "swap")
        BY <1>3, <3>2 DEF At, Settlers, HoldingPcs
      <4>9. \A q \in Settlers : ~(proc[q].pc \in {"promote", "silence", "land"} /\ Promotes(q))
        BY <1>3, <3>2 DEF HoldingPcs
      <4>10. QED  BY <1>1, <2>1, <4>2, <4>5, <4>6, <4>7, <4>8, <4>9 DEF RowInv
    <3>3. QED  BY <3>1, <3>2
  <2>14. QED  BY <1>5, <2>9, <2>10, <2>11, <2>12, <2>13 DEF DecksInv
<1>11. QED  BY <1>7, <1>8, <1>9, <1>10 DEF CommitStep

-----------------------------------------------------------------------------
(* The gestures. *)

LEMMA GestureStarts ==
    ASSUME Types, UniqueInv, NEW c \in Client, Gesture(c)
    PROVE  /\ OnlyMoves(c) /\ proc[c].pc = "idle"
           /\ proc'[c].pc \in {"mute", "aim", "settle", "evict", "release"}
           /\ UNCHANGED <<deck, active, slot, lock, ring, slips>>
           /\ \/ st' = st
              \/ /\ st' = [st EXCEPT !.pendingPause = TRUE, !.pendingSkip = 0]
                 /\ proc'[c].pc = "settle" /\ proc'[c].act = "pause"
           /\ \/ proc'[c].item \in Entry /\ proc'[c].gone # proc'[c].item
              \/ /\ proc'[c].pc \in {"settle", "evict", "release"}
                 /\ proc'[c].act \notin {"load", "skipLoad"}
           /\ proc'[c].pc = "release" => proc'[c].act = "resumeIn"
<1> USE DEF Types
<1>1. c \in Tasks /\ st.queue \in Seq(Entry) /\ NoEntry \notin Entry
  BY CrossfadeAssumption DEF Tasks, HandlerState
<1>2. \A i \in DOMAIN st.queue : EntryAt(i) \in Entry /\ EntryAt(i) = st.queue[i]
  BY <1>1 DEF EntryAt
<1>3. ASSUME NEW idx \in DOMAIN st.queue, NEW gone, gone # EntryAt(idx), SkipWithFade(c, idx, gone)
      PROVE  /\ OnlyMoves(c) /\ proc'[c].pc \in {"mute", "aim"}
             /\ proc'[c].item \in Entry /\ proc'[c].gone # proc'[c].item
  BY <1>1, <1>2, <1>3, StartSets DEF SkipWithFade
<1>4. ASSUME NEW idx \in DOMAIN st.queue, Start(c, "settle", "load", idx, NoEntry)
      PROVE  /\ OnlyMoves(c) /\ proc'[c].pc = "settle"
             /\ proc'[c].item \in Entry /\ proc'[c].gone # proc'[c].item
  BY <1>1, <1>2, <1>4, StartSets
<1>5. CASE Skip(c)
  <2>1. PICK idx \in DOMAIN st.queue :
          SkipWithFade(c, idx, NoEntry) \/ Start(c, "settle", "load", idx, NoEntry)
    BY <1>5 DEF Skip
  <2>2. NoEntry # EntryAt(idx)
    BY <1>1, <1>2
  <2>3. QED  BY <1>3, <1>4, <1>5, <2>1, <2>2 DEF Skip, Begins, NoCommand, At
<1>6. CASE Play(c)
  BY <1>4, <1>6 DEF Play, Begins, NoCommand, At
<1>7. CASE StopPlayback(c) \/ Clear(c) \/ SetVol(c)
  <2>1. PICK act \in {"halt", "clear", "setBaseline"} : Start(c, "settle", act, 0, NoEntry)
    BY <1>7 DEF StopPlayback, Clear, SetVol
  <2>2. OnlyMoves(c) /\ proc'[c].pc = "settle" /\ proc'[c].act = act
    BY <1>1, <2>1, StartSets
  <2>3. QED  BY <1>7, <2>2 DEF StopPlayback, Clear, SetVol, Begins, NoCommand, At
<1>8. CASE Delete(c)
  <2>1. PICK pos \in DOMAIN st.queue :
          \/ Start(c, "settle", "unpick", 0, EntryAt(pos))
          \/ Start(c, "evict", "none", 0, EntryAt(pos))
          \/ Start(c, "settle", "unload", 0, EntryAt(pos))
          \/ pos + 1 \in DOMAIN st.queue /\ SkipWithFade(c, pos + 1, EntryAt(pos))
          \/ Start(c, "settle", "stopRestore", 0, EntryAt(pos))
    BY <1>8 DEF Delete
  <2>2. CASE pos + 1 \in DOMAIN st.queue /\ SkipWithFade(c, pos + 1, EntryAt(pos))
    <3>1. EntryAt(pos) # EntryAt(pos + 1)
      <4>1. pos # pos + 1
        BY <1>1
      <4>2. QED  BY <1>2, <2>2, <4>1 DEF UniqueInv
    <3>2. QED  BY <1>3, <1>8, <2>2, <3>1 DEF Delete, Begins, NoCommand, At
  <2>3. CASE ~(pos + 1 \in DOMAIN st.queue /\ SkipWithFade(c, pos + 1, EntryAt(pos)))
    <3>1. PICK pc \in {"settle", "evict"}, act \in {"unpick", "none", "unload", "stopRestore"} :
            Start(c, pc, act, 0, EntryAt(pos))
      BY <2>1, <2>3
    <3>2. OnlyMoves(c) /\ proc'[c].pc = pc /\ proc'[c].act = act
      BY <1>1, <3>1, StartSets
    <3>3. QED  BY <1>8, <3>2 DEF Delete, Begins, NoCommand, At
  <2>4. QED  BY <2>2, <2>3
<1>9. CASE Pause(c)
  <2>1. OnlyMoves(c) /\ proc'[c].pc = "settle" /\ proc'[c].act = "pause"
    BY <1>1, <1>9, StartSets DEF Pause
  <2>2. QED  BY <1>9, <2>1 DEF Pause, Begins, NoCommand, At
<1>10. CASE Resume(c)
  <2>1. OnlyMoves(c) /\ proc'[c].pc = "release" /\ proc'[c].act = "resumeIn"
    BY <1>1, <1>10, StartSets DEF Resume
  <2>2. QED  BY <1>10, <2>1 DEF Resume, Begins, NoCommand, At
<1>11. QED  BY <1>5, <1>6, <1>7, <1>8, <1>9, <1>10 DEF Gesture

LEMMA GestureAlways ==
    ASSUME Types, AlwaysInv, NEW c \in Client, Gesture(c)
    PROVE  AlwaysInv'
<1> USE DEF Types
<1>1. c \in Tasks /\ c # Fader /\ AimInv /\ HoldInv /\ UniqueInv /\ GainInv
  BY CrossfadeAssumption DEF Tasks, AlwaysInv
<1>2. /\ OnlyMoves(c) /\ proc[c].pc = "idle"
      /\ proc'[c].pc \in {"mute", "aim", "settle", "evict", "release"}
      /\ UNCHANGED <<deck, active, slot, lock, ring, slips>>
      /\ \/ proc'[c].item \in Entry /\ proc'[c].gone # proc'[c].item
         \/ /\ proc'[c].pc \in {"settle", "evict", "release"}
            /\ proc'[c].act \notin {"load", "skipLoad"}
      /\ proc'[c].pc = "release" => proc'[c].act = "resumeIn"
  BY <1>1, GestureStarts
<1>3. st'.queue = st.queue
  BY <1>1, GestureStarts DEF HandlerState
<1>4. AimInv'
  BY <1>1, <1>2, AimSet
<1>5. UniqueInv' /\ HoldInv'
  BY <1>1, <1>2, <1>3, UniqueKept DEF HoldInv
<1>6. GainInv'
  <2>1. ~Owes(c)
    BY <1>2 DEF Owes, CommitPcs
  <2>2. QED  BY <1>1, <1>2, <2>1, GainKept
<1>7. QED  BY <1>4, <1>5, <1>6 DEF AlwaysInv

LEMMA GestureDecks ==
    ASSUME Types, LockInv, DriverInv, AlwaysInv, DecksInv, NEW c \in Client, Gesture(c)
    PROVE  DecksInv'
<1> USE DEF Types
<1>1. /\ c \in Tasks /\ c # Fader /\ c # Spine /\ UniqueInv /\ Spare \in Deck /\ active \in Deck
      /\ PrepareInv /\ SpareInv /\ IncomingInv /\ PauseInv /\ SettleInv /\ TargetInv
      /\ EndInv /\ RowInv
  BY SpareIsOther, CrossfadeAssumption DEF Tasks, AlwaysInv, DecksInv
<1>2. /\ OnlyMoves(c) /\ proc[c].pc = "idle"
      /\ proc'[c].pc \in {"mute", "aim", "settle", "evict", "release"}
      /\ deck' = deck /\ active' = active /\ slot' = slot /\ lock' = lock /\ ring' = ring
  BY <1>1, GestureStarts
<1>3. /\ st'.queue = st.queue /\ st'.current = st.current /\ st'.evict = st.evict
      /\ st'.crossfading = st.crossfading
      /\ st'.pendingSkip # 0 => st'.pendingSkip = st.pendingSkip
  BY <1>1, GestureStarts DEF HandlerState
<1>4. Same(Spare) /\ Same(active) /\ Spare' = Spare
  BY <1>2, SpareStays DEF Same
<1>5. PrepareInv'
  BY <1>1, <1>2, <1>3, <1>4, PrepareKept DEF Preparing, OnlyMoves, Preparers, Tasks
<1>6. SpareInv'
  BY <1>1, <1>2, <1>3, SpareKept DEF OnlyMoves, Preparers, Tasks, Sounds
<1>7. IncomingInv'
  <2>1. st'.pendingSkip # 0 => EntryAt(st.pendingSkip)' = EntryAt(st.pendingSkip)
    BY <1>3 DEF EntryAt
  <2>2. QED  BY <1>1, <1>2, <1>3, <1>4, <2>1, IncomingKept
<1>8. PauseInv'
  <2>1. CASE st' = st
    <3>1. \A d \in Client : proc[d].pc \in {"settle", "take"} /\ proc[d].act = "pause" =>
             proc'[d].pc \in {"settle", "take"} /\ proc'[d].act = "pause"
      BY <1>2 DEF OnlyMoves, Tasks
    <3>2. QED  BY <1>1, <1>2, <2>1, <3>1, PauseKept
  <2>2. CASE proc'[c].pc = "settle" /\ proc'[c].act = "pause"
    BY <2>2 DEF PauseInv
  <2>3. QED  BY <1>1, <2>1, <2>2, GestureStarts
<1>9. SettleInv'
  <2>1. \A p \in Settlers : proc'[p].pc \in CommitPcs \cup {"abandon"} => proc'[p] = proc[p]
    BY <1>2 DEF OnlyMoves, Settlers, Tasks, CommitPcs
  <2>2. At(Spine, "commit") => At(Spine, "commit")'
    BY <1>1, <1>2 DEF OnlyMoves, Tasks, At
  <2>3. Rows' = Rows
    BY <1>3 DEF Rows
  <2>4. QED  BY <1>1, <1>2, <1>3, <1>4, <2>1, <2>2, <2>3, SettleKept
<1>10. TargetInv'
  BY <1>1, <1>2, <1>3, TargetKept DEF Rows
<1>11. EndInv'
  BY <1>1, <1>2, EndKept DEF OnlyMoves, Tasks, EndInv
<1>12. RowInv'
  BY <1>1, <1>2, <1>3, RowKept DEF OnlyMoves, Tasks, Exempt
<1>13. QED  BY <1>5, <1>6, <1>7, <1>8, <1>9, <1>10, <1>11, <1>12 DEF DecksInv

-----------------------------------------------------------------------------
(* The gestures under way. *)

LEMMA ClientStepAlways ==
    ASSUME Types, LockInv, AlwaysInv, NEW c \in Client, ClientStep(c)
    PROVE  AlwaysInv'
<1> USE DEF Types
<1>1. /\ c \in Tasks /\ c # Fader /\ c # Spine /\ active \in Deck /\ Spare \in Deck
      /\ Spare # active /\ AimInv /\ HoldInv /\ UniqueInv /\ GainInv
  BY SpareIsOther, CrossfadeAssumption DEF Tasks, AlwaysInv
<1>2. CASE Settle(c)
  <2>1. /\ OnlyMoves(c) /\ proc'[c].item = proc[c].item /\ proc'[c].gone = proc[c].gone
        /\ proc'[c].act = proc[c].act /\ proc[c].pc = "settle"
        /\ IF st.crossfading THEN proc'[c].pc \in {"abandon", "attribute", "promote"}
           ELSE proc'[c].pc = "take"
    <3>1. CASE st.crossfading
      BY <1>1, <1>2, <3>1 DEF Settle, At, OnlyMoves, Proc
    <3>2. CASE ~st.crossfading
      BY <1>1, <1>2, <3>2, GotoKeeps DEF Settle, At
    <3>3. QED  BY <3>1, <3>2
  <2>2. AimInv'
    BY <1>1, <2>1, AimKept
  <2>3. UniqueInv' /\ HoldInv'
    BY <1>1, <1>2, UniqueKept, HoldUntouched DEF Settle, HandlerState, NoCommand
  <2>4. deck' = deck /\ active' = active /\ lock = Free
    BY <1>2 DEF Settle, NoCommand
  <2>5. GainInv'
    <3>1. CASE st.crossfading
      <4>1. Owes(c)'
        BY <2>1, <3>1 DEF Owes, CommitPcs
      <4>2. QED  BY <1>1, <2>1, <2>4, <3>1, <4>1, GainOwed
    <3>2. CASE ~st.crossfading
      <4>1. slot' = slot
        BY <1>2, <3>2 DEF Settle
      <4>2. Owes(c) => Owes(c)'
        BY <2>1, <3>2 DEF Owes, CommitPcs
      <4>3. QED  BY <1>1, <2>1, <2>4, <3>2, <4>1, <4>2, GainKept
    <3>3. QED  BY <3>1, <3>2
  <2>6. QED  BY <2>2, <2>3, <2>5 DEF AlwaysInv
<1>3. CASE Abandon(c)
  <2>1. /\ OnlyMoves(c) /\ proc'[c].item = proc[c].item /\ proc'[c].gone = proc[c].gone
        /\ proc'[c].act = proc[c].act /\ proc'[c].pc = "land"
        /\ active' = active /\ slot' = slot /\ st' = st
    BY <1>1, <1>3, GotoKeeps DEF Abandon
  <2>2. Silent(Spare) /\ deck'[active] = deck[active] /\ Others(Spare)
    BY <1>1, <1>3, StoppedHolds DEF Abandon, Others
  <2>3. Owes(c)'
    BY <2>1 DEF Owes, CommitPcs
  <2>4. AimInv' /\ HoldInv' /\ UniqueInv' /\ GainInv'
    BY <1>1, <2>1, <2>2, <2>3, AimKept, HoldKept, UniqueKept, GainOwed
  <2>5. QED  BY <2>4 DEF AlwaysInv
<1>4. CASE Aim(c)
  <2>1. /\ OnlyMoves(c) /\ proc'[c].item = proc[c].item /\ proc'[c].gone = proc[c].gone
        /\ proc'[c].act = proc[c].act /\ proc'[c].pc = "settle" /\ proc[c].pc = "aim"
        /\ active' = active /\ slot' = slot /\ deck' = deck /\ ring' = ring /\ NoCommand
    BY <1>1, <1>4, GotoKeeps DEF Aim, At, NoCommand
  <2>2. st'.queue = st.queue
    BY <1>4 DEF Aim, HandlerState
  <2>3. ~Owes(c)
    BY <2>1 DEF Owes, CommitPcs
  <2>4. AimInv' /\ HoldInv' /\ UniqueInv'
    BY <1>1, <2>1, <2>2, AimKept, HoldUntouched, UniqueKept
  <2>5. GainInv'
    BY <1>1, <2>1, <2>3, GainKept
  <2>6. QED  BY <2>4, <2>5 DEF AlwaysInv
<1>5. CASE TakeSkipLoad(c) \/ TakeFade(c)
  <2>1. /\ OnlyMoves(c) /\ proc'[c].act = "none" /\ proc'[c].pc = "idle"
        /\ active' = active /\ lock = Free /\ deck' = deck /\ ring' = ring /\ NoCommand
    BY <1>1, <1>5, DoneLeaves DEF TakeSkipLoad, TakeFade, Takes, TakesSlot, NoCommand
  <2>2. st'.queue = st.queue
    BY <1>5 DEF TakeSkipLoad, TakeFade, HandlerState
  <2>3. slot'.kind # "none"
    <3>1. CASE TakeSkipLoad(c)
      BY <3>1 DEF TakeSkipLoad
    <3>2. CASE TakeFade(c)
      <4>1. slot'.kind = IF proc[c].act \in {"pause", "stopRestore"} THEN proc[c].act
                         ELSE "setBaseline"
        BY <3>2 DEF TakeFade, NoFade
      <4>2. QED  BY <4>1
    <3>3. QED  BY <1>5, <3>1, <3>2
  <2>4. AimInv' /\ HoldInv' /\ UniqueInv'
    BY <1>1, <2>1, <2>2, AimSet, HoldUntouched, UniqueKept
  <2>5. GainInv'
    BY <1>1, <2>1, <2>3, GainOwed
  <2>6. QED  BY <2>4, <2>5 DEF AlwaysInv
<1>6. CASE TakeNothing(c)
  <2>1. /\ OnlyMoves(c) /\ proc'[c].item = proc[c].item /\ proc'[c].gone = proc[c].gone
        /\ proc'[c].act = proc[c].act
        /\ proc[c].act \in {"load", "halt", "clear", "unpick", "unload"}
        /\ proc'[c].pc = IF proc[c].act = "load" THEN "load"
                         ELSE IF proc[c].act \in {"unpick", "unload"} THEN "evict" ELSE "halt"
        /\ active' = active /\ lock = Free /\ deck' = deck /\ ring' = ring /\ NoCommand
    BY <1>1, <1>6, GotoKeeps DEF TakeNothing, Takes, TakesSlot, NoCommand
  <2>2. UniqueInv'
    <3> DEFINE s == SetManualVolume(st, DeckLoaded \/ proc[c].act # "unpick")
    <3>1. s \in HandlerState /\ s.queue = st.queue
      BY VolumeTypes, VolumeKeeps
    <3>2. st' = s \/ st' = [s EXCEPT !.queue = << >>, !.current = 0]
      BY <1>6 DEF TakeNothing
    <3> HIDE DEF s
    <3>3. st'.queue = st.queue \/ st'.queue = << >>
      BY <3>1, <3>2 DEF HandlerState
    <3>4. QED  BY <1>1, <3>3 DEF UniqueInv
  <2>3. Owes(c)'
    BY <2>1 DEF Owes
  <2>4. AimInv' /\ HoldInv' /\ GainInv'
    BY <1>1, <2>1, <2>3, AimKept, HoldUntouched, GainOwed
  <2>5. QED  BY <2>2, <2>4 DEF AlwaysInv
<1>7. CASE Load(c)
  <2>1. active' = active /\ slot' = slot /\ st' = st /\ proc[c].pc = "load"
    BY <1>7 DEF Load, LoadAt, At
  <2>2. \/ Loaded(active, proc[c].item, "baseline") /\ Goto(c, "commit")
        \/ SetGain(active, "baseline") /\ Done(c)
    BY <1>7 DEF Load, LoadAt
  <2>3. /\ OnlyMoves(c) /\ proc'[c].pc \in {"commit", "idle"}
        /\ AimInv'
    <3>1. CASE Goto(c, "commit")
      <4>1. /\ OnlyMoves(c) /\ proc'[c].pc = "commit" /\ proc'[c].item = proc[c].item
            /\ proc'[c].gone = proc[c].gone /\ proc'[c].act = proc[c].act
        BY <1>1, <3>1, GotoKeeps
      <4>2. AimInv'
        BY <1>1, <2>1, <4>1, AimKept
      <4>3. QED  BY <4>1, <4>2
    <3>2. CASE Done(c)
      <4>1. OnlyMoves(c) /\ proc'[c].pc = "idle" /\ proc'[c].act = "none"
        BY <1>1, <3>2, DoneLeaves
      <4>2. QED  BY <1>1, <4>1, AimSet
    <3>3. QED  BY <2>2, <3>1, <3>2
  <2>4. /\ deck'[active].gain = "baseline" /\ Others(active)
        /\ Same(active) \/ deck'[active].state # "Stopped"
    BY <1>1, <2>2, LoadedHolds, SetGainHolds DEF Plays
  <2>5. HoldInv' /\ UniqueInv' /\ GainInv'
    BY <1>1, <2>1, <2>3, <2>4, HoldKept, UniqueKept, GainOwed
  <2>6. QED  BY <2>3, <2>5 DEF AlwaysInv
<1>8. CASE Halt(c)
  <2>1. /\ OnlyMoves(c) /\ proc'[c].act = "none" /\ proc'[c].pc = "idle"
        /\ active' = active /\ slot' = slot /\ st' = st
    BY <1>1, <1>8, DoneLeaves DEF Halt
  <2>2. Silent(active) /\ deck'[active].gain = "baseline" /\ Others(active)
    BY <1>1, <1>8, StoppedHolds DEF Halt
  <2>3. AimInv' /\ HoldInv' /\ UniqueInv' /\ GainInv'
    BY <1>1, <2>1, <2>2, AimSet, HoldKept, UniqueKept, GainOwed
  <2>4. QED  BY <2>3 DEF AlwaysInv
<1>9. CASE Evict(c)
  <2>1. /\ active' = active /\ slot' = slot /\ deck' = deck /\ NoCommand /\ proc[c].pc = "evict"
        /\ ring' = ring
    BY <1>9 DEF Evict, NoCommand, At
  <2>2. UniqueInv'
    <3>1. st' = EvictQid(st, proc[c].gone)
      BY <1>9 DEF Evict
    <3>2. Distinct(st')
      BY <1>1, <3>1, EvictKeeps DEF UniqueInv, Distinct
    <3>3. QED  BY <3>2 DEF UniqueInv, Distinct
  <2>3. /\ OnlyMoves(c) /\ AimInv'
        /\ \/ proc'[c].pc = "settle" /\ proc'[c].act = "knob"
           \/ proc'[c].pc = "halt"
           \/ proc'[c].pc = "idle" /\ proc[c].act \notin {"unpick", "unload"}
    <3>1. CASE proc[c].act = "unpick"
      <4>1. OnlyMoves(c) /\ proc'[c].pc = "settle" /\ proc'[c].act = "knob"
        BY <1>1, <1>9, <3>1 DEF Evict, IdleProc, OnlyMoves
      <4>2. QED  BY <1>1, <4>1, AimSet
    <3>2. CASE proc[c].act = "unload"
      <4>1. /\ OnlyMoves(c) /\ proc'[c].pc = "halt" /\ proc'[c].act = proc[c].act
            /\ proc'[c].item = proc[c].item /\ proc'[c].gone = proc[c].gone
        BY <1>1, <1>9, <3>2, GotoKeeps DEF Evict
      <4>2. QED  BY <1>1, <4>1, AimKept
    <3>3. CASE proc[c].act \notin {"unpick", "unload"}
      <4>1. OnlyMoves(c) /\ proc'[c].pc = "idle" /\ proc'[c].act = "none"
        BY <1>1, <1>9, <3>3, DoneLeaves DEF Evict
      <4>2. QED  BY <1>1, <3>3, <4>1, AimSet
    <3>4. QED  BY <3>1, <3>2, <3>3
  <2>4. GainInv'
    <3>1. CASE proc'[c].pc = "idle"
      <4>1. ~Owes(c)
        BY <2>1, <2>3, <3>1 DEF Owes, CommitPcs
      <4>2. QED  BY <1>1, <2>1, <2>3, <3>1, <4>1, GainKept
    <3>2. CASE proc'[c].pc # "idle"
      <4>1. Owes(c)'
        BY <2>3, <3>2 DEF Owes
      <4>2. QED  BY <1>1, <2>1, <2>3, <4>1, GainOwed
    <3>3. QED  BY <3>1, <3>2
  <2>5. QED  BY <1>1, <2>1, <2>2, <2>3, <2>4, HoldUntouched DEF AlwaysInv
<1>10. CASE Release(c)
  <2>1. /\ OnlyMoves(c) /\ proc'[c].item = proc[c].item /\ proc'[c].gone = proc[c].gone
        /\ proc'[c].act = proc[c].act /\ proc'[c].pc \in {"wake", "settle"}
        /\ active' = active /\ lock = Free /\ deck' = deck /\ ring' = ring /\ NoCommand
    BY <1>1, <1>10, GotoKeeps DEF Release, NoCommand
  <2>2. st'.queue = st.queue /\ proc'[c].act = "resumeIn"
    BY <1>1, <1>10, <2>1 DEF Release, HandlerState, GainInv, At
  <2>3. Owes(c)'
    BY <2>1, <2>2 DEF Owes
  <2>4. AimInv' /\ HoldInv' /\ UniqueInv'
    BY <1>1, <2>1, <2>2, AimKept, HoldUntouched, UniqueKept
  <2>5. GainInv'
    BY <1>1, <2>1, <2>2, <2>3, GainOwed
  <2>6. QED  BY <2>4, <2>5 DEF AlwaysInv
<1>11. CASE Wake(c)
  <2>1. /\ OnlyMoves(c) /\ proc'[c].item = proc[c].item /\ proc'[c].gone = proc[c].gone
        /\ proc'[c].act = proc[c].act /\ proc'[c].pc = "settle"
        /\ active' = active /\ slot' = slot /\ st' = st
    BY <1>1, <1>11, GotoKeeps DEF Wake
  <2>2. Others(active) /\ (Same(active) \/ deck'[active].state # "Stopped")
    BY <1>1, <1>11 DEF Wake, Tell, Others, Same, DeckState
  <2>3. proc'[c].act = "resumeIn"
    BY <1>1, <1>11, <2>1 DEF Wake, At, GainInv
  <2>4. Owes(c)'
    BY <2>1, <2>3 DEF Owes
  <2>5. AimInv' /\ HoldInv' /\ UniqueInv'
    BY <1>1, <2>1, <2>2, AimKept, HoldKept, UniqueKept
  <2>6. GainInv'
    BY <1>1, <2>1, <2>4, GainOwed
  <2>7. QED  BY <2>5, <2>6 DEF AlwaysInv
<1>12. QED
  BY <1>2, <1>3, <1>4, <1>5, <1>6, <1>7, <1>8, <1>9, <1>10, <1>11 DEF ClientStep

\* Steps that have nothing to do with the spare deck.
LEMMA SpareUntouched ==
    ASSUME PrepareInv, SpareInv, NEW p \in Tasks, OnlyMoves(p), active' = active, Same(Spare),
           st'.crossfading = st.crossfading, ~Preparing(p), ~Preparing(p)'
    PROVE  PrepareInv' /\ SpareInv'
<1>1. PrepareInv'
  BY PrepareKept DEF Preparing, OnlyMoves, Preparers, Tasks
<1>2. SpareInv'
  BY SpareKept DEF Preparing, OnlyMoves, Preparers, Tasks, Same, Sounds
<1>3. QED  BY <1>1, <1>2

\* With no crossfade under way or begun.
LEMMA NoneArrives ==
    ASSUME ~st'.crossfading, slot'.kind # "crossfade" PROVE IncomingInv' /\ PauseInv'
BY DEF IncomingInv, PauseInv

LEMMA NoneSettles ==
    ASSUME SettleInv, ~st.crossfading, NEW p \in Tasks, OnlyMoves(p),
           proc'[p].pc \notin CommitPcs \cup {"abandon"}
    PROVE  SettleInv'
BY SettleEmpty DEF OnlyMoves, Settlers, Tasks

LEMMA NoneMarked ==
    ASSUME DriverInv, ~st.crossfading PROVE slot.kind # "crossfade"
BY DEF DriverInv

LEMMA SettleDecks ==
    ASSUME Types, LockInv, DriverInv, AlwaysInv, DecksInv,
           NEW c \in Client, Settle(c) \/ Abandon(c), slips' = {}
    PROVE  DecksInv'
<1> USE DEF Types
<1>1. /\ c \in Tasks /\ c # Fader /\ c # Spine /\ c \in Settlers /\ c # Free
      /\ active \in Deck /\ Spare \in Deck /\ Spare # active
      /\ PrepareInv /\ SpareInv /\ IncomingInv /\ PauseInv /\ SettleInv /\ TargetInv
      /\ EndInv /\ RowInv
  BY SpareIsOther, CrossfadeAssumption DEF Tasks, Settlers, DecksInv
<1>2. CASE Settle(c) /\ ~st.crossfading
  <2>1. /\ st' = st /\ slot' = slot /\ lock' = lock /\ deck' = deck /\ ring' = ring
        /\ active' = active /\ lock = Free
    BY <1>2 DEF Settle, NoCommand
  <2>2. OnlyMoves(c) /\ proc[c].pc = "settle" /\ proc'[c].pc = "take" /\ proc'[c].act = proc[c].act
    BY <1>1, <1>2, GotoKeeps DEF Settle, At
  <2>3. PrepareInv' /\ SpareInv'
    BY <1>1, <2>1, <2>2, SpareUntouched DEF Same, Preparing
  <2>4. IncomingInv' /\ PauseInv'
    BY <1>2, <2>1, NoneMarked, NoneArrives
  <2>5. SettleInv'
    BY <1>1, <1>2, <2>2, NoneSettles DEF CommitPcs
  <2>6. TargetInv'
    BY <1>1, <2>1, TargetKept DEF Rows
  <2>7. EndInv'
    BY <1>1, <2>1, <2>2, EndKept DEF OnlyMoves, Tasks, EndInv
  <2>8. RowInv'
    BY <1>1, <2>1, <2>2, RowKept DEF OnlyMoves, Tasks, Exempt
  <2>9. QED  BY <2>3, <2>4, <2>5, <2>6, <2>7, <2>8 DEF DecksInv
<1>3. CASE Settle(c) /\ st.crossfading
  <2> DEFINE target == EntryAt(st.pendingSkip)
  <2>1. /\ slot' = NoFade /\ lock' = c /\ deck' = deck /\ ring' = ring
        /\ active' = active /\ lock = Free /\ Spare' = Spare
    BY <1>3, SpareStays DEF Settle, NoCommand
  <2>2. /\ st'.crossfading /\ st'.queue = st.queue /\ st'.current = st.current
    BY <1>3 DEF Settle, HandlerState
  <2>3. /\ OnlyMoves(c) /\ proc[c].pc = "settle" /\ proc'[c].act = proc[c].act
        /\ proc'[c].settling.target = target /\ proc'[c].settling.evict = st.evict
        /\ proc'[c].pc = IF ~Promotes(c) THEN "abandon"
                         ELSE IF st.finish THEN "attribute" ELSE "promote"
    BY <1>1, <1>3 DEF Settle, At, OnlyMoves, Proc
  <2>4. Promotes(c)' <=> Promotes(c)
    BY <2>3 DEF Promotes
  <2>5. Sounds(Spare) /\ st.evict # deck[Spare].entry
        /\ (st.pendingSkip # 0 => target = deck[Spare].entry)
    BY <1>1, <1>3, <2>1 DEF IncomingInv
  <2>6. ASSUME Promotes(c) PROVE target \in Rows /\ target = deck[Spare].entry
    <3>1. target # NoEntry
      BY <1>3, <2>6 DEF Settle, Slip
    <3>2. st.pendingSkip \in DOMAIN st.queue /\ target = st.queue[st.pendingSkip]
      BY <3>1 DEF EntryAt
    <3>3. st.pendingSkip # 0
      BY <3>2 DEF HandlerState
    <3>4. QED  BY <2>5, <3>2, <3>3 DEF Rows
  <2> HIDE DEF target
  <2>7. PrepareInv'
    <3>1. \A q \in Preparers : ~Preparing(q)
      BY <1>1, <1>3, NonePrepare
    <3>2. QED  BY <1>1, <2>3, <3>1, NoneWillPrepare
  <2>8. SpareInv'
    BY <2>2 DEF SpareInv
  <2>9. IncomingInv' /\ PauseInv' /\ TargetInv'
    BY <1>1, <2>1 DEF IncomingInv, PauseInv, TargetInv, NoFade
  <2>10. SettleInv'
    <3>1. \A q \in Settlers : q # c => proc'[q].pc \notin CommitPcs \cup {"abandon"}
      BY <2>1, <2>3, CrossfadeAssumption
      DEF LockInv, OnlyMoves, Settlers, Tasks, CommitPcs, HoldingPcs
    <3>2. Rows' = Rows
      BY <2>2 DEF Rows
    <3>3. proc'[c].pc \in {"abandon", "attribute", "promote"}
      BY <2>3
    <3>4. proc'[c].pc = "abandon" <=> ~Promotes(c)
      BY <2>3
    <3>5. Sounds(Spare)' <=> Sounds(Spare)
      BY <2>1 DEF Sounds
    <3>6. QED
      BY <1>1, <2>1, <2>2, <2>3, <2>4, <2>5, <2>6, <3>1, <3>2, <3>3, <3>4, <3>5
      DEF SettleInv, CommitPcs
  <2>11. EndInv'
    BY <1>1, <2>1, <2>3, EndKept DEF OnlyMoves, Tasks, EndInv
  <2>12. RowInv'
    BY <1>1, <2>1, <2>2, <2>3, RowKept DEF OnlyMoves, Tasks, Exempt
  <2>13. QED  BY <2>7, <2>8, <2>9, <2>10, <2>11, <2>12 DEF DecksInv
<1>4. CASE Abandon(c)
  <2>1. /\ st' = st /\ slot' = slot /\ lock' = lock /\ active' = active /\ Spare' = Spare
    BY <1>4, SpareStays DEF Abandon
  <2>2. Silent(Spare) /\ Others(Spare) /\ ring' = ring \o <<Ev("Stopped", NoEntry)>>
    BY <1>1, <1>4, StoppedHolds DEF Abandon
  <2>3. /\ OnlyMoves(c) /\ proc[c].pc = "abandon" /\ proc'[c].pc = "land"
        /\ proc'[c].act = proc[c].act
    BY <1>1, <1>4, GotoKeeps DEF Abandon, At
  <2>4. /\ lock = c /\ \A q \in Settlers : q # c => proc[q].pc \notin HoldingPcs
    BY <1>1, <2>3, LockAlone DEF HoldingPcs
  <2>5. st.crossfading /\ ~Promotes(c) /\ ~Promotes(c)'
    BY <1>1, <2>3 DEF SettleInv, Promotes
  <2>6. deck'[active] = deck[active]
    BY <1>1, <2>2 DEF Others
  <2>7. PrepareInv'
    <3>1. \A q \in Preparers : ~Preparing(q)
      BY <1>1, <2>5, NonePrepare
    <3>2. QED  BY <1>1, <2>3, <3>1, NoneWillPrepare
  <2>8. SpareInv' /\ IncomingInv' /\ PauseInv'
    BY <1>1, <2>1, <2>4, <2>5 DEF SpareInv, IncomingInv, PauseInv
  <2>9. SettleInv'
    <3>1. \A q \in Settlers : q # c => proc'[q].pc \notin CommitPcs \cup {"abandon"}
      BY <2>3, <2>4 DEF OnlyMoves, Settlers, Tasks, CommitPcs, HoldingPcs
    <3>2. ~Sounds(Spare)'
      BY <2>1, <2>2 DEF Sounds, Silent
    <3>3. QED  BY <1>1, <2>1, <2>3, <2>5, <3>1, <3>2 DEF SettleInv, CommitPcs
  <2>10. TargetInv'
    BY <1>1, <2>1, TargetKept DEF Rows
  <2>11. EndInv'
    <3>1. (NoEnds(ring) => NoEnds(ring')) /\ OneEnd(ring')
      <4>1. Ev("Stopped", NoEntry) \in Event /\ ~IsEnd(Ev("Stopped", NoEntry))
        BY EventTypes DEF IsEnd, Ev, MaybeEntry
      <4>2. OneEnd(ring)
        BY <1>1 DEF EndInv
      <4>3. QED  BY <2>2, <4>1, <4>2, EndsAppended
    <3>2. QED  BY <1>1, <2>1, <2>3, <2>6, <3>1, EndKept DEF OnlyMoves, Tasks
  <2>12. RowInv'
    BY <1>1, <2>1, <2>3, <2>6, RowKept DEF OnlyMoves, Tasks, Exempt
  <2>13. QED  BY <2>7, <2>8, <2>9, <2>10, <2>11, <2>12 DEF DecksInv
<1>5. QED  BY <1>2, <1>3, <1>4

\* A deck that says it plays, pauses or is stopped adds no end to the ring.
LEMMA NoEndSaid ==
    ASSUME ring \in Seq(Event), OneEnd(ring), NEW kind \in {"Playing", "Paused", "Stopped"},
           NEW e \in MaybeEntry, ring' = ring \o <<Ev(kind, e)>>
    PROVE  (NoEnds(ring) => NoEnds(ring')) /\ OneEnd(ring')
<1>1. Ev(kind, e) \in Event /\ ~IsEnd(Ev(kind, e))
  BY EventTypes DEF IsEnd, Ev
<1>2. QED  BY <1>1, EndsAppended

LEMMA TakeDecks ==
    ASSUME Types, LockInv, DriverInv, AlwaysInv, DecksInv, NEW c \in Client,
           Aim(c) \/ TakeSkipLoad(c) \/ TakeFade(c) \/ TakeNothing(c), slips' = {}
    PROVE  DecksInv'
<1> USE DEF Types
<1>1. /\ c \in Tasks /\ c # Fader /\ c # Spine /\ c \in Preparers
      /\ active \in Deck /\ Spare \in Deck /\ Spare # active /\ NoEntry \notin Entry
      /\ PrepareInv /\ SpareInv /\ IncomingInv /\ PauseInv /\ SettleInv /\ TargetInv
      /\ EndInv /\ RowInv /\ AimInv
  BY SpareIsOther, CrossfadeAssumption DEF Tasks, Preparers, DecksInv, AlwaysInv
<1>2. ~st.crossfading /\ slot.kind # "crossfade"
  <2>1. ~st.crossfading
    BY DEF Aim, TakeSkipLoad, TakeFade, TakeNothing, Slip, Slips
  <2>2. QED  BY <2>1, NoneMarked
<1>3. lock' = lock /\ deck' = deck /\ ring' = ring /\ active' = active /\ Same(Spare)
  BY DEF Aim, TakeSkipLoad, TakeFade, TakeNothing, TakesSlot, NoCommand, Same
<1>4. OnlyMoves(c) /\ proc[c].pc \in {"aim", "take"}
      /\ proc'[c].pc \in {"settle", "idle", "load", "evict", "halt"}
  <2>1. CASE Aim(c)
    BY <1>1, <2>1, GotoKeeps DEF Aim, At
  <2>2. CASE TakeSkipLoad(c) \/ TakeFade(c)
    BY <1>1, <2>2, DoneLeaves DEF TakeSkipLoad, TakeFade, Takes, At
  <2>3. CASE TakeNothing(c)
    BY <1>1, <2>3, GotoKeeps DEF TakeNothing, Takes, At
  <2>4. QED  BY <2>1, <2>2, <2>3
<1>5. st'.crossfading = st.crossfading
  <2>1. CASE Aim(c) \/ TakeSkipLoad(c) \/ TakeFade(c)
    BY <2>1 DEF Aim, TakeSkipLoad, TakeFade, HandlerState
  <2>2. CASE TakeNothing(c)
    <3> DEFINE s == SetManualVolume(st, DeckLoaded \/ proc[c].act # "unpick")
    <3>1. s \in HandlerState /\ s.crossfading = st.crossfading
      BY VolumeTypes
    <3>2. st' = s \/ st' = [s EXCEPT !.queue = << >>, !.current = 0]
      BY <2>2 DEF TakeNothing
    <3> HIDE DEF s
    <3>3. QED  BY <3>1, <3>2 DEF HandlerState
  <2>3. QED  BY <2>1, <2>2
<1>6. \/ st'.queue = st.queue /\ st'.current = st.current
      \/ proc'[c].pc = "halt" /\ slot'.kind = "none"
  <2>1. CASE Aim(c) \/ TakeSkipLoad(c) \/ TakeFade(c)
    BY <2>1 DEF Aim, TakeSkipLoad, TakeFade, HandlerState
  <2>2. CASE TakeNothing(c)
    <3> DEFINE s == SetManualVolume(st, DeckLoaded \/ proc[c].act # "unpick")
    <3>1. s.queue = st.queue /\ s.current = st.current
      BY VolumeKeeps
    <3>2. st' = IF proc[c].act = "clear" THEN [s EXCEPT !.queue = << >>, !.current = 0] ELSE s
      BY <2>2 DEF TakeNothing
    <3>3. proc[c].act = "clear" => proc'[c].pc = "halt" /\ slot'.kind = "none"
      BY <1>1, <2>2, GotoKeeps DEF TakeNothing, NoFade
    <3> HIDE DEF s
    <3>4. QED  BY <3>1, <3>2, <3>3
  <2>3. QED  BY <2>1, <2>2
<1>7. /\ slot'.kind # "crossfade"
      /\ slot'.kind = "skipLoad" =>
           \/ slot' = slot /\ st'.queue = st.queue
           \/ /\ slot'.target = proc[c].item /\ slot'.evict = proc[c].gone
              /\ EntryAt(proc[c].idx) = proc[c].item /\ st'.queue = st.queue
              /\ proc[c].act = "skipLoad"
  <2>1. CASE Aim(c)
    BY <1>2, <2>1 DEF Aim, HandlerState
  <2>2. CASE TakeSkipLoad(c)
    BY <2>2 DEF TakeSkipLoad, Takes, Slips, Moved, HandlerState
  <2>3. CASE TakeFade(c)
    <3>1. slot'.kind = IF proc[c].act \in {"pause", "stopRestore"} THEN proc[c].act
                       ELSE "setBaseline"
      BY <2>3 DEF TakeFade, NoFade
    <3>2. QED  BY <3>1
  <2>4. CASE TakeNothing(c)
    BY <2>4 DEF TakeNothing, NoFade
  <2>5. QED  BY <2>1, <2>2, <2>3, <2>4
<1>8. PrepareInv' /\ SpareInv'
  BY <1>1, <1>3, <1>4, <1>5, SpareUntouched DEF Preparing
<1>9. IncomingInv' /\ PauseInv'
  BY <1>2, <1>5, <1>7, NoneArrives
<1>10. SettleInv'
  BY <1>1, <1>2, <1>4, NoneSettles DEF CommitPcs
<1>11. TargetInv'
  <2>1. CASE slot'.kind # "skipLoad"
    BY <1>7, <2>1 DEF TargetInv
  <2>2. CASE slot'.kind = "skipLoad" /\ slot' = slot /\ st'.queue = st.queue
    BY <1>1, <2>2, TargetKept DEF Rows
  <2>3. CASE /\ slot'.target = proc[c].item /\ slot'.evict = proc[c].gone
             /\ EntryAt(proc[c].idx) = proc[c].item /\ st'.queue = st.queue
             /\ proc[c].act = "skipLoad"
    <3>1. proc[c].item \in Entry /\ proc[c].gone # proc[c].item
      BY <1>1, <2>3, AimedAt
    <3>2. proc[c].item \in Rows
      BY <1>1, <2>3, <3>1 DEF EntryAt, Rows
    <3>3. Rows' = Rows
      BY <2>3 DEF Rows
    <3>4. QED  BY <2>3, <3>1, <3>2, <3>3 DEF TargetInv
  <2>4. QED  BY <1>7, <2>1, <2>2, <2>3
<1>12. EndInv'
  BY <1>1, <1>3, <1>4, EndKept DEF OnlyMoves, Tasks, EndInv
<1>13. RowInv'
  <2>1. CASE st'.queue = st.queue /\ st'.current = st.current
    BY <1>1, <1>3, <1>4, <2>1, RowKept DEF OnlyMoves, Tasks, Exempt
  <2>2. CASE proc'[c].pc = "halt"
    BY <2>2 DEF RowInv, At
  <2>3. QED  BY <1>6, <2>1, <2>2
<1>14. QED  BY <1>8, <1>9, <1>10, <1>11, <1>12, <1>13 DEF DecksInv

LEMMA LoadDecks ==
    ASSUME Types, LockInv, DriverInv, AlwaysInv, DecksInv, NEW c \in Client,
           Load(c) \/ Halt(c), slips' = {}
    PROVE  DecksInv'
<1> USE DEF Types
<1>1. /\ c \in Tasks /\ c # Fader /\ c # Spine /\ c \in Preparers
      /\ active \in Deck /\ Spare \in Deck /\ Spare # active
      /\ PrepareInv /\ SpareInv /\ IncomingInv /\ PauseInv /\ SettleInv /\ TargetInv
      /\ EndInv /\ RowInv /\ OneEnd(ring) /\ proc[c].item \in MaybeEntry
  BY SpareIsOther, ProcFields, CrossfadeAssumption DEF Tasks, Preparers, DecksInv, EndInv
<1>2. ~st.crossfading /\ slot.kind # "crossfade"
  <2>1. ~st.crossfading
    BY DEF Load, LoadAt, Halt, Slip, Slips
  <2>2. QED  BY <2>1, NoneMarked
<1>3. lock' = lock /\ active' = active /\ st' = st /\ slot' = slot
  BY DEF Load, LoadAt, Halt
<1>4. /\ OnlyMoves(c) /\ proc[c].pc \in {"load", "halt"} /\ proc'[c].pc \in {"commit", "idle"}
      /\ proc[c].pc = "halt" => Halt(c)
  <2>1. CASE Load(c)
    BY <1>1, <2>1, GotoKeeps, DoneLeaves DEF Load, LoadAt, At
  <2>2. CASE Halt(c)
    BY <1>1, <2>2, DoneLeaves DEF Halt, At
  <2>3. QED  BY <2>1, <2>2
<1>5. \/ /\ Load(c) /\ Loaded(active, proc[c].item, "baseline") /\ proc'[c].pc = "commit"
      \/ /\ Load(c) /\ SetGain(active, "baseline")
      \/ /\ Halt(c) /\ Stopped(active, "baseline")
  BY <1>1, GotoKeeps DEF Load, LoadAt, Halt
<1>6. Others(active) /\ Same(Spare)
  <2>1. Others(active)
    BY <1>1, <1>5, LoadedHolds, SetGainHolds, StoppedHolds
  <2>2. QED  BY <1>1, <2>1 DEF Others, Same
<1>7. PrepareInv' /\ SpareInv'
  BY <1>1, <1>3, <1>4, <1>6, SpareUntouched DEF Preparing
<1>8. IncomingInv' /\ PauseInv'
  BY <1>2, <1>3, NoneArrives
<1>9. SettleInv'
  BY <1>1, <1>2, <1>4, NoneSettles DEF CommitPcs
<1>10. TargetInv'
  BY <1>1, <1>3, TargetKept DEF Rows
<1>11. CASE Load(c) /\ Loaded(active, proc[c].item, "baseline") /\ proc'[c].pc = "commit"
  <2>1. NoEnds(ring) /\ proc[Spine].pc \notin {"advance", "load"}
    BY <1>11 DEF Load, LoadAt, Slips, EndIsPending, NoEnds, IsEnd
  <2>2. ring' = ring \o <<Ev("Playing", proc[c].item)>>
    BY <1>1, <1>11, LoadedHolds
  <2>3. NoEnds(ring') /\ OneEnd(ring')
    BY <1>1, <2>1, <2>2, NoEndSaid
  <2>4. EndInv'
    <3>1. proc'[Spine] = proc[Spine]
      BY <1>1, <1>4 DEF OnlyMoves, Tasks
    <3>2. NoEnds(ring)' /\ OneEnd(ring)'
      BY <2>3 DEF NoEnds, OneEnd, IsEnd
    <3>3. QED  BY <2>1, <3>1, <3>2 DEF EndInv
  <2>5. RowInv'
    BY <1>1, <1>11 DEF RowInv, At
  <2>6. QED  BY <1>7, <1>8, <1>9, <1>10, <2>4, <2>5 DEF DecksInv
<1>12. CASE Load(c) /\ SetGain(active, "baseline")
  <2>1. Same(active) /\ ring' = ring
    BY <1>1, <1>12, SetGainHolds
  <2>2. EndInv'
    BY <1>1, <1>3, <1>4, <2>1, EndKept DEF OnlyMoves, Tasks, EndInv, Same
  <2>3. proc[c].pc = "load"
    BY <1>12 DEF Load, LoadAt, At
  <2>4. RowInv'
    BY <1>1, <1>3, <1>4, <2>1, <2>3, RowKept DEF OnlyMoves, Tasks, Exempt, Same
  <2>5. QED  BY <1>7, <1>8, <1>9, <1>10, <2>2, <2>4 DEF DecksInv
<1>13. CASE Halt(c) /\ Stopped(active, "baseline")
  <2>1. Silent(active) /\ ring' = ring \o <<Ev("Stopped", NoEntry)>>
    BY <1>1, <1>13, StoppedHolds
  <2>2. (NoEnds(ring) => NoEnds(ring')) /\ OneEnd(ring')
    BY <1>1, <2>1, NoEndSaid DEF MaybeEntry
  <2>3. EndInv'
    BY <1>1, <1>3, <1>4, <2>1, <2>2, EndKept DEF OnlyMoves, Tasks, Silent
  <2>4. RowInv'
    BY <1>3, <2>1 DEF RowInv, Silent
  <2>5. QED  BY <1>7, <1>8, <1>9, <1>10, <2>3, <2>4 DEF DecksInv
<1>14. QED  BY <1>5, <1>11, <1>12, <1>13

LEMMA ResumeDecks ==
    ASSUME Types, LockInv, DriverInv, AlwaysInv, DecksInv, NEW c \in Client,
           Release(c) \/ Wake(c)
    PROVE  DecksInv'
<1> USE DEF Types
<1>1. /\ c \in Tasks /\ c # Fader /\ c # Spine /\ c \in Preparers
      /\ active \in Deck /\ Spare \in Deck /\ Spare # active
      /\ PrepareInv /\ SpareInv /\ IncomingInv /\ PauseInv /\ SettleInv /\ TargetInv
      /\ EndInv /\ RowInv /\ HoldInv /\ GainInv /\ OneEnd(ring)
  BY SpareIsOther, CrossfadeAssumption DEF Tasks, Preparers, DecksInv, AlwaysInv, EndInv
<1>2. /\ lock' = lock /\ active' = active
      /\ slot' = slot \/ slot'.kind = "none"
  BY DEF Release, Wake, NoFade
<1>3. /\ st'.crossfading = st.crossfading /\ st'.queue = st.queue /\ st'.current = st.current
      /\ st'.pendingSkip = st.pendingSkip /\ st'.evict = st.evict
  BY DEF Release, Wake, HandlerState
<1>4. /\ OnlyMoves(c) /\ proc[c].pc \in {"release", "wake"} /\ proc'[c].pc \in {"wake", "settle"}
  <2>1. CASE Release(c)
    BY <1>1, <2>1, GotoKeeps DEF Release, At
  <2>2. CASE Wake(c)
    BY <1>1, <2>2, GotoKeeps DEF Wake, At
  <2>3. QED  BY <2>1, <2>2
<1>5. /\ deck'[active].state = "Stopped" <=> deck[active].state = "Stopped"
      /\ deck'[active].entry = deck[active].entry /\ Others(active)
      /\ (NoEnds(ring) => NoEnds(ring')) /\ OneEnd(ring')
  <2>1. CASE Release(c)
    BY <1>1, <2>1 DEF Release, NoCommand, Others
  <2>2. CASE Wake(c) /\ deck[active].entry = NoEntry
    <3>1. deck' = [deck EXCEPT ![active] = [deck[active] EXCEPT !.gain = "silent",
                                                                !.state = deck[active].state]]
      BY <2>2 DEF Wake, Tell
    <3>2. ring' = ring \o << >>
      BY <2>2 DEF Wake, Tell
    <3>3. ring' = ring
      BY <3>2
    <3>4. QED  BY <1>1, <3>1, <3>3 DEF Others, DeckState
  <2>3. CASE Wake(c) /\ deck[active].entry # NoEntry
    <3>1. deck' = [deck EXCEPT ![active] = [deck[active] EXCEPT !.gain = "silent",
                                                                !.state = "Playing"]]
      BY <2>3 DEF Wake, Tell
    <3>2. ring' = ring \o <<Ev("Playing", deck[active].entry)>>
      BY <2>3 DEF Wake, Tell
    <3>3. deck[active].state # "Stopped"
      BY <1>1, <2>3 DEF HoldInv
    <3>4. deck[active].entry \in MaybeEntry
      BY <1>1, DeckFields
    <3>5. (NoEnds(ring) => NoEnds(ring')) /\ OneEnd(ring')
      BY <1>1, <3>2, <3>4, NoEndSaid
    <3>6. QED  BY <1>1, <3>1, <3>3, <3>5 DEF Others, DeckState
  <2>4. QED  BY <2>1, <2>2, <2>3
<1>6. Same(Spare)
  BY <1>1, <1>5 DEF Others, Same
<1>7. PrepareInv' /\ SpareInv'
  BY <1>1, <1>2, <1>3, <1>4, <1>6, SpareUntouched DEF Preparing
<1>8. IncomingInv'
  <2>1. EntryAt(st.pendingSkip)' = EntryAt(st.pendingSkip)
    BY <1>3 DEF EntryAt
  <2>2. QED  BY <1>1, <1>2, <1>3, <1>6, <2>1, IncomingKept
<1>9. PauseInv'
  <2>1. \A d \in Client : proc[d].pc \in {"settle", "take"} /\ proc[d].act = "pause" =>
           proc'[d].pc \in {"settle", "take"} /\ proc'[d].act = "pause"
    BY <1>4 DEF OnlyMoves, Tasks
  <2>2. QED  BY <1>1, <1>2, <1>3, <2>1, PauseKept
<1>10. SettleInv'
  <2>1. \A p \in Settlers : proc'[p].pc \in CommitPcs \cup {"abandon"} => proc'[p] = proc[p]
    BY <1>4 DEF OnlyMoves, Settlers, Tasks, CommitPcs
  <2>2. At(Spine, "commit") => At(Spine, "commit")'
    BY <1>1, <1>4 DEF OnlyMoves, Tasks, At
  <2>3. Rows' = Rows
    BY <1>3 DEF Rows
  <2>4. QED  BY <1>1, <1>2, <1>3, <1>5, <1>6, <2>1, <2>2, <2>3, SettleKept
<1>11. TargetInv'
  BY <1>1, <1>2, <1>3, TargetKept DEF Rows
<1>12. EndInv'
  BY <1>1, <1>2, <1>4, <1>5, EndKept DEF OnlyMoves, Tasks
<1>13. RowInv'
  BY <1>1, <1>2, <1>3, <1>4, <1>5, RowKept DEF OnlyMoves, Tasks, Exempt
<1>14. QED  BY <1>7, <1>8, <1>9, <1>10, <1>11, <1>12, <1>13 DEF DecksInv

LEMMA EvictDecks ==
    ASSUME Types, LockInv, DriverInv, AlwaysInv, DecksInv, NEW c \in Client, Evict(c), slips' = {}
    PROVE  DecksInv'
<1> USE DEF Types
<1> DEFINE gone == proc[c].gone
<1>1. /\ c \in Tasks /\ c # Fader /\ c # Spine
      /\ active \in Deck /\ Spare \in Deck /\ Spare # active
      /\ PrepareInv /\ SpareInv /\ IncomingInv /\ PauseInv /\ SettleInv /\ TargetInv
      /\ EndInv /\ RowInv
  BY SpareIsOther, CrossfadeAssumption DEF Tasks, DecksInv
<1>2. /\ lock' = lock /\ active' = active /\ slot' = slot /\ deck' = deck /\ ring' = ring
      /\ Same(Spare) /\ st' = EvictQid(st, gone)
      /\ gone \notin Arriving
      /\ proc[c].act # "unload" => gone # EntryAt(st.current)
  BY DEF Evict, NoCommand, Same, Slip
<1>3. /\ OnlyMoves(c) /\ proc[c].pc = "evict" /\ proc'[c].pc \in {"settle", "halt", "idle"}
      /\ proc[c].act = "unload" => proc'[c].pc = "halt"
  <2>1. CASE proc[c].act = "unpick"
    BY <1>1, <2>1 DEF Evict, IdleProc, OnlyMoves, At
  <2>2. CASE proc[c].act # "unpick"
    BY <1>1, <2>2, GotoKeeps, DoneLeaves DEF Evict, At
  <2>3. QED  BY <2>1, <2>2
<1> HIDE DEF gone
<1>4. /\ st'.crossfading = st.crossfading /\ st'.evict = st.evict
      /\ RowsOf(st) \ {gone} \subseteq RowsOf(st')
      /\ st.current \in DOMAIN st.queue /\ st.queue[st.current] # gone =>
            st'.current \in DOMAIN st'.queue /\ st'.queue[st'.current] = st.queue[st.current]
      /\ st.pendingSkip \in DOMAIN st.queue /\ st.queue[st.pendingSkip] # gone =>
            /\ st'.pendingSkip \in DOMAIN st'.queue
            /\ st'.queue[st'.pendingSkip] = st.queue[st.pendingSkip]
      /\ st.pendingSkip = 0 => st'.pendingSkip = 0
      /\ st' \in HandlerState
  BY <1>2, EvictKeeps, EvictTypes
<1>5. PrepareInv' /\ SpareInv'
  BY <1>1, <1>2, <1>3, <1>4, SpareUntouched DEF Preparing
<1>6. ASSUME st.crossfading, lock = Free, st.pendingSkip # 0
      PROVE  st'.pendingSkip # 0 /\ EntryAt(st.pendingSkip)' = EntryAt(st.pendingSkip)
  <2>1. EntryAt(st.pendingSkip) \in Entry
    BY <1>1, <1>6 DEF IncomingInv
  <2>2. st.pendingSkip \in DOMAIN st.queue /\ EntryAt(st.pendingSkip) = st.queue[st.pendingSkip]
    BY <2>1, CrossfadeAssumption DEF EntryAt
  <2>3. st.queue[st.pendingSkip] # gone
    BY <1>2, <2>2 DEF Arriving
  <2>4. /\ st'.pendingSkip \in DOMAIN st'.queue
        /\ st'.queue[st'.pendingSkip] = st.queue[st.pendingSkip]
    BY <1>4, <2>2, <2>3
  <2>5. st'.pendingSkip # 0
    BY <1>4, <2>4 DEF HandlerState
  <2>6. QED  BY <2>2, <2>4, <2>5 DEF EntryAt
<1>7. IncomingInv'
  BY <1>1, <1>2, <1>4, <1>6, IncomingKept
<1>8. PauseInv'
  <2>1. \A d \in Client : proc[d].pc \in {"settle", "take"} /\ proc[d].act = "pause" =>
           proc'[d].pc \in {"settle", "take"} /\ proc'[d].act = "pause"
    BY <1>3 DEF OnlyMoves, Tasks
  <2>2. slot.kind = "crossfade" => st.crossfading
    BY DEF DriverInv
  <2>3. QED  BY <1>1, <1>2, <1>6, <2>1, <2>2, PauseKept
<1>9. SettleInv'
  <2>1. \A p \in Settlers : proc'[p].pc \in CommitPcs \cup {"abandon"} => proc'[p] = proc[p]
    BY <1>3 DEF OnlyMoves, Settlers, Tasks, CommitPcs
  <2>2. At(Spine, "commit") => At(Spine, "commit")'
    BY <1>1, <1>3 DEF OnlyMoves, Tasks, At
  <2>3. ASSUME NEW p \in Settlers, proc[p].pc \in CommitPcs, proc[p].settling.target \in Rows
        PROVE  proc[p].settling.target \in Rows'
    <3>1. lock = p
      BY <2>3 DEF LockInv, Settlers, CommitPcs, HoldingPcs
    <3>2. proc[p].settling.target # gone
      BY <1>2, <3>1 DEF Arriving, Settlers
    <3>3. QED  BY <1>4, <2>3, <3>2 DEF Rows, RowsOf
  <2>4. QED  BY <1>1, <1>2, <1>4, <2>1, <2>2, <2>3, SettleKept
<1>10. TargetInv'
  <2>1. slot.target # gone
    BY <1>2 DEF Arriving
  <2>2. QED  BY <1>1, <1>2, <1>4, <2>1, TargetKept DEF Rows, RowsOf
<1>11. EndInv'
  BY <1>1, <1>2, <1>3, EndKept DEF OnlyMoves, Tasks, EndInv
<1>12. RowInv'
  <2>1. CASE proc[c].act = "unload"
    BY <1>3, <2>1 DEF RowInv, At
  <2>2. CASE proc[c].act # "unload"
    <3>1. OnRow => OnRow' /\ st'.queue[st'.current] = st.queue[st.current]
      BY <1>2, <1>4, <2>2 DEF OnRow, EntryAt
    <3>2. QED  BY <1>1, <1>2, <1>3, <3>1, RowFollows DEF OnlyMoves, Tasks, Exempt
  <2>3. QED  BY <2>1, <2>2
<1>13. QED  BY <1>5, <1>7, <1>8, <1>9, <1>10, <1>11, <1>12 DEF DecksInv

LEMMA ClientStepDecks ==
    ASSUME Types, LockInv, DriverInv, AlwaysInv, DecksInv,
           NEW c \in Client, ClientStep(c), slips' = {}
    PROVE  DecksInv'
BY SettleDecks, TakeDecks, LoadDecks, ResumeDecks, EvictDecks DEF ClientStep

-----------------------------------------------------------------------------
(* The task in the slot. *)

LEMMA GainFaded ==
    ASSUME GainInv, OnlyMoves(Fader),
           deck'[active'].gain = "baseline" \/ slot'.kind # "none",
           proc'[Fader].pc # "idle" => proc'[Fader].pc \in HoldingPcs /\ slot'.kind # "none"
    PROVE  GainInv'
<1>1. \A c \in Client : proc'[c] = proc[c]
  BY CrossfadeAssumption DEF OnlyMoves, Tasks
<1>2. \A c \in Client : proc'[c].pc \in {"release", "wake"} => proc'[c].act = "resumeIn"
  BY <1>1 DEF GainInv
<1>3. QED  BY <1>2 DEF GainInv, Owes

LEMMA FaderMoves ==
    ASSUME Types, LockInv, GainInv, FaderStep
    PROVE  /\ OnlyMoves(Fader) /\ active' = active
           /\ \/ proc' = proc /\ proc[Fader].pc = "idle" /\ lock' = lock
              \/ Switch /\ proc[Fader].pc = "switch" /\ proc'[Fader].pc = "swap" /\ lock' = lock
              \/ Swap /\ proc[Fader].pc = "swap" /\ proc'[Fader].pc = "idle" /\ lock' = Free
              \/ /\ proc[Fader].pc = "idle" /\ lock = Free /\ lock' = Fader
                 /\ proc'[Fader].act = "none" /\ proc'[Fader].settling = slot
                 /\ \/ CrossfadeEnds /\ proc'[Fader].pc = IF slot.finish THEN "attribute" ELSE "promote"
                    \/ DipEnds /\ proc'[Fader].pc = "switch"
<1> USE DEF Types
<1>1. Fader \in Tasks
  BY DEF Tasks
<1>2. CASE RampMoves \/ SetBaseline \/ PauseTerminal \/ StopRestore
  BY <1>2 DEF RampMoves, SetBaseline, PauseTerminal, StopRestore, RampEnds, Ramping, At, OnlyMoves
<1>3. CASE Switch
  BY <1>1, <1>3, GotoKeeps DEF Switch, At
<1>4. CASE Swap
  BY <1>1, <1>4, DoneLeaves DEF Swap, At
<1>5. ASSUME NEW pc, Hold(pc)
      PROVE  /\ OnlyMoves(Fader) /\ lock' = Fader /\ proc'[Fader].pc = pc
             /\ proc'[Fader].act = "none" /\ proc'[Fader].settling = slot
  BY <1>1, <1>5 DEF Hold, IdleProc, OnlyMoves
<1>6. CASE CrossfadeEnds
  BY <1>5, <1>6 DEF CrossfadeEnds, RampEnds, Ramping, At
<1>7. CASE DipEnds
  BY <1>5, <1>7 DEF DipEnds, RampEnds, Ramping, At
<1>8. QED  BY <1>2, <1>3, <1>4, <1>6, <1>7 DEF FaderStep

\* What a step of the task leaves on the decks, and what it says of it.
LEMMA FaderLeaves ==
    ASSUME Types, HoldInv, FaderStep
    PROVE  /\ Same(Spare) /\ HoldInv'
           /\ \/ Same(active) /\ ring' = ring
              \/ /\ PauseTerminal /\ deck'[active].state = "Paused"
                 /\ deck'[active].entry = deck[active].entry /\ deck[active].state # "Stopped"
                 /\ ring' = ring \o <<Ev("Paused", deck[active].entry)>>
              \/ StopRestore /\ Silent(active) /\ ring' = ring \o <<Ev("Stopped", NoEntry)>>
              \/ Switch /\ Plays(active, slot.target) /\ ring' = ring \o <<Ev("Playing", slot.target)>>
           /\ SetBaseline \/ PauseTerminal \/ StopRestore => deck'[active].gain = "baseline"
<1> USE DEF Types
<1>1. active \in Deck /\ Spare \in Deck /\ Spare # active
  BY SpareIsOther
<1>2. CASE RampMoves \/ CrossfadeEnds
  <2>1. (\A d \in Deck : Same(d)) /\ ring' = ring
    <3>1. CASE RampMoves
      BY <3>1 DEF RampMoves, Same, DeckState
    <3>2. CASE CrossfadeEnds
      BY <3>2 DEF CrossfadeEnds, Same, DeckState
    <3>3. QED  BY <1>2, <3>1, <3>2
  <2>2. ~(SetBaseline \/ PauseTerminal \/ StopRestore)
    BY <1>2 DEF RampMoves, CrossfadeEnds, SetBaseline, PauseTerminal, StopRestore, RampEnds,
                Ramping, NoFade
  <2>3. HoldInv'
    BY <2>1 DEF HoldInv, Same
  <2>4. QED  BY <1>1, <2>1, <2>2, <2>3
<1>3. CASE SetBaseline
  <2>1. Same(active) /\ Others(active) /\ ring' = ring /\ deck'[active].gain = "baseline"
    BY <1>1, <1>3, SetGainHolds DEF SetBaseline
  <2>2. Same(Spare)
    BY <1>1, <2>1 DEF Others, Same
  <2>3. QED  BY <1>1, <2>1, <2>2, HoldKept
<1>4. CASE PauseTerminal
  <2> DEFINE e == deck[active].entry
  <2>1. Tell(active, [deck[active] EXCEPT !.gain = "baseline",
                                          !.state = IF e = NoEntry THEN deck[active].state
                                                    ELSE "Paused"],
             IF e = NoEntry THEN << >> ELSE <<Ev("Paused", e)>>)
    BY <1>4 DEF PauseTerminal
  <2>2. Others(active) /\ deck'[active].gain = "baseline"
    BY <1>1, <2>1 DEF Tell, Others, DeckState
  <2>3. Same(Spare)
    BY <1>1, <2>2 DEF Others, Same
  <2>4. CASE e = NoEntry
    <3>1. Same(active)
      BY <1>1, <2>1, <2>4 DEF Tell, Same, DeckState
    <3>2. ring' = ring \o << >>
      BY <2>1, <2>4 DEF Tell
    <3>3. ring' = ring
      BY <3>2
    <3>4. HoldInv'
      BY <1>1, <2>2, <3>1, HoldKept
    <3>5. QED  BY <1>4, <2>2, <2>3, <3>1, <3>3, <3>4
  <2>5. CASE e # NoEntry
    <3>1. deck'[active].state = "Paused" /\ deck'[active].entry = e
          /\ ring' = ring \o <<Ev("Paused", e)>>
      BY <1>1, <2>1, <2>5 DEF Tell, DeckState
    <3>2. deck[active].state # "Stopped"
      BY <1>1, <2>5 DEF HoldInv
    <3>3. HoldInv'
      BY <1>1, <2>2, <3>1, HoldKept
    <3>4. QED  BY <1>4, <2>2, <2>3, <3>1, <3>2, <3>3
  <2>6. QED  BY <2>4, <2>5
<1>5. CASE StopRestore
  <2>1. /\ Silent(active) /\ Others(active) /\ deck'[active].gain = "baseline"
        /\ ring' = ring \o <<Ev("Stopped", NoEntry)>>
    BY <1>1, <1>5, StoppedHolds DEF StopRestore
  <2>2. Same(Spare)
    BY <1>1, <2>1 DEF Others, Same
  <2>3. QED  BY <1>1, <1>5, <2>1, <2>2, HoldKept
<1>6. CASE DipEnds
  <2>1. HoldInv' /\ (\A d \in Deck : Same(d)) /\ ring' = ring
    BY <1>6 DEF DipEnds, NoCommand, HoldInv, Same
  <2>2. ~(SetBaseline \/ PauseTerminal \/ StopRestore)
    BY <1>6 DEF DipEnds, SetBaseline, PauseTerminal, StopRestore, RampEnds
  <2>3. QED  BY <1>1, <2>1, <2>2
<1>7. CASE Switch
  <2>1. Loaded(active, slot.target, deck[active].gain) \/ NoCommand
    BY <1>7 DEF Switch
  <2>2. ~(SetBaseline \/ PauseTerminal \/ StopRestore)
    BY <1>7 DEF Switch, SetBaseline, PauseTerminal, StopRestore, RampEnds, Ramping, At
  <2>3. CASE NoCommand
    <3>1. HoldInv' /\ (\A d \in Deck : Same(d)) /\ ring' = ring
      BY <2>3 DEF NoCommand, HoldInv, Same
    <3>2. QED  BY <1>1, <2>2, <3>1
  <2>4. CASE Loaded(active, slot.target, deck[active].gain)
    <3>1. /\ Plays(active, slot.target) /\ Others(active)
          /\ ring' = ring \o <<Ev("Playing", slot.target)>>
      BY <1>1, <2>4, LoadedHolds
    <3>2. Same(Spare) /\ deck'[active].state # "Stopped"
      BY <1>1, <3>1 DEF Others, Same, Plays
    <3>3. HoldInv'
      BY <1>1, <3>1, <3>2, HoldKept
    <3>4. QED  BY <1>7, <2>2, <3>1, <3>2, <3>3
  <2>5. QED  BY <2>1, <2>3, <2>4
<1>8. CASE Swap
  <2>1. HoldInv' /\ (\A d \in Deck : Same(d)) /\ ring' = ring
    BY <1>8 DEF Swap, NoCommand, HoldInv, Same
  <2>2. ~(SetBaseline \/ PauseTerminal \/ StopRestore)
    BY <1>8 DEF Swap, SetBaseline, PauseTerminal, StopRestore, RampEnds, Ramping, At
  <2>3. QED  BY <1>1, <2>1, <2>2
<1>9. QED  BY <1>2, <1>3, <1>4, <1>5, <1>6, <1>7, <1>8 DEF FaderStep

LEMMA FaderAlways ==
    ASSUME Types, LockInv, AlwaysInv, FaderStep
    PROVE  AlwaysInv'
<1> USE DEF Types
<1>1. active \in Deck /\ AimInv /\ HoldInv /\ UniqueInv /\ GainInv /\ Fader \in Tasks
  BY DEF AlwaysInv, Tasks
<1>2. OnlyMoves(Fader) /\ active' = active /\ HoldInv'
  BY <1>1, FaderMoves, FaderLeaves
<1>3. AimInv'
  BY <1>1, <1>2, AimElsewhere, CrossfadeAssumption DEF OnlyMoves, Preparers, Tasks
<1>4. UniqueInv'
  <2>1. CASE StopRestore
    <3> DEFINE u == SetManualVolume(st, FALSE)
               s == [u EXCEPT !.pendingPause = FALSE]
    <3>1. u \in HandlerState /\ u.queue = st.queue
      BY VolumeTypes, VolumeKeeps
    <3>2. s \in HandlerState /\ s.queue = st.queue
      BY <3>1 DEF HandlerState
    <3>3. st' = EvictQid(s, slot.evict)
      BY <2>1 DEF StopRestore
    <3> HIDE DEF s
    <3>4. Distinct(st')
      BY <1>1, <3>2, <3>3, EvictKeeps DEF Distinct, UniqueInv
    <3>5. QED  BY <3>4 DEF Distinct, UniqueInv
  <2>2. CASE Swap
    <3> DEFINE s == Follow(st, slot)
    <3>1. s \in HandlerState /\ Distinct(s)
      BY <1>1, FollowTypes, FollowDistinct DEF Distinct, UniqueInv
    <3>2. st' = [s EXCEPT !.pendingSkip = 0, !.fading = TRUE]
      BY <2>2 DEF Swap
    <3> HIDE DEF s
    <3>3. st'.queue = s.queue
      BY <3>1, <3>2 DEF HandlerState
    <3>4. QED  BY <3>1, <3>3 DEF Distinct, UniqueInv
  <2>3. CASE SetBaseline
    BY <1>1, <2>3, VolumeKeeps, UniqueKept DEF SetBaseline
  <2>4. CASE RampMoves \/ CrossfadeEnds \/ PauseTerminal \/ DipEnds \/ Switch
    BY <1>1, <2>4, UniqueKept
    DEF RampMoves, CrossfadeEnds, PauseTerminal, DipEnds, Switch, HandlerState
  <2>5. QED  BY <2>1, <2>2, <2>3, <2>4 DEF FaderStep
<1>5. GainInv'
  <2>1. deck'[active'].gain = "baseline" \/ slot'.kind # "none"
    <3>1. CASE SetBaseline \/ PauseTerminal \/ StopRestore
      BY <1>1, <1>2, <3>1, FaderLeaves
    <3>2. CASE RampMoves \/ CrossfadeEnds \/ DipEnds
      BY <3>2 DEF RampMoves, CrossfadeEnds, DipEnds, RampEnds, Ramping
    <3>3. CASE Switch
      BY <1>1, <3>3 DEF Switch, At, GainInv
    <3>4. CASE Swap
      BY <3>4 DEF Swap, NoFade
    <3>5. QED  BY <3>1, <3>2, <3>3, <3>4 DEF FaderStep
  <2>2. proc'[Fader].pc # "idle" => proc'[Fader].pc \in HoldingPcs /\ slot'.kind # "none"
    <3>1. CASE proc' = proc /\ proc[Fader].pc = "idle"
      BY <3>1
    <3>2. CASE Switch /\ proc'[Fader].pc = "swap"
      BY <1>1, <3>2 DEF Switch, At, GainInv, HoldingPcs
    <3>3. CASE CrossfadeEnds /\ proc'[Fader].pc \in {"attribute", "promote"}
      BY <3>3 DEF CrossfadeEnds, RampEnds, Ramping, HoldingPcs
    <3>4. CASE DipEnds /\ proc'[Fader].pc = "switch"
      BY <3>4 DEF DipEnds, RampEnds, Ramping, HoldingPcs
    <3>5. QED  BY <1>1, <3>1, <3>2, <3>3, <3>4, FaderMoves
  <2>3. QED  BY <1>1, <1>2, <2>1, <2>2, GainFaded
<1>6. QED  BY <1>2, <1>3, <1>4, <1>5 DEF AlwaysInv

LEMMA FaderDecks ==
    ASSUME Types, LockInv, DriverInv, AlwaysInv, DecksInv, FaderStep, slips' = {}
    PROVE  DecksInv'
<1> USE DEF Types
<1>1. /\ active \in Deck /\ Spare \in Deck /\ Spare # active /\ Fader \in Tasks
      /\ PrepareInv /\ SpareInv /\ IncomingInv /\ PauseInv /\ SettleInv /\ TargetInv
      /\ EndInv /\ RowInv /\ HoldInv /\ GainInv /\ OneEnd(ring)
      /\ Fader \in Settlers /\ Fader # Spine /\ Fader \notin Client
  BY SpareIsOther, CrossfadeAssumption DEF Tasks, DecksInv, AlwaysInv, EndInv, Settlers
<1>2. OnlyMoves(Fader) /\ active' = active /\ Spare' = Spare /\ Same(Spare)
  BY <1>1, FaderMoves, FaderLeaves, SpareStays
<1>3. ~Preparing(Fader) /\ ~Preparing(Fader)'
  BY <1>1, FaderMoves DEF Preparing
<1>4. \A c \in Client \cup {Spine} : proc'[c] = proc[c]
  BY <1>1, <1>2, CrossfadeAssumption DEF OnlyMoves, Tasks
<1>5. \A c \in Client : proc[c].pc \in {"settle", "take"} /\ proc[c].act = "pause" =>
         proc'[c].pc \in {"settle", "take"} /\ proc'[c].act = "pause"
  BY <1>4
<1>6. CASE RampMoves
  <2>1. /\ Same(active) /\ ring' = ring /\ st' = st /\ slot' = slot /\ lock' = lock /\ proc' = proc
    BY <1>1, <1>6 DEF RampMoves, Same, DeckState
  <2>2. PrepareInv' /\ SpareInv'
    BY <1>1, <1>2, <1>3, <2>1, SpareUntouched
  <2>3. IncomingInv' /\ PauseInv'
    <3>1. EntryAt(st.pendingSkip)' = EntryAt(st.pendingSkip)
      BY <2>1 DEF EntryAt
    <3>2. IncomingInv'
      BY <1>1, <1>2, <2>1, <3>1, IncomingKept
    <3>3. PauseInv'
      BY <1>1, <1>5, <2>1, PauseKept
    <3>4. QED  BY <3>2, <3>3
  <2>4. SettleInv'
    <3>1. Rows' = Rows /\ (At(Spine, "commit") => At(Spine, "commit")')
      BY <2>1 DEF Rows, At
    <3>2. QED  BY <1>1, <1>2, <2>1, <3>1, SettleKept DEF Same
  <2>5. TargetInv' /\ EndInv' /\ RowInv'
    BY <1>1, <1>2, <2>1, TargetKept, EndKept, RowKept DEF Same, Rows, EndInv
  <2>6. QED  BY <2>2, <2>3, <2>4, <2>5 DEF DecksInv
<1>7. CASE CrossfadeEnds
  <2>1. /\ Same(active) /\ ring' = ring /\ st' = st /\ slot' = slot /\ lock = Free /\ lock' = Fader
        /\ slot.kind = "crossfade"
    BY <1>1, <1>7 DEF CrossfadeEnds, RampEnds, Hold, Same, DeckState
  <2>2. /\ proc[Fader].pc = "idle" /\ proc'[Fader].act = "none" /\ proc'[Fader].settling = slot
        /\ proc'[Fader].pc \in {"attribute", "promote"}
    <3>1. PICK pc \in {"attribute", "promote"} :
            proc' = [proc EXCEPT ![Fader] = [IdleProc EXCEPT !.pc = pc, !.settling = slot]]
      BY <1>7 DEF CrossfadeEnds, Hold
    <3>2. proc'[Fader] = [IdleProc EXCEPT !.pc = pc, !.settling = slot]
      BY <1>1, <3>1
    <3>3. proc[Fader].pc = "idle"
      BY <1>7 DEF CrossfadeEnds, RampEnds, Ramping, At
    <3>4. QED  BY <3>2, <3>3 DEF IdleProc
  <2>3. /\ st.crossfading /\ Sounds(Spare) /\ slot.target = deck[Spare].entry
        /\ slot.target \in Rows /\ slot.evict # slot.target
    BY <1>1, <2>1 DEF DriverInv, IncomingInv, TargetInv
  <2>4. PrepareInv'
    <3>1. \A q \in Preparers : ~Preparing(q)
      BY <1>1, <2>3, NonePrepare
    <3>2. QED  BY <1>1, <1>2, <2>2, <3>1, NoneWillPrepare
  <2>5. SpareInv' /\ IncomingInv' /\ PauseInv'
    BY <2>1, <2>3, CrossfadeAssumption DEF SpareInv, IncomingInv, PauseInv
  <2>6. SettleInv'
    <3>1. \A q \in Settlers : q # Fader => proc'[q].pc \notin CommitPcs \cup {"abandon"}
      BY <1>2, <2>1, CrossfadeAssumption
      DEF LockInv, OnlyMoves, Settlers, Tasks, CommitPcs, HoldingPcs
    <3>2. Promotes(Fader)'
      BY <2>2 DEF Promotes
    <3>3. Rows' = Rows /\ Sounds(Spare)' /\ deck'[Spare].entry = slot.target
      BY <1>2, <2>1, <2>3 DEF Rows, Sounds, Same
    <3>4. QED  BY <1>2, <2>1, <2>2, <2>3, <3>1, <3>2, <3>3 DEF SettleInv, CommitPcs
  <2>7. TargetInv' /\ EndInv'
    BY <1>1, <1>2, <1>4, <2>1, TargetKept, EndKept DEF Same, Rows, EndInv
  <2>8. RowInv'
    BY <1>1, <1>2, <2>1, <2>2, RowKept DEF Same, OnlyMoves, Exempt
  <2>9. QED  BY <2>4, <2>5, <2>6, <2>7, <2>8 DEF DecksInv
<1>8. CASE SetBaseline \/ PauseTerminal \/ StopRestore
  <2>1. /\ slot.kind \in {"setBaseline", "pause", "stopRestore"} /\ slot'.kind = "none"
        /\ proc' = proc /\ proc[Fader].pc = "idle" /\ lock' = lock
    BY <1>8 DEF SetBaseline, PauseTerminal, StopRestore, RampEnds, Ramping, NoFade, At
  <2>2. ~st.crossfading
    BY <2>1 DEF DriverInv
  <2>3. /\ st'.crossfading = st.crossfading
        /\ ~StopRestore => st'.queue = st.queue /\ st'.current = st.current
    <3>1. CASE SetBaseline
      BY <3>1, VolumeTypes, VolumeKeeps DEF SetBaseline
    <3>2. CASE PauseTerminal
      BY <3>2 DEF PauseTerminal, HandlerState
    <3>3. CASE StopRestore
      <4> DEFINE u == SetManualVolume(st, FALSE)
                 s == [u EXCEPT !.pendingPause = FALSE]
      <4>1. u \in HandlerState /\ u.crossfading = st.crossfading
        BY VolumeTypes
      <4>2. s \in HandlerState /\ s.crossfading = st.crossfading
        BY <4>1 DEF HandlerState
      <4>3. st' = EvictQid(s, slot.evict)
        BY <3>3 DEF StopRestore
      <4> HIDE DEF s
      <4>4. QED  BY <3>3, <4>2, <4>3, EvictTypes
    <3>4. QED  BY <1>8, <3>1, <3>2, <3>3
  <2>4. /\ deck'[active].state # "Stopped" =>
             deck[active].state # "Stopped" /\ deck'[active].entry = deck[active].entry
        /\ deck[active].state = "Stopped" => deck'[active].state = "Stopped"
        /\ (NoEnds(ring) => NoEnds(ring')) /\ OneEnd(ring')
        /\ StopRestore => deck'[active].state = "Stopped"
    <3>1. CASE Same(active) /\ ring' = ring /\ ~StopRestore
      BY <1>1, <3>1 DEF Same
    <3>2. CASE /\ deck'[active].state = "Paused" /\ ~StopRestore
               /\ deck'[active].entry = deck[active].entry /\ deck[active].state # "Stopped"
               /\ ring' = ring \o <<Ev("Paused", deck[active].entry)>>
      BY <1>1, <3>2, NoEndSaid, DeckFields
    <3>3. CASE Silent(active) /\ ring' = ring \o <<Ev("Stopped", NoEntry)>>
      BY <1>1, <3>3, NoEndSaid DEF Silent, MaybeEntry
    <3>4. StopRestore => Silent(active) /\ ring' = ring \o <<Ev("Stopped", NoEntry)>>
      BY <1>1, StoppedHolds DEF StopRestore
    <3>5. ~Switch /\ (PauseTerminal => ~StopRestore)
      BY <2>1 DEF Switch, At, PauseTerminal, StopRestore, RampEnds
    <3>6. QED  BY <1>1, <3>1, <3>2, <3>3, <3>4, <3>5, FaderLeaves
  <2>5. PrepareInv' /\ SpareInv'
    BY <1>1, <1>2, <1>3, <2>3, SpareUntouched
  <2>6. IncomingInv' /\ PauseInv' /\ TargetInv'
    BY <2>1, <2>2, <2>3, NoneArrives DEF TargetInv
  <2>7. SettleInv'
    BY <1>1, <1>2, <2>1, <2>2, NoneSettles DEF CommitPcs
  <2>8. EndInv'
    BY <1>1, <1>2, <2>1, <2>4, EndKept
  <2>9. RowInv'
    <3>1. CASE StopRestore
      BY <1>2, <2>4, <3>1 DEF RowInv
    <3>2. CASE ~StopRestore
      BY <1>1, <1>2, <2>1, <2>3, <2>4, <3>2, RowKept
    <3>3. QED  BY <3>1, <3>2
  <2>10. QED  BY <2>5, <2>6, <2>7, <2>8, <2>9 DEF DecksInv
<1>9. CASE DipEnds
  <2>1. /\ Same(active) /\ ring' = ring /\ st' = st /\ slot' = slot /\ slot.kind = "skipLoad"
        /\ proc[Fader].pc = "idle" /\ proc'[Fader].pc = "switch"
    BY <1>1, <1>9 DEF DipEnds, RampEnds, Ramping, Hold, NoCommand, Same, At, IdleProc
  <2>2. ~st.crossfading
    BY <2>1 DEF DriverInv
  <2>3. PrepareInv' /\ SpareInv'
    BY <1>1, <1>2, <1>3, <2>1, SpareUntouched
  <2>4. IncomingInv' /\ PauseInv'
    BY <2>1, <2>2, NoneArrives
  <2>5. SettleInv'
    BY <1>1, <1>2, <2>1, <2>2, NoneSettles DEF CommitPcs
  <2>6. TargetInv' /\ EndInv'
    BY <1>1, <1>2, <1>4, <2>1, TargetKept, EndKept DEF Same, Rows, EndInv
  <2>7. RowInv'
    BY <1>1, <1>2, <2>1, RowKept DEF Same, OnlyMoves, Exempt
  <2>8. QED  BY <2>3, <2>4, <2>5, <2>6, <2>7 DEF DecksInv
<1>10. CASE Switch
  <2>1. /\ st' = st /\ slot' = slot /\ proc[Fader].pc = "switch" /\ proc'[Fader].pc = "swap"
        /\ Loaded(active, slot.target, deck[active].gain)
        /\ NoEnds(ring) /\ proc[Spine].pc \notin {"advance", "load"}
    BY <1>1, <1>10, GotoKeeps DEF Switch, At, EndIsPending, NoEnds, IsEnd
  <2>2. ~st.crossfading /\ slot.kind = "skipLoad"
    BY <2>1 DEF DriverInv
  <2>3. ring' = ring \o <<Ev("Playing", slot.target)>> /\ slot.target \in MaybeEntry
    BY <1>1, <2>1, LoadedHolds DEF Fade
  <2>4. NoEnds(ring') /\ OneEnd(ring')
    BY <1>1, <2>1, <2>3, NoEndSaid
  <2>5. PrepareInv' /\ SpareInv'
    BY <1>1, <1>2, <1>3, <2>1, SpareUntouched
  <2>6. IncomingInv' /\ PauseInv'
    BY <2>1, <2>2, NoneArrives
  <2>7. SettleInv'
    BY <1>1, <1>2, <2>1, <2>2, NoneSettles DEF CommitPcs
  <2>8. TargetInv'
    BY <1>1, <2>1, TargetKept DEF Rows
  <2>9. EndInv'
    <3>1. NoEnds(ring)' /\ OneEnd(ring)'
      BY <2>4 DEF NoEnds, OneEnd, IsEnd
    <3>2. QED  BY <1>4, <2>1, <3>1 DEF EndInv
  <2>10. RowInv'
    BY <2>1 DEF RowInv, At
  <2>11. QED  BY <2>5, <2>6, <2>7, <2>8, <2>9, <2>10 DEF DecksInv
<1>11. CASE Swap
  <2> DEFINE s == Follow(st, slot)
  <2>1. /\ deck' = deck /\ ring' = ring /\ slot'.kind = "setBaseline"
        /\ proc[Fader].pc = "swap" /\ proc'[Fader].pc = "idle"
        /\ deck[active].entry = slot.target
        /\ st' = [s EXCEPT !.pendingSkip = 0, !.fading = TRUE]
    BY <1>1, <1>11, DoneLeaves DEF Swap, At, NoCommand, NoFade, Slip
  <2>2. ~st.crossfading /\ slot.target \in Rows /\ slot.evict # slot.target
    BY <1>1, <2>1 DEF DriverInv, TargetInv
  <2>3. s \in HandlerState /\ s.crossfading = st.crossfading
    BY FollowTypes
  <2>4. s.current \in DOMAIN s.queue /\ s.queue[s.current] = slot.target
    BY <2>2, FollowFinds DEF Rows, RowsOf
  <2> HIDE DEF s
  <2>5. st'.crossfading = st.crossfading /\ st'.queue = s.queue /\ st'.current = s.current
    BY <2>1, <2>3 DEF HandlerState
  <2>6. PrepareInv' /\ SpareInv'
    BY <1>1, <1>2, <1>3, <2>5, SpareUntouched
  <2>7. IncomingInv' /\ PauseInv' /\ TargetInv'
    BY <2>1, <2>2, <2>5, NoneArrives DEF TargetInv
  <2>8. SettleInv'
    BY <1>1, <1>2, <2>1, <2>2, NoneSettles DEF CommitPcs
  <2>9. EndInv'
    BY <1>1, <1>2, <1>4, <2>1, EndKept DEF EndInv
  <2>10. RowInv'
    BY <1>2, <2>1, <2>4, <2>5 DEF RowInv, OnRow
  <2>11. QED  BY <2>6, <2>7, <2>8, <2>9, <2>10 DEF DecksInv
<1>12. QED  BY <1>6, <1>7, <1>8, <1>9, <1>10, <1>11 DEF FaderStep

-----------------------------------------------------------------------------
(* The spine, and the decks by themselves. *)

LEMMA SpineMoves ==
    ASSUME Types, SpineStep
    PROVE  /\ OnlyMoves(Spine) /\ UNCHANGED <<active, slot, lock, slips>>
           /\ \/ st' = st
              \/ Advance /\ st' = [st EXCEPT !.current = 0, !.pendingPause = FALSE]
           /\ \/ proc' = proc /\ proc[Spine].pc = "idle"
              \/ /\ proc[Spine].pc = "idle" /\ proc'[Spine].pc = "advance" /\ ReadEof
                 /\ proc'[Spine].act = "none"
              \/ /\ proc[Spine].pc = "idle" /\ proc'[Spine].pc = "mute"
                 /\ proc'[Spine].item \in Entry /\ proc'[Spine].gone = NoEntry
              \/ Advance /\ proc[Spine].pc = "advance" /\ proc'[Spine].pc = "advanced"
                 /\ proc'[Spine].item = proc[Spine].item /\ proc'[Spine].gone = proc[Spine].gone
              \/ Advance /\ proc[Spine].pc = "advance" /\ proc'[Spine].pc = "load"
                 /\ proc'[Spine].item \in Entry
              \/ AdvanceLoads /\ proc[Spine].pc = "load" /\ proc'[Spine].pc \in {"commit", "advanced"}
                 /\ proc'[Spine].item = proc[Spine].item /\ proc'[Spine].gone = proc[Spine].gone
              \/ AdvanceReturns /\ proc[Spine].pc = "advanced" /\ proc'[Spine].pc = "idle"
                 /\ proc'[Spine].act = "none"
<1> USE DEF Types
<1>1. Spine \in Tasks /\ st.queue \in Seq(Entry)
  BY DEF Tasks, HandlerState
<1>2. CASE ReadPlaying \/ ReadPaused \/ ReadStopped \/ ReadCrossfadedEof
  BY <1>2 DEF ReadPlaying, ReadPaused, ReadStopped, ReadCrossfadedEof, Reads, At, OnlyMoves
<1>3. CASE ReadEof
  BY <1>1, <1>3 DEF ReadEof, Reads, At, OnlyMoves, IdleProc
<1>4. CASE ReadTimePos
  <2>1. CASE proc' = proc
    BY <1>4, <2>1 DEF ReadTimePos, Reads, At, OnlyMoves
  <2>2. CASE /\ AtBoundary(Head(ring).entry, Head(ring).place)
             /\ Start(Spine, "mute", "none", st.current + 1, NoEntry)
    <3>1. /\ OnlyMoves(Spine) /\ proc'[Spine].pc = "mute" /\ proc'[Spine].gone = NoEntry
          /\ proc'[Spine].item = EntryAt(st.current + 1)
      BY <1>1, <2>2, StartSets
    <3>2. st.current + 1 \in DOMAIN st.queue
      BY <2>2 DEF AtBoundary
    <3>3. EntryAt(st.current + 1) \in Entry
      BY <1>1, <3>2 DEF EntryAt
    <3>4. QED  BY <1>4, <3>1, <3>3 DEF ReadTimePos, Reads, At
  <2>3. QED  BY <1>4, <2>1, <2>2 DEF ReadTimePos
<1>5. CASE Advance
  <2> DEFINE next == st.current + 1
  <2>1. CASE Goto(Spine, "advanced")
    BY <1>1, <1>5, <2>1, GotoKeeps DEF Advance, At
  <2>2. CASE /\ next \in DOMAIN st.queue /\ st' = st
             /\ proc' = [proc EXCEPT ![Spine].pc = "load", ![Spine].idx = next,
                                     ![Spine].item = EntryAt(next)]
    <3>1. EntryAt(next) \in Entry
      BY <1>1, <2>2 DEF EntryAt
    <3>2. /\ OnlyMoves(Spine) /\ proc'[Spine].pc = "load" /\ proc'[Spine].item = EntryAt(next)
      BY <1>1, <2>2 DEF OnlyMoves, Proc
    <3>3. QED  BY <1>5, <2>2, <3>1, <3>2 DEF Advance, At
  <2>3. QED  BY <1>5, <2>1, <2>2 DEF Advance
<1>6. CASE AdvanceLoads
  BY <1>1, <1>6, GotoKeeps DEF AdvanceLoads, At
<1>7. CASE AdvanceReturns
  BY <1>1, <1>7, DoneLeaves DEF AdvanceReturns, At
<1>8. QED  BY <1>2, <1>3, <1>4, <1>5, <1>6, <1>7 DEF SpineStep

\* What it reads, and what it loads.
LEMMA SpineLeaves ==
    ASSUME Types, SpineStep
    PROVE  \/ AdvanceLoads /\ Loaded(active, proc[Spine].item, deck[active].gain)
              /\ proc'[Spine].pc = "commit"
           \/ /\ deck' = deck
              /\ ring' = ring \/ (ring # << >> /\ ring' = Tail(ring))
              /\ ReadEof => ring # << >> /\ IsEnd(Head(ring)) /\ ring' = Tail(ring)
<1> USE DEF Types
<1>1. Spine \in Tasks
  BY DEF Tasks
<1>2. CASE ReadPlaying \/ ReadPaused \/ ReadStopped \/ ReadCrossfadedEof \/ ReadEof \/ ReadTimePos
  BY <1>2 DEF ReadPlaying, ReadPaused, ReadStopped, ReadCrossfadedEof, ReadEof, ReadTimePos,
              Reads, IsEnd
<1>3. CASE Advance \/ AdvanceReturns
  <2>1. deck' = deck /\ ring' = ring /\ ~ReadEof
    BY <1>3 DEF Advance, AdvanceReturns, NoCommand, ReadEof, Reads, At
  <2>2. QED  BY <2>1
<1>4. CASE AdvanceLoads
  <2>1. ~ReadEof
    BY <1>4 DEF AdvanceLoads, ReadEof, Reads, At
  <2>2. CASE Loaded(active, proc[Spine].item, deck[active].gain) /\ Goto(Spine, "commit")
    BY <1>1, <1>4, <2>2, GotoKeeps
  <2>3. CASE NoCommand
    BY <2>1, <2>3 DEF NoCommand
  <2>4. QED  BY <1>4, <2>2, <2>3 DEF AdvanceLoads
<1>5. QED  BY <1>2, <1>3, <1>4 DEF SpineStep

LEMMA SpineAlways ==
    ASSUME Types, LockInv, AlwaysInv, SpineStep
    PROVE  AlwaysInv'
<1> USE DEF Types
<1>1. /\ active \in Deck /\ AimInv /\ HoldInv /\ UniqueInv /\ GainInv /\ Spine \in Tasks
      /\ Spine \notin Client /\ Spine # Fader /\ NoEntry \notin Entry
  BY CrossfadeAssumption DEF AlwaysInv, Tasks
<1>2. OnlyMoves(Spine) /\ UNCHANGED <<active, slot>> /\ st'.queue = st.queue
  BY SpineMoves DEF HandlerState
<1>3. AimInv'
  <2>1. CASE proc' = proc
    BY <1>1, <2>1, AimElsewhere
  <2>2. CASE proc'[Spine].pc \in {"advance", "idle"} /\ proc'[Spine].act = "none"
    BY <1>1, <1>2, <2>2, AimSet
  <2>3. CASE proc'[Spine].item \in Entry /\ proc'[Spine].gone = NoEntry
    BY <1>1, <1>2, <2>3, AimSet
  <2>4. CASE proc'[Spine].item \in Entry /\ proc'[Spine].pc = "load"
    BY <1>1, <1>2, <2>4, AimSet
  <2>5. CASE \/ proc'[Spine].pc = "advanced"
             \/ /\ proc[Spine].pc = "load" /\ proc'[Spine].pc = "commit"
                /\ proc'[Spine].item = proc[Spine].item /\ proc'[Spine].gone = proc[Spine].gone
    BY <1>1, <1>2, <2>5 DEF AimInv, OnlyMoves, Preparers, Tasks
  <2>6. QED  BY <1>1, <2>1, <2>2, <2>3, <2>4, <2>5, SpineMoves
<1>4. HoldInv' /\ deck'[active].gain = deck[active].gain
  <2>1. CASE Loaded(active, proc[Spine].item, deck[active].gain)
    <3>1. /\ deck'[active].state # "Stopped" /\ Others(active)
          /\ deck'[active].gain = deck[active].gain
      BY <1>1, <2>1, LoadedHolds DEF Plays
    <3>2. QED  BY <1>1, <3>1, HoldKept
  <2>2. CASE deck' = deck
    BY <1>1, <2>2 DEF HoldInv
  <2>3. QED  BY <2>1, <2>2, SpineLeaves
<1>5. UniqueInv' /\ GainInv'
  <2>1. proc'[Spine].pc \notin {"release", "wake"}
    BY SpineMoves
  <2>2. QED  BY <1>1, <1>2, <1>4, <2>1, UniqueKept, GainKept
<1>6. QED  BY <1>3, <1>4, <1>5 DEF AlwaysInv

LEMMA SpineDecks ==
    ASSUME Types, LockInv, DriverInv, AlwaysInv, DecksInv, SpineStep, slips' = {}
    PROVE  DecksInv'
<1> USE DEF Types
<1>1. /\ active \in Deck /\ Spare \in Deck /\ Spare # active /\ Spine \in Tasks
      /\ Spine \notin Client /\ Spine # Fader /\ st \in HandlerState
      /\ PrepareInv /\ SpareInv /\ IncomingInv /\ PauseInv /\ SettleInv /\ TargetInv
      /\ EndInv /\ RowInv /\ OneEnd(ring)
  BY SpareIsOther, CrossfadeAssumption DEF Tasks, DecksInv, EndInv
<1>2. /\ OnlyMoves(Spine) /\ UNCHANGED <<active, slot, lock>> /\ Spare' = Spare
      /\ st'.queue = st.queue /\ st'.pendingSkip = st.pendingSkip /\ st'.evict = st.evict
      /\ st'.crossfading = st.crossfading
  BY <1>1, SpineMoves, SpareStays DEF HandlerState
<1>3. /\ ~Preparing(Spine) /\ ~Preparing(Spine)'
      /\ proc[Spine].pc \notin Exempt
  BY SpineMoves DEF Preparing, Exempt
<1>4. \A p \in Client \cup {Fader} : proc'[p] = proc[p]
  BY <1>1, <1>2 DEF OnlyMoves, Tasks
<1> DEFINE loads == Loaded(active, proc[Spine].item, deck[active].gain)
<1>5. CASE AdvanceLoads /\ loads /\ proc'[Spine].pc = "commit"
  <2>1. /\ Plays(active, proc[Spine].item) /\ Others(active)
        /\ ring' = ring \o <<Ev("Playing", proc[Spine].item)>>
    BY <1>1, <1>5, LoadedHolds
  <2>2. Same(Spare) /\ st' = st /\ proc[Spine].pc = "load" /\ At(Spine, "commit")'
    BY <1>1, <1>5, <2>1 DEF Others, Same, AdvanceLoads, At
  <2>3. PrepareInv' /\ SpareInv'
    BY <1>1, <1>2, <1>3, <2>2, SpareUntouched
  <2>4. IncomingInv'
    <3>1. EntryAt(st.pendingSkip)' = EntryAt(st.pendingSkip)
      BY <2>2 DEF EntryAt
    <3>2. QED  BY <1>1, <1>2, <2>2, <3>1, IncomingKept
  <2>5. PauseInv'
    BY <1>1, <1>2, <1>4, PauseKept
  <2>6. SettleInv'
    <3>1. \A p \in Settlers : proc'[p] = proc[p]
      BY <1>4 DEF Settlers
    <3>2. Rows' = Rows
      BY <2>2 DEF Rows
    <3>3. QED  BY <1>1, <1>2, <2>2, <3>1, <3>2, SettleKept
  <2>7. TargetInv'
    BY <1>1, <1>2, <2>2, TargetKept DEF Rows
  <2>8. EndInv'
    <3>1. NoEnds(ring)
      BY <1>1, <2>2 DEF EndInv
    <3>2. proc[Spine].item \in MaybeEntry
      BY <1>1 DEF Proc
    <3>3. NoEnds(ring') /\ OneEnd(ring')
      BY <1>1, <2>1, <3>1, <3>2, NoEndSaid
    <3>4. NoEnds(ring)' /\ OneEnd(ring)'
      BY <3>3 DEF NoEnds, OneEnd, IsEnd
    <3>5. QED  BY <1>5, <3>4 DEF EndInv
  <2>9. RowInv'
    BY <2>2 DEF RowInv, Preparers
  <2>10. QED  BY <2>3, <2>4, <2>5, <2>6, <2>7, <2>8, <2>9 DEF DecksInv
<1>6. CASE /\ deck' = deck
           /\ ring' = ring \/ (ring # << >> /\ ring' = Tail(ring))
           /\ ReadEof => ring # << >> /\ IsEnd(Head(ring)) /\ ring' = Tail(ring)
  <2>1. Same(Spare) /\ Same(active)
    BY <1>6 DEF Same
  <2>2. PrepareInv' /\ SpareInv'
    BY <1>1, <1>2, <1>3, <2>1, SpareUntouched
  <2>3. IncomingInv'
    <3>1. EntryAt(st.pendingSkip)' = EntryAt(st.pendingSkip)
      BY <1>2 DEF EntryAt
    <3>2. QED  BY <1>1, <1>2, <2>1, <3>1, IncomingKept
  <2>4. PauseInv'
    BY <1>1, <1>2, <1>4, PauseKept
  <2>5. SettleInv'
    <3>1. \A p \in Settlers : proc'[p] = proc[p]
      BY <1>4 DEF Settlers
    <3>2. Rows' = Rows
      BY <1>2 DEF Rows
    <3>3. ~At(Spine, "commit")
      BY <1>3 DEF At, Exempt
    <3>4. QED  BY <1>1, <1>2, <2>1, <3>1, <3>2, <3>3, SettleKept DEF Same
  <2>6. TargetInv'
    BY <1>1, <1>2, TargetKept DEF Rows
  <2>7. (NoEnds(ring) => NoEnds(ring')) /\ OneEnd(ring')
    BY <1>1, <1>6, EndsRead
  <2>8. EndInv'
    <3>1. ASSUME ReadEof PROVE deck[active].state = "Stopped" /\ NoEnds(ring')
      <4>1. ring # << >> /\ IsEnd(Head(ring)) /\ ring' = Tail(ring)
        BY <1>6, <3>1
      <4>2. ~NoEnds(ring)
        <5>1. 1 \in DOMAIN ring /\ Head(ring) = ring[1]
          BY <4>1
        <5>2. QED  BY <4>1, <5>1 DEF NoEnds
      <4>3. NoEnds(ring')
        BY <1>1, <4>1, EndsRead
      <4>4. QED  BY <1>1, <4>2, <4>3 DEF EndInv
    <3>2. proc'[Spine].pc \in {"advance", "load"} =>
             deck[active].state = "Stopped" /\ NoEnds(ring')
      BY <1>1, <2>7, <3>1, SpineMoves DEF EndInv
    <3>3. ~NoEnds(ring') => deck[active].state = "Stopped"
      BY <1>1, <2>7 DEF EndInv
    <3>4. (NoEnds(ring)' <=> NoEnds(ring')) /\ OneEnd(ring)'
      BY <2>7 DEF NoEnds, OneEnd, IsEnd
    <3>5. QED  BY <1>2, <1>6, <3>2, <3>3, <3>4 DEF EndInv
  <2>9. RowInv'
    <3>1. CASE st' = st
      BY <1>1, <1>2, <1>3, <2>1, <3>1, RowKept DEF Same, OnlyMoves
    <3>2. CASE Advance
      <4>1. deck[active].state = "Stopped"
        BY <1>1, <3>2 DEF Advance, At, EndInv
      <4>2. QED  BY <1>2, <1>6, <4>1 DEF RowInv
    <3>3. QED  BY <3>1, <3>2, SpineMoves
  <2>10. QED  BY <2>2, <2>3, <2>4, <2>5, <2>6, <2>8, <2>9 DEF DecksInv
<1>7. QED  BY <1>5, <1>6, SpineLeaves

\* A deck that reports its position, or comes to the end of what it plays.
LEMMA EndLeaves ==
    ASSUME Types, NEW d \in Deck, End(d)
    PROVE  /\ deck[d].state = "Playing" /\ Silent(d) /\ Others(d)
           /\ deck'[d].gain = deck[d].gain
           /\ \/ ring' = ring \o <<Ev("Stopped", NoEntry)>>
              \/ ring' = (ring \o <<Ev("Eof", deck[d].entry)>>) \o <<Ev("Stopped", NoEntry)>>
<1> USE DEF Types
<1> DEFINE e == deck[d].entry
           new == [deck[d] EXCEPT !.entry = NoEntry, !.state = "Stopped", !.place = 0]
<1>1. deck[d] \in DeckState
  OBVIOUS
<1>2. new.entry = NoEntry /\ new.state = "Stopped" /\ new.gain = deck[d].gain
  BY <1>1 DEF DeckState
<1>3. deck' = [deck EXCEPT ![d] = new] /\ deck[d].state = "Playing"
  BY DEF End, Tell
<1>4. ring' = ring \o ((IF e = NoEntry THEN << >> ELSE <<Ev("Eof", e)>>) \o <<Ev("Stopped", NoEntry)>>)
  BY DEF End, Tell
<1> HIDE DEF new
<1>5. deck'[d] = new /\ Others(d)
  BY <1>3 DEF Others
<1>6. Ev("Stopped", NoEntry) \in Event /\ Ev("Eof", e) \in Event /\ ring \in Seq(Event)
  BY EventTypes, DeckFields DEF MaybeEntry
<1> HIDE DEF e
<1> DEFINE stopped == Ev("Stopped", NoEntry)  eof == Ev("Eof", e)
<1>7. stopped \in Event /\ eof \in Event
  BY <1>6
<1> HIDE DEF stopped, eof
<1>8. << >> \o <<stopped>> = <<stopped>>
      /\ ring \o (<<eof>> \o <<stopped>>) = (ring \o <<eof>>) \o <<stopped>>
  BY <1>6, <1>7
<1>9. \/ ring' = ring \o <<stopped>>
      \/ ring' = (ring \o <<eof>>) \o <<stopped>>
  <2>1. CASE e = NoEntry
    BY <1>4, <1>8, <2>1 DEF stopped
  <2>2. CASE e # NoEntry
    BY <1>4, <1>8, <2>2 DEF stopped, eof
  <2>3. QED  BY <2>1, <2>2
<1>10. QED  BY <1>2, <1>3, <1>5, <1>9 DEF Silent, stopped, eof, e

LEMMA TickLeaves ==
    ASSUME Types, NEW d \in Deck, Tick(d)
    PROVE  /\ \A o \in Deck : Same(o) /\ SameGain(o)
           /\ OneEnd(ring) => OneEnd(ring')
           /\ NoEnds(ring) <=> NoEnds(ring')
<1> USE DEF Types
<1>1. PICK place \in Ticks :
        /\ deck' = [deck EXCEPT ![d].place = place]
        /\ ring' = Append(ring, [Ev("TimePos", deck[d].entry) EXCEPT !.place = place])
  BY DEF Tick
<1>2. \A o \in Deck : Same(o) /\ SameGain(o)
  BY <1>1 DEF Same, SameGain, DeckState
<1> DEFINE e == [Ev("TimePos", deck[d].entry) EXCEPT !.place = place]
<1>3. e \in Event /\ ~IsEnd(e)
  <2>1. place \in S!Places
    BY CrossfadeAssumption DEF S!Places
  <2>2. QED  BY <2>1, EventTypes, DeckFields DEF Event, Ev, IsEnd
<1>4. ring' = Append(ring, e)
  BY <1>1
<1> HIDE DEF e
<1>5. ring' = ring \o <<e>>
  BY <1>3, <1>4
<1>6. (OneEnd(ring) => OneEnd(ring')) /\ (NoEnds(ring) <=> NoEnds(ring'))
  BY <1>3, <1>5, EndsAppended
<1>7. QED  BY <1>2, <1>6

\* A step that moves nobody and leaves the decks as they are.
LEMMA NothingMoves ==
    ASSUME DecksInv, active \in Deck, UNCHANGED <<active, st, slot, lock, proc>>,
           \A d \in Deck : Same(d), NoEnds(ring) <=> NoEnds(ring'), OneEnd(ring')
    PROVE  DecksInv'
<1>1. /\ Spare \in Deck /\ Same(Spare) /\ Same(active)
      /\ PrepareInv /\ SpareInv /\ IncomingInv /\ PauseInv /\ SettleInv /\ TargetInv
      /\ EndInv /\ RowInv
  BY SpareIsOther DEF DecksInv
<1>2. PrepareInv' /\ SpareInv'
  BY <1>1, PrepareKept, SpareKept DEF Preparing, Same, Sounds
<1>3. IncomingInv' /\ PauseInv'
  <2>1. EntryAt(st.pendingSkip)' = EntryAt(st.pendingSkip)
    BY DEF EntryAt
  <2>2. QED  BY <1>1, <2>1, IncomingKept, PauseKept
<1>4. SettleInv'
  <2>1. Rows' = Rows /\ (At(Spine, "commit") => At(Spine, "commit")')
    BY DEF Rows, At
  <2>2. QED  BY <1>1, <2>1, SettleKept DEF Same
<1>5. TargetInv' /\ EndInv' /\ RowInv'
  BY <1>1, TargetKept, EndKept, RowKept DEF Same, Rows
<1>6. QED  BY <1>2, <1>3, <1>4, <1>5 DEF DecksInv

LEMMA DeckStepAlways ==
    ASSUME Types, AlwaysInv, NEW d \in Deck, Tick(d) \/ End(d)
    PROVE  AlwaysInv'
<1> USE DEF Types
<1>1. active \in Deck /\ AimInv /\ HoldInv /\ UniqueInv /\ GainInv
  BY DEF AlwaysInv
<1>2. UNCHANGED <<active, st, slot, proc>>
  BY DEF Tick, End
<1>3. HoldInv' /\ deck'[active].gain = deck[active].gain
  <2>1. CASE Tick(d)
    BY <1>1, <2>1, TickLeaves DEF HoldInv, Same, SameGain
  <2>2. CASE End(d)
    BY <1>1, <2>2, EndLeaves, HoldKept DEF Others
  <2>3. QED  BY <2>1, <2>2
<1>4. AimInv' /\ UniqueInv'
  BY <1>1, <1>2, AimElsewhere, UniqueKept
<1>5. GainInv'
  BY <1>1, <1>2, <1>3 DEF GainInv, Owes
<1>6. QED  BY <1>3, <1>4, <1>5 DEF AlwaysInv

LEMMA DeckStepDecks ==
    ASSUME Types, DecksInv, NEW d \in Deck, Tick(d) \/ End(d), slips' = {}
    PROVE  DecksInv'
<1> USE DEF Types
<1>1. /\ active \in Deck /\ Spare \in Deck /\ Spare # active
      /\ PrepareInv /\ SpareInv /\ IncomingInv /\ PauseInv /\ SettleInv /\ TargetInv
      /\ EndInv /\ RowInv /\ OneEnd(ring)
  BY SpareIsOther DEF DecksInv, EndInv
<1>2. UNCHANGED <<active, st, slot, lock, proc>> /\ Spare' = Spare
  BY SpareStays DEF Tick, End
<1>3. CASE Tick(d)
  BY <1>1, <1>2, <1>3, TickLeaves, NothingMoves
<1>4. CASE End(d)
  <2>1. d = active
    BY <1>4 DEF End, Slip
  <2>2. /\ deck[active].state = "Playing" /\ Silent(active) /\ Same(Spare)
    BY <1>1, <1>4, <2>1, EndLeaves DEF Others, Same
  <2>3. deck'[active].state = "Stopped"
    BY <2>2 DEF Silent
  <2>4. PrepareInv' /\ SpareInv'
    BY <1>1, <1>2, <2>2, PrepareKept, SpareKept DEF Preparing, Same, Sounds
  <2>5. IncomingInv' /\ PauseInv' /\ TargetInv'
    <3>1. EntryAt(st.pendingSkip)' = EntryAt(st.pendingSkip)
      BY <1>2 DEF EntryAt
    <3>2. QED  BY <1>1, <1>2, <2>2, <3>1, IncomingKept, PauseKept, TargetKept DEF Rows
  <2>6. SettleInv'
    <3>1. Rows' = Rows /\ (At(Spine, "commit") => At(Spine, "commit")')
      BY <1>2 DEF Rows, At
    <3>2. QED  BY <1>1, <1>2, <2>2, <2>3, <3>1, SettleKept
  <2>7. EndInv'
    <3>1. NoEnds(ring) /\ proc[Spine].pc \notin {"advance", "load"}
      BY <1>1, <2>2 DEF EndInv
    <3>2. OneEnd(ring')
      <4> DEFINE eof == Ev("Eof", deck[active].entry)  stopped == Ev("Stopped", NoEntry)
      <4>1. eof \in Event /\ stopped \in Event /\ ~IsEnd(stopped)
        BY <1>1, EventTypes, DeckFields DEF MaybeEntry, IsEnd, Ev
      <4>2. ring' = ring \o <<stopped>> \/ ring' = (ring \o <<eof>>) \o <<stopped>>
        BY <1>1, <1>4, <2>1, EndLeaves
      <4> HIDE DEF eof, stopped
      <4>3. OneEnd(ring \o <<eof>>) /\ ring \o <<eof>> \in Seq(Event)
        BY <3>1, <4>1, EndsAppended
      <4>4. OneEnd((ring \o <<eof>>) \o <<stopped>>)
        BY <4>1, <4>3, EndsAppended
      <4>5. OneEnd(ring \o <<stopped>>)
        BY <1>1, <4>1, EndsAppended
      <4>6. QED  BY <4>2, <4>4, <4>5
    <3>3. OneEnd(ring)'
      BY <3>2 DEF OneEnd, IsEnd
    <3>4. QED  BY <1>2, <2>3, <3>1, <3>3 DEF EndInv
  <2>8. RowInv'
    BY <1>2, <2>3 DEF RowInv
  <2>9. QED  BY <2>4, <2>5, <2>6, <2>7, <2>8 DEF DecksInv
<1>5. QED  BY <1>3, <1>4
-----------------------------------------------------------------------------
(* The invariant, and the properties. *)

LEMMA TransitionStarts == ASSUME CrossfadeInit PROVE TransitionInv
<1>1. /\ \A p \in Tasks : proc[p] = IdleProc
      /\ \A d \in Deck : deck[d].state = "Stopped" /\ deck[d].entry = NoEntry
                         /\ deck[d].gain = "baseline"
      /\ ~st.crossfading /\ slot.kind = "none" /\ ring = << >> /\ st.queue = InitQueue
      /\ active \in Deck /\ Spare \in Deck
  <2>1. active \in Deck
    BY CrossfadeAssumption DEF CrossfadeInit, Deck0
  <2>2. QED  BY <2>1, SpareIsOther DEF CrossfadeInit, Tasks, NoFade
<1>2. \A p \in Tasks : proc[p].pc = "idle" /\ proc[p].act = "none"
  BY <1>1 DEF IdleProc
<1>3. Preparers \subseteq Tasks /\ Settlers \subseteq Tasks /\ Client \subseteq Tasks
      /\ Spine \in Tasks /\ Fader \in Tasks
  BY DEF Preparers, Settlers, Tasks
<1>4. AlwaysInv
  <2>1. AimInv /\ GainInv
    BY <1>1, <1>2, <1>3 DEF AimInv, GainInv
  <2>2. HoldInv /\ UniqueInv
    BY <1>1, CrossfadeAssumption DEF HoldInv, UniqueInv
  <2>3. QED  BY <2>1, <2>2 DEF AlwaysInv
<1>5. DecksInv
  <2>1. PrepareInv /\ SpareInv /\ IncomingInv /\ PauseInv /\ TargetInv /\ RowInv
    BY <1>1, <1>2, <1>3
    DEF PrepareInv, Preparing, SpareInv, Sounds, IncomingInv, PauseInv, TargetInv, RowInv
  <2>2. SettleInv
    BY <1>2, <1>3 DEF SettleInv, CommitPcs
  <2>3. EndInv
    <3>1. DOMAIN ring = {}
      BY <1>1
    <3>2. QED  BY <1>2, <1>3, <3>1 DEF EndInv, NoEnds, OneEnd
  <2>4. QED  BY <2>1, <2>2, <2>3 DEF DecksInv
<1>6. QED  BY <1>4, <1>5 DEF TransitionInv

\* No step takes a slip back.
LEMMA SlipsStay ==
    ASSUME [CrossfadeNext]_vars, slips' = {} PROVE slips = {}
<1>1. CASE UNCHANGED vars
  BY <1>1 DEF vars
<1>2. CASE \E c \in Client : Gesture(c)
  BY <1>2 DEF Gesture, Skip, Play, StopPlayback, Clear, SetVol, Delete, Pause, Resume, Begins
<1>3. CASE \E c \in Client : ClientStep(c)
  BY <1>3 DEF ClientStep, Settle, Abandon, Aim, TakeSkipLoad, TakeFade, TakeNothing, Load, LoadAt,
              Halt, Evict, Release, Wake, Slip, Slips
<1>4. CASE \E p \in Client \cup {Spine} : ArmStep(p)
  BY <1>4 DEF ArmStep, Mute, Arm, Retreat, Install, Commit, Slip, Slips
<1>5. CASE \E p \in Client \cup {Fader} : CommitStep(p)
  BY <1>5 DEF CommitStep, Attribute, Promote, Silence, Land, Landed, Slip
<1>6. CASE FaderStep
  BY <1>6 DEF FaderStep, RampMoves, CrossfadeEnds, SetBaseline, PauseTerminal, StopRestore,
              DipEnds, Switch, Swap, Slip
<1>7. CASE SpineStep
  BY <1>7 DEF SpineStep, ReadPlaying, ReadPaused, ReadStopped, ReadCrossfadedEof, ReadEof,
              ReadTimePos, Reads, Advance, AdvanceLoads, AdvanceReturns
<1>8. CASE DurationArrives \/ \E d \in Deck : Tick(d) \/ End(d)
  BY <1>8 DEF DurationArrives, Tick, End, Slip
<1>9. QED
  BY <1>1, <1>2, <1>3, <1>4, <1>5, <1>6, <1>7, <1>8 DEF CrossfadeNext

LEMMA TransitionSteps ==
    ASSUME Types, LockInv, SlotInv, TransitionInv, [CrossfadeNext]_vars
    PROVE  TransitionInv'
<1>1. AlwaysInv /\ active \in Deck
  BY DEF TransitionInv, Types
<1>2. ASSUME slips' = {} PROVE DriverInv /\ DecksInv
  BY <1>2, SlipsStay DEF SlotInv, TransitionInv
<1>3. CASE UNCHANGED vars \/ DurationArrives
  <2>1. UNCHANGED <<deck, active, st, slot, lock, proc, ring, slips>>
    BY <1>3 DEF vars, DurationArrives
  <2>2. AlwaysInv'
    BY <1>1, <2>1 DEF AlwaysInv, AimInv, HoldInv, UniqueInv, GainInv, Owes
  <2>3. ASSUME slips' = {} PROVE DecksInv'
    <3>1. DecksInv /\ OneEnd(ring')
      BY <1>2, <2>1, <2>3 DEF DecksInv, EndInv
    <3>2. QED  BY <1>1, <2>1, <3>1, NothingMoves DEF Same
  <2>4. QED  BY <2>2, <2>3 DEF TransitionInv
<1>4. CASE \E c \in Client : Gesture(c)
  BY <1>1, <1>2, <1>4, GestureAlways, GestureDecks DEF TransitionInv
<1>5. CASE \E c \in Client : ClientStep(c)
  BY <1>1, <1>2, <1>5, ClientStepAlways, ClientStepDecks DEF TransitionInv
<1>6. CASE \E p \in Client \cup {Spine} : ArmStep(p)
  BY <1>1, <1>2, <1>6, ArmStepAlways, ArmStepDecks DEF TransitionInv, Preparers
<1>7. CASE \E p \in Client \cup {Fader} : CommitStep(p)
  BY <1>1, <1>2, <1>7, CommitStepAlways, CommitStepDecks DEF TransitionInv, Settlers
<1>8. CASE FaderStep
  BY <1>1, <1>2, <1>8, FaderAlways, FaderDecks DEF TransitionInv
<1>9. CASE SpineStep
  BY <1>1, <1>2, <1>9, SpineAlways, SpineDecks DEF TransitionInv
<1>10. CASE \E d \in Deck : Tick(d) \/ End(d)
  BY <1>1, <1>2, <1>10, DeckStepAlways, DeckStepDecks DEF TransitionInv
<1>11. QED
  BY <1>3, <1>4, <1>5, <1>6, <1>7, <1>8, <1>9, <1>10 DEF CrossfadeNext

\* What the decks hold, who is to load what, and whom a gain is owed to, at
\* every step of every transition (handler.rs, start_crossfade to the tail of
\* crossfade_commit): the invariant the properties below follow from.
THEOREM TransitionHolds == CrossfadeSpec => []TransitionInv
<1>1. CrossfadeInit => TransitionInv
  BY TransitionStarts
<1>2. CrossfadeTypeOK /\ SlotInv /\ TransitionInv /\ [CrossfadeNext]_vars => TransitionInv'
  BY TypesUnfold, TransitionSteps
<1>3. QED  BY <1>1, <1>2, CrossfadeTypes, SlotHolds, PTL DEF CrossfadeSpec

\* With nothing slipped and nobody at work, only a crossfade's own deck plays
\* beside the active one: every way out of a crossfade (crossfade_commit,
\* crossfade_abort, the retreat of a refused arming) silences the right deck.
THEOREM SpareStaysQuiet == CrossfadeSpec => []SpareIsQuiet
<1>1. TransitionInv => SpareIsQuiet
  <2>1. ASSUME TransitionInv, Undisturbed, ~st.crossfading, Sounds(Spare) PROVE FALSE
    <3>1. \A p \in Preparers : proc[p].pc = "idle"
      BY <2>1 DEF Undisturbed, NobodyActs, At, Preparers
    <3>2. QED  BY <2>1, <3>1 DEF TransitionInv, Undisturbed, DecksInv, SpareInv
  <2>2. QED  BY <2>1 DEF SpareIsQuiet
<1>2. QED  BY <1>1, TransitionHolds, PTL

\* At rest the deck that sounds holds the row the queue is on: the promotion
\* finds the row by its id after the eviction, whatever was deleted meanwhile
\* (handler.rs, crossfade_commit and the swap at the foot of the dip).
THEOREM RoomHearsItsRow == CrossfadeSpec => []RoomHearsTheRow
<1>1. TransitionInv => RoomHearsTheRow
  <2>1. ASSUME TransitionInv, AtRest, Sounds(active)
        PROVE  OnRow /\ EntryAt(st.current) = deck[active].entry
    <3>1. \A p \in Tasks : proc[p].pc = "idle"
      BY <2>1 DEF AtRest, Undisturbed, NobodyActs, At, Tasks
    <3>2. RowInv /\ deck[active].state # "Stopped"
      BY <2>1 DEF TransitionInv, AtRest, Undisturbed, DecksInv, Sounds
    <3>3. OnRow /\ st.queue[st.current] = deck[active].entry
      BY <3>1, <3>2 DEF RowInv, At, Preparers, Settlers, Tasks
    <3>4. QED  BY <3>3 DEF OnRow, EntryAt
  <2>2. QED  BY <2>1 DEF RoomHearsTheRow
<1>2. QED  BY <1>1, TransitionHolds, PTL

\* With nobody at work and no fade in the slot, a deck that sounds is at the
\* baseline: whoever takes the gain from a fade (set_manual_volume, the dips,
\* the wake of a paused deck) owes it until it has brought it back.
THEOREM GainComesBack == CrossfadeSpec => []AudibleAtRest
<1>1. TransitionInv => AudibleAtRest
  <2>1. ASSUME TransitionInv, NobodyActs, slot.kind = "none", deck[active].gain # "baseline"
        PROVE  FALSE
    <3>1. PICK c \in Client : Owes(c)
      BY <2>1 DEF TransitionInv, AlwaysInv, GainInv
    <3>2. proc[c].pc = "idle"
      BY <2>1 DEF NobodyActs, At
    <3>3. QED  BY <3>1, <3>2 DEF Owes, CommitPcs
  <2>2. QED  BY <2>1 DEF AudibleAtRest
<1>2. QED  BY <1>1, TransitionHolds, PTL

\* While a crossfade is in the slot, the row reported, the deck that is coming
\* and the task's own target are one entry, through edits of the queue, unless
\* a pause has taken the report back and is about to settle (handler.rs,
\* pending_skip).
THEOREM ReportIsIncoming == CrossfadeSpec => []ReportNamesIncoming
<1>1. CrossfadeTypeOK /\ SlotInv /\ TransitionInv => ReportNamesIncoming
  <2>1. ASSUME Types, LockInv, SlotInv, TransitionInv, Undisturbed, slot.kind = "crossfade"
        PROVE  deck[Spare].entry = EntryAt(st.pendingSkip) /\ deck[Spare].entry = slot.target
    <3>1. \A p \in Tasks : proc[p].pc = "idle"
      BY <2>1 DEF Undisturbed, NobodyActs, At, Tasks
    <3>2. lock = Free
      BY <2>1, <3>1 DEF LockInv, Types, HoldingPcs, Tasks
    <3>3. DriverInv /\ IncomingInv /\ PauseInv
      BY <2>1 DEF SlotInv, TransitionInv, DecksInv, Undisturbed
    <3>4. st.crossfading
      BY <2>1, <3>3 DEF DriverInv
    <3>5. st.pendingSkip # 0
      BY <2>1, <3>1, <3>2, <3>3 DEF PauseInv, Tasks
    <3>6. QED  BY <2>1, <3>2, <3>3, <3>4, <3>5 DEF IncomingInv
  <2>2. QED  BY <2>1, TypesUnfold DEF ReportNamesIncoming
<1>2. QED  BY <1>1, CrossfadeTypes, SlotHolds, TransitionHolds, PTL

\* Only a promotion moves the queue's identity.
LEMMA OnlyPromotes ==
    ASSUME [CrossfadeNext]_vars, active' # active
    PROVE  \E p \in Settlers : Promote(p)
<1>1. CASE UNCHANGED vars
  BY <1>1 DEF vars
<1>2. CASE \E c \in Client : Gesture(c)
  BY <1>2 DEF Gesture, Skip, Play, StopPlayback, Clear, SetVol, Delete, Pause, Resume, Begins
<1>3. CASE \E c \in Client : ClientStep(c)
  BY <1>3 DEF ClientStep, Settle, Abandon, Aim, TakeSkipLoad, TakeFade, TakeNothing, TakesSlot,
              Load, LoadAt, Halt, Evict, Release, Wake
<1>4. CASE \E p \in Client \cup {Spine} : ArmStep(p)
  BY <1>4 DEF ArmStep, Mute, Arm, Retreat, Install, Commit
<1>5. CASE \E p \in Client \cup {Fader} : CommitStep(p)
  BY <1>5 DEF CommitStep, Attribute, Silence, Land, Landed, Settlers
<1>6. CASE FaderStep
  BY <1>6 DEF FaderStep, RampMoves, CrossfadeEnds, SetBaseline, PauseTerminal, StopRestore,
              DipEnds, Switch, Swap
<1>7. CASE SpineStep
  BY <1>7 DEF SpineStep, ReadPlaying, ReadPaused, ReadStopped, ReadCrossfadedEof, ReadEof,
              ReadTimePos, Reads, Advance, AdvanceLoads, AdvanceReturns
<1>8. CASE DurationArrives \/ \E d \in Deck : Tick(d) \/ End(d)
  BY <1>8 DEF DurationArrives, Tick, End
<1>9. QED
  BY <1>1, <1>2, <1>3, <1>4, <1>5, <1>6, <1>7, <1>8 DEF CrossfadeNext

\* The queue's identity only ever moves to a deck that is playing the entry the
\* transition was for, and under the slot's lock (player.rs, promote; its
\* callers in handler.rs): a refused arming is never promoted.
THEOREM PromotedIsTarget == CrossfadeSpec => PromotedIsTheTarget
<1>1. CrossfadeTypeOK /\ TransitionInv /\ [CrossfadeNext]_vars =>
        [active' # active /\ slips' = {} =>
            /\ Sounds(Spare)
            /\ \E p \in Client \cup {Fader} :
                lock = p /\ proc[p].settling.target = deck[Spare].entry]_vars
  <2>1. ASSUME Types, LockInv, TransitionInv, [CrossfadeNext]_vars, active' # active, slips' = {}
        PROVE  /\ Sounds(Spare)
               /\ \E p \in Client \cup {Fader} :
                   lock = p /\ proc[p].settling.target = deck[Spare].entry
    <3>1. PICK p \in Settlers : Promote(p)
      BY <2>1, OnlyPromotes
    <3>2. proc[p].pc = "promote"
      BY <3>1 DEF Promote, At
    <3>3. SettleInv
      BY <2>1, SlipsStay DEF TransitionInv, DecksInv
    <3>4. Sounds(Spare) /\ deck[Spare].entry = proc[p].settling.target
      BY <3>2, <3>3 DEF SettleInv
    <3>5. lock = p
      BY <2>1, <3>2, LockAlone DEF HoldingPcs
    <3>6. QED  BY <3>4, <3>5 DEF Settlers
  <2>2. QED  BY <2>1, TypesUnfold
<1>2. QED
  BY <1>1, CrossfadeTypes, TransitionHolds, PTL DEF CrossfadeSpec, PromotedIsTheTarget
=============================================================================
