----------------------------- MODULE Crossfade -----------------------------
(***************************************************************************)
(* Two decks and the one fade slot between them: the crossfade of          *)
(* crates/hypodj-core/src/handler.rs and player.rs, with everything that   *)
(* may take the gain from it.                                              *)
(*                                                                         *)
(* Four kinds of task run at once: the clients, whose gestures settle a    *)
(* crossfade before they touch a deck; the spine, which advances the queue *)
(* and starts the crossfade at a track's boundary; and the task in the     *)
(* fade slot, which ramps the gains and then, under the slot's lock,       *)
(* promotes the incoming deck.  The lock is an async one: its holder       *)
(* awaits the decks without giving it up.                                  *)
(*                                                                         *)
(* MpvDeck models one deck closely; here a deck does a command in one      *)
(* step, with the events it sends, and consecutive commands of one task to *)
(* one deck are a step together.  Warms, the fuse and the modes are in     *)
(* Playback: the queue here is linear.  Index 0 stands for None.           *)
(***************************************************************************)
EXTENDS Naturals, Sequences, FiniteSets, QueueOps

CONSTANTS
    Deck,           \* the two decks
    Client,         \* the tasks serving connections
    Spine, Fader,   \* the director's task, the task of the fade slot
    Free,           \* the slot's lock when nobody holds it
    Entry,          \* queue entries
    Streams,        \* those that are radio: no length, no song
    NoEntry,
    InitQueue,      \* the queue at start
    Gestures,       \* the gestures clients may make
    SkipFades,      \* crossfade_skip_secs > 0
    BoundaryFades,  \* crossfade_secs > 0
    LoadResults,    \* what a loadfile may answer
    MaxGestures,    \* bound: gestures in a behaviour
    MaxLag,         \* bound: events unread when a deck adds one by itself
    Ticks           \* bound: the places at which a deck reports its position

D == INSTANCE Director
S == INSTANCE Scrobbler

GestureKinds == {"play", "skip", "stop", "clear", "delete", "setvol", "pause", "resume"}

ASSUME CrossfadeAssumption ==
    /\ \E a, b \in Deck : a # b /\ Deck = {a, b}
    /\ NoEntry \notin Entry /\ Streams \subseteq Entry
    /\ InitQueue \in Seq(Entry)
    /\ \A i, j \in DOMAIN InitQueue : InitQueue[i] = InitQueue[j] => i = j
    /\ Spine \notin Client /\ Fader \notin Client \cup {Spine} /\ Free \notin Client \cup {Fader}
    /\ Gestures \subseteq GestureKinds
    /\ SkipFades \in BOOLEAN /\ BoundaryFades \in BOOLEAN
    /\ LoadResults \subseteq BOOLEAN /\ LoadResults # {}
    /\ MaxGestures \in Nat /\ MaxLag \in Nat /\ Ticks \subseteq {1, 2}

VARIABLES
    deck,     \* [Deck -> what it has latched, its state, its gain, its position]
    active,   \* the deck that owns the queue's identity
    st,       \* the handler's State
    slot,     \* the task in the fade slot
    lock,     \* who holds the slot's lock
    proc,     \* [task -> where it is and what it captured]
    ring,     \* the event ring both decks send on
    pub,      \* the spine's publisher
    scrob,    \* the scrobbler
    made,     \* gestures made so far
    heard,    \* a history variable: entries that were really played past the floor
    slips     \* a history variable: see Slips

vars == <<deck, active, st, slot, lock, proc, ring, pub, scrob, made, heard, slips>>

MaybeEntry == Entry \cup {NoEntry}
PlayState == {"Stopped", "Playing", "Paused"}

\* Gains are told apart as far as the code promises anything about them.
Gain == {"baseline", "between", "silent"}
DeckState == [entry : MaybeEntry, state : PlayState, gain : Gain, place : S!Places]

HandlerState ==
    [queue : Seq(Entry), current : Nat, pendingSkip : Nat, crossfading : BOOLEAN,
     fading : BOOLEAN, pendingPause : BOOLEAN, evict : MaybeEntry, finish : BOOLEAN]

\* A fade_task with its terminal, or a crossfade_task.
FadeKinds == {"none", "crossfade", "skipLoad", "setBaseline", "pause", "stopRestore"}
Fade == [kind : FadeKinds, target : MaybeEntry, evict : MaybeEntry, finish : BOOLEAN]
NoFade == [kind |-> "none", target |-> NoEntry, evict |-> NoEntry, finish |-> FALSE]

\* What a settled gesture goes on to do.
Acts == {"none", "load", "halt", "clear", "unpick", "unload", "skipLoad", "setBaseline",
         "resumeIn", "knob", "pause", "stopRestore"}
Pcs == {"idle", "mute", "arm", "retreat", "install", "aim", "settle", "abandon", "attribute",
        "promote", "silence", "land", "take", "load", "commit", "halt", "evict", "release",
        "wake", "switch", "swap", "advance", "advanced"}
Proc == [pc : Pcs, act : Acts, idx : Nat, item : MaybeEntry, gone : MaybeEntry,
         on : Deck, settling : Fade]

\* What may go wrong between tasks, each a disagreement of its own: a fade
\* cancelled that was a crossfade begun since it was settled; a deck
\* armed that another task is using; a promotion that no longer knows its row,
\* or knows the row of another skip;
\* an incoming deck that ended; an end of the outgoing track that the spine acts
\* on after the promotion; a row or a load that another task replaced between
\* the look and the act.
SlipKinds == {"cancelled", "overrun", "forgotten", "renamed", "ended", "late", "raced"}

Event == [kind : {"Playing", "Paused", "Stopped", "Eof", "TimePos"},
          entry : MaybeEntry, crossfaded : BOOLEAN, place : S!Places]
Ev(kind, e) == [kind |-> kind, entry |-> e, crossfaded |-> FALSE, place |-> 0]

Deck0 == CHOOSE d \in Deck : TRUE
IdleProc == [pc |-> "idle", act |-> "none", idx |-> 0, item |-> NoEntry, gone |-> NoEntry,
             on |-> Deck0, settling |-> NoFade]

CrossfadeInit ==
    /\ deck = [d \in Deck |-> [entry |-> NoEntry, state |-> "Stopped", gain |-> "baseline",
                               place |-> 0]]
    /\ active = Deck0
    /\ st = [queue |-> InitQueue, current |-> 0, pendingSkip |-> 0, crossfading |-> FALSE,
             fading |-> FALSE, pendingPause |-> FALSE, evict |-> NoEntry, finish |-> FALSE]
    /\ slot = NoFade
    /\ lock = Free
    /\ proc = [p \in Client \cup {Spine, Fader} |-> IdleProc]
    /\ ring = << >>
    /\ pub = D!PublisherInit
    /\ scrob = S!ScrobblerInit
    /\ made = 0
    /\ heard = {}
    /\ slips = {}
-----------------------------------------------------------------------------
Spare == CHOOSE d \in Deck : d # active

EntryAt(i) == IF i \in DOMAIN st.queue THEN st.queue[i] ELSE NoEntry
OnRow == st.current \in DOMAIN st.queue

\* reported_play_state and reported_current.
Reported ==
    IF ~OnRow THEN "Stopped" ELSE IF st.pendingPause THEN "Paused" ELSE deck[active].state
ReportedRow == IF st.pendingSkip # 0 THEN st.pendingSkip ELSE st.current

At(p, pc) == proc[p].pc = pc
Goto(p, pc) == proc' = [proc EXCEPT ![p].pc = pc]
Done(p) == proc' = [proc EXCEPT ![p] = IdleProc]

\* evict_qid.
EvictQid(s, e) ==
    LET pos == PositionOf(s.queue, e) IN
    IF pos = 0 THEN s
    ELSE [s EXCEPT !.queue = RemoveRow(@, pos), !.current = Remap(@, pos),
                   !.pendingSkip = Remap(@, pos)]

\* set_manual_volume: a baseline is committed, a skip under way is over.
SetManualVolume(s, loaded) ==
    [s EXCEPT !.fading = FALSE, !.pendingSkip = 0, !.pendingPause = @ /\ ~loaded]

DeckLoaded == deck[active].state # "Stopped"

\* A deck's command: its new state and what it sends.
Tell(d, new, events) == deck' = [deck EXCEPT ![d] = new] /\ ring' = ring \o events
Loaded(d, e, gain) ==
    Tell(d, [entry |-> e, state |-> "Playing", gain |-> gain, place |-> 0],
         <<Ev("Playing", e)>>)
Stopped(d, gain) ==
    Tell(d, [entry |-> NoEntry, state |-> "Stopped", gain |-> gain, place |-> 0],
         <<Ev("Stopped", NoEntry)>>)
SetGain(d, gain) == deck' = [deck EXCEPT ![d].gain = gain] /\ UNCHANGED ring
NoCommand == UNCHANGED <<deck, ring>>

Slip(cond, kind) == slips' = IF cond THEN slips \cup {kind} ELSE slips
Slips(cancelled, late, raced) ==
    slips' = slips \cup (IF cancelled THEN {"cancelled"} ELSE {})
                   \cup (IF late THEN {"late"} ELSE {}) \cup (IF raced THEN {"raced"} ELSE {})

\* An end the spine has still to act on; a row that moved since it was looked up.
EndIsPending ==
    \/ proc[Spine].pc \in {"advance", "load", "commit"}
    \/ \E i \in DOMAIN ring : ring[i].kind = "Eof" /\ ~ring[i].crossfaded
Moved(p) == EntryAt(proc[p].idx) # proc[p].item

History == UNCHANGED <<pub, scrob, made, heard>>
-----------------------------------------------------------------------------
(***************************************************************************)
(* start_crossfade, by a client's skip or by the spine: arm the spare deck *)
(* - silent, then loaded - and only then take the slot.                    *)
(***************************************************************************)
\* Another task has the spare deck in hand.
InHand(d, p) ==
    \/ st.crossfading \/ d = active
    \/ \E q \in (Client \cup {Spine}) \ {p} :
        proc[q].pc \in {"arm", "retreat", "install"} /\ proc[q].on = d

Mute(p) ==
    /\ At(p, "mute")
    /\ SetGain(Spare, "silent")
    /\ proc' = [proc EXCEPT ![p].pc = "arm", ![p].on = Spare]
    /\ Slip(InHand(Spare, p), "overrun")
    /\ UNCHANGED <<active, st, slot, lock>> /\ History

\* Variant: a refusal goes unnoticed.
ArmIgnoresRefusal(p) ==
    /\ At(p, "arm")
    /\ \E ok \in LoadResults :
        IF ok THEN Loaded(proc[p].on, proc[p].item, deck[proc[p].on].gain) ELSE NoCommand
    /\ Goto(p, "install")
    /\ Slip(InHand(proc[p].on, p), "overrun")
    /\ UNCHANGED <<active, st, slot, lock>> /\ History

Arm(p) ==
    /\ At(p, "arm")
    /\ \E ok \in LoadResults :
        /\ IF ok THEN Loaded(proc[p].on, proc[p].item, deck[proc[p].on].gain) ELSE NoCommand
        /\ Goto(p, IF ok THEN "install" ELSE "retreat")
    /\ Slip(InHand(proc[p].on, p), "overrun")
    /\ UNCHANGED <<active, st, slot, lock>> /\ History

\* A refused load: the spare deck, whichever it is by now, is stopped; a skip
\* then dips instead, the spine lets the track play on.
Retreat(p) ==
    /\ At(p, "retreat")
    /\ Stopped(Spare, deck[Spare].gain)
    /\ IF p = Spine THEN Done(p) ELSE Goto(p, "aim")
    /\ Slip(InHand(Spare, p), "overrun")
    /\ UNCHANGED <<active, st, slot, lock>> /\ History

\* Variant: the target is not reported before it is current.
InstallKeepsReport(p) ==
    /\ At(p, "install") /\ lock = Free
    /\ slot' = [kind |-> "crossfade", target |-> proc[p].item, evict |-> proc[p].gone,
                finish |-> p = Spine]
    /\ st' = [st EXCEPT !.crossfading = TRUE, !.fading = TRUE,
                        !.evict = proc[p].gone, !.finish = p = Spine]
    /\ Done(p)
    /\ UNCHANGED <<active, lock, slips>> /\ NoCommand /\ History

\* Whatever fades is aborted; the target is reported from here on.
Install(p) ==
    /\ At(p, "install") /\ lock = Free
    /\ slot' = [kind |-> "crossfade", target |-> proc[p].item, evict |-> proc[p].gone,
                finish |-> p = Spine]
    /\ st' = [st EXCEPT !.crossfading = TRUE, !.fading = TRUE, !.pendingSkip = proc[p].idx,
                        !.evict = proc[p].gone, !.finish = p = Spine]
    /\ Done(p)
    /\ slips' = slips \cup (IF Moved(p) THEN {"raced"} ELSE {})
                     \cup (IF InHand(proc[p].on, p) THEN {"overrun"} ELSE {})
    /\ UNCHANGED <<active, lock>> /\ NoCommand /\ History
-----------------------------------------------------------------------------
(***************************************************************************)
(* settle_crossfade: finish a crossfade before something else takes the    *)
(* gain.  The lock is held for the whole settlement - and given up at its  *)
(* end, before the caller takes it for itself.                             *)
(***************************************************************************)
\* The one gesture that does not promote deletes the incoming row.
Promotes(p) == proc[p].act # "unpick"

Settle(c) ==
    /\ At(c, "settle") /\ lock = Free
    /\ IF ~st.crossfading
       THEN Goto(c, "take") /\ UNCHANGED <<st, slot, lock, slips>>
       ELSE LET target == EntryAt(st.pendingSkip) IN
            /\ lock' = c
            /\ slot' = NoFade
            /\ st' = [st EXCEPT !.evict = NoEntry, !.finish = FALSE]
            /\ proc' = [proc EXCEPT
                         ![c].settling = [kind |-> "crossfade", target |-> target,
                                          evict |-> st.evict, finish |-> st.finish],
                         ![c].pc = IF ~Promotes(c) THEN "abandon"
                                   ELSE IF st.finish THEN "attribute" ELSE "promote"]
            /\ Slip(Promotes(c) /\ target = NoEntry, "forgotten")
    /\ UNCHANGED active /\ NoCommand /\ History

\* crossfade_abort.
Abandon(c) ==
    /\ At(c, "abandon")
    /\ Stopped(Spare, deck[Spare].gain)
    /\ Goto(c, "land")
    /\ UNCHANGED <<active, st, slot, lock, slips>> /\ History

(***************************************************************************)
(* crossfade_commit, by whoever settles or by the crossfade's own task.    *)
(***************************************************************************)
\* EmitCrossfadedEof: the outgoing track ended, as far as anyone is told.
Attribute(p) ==
    /\ At(p, "attribute")
    /\ deck' = [deck EXCEPT ![active].entry = NoEntry]
    /\ ring' = IF deck[active].entry = NoEntry THEN ring
               ELSE Append(ring, [Ev("Eof", deck[active].entry) EXCEPT !.crossfaded = TRUE])
    /\ Goto(p, "promote")
    /\ UNCHANGED <<active, st, slot, lock, slips>> /\ History

Promote(p) ==
    /\ At(p, "promote")
    /\ active' = Spare
    /\ proc' = [proc EXCEPT ![p].pc = "silence", ![p].on = active]
    /\ Slip(EndIsPending, "late")
    /\ UNCHANGED <<st, slot, lock>> /\ NoCommand /\ History

\* Variant: the promoted deck is stopped.
SilencePromoted(p) ==
    /\ At(p, "silence")
    /\ Stopped(active, deck[active].gain)
    /\ Goto(p, "land")
    /\ UNCHANGED <<active, st, slot, lock, slips>> /\ History

Silence(p) ==
    /\ At(p, "silence")
    /\ Stopped(proc[p].on, deck[proc[p].on].gain)
    /\ Goto(p, "land")
    /\ UNCHANGED <<active, st, slot, lock, slips>> /\ History

\* Variant: the row is the one captured before the eviction.
FollowByIndex(s, f) ==
    LET t == EvictQid(s, f.evict) IN
    IF f.target = NoEntry THEN t ELSE [t EXCEPT !.current = PositionOf(s.queue, f.target)]

\* The queue follows the deck: the row is found again by its id, after the
\* eviction.
Follow(s, f) ==
    LET t == EvictQid(s, f.evict) IN
    IF f.target = NoEntry THEN t ELSE [t EXCEPT !.current = PositionOf(t.queue, f.target)]

\* The baseline is asserted on the active deck and the transition is over.
Landed(p, s) ==
    /\ At(p, "land")
    /\ SetGain(active, "baseline")
    /\ st' = SetManualVolume(s, TRUE)
    /\ IF p = Fader THEN slot' = NoFade /\ Done(p) ELSE UNCHANGED slot /\ Goto(p, "take")
    /\ UNCHANGED <<active, slips>> /\ History

Followed(p) == IF p = Fader \/ Promotes(p) THEN Follow(st, proc[p].settling) ELSE st

\* Variants: the lock is kept; the mark of a crossfade is kept.
LandKeepsLock(p) ==
    Landed(p, [Followed(p) EXCEPT !.crossfading = FALSE]) /\ UNCHANGED lock
LandKeepsMark(p) == Landed(p, Followed(p)) /\ lock' = Free

Land(p) == Landed(p, [Followed(p) EXCEPT !.crossfading = FALSE]) /\ lock' = Free
-----------------------------------------------------------------------------
(***************************************************************************)
(* The task in the fade slot.  Whoever aborts it joins it under the lock,  *)
(* so an aborted task is simply gone; its terminal runs under the lock.    *)
(***************************************************************************)
Ramping == slot.kind # "none" /\ At(Fader, "idle")

\* The gains on the way: both decks in a crossfade.
RampMoves ==
    /\ Ramping
    /\ LET decks == IF slot.kind = "crossfade" THEN Deck ELSE {active} IN
       /\ \E d \in decks : deck[d].gain # "between"
       /\ deck' = [d \in Deck |-> IF d \in decks THEN [deck[d] EXCEPT !.gain = "between"]
                                                 ELSE deck[d]]
    /\ UNCHANGED <<active, st, slot, lock, proc, ring, slips>> /\ History

RampEnds(kind) == Ramping /\ slot.kind = kind /\ lock = Free
Hold(pc) ==
    /\ lock' = Fader
    /\ proc' = [proc EXCEPT ![Fader] = [IdleProc EXCEPT !.pc = pc, !.settling = slot]]

\* crossfade_task's terminal starts.
CrossfadeEnds ==
    /\ RampEnds("crossfade")
    /\ deck' = [deck EXCEPT ![active].gain = "silent", ![Spare].gain = "baseline"]
    /\ Hold(IF slot.finish THEN "attribute" ELSE "promote")
    /\ UNCHANGED <<active, st, slot, ring, slips>> /\ History

\* Terminal::SetBaseline.
SetBaseline ==
    /\ RampEnds("setBaseline")
    /\ SetGain(active, "baseline")
    /\ st' = SetManualVolume(st, DeckLoaded)
    /\ slot' = NoFade
    /\ UNCHANGED <<active, lock, proc, slips>> /\ History

\* Terminal::Pause: a deck that holds nothing is not paused.
PauseTerminal ==
    /\ RampEnds("pause")
    /\ LET e == deck[active].entry IN
       Tell(active,
            [deck[active] EXCEPT !.gain = "baseline",
                                 !.state = IF e = NoEntry THEN @ ELSE "Paused"],
            IF e = NoEntry THEN << >> ELSE <<Ev("Paused", e)>>)
    /\ st' = [st EXCEPT !.fading = FALSE, !.pendingPause = @ /\ ~DeckLoaded]
    /\ slot' = NoFade
    /\ Slip(EndIsPending, "late")
    /\ UNCHANGED <<active, lock, proc>> /\ History

\* Terminal::StopRestore.
StopRestore ==
    /\ RampEnds("stopRestore")
    /\ Stopped(active, "baseline")
    /\ st' = EvictQid([SetManualVolume(st, FALSE) EXCEPT !.pendingPause = FALSE], slot.evict)
    /\ slot' = NoFade
    /\ UNCHANGED <<active, lock, proc, slips>> /\ History

\* Terminal::SkipLoad, at the foot of the dip.
DipEnds ==
    /\ RampEnds("skipLoad")
    /\ Hold("switch")
    /\ UNCHANGED <<active, st, slot, slips>> /\ NoCommand /\ History

\* switch_warmed; the answer is not looked at.
Switch ==
    /\ At(Fader, "switch")
    /\ \E ok \in LoadResults :
        /\ IF ok THEN Loaded(active, slot.target, deck[active].gain) ELSE NoCommand
        /\ slips' = slips \cup (IF ok THEN {} ELSE {"ended"})
                         \cup (IF EndIsPending THEN {"late"} ELSE {})
    /\ Goto(Fader, "swap")
    /\ UNCHANGED <<active, st, slot, lock>> /\ History

\* The row is committed and the rise takes the slot.
Swap ==
    /\ At(Fader, "swap")
    /\ st' = [Follow(st, slot) EXCEPT !.pendingSkip = 0, !.fading = TRUE]
    /\ slot' = [NoFade EXCEPT !.kind = "setBaseline"]
    /\ lock' = Free
    /\ Done(Fader)
    /\ Slip(deck[active].entry # slot.target, "raced")
    /\ UNCHANGED active /\ NoCommand /\ History
-----------------------------------------------------------------------------
(***************************************************************************)
(* A client's gestures: what each decides before its first await.          *)
(***************************************************************************)
Begins(c, gesture) ==
    /\ At(c, "idle") /\ gesture \in Gestures /\ made < MaxGestures
    /\ made' = made + 1
    /\ UNCHANGED <<active, slot, lock, pub, scrob, heard, slips>> /\ NoCommand

Start(c, pc, act, idx, gone) ==
    proc' = [proc EXCEPT ![c] = [IdleProc EXCEPT !.pc = pc, !.act = act, !.idx = idx,
                                                 !.item = EntryAt(idx), !.gone = gone]]

\* skip_with_fade: the crossfade is tried first, then the dip.
SkipWithFade(c, idx, gone) == Start(c, IF SkipFades THEN "mute" ELSE "aim", "skipLoad", idx, gone)

\* Next and previous count from the row that is reported.
Skip(c) ==
    /\ Begins(c, "skip")
    /\ \E idx \in {ReportedRow - 1, ReportedRow + 1} \cap DOMAIN st.queue :
        /\ ReportedRow # 0
        /\ IF Reported = "Playing" THEN SkipWithFade(c, idx, NoEntry)
           ELSE Start(c, "settle", "load", idx, NoEntry)
    /\ UNCHANGED st

Play(c) ==
    /\ Begins(c, "play")
    /\ \E idx \in DOMAIN st.queue : Start(c, "settle", "load", idx, NoEntry)
    /\ UNCHANGED st

StopPlayback(c) == Begins(c, "stop") /\ Start(c, "settle", "halt", 0, NoEntry) /\ UNCHANGED st
Clear(c) == Begins(c, "clear") /\ Start(c, "settle", "clear", 0, NoEntry) /\ UNCHANGED st
SetVol(c) == Begins(c, "setvol") /\ Start(c, "settle", "setBaseline", 0, NoEntry) /\ UNCHANGED st

\* delete_at: the row a transition is arriving at, a row that is not loaded,
\* the loaded row of a silent deck, the row that sounds - with and without a
\* successor.
Delete(c) ==
    /\ Begins(c, "delete")
    /\ \E pos \in DOMAIN st.queue :
        LET gone == EntryAt(pos)  next == pos + 1 IN
        IF st.pendingSkip = pos THEN Start(c, "settle", "unpick", 0, gone)
        ELSE IF st.current # pos THEN Start(c, "evict", "none", 0, gone)
        ELSE IF Reported # "Playing" THEN Start(c, "settle", "unload", 0, gone)
        ELSE IF next \in DOMAIN st.queue THEN SkipWithFade(c, next, gone)
        ELSE Start(c, "settle", "stopRestore", 0, gone)
    /\ UNCHANGED st

\* pause_with_fade forgets the skip target before anything is settled.
Pause(c) ==
    /\ Begins(c, "pause") /\ Reported = "Playing"
    /\ st' = [st EXCEPT !.pendingPause = TRUE, !.pendingSkip = 0]
    /\ Start(c, "settle", "pause", 0, NoEntry)

\* resume_with_fade; over a deck that holds nothing it would load instead.
Resume(c) ==
    /\ Begins(c, "resume") /\ Reported = "Paused" /\ DeckLoaded
    /\ Start(c, "release", "resumeIn", 0, NoEntry)
    /\ UNCHANGED st
-----------------------------------------------------------------------------
(***************************************************************************)
(* What a gesture does once it has settled.                                *)
(***************************************************************************)
\* The skip's target is reported from the start of the dip.
Aim(c) ==
    /\ At(c, "aim")
    /\ st' = [st EXCEPT !.pendingSkip = proc[c].idx]
    /\ Goto(c, "settle")
    /\ slips' = slips \cup (IF Moved(c) THEN {"raced"} ELSE {})
                     \cup (IF st.crossfading THEN {"renamed"} ELSE {})
    /\ UNCHANGED <<active, slot, lock>> /\ NoCommand /\ History

Takes(c, acts) == At(c, "take") /\ lock = Free /\ proc[c].act \in acts
TakesSlot == UNCHANGED <<active, lock>> /\ NoCommand /\ History

\* install_skip_dip.
TakeSkipLoad(c) ==
    /\ Takes(c, {"skipLoad"})
    /\ slot' = [kind |-> "skipLoad", target |-> proc[c].item, evict |-> proc[c].gone,
                finish |-> FALSE]
    /\ st' = [st EXCEPT !.fading = TRUE]
    /\ Done(c)
    /\ Slips(st.crossfading, FALSE, Moved(c))
    /\ TakesSlot

\* start_fade_spec: any other fade ends a skip; one that commits a volume also
\* ends a pause over a loaded deck.
TakeFade(c) ==
    /\ Takes(c, {"setBaseline", "resumeIn", "knob", "pause", "stopRestore"})
    /\ slot' = [NoFade EXCEPT
                 !.kind = IF proc[c].act \in {"pause", "stopRestore"} THEN proc[c].act
                          ELSE "setBaseline",
                 !.evict = proc[c].gone]
    /\ st' = [st EXCEPT !.fading = TRUE, !.pendingSkip = 0,
                        !.pendingPause = @ /\ ~(proc[c].act = "setBaseline" /\ DeckLoaded)]
    /\ Done(c)
    /\ Slip(st.crossfading, "cancelled")
    /\ TakesSlot

\* cancel_with: the fade goes, the baseline is committed, and only the delete
\* of a target lets a pause stand over an empty deck.
TakeNothing(c) ==
    LET act == proc[c].act
        s == SetManualVolume(st, DeckLoaded \/ act # "unpick") IN
    /\ Takes(c, {"load", "halt", "clear", "unpick", "unload"})
    /\ slot' = NoFade
    /\ st' = IF act = "clear" THEN [s EXCEPT !.queue = << >>, !.current = 0] ELSE s
    /\ Goto(c, IF act = "load" THEN "load" ELSE IF act \in {"unpick", "unload"} THEN "evict"
               ELSE "halt")
    /\ Slip(st.crossfading, "cancelled")
    /\ TakesSlot

\* play_index_inner: gain, then load, then the row - by its index.
LoadAt(c, gain) ==
    /\ At(c, "load") /\ c \in Client
    /\ \E ok \in LoadResults :
        IF ok THEN Loaded(active, proc[c].item, gain) /\ Goto(c, "commit")
        ELSE SetGain(active, gain) /\ Done(c)
    /\ Slips(st.crossfading, EndIsPending, Moved(c))
    /\ UNCHANGED <<active, st, slot, lock>> /\ History

\* Variant: the gain is left where the fade it cancelled had brought it.
LoadKeepsGain(c) == LoadAt(c, deck[active].gain)
Load(c) == LoadAt(c, "baseline")

Commit(p) ==
    /\ At(p, "commit")
    /\ st' = [st EXCEPT !.current = proc[p].idx]
    /\ IF p = Spine THEN Goto(p, "advanced") ELSE Done(p)
    /\ Slips(st.crossfading, p # Spine /\ EndIsPending, Moved(p) \/ deck[active].entry # proc[p].item)
    /\ UNCHANGED <<active, slot, lock>> /\ NoCommand /\ History

Halt(c) ==
    /\ At(c, "halt")
    /\ Stopped(active, "baseline")
    /\ Done(c)
    /\ Slip(st.crossfading, "cancelled")
    /\ UNCHANGED <<active, st, slot, lock>> /\ History

\* What a transition under way is about to make current.
Arriving == {EntryAt(st.pendingSkip), slot.target}
            \cup {proc[p].settling.target : p \in {q \in Client \cup {Fader} : lock = q}}

\* The row goes; a deleted target leaves a rise to the baseline behind, the
\* row of a silent deck a stop.
Evict(c) ==
    /\ At(c, "evict")
    /\ st' = EvictQid(st, proc[c].gone)
    /\ IF proc[c].act = "unpick"
       THEN proc' = [proc EXCEPT ![c] = [IdleProc EXCEPT !.pc = "settle", !.act = "knob"]]
       ELSE IF proc[c].act = "unload" THEN Goto(c, "halt") ELSE Done(c)
    /\ Slip(\/ proc[c].gone \in Arriving
            \/ proc[c].act # "unload" /\ proc[c].gone = EntryAt(st.current), "raced")
    /\ UNCHANGED <<active, slot, lock>> /\ NoCommand /\ History

\* resume_with_fade: the fade is cancelled, whatever it is; the settlement
\* comes with the rise.  A deck that was paused is woken silent.
Release(c) ==
    /\ At(c, "release") /\ lock = Free
    /\ slot' = NoFade
    /\ st' = [st EXCEPT !.pendingPause = FALSE]
    /\ Goto(c, IF deck[active].state = "Paused" THEN "wake" ELSE "settle")
    /\ UNCHANGED <<active, lock, slips>> /\ NoCommand /\ History

Wake(c) ==
    /\ At(c, "wake")
    /\ LET e == deck[active].entry IN
       Tell(active,
            [deck[active] EXCEPT !.gain = "silent",
                                 !.state = IF e = NoEntry THEN @ ELSE "Playing"],
            IF e = NoEntry THEN << >> ELSE <<Ev("Playing", e)>>)
    /\ Goto(c, "settle")
    /\ UNCHANGED <<active, st, slot, lock, slips>> /\ History
-----------------------------------------------------------------------------
(***************************************************************************)
(* The decks by themselves.                                                *)
(***************************************************************************)
Tick(d) ==
    /\ deck[d].state = "Playing" /\ Len(ring) < MaxLag
    /\ \E place \in Ticks :
        /\ place >= deck[d].place
        /\ deck' = [deck EXCEPT ![d].place = place]
        /\ ring' = Append(ring, [Ev("TimePos", deck[d].entry) EXCEPT !.place = place])
    /\ heard' = heard \cup ({deck[d].entry} \ {NoEntry})
    /\ UNCHANGED <<active, st, slot, lock, proc, pub, scrob, made, slips>>

\* A track ends, or its url turns out dead.
End(d) ==
    /\ deck[d].state = "Playing" /\ Len(ring) < MaxLag
    /\ Tell(d, [deck[d] EXCEPT !.entry = NoEntry, !.state = "Stopped", !.place = 0],
            (IF deck[d].entry = NoEntry THEN << >> ELSE <<Ev("Eof", deck[d].entry)>>)
            \o <<Ev("Stopped", NoEntry)>>)
    /\ Slip(d # active, "ended")
    /\ UNCHANGED <<active, st, slot, lock, proc, pub, scrob, made, heard>>
-----------------------------------------------------------------------------
(***************************************************************************)
(* The spine.                                                              *)
(***************************************************************************)
Song(e) == IF e \in Streams THEN NoEntry ELSE e
Reads(kind) ==
    /\ At(Spine, "idle") /\ ring # << >> /\ Head(ring).kind = kind
    /\ ring' = Tail(ring)
    /\ UNCHANGED <<deck, active, slot, lock, made, heard, slips>>
Shown(p) == [p EXCEPT !.edges = << >>]

ReadPlaying ==
    /\ Reads("Playing")
    /\ pub' = Shown(D!OnPlaying(pub, Head(ring).entry))
    /\ scrob' = IF Song(Head(ring).entry) = NoEntry THEN S!Quiet(scrob)
                ELSE S!OnPlaying(scrob, Head(ring).entry)
    /\ UNCHANGED <<st, proc>>

ReadPaused ==
    /\ Reads("Paused")
    /\ pub' = Shown(D!OnPaused(pub))
    /\ scrob' = S!Quiet(scrob)
    /\ UNCHANGED <<st, proc>>

ReadStopped ==
    /\ Reads("Stopped")
    /\ pub' = Shown(D!OnStopped(pub))
    /\ scrob' = S!Quiet(scrob)
    /\ UNCHANGED <<st, proc>>

\* The crossfade was the advance.
ReadCrossfadedEof ==
    /\ Reads("Eof") /\ Head(ring).crossfaded
    /\ pub' = Shown(D!OnCrossfadedEof(pub, Head(ring).entry))
    /\ scrob' = S!OnEof(scrob, Head(ring).entry)
    /\ UNCHANGED <<st, proc>>

ReadEof ==
    /\ Reads("Eof") /\ ~Head(ring).crossfaded
    /\ pub' = Shown(D!OnEof(pub, Head(ring).entry))
    /\ scrob' = IF Song(Head(ring).entry) = NoEntry THEN S!Quiet(scrob)
                ELSE S!OnEof(scrob, Head(ring).entry)
    /\ proc' = [proc EXCEPT ![Spine] = [IdleProc EXCEPT !.pc = "advance",
                                                        !.gone = Head(ring).entry]]
    /\ UNCHANGED st

\* maybe_boundary_crossfade's gates: a position of the latched track, near the
\* end of something that has one, with nothing fading and a row to go to.
AtBoundary(e, place) ==
    /\ BoundaryFades /\ e = pub.latch /\ e # NoEntry /\ e \notin Streams /\ place = 2
    /\ ~st.crossfading /\ ~st.fading /\ st.pendingSkip = 0
    /\ OnRow /\ st.current + 1 \in DOMAIN st.queue

ReadTimePos ==
    /\ Reads("TimePos")
    /\ scrob' = S!OnTimePos(scrob, Head(ring).place)
    /\ IF AtBoundary(Head(ring).entry, Head(ring).place)
       THEN Start(Spine, "mute", "none", st.current + 1, NoEntry)
       ELSE UNCHANGED proc
    /\ UNCHANGED <<st, pub>>

\* advance_on_eof: a skip under way owns the next load.
Advance ==
    /\ At(Spine, "advance")
    /\ LET next == st.current + 1 IN
       IF st.pendingSkip # 0 THEN Goto(Spine, "advanced") /\ UNCHANGED st
       ELSE IF OnRow /\ next \in DOMAIN st.queue
       THEN /\ proc' = [proc EXCEPT ![Spine].pc = "load", ![Spine].idx = next,
                                    ![Spine].item = EntryAt(next)]
            /\ UNCHANGED st
       ELSE /\ st' = [st EXCEPT !.current = 0, !.pendingPause = FALSE]
            /\ Goto(Spine, "advanced")
    /\ UNCHANGED <<active, slot, lock, slips>> /\ NoCommand /\ History

AdvanceLoads ==
    /\ At(Spine, "load")
    /\ \E ok \in LoadResults :
        IF ok THEN Loaded(active, proc[Spine].item, deck[active].gain) /\ Goto(Spine, "commit")
        ELSE NoCommand /\ Goto(Spine, "advanced")
    /\ UNCHANGED <<active, st, slot, lock, slips>> /\ History

AdvanceReturns ==
    /\ At(Spine, "advanced")
    /\ pub' = IF OnRow /\ EntryAt(st.current) # proc[Spine].gone THEN D!MarkAdvanced(pub) ELSE pub
    /\ Done(Spine)
    /\ UNCHANGED <<active, st, slot, lock, scrob, made, heard, slips>> /\ NoCommand

\* The duration a start asked for arrives.
DurationArrives ==
    /\ scrob.song # NoEntry /\ ~scrob.measured /\ Ticks # {}
    /\ scrob' = S!SetDuration(scrob)
    /\ UNCHANGED <<deck, active, st, slot, lock, proc, ring, pub, made, heard, slips>>
-----------------------------------------------------------------------------
Gesture(c) ==
    \/ Skip(c) \/ Play(c) \/ StopPlayback(c) \/ Clear(c) \/ SetVol(c) \/ Delete(c)
    \/ Pause(c) \/ Resume(c)

ClientStep(c) ==
    \/ Settle(c) \/ Abandon(c) \/ Aim(c) \/ TakeSkipLoad(c) \/ TakeFade(c) \/ TakeNothing(c)
    \/ Load(c) \/ Halt(c) \/ Evict(c) \/ Release(c) \/ Wake(c)

ArmStep(p) == Mute(p) \/ Arm(p) \/ Retreat(p) \/ Install(p) \/ Commit(p)
CommitStep(p) == Attribute(p) \/ Promote(p) \/ Silence(p) \/ Land(p)

FaderStep ==
    \/ RampMoves \/ CrossfadeEnds \/ SetBaseline \/ PauseTerminal \/ StopRestore
    \/ DipEnds \/ Switch \/ Swap

SpineStep ==
    \/ ReadPlaying \/ ReadPaused \/ ReadStopped \/ ReadCrossfadedEof \/ ReadEof \/ ReadTimePos
    \/ Advance \/ AdvanceLoads \/ AdvanceReturns

CrossfadeNext ==
    \/ \E c \in Client : Gesture(c) \/ ClientStep(c)
    \/ \E p \in Client \cup {Spine} : ArmStep(p)
    \/ \E p \in Client \cup {Fader} : CommitStep(p)
    \/ FaderStep \/ SpineStep \/ DurationArrives
    \/ \E d \in Deck : Tick(d) \/ End(d)

CrossfadeSpec == CrossfadeInit /\ [][CrossfadeNext]_vars

\* Commands are answered, the lock is fair, ramps end, the spine drains its
\* ring; nobody has to make a gesture and no track has to end.
CrossfadeFairness ==
    /\ \A c \in Client : WF_vars(ClientStep(c) \/ ArmStep(c) \/ CommitStep(c))
    /\ WF_vars(SpineStep \/ ArmStep(Spine))
    /\ WF_vars(CrossfadeEnds \/ SetBaseline \/ PauseTerminal \/ StopRestore \/ DipEnds
               \/ Switch \/ Swap \/ CommitStep(Fader))

CrossfadeFairSpec == CrossfadeSpec /\ CrossfadeFairness
-----------------------------------------------------------------------------
\* Every variable stays in its type; the lock is held by a task that is in
\* the middle of a settlement or of a terminal, and by no other.
CrossfadeTypeOK ==
    /\ deck \in [Deck -> DeckState] /\ active \in Deck
    /\ st \in HandlerState
    /\ slot \in Fade
    /\ lock \in Client \cup {Fader, Free}
    /\ proc \in [Client \cup {Spine, Fader} -> Proc]
    /\ ring \in Seq(Event)
    /\ made \in 0..MaxGestures
    /\ heard \subseteq Entry
    /\ slips \subseteq SlipKinds
    /\ \A p \in Client \cup {Fader} :
        lock = p <=> proc[p].pc \in {"abandon", "attribute", "promote", "silence", "land",
                                     "switch", "swap"}

\* Everything below is about behaviours without a slip: what the slips lead to
\* is told one by one by the properties that name them.
NobodyActs == \A p \in Client \cup {Spine, Fader} : At(p, "idle")
Undisturbed == slips = {} /\ NobodyActs
AtRest == Undisturbed /\ slot.kind = "none" /\ ring = << >>
Sounds(d) == deck[d].state = "Playing"

\* A deck that is not the active one plays only while a crossfade owns it:
\* whatever settles, abandons or finishes a crossfade silences the right deck.
SpareIsQuiet == Undisturbed /\ ~st.crossfading => ~Sounds(Spare)

\* The state's mark of a crossfade and the task in the slot come and go
\* together, although gestures take the slot without looking at the mark.
OneDriver == Undisturbed => (st.crossfading <=> slot.kind = "crossfade")

\* When nothing is under way, what sounds is the row the queue is on: the
\* promotion found the row again, whatever was deleted or moved meanwhile.
RoomHearsTheRow ==
    AtRest /\ Sounds(active) => OnRow /\ EntryAt(st.current) = deck[active].entry

\* No order of gestures and ramps leaves the playing deck ducked or silent,
\* slips or not.
AudibleAtRest ==
    NobodyActs /\ slot.kind = "none" /\ Sounds(active) => deck[active].gain = "baseline"

\* During a crossfade the row reported is the one that is arriving, and the
\* deck that arrives holds it - after edits of the queue as well.
ReportNamesIncoming ==
    Undisturbed /\ slot.kind = "crossfade" =>
        /\ deck[Spare].entry = EntryAt(st.pendingSkip)
        /\ deck[Spare].entry = slot.target

\* The queue's identity only ever moves to a deck that is playing, and plays
\* the entry the transition was for.
PromotedIsTheTarget ==
    [][active' # active /\ slips' = {} =>
        /\ Sounds(Spare)
        /\ \E p \in Client \cup {Fader} :
            lock = p /\ proc[p].settling.target = deck[Spare].entry]_vars

\* A crossfade ends, unless a gesture cancelled it without settling it.
CrossfadeResolves == st.crossfading ~> ~st.crossfading \/ "cancelled" \in slips

\* A gesture gets its answer, whatever it has to settle or to wait for.
GesturesReturn == \A c \in Client : ~At(c, "idle") ~> At(c, "idle")

\* The claim made of the promotion: the outgoing deck's late events reach
\* nobody, so observers see the promoted deck play.
ObserversHearThePromoted ==
    AtRest /\ Sounds(active) => pub.last = "Playing" /\ pub.latch = deck[active].entry

\* The claim made of a delete of the row that is arriving: the deck stays on
\* the track it has, so the entry that goes is never the one that sounds.
DeleteAbandonsTheTarget ==
    [][\A c \in Client : Evict(c) /\ proc[c].act = "unpick" /\ Sounds(active)
        => deck[active].entry # proc[c].gone]_vars

\* The claim made of the settlement: the row it commits is the one that has been
\* reported, and arriving, since the crossfade started.
SettlesTheIncoming ==
    [][\A c \in Client : Promote(c) /\ slips \subseteq {"renamed"}
        => proc[c].settling.target = deck[Spare].entry]_vars

\* The claim made of the scrobbler: what it submits was played past the floor.
ScrobbledWasHeard == scrob.sent # NoEntry => scrob.sent \in heard

\* The claim made of a stop: it silences both decks.
StopSilencesBoth ==
    NobodyActs /\ slot.kind = "none" /\ ring = << >> /\ slips \subseteq {"cancelled"}
    /\ Reported = "Stopped" => \A d \in Deck : ~Sounds(d)
=============================================================================
