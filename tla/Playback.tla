------------------------------ MODULE Playback ------------------------------
(***************************************************************************)
(* One deck under the play queue: the director's spine                     *)
(* (crates/hypodj-core/src/director.rs), which turns the deck's events     *)
(* into edges for observers and advances the queue at the end of a track,  *)
(* and one client of the handler (handler.rs), whose gestures run at the   *)
(* same time on another worker thread.  Both send commands to the actor of *)
(* MpvDeck and await its replies, so every await - and the lock handed     *)
(* back before it - is a place where the other may get in.                 *)
(*                                                                         *)
(* Here are play, stop, clear, deleting a row that is not audible, and     *)
(* pause and resume, whose ramps are a third task.  Index 0 stands for     *)
(* None.                                                                   *)
(***************************************************************************)
EXTENDS MpvDeck, QueueOps

CONSTANTS
    NoEntry,      \* no queue entry
    Spine,        \* the director's task
    Client,       \* a task serving one MPD connection
    Fader,        \* the task of the fade slot
    Gone,         \* a task that has stopped awaiting: its reply is dropped
    InitQueue,    \* the queue at start, a sequence of entries
    Modes,        \* the mode flags a behaviour may start with
    Gestures,     \* the client gestures allowed
    MaxFailures   \* MAX_CONSECUTIVE_EOF_FAILURES (3 in the code)

D == INSTANCE Director

ModeFlags == [single : BOOLEAN, repeat : BOOLEAN, random : BOOLEAN, consume : BOOLEAN]
GestureKinds == {"play", "stop", "clear", "delete", "pause", "resume"}

\* No entry has two rows: a row is given an id of its own when it is added.
Distinct(rows) == \A i, j \in DOMAIN rows : rows[i] = rows[j] => i = j

ASSUME PlaybackAssumption ==
    /\ NoEntry \notin Entry
    /\ Caller = {Spine, Client, Fader, Gone} /\ Cardinality(Caller) = 4
    /\ Cardinality(Deck) = 1
    /\ InitQueue \in Seq(Entry) /\ Distinct(InitQueue)
    /\ Modes \subseteq ModeFlags /\ Modes # {}
    /\ Gestures \subseteq GestureKinds
    /\ MaxFailures \in Nat \ {0}

VARIABLES
    queue,         \* the play queue
    current,       \* the row playback is on, 0 when there is none
    pendingPause,  \* reported Paused whatever the deck says
    modes,         \* single, repeat, random, consume
    fails,         \* consecutive errored ends without a frame between, capped
    origin,        \* the entry a failed-load walk started from
    continuing,    \* continuation_active: the entry a drained queue went on into
    slot,          \* pending_continuation_warm
    fade,          \* what the fade slot is doing
    pub,           \* the spine's publisher
    task,          \* [{Spine, Client} -> where each task is and what it holds]
    contested      \* a history flag, see Contest

queueVars == <<queue, current, pendingPause, modes, fails, origin, continuing>>
vars == <<mpv, actor, cmds, reply, ring, loads, eofs,
          queue, current, pendingPause, modes, fails, origin, continuing, slot, fade,
          pub, task, contested>>

deck == CHOOSE d \in Deck : TRUE

\* The gapless warm: armed with a timer, fired, or parked on the deck.  `fired'
\* tells the slot whose timer the spine is serving from one armed since.
Slot == [st : {"none", "armed"}, fired : BOOLEAN, entry : {NoEntry}]
        \cup [st : {"warmed"}, fired : {TRUE}, entry : Entry]
NoSlot == [st |-> "none", fired |-> FALSE, entry |-> NoEntry]

\* A ramp to or from silence, or the Pause at the foot of one, which holds the
\* slot's lock until the deck has answered.
Fades == {"none", "pauseOut", "pausing", "resumeIn"}

Pcs == {"idle", "advance", "goto", "loading", "todo", "orphan", "advanced",
        "prefetch", "unwarm", "load", "evict", "install"}

\* The straight-line ends of the handler's calls.
Todo == {"wait", "drop", "disarm", "arm"}

Task == [pc : Pcs,
         idx : Nat,                     \* the row the task is about
         item : Entry \cup {NoEntry},   \* the entry it captured
         ended : Entry \cup {NoEntry},  \* the entry of the Eof being served
         how : {"plain", "errored", "landed", "crossfaded"},
         flag : BOOLEAN,   \* the spine: is_true_drain, read before plan_next;
                           \* the client: the row was current / the deck was held
         todo : Seq(Todo)]
NoTask == [pc |-> "idle", idx |-> 0, item |-> NoEntry, ended |-> NoEntry,
           how |-> "plain", flag |-> FALSE, todo |-> << >>]

PlaybackInit ==
    /\ DeckInit
    /\ queue = InitQueue
    /\ current = 0
    /\ pendingPause = FALSE
    /\ modes \in Modes
    /\ fails = 0
    /\ origin = NoEntry
    /\ continuing = NoEntry
    /\ slot = NoSlot
    /\ fade = "none"
    /\ pub = D!PublisherInit
    /\ task = [c \in {Spine, Client} |-> NoTask]
    /\ contested = "no"
-----------------------------------------------------------------------------
EntryOf(l) == IF l = NoLoad THEN NoEntry ELSE l.entry
OnRow == current \in DOMAIN queue

\* reported_play_state: the one answer status, MPRIS and the checkpoint share.
Reported ==
    IF ~OnRow THEN "Stopped" ELSE IF pendingPause THEN "Paused" ELSE actor[deck].watch

\* warm_ready without a configured station: the row to park, 0 for none.
WarmReady ==
    IF Reported = "Playing" /\ continuing = NoEntry /\ ~IsTrueDrain(queue, current, modes)
    THEN LET n == PeekNextDeterministic(queue, current, modes) IN IF n = current THEN 0 ELSE n
    ELSE 0

At(c, pc) == task[c].pc = pc

\* Nothing is under way anywhere, and the deck is where it says it is.
Settled ==
    /\ ring = << >> /\ cmds[deck] = << >> /\ actor[deck].out = << >>
    /\ mpv[deck].ends = << >> /\ ~actor[deck].adrift
    /\ At(Spine, "idle") /\ At(Client, "idle") /\ fade = "none"

\* The Eof events the actor has emitted and the spine has not read.
EofsSent ==
    {<<"out", i>> : i \in {j \in DOMAIN actor[deck].out :
                            actor[deck].out[j].what = "send" /\ actor[deck].out[j].ev.kind = "Eof"}}
    \cup {<<"ring", i>> : i \in {j \in DOMAIN ring : ring[j].kind = "Eof"}}

\* "yes" since a gesture, or a ramp, has met the end of a track, or a handler
\* call of the spine's, half-way: the advance then counts from whatever row
\* playback is on by the time it looks.  "late" since the spine has given up on
\* an answer: what it asked for may happen yet.  A play made while nothing is
\* under way, of rows with an entry each, starts afresh once its load is accepted.
Met ==
    /\ EndQueued(deck) \/ EofsSent # {} \/ ~At(Spine, "idle")
    /\ ~At(Client, "idle") \/ fade # "none"
Unmet == contested \in {"no", "late"}
Contest == contested' = IF Met THEN "yes" ELSE contested
GiveUp == contested' = IF Met THEN "yes" ELSE IF contested = "no" THEN "late" ELSE contested

\* Room for one more load: what the bound MaxLoads still allows once every end
\* and every gesture under way has had its load.
InFlight ==
    Len(mpv[deck].ends) + Cardinality(EofsSent)
    + (IF task[Spine].pc \in {"advance", "goto"} THEN 1 ELSE 0)
    + (IF task[Client].pc = "load" THEN 1 ELSE 0)
Room == loads + InFlight < MaxLoads

Answered(c) == reply[c] # "wait"
Goto(c, pc) == task' = [task EXCEPT ![c].pc = pc]

\* A handler call goes on with what it still has to do, or returns.
Returned(c) == IF c = Spine THEN [task[c] EXCEPT !.pc = "advanced", !.todo = << >>] ELSE NoTask
Continue(c, todo) ==
    task' = [task EXCEPT ![c] = IF todo = << >> THEN Returned(c)
                                ELSE [@ EXCEPT !.pc = "todo", !.todo = todo]]
Reschedule == <<"disarm", "arm">>

Ask(c, op) == Request(deck, c, op, NoLoad) /\ UNCHANGED loads
AskLoad(c, op, e) == RequestLoad(deck, c, op, e)
DeckQuiet == UNCHANGED <<mpv, actor, ring, eofs>> /\ Contest
NoRequest == UNCHANGED <<cmds, reply, loads>>
-----------------------------------------------------------------------------
(***************************************************************************)
(* The spine reads its ring.                                               *)
(***************************************************************************)
SpineReads(kind) ==
    /\ At(Spine, "idle") /\ ring # << >> /\ Head(ring).kind = kind
    /\ ring' = Tail(ring)
    /\ Contest
    /\ UNCHANGED <<mpv, actor, eofs, cmds, reply, loads, slot, fade>>

SpinePlaying ==
    /\ SpineReads("Playing")
    /\ pub' = D!OnPlaying(pub, EntryOf(Head(ring).load))
    /\ UNCHANGED <<queueVars, task>>

SpinePaused ==
    /\ SpineReads("Paused")
    /\ pub' = D!OnPaused(pub)
    /\ UNCHANGED <<queueVars, task>>

SpineStopped ==
    /\ SpineReads("Stopped")
    /\ pub' = D!OnStopped(pub)
    /\ UNCHANGED <<queueVars, task>>

\* A position of the entry the publisher has latched proves that sound came
\* out (note_playback_progress): the failure run and the walk are over.
SpineTimePos ==
    /\ SpineReads("TimePos")
    /\ IF Head(ring).load # NoLoad /\ EntryOf(Head(ring).load) = pub.latch
       THEN fails' = 0 /\ origin' = NoEntry
       ELSE UNCHANGED <<fails, origin>>
    /\ UNCHANGED <<queue, current, pendingPause, modes, continuing, pub, task>>

\* TrackEnd goes out before anything advances.
SpineEof ==
    /\ SpineReads("Eof")
    /\ pub' = D!OnEof(pub, EntryOf(Head(ring).load))
    /\ task' = [task EXCEPT ![Spine] =
                 [NoTask EXCEPT !.pc = "advance", !.ended = EntryOf(Head(ring).load),
                                !.how = Head(ring).flag]]
    /\ UNCHANGED queueVars
-----------------------------------------------------------------------------
(***************************************************************************)
(* advance_on_eof.                                                         *)
(***************************************************************************)
Errored == task[Spine].how = "errored"
Landed == task[Spine].how = "landed"

\* note_eof_load_outcome.
FailsAfter == IF ~Errored THEN 0 ELSE IF fails < MaxFailures THEN fails + 1 ELSE fails
OriginAfter == IF Errored THEN origin ELSE NoEntry

\* The row an entry is brought back to, or the one we are on if it is gone.
BackTo(e) == IF e # NoEntry /\ PositionOf(queue, e) # 0 THEN PositionOf(queue, e) ELSE current

\* Variant: the walk stops at whatever failed last.
HaltFailedAdvanceStaysPut ==
    /\ At(Spine, "advance") /\ FailsAfter >= MaxFailures
    /\ fails' = FailsAfter /\ origin' = OriginAfter
    /\ pendingPause' = (pendingPause \/ OnRow)
    /\ Goto(Spine, "advanced")
    /\ DeckQuiet /\ NoRequest /\ UNCHANGED <<queue, current, modes, continuing, slot, fade, pub>>

\* The fuse: the walk stops, the position goes back to where it started, and
\* the deck is held.
HaltFailedAdvance ==
    /\ At(Spine, "advance") /\ FailsAfter >= MaxFailures
    /\ fails' = FailsAfter /\ origin' = OriginAfter
    /\ current' = BackTo(OriginAfter)
    /\ pendingPause' = (pendingPause \/ BackTo(OriginAfter) \in DOMAIN queue)
    /\ Goto(Spine, "advanced")
    /\ DeckQuiet /\ NoRequest /\ UNCHANGED <<queue, modes, continuing, slot, fade, pub>>

\* plan_next: is this the end of the queue, and not of what it was continued by;
\* the target of the advance; and the row `consume' evicts - unless
\* the advance is a step of a failed-load walk.
PlanNext ==
    /\ At(Spine, "advance") /\ FailsAfter < MaxFailures
    /\ fails' = FailsAfter /\ origin' = OriginAfter
    /\ LET len == Len(queue)
           eats == modes.consume /\ OriginAfter = NoEntry /\ current # 0 /\ len # 0
           rest == IF eats /\ current <= len THEN RemoveRow(queue, current) ELSE queue IN
       \E n \in IF current = 0 THEN {0} ELSE PeekNextFrom(queue, current, TRUE, modes) :
           /\ queue' = rest
           /\ task' = [task EXCEPT ![Spine].pc = "goto",
                                   ![Spine].flag = /\ IsTrueDrain(queue, current, modes)
                                                   /\ ~(OnRow /\ queue[current] = continuing),
                                   ![Spine].idx =
                                       IF eats /\ n # 0
                                       THEN ConsumeTarget(n, current, Len(rest), modes.repeat)
                                       ELSE n]
    /\ DeckQuiet /\ NoRequest /\ UNCHANGED <<current, pendingPause, modes, continuing, slot, fade, pub>>

Target == task[Spine].idx

\* The warm survived every disarm and names the row plan_next chose.
SlotNamesTarget ==
    slot.st = "warmed" /\ Target \in DOMAIN queue /\ queue[Target] = slot.entry

\* Variant: the row is counted from the one that ended, which `consume' has moved.
CommitLandedAdvanceCounts ==
    /\ At(Spine, "goto") /\ Target # 0
    /\ Landed /\ SlotNamesTarget
    /\ current' = current + 1 /\ pendingPause' = FALSE
    /\ slot' = NoSlot
    /\ Continue(Spine, Reschedule)
    /\ DeckQuiet /\ NoRequest /\ UNCHANGED <<queue, modes, continuing, fails, origin, fade, pub>>

\* The gapless arm: mpv is already in the next row, so it is committed unloaded.
CommitLandedAdvance ==
    /\ At(Spine, "goto") /\ Target # 0
    /\ Landed /\ SlotNamesTarget
    /\ current' = Target /\ pendingPause' = FALSE
    /\ slot' = NoSlot
    /\ Continue(Spine, Reschedule)
    /\ DeckQuiet /\ NoRequest /\ UNCHANGED <<queue, modes, continuing, fails, origin, fade, pub>>

\* The cold arm: play_index_inner captures the row and asks for the load.
AdvanceLoads ==
    /\ At(Spine, "goto") /\ Target # 0
    /\ ~(Landed /\ SlotNamesTarget)
    /\ IF Target \in DOMAIN queue
       THEN AskLoad(Spine, "PlayUrl", queue[Target]) /\ Goto(Spine, "loading")
       ELSE NoRequest /\ Goto(Spine, "advanced")
    /\ DeckQuiet /\ UNCHANGED <<queueVars, slot, fade, pub>>

\* Nothing follows, but mpv landed somewhere: the slot is taken whatever it
\* holds.  A warmed one becomes a row of its own at the end of the queue, any
\* other means an orphan is sounding and must be stopped.
LandedNowhere ==
    /\ At(Spine, "goto") /\ Target = 0
    /\ Landed /\ task[Spine].flag
    /\ slot' = NoSlot
    /\ IF slot.st = "warmed"
       THEN /\ queue' = Append(queue, slot.entry)
            /\ current' = Len(queue) + 1 /\ pendingPause' = FALSE
            /\ continuing' = slot.entry
            /\ NoRequest /\ Goto(Spine, "advanced")
       ELSE /\ Ask(Spine, "Stop") /\ Goto(Spine, "orphan")
            /\ UNCHANGED <<queue, current, pendingPause, continuing>>
    /\ DeckQuiet /\ UNCHANGED <<modes, fails, origin, fade, pub>>

\* The honest stop at the end of the queue.  A walk that fell off a short queue
\* is held where it began instead.
DrainTerminal ==
    /\ \/ At(Spine, "goto") /\ Target = 0 /\ ~(Landed /\ task[Spine].flag)
       \/ At(Spine, "orphan") /\ Answered(Spine)
    /\ LET back == IF origin = NoEntry THEN 0 ELSE PositionOf(queue, origin) IN
       current' = back /\ pendingPause' = (back # 0)
    /\ continuing' = NoEntry
    /\ Goto(Spine, "advanced")
    /\ DeckQuiet /\ NoRequest /\ UNCHANGED <<queue, modes, fails, origin, slot, fade, pub>>

\* Variant: an advance that returned is an advance that advanced.
AdvanceReturnsAlwaysMarks ==
    /\ At(Spine, "advanced")
    /\ pub' = D!MarkAdvanced([pub EXCEPT !.edges = << >>])
    /\ task' = [task EXCEPT ![Spine] = NoTask]
    /\ DeckQuiet /\ NoRequest /\ UNCHANGED <<queueVars, slot, fade>>

\* Back in the director: if the queue moved to another entry, the Stopped that
\* trails the Eof is a transient to swallow.
AdvanceReturns ==
    /\ At(Spine, "advanced")
    /\ pub' = IF OnRow /\ queue[current] # task[Spine].ended
              THEN D!MarkAdvanced([pub EXCEPT !.edges = << >>]) ELSE [pub EXCEPT !.edges = << >>]
    /\ task' = [task EXCEPT ![Spine] = NoTask]
    /\ DeckQuiet /\ NoRequest /\ UNCHANGED <<queueVars, slot, fade>>
-----------------------------------------------------------------------------
(***************************************************************************)
(* What a load, a disarm and a re-arm do, whichever task runs them.        *)
(***************************************************************************)
\* Variant: the index is committed whatever mpv answered.
LoadReturnsCommitsAnyway(c) ==
    /\ At(c, "loading") /\ Answered(c)
    /\ current' = task[c].idx
    /\ Continue(c, IF reply[c] = "ok" THEN Reschedule ELSE << >>)
    /\ DeckQuiet /\ NoRequest
    /\ UNCHANGED <<queue, pendingPause, modes, continuing, fails, origin, slot, fade, pub>>

\* play_index_inner after its await: the index read before it is committed.  A
\* deck that was held is held again if the load was refused.
LoadReturns(c) ==
    /\ At(c, "loading") /\ Answered(c)
    /\ IF reply[c] = "ok"
       THEN /\ current' = task[c].idx /\ UNCHANGED pendingPause
            /\ Continue(c, Reschedule)
       ELSE /\ current' = current
            /\ pendingPause' = (pendingPause \/ (c = Client /\ task[c].flag /\ OnRow))
            /\ Continue(c, << >>)
    /\ contested' = IF Met THEN "yes"
                    ELSE IF c = Client /\ contested = "afresh"
                    THEN IF reply[c] = "ok" THEN "no" ELSE "yes"
                    ELSE contested
    /\ UNCHANGED <<mpv, actor, ring, eofs>> /\ NoRequest
    /\ UNCHANGED <<queue, modes, continuing, fails, origin, slot, fade, pub>>

Doing(c, what) == At(c, "todo") /\ Head(task[c].todo) = what
Rest(c) == Tail(task[c].todo)

\* disarm_continuation_warm: take the slot, and drop what it parked.
Disarm(c) ==
    /\ Doing(c, "disarm")
    /\ slot' = NoSlot
    /\ IF slot.st = "warmed" THEN Ask(c, "DropWarm") /\ Continue(c, <<"wait">> \o Rest(c))
       ELSE NoRequest /\ Continue(c, Rest(c))
    /\ DeckQuiet /\ UNCHANGED <<queueVars, fade, pub>>

Drop(c) ==
    /\ Doing(c, "drop")
    /\ Ask(c, "DropWarm") /\ Continue(c, <<"wait">> \o Rest(c))
    /\ DeckQuiet /\ UNCHANGED <<queueVars, slot, fade, pub>>

Waited(c) ==
    /\ Doing(c, "wait") /\ Answered(c)
    /\ Continue(c, Rest(c))
    /\ DeckQuiet /\ NoRequest /\ UNCHANGED <<queueVars, slot, fade, pub>>

\* reschedule_continuation_warm: one fresh timer, behind a deck that plays.
Arm(c) ==
    /\ Doing(c, "arm")
    /\ slot' = IF WarmReady = 0 THEN slot
               ELSE [st |-> "armed", fired |-> FALSE, entry |-> NoEntry]
    /\ Continue(c, Rest(c))
    /\ DeckQuiet /\ NoRequest /\ UNCHANGED <<queueVars, fade, pub>>
-----------------------------------------------------------------------------
(***************************************************************************)
(* on_continuation_warm_fire, which the spine runs between two events.     *)
(***************************************************************************)
\* The timer is polled behind the ring (the spine's select is biased).
WarmFires ==
    /\ At(Spine, "idle") /\ ring = << >>
    /\ slot.st = "armed" /\ ~slot.fired /\ Room
    /\ IF WarmReady = 0
       THEN slot' = NoSlot /\ NoRequest /\ UNCHANGED task
       ELSE /\ slot' = [slot EXCEPT !.fired = TRUE]
            /\ AskLoad(Spine, "PrefetchContinuation", queue[WarmReady])
            /\ task' = [task EXCEPT ![Spine].pc = "prefetch", ![Spine].item = queue[WarmReady]]
    /\ DeckQuiet /\ UNCHANGED <<queueVars, fade, pub>>

OursStill == slot.st = "armed" /\ slot.fired

\* Variant: the slot is marked before it is told what it holds.
PrefetchReturnsUnnamed ==
    /\ At(Spine, "prefetch") /\ Answered(Spine)
    /\ slot' = IF OursStill THEN [slot EXCEPT !.st = "warmed"] ELSE slot
    /\ task' = [task EXCEPT ![Spine] = NoTask]
    /\ DeckQuiet /\ NoRequest /\ UNCHANGED <<queueVars, fade, pub>>

\* The slot is ours still, or what was parked must come off the deck again.
PrefetchReturns ==
    /\ At(Spine, "prefetch") /\ Answered(Spine)
    /\ LET ok == reply[Spine] = "ok" IN
       /\ slot' = IF ~OursStill THEN slot
                  ELSE IF ok THEN [slot EXCEPT !.st = "warmed", !.entry = task[Spine].item]
                  ELSE NoSlot
       /\ IF ok /\ ~OursStill THEN Ask(Spine, "DropWarm") /\ Goto(Spine, "unwarm")
          ELSE NoRequest /\ task' = [task EXCEPT ![Spine] = NoTask]
    /\ DeckQuiet /\ UNCHANGED <<queueVars, fade, pub>>

Unwarmed ==
    /\ At(Spine, "unwarm") /\ Answered(Spine)
    /\ task' = [task EXCEPT ![Spine] = NoTask]
    /\ DeckQuiet /\ NoRequest /\ UNCHANGED <<queueVars, slot, fade, pub>>

\* ADVANCE_TIMEOUT.  Twenty seconds are long for an actor that runs, so the
\* timeout is taken to strike only when the actor is blocked on a full ring -
\* the very ring the waiting spine is not reading.  The future is dropped; the
\* command it sent is not.
Wedged ==
    /\ actor[deck].out # << >> /\ Head(actor[deck].out).what = "send"
    /\ Len(ring) = RingCap

Abandon(x) == IF x.by = Spine THEN [x EXCEPT !.by = Gone] ELSE x
AbandonReply(x) == IF x.what = "reply" /\ x.to = Spine THEN [x EXCEPT !.to = Gone] ELSE x

\* Variant: only the load is bounded, not the calls that follow it.
AdvanceTimeoutLoadsOnly ==
    /\ At(Spine, "loading") /\ reply[Spine] = "wait" /\ Wedged
    /\ reply' = [reply EXCEPT ![Spine] = "none"]
    /\ cmds' = [cmds EXCEPT ![deck] = [i \in DOMAIN @ |-> Abandon(@[i])]]
    /\ actor' = [actor EXCEPT ![deck].out = [i \in DOMAIN @ |-> AbandonReply(@[i])]]
    /\ task' = [task EXCEPT ![Spine] = Returned(Spine)]
    /\ GiveUp /\ UNCHANGED <<mpv, ring, loads, eofs, queueVars, slot, fade, pub>>

AdvanceTimeout ==
    /\ task[Spine].pc \in {"loading", "todo", "orphan", "prefetch", "unwarm"}
    /\ reply[Spine] = "wait" /\ Wedged
    /\ reply' = [reply EXCEPT ![Spine] = "none"]
    /\ cmds' = [cmds EXCEPT ![deck] = [i \in DOMAIN @ |-> Abandon(@[i])]]
    /\ actor' = [actor EXCEPT ![deck].out = [i \in DOMAIN @ |-> AbandonReply(@[i])]]
    /\ task' = [task EXCEPT ![Spine] =
                 IF @.pc \in {"prefetch", "unwarm"} THEN NoTask ELSE Returned(Spine)]
    /\ GiveUp /\ UNCHANGED <<mpv, ring, loads, eofs, queueVars, slot, fade, pub>>
-----------------------------------------------------------------------------
(***************************************************************************)
(* The client's gestures.                                                  *)
(***************************************************************************)
Gesture(g) == g \in Gestures /\ At(Client, "idle")

\* cancel_with: the ramp is aborted, once its terminal has let go of the slot.
CancelFade == fade # "pausing" /\ fade' = "none"

\* play_index: the fuse is armed at the chosen entry, the row is captured and
\* a standing hold is retired; the load is asked for after set_volume's await.
PlayIndex(i, held) ==
    /\ CancelFade
    /\ fails' = 0 /\ origin' = queue[i]
    /\ pendingPause' = FALSE
    /\ task' = [task EXCEPT ![Client] =
                 [NoTask EXCEPT !.pc = "load", !.idx = i, !.item = queue[i], !.flag = held]]
    /\ contested' = IF Settled /\ contested # "no" /\ Distinct(queue) THEN "afresh" ELSE contested
    /\ UNCHANGED <<mpv, actor, ring, eofs>> /\ NoRequest
    /\ UNCHANGED <<queue, current, modes, continuing, slot, pub>>

ClientPlay == Gesture("play") /\ Room /\ \E i \in DOMAIN queue : PlayIndex(i, FALSE)

\* resume_by_loading_current: a deck held with nothing loaded is picked up.
ClientPicksUp ==
    /\ Gesture("resume") /\ Room
    /\ Reported = "Paused" /\ actor[deck].watch = "Stopped"
    /\ PlayIndex(current, TRUE)

ClientLoads ==
    /\ At(Client, "load")
    /\ AskLoad(Client, "PlayUrl", task[Client].item) /\ Goto(Client, "loading")
    /\ DeckQuiet /\ UNCHANGED <<queueVars, slot, fade, pub>>

\* The gesture has sent a command and will go on with `todo' once it returns.
Sent(op, todo) == Ask(Client, op) /\ Continue(Client, <<"wait">> \o todo)

\* stop_playback.
ClientStop ==
    /\ Gesture("stop") /\ CancelFade
    /\ pendingPause' = FALSE
    /\ Sent("Stop", <<"disarm">>)
    /\ DeckQuiet /\ UNCHANGED <<queue, current, modes, continuing, fails, origin, slot, pub>>

\* Variant: the rows go, the deck plays on.
ClientClearLeavesPlaying ==
    /\ Gesture("clear") /\ CancelFade
    /\ queue' = << >> /\ current' = 0 /\ pendingPause' = FALSE
    /\ NoRequest /\ Continue(Client, <<"disarm">>)
    /\ DeckQuiet /\ UNCHANGED <<modes, continuing, fails, origin, slot, pub>>

ClientClear ==
    /\ Gesture("clear") /\ CancelFade
    /\ queue' = << >> /\ current' = 0 /\ pendingPause' = FALSE
    /\ Sent("Stop", <<"disarm">>)
    /\ DeckQuiet /\ UNCHANGED <<modes, continuing, fails, origin, slot, pub>>

\* delete_at classifies the row, and only then takes it out.
ClientDelete ==
    /\ Gesture("delete")
    /\ \E i \in DOMAIN queue :
        /\ i = current => Reported # "Playing"
        /\ task' = [task EXCEPT ![Client] =
                     [NoTask EXCEPT !.pc = "evict", !.item = queue[i], !.flag = (i = current)]]
    /\ DeckQuiet /\ NoRequest /\ UNCHANGED <<queueVars, slot, fade, pub>>

\* evict_qid, on the classification made before: a plan edit, or the row a
\* silent deck is on, which takes the deck down with it.
ClientEvicts ==
    /\ At(Client, "evict")
    /\ LET pos == PositionOf(queue, task[Client].item) IN
       /\ queue' = IF pos = 0 THEN queue ELSE RemoveRow(queue, pos)
       /\ current' = IF pos = 0 THEN current ELSE Remap(current, pos)
    /\ IF task[Client].flag
       THEN CancelFade /\ pendingPause' = FALSE /\ Sent("Stop", Reschedule)
       ELSE UNCHANGED <<fade, pendingPause>> /\ NoRequest /\ Continue(Client, Reschedule)
    /\ DeckQuiet /\ UNCHANGED <<modes, continuing, fails, origin, slot, pub>>

\* pause_with_fade: Paused is reported at once, the ramp goes on, and whatever
\* is parked is dropped.
ClientPause ==
    /\ Gesture("pause") /\ Reported = "Playing"
    /\ fade # "pausing" /\ fade' = "pauseOut"
    /\ pendingPause' = TRUE
    /\ Sent("DropWarm", Reschedule \o <<"drop", "disarm">>)
    /\ DeckQuiet /\ UNCHANGED <<queue, current, modes, continuing, fails, origin, slot, pub>>

\* resume_with_fade: settled or still descending is decided under the slot's
\* lock; only a settled pause needs the deck to resume.
ClientResume ==
    /\ Gesture("resume")
    /\ Reported = "Paused" /\ actor[deck].watch # "Stopped"
    /\ CancelFade /\ pendingPause' = FALSE
    /\ IF actor[deck].watch = "Paused" THEN Ask(Client, "Resume") ELSE NoRequest
    /\ task' = [task EXCEPT ![Client] = [NoTask EXCEPT !.pc = "install"]]
    /\ DeckQuiet /\ UNCHANGED <<queue, current, modes, continuing, fails, origin, slot, pub>>

\* start_fade_spec puts the ramp up in the slot and re-arms, and so does its
\* caller.
ClientRampsUp ==
    /\ At(Client, "install") /\ Answered(Client)
    /\ fade # "pausing" /\ fade' = "resumeIn"
    /\ Sent("DropWarm", Reschedule \o Reschedule)
    /\ DeckQuiet /\ UNCHANGED <<queueVars, slot, pub>>

\* set_pause(false) over a stopped deck goes straight to the player.
ClientResumesStopped ==
    /\ Gesture("resume") /\ Reported = "Stopped"
    /\ Sent("Resume", << >>)
    /\ DeckQuiet /\ UNCHANGED <<queueVars, slot, fade, pub>>
-----------------------------------------------------------------------------
(***************************************************************************)
(* The fade task's terminals, under the slot's lock.                       *)
(***************************************************************************)
FadePauses ==
    /\ fade = "pauseOut" /\ fade' = "pausing"
    /\ Ask(Fader, "Pause")
    /\ DeckQuiet /\ UNCHANGED <<queueVars, slot, pub, task>>

\* The intent is fulfilled only if there was something to freeze.
FadePaused ==
    /\ fade = "pausing" /\ Answered(Fader) /\ fade' = "none"
    /\ pendingPause' = (pendingPause /\ actor[deck].watch = "Stopped")
    /\ DeckQuiet /\ NoRequest /\ UNCHANGED <<queue, current, modes, continuing, fails, origin, slot, pub, task>>

\* SetBaseline, at the top of the resume ramp.
FadeRestored ==
    /\ fade = "resumeIn" /\ fade' = "none"
    /\ pendingPause' = (pendingPause /\ actor[deck].watch = "Stopped")
    /\ DeckQuiet /\ NoRequest /\ UNCHANGED <<queue, current, modes, continuing, fails, origin, slot, pub, task>>
-----------------------------------------------------------------------------
SpineStep ==
    \/ SpinePlaying \/ SpinePaused \/ SpineStopped \/ SpineTimePos \/ SpineEof
    \/ HaltFailedAdvance \/ PlanNext \/ CommitLandedAdvance \/ AdvanceLoads
    \/ LandedNowhere \/ DrainTerminal \/ AdvanceReturns
    \/ PrefetchReturns \/ Unwarmed \/ AdvanceTimeout

\* A gesture, or a timer, may begin at any moment; once begun it goes on.
Begin ==
    \/ WarmFires
    \/ ClientPlay \/ ClientPicksUp \/ ClientStop \/ ClientClear \/ ClientDelete
    \/ ClientPause \/ ClientResume \/ ClientResumesStopped

ClientStep == ClientLoads \/ ClientEvicts \/ ClientRampsUp
FadeStep == FadePauses \/ FadePaused \/ FadeRestored

TaskStep(c) == LoadReturns(c) \/ Disarm(c) \/ Drop(c) \/ Waited(c) \/ Arm(c)

DeckFrame == Contest /\ UNCHANGED <<queueVars, slot, fade, pub, task>>

\* mpv ends no more files than the bound on loads has room for.
DeckStep ==
    /\ \/ ActorStep(deck)
       \/ MpvPosition(deck)
       \/ Room /\ MpvFileEnds(deck)
    /\ DeckFrame

PlaybackNext ==
    \/ DeckStep \/ SpineStep \/ Begin \/ ClientStep \/ FadeStep
    \/ \E c \in {Spine, Client} : TaskStep(c)

PlaybackSpec == PlaybackInit /\ [][PlaybackNext]_vars

\* The actor is a thread of its own; tokio runs the spine and the client's task
\* whenever they can go on.  Nothing is promised of mpv, of timers or of users.
PlaybackFairSpec ==
    /\ PlaybackSpec
    /\ WF_vars((ActorEffect(deck) \/ HandleCmd(deck)) /\ DeckFrame)
    /\ WF_vars(SpineStep \/ TaskStep(Spine))
    /\ WF_vars(ClientStep \/ TaskStep(Client))
    /\ WF_vars(FadeStep)
-----------------------------------------------------------------------------
PlaybackTypeOK ==
    /\ TypeOK
    /\ queue \in Seq(Entry)
    /\ current \in Nat
    /\ pendingPause \in BOOLEAN
    /\ modes \in ModeFlags
    /\ fails \in 0..MaxFailures
    /\ {origin, continuing} \subseteq Entry \cup {NoEntry}
    /\ slot \in Slot
    /\ fade \in Fades
    /\ contested \in {"no", "yes", "late", "afresh"}
    /\ task \in [{Spine, Client} -> Task]

\* Whatever raced whatever, observers end up with the track the deck has, by
\* the identity its events carried.
ObserversKnowTheTrack == Settled => pub.latch = EntryOf(actor[deck].latch)

\* And with its play state: no Stopped that mattered was swallowed as the gap
\* of an advance.  A deck held with nothing loaded is the exception HaltSurfaces
\* is about.
ObserversKnowTheState ==
    Settled /\ Unmet /\ Reported # "Paused" => pub.last = actor[deck].watch

\* The claim made of the swallowed Stopped: a real halt surfaces, so a deck the
\* fuse has stopped is not left Playing in observers' eyes.
HaltSurfaces ==
    Settled /\ contested = "no" /\ Reported = "Paused" /\ actor[deck].watch = "Stopped"
        => pub.last = "Stopped"

\* Paused is never reported over a deck that plays, once nothing is under way.
PausedIsSilent == Settled /\ Reported = "Paused" => actor[deck].watch # "Playing"

\* The row playback is on is the entry the deck has, playing or paused, unless
\* contested.
RowAgrees ==
    Settled /\ contested = "no" /\ actor[deck].watch # "Stopped" =>
        OnRow /\ queue[current] = actor[deck].latch.entry

\* A deck that reports Stopped is silent.
StoppedIsSilent == Settled /\ Unmet /\ Reported = "Stopped" => mpv[deck].pos = 0

\* The claim made of a refused advance: the row stays at the track that ended.
RefusedAdvanceKeepsRow ==
    [][LoadReturns(Spine) /\ reply[Spine] = "err" /\ contested = "no"
        => OnRow' /\ queue'[current'] = task[Spine].ended]_vars

\* An advance goes to the entry behind the one it leaves, whatever `consume' does
\* to the indices in between.
AdvanceKeepsOrder ==
    [][PlanNext /\ ~modes.random /\ ~modes.single /\ OnRow /\ current < Len(queue)
        => /\ task'[Spine].idx \in DOMAIN queue'
           /\ queue'[task'[Spine].idx] = queue[current + 1]]_vars

\* A walk over dead entries that found nothing to play hands the position back.
FailedWalkReturns ==
    Settled /\ Reported = "Paused" /\ actor[deck].watch = "Stopped"
        /\ origin # NoEntry /\ PositionOf(queue, origin) # 0
        => queue[current] = origin

\* The edges the spine has yet to read start in the ring and go on in what the
\* actor has still to send; the next is a Playing of this entry.
NextIsPlaying(e) ==
    \/ ring # << >> /\ Head(ring).kind = "Playing" /\ EntryOf(Head(ring).load) = e
    \/ /\ ring = << >>
       /\ \E i \in DOMAIN actor[deck].out :
             LET sent == actor[deck].out[i] IN
             /\ sent.what = "send" /\ sent.ev.kind = "Playing" /\ EntryOf(sent.ev.load) = e
             /\ \A j \in 1..(i - 1) : actor[deck].out[j].what # "send"

\* A gapless commit names the entry mpv has really gone into, the one the deck's
\* next edge will announce, unless contested.
LandedRowIsPlaying ==
    [][CommitLandedAdvance /\ contested' = "no"
        => current' \in DOMAIN queue /\ NextIsPlaying(queue[current'])]_vars

\* The claim made of every gapless commit, contested or not: mpv has already
\* advanced into the row (commit_landed_advance), which the slot's entry being that
\* of the row makes sure of (advance_on_eof).
LandedCommitIsPlaying ==
    [][CommitLandedAdvance
        => current' \in DOMAIN queue /\ NextIsPlaying(queue[current'])]_vars

\* Observers see tracks open and close one at a time, each closed once.
L == INSTANCE TrackLifecycle WITH open <- pub.latch, edges <- pub.edges
ObserversSeeTracks == L!Spec

\* The spine always comes back to its ring, even when the actor it waits for is
\* blocked on that ring.
SpineComesBack == (task[Spine].pc # "idle") ~> (task[Spine].pc = "idle")

\* So does every gesture.
GestureReturns == (task[Client].pc # "idle") ~> (task[Client].pc = "idle")

\* After a track's end observers are shown another track or a stop, and not left
\* with Playing and no track, unless a gesture met the end.
EndIsResolved ==
    LET open == pub.last = "Playing" /\ pub.latch = NoEntry /\ Unmet IN
    open ~> ~open
=============================================================================
