---------------------------- MODULE PlanExecutor ----------------------------
(***************************************************************************)
(* Armed plans: crates/hypodj-core/src/executor.rs over the pure core of   *)
(* plan.rs and the registry of handler.rs (plan_add, plan_cancel and the   *)
(* single-instance features sleep, winddown and wake).                     *)
(*                                                                         *)
(* The director publishes every edge twice: losslessly to the executor and *)
(* lossily on a broadcast, which also carries positions.  The executor     *)
(* reads both in no fixed order, evaluates each event against the queue as *)
(* it is by then, and arms timers of TimerWheel, whose fires come back     *)
(* through the director.  Clients add and cancel plans at any time.        *)
(***************************************************************************)
EXTENDS TimerWheel, QueueOps, SequencesExt

CONSTANTS
    Entry, NoEntry,
    AlbumOf,      \* [Entry -> an album]
    InitQueue,    \* the queue at start, its first row playing
    Scenarios,    \* the bounds of a behaviour, one of which is chosen at the start
    Requester,    \* the tasks that add plans
    Duration,     \* the length of every track, in units of the clock
    Lead,         \* how long before the end a remaining-plan acts
    BcastCap      \* capacity of the broadcast (512 in the code)

D == INSTANCE Director

Kinds == {"immediate", "start", "album", "deadline", "remaining"}
Request == [kind : Kinds, origin : {"", "sleep"}]

\* What clients may ask for, and how many plans are added, positions reported,
\* rows deleted, and moves made by the world; how far the clock runs; the
\* `consume' flag; and who asks.
Scenario == [requests : SUBSET Request, plans : Nat, ticks : Nat, edits : Nat,
             moves : Nat, time : Nat, consume : BOOLEAN, by : SUBSET Requester]

ASSUME ExecutorAssumption ==
    /\ NoEntry \notin Entry /\ InitQueue \in Seq(Entry) /\ InitQueue # << >>
    /\ Scenarios \subseteq Scenario
    /\ {Duration, Lead, BcastCap} \subseteq Nat

VARIABLES
    queue, current, version,   \* the play queue, the row playback is on, playlist_version
    deck,      \* what is audible, and whether the spine has heard of it
    pos,       \* its position
    spine,     \* "idle", or "advance": between TrackEnd and plan_next
    goto,      \* the entry a play has loaded and not yet made current
    pub, seen, \* the publisher and the playlist_version it has cached
    trig,      \* the lossless edges on their way to the executor
    bcast,     \* the lossy mirror, and positions
    plans,     \* plan_pending: the registry, a set because ids are its only order
    draft,     \* [Requester -> a plan validated and not yet in the registry]
    nudges,    \* immediate plans handed to the executor
    minted,    \* next_plan_id
    exec,      \* the executor's last_version and paused
    acted,     \* history: every action run, with the time it ran
    ended,     \* history: the plans cancelled or expired
    bounds,    \* the scenario
    ticks, edits, moves    \* what it has used up

queueVars == <<queue, current, version>>
deckVars == <<deck, pos, spine, goto>>
pubVars == <<pub, seen, trig, bcast>>
planVars == <<plans, draft, nudges, minted, exec, acted, ended>>
worldVars == <<bounds, ticks, edits, moves>>
vars == <<wheelVars, queueVars, deckVars, pubVars, planVars, worldVars>>

Plan == [id : Nat \ {0}, kind : Kinds, origin : {"", "sleep"},
         entry : Entry \cup {NoEntry},   \* its target
         timer : Nat,                    \* the timer it waits for, 0 for none
         deadline : Nat]                 \* what that timer was armed for
NoPlan == [id |-> 0, kind |-> "immediate", origin |-> "", entry |-> NoEntry,
           timer |-> 0, deadline |-> 0]

Edge == {"TrackStart", "TrackEnd", "Playing", "Paused", "Stopped", "WallClock"}
Event == [kind : Edge \cup {"Tick", "Resync"}, entry : Entry \cup {NoEntry},
          timer : Nat, rem : Nat, now : Nat, version : Nat]

ExecutorInit ==
    /\ WheelInit
    /\ queue = InitQueue /\ current = 1 /\ version = 0
    /\ deck = [entry |-> InitQueue[1], st |-> "playing", told |-> TRUE]
    /\ pos = 0 /\ spine = "idle" /\ goto = NoEntry
    /\ pub = [latch |-> InitQueue[1], last |-> "Playing", suppress |-> FALSE, edges |-> << >>]
    /\ seen = 0 /\ trig = << >> /\ bcast = << >>
    /\ plans = {} /\ draft = [c \in Requester |-> NoPlan] /\ nudges = << >> /\ minted = 0
    /\ exec = [last |-> 0, paused |-> FALSE]
    /\ acted = {} /\ ended = {}
    /\ bounds \in Scenarios /\ ticks = 0 /\ edits = 0 /\ moves = 0
-----------------------------------------------------------------------------
(* The director. *)

EventOf(kind, entry, timer, rem, v) ==
    [kind |-> kind, entry |-> entry, timer |-> timer, rem |-> rem, now |-> clock, version |-> v]

\* A broadcast keeps its newest events; a slow reader loses the oldest.
Lossy(events) ==
    IF Len(events) <= BcastCap THEN events
    ELSE SubSeq(events, Len(events) - BcastCap + 1, Len(events))

\* Publisher::edge for each of `events', all stamped with the queue's version,
\* which it reads first: a version it has not seen is announced by a Resync.
Publish(events) ==
    /\ trig' = trig \o events
    /\ bcast' = Lossy(bcast \o (IF events = << >> \/ version = seen THEN << >>
                                ELSE <<EventOf("Resync", NoEntry, 0, 0, version)>>) \o events)
    /\ seen' = IF events = << >> THEN seen ELSE version

PublishEdges(p) ==
    /\ pub' = [p EXCEPT !.edges = << >>]
    /\ Publish([i \in DOMAIN p.edges |->
                    EventOf(p.edges[i].edge, p.edges[i].entry, 0, 0, version)])

\* One more move of the world.
Move == moves < bounds.moves /\ moves' = moves + 1 /\ UNCHANGED <<bounds, ticks, edits>>

SpinePlaying ==
    /\ spine = "idle" /\ ~deck.told
    /\ deck' = [deck EXCEPT !.told = TRUE]
    /\ PublishEdges(D!OnPlaying(pub, deck.entry))
    /\ UNCHANGED <<wheelVars, queueVars, pos, spine, goto, planVars, worldVars>>

SpinePaused ==
    /\ Move /\ spine = "idle" /\ deck.told /\ deck.st = "playing"
    /\ deck' = [deck EXCEPT !.st = "paused"]
    /\ PublishEdges(D!OnPaused(pub))
    /\ UNCHANGED <<wheelVars, queueVars, pos, spine, goto, planVars>>

SpineResumed ==
    /\ Move /\ spine = "idle" /\ deck.told /\ deck.st = "paused"
    /\ deck' = [deck EXCEPT !.st = "playing"]
    /\ PublishEdges(D!OnPlaying(pub, deck.entry))
    /\ UNCHANGED <<wheelVars, queueVars, pos, spine, goto, planVars>>

\* A position, of a track that plays or that has been sought while paused.
SpineTimePos ==
    /\ ticks < bounds.ticks /\ ticks' = ticks + 1
    /\ spine = "idle" /\ deck.told /\ pub.latch = deck.entry /\ deck.st # "stopped"
    /\ pos' \in 0..Duration
    /\ bcast' = Lossy(Append(bcast, EventOf("Tick", NoEntry, 0, Duration - pos', seen)))
    /\ UNCHANGED <<wheelVars, queueVars, deck, spine, goto, pub, seen, trig, planVars, bounds, edits, moves>>

SpineEof ==
    /\ Move /\ spine = "idle" /\ deck.told /\ deck.st = "playing" /\ goto = NoEntry
    /\ deck' = [deck EXCEPT !.st = "stopped"]
    /\ spine' = "advance"
    /\ PublishEdges(D!OnEof(pub, deck.entry))
    /\ UNCHANGED <<wheelVars, queueVars, pos, goto, planVars>>

\* The advance: plan_next, and the load of what it chose, or the end of the queue.
SpineAdvance ==
    /\ spine = "advance" /\ spine' = "idle"
    /\ LET next == IF current + 1 <= Len(queue) THEN current + 1 ELSE 0
           to == IF bounds.consume THEN ConsumeTarget(next, current, Len(queue) - 1, FALSE) ELSE next
           rest == IF bounds.consume /\ current \in DOMAIN queue THEN RemoveRow(queue, current) ELSE queue
       IN /\ queue' = rest
          /\ version' = IF rest = queue THEN version ELSE version + 1
          /\ current' = to
          /\ deck' = IF to = 0 THEN [entry |-> NoEntry, st |-> "stopped", told |-> TRUE]
                     ELSE [entry |-> rest[to], st |-> "playing", told |-> FALSE]
          /\ pos' = 0
          /\ IF to = 0 THEN PublishEdges(D!OnStopped(pub)) ELSE UNCHANGED pubVars
    /\ UNCHANGED <<wheelVars, goto, planVars, worldVars>>

SpineFires ==
    /\ fires # << >> /\ spine = "idle"
    /\ fires' = Tail(fires)
    /\ Publish(<<EventOf("WallClock", NoEntry, Head(fires), 0, version)>>)
    /\ UNCHANGED <<clock, due, guards, ctl, heap, live, firing, rung,
                   queueVars, deckVars, pub, planVars, worldVars>>
-----------------------------------------------------------------------------
(* Clients of the queue. *)

\* A play: the deck has the new entry before the row is made current.
PlayIndex(i) ==
    /\ Move /\ goto = NoEntry /\ spine = "idle" /\ deck.told
    /\ i \in DOMAIN queue /\ queue[i] # deck.entry
    /\ deck' = [entry |-> queue[i], st |-> "playing", told |-> FALSE]
    /\ pos' = 0 /\ goto' = queue[i]
    /\ UNCHANGED <<wheelVars, queueVars, spine, pubVars, planVars>>

PlayIndexReturns ==
    /\ goto # NoEntry /\ goto' = NoEntry
    /\ current' = PositionOf(queue, goto)
    /\ UNCHANGED <<wheelVars, queue, version, deck, pos, spine, pubVars, planVars, worldVars>>

DeleteRow(i) ==
    /\ edits < bounds.edits /\ edits' = edits + 1
    /\ i \in DOMAIN queue \ {current} /\ queue[i] # goto /\ queue[i] # deck.entry
    /\ queue' = RemoveRow(queue, i) /\ current' = Remap(current, i)
    /\ version' = version + 1
    /\ UNCHANGED <<wheelVars, deckVars, pubVars, planVars, bounds, ticks, moves>>
-----------------------------------------------------------------------------
(* The registry. *)

TimersOf(ps) == {p.timer : p \in ps} \ {0}

\* The registry becomes `new', after `deadlines' were armed in order: every
\* timer no plan of it holds is dropped, and its guard sends a Cancel.
Registry(new, deadlines) ==
    LET fresh == (Len(due) + 1)..(Len(due) + Len(deadlines))
        dropped == (TimersOf(plans) \cup fresh) \ TimersOf(new)
    IN /\ plans' = new
       /\ due' = due \o deadlines
       /\ guards' = (guards \cup fresh) \ dropped
       /\ ctl' = ctl \o [k \in 1..Len(deadlines) |-> [op |-> "Arm", id |-> Len(due) + k]]
                     \o SetToSeq({[op |-> "Cancel", id |-> t] : t \in dropped})
       /\ UNCHANGED <<clock, heap, live, firing, fires, rung>>

\* validate: the entries a request may name.  A start must lie ahead of the
\* row playback is on.
TargetsOf(kind) ==
    CASE kind = "start" -> {queue[i] : i \in {j \in DOMAIN queue : current # 0 /\ j > current}}
      [] kind \in {"album", "remaining"} -> {queue[i] : i \in DOMAIN queue}
      [] OTHER -> {NoEntry}

\* prepare_batch: validated against the queue as it is now, with its timer
\* armed, and not yet in the registry.  A deadline that is not ahead is refused.
Prepare(c) ==
    /\ c \in bounds.by /\ draft[c] = NoPlan /\ minted < bounds.plans
    /\ \E r \in bounds.requests : \E q \in TargetsOf(r.kind) :
       \E at \in IF r.kind = "deadline" THEN (clock + 1)..bounds.time ELSE {0} :
          /\ draft' = [draft EXCEPT ![c] =
                [id |-> minted + 1, kind |-> r.kind, origin |-> r.origin, entry |-> q,
                 timer |-> IF r.kind = "deadline" THEN Len(due) + 1 ELSE 0, deadline |-> at]]
          /\ IF r.kind = "deadline"
             THEN Arm(at) /\ UNCHANGED <<clock, heap, live, firing, fires, rung>>
             ELSE UNCHANGED wheelVars
    /\ minted' = minted + 1
    /\ UNCHANGED <<queueVars, deckVars, pubVars, plans, nudges, exec, acted, ended, worldVars>>

\* Variant: set_singleton adds the replacement beside the plan it replaces.
CommitBeside(c) ==
    /\ draft[c] # NoPlan
    /\ Registry(plans \cup {draft[c]}, << >>)
    /\ nudges' = IF draft[c].kind = "immediate" THEN Append(nudges, draft[c].id) ELSE nudges
    /\ draft' = [draft EXCEPT ![c] = NoPlan]
    /\ UNCHANGED <<queueVars, deckVars, pubVars, minted, exec, acted, ended, worldVars>>

\* Variant: the guard of a plan's timer does not outlive its preparation.
CommitWithoutGuard(c) ==
    /\ draft[c] # NoPlan
    /\ plans' = plans \cup {draft[c]}
    /\ guards' = guards \ {draft[c].timer}
    /\ ctl' = IF draft[c].timer = 0 THEN ctl ELSE Append(ctl, [op |-> "Cancel", id |-> draft[c].timer])
    /\ nudges' = IF draft[c].kind = "immediate" THEN Append(nudges, draft[c].id) ELSE nudges
    /\ draft' = [draft EXCEPT ![c] = NoPlan]
    /\ UNCHANGED <<clock, due, heap, live, firing, fires, rung,
                   queueVars, deckVars, pubVars, minted, exec, acted, ended, worldVars>>

\* plan_add_batch and, for the single-instance features, set_singleton: the
\* prior plan of the origin goes in the same lock scope.
Commit(c) ==
    /\ draft[c] # NoPlan
    /\ LET p == draft[c]
           gone == {o \in plans : p.origin # "" /\ o.origin = p.origin}
       IN /\ Registry((plans \ gone) \cup {p}, << >>)
          /\ nudges' = IF p.kind = "immediate" THEN Append(nudges, p.id) ELSE nudges
          /\ ended' = ended \cup {[id |-> o.id, how |-> "cancelled"] : o \in gone}
    /\ draft' = [draft EXCEPT ![c] = NoPlan]
    /\ UNCHANGED <<queueVars, deckVars, pubVars, minted, exec, acted, worldVars>>

PlanCancel(p) ==
    /\ p \in plans
    /\ Registry({o \in plans : o.id # p.id}, << >>)
    /\ ended' = ended \cup {[id |-> p.id, how |-> "cancelled"]}
    /\ UNCHANGED <<queueVars, deckVars, pubVars, draft, nudges, minted, exec, acted, worldVars>>
-----------------------------------------------------------------------------
(* The executor. *)

\* reconcile, on a version it has not seen: a plan whose target was deleted.
Orphaned(p) ==
    p.kind \in {"start", "album", "remaining"} /\ PositionOf(queue, p.entry) = 0

Paused(ev) ==
    CASE ev.kind = "Paused" -> TRUE
      [] ev.kind \in {"Playing", "Stopped", "TrackStart"} -> FALSE
      [] OTHER -> exec.paused

\* The row a plan's target is on is the one playback is on.
IsCurrent(p) == current # 0 /\ PositionOf(queue, p.entry) = current

\* maintain_remaining: which remaining-plans of `ps' (re-)arm on `ev'.  A
\* deadline that moved less than a unit of the clock is left alone.
ArmsAt(ev) == ev.now + (IF ev.rem > Lead THEN ev.rem - Lead ELSE 0)
Rearms(ps, ev) ==
    {p \in ps :
        /\ p.kind = "remaining" /\ IsCurrent(p) /\ ~Paused(ev) /\ ev.kind = "Tick"
        /\ p.timer = 0 \/ p.deadline # ArmsAt(ev)}
Kept(p, arms, ev) ==
    IF p.kind # "remaining" THEN p
    ELSE IF ~IsCurrent(p) \/ Paused(ev) THEN [p EXCEPT !.timer = 0, !.deadline = 0]
    ELSE IF p \in arms
    THEN [p EXCEPT !.timer = Len(due) + Cardinality({q \in arms : q.id <= p.id}),
                   !.deadline = ArmsAt(ev)]
    ELSE p
Maintained(ps, ev) == {Kept(p, Rearms(ps, ev), ev) : p \in ps}
Deadlines(ps, ev) == [k \in 1..Cardinality(Rearms(ps, ev)) |-> ArmsAt(ev)]

\* Variant: a remaining-plan takes any timer's fire for that of its own.
FiresOnAnyTimer(p, ev) ==
    CASE p.kind = "deadline" ->
              IF ev.kind = "WallClock" /\ ev.timer = p.timer THEN "yes" ELSE "no"
      [] p.kind = "remaining" ->
              IF ~IsCurrent(p) THEN "stale" ELSE IF ev.kind = "WallClock" THEN "yes" ELSE "no"
      [] OTHER -> "no"

\* plan.rs, fires: evaluated against the queue as it is now.
Fires(p, ev) ==
    LET idx == PositionOf(queue, p.entry)
        mine == ev.kind = "WallClock" /\ ev.timer = p.timer
        boundary == ev.kind = "TrackEnd" /\ ev.entry = p.entry
        successor == IF idx + 1 \in DOMAIN queue THEN {AlbumOf[queue[idx + 1]]} ELSE {}
    IN CASE p.kind = "start" ->
              IF idx = 0 \/ idx < current THEN "stale"
              ELSE IF ev.kind = "TrackStart" /\ ev.entry = p.entry THEN "yes" ELSE "no"
         [] p.kind = "album" ->
              IF ~boundary THEN "no" ELSE IF idx = 0 THEN "stale"
              ELSE IF successor = {AlbumOf[p.entry]} THEN "no" ELSE "yes"
         [] p.kind = "deadline" -> IF mine THEN "yes" ELSE "no"
         [] p.kind = "remaining" ->
              IF idx = 0 \/ ~IsCurrent(p) THEN "stale" ELSE IF mine THEN "yes" ELSE "no"
         [] OTHER -> "no"

\* An action is run in a task of its own: those of one event are not ordered.
Act(p) == [plan |-> p, at |-> clock, again |-> \E a \in acted : a.plan.id = p.id]
Acts(ps) == acted \cup {Act(p) : p \in ps}

\* Variant: a plan that asks to be kept stays in the registry after it acted.
OnEventKeeps ==
    /\ trig # << >> /\ trig' = Tail(trig)
    /\ LET ev == Head(trig)
           ps == Maintained(plans, ev)
       IN /\ Registry(ps, Deadlines(plans, ev))
          /\ exec' = [last |-> ev.version, paused |-> Paused(ev)]
          /\ acted' = Acts({p \in ps : Fires(p, ev) = "yes"})
    /\ UNCHANGED <<ended, queueVars, deckVars, pub, seen, bcast, draft, nudges, minted, worldVars>>

\* on_event: reconcile, maintain, select, run.
OnEvent ==
    /\ trig # << >> /\ trig' = Tail(trig)
    /\ LET ev == Head(trig)
           orphans == {p \in plans : ev.version # exec.last /\ Orphaned(p)}
           ps == Maintained(plans \ orphans, ev)
           now(answer) == {p \in ps : Fires(p, ev) = answer}
       IN /\ Registry(now("no"), Deadlines(plans \ orphans, ev))
          /\ exec' = [last |-> ev.version, paused |-> Paused(ev)]
          /\ acted' = Acts(now("yes"))
          /\ ended' = ended \cup {[id |-> p.id, how |->
                    IF ev.kind = "TrackEnd" /\ p.kind = "album" /\ p.entry = ev.entry
                    THEN "at its boundary" ELSE "expired"] : p \in orphans \cup now("stale")}
    /\ UNCHANGED <<queueVars, deckVars, pub, seen, bcast, draft, nudges, minted, worldVars>>

\* on_tick: positions, and the mirrored edges, whenever they come.
OnTick ==
    /\ bcast # << >> /\ bcast' = Tail(bcast)
    /\ LET ev == Head(bcast) IN
       /\ Registry(Maintained(plans, ev), Deadlines(plans, ev))
       /\ exec' = [exec EXCEPT !.paused = Paused(ev)]
    /\ UNCHANGED <<queueVars, deckVars, pub, seen, trig, draft, nudges, minted, acted, ended, worldVars>>

OnImmediate ==
    /\ nudges # << >> /\ nudges' = Tail(nudges)
    /\ LET ours == {p \in plans : p.id = Head(nudges)}
       IN /\ Registry(plans \ ours, << >>)
          /\ acted' = Acts(ours)
    /\ UNCHANGED <<queueVars, deckVars, pubVars, draft, minted, exec, ended, worldVars>>

Executor == OnEvent \/ OnTick \/ OnImmediate
Spine == SpinePlaying \/ SpineAdvance \/ SpineFires
Source == Wheel /\ UNCHANGED <<queueVars, deckVars, pubVars, planVars, worldVars>>

\* A unit of the clock is long beside the await-free body of plan_add_batch.
TimeGoesBy ==
    /\ clock < bounds.time /\ Pass
    /\ \A c \in Requester : draft[c] = NoPlan
    /\ pos' = IF deck.st = "playing" /\ pos < Duration THEN pos + 1 ELSE pos
    /\ UNCHANGED <<queueVars, deck, spine, goto, pubVars, planVars, worldVars>>

World ==
    \/ SpinePaused \/ SpineResumed \/ SpineTimePos \/ SpineEof \/ PlayIndexReturns
    \/ \E i \in DOMAIN queue : PlayIndex(i) \/ DeleteRow(i)

Clients ==
    \/ \E c \in Requester : Prepare(c) \/ Commit(c)
    \/ \E p \in plans : PlanCancel(p)

ExecutorNext == Executor \/ Spine \/ Source \/ TimeGoesBy \/ World \/ Clients
ExecutorSpec == ExecutorInit /\ [][ExecutorNext]_vars
ExecutorFairSpec ==
    /\ ExecutorSpec
    /\ WF_vars(Source) /\ WF_vars(SpineFires) /\ WF_vars(SpineAdvance) /\ WF_vars(OnEvent)
    /\ WF_vars(TimeGoesBy) /\ WF_vars(\E c \in Requester : Commit(c))
-----------------------------------------------------------------------------
\* Every variable stays in its type, and a plan that waits on a timer has the
\* guard that keeps the timer armed.
ExecutorTypeOK ==
    /\ WheelTypeOK
    /\ queue \in Seq(Entry) /\ current \in 0..Len(queue) /\ version \in Nat
    /\ deck \in [entry : Entry \cup {NoEntry}, st : {"playing", "paused", "stopped"}, told : BOOLEAN]
    /\ trig \in Seq(Event) /\ bcast \in Seq(Event) /\ Len(bcast) <= BcastCap
    /\ plans \subseteq Plan /\ draft \in [Requester -> Plan \cup {NoPlan}]
    /\ TimersOf(plans) \subseteq guards

\* Whatever the order of edges, mirrored edges, positions, fires and requests:
\* a plan acts at most once, and not after it was cancelled, replaced or
\* reported as expired (executor.rs, on_event; handler.rs, plan_cancel).
ActsOnce ==
    LET done == {a.plan.id : a \in acted} IN
    /\ \A a \in acted : ~a.again /\ \A b \in acted : a.plan.id = b.plan.id => a = b
    /\ done \cap {e.id : e \in ended} = {}
    /\ (done \cup {e.id : e \in ended}) \cap {p.id : p \in plans} = {}

\* A timed plan never acts before the deadline it is armed for, though it is
\* re-armed by seeks while fires of its earlier timers are still on their way
\* (executor.rs, maintain_remaining; plan.rs, fires).
NeverEarly ==
    \A a \in acted : a.plan.kind \in {"deadline", "remaining"} => a.at >= a.plan.deadline

\* Sleep, winddown and wake are single-instance, however two requests race
\* (handler.rs, set_singleton).
OneOfEach ==
    \A p, q \in plans : p.origin # "" /\ p.origin = q.origin => p = q

MaxPlans == Max({s.plans : s \in Scenarios})

\* A deadline plan in the registry acts in the end, unless it is cancelled
\* (executor.rs, arm; timer.rs): its fire is neither lost nor left unread.
DeadlineActs ==
    \A id \in 1..MaxPlans :
        (\E p \in plans : p.id = id /\ p.kind = "deadline") ~> (\A p \in plans : p.id # id)

\* The lossless path exists so that a boundary is never missed (director.rs,
\* subscribe_triggers): no plan expires at the very boundary it waits for.
BoundaryActs == \A e \in ended : e.how # "at its boundary"
=============================================================================
