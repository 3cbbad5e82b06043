------------------------------- MODULE MpvDeck -------------------------------
(***************************************************************************)
(* The mpv actor of crates/hypodj-core/src/player.rs: one OS thread per    *)
(* deck that owns an mpv core, drains a command channel, pumps mpv's own   *)
(* event queue, latches which entry it is playing and reports to one       *)
(* bounded event ring shared by all decks.                                 *)
(*                                                                         *)
(* A `load' stands for everything the actor latches together about one     *)
(* loadfile (song id, queue id, locality, url); loads of the same entry    *)
(* are told apart by an id.  mpv itself is external: what it does with its *)
(* playlist, when a file ends and when it reports it is nondeterministic.  *)
(***************************************************************************)
EXTENDS Naturals, Sequences, FiniteSets

CONSTANTS
    Deck,         \* the actors (one, or two for crossfading)
    Caller,       \* the tasks that send commands and await the reply
    Entry,        \* the queue entries a load can be about
    NoLoad,       \* nothing latched / nothing playing
    RingCap,      \* capacity of the event ring (64 in the code)
    LoadResults,  \* what mpv may answer to a loadfile: {TRUE} or BOOLEAN
    EndKinds,     \* how mpv may end a file: a subset of {"Eof","Error","LoadErr"}
    MaxLoads,     \* bound: loads created in a behaviour
    MaxEnds       \* bound: end-of-file reports queued inside one mpv core

Load == [id : 1..MaxLoads, entry : Entry]
MaybeLoad == Load \cup {NoLoad}

PlayState == {"Stopped", "Playing", "Paused"}
LoadOps == {"PlayUrl", "PrefetchWarm", "PrefetchContinuation", "SwitchWarmed"}
PlainOps == {"EmitCrossfadedEof", "DropWarm", "Pause", "Resume", "Stop", "Seek"}
Reason == {"Eof", "Error", "LoadErr", "Stop"}

\* The actor's warm latch (enum WarmKind).
Warm == [kind : {"None", "Skip", "Continuation"}, load : MaybeLoad]
NoWarm == [kind |-> "None", load |-> NoLoad]

\* A PlayerEvent.  `flag' is "errored", "landed", "crossfaded" or "plain" on
\* an Eof; on a Playing it says whether the event names a song.  `cause' is
\* what really happened inside mpv; no consumer of the ring reads it.
Event == [kind : {"Playing", "Paused", "Stopped", "Eof", "TimePos"},
          load : MaybeLoad, flag : {"plain", "errored", "landed", "crossfaded", "noid"},
          cause : MaybeLoad, deck : Deck]

\* What is left of the arm the actor is executing: its blocking sends and the
\* reply to the caller, in program order.
Effect == [what : {"send"}, ev : Event] \cup [what : {"reply"}, to : Caller, ok : BOOLEAN]

Command == [op : LoadOps, load : Load, by : Caller]
           \cup [op : PlainOps, load : {NoLoad}, by : Caller]

ASSUME DeckAssumption ==
    /\ NoLoad \notin Load
    /\ RingCap \in Nat \ {0}
    /\ MaxLoads \in Nat
    /\ MaxEnds \in Nat
    /\ LoadResults \subseteq BOOLEAN /\ LoadResults # {}
    /\ EndKinds \subseteq {"Eof", "Error", "LoadErr"}

VARIABLES
    mpv,     \* [Deck -> the mpv core: playlist, position, keep-open, pause, reports]
    actor,   \* [Deck -> the actor thread: latch, warm latch, watch value, effects]
    cmds,    \* [Deck -> the command channel]
    reply,   \* [Caller -> "none" | "wait" | "ok" | "err"]: the oneshot awaited
    ring,    \* the event ring, decks to spine
    loads,   \* loads created so far
    eofs     \* [load id -> Eof events emitted for it]: a history variable

deckVars == <<mpv, actor, cmds, reply, ring, loads, eofs>>

EndReport == [reason : Reason, load : Load]

Core == [list : Seq(Load), pos : Nat, held : BOOLEAN, keepOpen : BOOLEAN,
         pause : BOOLEAN, ends : Seq(EndReport), tick : MaybeLoad]

\* `adrift' is a history flag: since the last load or stop the actor has let go
\* of what mpv plays.  Seven paths of the code do: a command handled while the
\* end of a file is still queued inside mpv, an end swallowed under a skip warm,
\* an open failure ignored under a warm, an end with a continuation parked that
\* is not the handoff, the late report of a replaced file taking the latch of a
\* continuation parked since, a refused load that forgets what is still parked,
\* and the promotion of a crossfade.
ActorState == [latch : MaybeLoad, warm : Warm, watch : PlayState,
               out : Seq(Effect), adrift : BOOLEAN]

DeckInit ==
    /\ mpv = [d \in Deck |-> [list |-> << >>, pos |-> 0, held |-> FALSE, keepOpen |-> FALSE,
                              pause |-> FALSE, ends |-> << >>, tick |-> NoLoad]]
    /\ actor = [d \in Deck |-> [latch |-> NoLoad, warm |-> NoWarm, watch |-> "Stopped",
                                out |-> << >>, adrift |-> FALSE]]
    /\ cmds = [d \in Deck |-> << >>]
    /\ reply = [c \in Caller |-> "none"]
    /\ ring = << >>
    /\ loads = 0
    /\ eofs = [n \in 1..MaxLoads |-> 0]
-----------------------------------------------------------------------------
(***************************************************************************)
(* mpv, as the actor uses it.                                              *)
(***************************************************************************)
Playing(m) == IF m.pos = 0 THEN NoLoad ELSE m.list[m.pos]

\* The report of a file that a command removed from under the core.
Removed(m) ==
    IF m.pos = 0 THEN m.ends ELSE Append(m.ends, [reason |-> "Stop", load |-> Playing(m)])

LoadfileReplace(m, l) ==
    [m EXCEPT !.ends = Removed(m), !.list = <<l>>, !.pos = 1, !.held = FALSE]

\* Variant: playlist-clear assumed to find a current entry.
PlaylistClearAssumesCurrent(m) == [m EXCEPT !.list = <<Playing(m)>>, !.pos = 1]

PlaylistClear(m) ==
    IF m.pos = 0 THEN [m EXCEPT !.list = << >>]
                 ELSE [m EXCEPT !.list = <<Playing(m)>>, !.pos = 1]

Halt(m) == [m EXCEPT !.ends = Removed(m), !.list = << >>, !.pos = 0, !.held = FALSE]

\* The next entry of the playlist takes over, or the core goes idle.
StepPast(m, reason) ==
    [m EXCEPT !.ends = Append(m.ends, [reason |-> reason, load |-> Playing(m)]),
              !.pos = IF m.pos < Len(m.list) THEN m.pos + 1 ELSE 0,
              !.held = FALSE]

\* A file reaches its end.  keep-open=always may park the core at the last
\* frame instead of reporting an end, but the code's author saw a non-last
\* entry advance under it too.
MpvFileEnds(d) ==
    LET m == mpv[d] IN
    /\ m.pos > 0 /\ Len(m.ends) < MaxEnds
    /\ \/ \E r \in EndKinds :
            /\ r = "Eof" => ~m.pause /\ ~m.held
                            /\ (m.keepOpen => m.pos < Len(m.list))
            /\ mpv' = [mpv EXCEPT ![d] = StepPast(m, r)]
       \/ /\ m.keepOpen /\ ~m.held /\ ~m.pause
          /\ mpv' = [mpv EXCEPT ![d].held = TRUE]
       \/ /\ m.held /\ ~m.keepOpen
          /\ mpv' = [mpv EXCEPT ![d] = StepPast(m, "Eof")]
    /\ UNCHANGED <<actor, cmds, reply, ring, loads, eofs>>

\* A time-pos change is latched for the client; changes coalesce.
MpvPosition(d) ==
    /\ mpv[d].pos > 0 /\ ~mpv[d].pause /\ ~mpv[d].held
    /\ mpv[d].tick # Playing(mpv[d])
    /\ mpv' = [mpv EXCEPT ![d].tick = Playing(mpv[d])]
    /\ UNCHANGED <<actor, cmds, reply, ring, loads, eofs>>
-----------------------------------------------------------------------------
(***************************************************************************)
(* The actor's effects.                                                    *)
(***************************************************************************)
Ev(d, kind, load, flag, cause) ==
    [kind |-> kind, load |-> load, flag |-> flag, cause |-> cause, deck |-> d]
Send(ev) == [what |-> "send", ev |-> ev]
Reply(c, ok) == [what |-> "reply", to |-> c, ok |-> ok]

CountEof(l) == IF l = NoLoad THEN eofs ELSE [eofs EXCEPT ![l.id] = @ + 1]

EndFlag(e) == IF e.reason = "Error" THEN "errored" ELSE "plain"

\* The sends of emit_honest_stop: the latched entry's Eof, if there is one,
\* and then the Stopped edge.
HonestStopSends(d, a, flag, cause) ==
    (IF a.latch = NoLoad THEN << >>
     ELSE <<Send(Ev(d, "Eof", a.latch, flag, cause))>>)
    \o <<Send(Ev(d, "Stopped", NoLoad, "plain", NoLoad))>>

\* Variant: the latches are read instead of taken.
EmitHonestStopKeepsLatch(d, a, flag, cause) ==
    [a EXCEPT !.warm = NoWarm, !.watch = "Stopped",
              !.out = HonestStopSends(d, a, flag, cause)]

\* emit_honest_stop: take the latches, publish Stopped, queue the sends.
EmitHonestStop(d, a, flag, cause) ==
    [a EXCEPT !.latch = NoLoad, !.warm = NoWarm, !.watch = "Stopped",
              !.out = HonestStopSends(d, a, flag, cause)]

\* One blocking send, or the reply, once the code before it has run.
ActorEffect(d) ==
    LET e == Head(actor[d].out) IN
    /\ actor[d].out # << >>
    /\ actor' = [actor EXCEPT ![d].out = Tail(@)]
    /\ \/ /\ e.what = "send" /\ Len(ring) < RingCap
          /\ ring' = Append(ring, e.ev)
          /\ UNCHANGED reply
       \/ /\ e.what = "reply"
          /\ reply' = [reply EXCEPT ![e.to] = IF e.ok THEN "ok" ELSE "err"]
          /\ UNCHANGED ring
    /\ UNCHANGED <<mpv, cmds, loads, eofs>>
-----------------------------------------------------------------------------
(***************************************************************************)
(* handle_cmd: one action per command.  `Command(d, op)' is the actor      *)
(* taking the head of its channel between two wakeups.                     *)
(***************************************************************************)
\* The end of a file, not of our own making, that the actor has yet to read.
EndQueued(d) == \E i \in DOMAIN mpv[d].ends : mpv[d].ends[i].reason # "Stop"

Taking(d, op) ==
    /\ actor[d].out = << >>
    /\ cmds[d] # << >> /\ Head(cmds[d]).op = op
    /\ cmds' = [cmds EXCEPT ![d] = Tail(@)]
    /\ UNCHANGED <<reply, ring, loads>>

\* The actor after a load it accepted: the latches move, Playing is published
\* and the caller is answered before the blocking send.
Loaded(d, a, c) ==
    [a EXCEPT !.latch = c.load, !.warm = NoWarm, !.watch = "Playing", !.adrift = EndQueued(d),
              !.out = <<Reply(c.by, TRUE),
                        Send(Ev(d, "Playing", c.load, "plain", c.load))>>]

\* The actor after a load mpv refused: nothing is repointed, the warm latch is
\* gone, and what was parked is still in mpv's playlist.
Refused(a, c) ==
    [a EXCEPT !.warm = NoWarm, !.adrift = @ \/ a.warm.kind # "None",
              !.out = <<Reply(c.by, FALSE)>>]

PlayUrl(d) ==
    LET c == Head(cmds[d])  m == mpv[d] IN
    /\ Taking(d, "PlayUrl")
    /\ \E ok \in LoadResults :
        /\ mpv' = IF ok THEN [mpv EXCEPT ![d] =
                                [LoadfileReplace(m, c.load) EXCEPT !.keepOpen = FALSE,
                                                                   !.pause = FALSE]]
                  ELSE mpv
        /\ actor' = [actor EXCEPT ![d] = IF ok THEN Loaded(d, @, c) ELSE Refused(@, c)]
    /\ UNCHANGED eofs

\* Park a skip target behind the current entry, keep-open=always.
PrefetchWarm(d) ==
    LET c == Head(cmds[d])  m == PlaylistClear(mpv[d]) IN
    /\ Taking(d, "PrefetchWarm")
    /\ \E ok \in LoadResults :
        /\ mpv' = [mpv EXCEPT ![d] =
                    IF ok THEN [m EXCEPT !.list = Append(@, c.load), !.keepOpen = TRUE]
                    ELSE [m EXCEPT !.keepOpen = FALSE]]
        /\ actor' = [actor EXCEPT
                      ![d].warm = IF ok THEN [kind |-> "Skip", load |-> c.load] ELSE NoWarm,
                      ![d].adrift = @ \/ EndQueued(d),
                      ![d].out = <<Reply(c.by, ok)>>]
    /\ UNCHANGED eofs

\* Park the next track or station behind the current entry, keep-open=no.
PrefetchContinuation(d) ==
    LET c == Head(cmds[d])  m == [PlaylistClear(mpv[d]) EXCEPT !.keepOpen = FALSE] IN
    /\ Taking(d, "PrefetchContinuation")
    /\ \E ok \in LoadResults :
        /\ mpv' = [mpv EXCEPT ![d] =
                    IF ok THEN [m EXCEPT !.list = Append(@, c.load)] ELSE m]
        /\ actor' = [actor EXCEPT
                      ![d].warm = IF ok THEN [kind |-> "Continuation", load |-> c.load]
                                  ELSE NoWarm,
                      ![d].adrift = @ \/ EndQueued(d),
                      ![d].out = <<Reply(c.by, ok)>>]
    /\ UNCHANGED eofs

\* The structural re-check before the parked entry is trusted.
CanSwitch(d, l) ==
    /\ actor[d].warm.kind = "Skip"
    /\ Len(mpv[d].list) = 2 /\ mpv[d].pos = 1
    /\ mpv[d].list[2].entry = l.entry

SwitchWarmed(d) ==
    LET c == Head(cmds[d])
        m == IF CanSwitch(d, c.load) THEN mpv[d] ELSE PlaylistClear(mpv[d]) IN
    /\ Taking(d, "SwitchWarmed")
    /\ \E ok \in LoadResults :
        /\ mpv' = [mpv EXCEPT ![d] =
                    IF ok THEN [LoadfileReplace(m, c.load) EXCEPT !.keepOpen = FALSE,
                                                                  !.pause = FALSE]
                    ELSE m]
        /\ actor' = [actor EXCEPT ![d] = IF ok THEN Loaded(d, @, c) ELSE Refused(@, c)]
    /\ UNCHANGED eofs

\* The crossfade's promotion: this deck's entry is reported as finished.
EmitCrossfadedEof(d) ==
    LET c == Head(cmds[d])  a == actor[d] IN
    /\ Taking(d, "EmitCrossfadedEof")
    /\ actor' = [actor EXCEPT ![d] =
                  [a EXCEPT !.latch = NoLoad, !.adrift = TRUE,
                            !.out = (IF a.latch = NoLoad THEN << >>
                                     ELSE <<Send(Ev(d, "Eof", a.latch, "crossfaded",
                                                    Playing(mpv[d])))>>)
                                    \o <<Reply(c.by, TRUE)>>]]
    /\ eofs' = CountEof(a.latch)
    /\ UNCHANGED mpv

\* Variant: a deck with nothing parked has nothing to answer.
DropWarmForgetsReply(d) ==
    /\ Taking(d, "DropWarm")
    /\ mpv' = [mpv EXCEPT ![d] = [PlaylistClear(@) EXCEPT !.keepOpen = FALSE]]
    /\ actor' = [actor EXCEPT ![d].warm = NoWarm]
    /\ UNCHANGED eofs

DropWarm(d) ==
    LET c == Head(cmds[d]) IN
    /\ Taking(d, "DropWarm")
    /\ mpv' = [mpv EXCEPT ![d] = [PlaylistClear(@) EXCEPT !.keepOpen = FALSE]]
    /\ actor' = [actor EXCEPT ![d].warm = NoWarm, ![d].adrift = @ \/ EndQueued(d),
                              ![d].out = <<Reply(c.by, TRUE)>>]
    /\ UNCHANGED eofs

\* Variant: with nothing to report, the arm returns before its reply.
SetPauseForgetsReply(d, op, on) ==
    LET c == Head(cmds[d])  a == actor[d]  st == IF on THEN "Paused" ELSE "Playing" IN
    /\ Taking(d, op)
    /\ mpv' = [mpv EXCEPT ![d].pause = on]
    /\ actor' = IF a.latch = NoLoad THEN actor
                ELSE [actor EXCEPT ![d].watch = st,
                                   ![d].out = <<Send(Ev(d, st, a.latch, "plain", a.latch)),
                                                Reply(c.by, TRUE)>>]
    /\ UNCHANGED eofs

\* mpv's pause is a property of the core, so only a held entry is reported.
SetPause(d, op, on) ==
    LET c == Head(cmds[d])  a == actor[d]  st == IF on THEN "Paused" ELSE "Playing" IN
    /\ Taking(d, op)
    /\ mpv' = [mpv EXCEPT ![d].pause = on]
    /\ actor' = [actor EXCEPT ![d] =
                  IF a.latch = NoLoad THEN [a EXCEPT !.out = <<Reply(c.by, TRUE)>>]
                  ELSE [a EXCEPT !.watch = st,
                                 !.out = <<Send(Ev(d, st, a.latch, "plain", a.latch)),
                                           Reply(c.by, TRUE)>>]]
    /\ UNCHANGED eofs

Pause(d) == SetPause(d, "Pause", TRUE)
Resume(d) == SetPause(d, "Resume", FALSE)

\* Variant: the latches go, the file plays on.
StopLeavesPlaying(d) ==
    LET c == Head(cmds[d]) IN
    /\ Taking(d, "Stop")
    /\ actor' = [actor EXCEPT ![d] =
                  [@ EXCEPT !.latch = NoLoad, !.warm = NoWarm, !.watch = "Stopped",
                            !.out = <<Send(Ev(d, "Stopped", NoLoad, "plain", NoLoad)),
                                      Reply(c.by, TRUE)>>]]
    /\ UNCHANGED <<mpv, eofs>>

\* The Stopped edge is a blocking send made before the reply.
Stop(d) ==
    LET c == Head(cmds[d]) IN
    /\ Taking(d, "Stop")
    /\ mpv' = [mpv EXCEPT ![d] = [Halt(@) EXCEPT !.keepOpen = FALSE]]
    /\ actor' = [actor EXCEPT ![d] =
                  [@ EXCEPT !.latch = NoLoad, !.warm = NoWarm, !.watch = "Stopped",
                            !.adrift = FALSE,
                            !.out = <<Send(Ev(d, "Stopped", NoLoad, "plain", NoLoad)),
                                      Reply(c.by, TRUE)>>]]
    /\ UNCHANGED eofs

\* A seek mpv accepts is reported as a position with a blocking send, stamped
\* with the latch; an idle core refuses it.
Seek(d) ==
    LET c == Head(cmds[d])  a == actor[d] IN
    /\ Taking(d, "Seek")
    /\ mpv' = [mpv EXCEPT ![d].held = FALSE]
    /\ actor' = [actor EXCEPT ![d].out =
                  IF mpv[d].pos = 0 THEN <<Reply(c.by, FALSE)>>
                  ELSE <<Send(Ev(d, "TimePos", a.latch, "plain", Playing(mpv[d]))),
                         Reply(c.by, TRUE)>>]
    /\ UNCHANGED eofs

HandleCmd(d) ==
    \/ PlayUrl(d) \/ PrefetchWarm(d) \/ PrefetchContinuation(d) \/ SwitchWarmed(d)
    \/ EmitCrossfadedEof(d) \/ DropWarm(d) \/ Pause(d) \/ Resume(d) \/ Stop(d)
    \/ Seek(d)
-----------------------------------------------------------------------------
(***************************************************************************)
(* The event half of mpv_actor: one wait_event, taken when no command is   *)
(* queued.                                                                 *)
(***************************************************************************)
Pumping(d) ==
    /\ actor[d].out = << >> /\ cmds[d] = << >>
    /\ UNCHANGED <<cmds, reply, loads>>

\* A position is sent with try_send: a full ring drops it.
PumpPosition(d) ==
    /\ Pumping(d)
    /\ mpv[d].tick # NoLoad
    /\ mpv' = [mpv EXCEPT ![d].tick = NoLoad]
    /\ ring' = IF Len(ring) < RingCap
               THEN Append(ring, Ev(d, "TimePos", actor[d].latch, "plain", mpv[d].tick))
               ELSE ring
    /\ UNCHANGED <<actor, eofs>>

\* The next end-of-file report leaves mpv's queue.
PumpingEnd(d, reasons) ==
    /\ Pumping(d)
    /\ mpv[d].ends # << >> /\ Head(mpv[d].ends).reason \in reasons
    /\ mpv' = [mpv EXCEPT ![d].ends = Tail(@)]
    /\ UNCHANGED ring

\* The EndFile arm under a skip warm: swallowed whole, the latch restored.
EndFileSkip(d) ==
    LET e == Head(mpv[d].ends) IN
    /\ actor[d].warm.kind = "Skip"
    /\ PumpingEnd(d, {"Eof", "Error", "Stop"})
    /\ actor' = [actor EXCEPT ![d].adrift = @ \/ e.reason # "Stop"]
    /\ UNCHANGED eofs

\* Is the warmed url still in the playlist?
StillParked(d) ==
    \E i \in DOMAIN mpv[d].list : mpv[d].list[i].entry = actor[d].warm.load.entry

\* The gapless handoff: the finishing entry's Eof, then the landed entry's
\* Playing edge, which names no song.
EndFileLanded(d) ==
    LET a == actor[d]  cause == Head(mpv[d].ends).load IN
    /\ a.warm.kind = "Continuation"
    /\ PumpingEnd(d, {"Eof"})
    /\ StillParked(d)
    /\ actor' = [actor EXCEPT ![d] =
                  [a EXCEPT !.latch = a.warm.load, !.warm = NoWarm, !.watch = "Playing",
                            !.out = <<Send(Ev(d, "Eof", a.latch, "landed", cause)),
                                      Send(Ev(d, "Playing", a.warm.load, "noid",
                                              a.warm.load))>>]]
    /\ eofs' = CountEof(a.latch)

\* Every other real end: the warm latch is consumed and the deck stops.
EndFileHonestStop(d) ==
    LET e == Head(mpv[d].ends)  a == actor[d] IN
    /\ PumpingEnd(d, {"Eof", "Error"})
    /\ \/ a.warm.kind = "None"
       \/ a.warm.kind = "Continuation" /\ ~(e.reason = "Eof" /\ StillParked(d))
    /\ actor' = [actor EXCEPT ![d] =
                  [EmitHonestStop(d, a, EndFlag(e), e.load)
                        EXCEPT !.adrift = @ \/ a.warm.kind = "Continuation"]]
    /\ eofs' = CountEof(a.latch)

\* Variant: a Stop report read as an end (the phantom-skip cascade).
EndFileStopTakesLatch(d) ==
    /\ actor[d].warm.kind # "Skip"
    /\ PumpingEnd(d, {"Stop"})
    /\ actor' = [actor EXCEPT ![d] = EmitHonestStop(d, @, "plain", Head(mpv[d].ends).load)]
    /\ eofs' = CountEof(actor[d].latch)

\* The end of a file our own loadfile replaced is not an Eof; the arm has
\* taken the warm latch all the same.
EndFileStop(d) ==
    /\ actor[d].warm.kind # "Skip"
    /\ PumpingEnd(d, {"Stop"})
    /\ actor' = [actor EXCEPT ![d].warm = NoWarm,
                              ![d].adrift = @ \/ actor[d].warm.kind = "Continuation"]
    /\ UNCHANGED eofs

\* An open failure surfaces as a top-level event error.  It stops the deck
\* only when nothing is parked and something is latched.
LoadFailure(d) ==
    LET e == Head(mpv[d].ends)  a == actor[d] IN
    /\ PumpingEnd(d, {"LoadErr"})
    /\ \/ /\ a.warm.kind = "None" /\ a.latch # NoLoad
          /\ actor' = [actor EXCEPT ![d] = EmitHonestStop(d, a, "errored", e.load)]
          /\ eofs' = CountEof(a.latch)
       \/ /\ ~(a.warm.kind = "None" /\ a.latch # NoLoad)
          /\ actor' = [actor EXCEPT ![d].adrift = TRUE]
          /\ UNCHANGED eofs

PumpEvent(d) ==
    \/ PumpPosition(d) \/ EndFileSkip(d) \/ EndFileLanded(d)
    \/ EndFileHonestStop(d) \/ EndFileStop(d) \/ LoadFailure(d)

ActorStep(d) == ActorEffect(d) \/ HandleCmd(d) \/ PumpEvent(d)
MpvStep(d) == MpvFileEnds(d) \/ MpvPosition(d)
-----------------------------------------------------------------------------
(***************************************************************************)
(* The callers' side: request_on sends a command and awaits its reply.     *)
(***************************************************************************)
NewLoad(e) == [id |-> loads + 1, entry |-> e]

Request(d, c, op, l) ==
    /\ reply[c] # "wait"
    /\ reply' = [reply EXCEPT ![c] = "wait"]
    /\ cmds' = [cmds EXCEPT ![d] = Append(@, [op |-> op, load |-> l, by |-> c])]

RequestLoad(d, c, op, e) ==
    /\ loads < MaxLoads
    /\ loads' = loads + 1
    /\ Request(d, c, op, NewLoad(e))

\* For a deck on its own: any caller asks for anything, and the ring is read.
AnyRequest(c) ==
    \E d \in Deck :
        /\ \/ \E op \in LoadOps, e \in Entry : RequestLoad(d, c, op, e)
           \/ \E op \in PlainOps : Request(d, c, op, NoLoad) /\ UNCHANGED loads
        /\ UNCHANGED <<mpv, actor, ring, eofs>>

Consume ==
    /\ ring # << >>
    /\ ring' = Tail(ring)
    /\ UNCHANGED <<mpv, actor, cmds, reply, loads, eofs>>

Next ==
    \/ \E d \in Deck : ActorStep(d) \/ MpvStep(d)
    \/ \E c \in Caller : AnyRequest(c)
    \/ Consume

Spec == DeckInit /\ [][Next]_deckVars

\* The actor is a thread of its own and the spine keeps reading its ring.
FairSpec == Spec /\ (\A d \in Deck : WF_deckVars(ActorEffect(d) \/ HandleCmd(d)))
                 /\ WF_deckVars(Consume)
-----------------------------------------------------------------------------
TypeOK ==
    /\ mpv \in [Deck -> Core]
    /\ actor \in [Deck -> ActorState]
    /\ cmds \in [Deck -> Seq(Command)]
    /\ reply \in [Caller -> {"none", "wait", "ok", "err"}]
    /\ ring \in Seq(Event)
    /\ loads \in Nat
    /\ eofs \in [1..MaxLoads -> Nat]

\* One load is reported finished at most once, whichever of the four routes
\* (natural end, landed handoff, error, crossfade promotion) reports it: a
\* second Eof would advance the queue twice over one track.
OneEofPerLoad == \A n \in 1..MaxLoads : eofs[n] <= 1

\* What a deck publishes is what mpv does, once mpv's reports are read: a
\* Stopped deck is silent, and a Playing or Paused one has latched the very file
\* mpv holds - no phantom Playing over silence, no audio under a Stopped - until
\* the actor goes adrift by one of the seven paths above.
DeckTellsTruth ==
    \A d \in Deck :
        ~actor[d].adrift /\ ~EndQueued(d) =>
            /\ Playing(mpv[d]) = actor[d].latch
            /\ (actor[d].watch = "Stopped") <=> (actor[d].latch = NoLoad)

\* Every awaited reply comes: the actor answers each command it is sent.
EveryCommandAnswered == \A c \in Caller : (reply[c] = "wait") ~> (reply[c] # "wait")

\* The claim made of `was_local' and of the latches it travels with: an Eof
\* describes the file that ended, not the one loaded by the time it is handled.
EofNamesWhatEnded ==
    \A i \in DOMAIN ring :
        ring[i].kind = "Eof" /\ ring[i].flag \in {"plain", "errored", "landed"}
            => ring[i].load = ring[i].cause

\* The claim made of a superseded dip: once DropWarm is handled the current
\* track is what plays, so that its own end will advance the queue.
SupersededDipKeepsTheTrack ==
    [][\A d \in Deck :
         DropWarm(d) /\ actor[d].warm.kind = "Skip" /\ ~EndQueued(d)
             => Playing(mpv'[d]) = actor'[d].latch]_deckVars
=============================================================================
