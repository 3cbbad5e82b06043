-------------------------- MODULE PlaybackRow_proofs --------------------------
(***************************************************************************)
(* What row playback is on, proved for every queue, every set of modes and *)
(* gestures, every ring capacity and everything mpv may do.                *)
(*                                                                         *)
(* While nothing contests an advance, at any moment either the spine is at *)
(* rest with no end of a track on its way to it, or the client and the     *)
(* fade are at rest.  Each half of the invariant follows one of the two    *)
(* through its calls while the other keeps still.                          *)
(***************************************************************************)
EXTENDS Playback_proofs

Cmds == cmds[deck]
Out == actor[deck].out
Latch == actor[deck].latch
Warmth == actor[deck].warm
Watch == actor[deck].watch

Bare == Warmth.kind = "None"
LatchIs(e) == Latch # NoLoad => Latch.entry = e
Parked(e) == Warmth.load.entry = e

\* Effects, and the events on their way to the spine: what the ring holds, and
\* what the actor has left to send behind it.
IsReply(x) == x.what = "reply"
IsEof(x) == x.what = "send" /\ x.ev.kind = "Eof"
IsLanded(x) == IsEof(x) /\ x.ev.flag = "landed"
IsPlaying(x, e) == x.what = "send" /\ x.ev.kind = "Playing" /\ EntryOf(x.ev.load) = e

FlightLen == Len(ring) + Len(Out)
Flight(k) == IF k <= Len(ring) THEN Send(ring[k]) ELSE Out[k - Len(ring)]
EofAt(k) == k \in 1..FlightLen /\ IsEof(Flight(k))
LandedAt(k) == k \in 1..FlightLen /\ IsLanded(Flight(k))
NoEof == \A k \in 1..FlightLen : ~IsEof(Flight(k))
-----------------------------------------------------------------------------
(***************************************************************************)
(* Who has asked the deck for what.                                        *)
(***************************************************************************)
AskedOps == {"PlayUrl", "PrefetchContinuation", "DropWarm", "Pause", "Resume", "Stop"}

\* A command in the channel is one its sender awaits where it is now.
AskedBySpine(x) ==
    \/ At(Spine, "loading") /\ x.op = "PlayUrl"
    \/ At(Spine, "prefetch") /\ x.op = "PrefetchContinuation" /\ x.load.entry = task[Spine].item
    \/ At(Spine, "unwarm") /\ x.op = "DropWarm"
    \/ At(Spine, "orphan") /\ x.op = "Stop"
    \/ At(Spine, "todo") /\ Head(task[Spine].todo) = "wait" /\ x.op = "DropWarm"
AskedByClient(x) ==
    \/ At(Client, "loading") /\ x.op = "PlayUrl" /\ x.load.entry = task[Client].item
    \/ At(Client, "install") /\ x.op = "Resume"
    \/ At(Client, "todo") /\ Head(task[Client].todo) = "wait" /\ x.op \in {"DropWarm", "Stop", "Resume"}
AskedByFader(x) == fade = "pausing" /\ x.op = "Pause"
Asked(x) ==
    /\ x.op \in AskedOps
    /\ x.by = Spine => AskedBySpine(x)
    /\ x.by = Client => AskedByClient(x)
    /\ x.by = Fader => AskedByFader(x)

\* Each of them waits for one answer, and the answer on its way is the one.
CmdsAsked ==
    /\ \A i \in DOMAIN Cmds : Asked(Cmds[i]) /\ (Cmds[i].by # Gone => reply[Cmds[i].by] = "wait")
    /\ \A i, j \in DOMAIN Cmds : Cmds[i].by = Cmds[j].by /\ Cmds[i].by # Gone => i = j
RepliesOwed ==
    \A i \in DOMAIN Out : IsReply(Out[i]) =>
        /\ Out[i].to # Gone => reply[Out[i].to] = "wait" /\ \A j \in DOMAIN Cmds : Cmds[j].by # Out[i].to
        /\ \A j \in DOMAIN Out : ~IsEof(Out[j]) /\ (IsReply(Out[j]) => i = j)

\* This deck is never asked to warm a skip, and what it shows is what it latched.
DeckPlain ==
    /\ Warmth.kind \in {"None", "Continuation"}
    /\ Watch = "Stopped" <=> Latch = NoLoad

AskInv == CmdsAsked /\ RepliesOwed /\ DeckPlain
-----------------------------------------------------------------------------
(***************************************************************************)
(* What a step of the deck comes to, for those who ask and those who read. *)
(***************************************************************************)
Same == UNCHANGED <<cmds, reply, ring>>
\* The actor has taken its next command.
Took(op) ==
    /\ Out = << >> /\ Cmds # << >> /\ Head(Cmds).op = op
    /\ Cmds' = Tail(Cmds) /\ UNCHANGED <<reply, ring>>
Free == Out = << >> /\ Cmds = << >>

Sends ==
    /\ Out # << >> /\ Head(Out).what = "send" /\ Out' = Tail(Out)
    /\ ring' = Append(ring, Head(Out).ev)
    /\ UNCHANGED <<cmds, reply>> /\ Latch' = Latch /\ Warmth' = Warmth /\ Watch' = Watch
Answers ==
    /\ Out # << >> /\ Head(Out).what = "reply" /\ Out' = Tail(Out)
    /\ reply' = [reply EXCEPT ![Head(Out).to] = IF Head(Out).ok THEN "ok" ELSE "err"]
    /\ UNCHANGED <<cmds, ring>> /\ Latch' = Latch /\ Warmth' = Warmth /\ Watch' = Watch
Loads ==
    /\ Took("PlayUrl") /\ Bare'
    /\ \/ /\ Latch' = Head(Cmds).load /\ Watch' = "Playing"
          /\ \E x \in MaybeLoad : Out' = <<Reply(Head(Cmds).by, TRUE), Send(Ev(deck, "Playing", Head(Cmds).load, "plain", x))>>
       \/ Latch' = Latch /\ Watch' = Watch /\ Out' = <<Reply(Head(Cmds).by, FALSE)>>
Parks ==
    /\ Took("PrefetchContinuation") /\ Latch' = Latch /\ Watch' = Watch
    /\ \/ /\ Warmth' = [kind |-> "Continuation", load |-> Head(Cmds).load]
          /\ Out' = <<Reply(Head(Cmds).by, TRUE)>>
       \/ Bare' /\ Out' = <<Reply(Head(Cmds).by, FALSE)>>
DropsWarm ==
    /\ Took("DropWarm") /\ Latch' = Latch /\ Watch' = Watch /\ Bare'
    /\ Out' = <<Reply(Head(Cmds).by, TRUE)>>
Pauses(op, st) ==
    /\ Took(op) /\ Latch' = Latch /\ Warmth' = Warmth
    /\ \/ Latch = NoLoad /\ Watch' = Watch /\ Out' = <<Reply(Head(Cmds).by, TRUE)>>
       \/ /\ Latch # NoLoad /\ Watch' = st
          /\ Out' = <<Send(Ev(deck, st, Latch, "plain", Latch)), Reply(Head(Cmds).by, TRUE)>>
Stops ==
    /\ Took("Stop") /\ Latch' = NoLoad /\ Watch' = "Stopped" /\ Bare'
    /\ Out' = <<Send(Ev(deck, "Stopped", NoLoad, "plain", NoLoad)), Reply(Head(Cmds).by, TRUE)>>
Positions ==
    /\ Free /\ UNCHANGED <<cmds, reply, actor>>
    /\ \/ UNCHANGED ring
       \/ \E l, x \in MaybeLoad : ring' = Append(ring, Ev(deck, "TimePos", l, "plain", x))
Lands ==
    /\ Free /\ Same /\ EndQueued(deck) /\ ~Bare
    /\ Latch' = Warmth.load /\ Bare' /\ Watch' = "Playing"
    /\ \E x \in MaybeLoad : Out' = <<Send(Ev(deck, "Eof", Latch, "landed", x)),
                       Send(Ev(deck, "Playing", Warmth.load, "noid", Warmth.load))>>
Ends ==
    /\ Free /\ Same /\ EndQueued(deck)
    /\ Latch' = NoLoad /\ Bare' /\ Watch' = "Stopped"
    /\ \E f \in {"plain", "errored"}, x \in MaybeLoad : Out' = HonestStopSends(deck, actor[deck], f, x)
Forgets ==
    Free /\ Same /\ Out' = << >> /\ Latch' = Latch /\ Watch' = Watch /\ (Bare' \/ Warmth' = Warmth)
Rests == UNCHANGED <<actor, cmds, reply, ring>>

DeckMoves ==
    \/ Sends \/ Answers \/ Loads \/ Parks \/ DropsWarm \/ Pauses("Pause", "Paused") \/ Pauses("Resume", "Playing")
    \/ Stops \/ Positions \/ Lands \/ Ends \/ Forgets \/ Rests

LEMMA CmdMoves ==
    ASSUME Types, AskInv, HandleCmd(deck)
    PROVE  DeckMoves
  <1> DEFINE c == Head(Cmds)
  <1>1. /\ deck \in Deck /\ actor \in [Deck -> ActorState] /\ actor[deck] \in ActorState
        /\ cmds \in [Deck -> Seq(Command)]
    BY DeckIsOne DEF Types, TypeInv, TypeOK
  <1>2. \A op : Taking(deck, op) => Took(op) /\ op \in AskedOps
    <2> SUFFICES ASSUME NEW op, Taking(deck, op) PROVE Took(op) /\ op \in AskedOps
      OBVIOUS
    <2>1. Cmds # << >> /\ Head(Cmds) = Cmds[1] /\ 1 \in DOMAIN Cmds /\ c.op = op
      BY <1>1 DEF Taking, Cmds
    <2>2. op \in AskedOps
      BY <2>1 DEF AskInv, CmdsAsked, Asked
    <2> QED
      BY <1>1, <2>1, <2>2 DEF Taking, Took, Cmds, Out
  <1>3. ASSUME PrefetchWarm(deck) \/ SwitchWarmed(deck) \/ EmitCrossfadedEof(deck) \/ Seek(deck) PROVE FALSE
    <2>1. PICK op \in {"PrefetchWarm", "SwitchWarmed", "EmitCrossfadedEof", "Seek"} : Taking(deck, op)
      BY <1>3 DEF PrefetchWarm, SwitchWarmed, EmitCrossfadedEof, Seek
    <2> QED
      BY <1>2, <2>1 DEF AskedOps
  <1>4. CASE PlayUrl(deck)
    <2>1. Took("PlayUrl") /\ c.load \in MaybeLoad
      BY <1>2, <1>4, TakingType, DeckIsOne DEF PlayUrl, Types, MaybeLoad, Cmds, LoadOps
    <2>2. actor' = [actor EXCEPT ![deck] = Loaded(deck, @, c)] \/ actor' = [actor EXCEPT ![deck] = Refused(@, c)]
      BY <1>4 DEF PlayUrl, Cmds
    <2>3. CASE actor' = [actor EXCEPT ![deck] = Loaded(deck, @, c)]
      <3>1. actor'[deck] = Loaded(deck, actor[deck], c)
        BY <1>1, <2>3
      <3>2. /\ Latch' = c.load /\ Bare' /\ Watch' = "Playing"
            /\ Out' = <<Reply(c.by, TRUE), Send(Ev(deck, "Playing", c.load, "plain", c.load))>>
        <4> DEFINE o == <<Reply(c.by, TRUE), Send(Ev(deck, "Playing", c.load, "plain", c.load))>>
        <4>1. actor'[deck] = [actor[deck] EXCEPT !.latch = c.load, !.warm = NoWarm,
                                                 !.watch = "Playing", !.adrift = EndQueued(deck), !.out = o]
          BY <3>1 DEF Loaded
        <4> HIDE DEF o
        <4>2. /\ actor'[deck].latch = c.load /\ actor'[deck].warm = NoWarm
              /\ actor'[deck].watch = "Playing" /\ actor'[deck].out = o
          BY <1>1, <4>1 DEF ActorState
        <4> QED
          BY <4>2 DEF Latch, Bare, Warmth, Watch, Out, NoWarm, o
      <3> QED
        BY <2>1, <3>2 DEF Loads, DeckMoves
    <2>4. CASE actor' = [actor EXCEPT ![deck] = Refused(@, c)]
      <3>1. actor'[deck] = Refused(actor[deck], c)
        BY <1>1, <2>4
      <3>2. Latch' = Latch /\ Watch' = Watch /\ Bare' /\ Out' = <<Reply(c.by, FALSE)>>
        <4> DEFINE o == <<Reply(c.by, FALSE)>>
                   b == actor[deck].adrift \/ actor[deck].warm.kind # "None"
        <4>1. actor'[deck] = [actor[deck] EXCEPT !.warm = NoWarm, !.adrift = b, !.out = o]
          BY <3>1 DEF Refused
        <4> HIDE DEF o, b
        <4>2. /\ actor'[deck].latch = actor[deck].latch /\ actor'[deck].warm = NoWarm
              /\ actor'[deck].watch = actor[deck].watch /\ actor'[deck].out = o
          BY <1>1, <4>1 DEF ActorState
        <4> QED
          BY <4>2 DEF Latch, Bare, Warmth, Watch, Out, NoWarm, o
      <3> QED
        BY <2>1, <3>2 DEF Loads, DeckMoves
    <2> QED
      BY <2>2, <2>3, <2>4
  <1>5. CASE PrefetchContinuation(deck)
    <2>1. Took("PrefetchContinuation")
      BY <1>2, <1>5 DEF PrefetchContinuation
    <2>2. PICK ok \in LoadResults :
             actor' = [actor EXCEPT
                      ![deck].warm = IF ok THEN [kind |-> "Continuation", load |-> c.load] ELSE NoWarm,
                      ![deck].adrift = @ \/ EndQueued(deck),
                      ![deck].out = <<Reply(c.by, ok)>>]
      BY <1>5 DEF PrefetchContinuation, Cmds
    <2>3. /\ Latch' = Latch /\ Watch' = Watch /\ Out' = <<Reply(c.by, ok)>>
          /\ Warmth' = IF ok THEN [kind |-> "Continuation", load |-> c.load] ELSE NoWarm
      BY <1>1, <2>2 DEF ActorState, Latch, Warmth, Watch, Out
    <2>4. ok = TRUE \/ ok = FALSE
      BY DeckAssumption
    <2> QED
      BY <2>1, <2>3, <2>4 DEF Parks, DeckMoves, NoWarm, Bare
  <1>6. CASE DropWarm(deck)
    <2>1. Took("DropWarm")
      BY <1>2, <1>6 DEF DropWarm
    <2>2. Latch' = Latch /\ Watch' = Watch /\ Bare' /\ Out' = <<Reply(c.by, TRUE)>>
      BY <1>1, <1>6 DEF DropWarm, ActorState, Latch, Warmth, Watch, Out, Bare, NoWarm, Cmds
    <2> QED
      BY <2>1, <2>2 DEF DropsWarm, DeckMoves
  <1>7. ASSUME NEW op, NEW on \in BOOLEAN, SetPause(deck, op, on)
        PROVE  Pauses(op, IF on THEN "Paused" ELSE "Playing")
    <2> DEFINE st == IF on THEN "Paused" ELSE "Playing"
               a == actor[deck]
    <2>1. Took(op)
      BY <1>2, <1>7 DEF SetPause
    <2>2. actor'[deck] = IF a.latch = NoLoad THEN [a EXCEPT !.out = <<Reply(c.by, TRUE)>>]
                         ELSE [a EXCEPT !.watch = st,
                                        !.out = <<Send(Ev(deck, st, a.latch, "plain", a.latch)), Reply(c.by, TRUE)>>]
      BY <1>1, <1>7 DEF SetPause, Cmds
    <2> HIDE DEF st
    <2>3. /\ Latch' = Latch /\ Warmth' = Warmth
          /\ \/ Latch = NoLoad /\ Watch' = Watch /\ Out' = <<Reply(c.by, TRUE)>>
             \/ /\ Latch # NoLoad /\ Watch' = st
                /\ Out' = <<Send(Ev(deck, st, Latch, "plain", Latch)), Reply(c.by, TRUE)>>
      BY <1>1, <2>2 DEF ActorState, Latch, Warmth, Watch, Out
    <2> QED
      BY <2>1, <2>3 DEF Pauses, st
  <1>8. CASE Pause(deck) \/ Resume(deck)
    BY <1>7, <1>8 DEF Pause, Resume, DeckMoves
  <1>9. CASE Stop(deck)
    <2>1. Took("Stop")
      BY <1>2, <1>9 DEF Stop
    <2>2. /\ Latch' = NoLoad /\ Watch' = "Stopped" /\ Bare'
          /\ Out' = <<Send(Ev(deck, "Stopped", NoLoad, "plain", NoLoad)), Reply(c.by, TRUE)>>
      BY <1>1, <1>9 DEF Stop, ActorState, Latch, Warmth, Watch, Out, Bare, NoWarm, Cmds
    <2> QED
      BY <2>1, <2>2 DEF Stops, DeckMoves
  <1> QED
    BY <1>3, <1>4, <1>5, <1>6, <1>8, <1>9 DEF HandleCmd

LEMMA PumpMoves ==
    ASSUME Types, AskInv, PumpEvent(deck)
    PROVE  DeckMoves
  <1> DEFINE a == actor[deck]
             e == Head(mpv[deck].ends)
  <1>1. /\ deck \in Deck /\ actor \in [Deck -> ActorState] /\ a \in ActorState
        /\ mpv \in [Deck -> Core] /\ mpv[deck] \in Core
        /\ a.latch \in MaybeLoad /\ a.warm.load \in MaybeLoad
    BY DeckIsOne DEF Types, TypeInv, TypeOK, ActorState, Warm
  <1>2. Pumping(deck) => Free /\ UNCHANGED <<cmds, reply>>
    BY DEF Pumping, Free, Out, Cmds
  <1>3. ASSUME NEW rs, PumpingEnd(deck, rs)
        PROVE  /\ Free /\ Same /\ e \in EndReport /\ e.load \in MaybeLoad /\ e.reason \in rs
               /\ e.reason # "Stop" => EndQueued(deck)
    <2>1. mpv[deck].ends \in Seq(EndReport) /\ mpv[deck].ends # << >>
      BY <1>1, <1>3 DEF Core, PumpingEnd
    <2>2. e \in EndReport /\ e = mpv[deck].ends[1] /\ 1 \in DOMAIN mpv[deck].ends
      BY <2>1
    <2>3. e.reason # "Stop" => EndQueued(deck)
      BY <2>2 DEF EndQueued
    <2>4. Pumping(deck) /\ UNCHANGED ring /\ e.reason \in rs
      BY <1>3 DEF PumpingEnd
    <2>5. e.load \in MaybeLoad
      BY <2>2 DEF EndReport, MaybeLoad
    <2> QED
      BY <1>2, <2>2, <2>3, <2>4, <2>5 DEF Same
  <1>4. CASE PumpPosition(deck)
    <2>1. Free /\ UNCHANGED <<cmds, reply, actor>>
      BY <1>2, <1>4 DEF PumpPosition
    <2>2. mpv[deck].tick \in MaybeLoad
      BY <1>1 DEF Core
    <2> QED
      BY <1>1, <1>4, <2>1, <2>2 DEF PumpPosition, Positions, DeckMoves
  <1>5. ASSUME EndFileSkip(deck) PROVE FALSE
    BY <1>5 DEF EndFileSkip, AskInv, DeckPlain, Warmth
  <1>6. CASE EndFileLanded(deck)
    <2>1. Free /\ Same /\ EndQueued(deck) /\ e.load \in MaybeLoad
      BY <1>3, <1>6 DEF EndFileLanded
    <2>2. a.warm.kind = "Continuation"
          /\ actor'[deck] = [a EXCEPT !.latch = a.warm.load, !.warm = NoWarm, !.watch = "Playing",
                            !.out = <<Send(Ev(deck, "Eof", a.latch, "landed", e.load)),
                                      Send(Ev(deck, "Playing", a.warm.load, "noid", a.warm.load))>>]
      BY <1>1, <1>6 DEF EndFileLanded
    <2>3. /\ ~Bare /\ Latch' = Warmth.load /\ Bare' /\ Watch' = "Playing"
          /\ Out' = <<Send(Ev(deck, "Eof", Latch, "landed", e.load)),
                      Send(Ev(deck, "Playing", Warmth.load, "noid", Warmth.load))>>
      BY <1>1, <2>2 DEF ActorState, Latch, Warmth, Watch, Out, Bare, NoWarm
    <2> QED
      BY <2>1, <2>3 DEF Lands, DeckMoves
  <1>7. ASSUME NEW f \in {"plain", "errored"}, NEW x \in MaybeLoad, Free, Same, EndQueued(deck),
               \E b : actor'[deck] = [EmitHonestStop(deck, a, f, x) EXCEPT !.adrift = b]
        PROVE  Ends
    <2>1. PICK b : actor'[deck] = [EmitHonestStop(deck, a, f, x) EXCEPT !.adrift = b]
      BY <1>7
    <2>2. EmitHonestStop(deck, a, f, x) \in ActorState
      BY <1>1, EmitHonestStopType
    <2>3. LET h == EmitHonestStop(deck, a, f, x) IN
          /\ h.latch = NoLoad /\ h.warm = NoWarm /\ h.watch = "Stopped"
          /\ h.out = HonestStopSends(deck, a, f, x)
      BY <1>1 DEF EmitHonestStop, ActorState
    <2> DEFINE h == EmitHonestStop(deck, a, f, x)
    <2> HIDE DEF h
    <2>4. /\ actor'[deck].latch = h.latch /\ actor'[deck].warm = h.warm
          /\ actor'[deck].watch = h.watch /\ actor'[deck].out = h.out
      BY <2>1, <2>2 DEF h, ActorState
    <2>5. Latch' = NoLoad /\ Bare' /\ Watch' = "Stopped" /\ Out' = HonestStopSends(deck, a, f, x)
      BY <2>3, <2>4 DEF h, Latch, Bare, Warmth, Watch, Out, NoWarm
    <2> QED
      BY <1>7, <2>5 DEF Ends
  <1>8. CASE EndFileHonestStop(deck)
    <2>1. /\ Free /\ Same /\ e.load \in MaybeLoad /\ EndQueued(deck)
      BY <1>3, <1>8 DEF EndFileHonestStop
    <2>2. EndFlag(e) \in {"plain", "errored"}
      BY DEF EndFlag
    <2>3. \E b : actor'[deck] = [EmitHonestStop(deck, a, EndFlag(e), e.load) EXCEPT !.adrift = b]
      <3> DEFINE h == EmitHonestStop(deck, a, EndFlag(e), e.load)
      <3>1. actor' = [actor EXCEPT ![deck] = [h EXCEPT !.adrift = @ \/ a.warm.kind = "Continuation"]]
        BY <1>8 DEF EndFileHonestStop
      <3> HIDE DEF h
      <3>2. actor'[deck] = [h EXCEPT !.adrift = @ \/ a.warm.kind = "Continuation"]
        BY <1>1, <3>1
      <3> QED
        BY <3>2 DEF h
    <2> QED
      BY <1>7, <2>1, <2>2, <2>3 DEF DeckMoves
  <1>9. CASE EndFileStop(deck)
    <2>1. Free /\ Same
      BY <1>3, <1>9 DEF EndFileStop
    <2>2. Latch' = Latch /\ Watch' = Watch /\ Bare' /\ Out' = Out
      BY <1>1, <1>9 DEF EndFileStop, ActorState, Latch, Bare, Warmth, Watch, Out, NoWarm
    <2> QED
      BY <2>1, <2>2 DEF Forgets, Free, DeckMoves
  <1>10. CASE LoadFailure(deck)
    <2>1. /\ Free /\ Same /\ e.load \in MaybeLoad /\ EndQueued(deck)
      BY <1>3, <1>10 DEF LoadFailure
    <2>2. CASE actor' = [actor EXCEPT ![deck] = EmitHonestStop(deck, a, "errored", e.load)]
      <3> DEFINE h == EmitHonestStop(deck, a, "errored", e.load)
      <3>1. h \in ActorState
        BY <1>1, <2>1, EmitHonestStopType
      <3> HIDE DEF h
      <3>2. actor'[deck] = h /\ [h EXCEPT !.adrift = h.adrift] = h
        BY <1>1, <2>2, <3>1 DEF h, ActorState
      <3>3. \E b : actor'[deck] = [h EXCEPT !.adrift = b]
        BY <3>2
      <3> QED
        BY <1>7, <2>1, <3>3 DEF h, DeckMoves
    <2>3. CASE actor' = [actor EXCEPT ![deck].adrift = TRUE]
      <3>1. Latch' = Latch /\ Watch' = Watch /\ Warmth' = Warmth /\ Out' = Out
        BY <1>1, <2>3 DEF ActorState, Latch, Warmth, Watch, Out
      <3> QED
        BY <2>1, <3>1 DEF Forgets, Free, DeckMoves
    <2> QED
      BY <1>10, <2>2, <2>3 DEF LoadFailure
  <1> QED
    BY <1>4, <1>5, <1>6, <1>8, <1>9, <1>10 DEF PumpEvent

LEMMA StepMoves ==
    ASSUME Types, AskInv, DeckStep
    PROVE  DeckMoves /\ UNCHANGED <<queueVars, slot, fade, pub, task>> /\ Contest
  <1>1. /\ deck \in Deck /\ actor \in [Deck -> ActorState] /\ actor[deck] \in ActorState
    BY DeckIsOne DEF Types, TypeInv, TypeOK
  <1>2. ASSUME ActorEffect(deck) PROVE DeckMoves
    <2>1. /\ Out # << >> /\ UNCHANGED cmds /\ actor' = [actor EXCEPT ![deck].out = Tail(@)]
      BY <1>2 DEF ActorEffect, Out
    <2>2. Out' = Tail(Out) /\ Latch' = Latch /\ Warmth' = Warmth /\ Watch' = Watch
      BY <1>1, <2>1 DEF ActorState, Latch, Warmth, Watch, Out
    <2> QED
      BY <1>2, <2>1, <2>2 DEF ActorEffect, Out, Sends, Answers, DeckMoves
  <1>3. ASSUME MpvPosition(deck) \/ MpvFileEnds(deck) PROVE DeckMoves
    BY <1>3 DEF MpvPosition, MpvFileEnds, Rests, DeckMoves
  <1>4. DeckMoves
    BY <1>2, <1>3, CmdMoves, PumpMoves DEF DeckStep, ActorStep
  <1> QED
    BY <1>4 DEF DeckStep, DeckFrame

-----------------------------------------------------------------------------
(* The deck leaves no question unanswered, and answers none twice. *)

LEMMA AskedSame ==
    ASSUME UNCHANGED <<task, fade>>
    PROVE  \A x : Asked(x) => Asked(x)'
  BY DEF Asked, AskedBySpine, AskedByClient, AskedByFader, At

\* What is behind the first of a list.
LEMMA TailShape ==
    ASSUME NEW S, NEW s \in Seq(S), s # << >>
    PROVE  /\ Head(s) = s[1] /\ 1 \in DOMAIN s /\ Len(Tail(s)) = Len(s) - 1 /\ Len(s) \in Nat \ {0}
           /\ DOMAIN s = 1..Len(s) /\ Tail(s) \in Seq(S) /\ DOMAIN Tail(s) = 1..(Len(s) - 1)
           /\ \A i \in DOMAIN Tail(s) : i + 1 \in DOMAIN s /\ Tail(s)[i] = s[i + 1] /\ i + 1 # 1
           /\ \A i \in DOMAIN s : i # 1 => i - 1 \in DOMAIN Tail(s) /\ Tail(s)[i - 1] = s[i]
  <1>1. /\ Head(s) = s[1] /\ Len(Tail(s)) = Len(s) - 1 /\ Len(s) \in Nat \ {0} /\ Tail(s) \in Seq(S)
        /\ \A i \in 1..(Len(s) - 1) : Tail(s)[i] = s[i + 1]
    BY HeadTailProperties, EmptySeq
  <1>2. DOMAIN s = 1..Len(s) /\ DOMAIN Tail(s) = 1..(Len(s) - 1)
    BY <1>1
  <1>3. \A i \in 1..Len(s) : i # 1 => i - 1 \in 1..(Len(s) - 1) /\ (i - 1) + 1 = i
    BY <1>1
  <1>4. \A i \in 1..(Len(s) - 1) : i + 1 \in 1..Len(s) /\ i + 1 # 1
    BY <1>1
  <1> QED
    BY <1>1, <1>2, <1>3, <1>4

LEMMA RowTypes ==
    ASSUME Types
    PROVE  /\ Cmds \in Seq(Command) /\ Out \in Seq(Effect) /\ ring \in Seq(Event)
           /\ Latch \in MaybeLoad /\ Warmth \in Warm /\ Warmth.load \in MaybeLoad /\ Watch \in PlayState
           /\ reply \in [Caller -> {"none", "wait", "ok", "err"}]
           /\ cmds \in [Deck -> Seq(Command)] /\ deck \in Deck
  BY DeckIsOne DEF Types, TypeInv, TypeOK, ActorState, Warm, Cmds, Out, Latch, Warmth, Watch

\* One answer, to the sender of the command just taken.
OneAnswer(o, c) ==
    /\ \A i \in DOMAIN o : ~IsEof(o[i]) /\ (IsReply(o[i]) => o[i].to = c)
    /\ \A i, j \in DOMAIN o : IsReply(o[i]) /\ IsReply(o[j]) => i = j

LEMMA TookAnswers ==
    ASSUME Types, NEW op, Took(op), DeckMoves
    PROVE  OneAnswer(Out', Head(Cmds).by)
  <1>1. \A c, ok : OneAnswer(<<Reply(c, ok)>>, c)
    BY DEF OneAnswer, Reply, IsReply, IsEof
  <1>2. ASSUME NEW c, NEW k \in {"Playing", "Paused", "Stopped"}, NEW l, NEW f, NEW x, NEW ok
        PROVE  /\ OneAnswer(<<Reply(c, ok), Send(Ev(deck, k, l, f, x))>>, c)
               /\ OneAnswer(<<Send(Ev(deck, k, l, f, x)), Reply(c, ok)>>, c)
    BY DEF OneAnswer, Reply, IsReply, IsEof, Send, Ev
  <1>3. Cmds # << >> /\ Cmds' = Tail(Cmds) /\ Cmds \in Seq(Command) /\ Out = << >>
    BY RowTypes DEF Took
  <1>4. Cmds' # Cmds
    BY <1>3, TailShape
  <1>5. ~(Sends \/ Answers \/ Positions \/ Lands \/ Ends \/ Forgets \/ Rests)
    BY <1>3, <1>4 DEF Sends, Answers, Positions, Lands, Ends, Forgets, Rests, Free, Cmds
  <1>6. CASE Loads
    BY <1>1, <1>2, <1>6 DEF Loads
  <1>7. CASE Parks \/ DropsWarm
    BY <1>1, <1>7 DEF Parks, DropsWarm
  <1>8. ASSUME NEW st \in {"Playing", "Paused"}, NEW op2, Pauses(op2, st) PROVE OneAnswer(Out', Head(Cmds).by)
    BY <1>1, <1>2, <1>8 DEF Pauses
  <1>9. CASE Stops
    BY <1>2, <1>9 DEF Stops
  <1> QED
    BY <1>5, <1>6, <1>7, <1>8, <1>9 DEF DeckMoves

LEMMA MovesPlain ==
    ASSUME Types, FlightInv, AskInv, DeckMoves
    PROVE  DeckPlain'
  <1>1. Warmth.kind \in {"None", "Continuation"} /\ (Watch = "Stopped" <=> Latch = NoLoad)
    BY DEF AskInv, DeckPlain
  <1>2. Latch' = Latch /\ Watch' = Watch /\ (Warmth' = Warmth \/ Bare') => DeckPlain'
    BY <1>1 DEF DeckPlain, Bare
  <1>3. Cmds # << >> /\ Head(Cmds).op \in LoadOps => Head(Cmds).load # NoLoad
    <2> SUFFICES ASSUME Cmds # << >>, Head(Cmds).op \in LoadOps PROVE Head(Cmds).load # NoLoad
      OBVIOUS
    <2>1. Head(Cmds) \in Command
      BY RowTypes, HeadTailProperties
    <2> QED
      BY <2>1, DeckAssumption DEF Command, LoadOps, PlainOps
  <1>4. CASE Loads
    <2>1. Head(Cmds).load # NoLoad
      BY <1>3, <1>4 DEF Loads, Took, LoadOps
    <2> QED
      BY <1>2, <1>4, <2>1 DEF Loads, DeckPlain, Bare
  <1>5. CASE Parks
    <2>1. Latch' = Latch /\ Watch' = Watch
      BY <1>5 DEF Parks
    <2>2. CASE Warmth' = [kind |-> "Continuation", load |-> Head(Cmds).load]
      BY <1>1, <2>1, <2>2 DEF DeckPlain
    <2>3. CASE Bare'
      BY <1>2, <2>1, <2>3
    <2> QED
      BY <1>5, <2>2, <2>3 DEF Parks
  <1>6. CASE Stops \/ Ends
    BY <1>6 DEF Stops, Ends, DeckPlain, Bare
  <1>7. CASE Lands
    <2>1. Latch' # NoLoad
      BY <1>7 DEF Lands, FlightInv, Bare, Warmth
    <2> QED
      BY <1>7, <2>1 DEF Lands, DeckPlain, Bare
  <1>8. ASSUME NEW st \in {"Playing", "Paused"}, NEW op, Pauses(op, st) PROVE DeckPlain'
    BY <1>1, <1>2, <1>8 DEF Pauses, DeckPlain
  <1>9. CASE Sends \/ Answers \/ DropsWarm \/ Forgets
    BY <1>2, <1>9 DEF Sends, Answers, DropsWarm, Forgets
  <1>10. CASE Positions \/ Rests
    BY <1>2, <1>10 DEF Positions, Rests, Latch, Watch, Warmth
  <1> QED
    BY <1>4, <1>5, <1>6, <1>7, <1>8, <1>9, <1>10 DEF DeckMoves

LEMMA MovesAsk ==
    ASSUME Types, FlightInv, AskInv, DeckMoves, UNCHANGED <<task, fade>>
    PROVE  AskInv'
  <1>1. CmdsAsked /\ RepliesOwed
    BY DEF AskInv
  <1> SUFFICES CmdsAsked' /\ RepliesOwed'
    BY MovesPlain DEF AskInv
  <1>2. ASSUME UNCHANGED <<cmds, reply>>,
               \/ \A i \in DOMAIN Out' : ~IsReply(Out'[i])
               \/ Out' = Out
               \/ Out # << >> /\ Out' = Tail(Out)
        PROVE  CmdsAsked' /\ RepliesOwed'
    <2>1. Cmds' = Cmds /\ reply' = reply
      BY <1>2 DEF Cmds
    <2>2. CmdsAsked'
      BY <1>1, <2>1, AskedSame DEF CmdsAsked
    <2>3. CASE \A i \in DOMAIN Out' : ~IsReply(Out'[i])
      BY <2>2, <2>3 DEF RepliesOwed
    <2>4. CASE Out' = Out
      BY <1>1, <2>1, <2>2, <2>4 DEF RepliesOwed
    <2>5. CASE Out # << >> /\ Out' = Tail(Out)
      <3>1. \A i \in DOMAIN Out' : i \in Nat /\ i + 1 \in DOMAIN Out /\ Out'[i] = Out[i + 1]
        BY <2>5, RowTypes, TailShape
      <3> SUFFICES ASSUME NEW i \in DOMAIN Out', IsReply(Out'[i])
                   PROVE  /\ Out'[i].to # Gone =>
                              reply'[Out'[i].to] = "wait" /\ \A j \in DOMAIN Cmds' : Cmds'[j].by # Out'[i].to
                          /\ \A j \in DOMAIN Out' : ~IsEof(Out'[j]) /\ (IsReply(Out'[j]) => i = j)
        BY <2>2 DEF RepliesOwed
      <3>2. i + 1 \in DOMAIN Out /\ Out'[i] = Out[i + 1] /\ IsReply(Out[i + 1])
        BY <3>1
      <3>3. \A j \in DOMAIN Out' : ~IsEof(Out'[j]) /\ (IsReply(Out'[j]) => i = j)
        <4> TAKE j \in DOMAIN Out'
        <4>1. j + 1 \in DOMAIN Out /\ Out'[j] = Out[j + 1] /\ i \in Nat /\ j \in Nat
          BY <3>1
        <4>2. ~IsEof(Out[j + 1]) /\ (IsReply(Out[j + 1]) => i + 1 = j + 1)
          BY <1>1, <3>2, <4>1 DEF RepliesOwed
        <4> QED
          BY <4>1, <4>2
      <3> QED
        BY <1>1, <2>1, <3>2, <3>3 DEF RepliesOwed
    <2> QED
      BY <1>2, <2>2, <2>3, <2>4, <2>5
  <1>3. ASSUME NEW op, Took(op) PROVE CmdsAsked' /\ RepliesOwed'
    <2> DEFINE c == Head(Cmds).by
    <2>1. /\ Cmds # << >> /\ Cmds' = Tail(Cmds) /\ reply' = reply
          /\ c = Cmds[1].by /\ 1 \in DOMAIN Cmds
          /\ \A i \in DOMAIN Cmds' : i \in Nat /\ i + 1 \in DOMAIN Cmds /\ Cmds'[i] = Cmds[i + 1] /\ i + 1 # 1
      BY <1>3, RowTypes, TailShape DEF Took
    <2> HIDE DEF c
    <2>2. (\A i \in DOMAIN Cmds : Asked(Cmds[i]) /\ (Cmds[i].by # Gone => reply[Cmds[i].by] = "wait"))'
      <3> SUFFICES ASSUME NEW i \in DOMAIN Cmds'
                   PROVE  (Asked(Cmds[i]) /\ (Cmds[i].by # Gone => reply[Cmds[i].by] = "wait"))'
        OBVIOUS
      <3>1. PICK x : x = Cmds[i + 1] /\ x = Cmds'[i] /\ i + 1 \in DOMAIN Cmds
        BY <2>1
      <3>2. Asked(x)' /\ (x.by # Gone => reply'[x.by] = "wait")
        BY <1>1, <2>1, <3>1, AskedSame DEF CmdsAsked
      <3> QED
        BY <3>1, <3>2
    <2>3. ASSUME NEW i \in DOMAIN Cmds', NEW j \in DOMAIN Cmds', Cmds'[i].by = Cmds'[j].by, Cmds'[i].by # Gone
          PROVE  i = j
      <3>1. i + 1 = j + 1 /\ i \in Nat /\ j \in Nat
        BY <1>1, <2>1, <2>3 DEF CmdsAsked
      <3> QED
        BY <3>1
    <2>4. CmdsAsked'
      BY <2>2, <2>3 DEF CmdsAsked
    <2>5. c # Gone => reply'[c] = "wait" /\ \A j \in DOMAIN Cmds' : Cmds'[j].by # c
      BY <1>1, <2>1 DEF CmdsAsked
    <2>6. OneAnswer(Out', c)
      BY <1>3, TookAnswers DEF c
    <2> QED
      BY <2>4, <2>5, <2>6 DEF OneAnswer, RepliesOwed
  <1>4. CASE Answers
    <2> DEFINE c == Head(Out).to
    <2>1. /\ Out # << >> /\ Out' = Tail(Out) /\ Cmds' = Cmds
          /\ c = Out[1].to /\ 1 \in DOMAIN Out /\ IsReply(Out[1])
          /\ \A i \in DOMAIN Out' : i \in Nat /\ i + 1 \in DOMAIN Out /\ Out'[i] = Out[i + 1] /\ i + 1 # 1
      BY <1>4, RowTypes, TailShape DEF Answers, IsReply, Cmds
    <2>2. \A i \in DOMAIN Out' : ~IsReply(Out'[i])
      BY <1>1, <2>1 DEF RepliesOwed
    <2>3. reply' = [reply EXCEPT ![c] = IF Head(Out).ok THEN "ok" ELSE "err"]
      BY <1>4 DEF Answers
    <2> HIDE DEF c
    <2>4. \A i \in DOMAIN Cmds : Cmds[i].by # Gone => Cmds[i].by # c
      BY <1>1, <2>1 DEF RepliesOwed
    <2>5. \A i \in DOMAIN Cmds : Cmds[i].by # Gone => reply'[Cmds[i].by] = reply[Cmds[i].by]
      BY <2>3, <2>4, RowTypes
    <2>6. CmdsAsked'
      BY <1>1, <2>1, <2>5, AskedSame DEF CmdsAsked
    <2> QED
      BY <2>2, <2>6 DEF RepliesOwed
  <1>5. CASE Ends
    <2>1. PICK f \in {"plain", "errored"}, x \in MaybeLoad : Out' = HonestStopSends(deck, actor[deck], f, x)
      BY <1>5 DEF Ends
    <2>2. \A i \in DOMAIN Out' : ~IsReply(Out'[i])
      BY <2>1 DEF HonestStopSends, IsReply, Send
    <2> QED
      BY <1>2, <1>5, <2>2 DEF Ends, Same
  <1>6. CASE Lands
    <2>1. \A i \in DOMAIN Out' : ~IsReply(Out'[i])
      BY <1>6 DEF Lands, IsReply, Send
    <2> QED
      BY <1>2, <1>6, <2>1 DEF Lands, Same
  <1>7. CASE Sends \/ Positions \/ Forgets \/ Rests
    BY <1>2, <1>7 DEF Sends, Positions, Forgets, Rests, Free, Same, Out
  <1> QED
    BY <1>1, <1>3, <1>4, <1>5, <1>6, <1>7 DEF DeckMoves, Loads, Parks, DropsWarm, Pauses, Stops

-----------------------------------------------------------------------------
(* Nor do the tasks ask for anything while they wait. *)

LEMMA NothingAsked ==
    ASSUME AskInv, NEW c \in {Spine, Client, Fader},
           \/ reply[c] # "wait"
           \/ c = Spine /\ task[Spine].pc \in {"idle", "advance", "goto", "advanced"}
           \/ c = Client /\ task[Client].pc \in {"idle", "load", "evict"}
           \/ c = Fader /\ fade # "pausing"
           \/ c \in {Spine, Client} /\ At(c, "todo") /\ Head(task[c].todo) # "wait"
    PROVE  \A i \in DOMAIN Cmds : Cmds[i].by # c
  <1> SUFFICES ASSUME NEW i \in DOMAIN Cmds, Cmds[i].by = c PROVE FALSE
    OBVIOUS
  <1>1. Asked(Cmds[i]) /\ (c # Gone => reply[c] = "wait") /\ c # Gone
    BY TasksDiffer DEF AskInv, CmdsAsked
  <1> QED
    BY <1>1, TasksDiffer DEF Asked, AskedBySpine, AskedByClient, AskedByFader, At

LEMMA OthersKeep ==
    /\ UNCHANGED fade /\ task'[Client] = task[Client] => \A x : x.by # Spine /\ Asked(x) => Asked(x)'
    /\ (fade' = fade \/ fade # "pausing") /\ task'[Spine] = task[Spine]
         => \A x : x.by # Client /\ Asked(x) => Asked(x)'
    /\ UNCHANGED task => \A x : x.by # Fader /\ Asked(x) => Asked(x)'
  BY DEF Asked, AskedBySpine, AskedByClient, AskedByFader, At

LEMMA AskKeeps ==
    ASSUME Types, AskInv, NEW c \in {Spine, Client, Fader}, UNCHANGED actor,
           \A i \in DOMAIN Cmds : Cmds[i].by # c,
           \A x : x.by # c /\ Asked(x) => Asked(x)',
           \/ UNCHANGED <<cmds, reply>>
           \/ \E op, l : Request(deck, c, op, l) /\ Asked([op |-> op, load |-> l, by |-> c])'
    PROVE  AskInv'
  <1>1. CmdsAsked /\ RepliesOwed /\ DeckPlain /\ c # Gone
    BY TasksDiffer DEF AskInv
  <1>2. DeckPlain' /\ Out' = Out
    BY <1>1 DEF DeckPlain, Warmth, Watch, Latch, Out
  <1>3. CASE UNCHANGED <<cmds, reply>>
    <2>1. CmdsAsked'
      BY <1>1, <1>3 DEF CmdsAsked, Cmds
    <2>2. RepliesOwed'
      BY <1>1, <1>2, <1>3 DEF RepliesOwed, Cmds
    <2> QED
      BY <1>2, <2>1, <2>2 DEF AskInv
  <1>4. ASSUME NEW op, NEW l, Request(deck, c, op, l), Asked([op |-> op, load |-> l, by |-> c])'
        PROVE  AskInv'
    <2> DEFINE x == [op |-> op, load |-> l, by |-> c]
    <2>1. /\ reply[c] # "wait" /\ reply' = [reply EXCEPT ![c] = "wait"] /\ Cmds' = Append(Cmds, x)
          /\ Cmds \in Seq(Command) /\ reply'[c] = "wait"
          /\ \A b \in Caller : b # c => reply'[b] = reply[b]
      BY <1>4, RowTypes, TasksDiffer DEF Request, Cmds
    <2>2. x.by = c /\ Asked(x)'
      BY <1>4
    <2> HIDE DEF x
    <2>3. \A i \in DOMAIN Cmds' : \/ i \in DOMAIN Cmds /\ Cmds'[i] = Cmds[i] /\ Cmds'[i].by # c
                                  \/ i = Len(Cmds) + 1 /\ Cmds'[i] = x
      BY <2>1, AppendProperties
    <2>4. \A i \in DOMAIN Cmds : Cmds[i].by \in Caller
      <3> SUFFICES ASSUME NEW i \in DOMAIN Cmds PROVE Cmds[i].by \in Caller
        OBVIOUS
      <3>1. Cmds[i] \in Command
        BY <2>1
      <3> QED
        BY <3>1 DEF Command
    <2>5. (\A i \in DOMAIN Cmds : Asked(Cmds[i]) /\ (Cmds[i].by # Gone => reply[Cmds[i].by] = "wait"))'
      <3> SUFFICES ASSUME NEW i \in DOMAIN Cmds'
                   PROVE  (Asked(Cmds[i]) /\ (Cmds[i].by # Gone => reply[Cmds[i].by] = "wait"))'
        OBVIOUS
      <3>1. PICK y : y = Cmds'[i]
        OBVIOUS
      <3>2. CASE i \in DOMAIN Cmds /\ y = Cmds[i] /\ y.by # c
        <4>1. Asked(y) /\ y.by \in Caller /\ (y.by # Gone => reply[y.by] = "wait")
          BY <1>1, <2>4, <3>2 DEF CmdsAsked
        <4>2. Asked(y)' /\ (y.by # Gone => reply'[y.by] = "wait")
          BY <2>1, <3>2, <4>1
        <4> QED
          BY <3>1, <4>2
      <3>3. CASE y = x
        BY <2>1, <2>2, <3>1, <3>3
      <3> QED
        BY <2>3, <3>1, <3>2, <3>3
    <2>6. ASSUME NEW i \in DOMAIN Cmds', NEW j \in DOMAIN Cmds', Cmds'[i].by = Cmds'[j].by, Cmds'[i].by # Gone
          PROVE  i = j
      BY <1>1, <2>2, <2>3, <2>6 DEF CmdsAsked
    <2>7. CmdsAsked'
      BY <2>5, <2>6 DEF CmdsAsked
    <2>8. RepliesOwed'
      <3> SUFFICES ASSUME NEW i \in DOMAIN Out, IsReply(Out[i])
                   PROVE  /\ Out[i].to # Gone =>
                               reply'[Out[i].to] = "wait" /\ \A j \in DOMAIN Cmds' : Cmds'[j].by # Out[i].to
                          /\ \A j \in DOMAIN Out : ~IsEof(Out[j]) /\ (IsReply(Out[j]) => i = j)
        BY <1>2 DEF RepliesOwed
      <3>1. Out[i].to \in Caller
        <4>1. Out[i] \in Effect
          BY RowTypes
        <4> QED
          BY <4>1 DEF Effect, IsReply
      <3>2. /\ Out[i].to # Gone => reply[Out[i].to] = "wait" /\ \A j \in DOMAIN Cmds : Cmds[j].by # Out[i].to
            /\ \A j \in DOMAIN Out : ~IsEof(Out[j]) /\ (IsReply(Out[j]) => i = j)
        BY <1>1 DEF RepliesOwed
      <3> QED
        BY <2>1, <2>2, <2>3, <3>1, <3>2
    <2> QED
      BY <1>2, <2>7, <2>8 DEF AskInv
  <1> QED
    BY <1>3, <1>4

\* Where a task is after a step of its own, and that the other is where it was.
LEMMA TaskMoves ==
    ASSUME TaskTypes, NEW c \in {Spine, Client}, NEW d \in {Spine, Client}, c # d
    PROVE  /\ \A pc : Goto(c, pc) =>
                 /\ task'[d] = task[d] /\ task'[c].pc = pc
                 /\ task'[c].idx = task[c].idx /\ task'[c].item = task[c].item /\ task'[c].how = task[c].how
                 /\ task'[c].flag = task[c].flag /\ task'[c].todo = task[c].todo
           /\ \A todo : Continue(c, todo) /\ todo # << >> =>
                 /\ task'[d] = task[d] /\ task'[c].pc = "todo" /\ task'[c].todo = todo
                 /\ task'[c].idx = task[c].idx /\ task'[c].item = task[c].item /\ task'[c].flag = task[c].flag
           /\ Continue(c, << >>) =>
                 /\ task'[d] = task[d]
                 /\ c = Spine => task'[c].pc = "advanced" /\ task'[c].idx = task[c].idx
                 /\ c = Client => task'[c] = NoTask /\ task'[c].pc = "idle"
           /\ \A r : task' = [task EXCEPT ![c] = r] => task'[c] = r /\ task'[d] = task[d]
  <1>1. task \in [{Spine, Client} -> Task] /\ task[c] \in Task
    BY DEF TaskTypes
  <1>2. \A r : task' = [task EXCEPT ![c] = r] => task'[c] = r /\ task'[d] = task[d]
    BY <1>1
  <1>3. ASSUME NEW pc, Goto(c, pc)
        PROVE  /\ task'[d] = task[d] /\ task'[c].pc = pc
               /\ task'[c].idx = task[c].idx /\ task'[c].item = task[c].item /\ task'[c].how = task[c].how
               /\ task'[c].flag = task[c].flag /\ task'[c].todo = task[c].todo
    BY <1>1, <1>3 DEF Goto, Task
  <1>4. ASSUME NEW todo, Continue(c, todo), todo # << >>
        PROVE  /\ task'[d] = task[d] /\ task'[c].pc = "todo" /\ task'[c].todo = todo
               /\ task'[c].idx = task[c].idx /\ task'[c].item = task[c].item /\ task'[c].flag = task[c].flag
    BY <1>1, <1>4 DEF Continue, Task
  <1>5. ASSUME Continue(c, << >>)
        PROVE  /\ task'[d] = task[d]
               /\ c = Spine => task'[c].pc = "advanced" /\ task'[c].idx = task[c].idx
               /\ c = Client => task'[c] = NoTask /\ task'[c].pc = "idle"
    BY <1>1, <1>5, NoTaskType, TasksDiffer DEF Continue, Returned, Task
  <1> QED
    BY <1>2, <1>3, <1>4, <1>5

LEMMA WaitFirst ==
    ASSUME NEW rest \in Seq(Todo)
    PROVE  LET s == <<"wait">> \o rest IN
           /\ s # << >> /\ Head(s) = "wait" /\ Tail(s) = rest
           /\ \A i \in DOMAIN s : i = 1 \/ (i - 1 \in DOMAIN rest /\ s[i] = rest[i - 1])
           /\ \A i \in DOMAIN rest : i + 1 \in DOMAIN s /\ s[i + 1] = rest[i]
  <1>1. <<"wait">> \in Seq(Todo)
    BY DEF Todo
  <1>2. <<"wait">> \o rest \in Seq(Todo) /\ Len(<<"wait">> \o rest) = Len(rest) + 1 /\ Len(rest) \in Nat
    BY <1>1
  <1> QED
    BY <1>1, <1>2

LEMMA ReadsAsk ==
    ASSUME Types, AskInv, SpinePlaying \/ SpinePaused \/ SpineStopped \/ SpineTimePos \/ SpineEof
    PROVE  AskInv'
  <1>1. /\ At(Spine, "idle") /\ UNCHANGED <<actor, cmds, reply, fade>>
    BY DEF SpinePlaying, SpinePaused, SpineStopped, SpineTimePos, SpineEof, SpineReads
  <1>2. task'[Client] = task[Client]
    BY TaskMoves, TasksDiffer DEF SpinePlaying, SpinePaused, SpineStopped, SpineTimePos, SpineEof, Types
  <1>3. \A i \in DOMAIN Cmds : Cmds[i].by # Spine
    BY <1>1, NothingAsked DEF At
  <1>4. \A x : x.by # Spine /\ Asked(x) => Asked(x)'
    BY <1>1, <1>2, OthersKeep
  <1> QED
    BY <1>1, <1>3, <1>4, AskKeeps

\* What a step of the spine's that asks for something, or nothing, must show.
LEMMA SpineAsks ==
    ASSUME Types, AskInv, UNCHANGED <<actor, fade>>, task'[Client] = task[Client],
           \A i \in DOMAIN Cmds : Cmds[i].by # Spine,
           \/ UNCHANGED <<cmds, reply>>
           \/ \E op \in AskedOps : \E l : /\ Request(deck, Spine, op, l)
                                           /\ \A x : x.op = op /\ x.load = l => AskedBySpine(x)'
    PROVE  AskInv'
  <1>1. \A x : x.by # Spine /\ Asked(x) => Asked(x)'
    BY OthersKeep
  <1>2. ASSUME NEW op \in AskedOps, NEW l, Request(deck, Spine, op, l),
               \A x : x.op = op /\ x.load = l => AskedBySpine(x)'
        PROVE  AskInv'
    <2> DEFINE x == [op |-> op, load |-> l, by |-> Spine]
    <2>1. x.op = op /\ x.load = l /\ x.by = Spine
      OBVIOUS
    <2>2. AskedBySpine(x)'
      BY <1>2, <2>1
    <2> HIDE DEF x
    <2>3. Asked(x)'
      BY <2>1, <2>2, TasksDiffer DEF Asked
    <2> QED
      BY <1>1, <1>2, <2>3, AskKeeps DEF x
  <1> QED
    BY <1>1, <1>2, AskKeeps

LEMMA AdvanceAsks ==
    ASSUME Types, AskInv,
           \/ HaltFailedAdvance \/ PlanNext \/ CommitLandedAdvance \/ AdvanceLoads
           \/ LandedNowhere \/ DrainTerminal \/ AdvanceReturns
    PROVE  AskInv'
  <1>1. /\ UNCHANGED <<actor, fade>>
        /\ task[Spine].pc \in {"advance", "goto", "advanced"} \/ reply[Spine] # "wait"
    BY DEF HaltFailedAdvance, PlanNext, CommitLandedAdvance, AdvanceLoads, LandedNowhere, DrainTerminal,
           AdvanceReturns, DeckQuiet, At, Answered
  <1>2. \A i \in DOMAIN Cmds : Cmds[i].by # Spine
    BY <1>1, NothingAsked
  <1>3. TaskTypes /\ Spine \in {Spine, Client} /\ Client \in {Spine, Client} /\ Spine # Client
    BY TasksDiffer DEF Types
  <1>4. task'[Client] = task[Client]
    <2>1. CASE PlanNext
      <3>1. task \in [{Spine, Client} -> Task]
        BY DEF Types, TaskTypes
      <3> QED
        BY <1>3, <2>1, <3>1 DEF PlanNext
    <2>2. CASE ~PlanNext
      BY <1>3, <2>2, TaskMoves DEF HaltFailedAdvance, CommitLandedAdvance, AdvanceLoads, LandedNowhere,
           DrainTerminal, AdvanceReturns, Reschedule
    <2> QED
      BY <2>1, <2>2
  <1>5. CASE AdvanceLoads \/ LandedNowhere
    <2>1. ASSUME NEW op, NEW l, Request(deck, Spine, op, l),
                 (op = "PlayUrl" /\ Goto(Spine, "loading")) \/ (op = "Stop" /\ Goto(Spine, "orphan"))
          PROVE  AskInv'
      <3>1. op \in AskedOps /\ \A x : x.op = op => AskedBySpine(x)'
        BY <1>3, <2>1, TaskMoves DEF AskedOps, AskedBySpine, At
      <3> QED
        BY <1>1, <1>2, <1>4, <2>1, <3>1, SpineAsks
    <2>2. \/ UNCHANGED <<cmds, reply>>
          \/ Request(deck, Spine, "PlayUrl", NewLoad(queue[Target])) /\ Goto(Spine, "loading")
          \/ Request(deck, Spine, "Stop", NoLoad) /\ Goto(Spine, "orphan")
      BY <1>5 DEF AdvanceLoads, LandedNowhere, NoRequest, Ask, AskLoad, RequestLoad
    <2>3. CASE UNCHANGED <<cmds, reply>>
      BY <1>1, <1>2, <1>4, <2>3, SpineAsks
    <2>4. CASE Request(deck, Spine, "PlayUrl", NewLoad(queue[Target])) /\ Goto(Spine, "loading")
      <3>1. PICK l : Request(deck, Spine, "PlayUrl", l)
        BY <2>4
      <3> QED
        BY <2>1, <2>4, <3>1
    <2>5. CASE Request(deck, Spine, "Stop", NoLoad) /\ Goto(Spine, "orphan")
      BY <2>1, <2>5
    <2> QED
      BY <2>2, <2>3, <2>4, <2>5
  <1>6. CASE ~(AdvanceLoads \/ LandedNowhere)
    <2>1. UNCHANGED <<cmds, reply>>
      BY <1>6 DEF HaltFailedAdvance, PlanNext, CommitLandedAdvance, DrainTerminal, AdvanceReturns, NoRequest
    <2> QED
      BY <1>1, <1>2, <1>4, <2>1, SpineAsks
  <1> QED
    BY <1>5, <1>6

LEMMA WarmAsks ==
    ASSUME Types, AskInv, WarmFires \/ PrefetchReturns \/ Unwarmed
    PROVE  AskInv'
  <1>1. UNCHANGED <<actor, fade>> /\ (At(Spine, "idle") \/ reply[Spine] # "wait")
    BY DEF WarmFires, PrefetchReturns, Unwarmed, DeckQuiet, Answered
  <1>2. \A i \in DOMAIN Cmds : Cmds[i].by # Spine
    BY <1>1, NothingAsked DEF At
  <1>3. /\ TaskTypes /\ Spine \in {Spine, Client} /\ Client \in {Spine, Client} /\ Spine # Client
        /\ task \in [{Spine, Client} -> Task]
    BY TasksDiffer DEF Types, TaskTypes
  <1>4. CASE PrefetchReturns
    <2>1. CASE Ask(Spine, "DropWarm") /\ Goto(Spine, "unwarm")
      <3>1. "DropWarm" \in AskedOps /\ \A x : x.op = "DropWarm" => AskedBySpine(x)'
        BY <1>3, <2>1, TaskMoves DEF AskedOps, AskedBySpine, At
      <3>2. task'[Client] = task[Client]
        BY <1>3, <2>1, TaskMoves
      <3> QED
        BY <1>1, <1>2, <2>1, <3>1, <3>2, SpineAsks DEF Ask
    <2>2. CASE NoRequest /\ task' = [task EXCEPT ![Spine] = NoTask]
      <3>1. task'[Client] = task[Client]
        BY <1>3, <2>2, TaskMoves
      <3> QED
        BY <1>1, <1>2, <2>2, <3>1, SpineAsks DEF NoRequest
    <2> QED
      BY <1>4, <2>1, <2>2 DEF PrefetchReturns
  <1>5. CASE Unwarmed
    <2>1. task'[Client] = task[Client]
      BY <1>3, <1>5, TaskMoves DEF Unwarmed
    <2> QED
      BY <1>1, <1>2, <1>5, <2>1, SpineAsks DEF Unwarmed, NoRequest
  <1>6. CASE WarmFires
    <2>1. CASE WarmReady = 0
      BY <1>1, <1>2, <1>6, <2>1, SpineAsks DEF WarmFires, NoRequest
    <2>2. CASE WarmReady # 0
      <3> DEFINE e == queue[WarmReady]
      <3>1. /\ AskLoad(Spine, "PrefetchContinuation", e)
            /\ task' = [task EXCEPT ![Spine].pc = "prefetch", ![Spine].item = e]
        BY <1>6, <2>2 DEF WarmFires
      <3> HIDE DEF e
      <3>2. task'[Client] = task[Client] /\ task'[Spine].pc = "prefetch" /\ task'[Spine].item = e
        BY <1>3, <3>1 DEF Task
      <3>3. /\ "PrefetchContinuation" \in AskedOps
            /\ \A x : x.op = "PrefetchContinuation" /\ x.load = NewLoad(e) => AskedBySpine(x)'
        BY <3>2 DEF AskedOps, AskedBySpine, At, NewLoad
      <3> QED
        BY <1>1, <1>2, <3>1, <3>2, <3>3, SpineAsks DEF AskLoad, RequestLoad
    <2> QED
      BY <2>1, <2>2
  <1> QED
    BY <1>4, <1>5, <1>6

\* The straight-line ends of a call, the spine's or the client's.
LEMMA EndsAsk ==
    ASSUME Types, AskInv, NEW c \in {Spine, Client}, TaskStep(c)
    PROVE  AskInv'
  <1>1. PICK d \in {Spine, Client} : d # c
    BY TasksDiffer
  <1>2. /\ TaskTypes /\ c # Fader /\ c \in {Spine, Client, Fader}
        /\ c = Spine => d = Client
        /\ c = Client => d = Spine
    BY <1>1, TasksDiffer DEF Types
  <1>3. UNCHANGED <<actor, fade>>
    BY DEF TaskStep, LoadReturns, Disarm, Drop, Waited, Arm, DeckQuiet
  <1>4. /\ reply[c] # "wait" \/ (At(c, "todo") /\ Head(task[c].todo) # "wait")
        /\ ~LoadReturns(c) => At(c, "todo")
    BY DEF TaskStep, LoadReturns, Disarm, Drop, Waited, Arm, Answered, Doing
  <1>5. \A i \in DOMAIN Cmds : Cmds[i].by # c
    BY <1>2, <1>4, NothingAsked
  <1>6. Reschedule # << >> /\ (At(c, "todo") => Rest(c) \in Seq(Todo))
    BY <1>2, RestType DEF Reschedule
  <1>7. \A todo : Continue(c, todo) => task'[d] = task[d]
    BY <1>1, <1>2, TaskMoves
  <1>8. task'[d] = task[d]
    BY <1>7 DEF TaskStep, LoadReturns, Disarm, Drop, Waited, Arm
  <1>9. \A x : x.by # c /\ Asked(x) => Asked(x)'
    BY <1>2, <1>3, <1>8, OthersKeep
  <1> DEFINE s == <<"wait">> \o Rest(c)
  <1>10. CASE UNCHANGED <<cmds, reply>>
    BY <1>2, <1>3, <1>5, <1>9, <1>10, AskKeeps
  <1>11. CASE Ask(c, "DropWarm") /\ Continue(c, s) /\ At(c, "todo")
    <2>1. s # << >> /\ Head(s) = "wait" /\ Continue(c, s)
      BY <1>6, <1>11, WaitFirst
    <2> HIDE DEF s
    <2>2. task'[c].pc = "todo" /\ task'[c].todo = s
      BY <1>1, <1>2, <2>1, TaskMoves
    <2> DEFINE x == [op |-> "DropWarm", load |-> NoLoad, by |-> c]
    <2>3. Asked(x)'
      BY <1>2, <2>1, <2>2, TasksDiffer DEF Asked, AskedOps, AskedBySpine, AskedByClient, At
    <2> QED
      BY <1>2, <1>3, <1>5, <1>9, <1>11, <2>3, AskKeeps DEF Ask
  <1> HIDE DEF s
  <1>12. UNCHANGED <<cmds, reply>> \/ (Ask(c, "DropWarm") /\ Continue(c, s) /\ At(c, "todo"))
    <2>1. CASE LoadReturns(c) \/ Waited(c) \/ Arm(c)
      <3>1. NoRequest
        BY <2>1 DEF LoadReturns, Waited, Arm
      <3> QED
        BY <3>1 DEF NoRequest
    <2>2. CASE Drop(c)
      BY <2>2 DEF Drop, Doing, s
    <2>3. CASE Disarm(c)
      <3>1. At(c, "todo") /\ (NoRequest \/ (Ask(c, "DropWarm") /\ Continue(c, s)))
        BY <2>3 DEF Disarm, Doing, s
      <3> QED
        BY <3>1 DEF NoRequest
    <2> QED
      BY <2>1, <2>2, <2>3 DEF TaskStep
  <1> QED
    BY <1>10, <1>11, <1>12

\* The client goes on in a place of its own, having asked for something or not.
LEMMA ClientAsks ==
    ASSUME Types, AskInv, UNCHANGED actor, fade' = fade \/ fade # "pausing", task'[Spine] = task[Spine],
           \A i \in DOMAIN Cmds : Cmds[i].by # Client,
           \/ UNCHANGED <<cmds, reply>>
           \/ \E op \in AskedOps : \E l : /\ Request(deck, Client, op, l)
                                           /\ \A x : x.op = op /\ x.load = l => AskedByClient(x)'
    PROVE  AskInv'
  <1>1. \A x : x.by # Client /\ Asked(x) => Asked(x)'
    BY OthersKeep
  <1>2. ASSUME NEW op \in AskedOps, NEW l, Request(deck, Client, op, l),
               \A x : x.op = op /\ x.load = l => AskedByClient(x)'
        PROVE  AskInv'
    <2> DEFINE x == [op |-> op, load |-> l, by |-> Client]
    <2>1. x.op = op /\ x.load = l /\ x.by = Client
      OBVIOUS
    <2>2. AskedByClient(x)'
      BY <1>2, <2>1
    <2> HIDE DEF x
    <2>3. Asked(x)'
      BY <2>1, <2>2, TasksDiffer DEF Asked
    <2> QED
      BY <1>1, <1>2, <2>3, AskKeeps DEF x
  <1> QED
    BY <1>1, <1>2, AskKeeps

\* A gesture that sends a command and goes on waiting for its answer.
LEMMA SentAsks ==
    ASSUME Types, AskInv, UNCHANGED actor, fade' = fade \/ fade # "pausing",
           \A i \in DOMAIN Cmds : Cmds[i].by # Client,
           NEW op \in {"DropWarm", "Stop", "Resume"}, NEW todo \in Seq(Todo), Sent(op, todo)
    PROVE  AskInv'
  <1> DEFINE s == <<"wait">> \o todo
  <1>1. s # << >> /\ Head(s) = "wait" /\ Continue(Client, s)
    BY WaitFirst DEF Sent
  <1> HIDE DEF s
  <1>2. TaskTypes /\ Spine \in {Spine, Client} /\ Client \in {Spine, Client} /\ Spine # Client
    BY TasksDiffer DEF Types
  <1>3. task'[Spine] = task[Spine] /\ task'[Client].pc = "todo" /\ task'[Client].todo = s
    BY <1>1, <1>2, TaskMoves
  <1>4. op \in AskedOps /\ \A x : x.op = op => AskedByClient(x)'
    BY <1>1, <1>3 DEF AskedOps, AskedByClient, At
  <1> QED
    BY <1>3, <1>4, ClientAsks DEF Sent, Ask

LEMMA GesturesAsk ==
    ASSUME Types, AskInv,
           \/ ClientPlay \/ ClientPicksUp \/ ClientStop \/ ClientClear \/ ClientDelete
           \/ ClientPause \/ ClientResume \/ ClientResumesStopped \/ ClientStep
    PROVE  AskInv'
  <1>1. UNCHANGED actor /\ (fade' = fade \/ fade # "pausing")
    BY DEF ClientPlay, ClientPicksUp, PlayIndex, ClientStop, ClientClear, ClientDelete, ClientPause, ClientResume,
           ClientResumesStopped, ClientStep, ClientLoads, ClientEvicts, ClientRampsUp, CancelFade, DeckQuiet
  <1>2. task[Client].pc \in {"idle", "load", "evict"} \/ reply[Client] # "wait"
    BY DEF ClientPlay, ClientPicksUp, ClientStop, ClientClear, ClientDelete, ClientPause, ClientResume,
           ClientResumesStopped, ClientStep, ClientLoads, ClientEvicts, ClientRampsUp, Gesture, At, Answered
  <1>3. \A i \in DOMAIN Cmds : Cmds[i].by # Client
    BY <1>2, NothingAsked
  <1>4. /\ TaskTypes /\ Spine \in {Spine, Client} /\ Client \in {Spine, Client} /\ Spine # Client
        /\ task \in [{Spine, Client} -> Task]
    BY TasksDiffer DEF Types, TaskTypes
  <1>5. ASSUME NEW op \in {"DropWarm", "Stop", "Resume"}, NEW todo \in Seq(Todo), Sent(op, todo)
        PROVE  AskInv'
    BY <1>1, <1>3, <1>5, SentAsks
  <1>6. ASSUME NoRequest, NEW r, task' = [task EXCEPT ![Client] = r]
        PROVE  AskInv'
    <2>1. task'[Spine] = task[Spine]
      BY <1>4, <1>6
    <2> QED
      BY <1>1, <1>3, <1>6, <2>1, ClientAsks DEF NoRequest
  <1>7. CASE ClientPlay \/ ClientPicksUp \/ ClientDelete
    BY <1>6, <1>7 DEF ClientPlay, ClientPicksUp, PlayIndex, ClientDelete
  <1>8. CASE ClientStop \/ ClientClear \/ ClientPause \/ ClientResumesStopped \/ ClientRampsUp
    <2>1. /\ Reschedule \o <<"drop", "disarm">> \in Seq(Todo) /\ Reschedule \o Reschedule \in Seq(Todo)
          /\ << >> \in Seq(Todo) /\ <<"disarm">> \in Seq(Todo)
      <3>1. <<"drop", "disarm">> \in Seq(Todo)
        BY DEF Todo
      <3> QED
        BY <3>1, ScheduleType, ConcatProperties
    <2> QED
      BY <1>5, <1>8, <2>1 DEF ClientStop, ClientClear, ClientPause, ClientResumesStopped, ClientRampsUp
  <1>9. CASE ClientEvicts
    <2>1. CASE Sent("Stop", Reschedule)
      BY <1>5, <2>1, ScheduleType
    <2>2. CASE NoRequest /\ Continue(Client, Reschedule)
      <3>1. task'[Spine] = task[Spine]
        BY <1>4, <2>2, TaskMoves DEF Reschedule
      <3> QED
        BY <1>1, <1>3, <2>2, <3>1, ClientAsks DEF NoRequest
    <2> QED
      BY <1>9, <2>1, <2>2 DEF ClientEvicts
  <1>10. CASE ClientResume
    <2> DEFINE r == [NoTask EXCEPT !.pc = "install"]
    <2>1. task' = [task EXCEPT ![Client] = r] /\ r.pc = "install"
      BY <1>10 DEF ClientResume, NoTask
    <2> HIDE DEF r
    <2>2. task'[Spine] = task[Spine] /\ task'[Client].pc = "install"
      BY <1>4, <2>1
    <2>3. "Resume" \in AskedOps /\ \A x : x.op = "Resume" => AskedByClient(x)'
      BY <2>2 DEF AskedOps, AskedByClient, At
    <2> QED
      BY <1>1, <1>3, <1>10, <2>2, <2>3, ClientAsks DEF ClientResume, Ask, NoRequest
  <1>11. CASE ClientLoads
    <2> DEFINE e == task[Client].item
    <2>1. AskLoad(Client, "PlayUrl", e) /\ Goto(Client, "loading")
      BY <1>11 DEF ClientLoads
    <2>2. task'[Spine] = task[Spine] /\ task'[Client].pc = "loading" /\ task'[Client].item = e
      BY <1>4, <2>1, TaskMoves
    <2>3. "PlayUrl" \in AskedOps /\ \A x : x.op = "PlayUrl" /\ x.load = NewLoad(e) => AskedByClient(x)'
      BY <2>2 DEF AskedOps, AskedByClient, At, NewLoad
    <2> QED
      BY <1>1, <1>3, <2>1, <2>2, <2>3, ClientAsks DEF AskLoad, RequestLoad
  <1> QED
    BY <1>7, <1>8, <1>9, <1>10, <1>11 DEF ClientStep

LEMMA FadeAsks ==
    ASSUME Types, AskInv, FadeStep
    PROVE  AskInv'
  <1>1. UNCHANGED <<actor, task>> /\ (fade # "pausing" \/ reply[Fader] # "wait")
    BY DEF FadeStep, FadePauses, FadePaused, FadeRestored, DeckQuiet, Answered
  <1>2. \A i \in DOMAIN Cmds : Cmds[i].by # Fader
    BY <1>1, NothingAsked
  <1>3. \A x : x.by # Fader /\ Asked(x) => Asked(x)'
    BY <1>1, OthersKeep
  <1>4. CASE UNCHANGED <<cmds, reply>>
    BY <1>1, <1>2, <1>3, <1>4, AskKeeps
  <1>5. CASE Ask(Fader, "Pause") /\ fade' = "pausing"
    <2>1. Asked([op |-> "Pause", load |-> NoLoad, by |-> Fader])'
      BY <1>5, TasksDiffer DEF Asked, AskedOps, AskedByFader
    <2> QED
      BY <1>1, <1>2, <1>3, <1>5, <2>1, AskKeeps DEF Ask
  <1> QED
    BY <1>4, <1>5 DEF FadeStep, FadePauses, FadePaused, FadeRestored, NoRequest

\* An abandoned command is one its sender no longer awaits.
LEMMA TimeoutAsks ==
    ASSUME Types, AskInv, AdvanceTimeout
    PROVE  AskInv'
  <1>1. /\ CmdsAsked /\ RepliesOwed /\ DeckPlain /\ Out \in Seq(Effect) /\ Cmds \in Seq(Command)
        /\ cmds \in [Deck -> Seq(Command)] /\ actor \in [Deck -> ActorState] /\ actor[deck] \in ActorState
        /\ reply \in [Caller -> {"none", "wait", "ok", "err"}] /\ deck \in Deck
    BY RowTypes, DeckIsOne DEF AskInv, Types, TypeInv, TypeOK
  <1>2. /\ reply' = [reply EXCEPT ![Spine] = "none"]
        /\ Cmds' = [i \in DOMAIN Cmds |-> Abandon(Cmds[i])]
        /\ Out' = [i \in DOMAIN Out |-> AbandonReply(Out[i])]
        /\ UNCHANGED fade
    BY <1>1 DEF AdvanceTimeout, Cmds, Out, ActorState
  <1>3. DeckPlain'
    BY <1>1, AbandonedSame DEF Types, DeckPlain, Warmth, Watch, Latch
  <1>4. task'[Client] = task[Client]
    BY TaskMoves, TasksDiffer DEF AdvanceTimeout, Types
  <1>5. DOMAIN Cmds' = DOMAIN Cmds /\ DOMAIN Out' = DOMAIN Out
    BY <1>2
  <1>6. ASSUME NEW i \in DOMAIN Cmds
        PROVE  \E x : /\ x = Cmds'[i] /\ x.op = Cmds[i].op /\ x.load = Cmds[i].load /\ x.by # Spine
                      /\ x.by # Gone => x = Cmds[i]
    <2>1. Cmds[i] \in Command /\ Cmds'[i] = Abandon(Cmds[i])
      BY <1>1, <1>2, <1>6
    <2> QED
      BY <2>1, TasksDiffer DEF Abandon, Command
  <1>7. ASSUME NEW i \in DOMAIN Out
        PROVE  /\ IsReply(Out'[i]) => IsReply(Out[i]) /\ Out'[i].to # Spine
               /\ IsReply(Out'[i]) /\ Out'[i].to # Gone => Out'[i].to = Out[i].to
               /\ IsEof(Out'[i]) => IsEof(Out[i])
    <2>1. Out[i] \in Effect /\ Out'[i] = AbandonReply(Out[i])
      BY <1>1, <1>2, <1>7
    <2> QED
      BY <2>1, TasksDiffer DEF AbandonReply, Effect, IsReply, IsEof
  <1>8. \A x : x.by # Spine /\ Asked(x) => Asked(x)'
    BY <1>2, <1>4, OthersKeep
  <1>9. (\A i \in DOMAIN Cmds : Asked(Cmds[i]) /\ (Cmds[i].by # Gone => reply[Cmds[i].by] = "wait"))'
    <2> SUFFICES ASSUME NEW i \in DOMAIN Cmds
                 PROVE  (Asked(Cmds[i]) /\ (Cmds[i].by # Gone => reply[Cmds[i].by] = "wait"))'
      BY <1>5
    <2>1. PICK x : /\ x = Cmds'[i] /\ x.op = Cmds[i].op /\ x.load = Cmds[i].load /\ x.by # Spine
                   /\ x.by # Gone => x = Cmds[i]
      BY <1>6
    <2>2. Asked(Cmds[i]) /\ (Cmds[i].by # Gone => reply[Cmds[i].by] = "wait") /\ Cmds[i].by \in Caller
      <3>1. Cmds[i] \in Command
        BY <1>1
      <3> QED
        BY <1>1, <3>1 DEF CmdsAsked, Command
    <2>3. Asked(x)'
      <3>1. CASE x.by = Gone
        BY <2>1, <2>2, <3>1, TasksDiffer DEF Asked
      <3>2. CASE x.by # Gone
        BY <1>8, <2>1, <2>2, <3>2
      <3> QED
        BY <3>1, <3>2
    <2>4. x.by # Gone => reply'[x.by] = "wait"
      BY <1>1, <1>2, <2>1, <2>2
    <2> QED
      BY <2>1, <2>3, <2>4
  <1>10. ASSUME NEW i \in DOMAIN Cmds, NEW j \in DOMAIN Cmds, Cmds'[i].by = Cmds'[j].by, Cmds'[i].by # Gone
         PROVE  i = j
    <2>1. Cmds'[i] = Cmds[i] /\ Cmds'[j] = Cmds[j]
      BY <1>6, <1>10
    <2> QED
      BY <1>1, <1>10, <2>1 DEF CmdsAsked
  <1>11. ASSUME NEW i \in DOMAIN Out, IsReply(Out'[i])
         PROVE  /\ Out'[i].to # Gone =>
                      reply'[Out'[i].to] = "wait" /\ \A j \in DOMAIN Cmds : Cmds'[j].by # Out'[i].to
                /\ \A j \in DOMAIN Out : ~IsEof(Out'[j]) /\ (IsReply(Out'[j]) => i = j)
    <2>1. /\ IsReply(Out[i])
          /\ Out[i].to # Gone => reply[Out[i].to] = "wait" /\ \A j \in DOMAIN Cmds : Cmds[j].by # Out[i].to
          /\ \A j \in DOMAIN Out : ~IsEof(Out[j]) /\ (IsReply(Out[j]) => i = j)
      BY <1>1, <1>7, <1>11 DEF RepliesOwed
    <2>2. ASSUME Out'[i].to # Gone
          PROVE  reply'[Out'[i].to] = "wait" /\ \A j \in DOMAIN Cmds : Cmds'[j].by # Out'[i].to
      <3>1. Out'[i].to = Out[i].to /\ Out'[i].to # Spine /\ Out[i].to \in Caller
        <4>1. Out[i] \in Effect
          BY <1>1
        <4> QED
          BY <1>7, <1>11, <2>1, <2>2, <4>1 DEF Effect, IsReply
      <3>2. reply'[Out'[i].to] = "wait"
        BY <1>1, <1>2, <2>1, <2>2, <3>1
      <3>3. \A j \in DOMAIN Cmds : Cmds'[j].by # Gone => Cmds'[j] = Cmds[j]
        BY <1>6
      <3>4. \A j \in DOMAIN Cmds : Cmds'[j].by # Out'[i].to
        BY <2>1, <2>2, <3>1, <3>3
      <3> QED
        BY <3>2, <3>4
    <2>3. ASSUME NEW j \in DOMAIN Out PROVE ~IsEof(Out'[j]) /\ (IsReply(Out'[j]) => i = j)
      BY <1>7, <2>1, <2>3
    <2> QED
      BY <2>2, <2>3
  <1> QED
    BY <1>3, <1>5, <1>9, <1>10, <1>11 DEF AskInv, CmdsAsked, RepliesOwed

LEMMA AskNext ==
    ASSUME PlayInv, AskInv, [PlaybackNext]_vars
    PROVE  AskInv'
  <1>1. Types /\ FlightInv
    BY DEF PlayInv
  <1>2. CASE DeckStep
    <2>1. DeckMoves /\ UNCHANGED <<task, fade>>
      BY <1>1, <1>2, StepMoves
    <2> QED
      BY <1>1, <2>1, MovesAsk
  <1>3. CASE SpineStep
    BY <1>1, <1>3, ReadsAsk, AdvanceAsks, WarmAsks, TimeoutAsks DEF SpineStep
  <1>4. CASE Begin \/ ClientStep \/ FadeStep
    BY <1>1, <1>4, WarmAsks, GesturesAsk, FadeAsks DEF Begin
  <1>5. CASE UNCHANGED vars
    <2>1. UNCHANGED <<actor, cmds, reply, task, fade>>
      BY <1>5 DEF vars
    <2>2. \A x : Asked(x) => Asked(x)'
      BY <2>1, AskedSame
    <2>3. CmdsAsked' /\ RepliesOwed'
      BY <2>1, <2>2 DEF AskInv, CmdsAsked, RepliesOwed, Cmds, Out
    <2> QED
      BY <2>1, <2>3 DEF AskInv, DeckPlain, Warmth, Watch, Latch
  <1> QED
    BY <1>1, <1>2, <1>3, <1>4, <1>5, EndsAsk DEF PlaybackNext

LEMMA InitAsk == PlaybackInit => AskInv
  <1> SUFFICES ASSUME PlaybackInit PROVE AskInv
    OBVIOUS
  <1>1. /\ Cmds = << >> /\ Out = << >> /\ Latch = NoLoad /\ Watch = "Stopped" /\ Warmth = NoWarm
    BY DeckIsOne DEF PlaybackInit, DeckInit, Cmds, Out, Latch, Watch, Warmth
  <1> QED
    BY <1>1 DEF AskInv, CmdsAsked, RepliesOwed, DeckPlain, NoWarm

-----------------------------------------------------------------------------
(***************************************************************************)
(* The invariant of the row.                                               *)
(***************************************************************************)
PlayingAt(k, e) == k \in 1..FlightLen /\ IsPlaying(Flight(k), e)
HereIs(e) == OnRow /\ queue[current] = e
Row == Latch = NoLoad \/ \E e : LatchIs(e) /\ HereIs(e)
Nxt == PeekNextDeterministic(queue, current, modes)
Promised(e) == OnRow /\ Nxt \in DOMAIN queue /\ Nxt # current /\ queue[Nxt] = e
Warmed(e) == slot.st = "warmed" /\ slot.entry = e

\* The answer c waits for is a yes, given or on its way.
Granted(c) == reply[c] = "ok" \/ \E i \in DOMAIN Out : Out[i] = Reply(c, TRUE)
Pending(op) == \E i \in DOMAIN Cmds : Cmds[i].op = op
NoneGone ==
    /\ \A i \in DOMAIN Cmds : Cmds[i].by # Gone
    /\ \A i \in DOMAIN Out : IsReply(Out[i]) => Out[i].to # Gone
SpinePc == task[Spine].pc
ClientPc == task[Client].pc
Listed == Distinct(queue) /\ NoneGone

Orderly == contested \in {"no", "afresh"}
SpineQuiet == ~EndQueued(deck) /\ NoEof /\ SpinePc = "idle"
ClientQuiet == ClientPc = "idle" /\ fade = "none"

(* While the spine keeps still. *)
WillDisarm == ClientPc = "todo" /\ \E i \in DOMAIN task[Client].todo : task[Client].todo[i] = "disarm"
WillDrop == Pending("DropWarm") \/ Pending("Stop") \/ Pending("PlayUrl")
WarmKnown ==
    contested = "no" /\ ~Bare =>
        WillDrop \/ \E e : Parked(e) /\ Warmed(e) /\ (Promised(e) \/ WillDisarm)
RowKnown == Row \/ Pending("Stop") \/ (ClientPc = "loading" /\ Granted(Client)) \/ contested = "afresh"
ChoiceKnown ==
    /\ ClientPc \in {"load", "loading"} =>
           task[Client].idx \in DOMAIN queue /\ queue[task[Client].idx] = task[Client].item
    /\ ClientPc = "loading" /\ Granted(Client) => Bare /\ \E e : task[Client].item = e /\ LatchIs(e)
    /\ ClientPc = "evict" /\ ~task[Client].flag => ~\E e : task[Client].item = e /\ HereIs(e)
ArmsDisarmed ==
    ClientPc = "todo" => \A i \in DOMAIN task[Client].todo : task[Client].todo[i] = "arm" =>
        slot.st # "warmed" \/ \E j \in 1..(i - 1) : task[Client].todo[j] = "disarm"
Afresh == contested = "afresh" => ClientPc \in {"load", "loading"} /\ fade = "none"
InvS == Listed /\ WarmKnown /\ RowKnown /\ ChoiceKnown /\ ArmsDisarmed /\ Afresh

(* While the client and the fade keep still. *)
Calm == contested = "no" /\ SpinePc \notin {"unwarm", "orphan"}
\* At most two ends are on their way, the later one no landing; the deck is bare
\* behind them, and what it landed in is what follows the row.
EndsBare == ~NoEof => Bare /\ ~Pending("PlayUrl") /\ ~Pending("PrefetchContinuation")
EndsOrder == \A k, j : EofAt(k) /\ EofAt(j) /\ k < j => LandedAt(k) /\ ~LandedAt(j)
EndsSilent == \A k : EofAt(k) /\ ~LandedAt(k) => Latch = NoLoad
LandsNext ==
    \A k : LandedAt(k) =>
        /\ SpinePc \in {"idle", "prefetch"}
        /\ \E e : /\ PlayingAt(k + 1, e) /\ LatchIs(e) /\ Promised(e)
                  /\ Warmed(e) \/ (SpinePc = "prefetch" /\ task[Spine].item = e /\ Granted(Spine))
Ending == EndsBare /\ EndsOrder /\ EndsSilent /\ LandsNext
\* What is parked is what follows the row, and the slot says so.
WarmNext ==
    /\ SpinePc \notin {"idle", "prefetch"} => Bare
    /\ SpinePc = "prefetch" =>
           /\ OursStill
           /\ \E e : /\ task[Spine].item = e /\ Promised(e)
                     /\ ~Bare => Granted(Spine) /\ Parked(e)
    /\ SpinePc = "idle" /\ ~Bare => \E e : Parked(e) /\ Warmed(e) /\ Promised(e)
\* The advance goes where the deck is, or the deck has nothing.
AdvanceNext ==
    SpinePc \in {"advance", "goto"} =>
        IF Landed
        THEN \E e : /\ PlayingAt(1, e) /\ LatchIs(e) /\ Warmed(e)
                    /\ SpinePc = "advance" => Promised(e)
                    /\ SpinePc = "goto" => Target \in DOMAIN queue /\ queue[Target] = e
        ELSE Latch = NoLoad /\ NoEof
LoadNext ==
    SpinePc = "loading" =>
        /\ Latch # NoLoad \/ ~NoEof => Granted(Spine)
        /\ \E e : /\ Target \in DOMAIN queue /\ queue[Target] = e /\ LatchIs(e)
                  /\ \A i \in DOMAIN Cmds : Cmds[i].op = "PlayUrl" => Cmds[i].load.entry = e
RowNext == SpinePc \in {"idle", "prefetch", "todo", "advanced"} /\ NoEof => Row
InvC == Listed /\ Calm /\ Ending /\ WarmNext /\ AdvanceNext /\ LoadNext /\ RowNext

RowInv ==
    /\ Orderly /\ SpineQuiet => InvS
    /\ Orderly /\ ClientQuiet => InvC
-----------------------------------------------------------------------------
(* What a step of the deck does to the events on their way. *)

FlightKept ==
    /\ \A k : EofAt(k) => EofAt(k)' /\ (LandedAt(k)' <=> LandedAt(k))
    /\ \A k, e : (k = 1 \/ EofAt(k - 1)) /\ PlayingAt(k, e) => PlayingAt(k, e)'
NoNewEof == \A k : EofAt(k)' => EofAt(k)

\* Nothing is left of what the actor had to send: the ring goes on in what it
\* sends next.
LEMMA FreshFlight ==
    ASSUME Types, Out = << >>, ring' = ring, Out' \in Seq(Effect)
    PROVE  /\ FlightKept
           /\ \A k : EofAt(k)' => EofAt(k) \/ (k - Len(ring) \in DOMAIN Out' /\ IsEof(Out'[k - Len(ring)]))
           /\ \A k \in DOMAIN Out' : /\ IsEof(Out'[k]) => EofAt(Len(ring) + k)'
                                     /\ LandedAt(Len(ring) + k)' <=> IsLanded(Out'[k])
                                     /\ \A e : IsPlaying(Out'[k], e) => PlayingAt(Len(ring) + k, e)'
  <1>1. ring \in Seq(Event) /\ Len(ring) \in Nat /\ Len(Out) = 0 /\ FlightLen = Len(ring)
    BY RowTypes DEF FlightLen
  <1>2. Len(Out') \in Nat /\ DOMAIN Out' = 1..Len(Out') /\ FlightLen' = Len(ring) + Len(Out')
    BY <1>1 DEF FlightLen
  <1>3. \A k \in 1..Len(ring) : Flight(k)' = Flight(k)
    BY <1>1 DEF Flight
  <1>4. \A k \in (Len(ring) + 1)..(Len(ring) + Len(Out')) : Flight(k)' = Out'[k - Len(ring)]
    BY <1>1 DEF Flight
  <1>5. \A k \in DOMAIN Out' : Len(ring) + k \in 1..FlightLen' /\ Flight(Len(ring) + k)' = Out'[k]
    <2> SUFFICES ASSUME NEW k \in DOMAIN Out'
                 PROVE  Len(ring) + k \in 1..FlightLen' /\ Flight(Len(ring) + k)' = Out'[k]
      OBVIOUS
    <2>1. PICK n : n = Len(ring) + k
      OBVIOUS
    <2>2. n \in (Len(ring) + 1)..(Len(ring) + Len(Out')) /\ n - Len(ring) = k /\ n \in 1..FlightLen'
      BY <1>1, <1>2, <2>1
    <2>3. Flight(n)' = Out'[k]
      BY <1>4, <2>2
    <2>4. (Len(ring) + k)' = n
      BY <2>1
    <2> QED
      BY <2>2, <2>3, <2>4, <2>1
  <1> QED
    BY <1>1, <1>2, <1>3, <1>4, <1>5 DEF FlightKept, EofAt, LandedAt, PlayingAt

LEMMA FlightMoves ==
    ASSUME Types, Types', AskInv, DeckMoves
    PROVE  /\ FlightKept
           /\ ~Lands /\ ~Ends => NoNewEof
           /\ Out' \in Seq(Effect)
  <1>1. Out' \in Seq(Effect) /\ Out \in Seq(Effect) /\ ring \in Seq(Event)
    BY DeckIsOne, RowTypes DEF Types, TypeInv, TypeOK, ActorState, Out
  <1>2. DOMAIN ring = 1..Len(ring) /\ DOMAIN Out = 1..Len(Out) /\ Len(ring) \in Nat /\ Len(Out) \in Nat
    BY <1>1
  <1>3. ASSUME FlightLen' = FlightLen, \A k \in 1..FlightLen : Flight(k)' = Flight(k)
        PROVE  FlightKept /\ NoNewEof
    BY <1>3 DEF FlightKept, NoNewEof, EofAt, LandedAt, PlayingAt
  <1>4. CASE Sends
    <2>1. /\ Out # << >> /\ Len(Out') = Len(Out) - 1 /\ Len(ring') = Len(ring) + 1 /\ Len(Out) >= 1
          /\ \A i \in 1..(Len(Out) - 1) : Out'[i] = Out[i + 1]
          /\ ring'[Len(ring) + 1] = Head(Out).ev /\ \A i \in 1..Len(ring) : ring'[i] = ring[i]
          /\ Head(Out) = Out[1]
      BY <1>1, <1>2, <1>4, TailShape DEF Sends
    <2>2. Send(ring'[Len(ring) + 1]) = Out[1]
      <3>1. Out[1] \in Effect /\ Out[1].what = "send"
        BY <1>1, <1>2, <1>4, <2>1 DEF Sends
      <3> QED
        BY <2>1, <3>1 DEF Effect, Send
    <2>3. FlightLen' = FlightLen
      BY <1>2, <2>1 DEF FlightLen
    <2>4. ASSUME NEW k \in 1..FlightLen PROVE Flight(k)' = Flight(k)
      <3>1. k \in Nat /\ k <= Len(ring) + Len(Out)
        BY <1>2, <2>4 DEF FlightLen
      <3>2. CASE k <= Len(ring)
        BY <1>2, <2>1, <3>1, <3>2 DEF Flight
      <3>3. CASE k = Len(ring) + 1
        BY <1>2, <2>1, <2>2, <3>1, <3>3 DEF Flight
      <3>4. CASE k > Len(ring) + 1
        <4>1. k - Len(ring) - 1 \in 1..(Len(Out) - 1) /\ k - (Len(ring) + 1) = k - Len(ring) - 1
              /\ (k - Len(ring) - 1) + 1 = k - Len(ring)
          BY <1>2, <2>1, <3>1, <3>4
        <4>2. Flight(k)' = Out'[k - (Len(ring) + 1)]
          BY <1>2, <2>1, <3>1, <3>4 DEF Flight
        <4>3. Flight(k) = Out[k - Len(ring)]
          BY <1>2, <3>1, <3>4 DEF Flight
        <4> QED
          BY <2>1, <4>1, <4>2, <4>3
      <3> QED
        BY <1>2, <3>1, <3>2, <3>3, <3>4
    <2> QED
      BY <1>1, <1>3, <2>3, <2>4
  <1>5. CASE Answers
    <2>1. /\ ring' = ring /\ Out # << >> /\ Out' = Tail(Out) /\ IsReply(Out[1]) /\ 1 \in DOMAIN Out
          /\ Len(Out') = Len(Out) - 1
          /\ \A i \in DOMAIN Out' : i + 1 \in DOMAIN Out /\ Out'[i] = Out[i + 1]
      BY <1>1, <1>5, TailShape DEF Answers, IsReply
    <2>2. \A i \in DOMAIN Out : ~IsEof(Out[i])
      BY <2>1 DEF AskInv, RepliesOwed
    <2>3. \A i \in DOMAIN Out' : ~IsEof(Out'[i])
      BY <2>1, <2>2
    <2>4. FlightLen = Len(ring) + Len(Out) /\ FlightLen' = Len(ring) + (Len(Out) - 1) /\ Len(Out) >= 1
          /\ DOMAIN Out' = 1..(Len(Out) - 1)
      BY <1>1, <1>2, <2>1 DEF FlightLen
    <2>5. \A k \in 1..Len(ring) : Flight(k)' = Flight(k)
      BY <1>2, <2>1 DEF Flight
    <2>6. \A k \in (Len(ring) + 1)..FlightLen : ~IsEof(Flight(k))
      <3> SUFFICES ASSUME NEW k \in (Len(ring) + 1)..FlightLen PROVE ~IsEof(Flight(k))
        OBVIOUS
      <3>1. k - Len(ring) \in DOMAIN Out /\ Flight(k) = Out[k - Len(ring)]
        BY <1>2, <2>4 DEF Flight
      <3> QED
        BY <2>2, <3>1
    <2>7. \A k \in (Len(ring) + 1)..FlightLen' : ~IsEof(Flight(k)')
      <3> SUFFICES ASSUME NEW k \in (Len(ring) + 1)..FlightLen' PROVE ~IsEof(Flight(k)')
        OBVIOUS
      <3>1. k - Len(ring) \in DOMAIN Out' /\ Flight(k)' = Out'[k - Len(ring)]
        BY <1>2, <2>1, <2>4 DEF Flight
      <3> QED
        BY <2>3, <3>1
    <2>8. \A k : EofAt(k)' <=> EofAt(k)
      <3> SUFFICES ASSUME NEW k PROVE EofAt(k)' <=> EofAt(k)
        OBVIOUS
      <3>1. EofAt(k) => k \in 1..Len(ring)
        BY <1>2, <2>4, <2>6 DEF EofAt
      <3>2. EofAt(k)' => k \in 1..Len(ring)
        BY <1>2, <2>4, <2>7 DEF EofAt
      <3>3. k \in 1..Len(ring) => k \in 1..FlightLen /\ k \in 1..FlightLen'
        BY <1>2, <2>4
      <3> QED
        BY <2>5, <3>1, <3>2, <3>3 DEF EofAt
    <2>9. \A k : LandedAt(k)' <=> LandedAt(k)
      BY <1>2, <2>4, <2>5, <2>6, <2>7 DEF LandedAt, IsLanded
    <2>10. Flight(Len(ring) + 1) = Out[1] /\ ~\E e : IsPlaying(Flight(Len(ring) + 1), e)
      <3>1. Flight(Len(ring) + 1) = Out[1]
        BY <1>2 DEF Flight
      <3> QED
        BY <2>1, <3>1 DEF IsPlaying, IsReply
    <2>11. ASSUME NEW k, NEW e, k = 1 \/ EofAt(k - 1), PlayingAt(k, e) PROVE PlayingAt(k, e)'
      <3>1. k \in Nat /\ k \in 1..FlightLen
        BY <1>2, <2>4, <2>11 DEF PlayingAt
      <3>2. k <= Len(ring) + 1
        <4>1. CASE k = 1
          BY <1>2, <4>1
        <4>2. CASE EofAt(k - 1)
          <5>1. k - 1 \in 1..FlightLen /\ IsEof(Flight(k - 1))
            BY <4>2 DEF EofAt
          <5>2. k - 1 <= Len(ring)
            BY <1>2, <2>4, <2>6, <3>1, <5>1
          <5> QED
            BY <1>2, <3>1, <5>2
        <4> QED
          BY <2>11, <4>1, <4>2
      <3>3. k # Len(ring) + 1
        BY <2>10, <2>11 DEF PlayingAt
      <3>4. k \in 1..Len(ring) /\ k \in 1..FlightLen'
        BY <1>2, <2>4, <3>1, <3>2, <3>3
      <3> QED
        BY <2>5, <2>11, <3>4 DEF PlayingAt
    <2>12. FlightKept
      BY <2>8, <2>9, <2>11 DEF FlightKept
    <2>13. NoNewEof
      BY <2>8 DEF NoNewEof
    <2> QED
      BY <1>1, <2>12, <2>13
  <1>6. ASSUME Out = << >>, ring' = ring, \A k \in DOMAIN Out' : ~IsEof(Out'[k])
        PROVE  FlightKept /\ NoNewEof
    BY <1>1, <1>6, FreshFlight DEF NoNewEof
  <1>7. ASSUME NEW op, Took(op) PROVE FlightKept /\ NoNewEof
    <2>1. Out = << >> /\ ring' = ring
      BY <1>7 DEF Took
    <2>2. \A k \in DOMAIN Out' : ~IsEof(Out'[k])
      BY <1>7, TookAnswers DEF OneAnswer
    <2> QED
      BY <1>6, <2>1, <2>2
  <1>8. CASE Lands \/ Ends
    <2>1. Out = << >> /\ ring' = ring
      BY <1>8 DEF Lands, Ends, Free, Same
    <2> QED
      BY <1>1, <1>8, <2>1, FreshFlight
  <1>9. CASE Forgets
    <2>1. Out = << >> /\ ring' = ring /\ DOMAIN Out' = {}
      BY <1>9 DEF Forgets, Free, Same
    <2> QED
      BY <1>1, <1>6, <2>1
  <1>10. CASE Rests \/ (Positions /\ UNCHANGED ring)
    <2>1. Out' = Out /\ ring' = ring
      BY <1>10 DEF Rests, Positions, Out
    <2>2. FlightLen' = FlightLen /\ \A k : Flight(k)' = Flight(k)
      BY <2>1 DEF FlightLen, Flight
    <2> QED
      BY <1>1, <1>3, <2>2
  <1>11. ASSUME NEW ev, ring' = Append(ring, ev), ev.kind = "TimePos", Out' = Out, Out = << >>
         PROVE  FlightKept /\ NoNewEof
    <2>1. /\ FlightLen' = Len(ring) + 1 /\ FlightLen = Len(ring)
          /\ \A k \in 1..Len(ring) : ring'[k] = ring[k]
          /\ ring'[Len(ring) + 1] = ev /\ Len(ring') = Len(ring) + 1
      BY <1>1, <1>2, <1>11 DEF FlightLen
    <2>2. \A k \in 1..FlightLen : Flight(k)' = Flight(k)
      BY <1>2, <2>1 DEF Flight
    <2>3. PICK n : n = FlightLen + 1
      OBVIOUS
    <2>4. Flight(n)' = Send(ev)
      BY <1>2, <2>1, <2>3 DEF Flight
    <2>5. ~IsEof(Flight(n)')
      BY <1>11, <2>4 DEF IsEof, Send
    <2>6. \A k \in 1..FlightLen' : k \in 1..FlightLen \/ k = n
      BY <1>2, <2>1, <2>3
    <2>7. \A k \in 1..FlightLen : k \in 1..FlightLen'
      BY <1>2, <2>1
    <2> QED
      BY <2>2, <2>5, <2>6, <2>7 DEF FlightKept, NoNewEof, EofAt, LandedAt, PlayingAt, IsLanded
  <1>12. CASE Positions /\ ~UNCHANGED ring
    <2>1. PICK l \in MaybeLoad, x \in MaybeLoad : ring' = Append(ring, Ev(deck, "TimePos", l, "plain", x))
      BY <1>12 DEF Positions
    <2>2. Ev(deck, "TimePos", l, "plain", x).kind = "TimePos" /\ Out' = Out /\ Out = << >>
      BY <1>12 DEF Ev, Positions, Free, Out
    <2> QED
      BY <1>1, <1>11, <2>1, <2>2
  <1> QED
    BY <1>1, <1>4, <1>5, <1>7, <1>8, <1>9, <1>10, <1>12 DEF DeckMoves, Loads, Parks, DropsWarm, Pauses, Stops

\* What a step of the deck leaves of what it was asked.
LEMMA AskedMoves ==
    ASSUME Types, AskInv, DeckMoves, NEW c \in {Spine, Client}
    PROVE  /\ Granted(c) => Granted(c)'
           /\ Granted(c)' => \/ Granted(c)
                             \/ Cmds # << >> /\ Head(Cmds).by = c /\ Took(Head(Cmds).op)
           /\ NoneGone => NoneGone'
           /\ \A op : Pending(op)' => Pending(op)
           /\ \A op : Pending(op) => Pending(op)' \/ Took(op)
           /\ \A P : (\A i \in DOMAIN Cmds : Cmds[i] \in P) => \A i \in DOMAIN Cmds' : Cmds'[i] \in P
  <1>1. /\ Out \in Seq(Effect) /\ Cmds \in Seq(Command) /\ reply \in [Caller -> {"none", "wait", "ok", "err"}]
        /\ c \in Caller /\ c # Gone /\ CmdsAsked /\ RepliesOwed
    BY RowTypes, TasksDiffer DEF AskInv
  <1>2. ASSUME UNCHANGED cmds
        PROVE  /\ \A op : Pending(op)' <=> Pending(op)
               /\ \A P : (\A i \in DOMAIN Cmds : Cmds[i] \in P) => \A i \in DOMAIN Cmds' : Cmds'[i] \in P
    BY <1>2 DEF Pending, Cmds
  <1>3. CASE Sends \/ Answers
    <2>1. /\ Out # << >> /\ Head(Out) = Out[1] /\ 1 \in DOMAIN Out /\ UNCHANGED cmds /\ Cmds' = Cmds
          /\ \A i \in DOMAIN Out' : i + 1 \in DOMAIN Out /\ Out'[i] = Out[i + 1]
          /\ \A i \in DOMAIN Out : i # 1 => i - 1 \in DOMAIN Out' /\ Out'[i - 1] = Out[i]
          /\ Out[1] \in Effect
      <3>1. Out # << >> /\ UNCHANGED cmds /\ Out' = Tail(Out)
        BY <1>3 DEF Sends, Answers
      <3>2. Head(Out) = Out[1] /\ 1 \in DOMAIN Out
        BY <1>1, <3>1
      <3>3. /\ \A i \in DOMAIN Out' : i + 1 \in DOMAIN Out /\ Out'[i] = Out[i + 1]
            /\ \A i \in DOMAIN Out : i # 1 => i - 1 \in DOMAIN Out' /\ Out'[i - 1] = Out[i]
        BY <1>1, <3>1, TailShape
      <3> QED
        BY <1>1, <3>1, <3>2, <3>3 DEF Cmds
    <2>2. NoneGone => NoneGone'
      BY <2>1 DEF NoneGone
    <2>3. CASE Sends
      <3>1. reply' = reply /\ \A i \in DOMAIN Out : Out[i] = Reply(c, TRUE) => i # 1
        BY <2>1, <2>3 DEF Sends, Reply
      <3>2. ASSUME NEW i \in DOMAIN Out, Out[i] = Reply(c, TRUE) PROVE Granted(c)'
        <4>1. i - 1 \in DOMAIN Out' /\ Out'[i - 1] = Reply(c, TRUE)
          BY <2>1, <3>1, <3>2
        <4> QED
          BY <4>1 DEF Granted
      <3>3. ASSUME NEW i \in DOMAIN Out', Out'[i] = Reply(c, TRUE) PROVE Granted(c)
        <4>1. i + 1 \in DOMAIN Out /\ Out[i + 1] = Reply(c, TRUE)
          BY <2>1, <3>3
        <4> QED
          BY <4>1 DEF Granted
      <3>4. Granted(c)' <=> Granted(c)
        BY <3>1, <3>2, <3>3 DEF Granted
      <3> QED
        BY <1>2, <2>1, <2>2, <3>4
    <2>4. CASE Answers
      <3>1. IsReply(Out[1]) /\ reply' = [reply EXCEPT ![Out[1].to] = IF Out[1].ok THEN "ok" ELSE "err"]
        BY <2>1, <2>4 DEF Answers, IsReply
      <3>2. /\ Out[1].to # Gone => reply[Out[1].to] = "wait"
            /\ \A i \in DOMAIN Out : IsReply(Out[i]) => i = 1
        BY <1>1, <2>1, <3>1 DEF RepliesOwed
      <3>3. Out[1].to = c => (Out[1].ok <=> Out[1] = Reply(c, TRUE))
        BY <2>1, <3>1 DEF Effect, Reply, IsReply
      <3>4. Reply(c, TRUE).to = c /\ IsReply(Reply(c, TRUE)) /\ Reply(c, TRUE).ok
        BY DEF Reply, IsReply
      <3>5. Granted(c) => Granted(c)'
        <4>1. CASE reply[c] = "ok"
          BY <1>1, <3>1, <3>2, <4>1 DEF Granted
        <4>2. ASSUME NEW i \in DOMAIN Out, Out[i] = Reply(c, TRUE) PROVE Granted(c)'
          <5>1. Out[1] = Reply(c, TRUE)
            BY <3>2, <3>4, <4>2
          <5> QED
            BY <1>1, <3>1, <3>4, <5>1 DEF Granted
        <4> QED
          BY <4>1, <4>2 DEF Granted
      <3>6. Granted(c)' => Granted(c)
        <4>1. CASE reply'[c] = "ok"
          BY <1>1, <2>1, <3>1, <3>3, <4>1 DEF Granted
        <4>2. ASSUME NEW i \in DOMAIN Out', Out'[i] = Reply(c, TRUE) PROVE Granted(c)
          <5>1. i + 1 \in DOMAIN Out /\ Out[i + 1] = Reply(c, TRUE)
            BY <2>1, <4>2
          <5> QED
            BY <5>1 DEF Granted
        <4> QED
          BY <4>1, <4>2 DEF Granted
      <3> QED
        BY <1>2, <2>1, <2>2, <3>5, <3>6
    <2> QED
      BY <1>3, <2>3, <2>4
  <1>4. ASSUME NEW op, Took(op)
        PROVE  /\ Granted(c) => Granted(c)'
               /\ Granted(c)' => Granted(c) \/ Head(Cmds).by = c
               /\ NoneGone => NoneGone'
               /\ \A o : Pending(o)' => Pending(o)
               /\ \A o : Pending(o) => Pending(o)' \/ Took(o)
               /\ \A P : (\A i \in DOMAIN Cmds : Cmds[i] \in P) => \A i \in DOMAIN Cmds' : Cmds'[i] \in P
               /\ Took(Head(Cmds).op) /\ Cmds # << >>
    <2>1. /\ Cmds # << >> /\ Head(Cmds) = Cmds[1] /\ 1 \in DOMAIN Cmds /\ Cmds[1].op = op
          /\ reply' = reply /\ Out = << >> /\ Took(Head(Cmds).op)
          /\ \A i \in DOMAIN Cmds' : i + 1 \in DOMAIN Cmds /\ Cmds'[i] = Cmds[i + 1]
          /\ \A i \in DOMAIN Cmds : i # 1 => i - 1 \in DOMAIN Cmds' /\ Cmds'[i - 1] = Cmds[i]
      BY <1>1, <1>4, TailShape DEF Took
    <2>2. OneAnswer(Out', Head(Cmds).by)
      BY <1>4, TookAnswers
    <2>3. Granted(c) => Granted(c)'
      <3>1. DOMAIN Out = {}
        BY <2>1
      <3> QED
        BY <2>1, <3>1 DEF Granted
    <2>4. Granted(c)' => Granted(c) \/ Head(Cmds).by = c
      <3>1. Reply(c, TRUE).to = c /\ IsReply(Reply(c, TRUE))
        BY DEF Reply, IsReply
      <3>2. ASSUME reply'[c] = "ok" PROVE Granted(c)
        BY <2>1, <3>2 DEF Granted
      <3>3. ASSUME NEW i \in DOMAIN Out', Out'[i] = Reply(c, TRUE) PROVE Head(Cmds).by = c
        BY <2>2, <3>1, <3>3 DEF OneAnswer
      <3> QED
        BY <3>2, <3>3 DEF Granted
    <2>5. NoneGone => NoneGone'
      BY <2>1, <2>2 DEF NoneGone, OneAnswer
    <2>6. \A o : Pending(o)' => Pending(o)
      BY <2>1 DEF Pending
    <2>7. \A o : Pending(o) => Pending(o)' \/ Took(o)
      BY <1>4, <2>1 DEF Pending, Took
    <2> QED
      BY <2>1, <2>3, <2>4, <2>5, <2>6, <2>7
  <1>5. CASE Positions \/ Rests
    <2>1. UNCHANGED cmds /\ Out' = Out /\ reply' = reply /\ Cmds' = Cmds
      BY <1>5 DEF Positions, Rests, Out, Cmds
    <2>2. (Granted(c)' <=> Granted(c)) /\ (NoneGone => NoneGone')
      BY <2>1 DEF Granted, NoneGone
    <2> QED
      BY <1>2, <2>1, <2>2
  <1>6. CASE Lands \/ Ends \/ Forgets
    <2>1. /\ UNCHANGED cmds /\ reply' = reply /\ Out = << >> /\ Cmds' = Cmds
          /\ \A i \in DOMAIN Out' : ~IsReply(Out'[i])
          /\ DOMAIN Out = {}
      <3>1. UNCHANGED cmds /\ reply' = reply /\ Out = << >> /\ Cmds' = Cmds
        BY <1>6 DEF Lands, Ends, Forgets, Same, Free, Cmds
      <3>2. CASE Ends
        <4>1. PICK f \in {"plain", "errored"}, x \in MaybeLoad : Out' = HonestStopSends(deck, actor[deck], f, x)
          BY <3>2 DEF Ends
        <4> QED
          BY <3>1, <4>1 DEF HonestStopSends, IsReply, Send
      <3>3. CASE Lands \/ Forgets
        BY <3>1, <3>3 DEF Lands, Forgets, IsReply, Send
      <3> QED
        BY <1>6, <3>2, <3>3
    <2>2. IsReply(Reply(c, TRUE))
      BY DEF IsReply, Reply
    <2>3. Granted(c)' <=> Granted(c)
      BY <2>1, <2>2 DEF Granted
    <2>4. NoneGone => NoneGone'
      BY <2>1 DEF NoneGone
    <2> QED
      BY <1>2, <2>1, <2>3, <2>4
  <1> QED
    BY <1>3, <1>4, <1>5, <1>6 DEF DeckMoves, Loads, Parks, DropsWarm, Pauses, Stops

LEMMA StillDeck ==
    ASSUME UNCHANGED <<actor, ring>>
    PROVE  /\ Latch' = Latch /\ Warmth' = Warmth /\ Watch' = Watch /\ Out' = Out
           /\ Bare' <=> Bare
           /\ \A e : (LatchIs(e)' <=> LatchIs(e)) /\ (Parked(e)' <=> Parked(e))
           /\ \A k : (EofAt(k)' <=> EofAt(k)) /\ (LandedAt(k)' <=> LandedAt(k))
           /\ \A k, e : PlayingAt(k, e)' <=> PlayingAt(k, e)
           /\ NoEof' <=> NoEof
  <1>1. Latch' = Latch /\ Warmth' = Warmth /\ Watch' = Watch /\ Out' = Out
    BY DEF Latch, Warmth, Watch, Out
  <1>2. FlightLen' = FlightLen /\ \A k : Flight(k)' = Flight(k)
    BY <1>1 DEF FlightLen, Flight
  <1>3. (Bare' <=> Bare) /\ \A e : (LatchIs(e)' <=> LatchIs(e)) /\ (Parked(e)' <=> Parked(e))
    BY <1>1 DEF Bare, LatchIs, Parked
  <1>4. \A k : (EofAt(k)' <=> EofAt(k)) /\ (LandedAt(k)' <=> LandedAt(k))
    BY <1>2 DEF EofAt, LandedAt
  <1>5. \A k, e : PlayingAt(k, e)' <=> PlayingAt(k, e)
    BY <1>2 DEF PlayingAt
  <1>6. NoEof' <=> NoEof
    BY <1>2 DEF NoEof
  <1> QED
    BY <1>1, <1>3, <1>4, <1>5, <1>6

LEMMA StillQueue ==
    /\ UNCHANGED <<queue, current>> => (OnRow' <=> OnRow) /\ \A e : HereIs(e)' <=> HereIs(e)
    /\ UNCHANGED <<queue, current, modes>> => \A e : Promised(e)' <=> Promised(e)
    /\ UNCHANGED slot => \A e : Warmed(e)' <=> Warmed(e)
    /\ UNCHANGED queue => (Distinct(queue)' <=> Distinct(queue))
  <1>1. UNCHANGED <<queue, current>> => (OnRow' <=> OnRow) /\ \A e : HereIs(e)' <=> HereIs(e)
    BY DEF OnRow, HereIs
  <1>2. UNCHANGED <<queue, current, modes>> => \A e : Promised(e)' <=> Promised(e)
    BY DEF Promised, Nxt, OnRow
  <1>3. UNCHANGED slot => \A e : Warmed(e)' <=> Warmed(e)
    BY DEF Warmed
  <1>4. UNCHANGED queue => (Distinct(queue)' <=> Distinct(queue))
    BY DEF Distinct
  <1> QED
    BY <1>1, <1>2, <1>3, <1>4

\* No end on its way means just that.
LEMMA NoEofAt == (NoEof <=> \A k : ~EofAt(k)) /\ \A k : LandedAt(k) => EofAt(k)
  BY DEF NoEof, EofAt, LandedAt, IsLanded

\* What a step of the deck may do to its latches.
LEMMA LatchMoves ==
    ASSUME Types, FlightInv, AskInv, DeckMoves
    PROVE  /\ \/ Latch' = Latch \/ Latch' = NoLoad \/ Lands
              \/ /\ Took("PlayUrl") /\ Bare' /\ Latch' = Head(Cmds).load
                 /\ \E i \in DOMAIN Out' : Out'[i] = Reply(Head(Cmds).by, TRUE)
           /\ \/ Warmth' = Warmth \/ Bare'
              \/ /\ Took("PrefetchContinuation") /\ Warmth'.load = Head(Cmds).load
                 /\ \E i \in DOMAIN Out' : Out'[i] = Reply(Head(Cmds).by, TRUE)
           /\ \A op \in {"PlayUrl", "DropWarm", "Stop"} : Took(op) => Bare'
           /\ Took("Stop") => Latch' = NoLoad
           /\ Lands => /\ EndQueued(deck) /\ ~Bare /\ Bare' /\ Latch' = Warmth.load /\ Latch' # NoLoad /\ Cmds' = << >>
                       /\ \A k : EofAt(k)' => EofAt(k) \/ k = Len(ring) + 1
                       /\ \A k, e : k = Len(ring) + 1 /\ e = EntryOf(Latch') => LandedAt(k)' /\ PlayingAt(k + 1, e)'
           /\ Ends /\ ~NoNewEof => /\ EndQueued(deck) /\ Latch # NoLoad /\ Latch' = NoLoad /\ Bare' /\ Cmds' = << >>
                                   /\ \A k : EofAt(k)' => EofAt(k) \/ k = Len(ring) + 1
                                   /\ \A k : k = Len(ring) + 1 => ~LandedAt(k)'
           /\ Lands \/ Ends => ring' = ring /\ Out = << >>
  <1>1. Out \in Seq(Effect) /\ Cmds \in Seq(Command) /\ ring \in Seq(Event) /\ Len(ring) \in Nat
    BY RowTypes
  <1>2. \A op, op2 : Took(op) /\ Took(op2) => op = op2
    BY DEF Took
  <1>3. ASSUME NEW op, Took(op) PROVE Out = << >> /\ Cmds # << >> /\ Cmds' # Cmds
    BY <1>1, <1>3, TailShape DEF Took
  <1>4. \A op : Took(op) => ~(Sends \/ Answers \/ Positions \/ Lands \/ Ends \/ Forgets \/ Rests)
    BY <1>3 DEF Sends, Answers, Positions, Lands, Ends, Forgets, Rests, Free, Cmds
  <1>5. \/ Latch' = Latch \/ Latch' = NoLoad \/ Lands
        \/ /\ Took("PlayUrl") /\ Bare' /\ Latch' = Head(Cmds).load
           /\ \E i \in DOMAIN Out' : Out'[i] = Reply(Head(Cmds).by, TRUE)
    <2>1. CASE Loads /\ Latch' # Latch
      <3>1. PICK x \in MaybeLoad :
                Out' = <<Reply(Head(Cmds).by, TRUE), Send(Ev(deck, "Playing", Head(Cmds).load, "plain", x))>>
        BY <2>1 DEF Loads
      <3>2. 1 \in DOMAIN Out' /\ Out'[1] = Reply(Head(Cmds).by, TRUE)
        BY <3>1
      <3> QED
        BY <2>1, <3>2 DEF Loads
    <2>2. CASE Positions \/ Rests
      BY <2>2 DEF Positions, Rests, Latch
    <2> QED
      BY <2>1, <2>2 DEF DeckMoves, Sends, Answers, Parks, DropsWarm, Pauses, Stops, Ends, Forgets
  <1>6. \/ Warmth' = Warmth \/ Bare'
        \/ /\ Took("PrefetchContinuation") /\ Warmth'.load = Head(Cmds).load
           /\ \E i \in DOMAIN Out' : Out'[i] = Reply(Head(Cmds).by, TRUE)
    <2>1. CASE Parks /\ ~Bare'
      <3>1. Out' = <<Reply(Head(Cmds).by, TRUE)>> /\ Warmth' = [kind |-> "Continuation", load |-> Head(Cmds).load]
        BY <2>1 DEF Parks
      <3>2. 1 \in DOMAIN Out' /\ Out'[1] = Reply(Head(Cmds).by, TRUE) /\ Warmth'.load = Head(Cmds).load
        BY <3>1
      <3> QED
        BY <2>1, <3>2 DEF Parks
    <2>2. CASE Positions \/ Rests
      BY <2>2 DEF Positions, Rests, Warmth
    <2> QED
      BY <2>1, <2>2 DEF DeckMoves, Sends, Answers, Loads, DropsWarm, Pauses, Stops, Lands, Ends, Forgets
  <1>7. \A op \in {"PlayUrl", "DropWarm", "Stop"} : Took(op) => Bare'
    BY <1>2, <1>4 DEF DeckMoves, Loads, Parks, DropsWarm, Pauses, Stops
  <1>8. Took("Stop") => Latch' = NoLoad
    BY <1>2, <1>4 DEF DeckMoves, Loads, Parks, DropsWarm, Pauses, Stops
  <1>9. Lands \/ Ends => ring' = ring /\ Out = << >> /\ Cmds' = << >>
    BY DEF Lands, Ends, Free, Same, Cmds
  <1>10. ASSUME Out = << >>, ring' = ring, Len(ring) \in Nat, NEW x, NEW y, Out' = <<x, y>>
         PROVE  /\ FlightLen = Len(ring) /\ FlightLen' = Len(ring) + 2
                /\ \A k \in 1..Len(ring) : Flight(k)' = Flight(k)
                /\ \A k : k = Len(ring) + 1 => Flight(k)' = x
                /\ \A k : k = Len(ring) + 2 => Flight(k)' = y
    BY <1>10 DEF FlightLen, Flight
  <1>11. ASSUME Lands
         PROVE  /\ EndQueued(deck) /\ ~Bare /\ Bare' /\ Latch' = Warmth.load /\ Latch' # NoLoad
                /\ \A k : EofAt(k)' => EofAt(k) \/ k = Len(ring) + 1
                /\ \A k, e : k = Len(ring) + 1 /\ e = EntryOf(Latch') => LandedAt(k)' /\ PlayingAt(k + 1, e)'
    <2>1. PICK c \in MaybeLoad : Out' = <<Send(Ev(deck, "Eof", Latch, "landed", c)),
                       Send(Ev(deck, "Playing", Warmth.load, "noid", Warmth.load))>>
      BY <1>11 DEF Lands
    <2> DEFINE x == Send(Ev(deck, "Eof", Latch, "landed", c))
               y == Send(Ev(deck, "Playing", Warmth.load, "noid", Warmth.load))
    <2>2. IsEof(x) /\ IsLanded(x) /\ ~IsEof(y) /\ IsPlaying(y, EntryOf(Warmth.load))
      BY DEF IsEof, IsLanded, IsPlaying, Send, Ev
    <2>3. Out' = <<x, y>>
      BY <2>1
    <2> HIDE DEF x, y
    <2>4. /\ FlightLen = Len(ring) /\ FlightLen' = Len(ring) + 2
          /\ \A k \in 1..Len(ring) : Flight(k)' = Flight(k)
          /\ \A k : k = Len(ring) + 1 => Flight(k)' = x
          /\ \A k : k = Len(ring) + 2 => Flight(k)' = y
      BY <1>1, <1>9, <1>10, <1>11, <2>3
    <2>5. ASSUME NEW k, EofAt(k)' PROVE EofAt(k) \/ k = Len(ring) + 1
      <3>1. k \in 1..FlightLen' /\ IsEof(Flight(k)')
        BY <2>5 DEF EofAt
      <3>2. k \in 1..Len(ring) \/ k = Len(ring) + 1 \/ k = Len(ring) + 2
        BY <1>1, <2>4, <3>1
      <3> QED
        BY <2>2, <2>4, <3>1, <3>2 DEF EofAt
    <2>6. ASSUME NEW k, k = Len(ring) + 1 PROVE LandedAt(k)'
      BY <1>1, <2>2, <2>4, <2>6 DEF LandedAt
    <2>7. /\ EndQueued(deck) /\ ~Bare /\ Bare' /\ Latch' = Warmth.load /\ Latch' # NoLoad
      BY <1>11 DEF Lands, FlightInv, Bare, Warmth
    <2>8. ASSUME NEW k, NEW e, k = Len(ring) + 1, e = EntryOf(Latch') PROVE PlayingAt(k + 1, e)'
      <3>1. PICK j : j = k + 1
        OBVIOUS
      <3>2. j = Len(ring) + 2 /\ j \in 1..FlightLen' /\ Flight(j)' = y /\ IsPlaying(y, e)
        BY <1>1, <2>2, <2>4, <2>7, <2>8, <3>1
      <3>3. PlayingAt(j, e)'
        BY <3>2 DEF PlayingAt
      <3> QED
        BY <3>1, <3>3
    <2> QED
      BY <2>5, <2>6, <2>7, <2>8
  <1>12. ASSUME Ends, ~NoNewEof
         PROVE  /\ EndQueued(deck) /\ Latch # NoLoad /\ Latch' = NoLoad /\ Bare'
                /\ \A k : EofAt(k)' => EofAt(k) \/ k = Len(ring) + 1
                /\ \A k : k = Len(ring) + 1 => ~LandedAt(k)'
    <2>1. PICK f \in {"plain", "errored"}, c \in MaybeLoad : Out' = HonestStopSends(deck, actor[deck], f, c)
      BY <1>12 DEF Ends
    <2> DEFINE x == Send(Ev(deck, "Eof", Latch, f, c))
               y == Send(Ev(deck, "Stopped", NoLoad, "plain", NoLoad))
    <2>2. ~IsLanded(x) /\ ~IsEof(y)
      BY DEF IsEof, IsLanded, Send, Ev
    <2>3. IF Latch = NoLoad THEN Out' = <<y>> ELSE Out' = <<x, y>>
      <3>1. \A S, u, v : u \in S /\ v \in S => << >> \o <<u>> = <<u>> /\ <<u>> \o <<v>> = <<u, v>>
        <4> SUFFICES ASSUME NEW S, NEW u \in S, NEW v \in S
                     PROVE  << >> \o <<u>> = <<u>> /\ <<u>> \o <<v>> = <<u, v>>
          OBVIOUS
        <4>1. <<u>> \in Seq(S) /\ <<v>> \in Seq(S) /\ << >> \in Seq(S)
          OBVIOUS
        <4>2. << >> \o <<u>> = <<u>>
          BY <4>1, ConcatEmptySeq
        <4>3. <<u>> \o <<v>> = Append(<<u>>, v)
          BY <4>1, AppendIsConcat
        <4>4. Append(<<u>>, v) = <<u, v>>
          <5>1. <<u>> \in Seq(S) /\ Len(<<u>>) = 1 /\ <<u>>[1] = u
            OBVIOUS
          <5>2. /\ Append(<<u>>, v) \in Seq(S) /\ Len(Append(<<u>>, v)) = 2
                /\ Append(<<u>>, v)[1] = u /\ Append(<<u>>, v)[2] = v
            BY <5>1, AppendProperties
          <5>3. <<u, v>> \in Seq(S) /\ Len(<<u, v>>) = 2 /\ <<u, v>>[1] = u /\ <<u, v>>[2] = v
            OBVIOUS
          <5>4. \A i \in 1..2 : i = 1 \/ i = 2
            OBVIOUS
          <5> DEFINE a == Append(<<u>>, v)
                     b == <<u, v>>
          <5>5. a \in Seq(S) /\ b \in Seq(S) /\ Len(a) = 2 /\ Len(b) = 2 /\ \A i \in 1..2 : a[i] = b[i]
            BY <5>2, <5>3, <5>4
          <5> HIDE DEF a, b
          <5>6. a = b
            BY <5>5, SeqEqual
          <5> QED
            BY <5>6 DEF a, b
        <4> QED
          BY <4>2, <4>3, <4>4
      <3>2. Out' = (IF Latch = NoLoad THEN << >> ELSE <<x>>) \o <<y>>
        BY <2>1 DEF HonestStopSends, Latch
      <3> HIDE DEF x, y
      <3>3. x \in {x, y} /\ y \in {x, y}
        OBVIOUS
      <3> QED
        BY <3>1, <3>2, <3>3
    <2> HIDE DEF x, y
    <2>4. Latch # NoLoad
      <3> SUFFICES ASSUME Latch = NoLoad PROVE FALSE
        OBVIOUS
      <3>1. Out' = <<y>>
        BY <2>3
      <3>2. /\ FlightLen = Len(ring) /\ FlightLen' = Len(ring) + 1
            /\ \A k \in 1..Len(ring) : Flight(k)' = Flight(k)
            /\ \A k : k = Len(ring) + 1 => Flight(k)' = y
        BY <1>1, <1>9, <1>12, <3>1 DEF FlightLen, Flight
      <3>3. ASSUME NEW k, EofAt(k)' PROVE EofAt(k)
        <4>1. k \in 1..FlightLen' /\ IsEof(Flight(k)')
          BY <3>3 DEF EofAt
        <4>2. k \in 1..Len(ring) \/ k = Len(ring) + 1
          BY <1>1, <3>2, <4>1
        <4> QED
          BY <1>1, <2>2, <3>2, <4>1, <4>2 DEF EofAt
      <3>4. \A k : EofAt(k)' => EofAt(k)
        BY <3>3
      <3> QED
        BY <1>12, <3>4 DEF NoNewEof
    <2>5. /\ FlightLen = Len(ring) /\ FlightLen' = Len(ring) + 2
          /\ \A k \in 1..Len(ring) : Flight(k)' = Flight(k)
          /\ \A k : k = Len(ring) + 1 => Flight(k)' = x
          /\ \A k : k = Len(ring) + 2 => Flight(k)' = y
      BY <1>1, <1>9, <1>10, <1>12, <2>3, <2>4
    <2>6. ASSUME NEW k, EofAt(k)' PROVE EofAt(k) \/ k = Len(ring) + 1
      <3>1. k \in 1..FlightLen' /\ IsEof(Flight(k)')
        BY <2>6 DEF EofAt
      <3>2. k \in 1..Len(ring) \/ k = Len(ring) + 1 \/ k = Len(ring) + 2
        BY <1>1, <2>5, <3>1
      <3> QED
        BY <2>2, <2>5, <3>1, <3>2 DEF EofAt
    <2>7. ASSUME NEW k, k = Len(ring) + 1 PROVE ~LandedAt(k)'
      BY <2>2, <2>5, <2>7 DEF LandedAt
    <2> QED
      BY <1>12, <2>4, <2>6, <2>7 DEF Ends
  <1> QED
    BY <1>5, <1>6, <1>7, <1>8, <1>9, <1>11, <1>12

\* With the client and the fade at rest, only the spine has asked for anything.
LEMMA SpineOnly ==
    ASSUME Types, AskInv, ClientQuiet, NoneGone, Calm
    PROVE  \A i \in DOMAIN Cmds :
              /\ Cmds[i].by = Spine /\ reply[Spine] = "wait"
              /\ \/ SpinePc = "loading" /\ Cmds[i].op = "PlayUrl"
                 \/ SpinePc = "prefetch" /\ Cmds[i].op = "PrefetchContinuation" /\ Cmds[i].load.entry = task[Spine].item
                 \/ SpinePc = "todo" /\ Cmds[i].op = "DropWarm"
  <1> SUFFICES ASSUME NEW i \in DOMAIN Cmds
               PROVE  /\ Cmds[i].by = Spine /\ reply[Spine] = "wait"
                      /\ \/ SpinePc = "loading" /\ Cmds[i].op = "PlayUrl"
                         \/ /\ SpinePc = "prefetch" /\ Cmds[i].op = "PrefetchContinuation"
                            /\ Cmds[i].load.entry = task[Spine].item
                         \/ SpinePc = "todo" /\ Cmds[i].op = "DropWarm"
    OBVIOUS
  <1>1. Asked(Cmds[i]) /\ (Cmds[i].by # Gone => reply[Cmds[i].by] = "wait") /\ Cmds[i].by # Gone
    BY DEF AskInv, CmdsAsked, NoneGone
  <1>2. Cmds[i] \in Command
    BY RowTypes
  <1>3. Cmds[i].by \in {Spine, Client, Fader}
    BY <1>1, <1>2, TasksDiffer DEF Command
  <1>4. Cmds[i].by = Spine
    BY <1>1, <1>3, TasksDiffer DEF Asked, AskedByClient, AskedByFader, At, ClientQuiet, ClientPc
  <1> QED
    BY <1>1, <1>4, TasksDiffer DEF Asked, AskedBySpine, At, Calm, SpinePc

\* The spine at rest has asked for nothing; what the client has asked for is
\* where the client is.
LEMMA ClientOnly ==
    ASSUME Types, AskInv, SpinePc = "idle", NoneGone
    PROVE  \A i \in DOMAIN Cmds :
              /\ Cmds[i].by \in {Client, Fader} /\ reply[Cmds[i].by] = "wait"
              /\ Cmds[i].op # "PrefetchContinuation"
              /\ Cmds[i].op = "PlayUrl" =>
                    /\ Cmds[i].by = Client /\ ClientPc = "loading"
                    /\ Cmds[i].load.entry = task[Client].item
              /\ ClientPc = "loading" /\ Cmds[i].by = Client => Cmds[i].op = "PlayUrl"
  <1> SUFFICES ASSUME NEW i \in DOMAIN Cmds
               PROVE  /\ Cmds[i].by \in {Client, Fader} /\ reply[Cmds[i].by] = "wait"
                      /\ Cmds[i].op # "PrefetchContinuation"
                      /\ Cmds[i].op = "PlayUrl" =>
                            /\ Cmds[i].by = Client /\ ClientPc = "loading"
                            /\ Cmds[i].load.entry = task[Client].item
                      /\ ClientPc = "loading" /\ Cmds[i].by = Client => Cmds[i].op = "PlayUrl"
    OBVIOUS
  <1>1. Asked(Cmds[i]) /\ (Cmds[i].by # Gone => reply[Cmds[i].by] = "wait") /\ Cmds[i].by # Gone
    BY DEF AskInv, CmdsAsked, NoneGone
  <1>2. Cmds[i] \in Command
    BY RowTypes
  <1>3. Cmds[i].by \in {Spine, Client, Fader}
    BY <1>1, <1>2, TasksDiffer DEF Command
  <1>4. Cmds[i].by \in {Client, Fader} /\ reply[Cmds[i].by] = "wait"
    BY <1>1, <1>3, TasksDiffer DEF Asked, AskedBySpine, At, SpinePc
  <1> QED
    BY <1>1, <1>4, TasksDiffer DEF Asked, AskedByClient, AskedByFader, At, ClientPc

\* What is ready has been granted, or taken from the channel just now.
LEMMA DeckKeepsC ==
    ASSUME Types, Types', FlightInv, AskInv, DeckMoves,
           UNCHANGED <<queueVars, slot, fade, task, contested>>, ClientQuiet, InvC
    PROVE  InvC'
  <1>1. /\ UNCHANGED <<queue, current, modes, slot, fade, task, contested, SpinePc, Target, Landed, OursStill>>
        /\ Listed /\ Calm /\ Ending /\ WarmNext /\ AdvanceNext /\ LoadNext /\ RowNext /\ NoneGone
    BY DEF queueVars, InvC, Listed, SpinePc, Target, Landed, OursStill
  <1>2. /\ \A e : (HereIs(e)' <=> HereIs(e)) /\ (Promised(e)' <=> Promised(e)) /\ (Warmed(e)' <=> Warmed(e))
        /\ Distinct(queue)' <=> Distinct(queue)
    BY <1>1, StillQueue
  <1>3. /\ Granted(Spine) => Granted(Spine)'
        /\ NoneGone'
        /\ \A op : Pending(op)' => Pending(op)
        /\ \A op : Pending(op) => Pending(op)' \/ Took(op)
    BY <1>1, AskedMoves
  <1>4. FlightKept /\ (~Lands /\ ~Ends => NoNewEof)
    BY FlightMoves
  <1>5. \A op : Took(op) => Pending(op) /\ Head(Cmds) = Cmds[1] /\ 1 \in DOMAIN Cmds
    <2> SUFFICES ASSUME NEW op, Took(op) PROVE Pending(op) /\ Head(Cmds) = Cmds[1] /\ 1 \in DOMAIN Cmds
      OBVIOUS
    <2>1. Head(Cmds) = Cmds[1] /\ 1 \in DOMAIN Cmds
      BY RowTypes, TailShape DEF Took
    <2> QED
      BY <2>1 DEF Took, Pending
  <1>6. \A i \in DOMAIN Cmds :
              /\ Cmds[i].by = Spine /\ reply[Spine] = "wait"
              /\ \/ SpinePc = "loading" /\ Cmds[i].op = "PlayUrl"
                 \/ SpinePc = "prefetch" /\ Cmds[i].op = "PrefetchContinuation" /\ Cmds[i].load.entry = task[Spine].item
                 \/ SpinePc = "todo" /\ Cmds[i].op = "DropWarm"
    BY <1>1, SpineOnly
  <1>7. \A c : (\E i \in DOMAIN Out' : Out'[i] = Reply(c, TRUE)) => Granted(c)'
    BY DEF Granted
  <1>8. \/ Latch' = Latch \/ Latch' = NoLoad \/ Lands
        \/ /\ SpinePc = "loading" /\ Took("PlayUrl") /\ Granted(Spine)' /\ Latch' = Head(Cmds).load
    BY <1>5, <1>6, <1>7, LatchMoves DEF Took
  <1>9. \/ Warmth' = Warmth \/ Bare'
        \/ /\ SpinePc = "prefetch" /\ Granted(Spine)' /\ Pending("PrefetchContinuation")
           /\ \E e : task[Spine].item = e /\ Parked(e)'
    <2>1. CASE Took("PrefetchContinuation") /\ Warmth'.load = Head(Cmds).load
                  /\ \E i \in DOMAIN Out' : Out'[i] = Reply(Head(Cmds).by, TRUE)
      <3>1. /\ Head(Cmds).by = Spine /\ SpinePc = "prefetch" /\ Head(Cmds).load.entry = task[Spine].item
            /\ Pending("PrefetchContinuation")
        BY <1>5, <1>6, <2>1 DEF Took
      <3>2. PICK e : e = task[Spine].item
        OBVIOUS
      <3>3. Parked(e)'
        BY <2>1, <3>1, <3>2 DEF Parked
      <3> QED
        BY <1>7, <2>1, <3>1, <3>2, <3>3
    <2> QED
      BY <2>1, LatchMoves
  <1>10. /\ Lands => /\ EndQueued(deck) /\ ~Bare /\ Bare' /\ Latch' = Warmth.load /\ Latch' # NoLoad /\ Cmds' = << >>
                     /\ \A k : EofAt(k)' => EofAt(k) \/ k = Len(ring) + 1
                     /\ \A k, e : k = Len(ring) + 1 /\ e = EntryOf(Latch') => LandedAt(k)' /\ PlayingAt(k + 1, e)'
         /\ Ends /\ ~NoNewEof => /\ EndQueued(deck) /\ Latch # NoLoad /\ Latch' = NoLoad /\ Bare' /\ Cmds' = << >>
                                 /\ \A k : EofAt(k)' => EofAt(k) \/ k = Len(ring) + 1
                                 /\ \A k : k = Len(ring) + 1 => ~LandedAt(k)'
         /\ Lands \/ Ends => ring' = ring /\ Out = << >>
    BY LatchMoves
  <1>11. Listed' /\ Calm'
    BY <1>1, <1>2, <1>3 DEF Listed, Calm
  <1>12. /\ \A k : LandedAt(k) => EofAt(k)
         /\ \A k : LandedAt(k)' => EofAt(k)'
         /\ NoEof <=> \A k : ~EofAt(k)
         /\ NoEof' <=> \A k : ~EofAt(k)'
    BY DEF LandedAt, EofAt, IsLanded, NoEof
  <1>13. /\ Warmth' = Warmth => /\ Bare' <=> Bare
                               /\ \A e : Parked(e)' <=> Parked(e)
         /\ Latch' = Latch => \A e : LatchIs(e)' <=> LatchIs(e)
         /\ Latch' = NoLoad => \A e : LatchIs(e)'
         /\ \A e, l : Latch' = l /\ l.entry = e => LatchIs(e)'
    BY DEF Bare, Parked, LatchIs
  <1>14. /\ NoEof' => NoEof
         /\ \A k : EofAt(k) => EofAt(k)' /\ (LandedAt(k)' <=> LandedAt(k))
         /\ \A e : PlayingAt(1, e) => PlayingAt(1, e)'
         /\ \A k, e : LandedAt(k) /\ PlayingAt(k + 1, e) => PlayingAt(k + 1, e)'
    <2>1. NoEof' => NoEof
      BY <1>4, <1>12 DEF FlightKept
    <2>2. ASSUME NEW k, NEW e, LandedAt(k), PlayingAt(k + 1, e) PROVE PlayingAt(k + 1, e)'
      <3>1. PICK j : j = k + 1
        OBVIOUS
      <3>2. k \in Nat /\ j - 1 = k
        BY <2>2, <3>1, RowTypes DEF LandedAt, FlightLen
      <3>3. PlayingAt(j, e)'
        BY <1>4, <1>12, <2>2, <3>1, <3>2 DEF FlightKept
      <3> QED
        BY <3>1, <3>3
    <2> QED
      BY <1>4, <2>1, <2>2 DEF FlightKept
  <1>15. SpinePc \notin {"idle", "prefetch"} => Bare /\ Bare' /\ ~Lands
    BY <1>1, <1>9, <1>10, <1>13 DEF WarmNext
  <1>16. ~NoEof' => ~NoEof \/ Lands \/ (Ends /\ Latch # NoLoad /\ Latch' = NoLoad)
    BY <1>4, <1>10, <1>12 DEF NoNewEof
  <1>17. WarmNext'
    <2>1. SpinePc = "prefetch" => \E e : /\ task[Spine].item = e /\ Promised(e)'
                                         /\ ~Bare' => Granted(Spine)' /\ Parked(e)'
      BY <1>1, <1>2, <1>3, <1>9, <1>13 DEF WarmNext
    <2>2. SpinePc = "idle" /\ ~Bare' => \E e : Parked(e)' /\ Warmed(e)' /\ Promised(e)'
      BY <1>1, <1>2, <1>9, <1>13 DEF WarmNext
    <2> QED
      BY <1>1, <1>15, <2>1, <2>2 DEF WarmNext
  <1>18. AdvanceNext'
    <2> SUFFICES ASSUME SpinePc \in {"advance", "goto"} PROVE AdvanceNext'
      BY <1>1 DEF AdvanceNext
    <2>1. ~Lands /\ (Latch' = Latch \/ Latch' = NoLoad)
      BY <1>8, <1>15
    <2>2. CASE Landed
      <3>1. PICK e : /\ PlayingAt(1, e) /\ LatchIs(e) /\ Warmed(e)
                     /\ SpinePc = "advance" => Promised(e)
                     /\ SpinePc = "goto" => Target \in DOMAIN queue /\ queue[Target] = e
        BY <1>1, <2>2 DEF AdvanceNext
      <3>2. PlayingAt(1, e)' /\ LatchIs(e)' /\ Warmed(e)' /\ (SpinePc = "advance" => Promised(e)')
        BY <1>2, <1>13, <1>14, <2>1, <3>1
      <3> QED
        BY <1>1, <2>2, <3>1, <3>2 DEF AdvanceNext
    <2>3. CASE ~Landed
      BY <1>1, <1>16, <2>1, <2>3 DEF AdvanceNext
    <2> QED
      BY <2>2, <2>3
  <1>19. LoadNext'
    <2> SUFFICES ASSUME SpinePc = "loading" PROVE LoadNext'
      BY <1>1 DEF LoadNext
    <2>1. Latch' # NoLoad \/ ~NoEof' => Granted(Spine)'
      BY <1>1, <1>3, <1>8, <1>15, <1>16 DEF LoadNext
    <2>2. PICK e : /\ Target \in DOMAIN queue /\ queue[Target] = e /\ LatchIs(e)
                   /\ \A i \in DOMAIN Cmds : Cmds[i].op = "PlayUrl" => Cmds[i].load.entry = e
      BY <1>1 DEF LoadNext
    <2>3. LatchIs(e)'
      <3>1. Took("PlayUrl") => Head(Cmds).load.entry = e
        BY <1>5, <2>2 DEF Took
      <3> QED
        BY <1>8, <1>13, <1>15, <2>2, <3>1
    <2>4. \A i \in DOMAIN Cmds' : Cmds'[i].op = "PlayUrl" => Cmds'[i].load.entry = e
      <3> DEFINE P == {x \in Command : x.op = "PlayUrl" => x.load.entry = e}
      <3>1. \A i \in DOMAIN Cmds : Cmds[i] \in P
        BY <2>2, RowTypes
      <3>2. \A i \in DOMAIN Cmds' : Cmds'[i] \in P
        BY <3>1, AskedMoves
      <3> QED
        BY <3>2
    <2> QED
      BY <1>1, <2>1, <2>2, <2>3, <2>4 DEF LoadNext
  <1>20. RowNext'
    <2> SUFFICES ASSUME SpinePc \in {"idle", "prefetch", "todo", "advanced"}, NoEof' PROVE Row'
      BY <1>1 DEF RowNext
    <2>1. Row
      BY <1>1, <1>14 DEF RowNext
    <2>2. ~Lands
      BY <1>10, <1>12
    <2> QED
      BY <1>2, <1>8, <1>13, <2>1, <2>2 DEF Row
  <1>21. ASSUME \A k : EofAt(k)' => EofAt(k), ~Lands PROVE Ending'
    <2>1. EndsBare'
      <3> SUFFICES ASSUME ~NoEof' PROVE Bare' /\ ~Pending("PlayUrl")' /\ ~Pending("PrefetchContinuation")'
        BY DEF EndsBare
      <3>1. ~NoEof
        BY <1>12, <1>21
      <3> QED
        BY <1>1, <1>3, <1>9, <1>13, <3>1 DEF Ending, EndsBare
    <2>2. \A k : (EofAt(k)' <=> EofAt(k)) /\ (LandedAt(k)' <=> LandedAt(k))
      BY <1>12, <1>14, <1>21
    <2>3. EndsOrder'
      BY <1>1, <2>2 DEF Ending, EndsOrder
    <2>4. EndsSilent'
      <3> SUFFICES ASSUME NEW k, EofAt(k)', ~LandedAt(k)' PROVE Latch' = NoLoad
        BY DEF EndsSilent
      <3>1. Latch = NoLoad /\ ~Pending("PlayUrl")
        BY <1>1, <1>12, <2>2 DEF Ending, EndsSilent, EndsBare
      <3> QED
        BY <1>5, <1>8, <1>21, <3>1
    <2>5. LandsNext'
      <3> SUFFICES ASSUME NEW k, LandedAt(k)'
                   PROVE  /\ SpinePc \in {"idle", "prefetch"}
                          /\ \E e : /\ PlayingAt(k + 1, e)' /\ LatchIs(e)' /\ Promised(e)'
                                    /\ \/ Warmed(e)'
                                       \/ SpinePc = "prefetch" /\ task[Spine].item = e /\ Granted(Spine)'
        BY <1>1 DEF LandsNext
      <3>1. LandedAt(k)
        BY <2>2
      <3>2. PICK e : /\ PlayingAt(k + 1, e) /\ LatchIs(e) /\ Promised(e)
                     /\ Warmed(e) \/ (SpinePc = "prefetch" /\ task[Spine].item = e /\ Granted(Spine))
        BY <1>1, <3>1 DEF Ending, LandsNext
      <3>3. SpinePc \in {"idle", "prefetch"}
        BY <1>1, <3>1 DEF Ending, LandsNext
      <3>4. PlayingAt(k + 1, e)'
        BY <1>14, <3>1, <3>2
      <3>5. LatchIs(e)'
        BY <1>8, <1>13, <1>21, <3>2, <3>3
      <3> QED
        BY <1>2, <1>3, <3>2, <3>3, <3>4, <3>5
    <2> QED
      BY <2>1, <2>3, <2>4, <2>5 DEF Ending
  <1>22. CASE Lands
    <2>1. PICK n : n = Len(ring) + 1
      OBVIOUS
    <2>2. /\ ~Bare /\ Bare' /\ Latch' = Warmth.load /\ Latch' # NoLoad /\ Cmds' = << >>
          /\ LandedAt(n)' /\ EofAt(n)' /\ \A k : EofAt(k)' => k = n
      <3>1. /\ ~Bare /\ Bare' /\ Latch' = Warmth.load /\ Latch' # NoLoad /\ Cmds' = << >>
            /\ LandedAt(n)' /\ \A k : EofAt(k)' => EofAt(k) \/ k = n
        BY <1>10, <1>22, <2>1
      <3>2. NoEof
        BY <1>1, <3>1 DEF Ending, EndsBare
      <3> QED
        BY <1>12, <3>1, <3>2
    <2>3. EndsBare' /\ EndsSilent'
      BY <2>2 DEF EndsBare, EndsSilent, Pending
    <2>4. EndsOrder'
      <3> SUFFICES ASSUME NEW k, NEW j, EofAt(k)', EofAt(j)', k < j PROVE FALSE
        BY DEF EndsOrder
      <3>1. k = n /\ j = n /\ n \in Nat
        BY <2>1, <2>2, RowTypes
      <3> QED
        BY <3>1
    <2>5. PICK e : /\ Parked(e) /\ Promised(e) /\ SpinePc \in {"idle", "prefetch"}
                   /\ Warmed(e) \/ (SpinePc = "prefetch" /\ task[Spine].item = e /\ Granted(Spine))
      BY <1>1, <2>2 DEF WarmNext
    <2>6. LatchIs(e)' /\ EntryOf(Latch') = e
      BY <1>13, <2>2, <2>5 DEF Parked, EntryOf
    <2>7. PlayingAt(n + 1, e)'
      BY <1>10, <1>22, <2>1, <2>6
    <2>8. LandsNext'
      <3> SUFFICES ASSUME NEW k, LandedAt(k)'
                   PROVE  /\ SpinePc \in {"idle", "prefetch"}
                          /\ \E x : /\ PlayingAt(k + 1, x)' /\ LatchIs(x)' /\ Promised(x)'
                                    /\ \/ Warmed(x)'
                                       \/ SpinePc = "prefetch" /\ task[Spine].item = x /\ Granted(Spine)'
        BY <1>1 DEF LandsNext
      <3>1. k = n
        BY <1>12, <2>2
      <3>2. PlayingAt(k + 1, e)'
        BY <2>7, <3>1
      <3> QED
        BY <1>2, <1>3, <2>5, <2>6, <3>2
    <2>9. Ending'
      BY <2>3, <2>4, <2>8 DEF Ending
    <2> QED
      BY <1>11, <1>17, <1>18, <1>19, <1>20, <2>9 DEF InvC
  <1>23. CASE Ends /\ ~NoNewEof /\ ~Lands
    <2>1. PICK n : n = Len(ring) + 1
      OBVIOUS
    <2>2. /\ Latch # NoLoad /\ Latch' = NoLoad /\ Bare' /\ Cmds' = << >> /\ ~LandedAt(n)'
          /\ \A k : EofAt(k)' => EofAt(k) \/ k = n
      BY <1>10, <1>23, <2>1
    <2>3. \A k : EofAt(k) => LandedAt(k) /\ LandedAt(k)' /\ k < n
      <3> SUFFICES ASSUME NEW k, EofAt(k) PROVE LandedAt(k) /\ LandedAt(k)' /\ k < n
        OBVIOUS
      <3>1. LandedAt(k) /\ LandedAt(k)'
        BY <1>1, <1>14, <2>2 DEF Ending, EndsSilent
      <3>2. k \in 1..Len(ring)
        BY <1>10, <1>23, RowTypes DEF EofAt, FlightLen
      <3> QED
        BY <2>1, <3>1, <3>2, RowTypes
    <2>4. EndsBare' /\ EndsSilent'
      BY <2>2 DEF EndsBare, EndsSilent, Pending
    <2>5. EndsOrder'
      <3> SUFFICES ASSUME NEW k, NEW j, EofAt(k)', EofAt(j)', k < j PROVE LandedAt(k)' /\ ~LandedAt(j)'
        BY DEF EndsOrder
      <3>1. n \in Nat
        BY <2>1, RowTypes
      <3>2. CASE EofAt(j)
        <4>1. j < n /\ j \in Nat
          BY <2>3, <3>2, RowTypes DEF EofAt, FlightLen
        <4>2. EofAt(k)
          <5>1. k # n
            BY <3>1, <4>1
          <5> QED
            BY <2>2, <5>1
        <4> QED
          BY <1>1, <2>3, <3>2, <4>2 DEF Ending, EndsOrder
      <3>3. CASE ~EofAt(j)
        <4>1. j = n
          BY <2>2, <3>3
        <4>2. k # n
          BY <3>1, <4>1
        <4> QED
          BY <2>2, <2>3, <4>1, <4>2
      <3> QED
        BY <3>2, <3>3
    <2>6. LandsNext'
      <3> SUFFICES ASSUME NEW k, LandedAt(k)'
                   PROVE  /\ SpinePc \in {"idle", "prefetch"}
                          /\ \E e : /\ PlayingAt(k + 1, e)' /\ LatchIs(e)' /\ Promised(e)'
                                    /\ \/ Warmed(e)'
                                       \/ SpinePc = "prefetch" /\ task[Spine].item = e /\ Granted(Spine)'
        BY <1>1 DEF LandsNext
      <3>1. LandedAt(k)
        BY <1>12, <2>2, <2>3
      <3>2. PICK e : /\ PlayingAt(k + 1, e) /\ LatchIs(e) /\ Promised(e)
                     /\ Warmed(e) \/ (SpinePc = "prefetch" /\ task[Spine].item = e /\ Granted(Spine))
        BY <1>1, <3>1 DEF Ending, LandsNext
      <3>3. SpinePc \in {"idle", "prefetch"}
        BY <1>1, <3>1 DEF Ending, LandsNext
      <3>4. PlayingAt(k + 1, e)' /\ LatchIs(e)'
        BY <1>13, <1>14, <2>2, <3>1, <3>2
      <3> QED
        BY <1>2, <1>3, <3>2, <3>3, <3>4
    <2>7. Ending'
      BY <2>4, <2>5, <2>6 DEF Ending
    <2> QED
      BY <1>11, <1>17, <1>18, <1>19, <1>20, <2>7 DEF InvC
  <1>24. CASE NoNewEof /\ ~Lands
    <2>1. Ending'
      BY <1>21, <1>24 DEF NoNewEof
    <2> QED
      BY <1>11, <1>17, <1>18, <1>19, <1>20, <2>1 DEF InvC
  <1> QED
    BY <1>4, <1>22, <1>23, <1>24

LEMMA DeckKeepsS ==
    ASSUME Types, Types', FlightInv, AskInv, DeckMoves,
           UNCHANGED <<queueVars, slot, fade, task, contested>>, SpineQuiet, InvS
    PROVE  InvS'
  <1>1. /\ UNCHANGED <<queue, current, modes, slot, fade, task, contested, ClientPc, WillDisarm>>
        /\ Listed /\ WarmKnown /\ RowKnown /\ ChoiceKnown /\ ArmsDisarmed /\ Afresh /\ NoneGone
        /\ SpinePc = "idle" /\ ~EndQueued(deck)
    BY DEF queueVars, InvS, Listed, ClientPc, WillDisarm, SpineQuiet
  <1>2. /\ \A e : (HereIs(e)' <=> HereIs(e)) /\ (Promised(e)' <=> Promised(e)) /\ (Warmed(e)' <=> Warmed(e))
        /\ Distinct(queue)' <=> Distinct(queue)
    BY <1>1, StillQueue
  <1>3. /\ Granted(Client) => Granted(Client)'
        /\ Granted(Client)' => \/ Granted(Client)
                               \/ Cmds # << >> /\ Head(Cmds).by = Client /\ Took(Head(Cmds).op)
        /\ NoneGone'
        /\ \A op : Pending(op) => Pending(op)' \/ Took(op)
    BY <1>1, AskedMoves
  <1>4. \A op : Took(op) => Head(Cmds) = Cmds[1] /\ 1 \in DOMAIN Cmds
    BY RowTypes, TailShape DEF Took
  <1>5. \A i \in DOMAIN Cmds :
              /\ Cmds[i].by \in {Client, Fader} /\ reply[Cmds[i].by] = "wait"
              /\ Cmds[i].op # "PrefetchContinuation"
              /\ Cmds[i].op = "PlayUrl" =>
                    /\ Cmds[i].by = Client /\ ClientPc = "loading"
                    /\ Cmds[i].load.entry = task[Client].item
              /\ ClientPc = "loading" /\ Cmds[i].by = Client => Cmds[i].op = "PlayUrl"
    BY <1>1, ClientOnly
  <1>6. \A c : (\E i \in DOMAIN Out' : Out'[i] = Reply(c, TRUE)) => Granted(c)'
    BY DEF Granted
  <1>7. ~Lands /\ ~Ends
    BY <1>1 DEF Lands, Ends
  <1>8. \/ Latch' = Latch \/ Latch' = NoLoad
        \/ /\ ClientPc = "loading" /\ Granted(Client)' /\ Bare'
           /\ \E e : task[Client].item = e /\ LatchIs(e)'
    <2>1. CASE /\ Took("PlayUrl") /\ Bare' /\ Latch' = Head(Cmds).load
               /\ \E i \in DOMAIN Out' : Out'[i] = Reply(Head(Cmds).by, TRUE)
      <3>1. Head(Cmds).by = Client /\ ClientPc = "loading" /\ Head(Cmds).load.entry = task[Client].item
        BY <1>4, <1>5, <2>1 DEF Took
      <3>2. PICK e : e = task[Client].item
        OBVIOUS
      <3>3. LatchIs(e)'
        BY <2>1, <3>1, <3>2 DEF LatchIs
      <3> QED
        BY <1>6, <2>1, <3>1, <3>2, <3>3
    <2> QED
      BY <1>7, <2>1, LatchMoves
  <1>9. Warmth' = Warmth \/ Bare'
    <2>1. ~Took("PrefetchContinuation")
      BY <1>4, <1>5 DEF Took
    <2> QED
      BY <2>1, LatchMoves
  <1>10. /\ Warmth' = Warmth => /\ Bare' <=> Bare
                                /\ \A e : Parked(e)' <=> Parked(e)
         /\ Latch' = Latch => \A e : LatchIs(e)' <=> LatchIs(e)
         /\ Latch' = NoLoad => \A e : LatchIs(e)'
    BY DEF Bare, Parked, LatchIs
  <1>11. Listed'
    BY <1>1, <1>2, <1>3 DEF Listed
  <1>12. WarmKnown'
    <2> SUFFICES ASSUME contested = "no", ~Bare'
                 PROVE  WillDrop' \/ \E e : Parked(e)' /\ Warmed(e)' /\ (Promised(e)' \/ WillDisarm)
      BY <1>1 DEF WarmKnown
    <2>1. ~Bare /\ Warmth' = Warmth
      BY <1>9, <1>10
    <2>2. CASE WillDrop
      <3>1. ~Took("DropWarm") /\ ~Took("Stop") /\ ~Took("PlayUrl")
        BY LatchMoves
      <3> QED
        BY <1>3, <2>2, <3>1 DEF WillDrop
    <2>3. ASSUME NEW e, Parked(e), Warmed(e), Promised(e) \/ WillDisarm
          PROVE  Parked(e)' /\ Warmed(e)' /\ (Promised(e)' \/ WillDisarm)
      BY <1>2, <1>10, <2>1, <2>3
    <2> QED
      BY <1>1, <2>1, <2>2, <2>3 DEF WarmKnown
  <1>13. RowKnown'
    <2>1. Row => Row' \/ (ClientPc = "loading" /\ Granted(Client)')
      BY <1>2, <1>8, <1>10 DEF Row
    <2>2. Pending("Stop") => Pending("Stop")' \/ Row'
      BY <1>3, LatchMoves DEF Row
    <2> QED
      BY <1>1, <1>3, <2>1, <2>2 DEF RowKnown
  <1>14. ChoiceKnown'
    <2>1. ASSUME ClientPc = "loading", Granted(Client)'
          PROVE  Bare' /\ \E e : task[Client].item = e /\ LatchIs(e)'
      <3>1. CASE Granted(Client)
        <4>1. Bare /\ Bare' /\ \E e : task[Client].item = e /\ LatchIs(e)
          BY <1>1, <1>9, <1>10, <2>1, <3>1 DEF ChoiceKnown
        <4> QED
          BY <1>8, <1>10, <4>1
      <3>2. CASE ~Granted(Client)
        <4>1. Cmds # << >> /\ Head(Cmds).by = Client /\ Took(Head(Cmds).op)
          BY <1>3, <2>1, <3>2
        <4>2. Took("PlayUrl")
          BY <1>4, <1>5, <2>1, <4>1
        <4>3. Bare'
          BY <4>2, LatchMoves
        <4>4. reply' = reply /\ Out = << >> /\ DOMAIN Out = {}
          BY <4>2 DEF Took
        <4>5. PICK i \in DOMAIN Out' : Out'[i] = Reply(Client, TRUE)
          BY <2>1, <3>2, <4>4 DEF Granted
        <4>6. Loads
          <5>1. Cmds' # Cmds
            BY <4>2, RowTypes, TailShape DEF Took
          <5> QED
            BY <4>1, <4>2, <4>4, <5>1 DEF DeckMoves, Sends, Answers, Parks, DropsWarm, Pauses, Stops, Positions, Lands,
                                    Ends, Forgets, Rests, Took, Free, Cmds
        <4>7. Latch' = Head(Cmds).load
          <5>1. CASE Out' = <<Reply(Head(Cmds).by, FALSE)>>
            <6>1. \A r, q : q = <<r>> => DOMAIN q = {1} /\ q[1] = r
              OBVIOUS
            <6>2. DOMAIN Out' = {1} /\ Out'[1] = Reply(Head(Cmds).by, FALSE)
              BY <5>1, <6>1
            <6> QED
              BY <4>5, <6>2 DEF Reply
          <5> QED
            BY <4>6, <5>1 DEF Loads
        <4>8. PICK e : e = task[Client].item
          OBVIOUS
        <4>9. LatchIs(e)'
          BY <1>4, <1>5, <4>2, <4>7, <4>8 DEF LatchIs, Took
        <4> QED
          BY <4>3, <4>8, <4>9
      <3> QED
        BY <3>1, <3>2
    <2> QED
      BY <1>1, <1>2, <2>1 DEF ChoiceKnown
  <1>15. ArmsDisarmed' /\ Afresh'
    BY <1>1 DEF ArmsDisarmed, Afresh
  <1> QED
    BY <1>11, <1>12, <1>13, <1>14, <1>15 DEF InvS

\* With nobody at work the two halves say the same.
LEMMA Bridge ==
    ASSUME Types, AskInv, Orderly, SpineQuiet, ClientQuiet
    PROVE  InvS <=> InvC
  <1>1. /\ SpinePc = "idle" /\ ClientPc = "idle" /\ NoEof /\ (\A k : ~EofAt(k)) /\ (\A k : ~LandedAt(k))
    BY NoEofAt DEF SpineQuiet, ClientQuiet
  <1>2. NoneGone => Cmds = << >> /\ \A op : ~Pending(op)
    <2> SUFFICES ASSUME NoneGone PROVE Cmds = << >> /\ \A op : ~Pending(op)
      OBVIOUS
    <2>1. ASSUME NEW i \in DOMAIN Cmds PROVE FALSE
      <3>1. Asked(Cmds[i]) /\ Cmds[i].by \in {Client, Fader}
        BY <1>1, ClientOnly DEF AskInv, CmdsAsked
      <3> QED
        BY <3>1, TasksDiffer DEF Asked, AskedByClient, AskedByFader, At, ClientQuiet, ClientPc
    <2>2. Cmds = << >>
      <3>1. Cmds \in Seq(Command)
        BY RowTypes
      <3>2. Cmds # << >> => 1 \in DOMAIN Cmds
        BY <3>1, TailShape
      <3> QED
        BY <2>1, <3>2
    <2> QED
      BY <2>1, <2>2 DEF Pending
  <1>3. ASSUME InvS PROVE InvC
    <2>1. Listed /\ WarmKnown /\ RowKnown /\ Afresh /\ \A op : ~Pending(op)
      BY <1>2, <1>3 DEF InvS, Listed
    <2>2. contested = "no" /\ Calm
      BY <1>1, <2>1 DEF Afresh, Orderly, Calm
    <2>3. Ending
      BY <1>1 DEF Ending, EndsBare, EndsOrder, EndsSilent, LandsNext
    <2>4. WarmNext
      BY <1>1, <2>1, <2>2 DEF WarmNext, WarmKnown, WillDrop, WillDisarm
    <2>5. AdvanceNext /\ LoadNext
      BY <1>1 DEF AdvanceNext, LoadNext
    <2>6. RowNext
      BY <1>1, <2>1, <2>2 DEF RowNext, RowKnown
    <2> QED
      BY <2>1, <2>2, <2>3, <2>4, <2>5, <2>6 DEF InvC
  <1>4. ASSUME InvC PROVE InvS
    <2>1. Listed /\ contested = "no" /\ WarmNext /\ RowNext
      BY <1>4 DEF InvC, Calm
    <2>2. WarmKnown
      BY <1>1, <2>1 DEF WarmNext, WarmKnown
    <2>3. RowKnown
      BY <1>1, <2>1 DEF RowNext, RowKnown
    <2>4. ChoiceKnown /\ ArmsDisarmed /\ Afresh
      BY <1>1, <2>1 DEF ChoiceKnown, ArmsDisarmed, Afresh
    <2> QED
      BY <2>1, <2>2, <2>3, <2>4 DEF InvS
  <1> QED
    BY <1>3, <1>4

-----------------------------------------------------------------------------
(* The spine goes on while the client and the fade keep still. *)

LEMMA NotAsking ==
    ASSUME UNCHANGED <<actor, cmds, reply>>
    PROVE  /\ NoneGone' <=> NoneGone
           /\ \A op : Pending(op)' <=> Pending(op)
           /\ \A c : Granted(c)' <=> Granted(c)
           /\ Cmds' = Cmds /\ Out' = Out
  <1>1. Cmds' = Cmds /\ Out' = Out /\ reply' = reply
    BY DEF Cmds, Out
  <1>2. NoneGone' <=> NoneGone
    BY <1>1 DEF NoneGone
  <1>3. \A op : Pending(op)' <=> Pending(op)
    BY <1>1 DEF Pending
  <1>4. \A c : Granted(c)' <=> Granted(c)
    BY <1>1 DEF Granted
  <1> QED
    BY <1>1, <1>2, <1>3, <1>4

LEMMA Asking ==
    ASSUME Types, AskInv, UNCHANGED actor, NEW c \in {Spine, Client, Fader}, NEW op, NEW l, Request(deck, c, op, l)
    PROVE  /\ NoneGone => NoneGone'
           /\ \A o : Pending(o)' <=> Pending(o) \/ o = op
           /\ ~Granted(c)'
           /\ \A b \in Caller : b # c => (Granted(b)' <=> Granted(b))
           /\ \A i \in DOMAIN Cmds' : (i \in DOMAIN Cmds /\ Cmds'[i] = Cmds[i]) \/ (Cmds'[i].op = op /\ Cmds'[i].load = l)
  <1> DEFINE x == [op |-> op, load |-> l, by |-> c]
  <1>1. /\ reply[c] # "wait" /\ reply'[c] = "wait" /\ (\A b \in Caller : b # c => reply'[b] = reply[b])
        /\ Cmds' = Append(Cmds, x) /\ Cmds \in Seq(Command) /\ Out' = Out /\ c # Gone
    BY RowTypes, TasksDiffer DEF Request, Cmds, Out
  <1>2. x.op = op /\ x.load = l /\ x.by = c
    OBVIOUS
  <1> HIDE DEF x
  <1>3. /\ \A i \in DOMAIN Cmds' : (i \in DOMAIN Cmds /\ Cmds'[i] = Cmds[i]) \/ (i = Len(Cmds) + 1 /\ Cmds'[i] = x)
        /\ \A i \in DOMAIN Cmds : i \in DOMAIN Cmds' /\ Cmds'[i] = Cmds[i]
        /\ Len(Cmds) + 1 \in DOMAIN Cmds' /\ Cmds'[Len(Cmds) + 1] = x
    BY <1>1, AppendProperties
  <1>4. NoneGone => NoneGone'
    BY <1>1, <1>2, <1>3 DEF NoneGone
  <1>5. \A o : Pending(o)' <=> Pending(o) \/ o = op
    BY <1>2, <1>3 DEF Pending
  <1>6. ~Granted(c)'
    <2>1. ASSUME NEW i \in DOMAIN Out, Out[i] = Reply(c, TRUE) PROVE FALSE
      <3>1. IsReply(Out[i]) /\ Out[i].to = c
        BY <2>1 DEF Reply, IsReply
      <3> QED
        BY <1>1, <3>1 DEF AskInv, RepliesOwed
    <2> QED
      BY <1>1, <2>1 DEF Granted
  <1>7. \A b \in Caller : b # c => (Granted(b)' <=> Granted(b))
    BY <1>1 DEF Granted
  <1> QED
    BY <1>2, <1>3, <1>4, <1>5, <1>6, <1>7

\* Who has an answer is owed none.
LEMMA Given ==
    ASSUME AskInv, NEW c \in {Spine, Client}, reply[c] # "wait"
    PROVE  Granted(c) <=> reply[c] = "ok"
  <1>1. ASSUME NEW i \in DOMAIN Out, Out[i] = Reply(c, TRUE) PROVE FALSE
    <2>1. IsReply(Out[i]) /\ Out[i].to = c /\ c # Gone
      BY <1>1, TasksDiffer DEF Reply, IsReply
    <2> QED
      BY <2>1 DEF AskInv, RepliesOwed
  <1> QED
    BY <1>1 DEF Granted

\* The deck has nothing and no end is on its way: whatever the spine makes of
\* the row is right.
LEMMA SilentC ==
    ASSUME Listed', Calm', Bare', NoEof', Latch' = NoLoad,
           \/ SpinePc' \in {"todo", "advanced"}
           \/ SpinePc' = "goto" /\ ~Landed'
    PROVE  InvC'
  <1>1. (\A k : ~EofAt(k)') /\ (\A k : ~LandedAt(k)')
    BY DEF NoEof, EofAt, LandedAt, IsLanded
  <1>2. Ending'
    BY <1>1 DEF Ending, EndsBare, EndsOrder, EndsSilent, LandsNext
  <1>3. WarmNext' /\ AdvanceNext' /\ LoadNext' /\ RowNext'
    BY DEF WarmNext, AdvanceNext, LoadNext, RowNext, Row
  <1> QED
    BY <1>2, <1>3 DEF InvC

\* What an advance that does not land in another track has to go on.
LEMMA AdvanceSilent ==
    ASSUME InvC, SpinePc \in {"advance", "goto"}, ~Landed
    PROVE  Latch = NoLoad /\ NoEof /\ Bare
  BY DEF InvC, AdvanceNext, WarmNext

LEMMA HaltC ==
    ASSUME Types, AskInv, InvC, UNCHANGED contested, HaltFailedAdvance
    PROVE  InvC'
  <1>1. /\ UNCHANGED <<actor, ring, cmds, reply, queue>> /\ Goto(Spine, "advanced") /\ At(Spine, "advance")
        /\ FailsAfter >= MaxFailures
    BY DEF HaltFailedAdvance, DeckQuiet, NoRequest
  <1>2. ~Landed
    <2>1. MaxFailures \in Nat \ {0}
      BY PlaybackAssumption
    <2>2. Errored
      BY <1>1, <2>1 DEF FailsAfter
    <2> QED
      BY <2>2 DEF Errored, Landed
  <1>3. SpinePc' = "advanced" /\ SpinePc = "advance"
    BY <1>1, TaskMoves, TasksDiffer DEF Types, SpinePc, At
  <1>4. Latch = NoLoad /\ NoEof /\ Bare
    BY <1>2, <1>3, AdvanceSilent
  <1>5. Listed' /\ Calm'
    BY <1>1, <1>3, NotAsking, StillQueue DEF InvC, Listed, Calm
  <1> QED
    BY <1>1, <1>3, <1>4, <1>5, StillDeck, SilentC

LEMMA DrainC ==
    ASSUME Types, AskInv, InvC, UNCHANGED contested, DrainTerminal
    PROVE  InvC'
  <1>1. /\ UNCHANGED <<actor, ring, cmds, reply, queue>> /\ Goto(Spine, "advanced")
        /\ \/ At(Spine, "goto") /\ Target = 0
           \/ At(Spine, "orphan")
    BY DEF DrainTerminal, DeckQuiet, NoRequest
  <1>2. SpinePc' = "advanced" /\ SpinePc = "goto" /\ Target = 0
    BY <1>1, TaskMoves, TasksDiffer DEF Types, SpinePc, At, InvC, Calm
  <1>3. ~Landed
    <2>1. 0 \notin DOMAIN queue
      BY DEF Types, QueueTypes
    <2> QED
      BY <1>2, <2>1 DEF InvC, AdvanceNext
  <1>4. Latch = NoLoad /\ NoEof /\ Bare
    BY <1>2, <1>3, AdvanceSilent
  <1>5. Listed' /\ Calm'
    BY <1>1, <1>2, NotAsking, StillQueue DEF InvC, Listed, Calm
  <1> QED
    BY <1>1, <1>2, <1>4, <1>5, StillDeck, SilentC

LEMMA NowhereC ==
    ASSUME Types, InvC, LandedNowhere
    PROVE  FALSE
  <1>1. SpinePc = "goto" /\ Target = 0 /\ Landed
    BY DEF LandedNowhere, SpinePc, At
  <1>2. 0 \notin DOMAIN queue
    BY DEF Types, QueueTypes
  <1> QED
    BY <1>1, <1>2 DEF InvC, AdvanceNext

\* An advance under way has left the deck bare, and no landing behind it.
LEMMA EndingStays ==
    ASSUME InvC, UNCHANGED <<actor, ring>>, SpinePc \notin {"idle", "prefetch"},
           Pending("PlayUrl")' => Pending("PlayUrl"),
           Pending("PrefetchContinuation")' => Pending("PrefetchContinuation")
    PROVE  Bare' /\ Ending' /\ \A k : ~LandedAt(k)'
  <1>1. Bare /\ \A k : ~LandedAt(k)
    BY DEF InvC, WarmNext, Ending, LandsNext
  <1>2. Bare' /\ \A k : ~LandedAt(k)'
    BY <1>1, StillDeck
  <1>3. EndsBare'
    BY <1>2, StillDeck DEF InvC, Ending, EndsBare
  <1>4. EndsOrder' /\ EndsSilent'
    BY <1>1, <1>2, StillDeck DEF InvC, Ending, EndsOrder, EndsSilent
  <1>5. LandsNext'
    BY <1>2 DEF LandsNext
  <1> QED
    BY <1>2, <1>3, <1>4, <1>5 DEF Ending

LEMMA CommitC ==
    ASSUME Types, AskInv, InvC, UNCHANGED contested, CommitLandedAdvance
    PROVE  InvC'
  <1>1. /\ UNCHANGED <<actor, ring, cmds, reply, queue>> /\ Continue(Spine, Reschedule) /\ SpinePc = "goto"
        /\ Landed /\ current' = Target
    BY DEF CommitLandedAdvance, DeckQuiet, NoRequest, At, SpinePc
  <1>2. SpinePc' = "todo"
    <2>1. Reschedule # << >>
      BY DEF Reschedule
    <2> QED
      BY <1>1, <2>1, TaskMoves, TasksDiffer DEF Types, SpinePc
  <1>3. PICK e : LatchIs(e) /\ Target \in DOMAIN queue /\ queue[Target] = e
    BY <1>1 DEF InvC, AdvanceNext
  <1>4. Row'
    <2>1. OnRow' /\ queue'[current'] = e
      BY <1>1, <1>3 DEF OnRow
    <2>2. LatchIs(e)'
      BY <1>1, <1>3, StillDeck
    <2> QED
      BY <2>1, <2>2 DEF Row, HereIs
  <1>5. Bare' /\ Ending' /\ \A k : ~LandedAt(k)'
    BY <1>1, NotAsking, EndingStays
  <1>6. Listed' /\ Calm'
    BY <1>1, <1>2, NotAsking, StillQueue DEF InvC, Listed, Calm
  <1>7. WarmNext' /\ AdvanceNext' /\ LoadNext' /\ RowNext'
    BY <1>2, <1>4, <1>5 DEF WarmNext, AdvanceNext, LoadNext, RowNext
  <1> QED
    BY <1>5, <1>6, <1>7 DEF InvC

LEMMA AdvanceLoadsC ==
    ASSUME Types, AskInv, ClientQuiet, InvC, UNCHANGED contested, AdvanceLoads
    PROVE  InvC'
  <1>1. /\ UNCHANGED <<actor, ring, queue>> /\ SpinePc = "goto" /\ ~(Landed /\ SlotNamesTarget)
        /\ IF Target \in DOMAIN queue
           THEN AskLoad(Spine, "PlayUrl", queue[Target]) /\ Goto(Spine, "loading")
           ELSE NoRequest /\ Goto(Spine, "advanced")
    BY DEF AdvanceLoads, DeckQuiet, queueVars, At, SpinePc
  <1>2. ~Landed
    BY <1>1 DEF InvC, AdvanceNext, SlotNamesTarget, Warmed
  <1>3. Latch' = NoLoad /\ NoEof' /\ Bare'
    BY <1>1, <1>2, AdvanceSilent, StillDeck
  <1>4. CASE Target \in DOMAIN queue
    <2>1. PICK e : e = queue[Target]
      OBVIOUS
    <2>2. PICK l : l.entry = e /\ Request(deck, Spine, "PlayUrl", l)
      <3> DEFINE l == [id |-> loads + 1, entry |-> queue[Target]]
      <3>1. l.entry = e /\ Request(deck, Spine, "PlayUrl", l)
        BY <1>1, <1>4, <2>1 DEF AskLoad, RequestLoad, NewLoad
      <3> QED
        BY <3>1
    <2>3. /\ SpinePc' = "loading" /\ Target' = Target
      BY <1>1, <1>4, TaskMoves, TasksDiffer DEF Types, SpinePc, Target
    <2>4. /\ NoneGone => NoneGone'
          /\ \A i \in DOMAIN Cmds' : (i \in DOMAIN Cmds /\ Cmds'[i] = Cmds[i]) \/ (Cmds'[i].op = "PlayUrl" /\ Cmds'[i].load = l)
      BY <1>1, <2>2, Asking
    <2>5. \A i \in DOMAIN Cmds : FALSE
      BY <1>1, SpineOnly DEF InvC, Listed
    <2>6. LoadNext'
      <3>1. LatchIs(e)'
        BY <1>3 DEF LatchIs
      <3>2. ASSUME NEW i \in DOMAIN Cmds' PROVE Cmds'[i].load.entry = e
        BY <2>2, <2>4, <2>5
      <3>3. Target' \in DOMAIN queue' /\ queue'[Target'] = e
        BY <1>1, <1>4, <2>1, <2>3
      <3> QED
        BY <1>3, <2>3, <3>1, <3>2, <3>3 DEF LoadNext
    <2>7. Listed' /\ Calm'
      BY <1>1, <2>3, <2>4, StillQueue DEF InvC, Listed, Calm
    <2>8. Ending'
      BY <1>3, NoEofAt DEF Ending, EndsBare, EndsOrder, EndsSilent, LandsNext, NoEof, EofAt, LandedAt, IsLanded
    <2>9. WarmNext' /\ AdvanceNext' /\ RowNext'
      BY <1>3, <2>3 DEF WarmNext, AdvanceNext, RowNext
    <2> QED
      BY <2>6, <2>7, <2>8, <2>9 DEF InvC
  <1>5. CASE Target \notin DOMAIN queue
    <2>1. SpinePc' = "advanced" /\ UNCHANGED <<cmds, reply>>
      BY <1>1, <1>5, TaskMoves, TasksDiffer DEF Types, SpinePc, NoRequest
    <2>2. Listed' /\ Calm'
      BY <1>1, <2>1, NotAsking, StillQueue DEF InvC, Listed, Calm
    <2> QED
      BY <1>3, <2>1, <2>2, SilentC
  <1> QED
    BY <1>4, <1>5

LEMMA ReturnsC ==
    ASSUME Types, AskInv, InvC, UNCHANGED contested, AdvanceReturns
    PROVE  InvC'
  <1>1. /\ UNCHANGED <<actor, ring, cmds, reply, queue, current>> /\ SpinePc = "advanced"
        /\ task' = [task EXCEPT ![Spine] = NoTask]
    BY DEF AdvanceReturns, DeckQuiet, NoRequest, At, SpinePc, queueVars
  <1>2. SpinePc' = "idle"
    BY <1>1, TaskMoves, TasksDiffer, NoTaskType DEF Types, SpinePc
  <1>3. Bare' /\ Ending' /\ \A k : ~LandedAt(k)'
    BY <1>1, NotAsking, EndingStays
  <1>4. Listed' /\ Calm'
    BY <1>1, <1>2, NotAsking, StillQueue DEF InvC, Listed, Calm
  <1>5. NoEof' => Row'
    BY <1>1, StillDeck, StillQueue DEF InvC, RowNext, Row
  <1>6. WarmNext' /\ AdvanceNext' /\ LoadNext' /\ RowNext'
    BY <1>2, <1>3, <1>5 DEF WarmNext, AdvanceNext, LoadNext, RowNext
  <1> QED
    BY <1>3, <1>4, <1>6 DEF InvC

LEMMA LoadReturnsC ==
    ASSUME Types, AskInv, InvC, UNCHANGED contested, LoadReturns(Spine)
    PROVE  InvC'
  <1>1. /\ UNCHANGED <<actor, ring, cmds, reply, queue>> /\ SpinePc = "loading"
        /\ IF reply[Spine] = "ok" THEN current' = Target /\ Continue(Spine, Reschedule)
           ELSE Continue(Spine, << >>)
        /\ reply[Spine] # "wait"
    BY DEF LoadReturns, NoRequest, At, SpinePc, Target, Answered
  <1>2. CASE reply[Spine] = "ok"
    <2>1. SpinePc' = "todo"
      <3>1. Reschedule # << >>
        BY DEF Reschedule
      <3> QED
        BY <1>1, <1>2, <3>1, TaskMoves, TasksDiffer DEF Types, SpinePc
    <2>2. PICK e : Target \in DOMAIN queue /\ queue[Target] = e /\ LatchIs(e)
      BY <1>1 DEF InvC, LoadNext
    <2>3. Row'
      <3>1. OnRow' /\ queue'[current'] = e
        BY <1>1, <1>2, <2>2 DEF OnRow
      <3>2. LatchIs(e)'
        BY <1>1, <2>2, StillDeck
      <3> QED
        BY <3>1, <3>2 DEF Row, HereIs
    <2>4. Bare' /\ Ending' /\ \A k : ~LandedAt(k)'
      BY <1>1, NotAsking, EndingStays
    <2>5. Listed' /\ Calm'
      BY <1>1, <2>1, NotAsking, StillQueue DEF InvC, Listed, Calm
    <2>6. WarmNext' /\ AdvanceNext' /\ LoadNext' /\ RowNext'
      BY <2>1, <2>3, <2>4 DEF WarmNext, AdvanceNext, LoadNext, RowNext
    <2> QED
      BY <2>4, <2>5, <2>6 DEF InvC
  <1>3. CASE reply[Spine] # "ok"
    <2>1. SpinePc' = "advanced"
      BY <1>1, <1>3, TaskMoves, TasksDiffer DEF Types, SpinePc
    <2>2. ~Granted(Spine)
      BY <1>1, <1>3, Given
    <2>3. Latch = NoLoad /\ NoEof /\ Bare
      BY <1>1, <2>2 DEF InvC, LoadNext, WarmNext
    <2>4. Listed' /\ Calm'
      BY <1>1, <2>1, NotAsking, StillQueue DEF InvC, Listed, Calm
    <2> QED
      BY <1>1, <2>1, <2>3, <2>4, StillDeck, SilentC
  <1> QED
    BY <1>2, <1>3

LEMMA EndsC ==
    ASSUME Types, AskInv, InvC, UNCHANGED contested,
           Disarm(Spine) \/ Drop(Spine) \/ Waited(Spine) \/ Arm(Spine)
    PROVE  InvC'
  <1>1. /\ UNCHANGED <<actor, ring, queue, current>> /\ SpinePc = "todo"
        /\ NoRequest \/ Ask(Spine, "DropWarm")
        /\ \E todo : Continue(Spine, todo)
    BY DEF Disarm, Drop, Waited, Arm, Doing, At, SpinePc, DeckQuiet, queueVars
  <1>2. SpinePc' \in {"todo", "advanced"}
    <2>1. PICK todo : Continue(Spine, todo)
      BY <1>1
    <2>2. CASE todo = << >>
      BY <2>1, <2>2, TaskMoves, TasksDiffer DEF Types, SpinePc
    <2>3. CASE todo # << >>
      BY <2>1, <2>3, TaskMoves, TasksDiffer DEF Types, SpinePc
    <2> QED
      BY <2>2, <2>3
  <1>3. /\ NoneGone => NoneGone'
        /\ Pending("PlayUrl")' => Pending("PlayUrl")
        /\ Pending("PrefetchContinuation")' => Pending("PrefetchContinuation")
    <2>1. CASE NoRequest
      BY <1>1, <2>1, NotAsking DEF NoRequest
    <2>2. CASE Ask(Spine, "DropWarm")
      <3>1. Request(deck, Spine, "DropWarm", NoLoad)
        BY <2>2 DEF Ask
      <3>2. /\ NoneGone => NoneGone'
            /\ \A o : Pending(o)' <=> Pending(o) \/ o = "DropWarm"
        BY <1>1, <3>1, Asking
      <3> QED
        BY <3>2
    <2> QED
      BY <1>1, <2>1, <2>2
  <1>4. Bare' /\ Ending' /\ \A k : ~LandedAt(k)'
    BY <1>1, <1>3, EndingStays
  <1>5. Listed' /\ Calm'
    BY <1>1, <1>2, <1>3, StillQueue DEF InvC, Listed, Calm
  <1>6. NoEof' => Row'
    BY <1>1, StillDeck, StillQueue DEF InvC, RowNext, Row
  <1>7. WarmNext' /\ AdvanceNext' /\ LoadNext' /\ RowNext'
    BY <1>2, <1>4, <1>6 DEF WarmNext, AdvanceNext, LoadNext, RowNext
  <1> QED
    BY <1>4, <1>5, <1>7 DEF InvC

\* Rows stay distinct when one goes.
LEMMA RemovedDistinct ==
    ASSUME NEW rows \in Seq(Entry), NEW pos \in 1..Len(rows), Distinct(rows)
    PROVE  Distinct(RemoveRow(rows, pos))
  <1>1. /\ RemoveRow(rows, pos) \in Seq(Entry) /\ Len(RemoveRow(rows, pos)) = Len(rows) - 1
        /\ \A i \in 1..(Len(rows) - 1) : RemoveRow(rows, pos)[i] = IF i < pos THEN rows[i] ELSE rows[i + 1]
    BY RemoveRowShape
  <1>2. DOMAIN RemoveRow(rows, pos) = 1..(Len(rows) - 1) /\ DOMAIN rows = 1..Len(rows) /\ Len(rows) \in Nat
    BY <1>1
  <1>3. \A i \in 1..(Len(rows) - 1) : \E k \in 1..Len(rows) :
            RemoveRow(rows, pos)[i] = rows[k] /\ (i < pos => k = i) /\ (i >= pos => k = i + 1)
    BY <1>1, <1>2
  <1>4. ASSUME NEW i \in 1..(Len(rows) - 1), NEW j \in 1..(Len(rows) - 1), RemoveRow(rows, pos)[i] = RemoveRow(rows, pos)[j]
        PROVE  i = j
    <2>1. PICK k \in 1..Len(rows) : RemoveRow(rows, pos)[i] = rows[k] /\ (i < pos => k = i) /\ (i >= pos => k = i + 1)
      BY <1>3
    <2>2. PICK m \in 1..Len(rows) : RemoveRow(rows, pos)[j] = rows[m] /\ (j < pos => m = j) /\ (j >= pos => m = j + 1)
      BY <1>3
    <2>3. k = m
      BY <1>2, <1>4, <2>1, <2>2 DEF Distinct
    <2> QED
      BY <1>2, <2>1, <2>2, <2>3
  <1> QED
    BY <1>2, <1>4 DEF Distinct

LEMMA PlanRows ==
    ASSUME Types, PlanNext
    PROVE  /\ SpinePc = "advance" /\ SpinePc' = "goto" /\ Landed' = Landed
           /\ Distinct(queue) => Distinct(queue)'
           /\ \A e : Landed /\ Promised(e) => Target' \in DOMAIN queue' /\ queue'[Target'] = e
  <1> DEFINE len == Len(queue)
             eats == modes.consume /\ OriginAfter = NoEntry /\ current # 0 /\ len # 0
             rest == IF eats /\ current <= len THEN RemoveRow(queue, current) ELSE queue
             ns == IF current = 0 THEN {0} ELSE PeekNextFrom(queue, current, TRUE, modes)
             drained == /\ IsTrueDrain(queue, current, modes)
                        /\ ~(OnRow /\ queue[current] = continuing)
             at(n) == IF eats /\ n # 0 THEN ConsumeTarget(n, current, Len(rest), modes.repeat) ELSE n
  <1>1. /\ queue \in Seq(Entry) /\ current \in Nat /\ modes \in ModeFlags /\ modes.repeat \in BOOLEAN /\ len \in Nat
        /\ task[Spine] \in Task /\ task \in [{Spine, Client} -> Task] /\ DOMAIN queue = 1..len
    BY DEF Types, QueueTypes, TaskTypes, ModeFlags
  <1>2. PICK n \in ns :
          /\ queue' = rest
          /\ task' = [task EXCEPT ![Spine].pc = "goto", ![Spine].flag = drained,
                                  ![Spine].idx = at(n)]
    BY DEF PlanNext
  <1>3. rest \in Seq(Entry) /\ Len(rest) \in Nat
    BY <1>1, RemoveRowShape
  <1>4. Distinct(queue) => Distinct(rest)
    <2>1. CASE eats /\ current <= len
      <3>1. current \in 1..Len(queue) /\ rest = RemoveRow(queue, current)
        BY <1>1, <2>1
      <3> QED
        BY <1>1, <3>1, RemovedDistinct
    <2>2. CASE ~(eats /\ current <= len)
      BY <2>2
    <2> QED
      BY <2>1, <2>2
  <1>5. ASSUME NEW e, Landed, Promised(e)
        PROVE  at(n) \in DOMAIN rest /\ rest[at(n)] = e
    <2>1. OnRow /\ Nxt \in DOMAIN queue /\ Nxt # current /\ queue[Nxt] = e
      BY <1>5 DEF Promised
    <2>2. current \in 1..len /\ Nxt \in 1..len
      BY <1>1, <2>1 DEF OnRow
    <2>3. PeekNextFrom(queue, current, TRUE, modes) = {Nxt}
      BY <1>1, <2>2 DEF Nxt, PeekNextDeterministic, PeekNextFrom
    <2>4. n = Nxt
      <3>1. current # 0
        BY <1>1, <2>2
      <3>2. ns = {Nxt}
        BY <2>3, <3>1
      <3> HIDE DEF ns
      <3> QED
        BY <3>2
    <2>5. CASE eats
      <3>1. at(n) = ConsumeTarget(Nxt, current, Len(RemoveRow(queue, current)), modes.repeat) /\ rest = RemoveRow(queue, current)
        BY <1>1, <2>2, <2>4, <2>5
      <3>2. at(n) \in 1..Len(rest) /\ rest[at(n)] = queue[Nxt]
        BY <1>1, <2>1, <2>2, <3>1, ConsumeFollows
      <3> QED
        BY <1>3, <2>1, <3>2
    <2>6. CASE ~eats
      BY <2>1, <2>4, <2>6
    <2> QED
      BY <2>5, <2>6
  <1> HIDE DEF rest, ns, drained, at
  <1>6. task'[Spine].pc = "goto" /\ task'[Spine].idx = at(n) /\ task'[Spine].how = task[Spine].how
    BY <1>1, <1>2 DEF Task
  <1> QED
    BY <1>2, <1>4, <1>5, <1>6 DEF Target, Landed, SpinePc, PlanNext, At, Distinct

LEMMA PlanC ==
    ASSUME Types, AskInv, InvC, UNCHANGED contested, PlanNext
    PROVE  InvC'
  <1>1. /\ UNCHANGED <<actor, ring, cmds, reply, slot>> /\ SpinePc = "advance" /\ SpinePc' = "goto" /\ Landed' = Landed
        /\ Distinct(queue) => Distinct(queue)'
        /\ \A e : Landed /\ Promised(e) => Target' \in DOMAIN queue' /\ queue'[Target'] = e
    BY PlanRows DEF PlanNext, DeckQuiet, NoRequest
  <1>2. Listed' /\ Calm'
    BY <1>1, NotAsking DEF InvC, Listed, Calm
  <1>3. CASE Landed
    <2>1. PICK e : PlayingAt(1, e) /\ LatchIs(e) /\ Warmed(e) /\ Promised(e)
      BY <1>1, <1>3 DEF InvC, AdvanceNext
    <2>2. Bare' /\ Ending' /\ \A k : ~LandedAt(k)'
      BY <1>1, NotAsking, EndingStays
    <2>3. AdvanceNext'
      <3>1. PlayingAt(1, e)' /\ LatchIs(e)' /\ Warmed(e)'
        BY <1>1, <2>1, StillDeck, StillQueue
      <3> QED
        BY <1>1, <1>3, <2>1, <3>1 DEF AdvanceNext
    <2>4. WarmNext' /\ LoadNext' /\ RowNext'
      BY <1>1, <2>2 DEF WarmNext, LoadNext, RowNext
    <2> QED
      BY <1>2, <2>2, <2>3, <2>4 DEF InvC
  <1>4. CASE ~Landed
    <2>1. Latch = NoLoad /\ NoEof /\ Bare
      BY <1>1, <1>4, AdvanceSilent
    <2> QED
      BY <1>1, <1>2, <1>4, <2>1, StillDeck, SilentC
  <1> QED
    BY <1>3, <1>4

LEMMA PrefetchReturnsC ==
    ASSUME Types, AskInv, InvC, UNCHANGED contested, PrefetchReturns
    PROVE  InvC'
  <1>1. /\ UNCHANGED <<actor, ring, queue, current, modes>> /\ SpinePc = "prefetch" /\ reply[Spine] # "wait"
        /\ OursStill
    BY DEF PrefetchReturns, DeckQuiet, queueVars, At, SpinePc, Answered, InvC, WarmNext
  <1>2. /\ UNCHANGED <<cmds, reply>> /\ task' = [task EXCEPT ![Spine] = NoTask]
        /\ slot' = IF reply[Spine] = "ok" THEN [slot EXCEPT !.st = "warmed", !.entry = task[Spine].item] ELSE NoSlot
    BY <1>1 DEF PrefetchReturns, NoRequest
  <1>3. SpinePc' = "idle"
    BY <1>2, TaskMoves, TasksDiffer, NoTaskType DEF Types, SpinePc
  <1>4. PICK e : task[Spine].item = e /\ Promised(e) /\ (~Bare => Granted(Spine) /\ Parked(e))
    BY <1>1 DEF InvC, WarmNext
  <1>5. Granted(Spine) <=> reply[Spine] = "ok"
    BY <1>1, Given
  <1>6. \A f : ~Warmed(f)
    BY <1>1 DEF OursStill, Warmed
  <1>7. reply[Spine] = "ok" => Warmed(e)'
    <2>1. slot \in Slot
      BY DEF Types, QueueTypes
    <2> QED
      BY <1>1, <1>2, <1>4, <2>1 DEF Warmed, Slot, OursStill
  <1>8. Promised(e)'
    BY <1>1, <1>4, StillQueue
  <1>9. Listed' /\ Calm'
    BY <1>1, <1>2, <1>3, NotAsking, StillQueue DEF InvC, Listed, Calm
  <1>10. EndsBare' /\ EndsOrder' /\ EndsSilent'
    <2>1. /\ UNCHANGED <<actor, ring>> /\ EndsBare /\ EndsOrder /\ EndsSilent
      BY <1>1 DEF InvC, Ending
    <2>2. EndsBare'
      BY <1>1, <1>2, <2>1, NotAsking, StillDeck DEF EndsBare
    <2> QED
      BY <2>1, <2>2, StillDeck DEF EndsOrder, EndsSilent
  <1>11. LandsNext'
    <2> SUFFICES ASSUME NEW k, LandedAt(k)'
                 PROVE  \E f : PlayingAt(k + 1, f)' /\ LatchIs(f)' /\ Promised(f)' /\ Warmed(f)'
      BY <1>3 DEF LandsNext
    <2>1. LandedAt(k)
      BY <1>1, StillDeck
    <2>2. PICK f : PlayingAt(k + 1, f) /\ LatchIs(f) /\ Promised(f) /\ task[Spine].item = f /\ Granted(Spine)
      BY <1>6, <2>1 DEF InvC, Ending, LandsNext
    <2>3. PlayingAt(k + 1, e)' /\ LatchIs(e)'
      BY <1>1, <1>4, <2>2, StillDeck
    <2> QED
      BY <1>5, <1>7, <1>8, <2>2, <2>3
  <1>12. WarmNext'
    <2>1. ASSUME ~Bare' PROVE Parked(e)' /\ Warmed(e)'
      BY <1>1, <1>4, <1>5, <1>7, <2>1, StillDeck
    <2> QED
      BY <1>3, <1>8, <2>1 DEF WarmNext
  <1>13. NoEof' => Row'
    BY <1>1, StillDeck, StillQueue DEF InvC, RowNext, Row
  <1>14. AdvanceNext' /\ LoadNext' /\ RowNext'
    BY <1>3, <1>13 DEF AdvanceNext, LoadNext, RowNext
  <1> QED
    BY <1>9, <1>10, <1>11, <1>12, <1>14 DEF InvC, Ending

LEMMA WarmFiresC ==
    ASSUME Types, AskInv, InvC, UNCHANGED contested, WarmFires
    PROVE  InvC'
  <1>1. /\ UNCHANGED <<actor, ring, queue, current, modes>> /\ SpinePc = "idle" /\ slot.st = "armed" /\ ~slot.fired
        /\ \A e : ~Warmed(e)
    BY DEF WarmFires, DeckQuiet, queueVars, At, SpinePc, Warmed
  <1>2. Bare /\ \A k : ~LandedAt(k)
    BY <1>1 DEF InvC, WarmNext, Ending, LandsNext
  <1>3. Bare' /\ \A k : ~LandedAt(k)'
    BY <1>1, <1>2, StillDeck
  <1>4. NoEof' => Row'
    BY <1>1, StillDeck, StillQueue DEF InvC, RowNext, Row
  <1>5. EndsOrder' /\ EndsSilent' /\ LandsNext'
    BY <1>1, <1>3, StillDeck DEF InvC, Ending, EndsOrder, EndsSilent, LandsNext
  <1>6. CASE WarmReady = 0
    <2>1. UNCHANGED <<cmds, reply, task>>
      BY <1>6 DEF WarmFires, NoRequest
    <2>2. SpinePc' = "idle"
      BY <1>1, <2>1 DEF SpinePc
    <2>3. Listed' /\ Calm'
      BY <1>1, <2>1, <2>2, NotAsking, StillQueue DEF InvC, Listed, Calm
    <2>4. EndsBare'
      BY <1>1, <2>1, StillDeck, NotAsking DEF InvC, Ending, EndsBare
    <2>5. WarmNext' /\ AdvanceNext' /\ LoadNext' /\ RowNext'
      BY <1>3, <1>4, <2>2 DEF WarmNext, AdvanceNext, LoadNext, RowNext
    <2> QED
      BY <1>5, <2>3, <2>4, <2>5 DEF InvC, Ending
  <1>7. CASE WarmReady # 0
    <2>1. PICK e : e = queue[WarmReady]
      OBVIOUS
    <2>2. /\ slot' = [slot EXCEPT !.fired = TRUE] /\ AskLoad(Spine, "PrefetchContinuation", e)
          /\ task' = [task EXCEPT ![Spine].pc = "prefetch", ![Spine].item = e]
      BY <1>7, <2>1 DEF WarmFires
    <2>3. SpinePc' = "prefetch" /\ task'[Spine].item = e
      BY <2>2, TasksDiffer DEF Types, TaskTypes, Task, SpinePc
    <2>4. OursStill'
      <3>1. slot \in Slot
        BY DEF Types, QueueTypes
      <3> QED
        BY <1>1, <2>2, <3>1 DEF OursStill, Slot
    <2>5. Promised(e)'
      <3>1. Reported = "Playing" /\ Nxt # current /\ WarmReady = Nxt
        BY <1>7 DEF WarmReady, Nxt
      <3>2. Nxt \in 1..Len(queue)
        <4>1. queue \in Seq(Entry) /\ current \in Nat
          BY DEF Types, QueueTypes
        <4> QED
          BY <1>7, <3>1, <4>1 DEF Nxt, PeekNextDeterministic
      <3>3. queue \in Seq(Entry)
        BY DEF Types, QueueTypes
      <3>4. OnRow
        BY <3>1 DEF Reported
      <3> QED
        BY <1>1, <2>1, <3>1, <3>2, <3>3, <3>4, StillQueue DEF Promised
    <2>6. NoEof'
      <3>1. Watch # "Stopped"
        BY <1>7 DEF WarmReady, Reported, Watch
      <3>2. Latch # NoLoad
        BY <3>1 DEF AskInv, DeckPlain
      <3>3. NoEof
        BY <1>2, <3>2, NoEofAt DEF InvC, Ending, EndsSilent
      <3> QED
        BY <1>1, <3>3, StillDeck
    <2>7. NoneGone => NoneGone'
      <3>1. PICK l : Request(deck, Spine, "PrefetchContinuation", l)
        BY <2>2 DEF AskLoad, RequestLoad
      <3> QED
        BY <1>1, <3>1, Asking
    <2>8. Listed' /\ Calm'
      BY <1>1, <2>3, <2>7, StillQueue DEF InvC, Listed, Calm
    <2>9. EndsBare'
      BY <2>6 DEF EndsBare
    <2>10. WarmNext' /\ AdvanceNext' /\ LoadNext' /\ RowNext'
      BY <1>3, <1>4, <2>3, <2>4, <2>5 DEF WarmNext, AdvanceNext, LoadNext, RowNext
    <2> QED
      BY <1>5, <2>8, <2>9, <2>10 DEF InvC, Ending
  <1> QED
    BY <1>6, <1>7

\* The spine takes one event from the ring: the others move up.
LEMMA ShiftRead ==
    ASSUME Types, ring # << >>, ring' = Tail(ring), UNCHANGED actor
    PROVE  /\ FlightLen > 0 /\ FlightLen' = FlightLen - 1 /\ Flight(1) = Send(Head(ring))
           /\ \A k : EofAt(k)' => EofAt(k + 1) /\ k \in 1..FlightLen
           /\ \A k \in 1..FlightLen : EofAt(k + 1) => EofAt(k)'
           /\ \A k : LandedAt(k)' => LandedAt(k + 1) /\ k \in 1..FlightLen
           /\ \A k \in 1..FlightLen : LandedAt(k + 1) => LandedAt(k)'
           /\ \A k \in 1..FlightLen : \A e : PlayingAt(k + 1, e) => PlayingAt(k, e)'
           /\ \A k \in 1..FlightLen : EofAt(k) /\ k # 1 => ~NoEof'
           /\ NoEof => NoEof'
           /\ Latch' = Latch /\ Warmth' = Warmth /\ (Bare' <=> Bare)
           /\ \A e : (LatchIs(e)' <=> LatchIs(e)) /\ (Parked(e)' <=> Parked(e))
  <1>1. /\ ring \in Seq(Event) /\ Len(ring) \in Nat /\ Len(Out) \in Nat /\ Out' = Out
    BY RowTypes DEF Out
  <1>2. /\ Len(ring') = Len(ring) - 1 /\ Len(ring) > 0 /\ Head(ring) = ring[1]
        /\ \A k \in 1..(Len(ring) - 1) : ring'[k] = ring[k + 1]
    BY <1>1
  <1>3. FlightLen' = FlightLen - 1 /\ FlightLen > 0 /\ FlightLen \in Nat
    BY <1>1, <1>2 DEF FlightLen
  <1>4. \A k \in 1..FlightLen : k < FlightLen => Flight(k)' = Flight(k + 1)
    <2> SUFFICES ASSUME NEW k \in 1..FlightLen, k < FlightLen PROVE Flight(k)' = Flight(k + 1)
      OBVIOUS
    <2>1. Flight(k)' = IF k <= Len(ring') THEN Send(ring'[k]) ELSE Out'[k - Len(ring')]
      BY DEF Flight
    <2>2. CASE k <= Len(ring')
      BY <1>1, <1>2, <1>3, <2>1, <2>2 DEF Flight
    <2>3. CASE ~(k <= Len(ring'))
      <3>1. k - Len(ring') = (k + 1) - Len(ring) /\ ~(k + 1 <= Len(ring))
        BY <1>1, <1>2, <1>3, <2>3
      <3> QED
        BY <1>1, <2>1, <2>3, <3>1 DEF Flight
    <2> QED
      BY <2>2, <2>3
  <1>5. Flight(1) = Send(Head(ring))
    BY <1>1, <1>2 DEF Flight
  <1>6. \A k : k \in 1..FlightLen' => k \in 1..FlightLen /\ k + 1 \in 1..FlightLen /\ k < FlightLen
    BY <1>3
  <1>7. \A k : EofAt(k)' => EofAt(k + 1) /\ k \in 1..FlightLen
    BY <1>4, <1>6 DEF EofAt
  <1>8. \A k \in 1..FlightLen : k + 1 \in 1..FlightLen => k \in 1..FlightLen' /\ k < FlightLen
    BY <1>3
  <1>9. \A k \in 1..FlightLen : EofAt(k + 1) => EofAt(k)'
    BY <1>4, <1>8 DEF EofAt
  <1>10. \A k : LandedAt(k)' => LandedAt(k + 1) /\ k \in 1..FlightLen
    BY <1>4, <1>6 DEF LandedAt
  <1>16. \A k \in 1..FlightLen : LandedAt(k + 1) => LandedAt(k)'
    BY <1>4, <1>8 DEF LandedAt
  <1>11. \A k \in 1..FlightLen : \A e : PlayingAt(k + 1, e) => PlayingAt(k, e)'
    BY <1>4, <1>8 DEF PlayingAt
  <1>12. NoEof => NoEof'
    BY <1>4, <1>6 DEF NoEof
  <1>13. \A k \in 1..FlightLen : EofAt(k) /\ k # 1 => ~NoEof'
    <2> SUFFICES ASSUME NEW k \in 1..FlightLen, EofAt(k), k # 1 PROVE ~NoEof'
      OBVIOUS
    <2>1. PICK j \in 1..FlightLen : j + 1 = k
      BY <1>3
    <2>2. EofAt(j)'
      BY <1>9, <2>1
    <2> QED
      BY <2>2 DEF EofAt, NoEof
  <1>14. Latch' = Latch /\ Warmth' = Warmth
    BY DEF Latch, Warmth
  <1>15. (Bare' <=> Bare) /\ \A e : (LatchIs(e)' <=> LatchIs(e)) /\ (Parked(e)' <=> Parked(e))
    BY <1>14 DEF Bare, LatchIs, Parked
  <1> QED
    BY <1>3, <1>5, <1>7, <1>9, <1>10, <1>11, <1>12, <1>13, <1>14, <1>15, <1>16

\* An event that ends nothing is read.
LEMMA ReadsC ==
    ASSUME Types, AskInv, InvC, UNCHANGED contested,
           SpinePlaying \/ SpinePaused \/ SpineStopped \/ SpineTimePos
    PROVE  InvC'
  <1>1. /\ ring # << >> /\ ring' = Tail(ring) /\ Head(ring).kind # "Eof"
        /\ UNCHANGED <<actor, cmds, reply, slot, task, queue, current, modes>> /\ SpinePc = "idle"
    BY DEF SpinePlaying, SpinePaused, SpineStopped, SpineTimePos, SpineReads, queueVars, At, SpinePc
  <1>2. /\ SpinePc' = "idle"
        /\ \A e : (HereIs(e)' <=> HereIs(e)) /\ (Promised(e)' <=> Promised(e)) /\ (Warmed(e)' <=> Warmed(e))
    BY <1>1, StillQueue DEF SpinePc
  <1>3. ~EofAt(1)
    BY <1>1, ShiftRead DEF EofAt, IsEof, Send
  <1>4. NoEof' => NoEof
    <2> SUFFICES ASSUME NoEof' PROVE \A k : ~EofAt(k)
      BY NoEofAt
    <2> QED
      BY <1>1, <1>3, ShiftRead DEF EofAt
  <1>5. Listed' /\ Calm'
    BY <1>1, <1>2, NotAsking, StillQueue DEF InvC, Listed, Calm
  <1>6. EndsBare'
    BY <1>1, NotAsking, ShiftRead DEF InvC, Ending, EndsBare
  <1>7. EndsOrder'
    <2> SUFFICES ASSUME NEW k, NEW j, EofAt(k)', EofAt(j)', k < j PROVE LandedAt(k)' /\ ~LandedAt(j)'
      BY DEF EndsOrder
    <2>1. EofAt(k + 1) /\ EofAt(j + 1) /\ k \in 1..FlightLen /\ j \in 1..FlightLen
      BY <1>1, ShiftRead
    <2>2. FlightLen \in Nat
      BY RowTypes DEF FlightLen
    <2>3. k + 1 < j + 1
      BY <2>1, <2>2
    <2>4. LandedAt(k + 1) /\ ~LandedAt(j + 1)
      BY <2>1, <2>3 DEF InvC, Ending, EndsOrder
    <2> QED
      BY <1>1, <2>1, <2>4, ShiftRead
  <1>8. EndsSilent'
    <2> SUFFICES ASSUME NEW k, EofAt(k)', ~LandedAt(k)' PROVE Latch' = NoLoad
      BY DEF EndsSilent
    <2>1. EofAt(k + 1) /\ k \in 1..FlightLen
      BY <1>1, ShiftRead
    <2>2. ~LandedAt(k + 1)
      BY <1>1, <2>1, ShiftRead
    <2> QED
      BY <1>1, <2>1, <2>2, ShiftRead DEF InvC, Ending, EndsSilent
  <1>9. LandsNext'
    <2> SUFFICES ASSUME NEW k, LandedAt(k)'
                 PROVE  \E e : PlayingAt(k + 1, e)' /\ LatchIs(e)' /\ Promised(e)' /\ Warmed(e)'
      BY <1>2 DEF LandsNext
    <2>1. LandedAt(k + 1) /\ k \in 1..FlightLen
      BY <1>1, ShiftRead
    <2>2. PICK e : PlayingAt((k + 1) + 1, e) /\ LatchIs(e) /\ Promised(e) /\ Warmed(e)
      BY <1>1, <2>1, TasksDiffer DEF InvC, Ending, LandsNext
    <2>3. k + 1 \in 1..FlightLen
      BY <2>1 DEF LandedAt
    <2>4. PlayingAt(k + 1, e)'
      BY <1>1, <2>2, <2>3, ShiftRead
    <2> QED
      BY <1>1, <1>2, <2>2, <2>4, ShiftRead
  <1>10. WarmNext'
    BY <1>1, <1>2, ShiftRead DEF InvC, WarmNext
  <1>11. NoEof' => Row'
    <2> SUFFICES ASSUME NoEof' PROVE Row'
      OBVIOUS
    <2>1. Row
      BY <1>1, <1>4 DEF InvC, RowNext
    <2> QED
      BY <1>1, <1>2, <2>1, ShiftRead DEF Row
  <1>12. AdvanceNext' /\ LoadNext' /\ RowNext'
    BY <1>2, <1>11 DEF AdvanceNext, LoadNext, RowNext
  <1> QED
    BY <1>5, <1>6, <1>7, <1>8, <1>9, <1>10, <1>12 DEF InvC, Ending

\* The spine takes the end of a track: what is left of it is behind nobody.
LEMMA EofC ==
    ASSUME Types, AskInv, InvC, UNCHANGED contested, SpineEof
    PROVE  InvC'
  <1>1. /\ ring # << >> /\ ring' = Tail(ring) /\ Head(ring).kind = "Eof"
        /\ UNCHANGED <<actor, cmds, reply, slot, queue, current, modes>> /\ SpinePc = "idle"
        /\ task' = [task EXCEPT ![Spine] =
                     [NoTask EXCEPT !.pc = "advance", !.ended = EntryOf(Head(ring).load), !.how = Head(ring).flag]]
    BY DEF SpineEof, SpineReads, queueVars, At, SpinePc
  <1>2. /\ SpinePc' = "advance" /\ task'[Spine].how = Head(ring).flag
        /\ \A e : (Promised(e)' <=> Promised(e)) /\ (Warmed(e)' <=> Warmed(e))
    <2>1. \A e : (Promised(e)' <=> Promised(e)) /\ (Warmed(e)' <=> Warmed(e))
      BY <1>1, StillQueue
    <2>2. task'[Spine] = [NoTask EXCEPT !.pc = "advance", !.ended = EntryOf(Head(ring).load), !.how = Head(ring).flag]
      BY <1>1, TasksDiffer DEF Types, TaskTypes
    <2> QED
      BY <2>1, <2>2 DEF SpinePc, NoTask
  <1>3. EofAt(1) /\ (Landed' <=> LandedAt(1)) /\ ~NoEof
    <2>1. FlightLen > 0 /\ Flight(1) = Send(Head(ring)) /\ FlightLen \in Nat
      BY <1>1, ShiftRead, RowTypes DEF FlightLen
    <2>2. EofAt(1) /\ (Landed' <=> LandedAt(1))
      BY <1>1, <1>2, <2>1 DEF EofAt, LandedAt, Landed, IsLanded, IsEof, Send
    <2> QED
      BY <2>2, NoEofAt
  <1>4. \A k : EofAt(k)' => LandedAt(1) /\ ~LandedAt(k)'
    <2> SUFFICES ASSUME NEW k, EofAt(k)' PROVE LandedAt(1) /\ ~LandedAt(k)'
      OBVIOUS
    <2>1. EofAt(k + 1) /\ k \in 1..FlightLen
      BY <1>1, ShiftRead
    <2>2. FlightLen \in Nat
      BY RowTypes DEF FlightLen
    <2>3. 1 < k + 1
      BY <2>1, <2>2
    <2>4. LandedAt(1) /\ ~LandedAt(k + 1)
      BY <1>3, <2>1, <2>3 DEF InvC, Ending, EndsOrder
    <2> QED
      BY <1>1, <2>4, ShiftRead
  <1>5. Listed' /\ Calm'
    BY <1>1, <1>2, NotAsking, StillQueue DEF InvC, Listed, Calm
  <1>6. Bare' /\ EndsBare'
    BY <1>1, <1>3, NotAsking, ShiftRead DEF InvC, Ending, EndsBare
  <1>7. EndsOrder'
    <2> SUFFICES ASSUME NEW k, NEW j, EofAt(k)', EofAt(j)', k < j PROVE FALSE
      BY DEF EndsOrder
    <2>1. EofAt(k + 1) /\ EofAt(j + 1) /\ k \in 1..FlightLen /\ j \in 1..FlightLen
      BY <1>1, ShiftRead
    <2>2. FlightLen \in Nat
      BY RowTypes DEF FlightLen
    <2>3. k + 1 < j + 1 /\ 1 < k + 1
      BY <2>1, <2>2
    <2>4. LandedAt(k + 1) /\ ~LandedAt(k + 1)
      BY <1>3, <2>1, <2>3 DEF InvC, Ending, EndsOrder
    <2> QED
      BY <2>4
  <1>8. EndsSilent'
    <2> SUFFICES ASSUME NEW k, EofAt(k)' PROVE Latch' = NoLoad
      BY DEF EndsSilent
    <2>1. EofAt(k + 1) /\ k \in 1..FlightLen
      BY <1>1, ShiftRead
    <2>2. FlightLen \in Nat
      BY RowTypes DEF FlightLen
    <2>3. 1 < k + 1
      BY <2>1, <2>2
    <2>4. ~LandedAt(k + 1)
      BY <1>3, <2>1, <2>3 DEF InvC, Ending, EndsOrder
    <2> QED
      BY <1>1, <2>1, <2>4, ShiftRead DEF InvC, Ending, EndsSilent
  <1>9. LandsNext'
    <2>1. \A k : ~LandedAt(k)'
      BY <1>4 DEF LandedAt, EofAt, IsLanded
    <2> QED
      BY <2>1 DEF LandsNext
  <1>10. AdvanceNext'
    <2>1. CASE LandedAt(1)
      <3>1. PICK e : PlayingAt(1 + 1, e) /\ LatchIs(e) /\ Promised(e) /\ Warmed(e)
        BY <1>1, <2>1, TasksDiffer DEF InvC, Ending, LandsNext
      <3>2. 1 \in 1..FlightLen
        BY <1>3 DEF EofAt
      <3>3. PlayingAt(1, e)' /\ LatchIs(e)'
        BY <1>1, <3>1, <3>2, ShiftRead
      <3> QED
        BY <1>2, <1>3, <2>1, <3>1, <3>3 DEF AdvanceNext
    <2>2. CASE ~LandedAt(1)
      <3>1. Latch = NoLoad
        BY <1>3, <2>2 DEF InvC, Ending, EndsSilent
      <3>2. NoEof'
        <4>1. \A k : ~EofAt(k)'
          BY <1>4, <2>2
        <4> QED
          BY <4>1 DEF NoEof, EofAt
      <3> QED
        BY <1>1, <1>2, <1>3, <2>2, <3>1, <3>2, ShiftRead DEF AdvanceNext
    <2> QED
      BY <2>1, <2>2
  <1>11. WarmNext' /\ LoadNext' /\ RowNext'
    BY <1>2, <1>6 DEF WarmNext, LoadNext, RowNext
  <1> QED
    BY <1>5, <1>6, <1>7, <1>8, <1>9, <1>10, <1>11 DEF InvC, Ending

-----------------------------------------------------------------------------
(* The client and the fade go on while the spine keeps still. *)

LEMMA EofsAre ==
    ASSUME Types
    PROVE  EofsSent = {} <=> NoEof
  <1>1. /\ ring \in Seq(Event) /\ Len(ring) \in Nat /\ Out \in Seq(Effect) /\ Len(Out) \in Nat /\ FlightLen \in Nat
    BY RowTypes DEF FlightLen
  <1>2. ASSUME NEW k \in 1..FlightLen, IsEof(Flight(k)) PROVE EofsSent # {}
    <2>1. CASE k <= Len(ring)
      <3>1. k \in DOMAIN ring /\ ring[k].kind = "Eof"
        BY <1>1, <1>2, <2>1 DEF Flight, IsEof, Send
      <3>2. <<"ring", k>> \in EofsSent
        BY <3>1 DEF EofsSent
      <3> QED
        BY <3>2
    <2>2. CASE ~(k <= Len(ring))
      <3>1. PICK j : j = k - Len(ring)
        OBVIOUS
      <3>2. j \in DOMAIN Out /\ Out[j].what = "send" /\ Out[j].ev.kind = "Eof"
        BY <1>1, <1>2, <2>2, <3>1 DEF Flight, FlightLen, IsEof
      <3>3. <<"out", j>> \in EofsSent
        BY <3>2 DEF EofsSent, Out
      <3> QED
        BY <3>3
    <2> QED
      BY <2>1, <2>2
  <1>3. ASSUME NEW s \in EofsSent PROVE ~NoEof
    <2>1. CASE \E j \in DOMAIN Out : Out[j].what = "send" /\ Out[j].ev.kind = "Eof"
      <3>1. PICK j \in DOMAIN Out : Out[j].what = "send" /\ Out[j].ev.kind = "Eof"
        BY <2>1
      <3>2. PICK k : k = Len(ring) + j
        OBVIOUS
      <3>3. k \in 1..FlightLen /\ ~(k <= Len(ring)) /\ k - Len(ring) = j
        BY <1>1, <3>1, <3>2 DEF FlightLen
      <3> QED
        BY <3>1, <3>3 DEF NoEof, Flight, IsEof
    <2>2. CASE \E j \in DOMAIN ring : ring[j].kind = "Eof"
      <3>1. PICK j \in DOMAIN ring : ring[j].kind = "Eof"
        BY <2>2
      <3>2. j \in 1..FlightLen /\ j <= Len(ring)
        BY <1>1, <3>1 DEF FlightLen
      <3> QED
        BY <3>1, <3>2 DEF NoEof, Flight, IsEof, Send
    <2> QED
      BY <1>3, <2>1, <2>2 DEF EofsSent, Out
  <1> QED
    BY <1>2, <1>3 DEF NoEof

\* To meet is for neither to keep still.
LEMMA MetIs ==
    ASSUME Types
    PROVE  Met <=> ~SpineQuiet /\ ~ClientQuiet
  BY EofsAre DEF Met, SpineQuiet, ClientQuiet, SpinePc, ClientPc, At

\* Every re-arm in what a call has still to do comes behind a disarm.
Behind(todo) ==
    \A i \in DOMAIN todo : todo[i] = "arm" => \E j \in 1..(i - 1) : todo[j] = "disarm"

LEMMA AllBehind ==
    /\ Behind(Reschedule) /\ Behind(<<"wait">> \o << >>) /\ Behind(<<"wait">> \o <<"disarm">>)
    /\ Behind(<<"wait">> \o Reschedule)
    /\ Behind(<<"wait">> \o (Reschedule \o <<"drop", "disarm">>))
    /\ Behind(<<"wait">> \o (Reschedule \o Reschedule))
  <1>1. Behind(Reschedule)
    <2>1. Reschedule[1] = "disarm" /\ DOMAIN Reschedule = 1..2
      BY DEF Reschedule
    <2> QED
      BY <2>1 DEF Behind, Reschedule
  <1>2. Behind(<<"wait">> \o << >>)
    <2>1. <<"wait">> \o << >> = <<"wait">>
      OBVIOUS
    <2>2. Behind(<<"wait">>)
      BY DEF Behind
    <2> QED
      BY <2>1, <2>2
  <1>3. <<"disarm">> \in Seq(Todo) /\ Len(<<"disarm">>) >= 1 /\ <<"disarm">>[1] = "disarm"
    BY DEF Todo
  <1>4. ASSUME NEW todo \in Seq(Todo), Len(todo) >= 1, todo[1] = "disarm" PROVE Behind(<<"wait">> \o todo)
    <2> DEFINE s == <<"wait">> \o todo
    <2>1. /\ \A i \in DOMAIN s : i = 1 \/ (i - 1 \in DOMAIN todo /\ s[i] = todo[i - 1])
          /\ \A i \in DOMAIN todo : i + 1 \in DOMAIN s /\ s[i + 1] = todo[i]
      BY <1>4, WaitFirst
    <2>2. s \in Seq(Todo) /\ s[1] = "wait"
      BY <1>4 DEF Todo
    <2>3. 2 \in DOMAIN s /\ s[2] = "disarm"
      <3>1. 1 \in DOMAIN todo
        BY <1>4
      <3> QED
        BY <1>4, <2>1, <3>1
    <2>4. \A i \in DOMAIN s : i \in Nat /\ i >= 1
      BY <2>2
    <2> HIDE DEF s
    <2> SUFFICES ASSUME NEW i \in DOMAIN s, s[i] = "arm" PROVE 2 \in 1..(i - 1)
      BY <2>3 DEF Behind, s
    <2>5. i # 1 /\ i # 2
      BY <2>2, <2>3
    <2> QED
      BY <2>4, <2>5
  <1>5. /\ Reschedule \in Seq(Todo) /\ Len(Reschedule) >= 1 /\ Reschedule[1] = "disarm"
    BY ScheduleType DEF Reschedule
  <1>6. /\ Reschedule \o <<"drop", "disarm">> \in Seq(Todo) /\ Len(Reschedule \o <<"drop", "disarm">>) >= 1
        /\ (Reschedule \o <<"drop", "disarm">>)[1] = "disarm"
    BY <1>5 DEF Reschedule, Todo
  <1>7. /\ Reschedule \o Reschedule \in Seq(Todo) /\ Len(Reschedule \o Reschedule) >= 1
        /\ (Reschedule \o Reschedule)[1] = "disarm"
    BY <1>5 DEF Reschedule, Todo
  <1> QED
    BY <1>1, <1>2, <1>3, <1>4, <1>5, <1>6, <1>7

LEMMA PlayS ==
    ASSUME Types, AskInv, SpinePc = "idle", Orderly /\ SpineQuiet => InvS, SpineQuiet,
           NEW i \in DOMAIN queue, NEW held \in BOOLEAN, ClientPc = "idle", PlayIndex(i, held), Orderly'
    PROVE  InvS'
  <1>1. /\ UNCHANGED <<actor, ring, cmds, reply, queue, current, modes, slot>> /\ fade' = "none"
        /\ task' = [task EXCEPT ![Client] =
                     [NoTask EXCEPT !.pc = "load", !.idx = i, !.item = queue[i], !.flag = held]]
        /\ contested' = IF Settled /\ contested # "no" /\ Distinct(queue) THEN "afresh" ELSE contested
    BY DEF PlayIndex, CancelFade, NoRequest
  <1>2. ClientPc' = "load" /\ task'[Client].idx = i /\ task'[Client].item = queue[i]
    <2> DEFINE r == [NoTask EXCEPT !.pc = "load", !.idx = i, !.item = queue[i], !.flag = held]
    <2>1. r.pc = "load" /\ r.idx = i /\ r.item = queue[i]
      BY DEF NoTask
    <2>2. task' = [task EXCEPT ![Client] = r]
      BY <1>1
    <2> HIDE DEF r
    <2>3. task'[Client] = r
      BY <2>2, TaskMoves, TasksDiffer DEF Types
    <2> QED
      BY <2>1, <2>3 DEF ClientPc
  <1>3. ChoiceKnown' /\ ArmsDisarmed' /\ Afresh'
    BY <1>1, <1>2 DEF ChoiceKnown, ArmsDisarmed, Afresh
  <1>4. CASE Settled /\ contested # "no" /\ Distinct(queue)
    <2>1. contested' = "afresh"
      BY <1>1, <1>4
    <2>2. NoneGone
      <3>1. DOMAIN Cmds = {} /\ DOMAIN Out = {}
        BY <1>4 DEF Settled, Cmds, Out
      <3> QED
        BY <3>1 DEF NoneGone
    <2>3. Listed'
      BY <1>1, <1>4, <2>2, NotAsking, StillQueue DEF Listed
    <2>4. WarmKnown' /\ RowKnown'
      BY <2>1 DEF WarmKnown, RowKnown
    <2> QED
      BY <1>3, <2>3, <2>4 DEF InvS
  <1>5. CASE ~(Settled /\ contested # "no" /\ Distinct(queue))
    <2>1. contested' = contested /\ InvS
      BY <1>1, <1>5 DEF Orderly
    <2>2. contested = "no"
      BY <2>1 DEF InvS, Afresh, Orderly
    <2>3. Listed'
      BY <1>1, <2>1, NotAsking, StillQueue DEF InvS, Listed
    <2>4. WarmKnown'
      BY <1>1, <2>1, StillDeck, StillQueue, NotAsking DEF InvS, WarmKnown, WillDrop, WillDisarm
    <2>5. Row \/ Pending("Stop")
      BY <2>1, <2>2 DEF InvS, RowKnown
    <2>6. RowKnown'
      BY <1>1, <2>5, StillDeck, StillQueue, NotAsking DEF RowKnown, Row
    <2> QED
      BY <1>3, <2>3, <2>4, <2>6 DEF InvS
  <1> QED
    BY <1>4, <1>5

LEMMA LoadsS ==
    ASSUME Types, AskInv, InvS, UNCHANGED contested, ClientLoads
    PROVE  InvS'
  <1>1. /\ UNCHANGED <<actor, ring, queue, current, modes, slot, fade>> /\ ClientPc = "load" /\ Goto(Client, "loading")
        /\ \E l : Request(deck, Client, "PlayUrl", l)
    BY DEF ClientLoads, DeckQuiet, queueVars, At, ClientPc, AskLoad, RequestLoad
  <1>2. /\ ClientPc' = "loading" /\ task'[Client].idx = task[Client].idx /\ task'[Client].item = task[Client].item
    BY <1>1, TaskMoves, TasksDiffer DEF ClientPc, Types
  <1>3. /\ NoneGone => NoneGone'
        /\ \A o : Pending(o)' <=> Pending(o) \/ o = "PlayUrl"
        /\ ~Granted(Client)'
    BY <1>1, Asking
  <1>4. Listed' /\ WarmKnown' /\ ArmsDisarmed'
    BY <1>1, <1>2, <1>3, StillQueue DEF InvS, Listed, WarmKnown, WillDrop, ArmsDisarmed
  <1>5. RowKnown'
    BY <1>1, <1>3, StillDeck, StillQueue DEF InvS, RowKnown, Row
  <1>6. ChoiceKnown' /\ Afresh'
    BY <1>1, <1>2, <1>3 DEF InvS, ChoiceKnown, Afresh
  <1> QED
    BY <1>4, <1>5, <1>6 DEF InvS

\* A gesture that stops the deck, or drops what it parked, and will disarm
\* before it arms.
LEMMA SentS ==
    ASSUME Types, AskInv, NoneGone, contested # "afresh", UNCHANGED <<actor, ring, contested>>,
           NEW op \in {"Stop", "DropWarm"}, NEW todo \in Seq(Todo), Sent(op, todo), Behind(<<"wait">> \o todo),
           Distinct(queue)',
           op = "DropWarm" => /\ UNCHANGED <<queue, current>>
                              /\ Row \/ Pending("Stop")
    PROVE  InvS'
  <1>1. ClientPc' = "todo" /\ task'[Client].todo = <<"wait">> \o todo
    <2>1. <<"wait">> \o todo # << >>
      BY WaitFirst
    <2> QED
      BY <2>1, TaskMoves, TasksDiffer DEF Sent, ClientPc, Types
  <1>2. /\ NoneGone'
        /\ \A o : Pending(o)' <=> Pending(o) \/ o = op
    <2>1. Request(deck, Client, op, NoLoad)
      BY DEF Sent, Ask
    <2>2. /\ NoneGone => NoneGone'
          /\ \A o : Pending(o)' <=> Pending(o) \/ o = op
      BY <2>1, Asking
    <2> QED
      BY <2>2
  <1>3. Listed' /\ WarmKnown'
    BY <1>2 DEF Listed, WarmKnown, WillDrop
  <1>4. RowKnown'
    BY <1>2, StillDeck, StillQueue DEF RowKnown, Row
  <1>5. ChoiceKnown' /\ Afresh'
    BY <1>1 DEF ChoiceKnown, Afresh
  <1>6. ArmsDisarmed'
    BY <1>1 DEF ArmsDisarmed, Behind
  <1> QED
    BY <1>3, <1>4, <1>5, <1>6 DEF InvS

\* What is left of the invariant when the client is neither loading nor late.
LEMMA AtRest ==
    ASSUME InvS, ClientPc \notin {"load", "loading"}
    PROVE  contested # "afresh" /\ (Row \/ Pending("Stop")) /\ NoneGone /\ Distinct(queue)
  BY DEF InvS, Afresh, RowKnown, Listed

LEMMA StopS ==
    ASSUME Types, AskInv, InvS, UNCHANGED contested, ClientStop \/ ClientClear \/ ClientPause \/ ClientRampsUp
    PROVE  InvS'
  <1>1. /\ UNCHANGED <<actor, ring>> /\ ClientPc \notin {"load", "loading"}
        /\ \/ queue' = << >> /\ Sent("Stop", <<"disarm">>)
           \/ UNCHANGED <<queue, current>> /\ Sent("Stop", <<"disarm">>)
           \/ UNCHANGED <<queue, current>> /\ Sent("DropWarm", Reschedule \o <<"drop", "disarm">>)
           \/ UNCHANGED <<queue, current>> /\ Sent("DropWarm", Reschedule \o Reschedule)
    BY DEF ClientStop, ClientClear, ClientPause, ClientRampsUp, Gesture, DeckQuiet, At, ClientPc, queueVars
  <1>2. /\ <<"disarm">> \in Seq(Todo) /\ Reschedule \o <<"drop", "disarm">> \in Seq(Todo)
        /\ Reschedule \o Reschedule \in Seq(Todo)
    BY DEF Reschedule, Todo
  <1>3. /\ contested # "afresh" /\ (Row \/ Pending("Stop")) /\ NoneGone /\ Distinct(queue)
    BY <1>1, AtRest
  <1>4. Distinct(queue)'
    BY <1>1, <1>3 DEF Distinct
  <1>5. CASE Sent("Stop", <<"disarm">>)
    BY <1>1, <1>2, <1>3, <1>4, <1>5, AllBehind, SentS
  <1>6. CASE UNCHANGED <<queue, current>> /\ Sent("DropWarm", Reschedule \o <<"drop", "disarm">>)
    BY <1>1, <1>2, <1>3, <1>4, <1>6, AllBehind, SentS
  <1>7. CASE UNCHANGED <<queue, current>> /\ Sent("DropWarm", Reschedule \o Reschedule)
    BY <1>1, <1>2, <1>3, <1>4, <1>7, AllBehind, SentS
  <1> QED
    BY <1>1, <1>5, <1>6, <1>7

LEMMA DeleteS ==
    ASSUME Types, AskInv, InvS, UNCHANGED contested, ClientDelete
    PROVE  InvS'
  <1>1. PICK i \in DOMAIN queue :
            task' = [task EXCEPT ![Client] =
                      [NoTask EXCEPT !.pc = "evict", !.item = queue[i], !.flag = (i = current)]]
    BY DEF ClientDelete
  <1>2. /\ UNCHANGED <<actor, ring, cmds, reply, queue, current, modes, slot>> /\ ClientPc = "idle"
    BY DEF ClientDelete, Gesture, At, ClientPc, DeckQuiet, NoRequest, queueVars
  <1>3. ClientPc' = "evict" /\ task'[Client].item = queue[i] /\ (task'[Client].flag <=> i = current)
    <2> DEFINE r == [NoTask EXCEPT !.pc = "evict", !.item = queue[i], !.flag = (i = current)]
    <2>1. r.pc = "evict" /\ r.item = queue[i] /\ r.flag = (i = current)
      BY DEF NoTask
    <2>2. task' = [task EXCEPT ![Client] = r]
      BY <1>1
    <2> HIDE DEF r
    <2>3. task'[Client] = r
      BY <2>2, TaskMoves, TasksDiffer DEF Types
    <2> QED
      BY <2>1, <2>3 DEF ClientPc
  <1>4. /\ contested # "afresh" /\ (Row \/ Pending("Stop")) /\ NoneGone /\ Distinct(queue)
    BY <1>2, AtRest
  <1>5. Listed'
    BY <1>2, <1>4, NotAsking, StillQueue DEF Listed
  <1>6. WarmKnown'
    BY <1>2, StillDeck, StillQueue, NotAsking DEF InvS, WarmKnown, WillDrop, WillDisarm
  <1>7. RowKnown'
    BY <1>2, <1>4, StillDeck, StillQueue, NotAsking DEF RowKnown, Row
  <1>8. ChoiceKnown'
    <2>1. ASSUME i # current PROVE ~HereIs(queue[i])
      BY <1>4, <2>1 DEF HereIs, OnRow, Distinct
    <2>2. ASSUME ~task'[Client].flag, NEW e, task'[Client].item = e PROVE ~HereIs(e)'
      <3>1. ~HereIs(e)
        BY <1>3, <2>1, <2>2
      <3> QED
        BY <1>2, <3>1, StillQueue
    <2> QED
      BY <1>3, <2>2 DEF ChoiceKnown
  <1>9. ArmsDisarmed' /\ Afresh'
    BY <1>3, <1>4 DEF ArmsDisarmed, Afresh
  <1> QED
    BY <1>5, <1>6, <1>7, <1>8, <1>9 DEF InvS

\* The row goes, and the one playback is on stays what it was.
LEMMA EvictRows ==
    ASSUME Types, Distinct(queue), ClientEvicts
    PROVE  /\ Distinct(queue)'
           /\ \A e : HereIs(e) /\ task[Client].item # e => HereIs(e)'
  <1>1. /\ queue \in Seq(Entry) /\ current \in Nat
    BY DEF Types, QueueTypes
  <1>2. PICK pos : pos = PositionOf(queue, task[Client].item)
    OBVIOUS
  <1>3. /\ queue' = IF pos = 0 THEN queue ELSE RemoveRow(queue, pos)
        /\ current' = IF pos = 0 THEN current ELSE Remap(current, pos)
    BY <1>2 DEF ClientEvicts
  <1>4. CASE pos = 0
    BY <1>3, <1>4 DEF Distinct, HereIs, OnRow
  <1>5. CASE pos # 0
    <2>1. pos \in 1..Len(queue) /\ queue[pos] = task[Client].item
      BY <1>1, <1>2, <1>5, PositionIsFirst
    <2>2. Distinct(RemoveRow(queue, pos))
      BY <1>1, <2>1, RemovedDistinct
    <2>3. ASSUME NEW e, HereIs(e), task[Client].item # e PROVE HereIs(e)'
      <3>1. current \in 1..Len(queue) /\ current # pos /\ queue[current] = e
        BY <1>1, <2>1, <2>3 DEF HereIs, OnRow
      <3>2. Remap(current, pos) \in 1..Len(RemoveRow(queue, pos)) /\ RemoveRow(queue, pos)[Remap(current, pos)] = e
        BY <1>1, <2>1, <3>1, RemapFollows
      <3>3. RemoveRow(queue, pos) \in Seq(Entry)
        BY <1>1, <2>1, RemoveRowShape
      <3> QED
        BY <1>3, <1>5, <3>2, <3>3 DEF HereIs, OnRow
    <2> QED
      BY <1>3, <1>5, <2>2, <2>3 DEF Distinct
  <1> QED
    BY <1>4, <1>5

LEMMA EvictS ==
    ASSUME Types, AskInv, InvS, UNCHANGED contested, ClientEvicts
    PROVE  InvS'
  <1>1. /\ UNCHANGED <<actor, ring, slot>> /\ ClientPc = "evict"
        /\ IF task[Client].flag THEN Sent("Stop", Reschedule) ELSE NoRequest /\ Continue(Client, Reschedule)
    BY DEF ClientEvicts, DeckQuiet, At, ClientPc
  <1>2. /\ contested # "afresh" /\ (Row \/ Pending("Stop")) /\ NoneGone /\ Distinct(queue)
    BY <1>1, AtRest
  <1>3. Distinct(queue)' /\ \A e : HereIs(e) /\ task[Client].item # e => HereIs(e)'
    BY <1>2, EvictRows
  <1>4. CASE task[Client].flag
    <2>1. Reschedule \in Seq(Todo)
      BY ScheduleType
    <2> QED
      BY <1>1, <1>2, <1>3, <1>4, <2>1, AllBehind, SentS
  <1>5. CASE ~task[Client].flag
    <2>1. /\ UNCHANGED <<cmds, reply>> /\ ClientPc' = "todo" /\ task'[Client].todo = Reschedule
      <3>1. Reschedule # << >>
        BY DEF Reschedule
      <3> QED
        BY <1>1, <1>5, <3>1, TaskMoves, TasksDiffer DEF NoRequest, ClientPc, Types
    <2>2. Listed'
      BY <1>1, <1>2, <1>3, <2>1, NotAsking DEF Listed
    <2>3. WillDisarm'
      <3>1. 1 \in DOMAIN Reschedule /\ Reschedule[1] = "disarm"
        BY DEF Reschedule
      <3> QED
        BY <2>1, <3>1 DEF WillDisarm
    <2>4. WarmKnown'
      BY <1>1, <2>1, <2>3, StillDeck, StillQueue, NotAsking DEF InvS, WarmKnown, WillDrop
    <2>5. Row => Row'
      <3>1. Latch' = Latch
        BY <1>1, StillDeck
      <3>2. ASSUME NEW e, LatchIs(e), HereIs(e) PROVE Row'
        <4>1. task[Client].item # e
          BY <1>1, <1>5, <3>2 DEF InvS, ChoiceKnown
        <4> QED
          BY <1>1, <1>3, <3>2, <4>1, StillDeck DEF Row
      <3> QED
        BY <3>1, <3>2 DEF Row
    <2>6. RowKnown'
      BY <1>1, <1>2, <2>1, <2>5, NotAsking DEF RowKnown
    <2>7. ArmsDisarmed' /\ ChoiceKnown' /\ Afresh'
      BY <1>2, <2>1, AllBehind DEF ArmsDisarmed, ChoiceKnown, Afresh, Behind
    <2> QED
      BY <2>2, <2>4, <2>6, <2>7 DEF InvS
  <1> QED
    BY <1>4, <1>5

\* A step that asks for nothing that stops, loads or drops, in a call that is
\* neither loading nor evicting.
LEMMA CalmS ==
    ASSUME Types, AskInv, InvS, contested # "afresh", Row \/ Pending("Stop"),
           UNCHANGED <<actor, ring, contested, queue, current, modes, slot>>,
           NoneGone => NoneGone', \A op : Pending(op) => Pending(op)',
           ClientPc' \notin {"load", "loading", "evict"},
           ~WillDisarm, ClientPc' = "todo" => Behind(task'[Client].todo)
    PROVE  InvS'
  <1>1. Listed'
    BY StillQueue DEF InvS, Listed
  <1>2. WarmKnown'
    <2>1. WillDrop => WillDrop'
      BY DEF WillDrop
    <2> QED
      BY <2>1, StillDeck, StillQueue DEF InvS, WarmKnown
  <1>3. RowKnown'
    BY StillDeck, StillQueue DEF RowKnown, Row
  <1>4. ChoiceKnown' /\ Afresh' /\ ArmsDisarmed'
    BY DEF ChoiceKnown, Afresh, ArmsDisarmed, Behind
  <1> QED
    BY <1>1, <1>2, <1>3, <1>4 DEF InvS

LEMMA ResumeS ==
    ASSUME Types, AskInv, InvS, UNCHANGED contested, ClientResume \/ ClientResumesStopped
    PROVE  InvS'
  <1>1. /\ UNCHANGED <<actor, ring, queue, current, modes, slot>> /\ ClientPc = "idle"
        /\ NoRequest \/ Ask(Client, "Resume")
    BY DEF ClientResume, ClientResumesStopped, Gesture, DeckQuiet, At, ClientPc, queueVars, Sent
  <1>2. ClientPc' \notin {"load", "loading", "evict"} /\ (ClientPc' = "todo" => Behind(task'[Client].todo))
    <2>1. CASE ClientResume
      <3>1. task' = [task EXCEPT ![Client] = [NoTask EXCEPT !.pc = "install"]]
        BY <2>1 DEF ClientResume
      <3>2. [NoTask EXCEPT !.pc = "install"].pc = "install"
        BY DEF NoTask
      <3>3. ClientPc' = "install"
        BY <3>1, <3>2, TaskMoves, TasksDiffer DEF ClientPc, Types
      <3> QED
        BY <3>3
    <2>2. CASE ClientResumesStopped
      <3>1. Continue(Client, <<"wait">> \o << >>)
        BY <2>2 DEF ClientResumesStopped, Sent
      <3>2. <<"wait">> \o << >> # << >>
        OBVIOUS
      <3>3. PICK todo : todo = <<"wait">> \o << >>
        OBVIOUS
      <3>4. ClientPc' = "todo" /\ task'[Client].todo = todo
        BY <3>1, <3>2, <3>3, TaskMoves, TasksDiffer DEF ClientPc, Types
      <3> QED
        BY <3>3, <3>4, AllBehind
    <2> QED
      BY <2>1, <2>2
  <1>3. /\ NoneGone => NoneGone'
        /\ \A op : Pending(op) => Pending(op)'
    <2>1. CASE NoRequest
      BY <1>1, <2>1, NotAsking DEF NoRequest
    <2>2. CASE Ask(Client, "Resume")
      <3>1. Request(deck, Client, "Resume", NoLoad)
        BY <2>2 DEF Ask
      <3>2. /\ NoneGone => NoneGone'
            /\ \A o : Pending(o)' <=> Pending(o) \/ o = "Resume"
        BY <1>1, <3>1, Asking
      <3> QED
        BY <3>2
    <2> QED
      BY <1>1, <2>1, <2>2
  <1>4. /\ contested # "afresh" /\ (Row \/ Pending("Stop"))
    BY <1>1, AtRest
  <1>5. ~WillDisarm
    BY <1>1 DEF WillDisarm
  <1> QED
    BY <1>1, <1>2, <1>3, <1>4, <1>5, CalmS

LEMMA FadeS ==
    ASSUME Types, AskInv, InvS, UNCHANGED contested, FadeStep
    PROVE  InvS'
  <1>1. /\ UNCHANGED <<actor, ring, queue, current, modes, slot, task>> /\ fade # "none"
        /\ NoRequest \/ Ask(Fader, "Pause")
    BY DEF FadeStep, FadePauses, FadePaused, FadeRestored, DeckQuiet, queueVars
  <1>2. /\ NoneGone => NoneGone'
        /\ \A op : op \in {"Stop", "DropWarm", "PlayUrl"} => (Pending(op)' <=> Pending(op))
        /\ Granted(Client)' <=> Granted(Client)
    <2>1. CASE NoRequest
      BY <1>1, <2>1, NotAsking DEF NoRequest
    <2>2. CASE Ask(Fader, "Pause")
      <3>1. Request(deck, Fader, "Pause", NoLoad)
        BY <2>2 DEF Ask
      <3>2. /\ NoneGone => NoneGone'
            /\ \A o : Pending(o)' <=> Pending(o) \/ o = "Pause"
            /\ \A b \in Caller : b # Fader => (Granted(b)' <=> Granted(b))
        BY <1>1, <3>1, Asking
      <3> QED
        BY <3>2, TasksDiffer
    <2> QED
      BY <1>1, <2>1, <2>2
  <1>3. contested # "afresh"
    BY <1>1 DEF InvS, Afresh
  <1>4. ClientPc' = ClientPc /\ (WillDisarm' <=> WillDisarm)
    BY <1>1 DEF ClientPc, WillDisarm
  <1>5. Listed'
    BY <1>1, <1>2, StillQueue DEF InvS, Listed
  <1>6. WarmKnown'
    BY <1>1, <1>2, <1>4, StillDeck, StillQueue DEF InvS, WarmKnown, WillDrop
  <1>7. RowKnown'
    BY <1>1, <1>2, <1>4, StillDeck, StillQueue DEF InvS, RowKnown, Row
  <1>8. ChoiceKnown'
    BY <1>1, <1>2, <1>4, StillDeck, StillQueue DEF InvS, ChoiceKnown
  <1>9. ArmsDisarmed' /\ Afresh'
    BY <1>1, <1>3, <1>4 DEF InvS, ArmsDisarmed, Afresh
  <1> QED
    BY <1>5, <1>6, <1>7, <1>8, <1>9 DEF InvS

LEMMA LoadReturnsS ==
    ASSUME Types, AskInv, InvS, ~Met, Orderly', LoadReturns(Client)
    PROVE  InvS'
  <1>1. /\ UNCHANGED <<actor, ring, cmds, reply, queue, modes, slot>> /\ ClientPc = "loading"
        /\ reply[Client] # "wait"
        /\ IF reply[Client] = "ok" THEN current' = task[Client].idx /\ Continue(Client, Reschedule)
           ELSE current' = current /\ Continue(Client, << >>)
        /\ contested' = IF contested = "afresh" THEN IF reply[Client] = "ok" THEN "no" ELSE "yes" ELSE contested
    BY DEF LoadReturns, NoRequest, At, ClientPc, Answered
  <1>2. Granted(Client) <=> reply[Client] = "ok"
    BY <1>1, Given
  <1>3. Listed'
    BY <1>1, NotAsking, StillQueue DEF InvS, Listed
  <1>4. CASE reply[Client] = "ok"
    <2>1. ClientPc' = "todo" /\ task'[Client].todo = Reschedule
      <3>1. Reschedule # << >>
        BY DEF Reschedule
      <3> QED
        BY <1>1, <1>4, <3>1, TaskMoves, TasksDiffer DEF Types, ClientPc
    <2>2. PICK e : task[Client].item = e /\ LatchIs(e) /\ Bare
      BY <1>1, <1>2, <1>4 DEF InvS, ChoiceKnown
    <2>3. Row' /\ Bare'
      <3>1. OnRow' /\ queue'[current'] = e
        BY <1>1, <1>4, <2>2 DEF InvS, ChoiceKnown, OnRow
      <3>2. LatchIs(e)' /\ Bare'
        BY <1>1, <2>2, StillDeck
      <3> QED
        BY <3>1, <3>2 DEF Row, HereIs
    <2>4. WarmKnown' /\ RowKnown'
      BY <2>3 DEF WarmKnown, RowKnown
    <2>5. Afresh'
      BY <1>1, <1>4 DEF Afresh
    <2>6. ChoiceKnown' /\ ArmsDisarmed'
      BY <2>1, AllBehind DEF ArmsDisarmed, ChoiceKnown, Behind
    <2> QED
      BY <1>3, <2>4, <2>5, <2>6 DEF InvS
  <1>5. CASE reply[Client] # "ok"
    <2>1. ClientPc' = "idle"
      BY <1>1, <1>5, TaskMoves, TasksDiffer DEF Types, ClientPc
    <2>2. contested = "no" /\ contested' = "no" /\ ~Granted(Client)
      BY <1>1, <1>2, <1>5 DEF Orderly
    <2>3. WarmKnown'
      <3>1. ~WillDisarm
        BY <1>1 DEF WillDisarm
      <3> QED
        BY <1>1, <1>5, <2>2, <3>1, StillDeck, StillQueue, NotAsking DEF InvS, WarmKnown, WillDrop
    <2>4. RowKnown'
      <3>1. Row \/ Pending("Stop")
        BY <2>2 DEF InvS, RowKnown
      <3> QED
        BY <1>1, <1>5, <3>1, StillDeck, StillQueue, NotAsking DEF RowKnown, Row
    <2>5. ChoiceKnown' /\ ArmsDisarmed' /\ Afresh'
      BY <2>1, <2>2 DEF ChoiceKnown, ArmsDisarmed, Afresh
    <2> QED
      BY <1>3, <2>3, <2>4, <2>5 DEF InvS
  <1> QED
    BY <1>4, <1>5

\* The first thing left to do is done, and perhaps waited for.
LEMMA NextToDo ==
    ASSUME TaskTypes, ClientPc = "todo", NEW waits \in BOOLEAN,
           Continue(Client, IF waits THEN <<"wait">> \o Rest(Client) ELSE Rest(Client))
    PROVE  /\ ClientPc' \in {"todo", "idle"}
           /\ waits => ClientPc' = "todo"
           /\ Head(task[Client].todo) # "disarm" /\ WillDisarm => WillDisarm'
           /\ \A i \in DOMAIN task'[Client].todo : ClientPc' = "todo" /\ task'[Client].todo[i] = "arm" =>
                 \E m \in DOMAIN task[Client].todo :
                    /\ task[Client].todo[m] = "arm"
                    /\ \A j \in 1..(m - 1) : task[Client].todo[j] = "disarm" /\ Head(task[Client].todo) # "disarm" =>
                          \E n \in 1..(i - 1) : task'[Client].todo[n] = "disarm"
  <1> DEFINE old == task[Client].todo
             rest == Tail(old)
             new == IF waits THEN <<"wait">> \o rest ELSE rest
  <1>1. /\ task \in [{Spine, Client} -> Task] /\ old \in Seq(Todo) /\ old # << >>
    BY DEF TaskTypes, Task, At, ClientPc
  <1>2. /\ rest \in Seq(Todo) /\ DOMAIN old = 1..Len(old) /\ Len(old) \in Nat /\ Len(rest) = Len(old) - 1
        /\ \A i \in DOMAIN rest : i + 1 \in DOMAIN old /\ rest[i] = old[i + 1] /\ i \in Nat /\ i >= 1
        /\ \A m \in DOMAIN old : m # 1 => m - 1 \in DOMAIN rest /\ rest[m - 1] = old[m]
        /\ Head(old) = old[1]
    BY <1>1
  <1>3. /\ <<"wait">> \o rest # << >>
        /\ \A i \in DOMAIN (<<"wait">> \o rest) : i = 1 \/ (i - 1 \in DOMAIN rest /\ (<<"wait">> \o rest)[i] = rest[i - 1])
        /\ \A i \in DOMAIN rest : i + 1 \in DOMAIN (<<"wait">> \o rest) /\ (<<"wait">> \o rest)[i + 1] = rest[i]
        /\ (<<"wait">> \o rest)[1] = "wait"
        /\ <<"wait">> \o rest \in Seq(Todo)
    <2>1. <<"wait">> \in Seq(Todo)
      BY DEF Todo
    <2>2. rest \in Seq(Todo)
      BY <1>2
    <2> HIDE DEF rest
    <2> QED
      BY <2>1, <2>2, WaitFirst
  <1>4. PICK shift \in {0, 1} :
            /\ waits <=> shift = 0
            /\ \A i \in DOMAIN new : i \in Nat /\ i >= 1
            /\ \A i \in DOMAIN new : new[i] \in {"arm", "disarm"} => i + shift \in DOMAIN old /\ old[i + shift] = new[i]
            /\ \A m \in DOMAIN old : m # 1 => m - shift \in DOMAIN new /\ new[m - shift] = old[m]
            /\ new \in Seq(Todo)
    <2>1. CASE waits
      <3>1. new = <<"wait">> \o rest
        BY <2>1
      <3>2. ASSUME NEW i \in DOMAIN new, new[i] \in {"arm", "disarm"} PROVE i \in DOMAIN old /\ old[i] = new[i]
        <4>1. i # 1 /\ i - 1 \in DOMAIN rest /\ new[i] = rest[i - 1]
          BY <1>3, <3>1, <3>2
        <4>2. i \in Nat
          BY <1>3, <3>1
        <4> QED
          BY <1>2, <4>1, <4>2
      <3>3. ASSUME NEW m \in DOMAIN old, m # 1 PROVE m \in DOMAIN new /\ new[m] = old[m]
        <4>1. m - 1 \in DOMAIN rest /\ rest[m - 1] = old[m] /\ m \in Nat
          BY <1>2, <3>3
        <4>2. (m - 1) + 1 \in DOMAIN new /\ new[(m - 1) + 1] = rest[m - 1]
          BY <1>3, <3>1, <4>1
        <4> QED
          BY <4>1, <4>2
      <3>4. \A i \in DOMAIN new : i \in Nat /\ i >= 1 /\ i + 0 = i
        BY <1>3, <3>1
      <3>5. \A m \in DOMAIN old : m - 0 = m
        BY <1>2
      <3>6. new \in Seq(Todo)
        BY <1>3, <3>1
      <3> HIDE DEF new, old
      <3> QED
        BY <2>1, <3>2, <3>3, <3>4, <3>5, <3>6
    <2>2. CASE ~waits
      <3>1. new = rest
        BY <2>2
      <3> HIDE DEF new, old, rest
      <3> QED
        BY <1>2, <2>2, <3>1
    <2> QED
      BY <2>1, <2>2
  <1>5. Continue(Client, new)
    BY DEF Rest
  <1> HIDE DEF old, rest, new
  <1>6. CASE new = << >>
    <2>1. ClientPc' = "idle"
      BY <1>5, <1>6, TaskMoves, TasksDiffer DEF ClientPc
    <2>2. ~waits
      BY <1>3, <1>6 DEF new
    <2>3. \A m \in DOMAIN old : m = 1
      BY <1>4, <1>6
    <2>4. Head(old) # "disarm" => ~WillDisarm
      BY <1>2, <2>3 DEF WillDisarm, old
    <2> QED
      BY <2>1, <2>2, <2>4 DEF old
  <1>7. CASE new # << >>
    <2>1. ClientPc' = "todo" /\ task'[Client].todo = new
      BY <1>5, <1>7, TaskMoves, TasksDiffer DEF ClientPc
    <2>2. ASSUME Head(old) # "disarm", WillDisarm PROVE WillDisarm'
      <3>1. PICK m \in DOMAIN old : old[m] = "disarm"
        BY <2>2 DEF WillDisarm, old
      <3>2. m # 1
        BY <1>2, <2>2, <3>1
      <3> QED
        BY <1>4, <2>1, <3>1, <3>2 DEF WillDisarm
    <2>3. ASSUME NEW i \in DOMAIN new, new[i] = "arm"
          PROVE  \E m \in DOMAIN old :
                    /\ old[m] = "arm"
                    /\ \A j \in 1..(m - 1) : old[j] = "disarm" /\ Head(old) # "disarm" =>
                          \E n \in 1..(i - 1) : new[n] = "disarm"
      <3>1. PICK m : m = i + shift
        OBVIOUS
      <3>2. m \in DOMAIN old /\ old[m] = "arm" /\ i \in Nat
        BY <1>4, <2>3, <3>1
      <3>3. ASSUME NEW j \in 1..(m - 1), old[j] = "disarm", Head(old) # "disarm"
            PROVE  j - shift \in 1..(i - 1) /\ new[j - shift] = "disarm"
        <4>1. j # 1 /\ j \in DOMAIN old
          BY <1>2, <3>2, <3>3
        <4>2. j - shift \in DOMAIN new /\ new[j - shift] = "disarm"
          BY <1>4, <3>3, <4>1
        <4>3. j - shift >= 1 /\ j - shift \in Int
          BY <1>4, <4>2
        <4> QED
          BY <1>4, <3>1, <3>2, <4>2, <4>3
      <3> QED
        BY <3>2, <3>3
    <2> QED
      BY <2>1, <2>2, <2>3 DEF old
  <1> QED
    BY <1>6, <1>7

LEMMA EndsS ==
    ASSUME Types, AskInv, InvS, UNCHANGED contested,
           Disarm(Client) \/ Drop(Client) \/ Waited(Client) \/ Arm(Client)
    PROVE  InvS'
  <1>1. /\ UNCHANGED <<actor, ring, queue, current, modes>> /\ ClientPc = "todo"
        /\ NoRequest \/ Ask(Client, "DropWarm")
    BY DEF Disarm, Drop, Waited, Arm, Doing, At, ClientPc, DeckQuiet, queueVars
  <1>2. PICK waits \in BOOLEAN :
          /\ Continue(Client, IF waits THEN <<"wait">> \o Rest(Client) ELSE Rest(Client))
          /\ Ask(Client, "DropWarm") \/ (NoRequest /\ ~(Disarm(Client) /\ slot.st = "warmed"))
    BY DEF Disarm, Drop, Waited, Arm
  <1>3. /\ ClientPc' \in {"todo", "idle"}
        /\ Head(task[Client].todo) # "disarm" /\ WillDisarm => WillDisarm'
        /\ \A i \in DOMAIN task'[Client].todo : ClientPc' = "todo" /\ task'[Client].todo[i] = "arm" =>
                 \E m \in DOMAIN task[Client].todo :
                    /\ task[Client].todo[m] = "arm"
                    /\ \A j \in 1..(m - 1) : task[Client].todo[j] = "disarm" /\ Head(task[Client].todo) # "disarm" =>
                          \E n \in 1..(i - 1) : task'[Client].todo[n] = "disarm"
    BY <1>1, <1>2, NextToDo DEF Types
  <1>4. /\ contested # "afresh" /\ (Row \/ Pending("Stop")) /\ NoneGone /\ Distinct(queue)
    BY <1>1, AtRest
  <1>5. /\ NoneGone'
        /\ \A o : Pending(o) => Pending(o)'
        /\ Ask(Client, "DropWarm") => WillDrop'
    <2>1. CASE NoRequest
      <3>1. UNCHANGED reply
        BY <2>1 DEF NoRequest
      <3>2. ~Ask(Client, "DropWarm")
        <4>1. reply \in [Caller -> {"none", "wait", "ok", "err"}] /\ Client \in Caller
          BY RowTypes, TasksDiffer
        <4> QED
          BY <3>1, <4>1 DEF Ask, Request
      <3> QED
        BY <1>1, <1>4, <2>1, <3>2, NotAsking DEF NoRequest
    <2>2. CASE Ask(Client, "DropWarm")
      <3>1. Request(deck, Client, "DropWarm", NoLoad)
        BY <2>2 DEF Ask
      <3>2. /\ NoneGone => NoneGone'
            /\ \A o : Pending(o)' <=> Pending(o) \/ o = "DropWarm"
        BY <1>1, <3>1, Asking
      <3> QED
        BY <1>4, <3>2 DEF WillDrop
    <2> QED
      BY <1>1, <2>1, <2>2
  <1>6. Listed' /\ RowKnown'
    BY <1>1, <1>4, <1>5, StillDeck, StillQueue DEF Listed, RowKnown, Row
  <1>7. ChoiceKnown' /\ Afresh'
    BY <1>3, <1>4 DEF ChoiceKnown, Afresh
  <1>8. WillDrop => WillDrop'
    BY <1>5 DEF WillDrop
  <1>9. WarmKnown' /\ ArmsDisarmed'
    <2>1. CASE Disarm(Client)
      <3>1. slot' = NoSlot
        BY <2>1 DEF Disarm
      <3>2. ~(slot'.st = "warmed")
        BY <3>1 DEF NoSlot
      <3>3. slot.st = "warmed" => WillDrop'
        BY <1>2, <1>5, <2>1
      <3>4. WarmKnown'
        BY <1>1, <1>8, <3>3, StillDeck DEF InvS, WarmKnown, Warmed
      <3> QED
        BY <3>2, <3>4 DEF ArmsDisarmed
    <2>2. CASE Drop(Client) \/ Waited(Client)
      <3>1. slot' = slot /\ Head(task[Client].todo) # "disarm"
        BY <2>2 DEF Drop, Waited, Doing
      <3>2. WarmKnown'
        BY <1>1, <1>3, <1>8, <3>1, StillDeck, StillQueue DEF InvS, WarmKnown
      <3>3. ArmsDisarmed'
        BY <1>1, <1>3, <3>1 DEF InvS, ArmsDisarmed
      <3> QED
        BY <3>2, <3>3
    <2>3. CASE Arm(Client)
      <3>1. 1 \in DOMAIN task[Client].todo /\ task[Client].todo[1] = "arm"
        <4>1. task[Client].todo \in Seq(Todo) /\ task[Client].todo # << >>
          BY <1>1 DEF Types, TaskTypes, Task, At, ClientPc
        <4> QED
          BY <2>3, <4>1 DEF Arm, Doing
      <3>2. slot.st # "warmed"
        BY <1>1, <3>1 DEF InvS, ArmsDisarmed
      <3>3. slot'.st # "warmed"
        BY <2>3, <3>2 DEF Arm
      <3>4. WarmKnown'
        BY <1>1, <1>8, <3>2, StillDeck DEF InvS, WarmKnown, Warmed
      <3> QED
        BY <3>3, <3>4 DEF ArmsDisarmed
    <2> QED
      BY <2>1, <2>2, <2>3
  <1> QED
    BY <1>6, <1>7, <1>9 DEF InvS

\* A spine that only reads, or finds its timer has nothing to warm.
LEMMA QuietS ==
    ASSUME Types, AskInv, InvS, SpineQuiet, UNCHANGED contested,
           \/ SpinePlaying \/ SpinePaused \/ SpineStopped \/ SpineTimePos
           \/ WarmFires /\ WarmReady = 0
    PROVE  InvS'
  <1>1. /\ UNCHANGED <<actor, cmds, reply, task, queue, current, modes, fade>>
        /\ slot' = slot \/ (slot.st = "armed" /\ slot' = NoSlot)
    BY DEF SpinePlaying, SpinePaused, SpineStopped, SpineTimePos, SpineReads, WarmFires, DeckQuiet, NoRequest, queueVars
  <1>2. /\ Latch' = Latch /\ Warmth' = Warmth /\ ClientPc' = ClientPc
        /\ \A e : (LatchIs(e)' <=> LatchIs(e)) /\ (Parked(e)' <=> Parked(e))
        /\ Bare' <=> Bare
        /\ WillDisarm' <=> WillDisarm
    BY <1>1 DEF Latch, Warmth, Bare, LatchIs, Parked, ClientPc, WillDisarm
  <1>3. \A e : Warmed(e) => Warmed(e)'
    BY <1>1 DEF Warmed
  <1>4. slot'.st = "warmed" => slot.st = "warmed"
    BY <1>1 DEF NoSlot
  <1>5. Listed' /\ RowKnown'
    BY <1>1, <1>2, NotAsking, StillQueue DEF InvS, Listed, RowKnown, Row
  <1>6. WarmKnown'
    BY <1>1, <1>2, <1>3, NotAsking, StillQueue DEF InvS, WarmKnown, WillDrop
  <1>7. ChoiceKnown' /\ ArmsDisarmed' /\ Afresh'
    BY <1>1, <1>2, <1>4, NotAsking, StillQueue DEF InvS, ChoiceKnown, ArmsDisarmed, Afresh
  <1> QED
    BY <1>5, <1>6, <1>7 DEF InvS

\* A step that changes nothing keeps what there is.
LEMMA StutterRow ==
    ASSUME RowInv, UNCHANGED vars
    PROVE  RowInv'
  <1>1. /\ UNCHANGED <<mpv, actor, ring, cmds, reply, task, queue, current, modes, slot, fade, contested>>
    BY DEF vars, queueVars
  <1>2. /\ SpinePc' = SpinePc /\ ClientPc' = ClientPc /\ (WillDisarm' <=> WillDisarm) /\ (Landed' <=> Landed)
        /\ Target' = Target /\ (OursStill' <=> OursStill)
        /\ (WillDrop' <=> WillDrop) /\ (Row' <=> Row)
    BY <1>1, StillDeck, StillQueue, NotAsking
    DEF SpinePc, ClientPc, WillDisarm, Landed, Target, OursStill, WillDrop, Row
  <1>3. (Orderly' <=> Orderly) /\ (SpineQuiet' <=> SpineQuiet) /\ (ClientQuiet' <=> ClientQuiet)
    BY <1>1, <1>2, StillDeck DEF Orderly, SpineQuiet, ClientQuiet, EndQueued
  <1>4. Listed' <=> Listed
    BY <1>1, NotAsking, StillQueue DEF Listed
  <1>5. ASSUME InvS PROVE InvS'
    <2>1. WarmKnown' /\ RowKnown'
      BY <1>1, <1>2, <1>5, StillDeck, StillQueue, NotAsking DEF InvS, WarmKnown, RowKnown
    <2>2. ChoiceKnown'
      BY <1>1, <1>2, <1>5, StillDeck, StillQueue, NotAsking DEF InvS, ChoiceKnown
    <2>3. ArmsDisarmed' /\ Afresh'
      BY <1>1, <1>2, <1>5 DEF InvS, ArmsDisarmed, Afresh
    <2> QED
      BY <1>4, <1>5, <2>1, <2>2, <2>3 DEF InvS
  <1>6. ASSUME InvC PROVE InvC'
    <2>1. Calm'
      BY <1>1, <1>2, <1>6 DEF InvC, Calm
    <2>2. EndsBare' /\ EndsOrder' /\ EndsSilent'
      BY <1>1, <1>6, StillDeck, NotAsking DEF InvC, Ending, EndsBare, EndsOrder, EndsSilent
    <2>3. LandsNext'
      BY <1>1, <1>2, <1>6, StillDeck, StillQueue, NotAsking DEF InvC, Ending, LandsNext
    <2>4. WarmNext'
      BY <1>1, <1>2, <1>6, StillDeck, StillQueue, NotAsking DEF InvC, WarmNext
    <2>5. AdvanceNext'
      BY <1>1, <1>2, <1>6, StillDeck, StillQueue DEF InvC, AdvanceNext
    <2>6. LoadNext' /\ RowNext'
      BY <1>1, <1>2, <1>6, StillDeck, NotAsking DEF InvC, LoadNext, RowNext
    <2> QED
      BY <1>4, <1>6, <2>1, <2>2, <2>3, <2>4, <2>5, <2>6 DEF InvC, Ending
  <1> QED
    BY <1>3, <1>5, <1>6 DEF RowInv

\* The spine does not give up on an answer in a behaviour that is orderly after.
LEMMA TimeoutRow ==
    ASSUME Types, RowInv, AdvanceTimeout
    PROVE  ~Orderly'
  <1> SUFFICES ASSUME Orderly' PROVE FALSE
    OBVIOUS
  <1>1. ~Met /\ contested = "afresh"
    BY DEF AdvanceTimeout, GiveUp, Orderly
  <1>2. ~SpineQuiet
    BY DEF AdvanceTimeout, SpineQuiet, SpinePc
  <1>3. ClientQuiet
    BY <1>1, <1>2, MetIs
  <1> QED
    BY <1>1, <1>3 DEF RowInv, Orderly, InvC, Calm

LEMMA BridgeHolds ==
    Types /\ AskInv /\ Orderly /\ SpineQuiet /\ ClientQuiet => (InvS <=> InvC)
  BY Bridge

LEMMA BridgeAfter ==
    (Types /\ AskInv /\ Orderly /\ SpineQuiet /\ ClientQuiet => (InvS <=> InvC))'
  BY BridgeHolds, PTL

LEMMA DeckRow ==
    ASSUME Types, Types', FlightInv, AskInv, AskInv', RowInv, DeckStep
    PROVE  RowInv'
  <1> SUFFICES ASSUME Orderly' PROVE (SpineQuiet' => InvS') /\ (ClientQuiet' => InvC')
    BY DEF RowInv
  <1>1. /\ DeckMoves /\ UNCHANGED <<queueVars, slot, fade, task>> /\ Contest
    BY StepMoves
  <1>2. ~Met /\ UNCHANGED contested /\ Orderly
    BY <1>1 DEF Contest, Orderly
  <1>3. ClientQuiet' <=> ClientQuiet
    BY <1>1 DEF ClientQuiet, ClientPc
  <1>4. CASE ClientQuiet
    <2>1. InvC'
      BY <1>1, <1>2, <1>4, DeckKeepsC DEF RowInv
    <2>2. SpineQuiet' => InvS'
      BY <1>3, <1>4, <2>1, BridgeAfter
    <2> QED
      BY <2>1, <2>2
  <1>5. CASE ~ClientQuiet
    <2>1. SpineQuiet
      BY <1>2, <1>5, MetIs
    <2>2. InvS'
      BY <1>1, <1>2, <2>1, DeckKeepsS DEF RowInv
    <2> QED
      BY <1>3, <1>5, <2>2
  <1> QED
    BY <1>4, <1>5

\* A step of the spine's that is not the deck's nor a timeout.
SpineActs ==
    \/ SpinePlaying \/ SpinePaused \/ SpineStopped \/ SpineTimePos \/ SpineEof
    \/ HaltFailedAdvance \/ PlanNext \/ CommitLandedAdvance \/ AdvanceLoads
    \/ LandedNowhere \/ DrainTerminal \/ AdvanceReturns
    \/ PrefetchReturns \/ Unwarmed \/ WarmFires \/ TaskStep(Spine)

LEMMA SpineContests ==
    ASSUME TaskTypes, SpineActs
    PROVE  Contest /\ fade' = fade /\ task'[Client] = task[Client]
  <1>1. CASE SpinePlaying \/ SpinePaused \/ SpineStopped \/ SpineTimePos \/ SpineEof
    BY <1>1, TaskMoves, TasksDiffer
    DEF SpinePlaying, SpinePaused, SpineStopped, SpineTimePos, SpineEof, SpineReads
  <1>2. CASE \/ HaltFailedAdvance \/ CommitLandedAdvance \/ AdvanceLoads
             \/ LandedNowhere \/ DrainTerminal \/ AdvanceReturns
    BY <1>2, TaskMoves, TasksDiffer
    DEF HaltFailedAdvance, CommitLandedAdvance, AdvanceLoads, LandedNowhere, DrainTerminal, AdvanceReturns,
        DeckQuiet, Reschedule
  <1>3. CASE PlanNext
    <2>1. Contest /\ fade' = fade
      BY <1>3 DEF PlanNext, DeckQuiet
    <2>2. task'[Client] = task[Client]
      <3>1. task \in [{Spine, Client} -> Task]
        BY DEF TaskTypes
      <3> QED
        BY <1>3, <3>1, TasksDiffer DEF PlanNext
    <2> QED
      BY <2>1, <2>2
  <1>4. CASE PrefetchReturns \/ Unwarmed
    BY <1>4, TaskMoves, TasksDiffer DEF PrefetchReturns, Unwarmed, DeckQuiet
  <1>5. CASE WarmFires
    <2>1. task \in [{Spine, Client} -> Task]
      BY DEF TaskTypes
    <2> QED
      BY <1>5, <2>1, TasksDiffer DEF WarmFires, DeckQuiet
  <1>6. CASE TaskStep(Spine)
    <2>1. \E todo : Continue(Spine, todo)
      BY <1>6 DEF TaskStep, LoadReturns, Disarm, Drop, Waited, Arm
    <2>2. Contest /\ fade' = fade
      BY <1>6, TasksDiffer DEF TaskStep, LoadReturns, Disarm, Drop, Waited, Arm, DeckQuiet, Contest
    <2> QED
      BY <2>1, <2>2, TaskMoves, TasksDiffer
  <1> QED
    BY <1>1, <1>2, <1>3, <1>4, <1>5, <1>6 DEF SpineActs

LEMMA SpineKeepsC ==
    ASSUME Types, AskInv, ClientQuiet, InvC, UNCHANGED contested, SpineActs
    PROVE  InvC'
  <1>1. ~Unwarmed
    BY DEF InvC, Calm, Unwarmed, At, SpinePc
  <1>2. TaskStep(Spine) => InvC'
    BY LoadReturnsC, EndsC DEF TaskStep
  <1> QED
    BY <1>1, <1>2, ReadsC, EofC, HaltC, PlanC, CommitC, AdvanceLoadsC, NowhereC, DrainC, ReturnsC,
       PrefetchReturnsC, WarmFiresC DEF SpineActs

LEMMA SpineRow ==
    ASSUME Types, Types', AskInv, AskInv', RowInv, SpineActs
    PROVE  RowInv'
  <1> SUFFICES ASSUME Orderly' PROVE (SpineQuiet' => InvS') /\ (ClientQuiet' => InvC')
    BY DEF RowInv
  <1>1. Contest /\ fade' = fade /\ task'[Client] = task[Client]
    BY SpineContests DEF Types
  <1>2. ~Met /\ UNCHANGED contested /\ Orderly
    BY <1>1 DEF Contest, Orderly
  <1>3. ClientQuiet' <=> ClientQuiet
    BY <1>1 DEF ClientQuiet, ClientPc
  <1>4. CASE ClientQuiet
    <2>1. InvC'
      BY <1>2, <1>4, SpineKeepsC DEF RowInv
    <2> QED
      BY <1>3, <1>4, <2>1, BridgeAfter
  <1>5. CASE ~ClientQuiet
    <2>1. SpineQuiet /\ InvS
      BY <1>2, <1>5, MetIs DEF RowInv
    <2>2. ASSUME SpineQuiet' PROVE InvS'
      <3>1. At(Spine, "idle") /\ SpinePc' = "idle"
        BY <2>1, <2>2 DEF SpineQuiet, SpinePc, At
      <3>2. ~SpineEof
        <4>1. SpineEof => \E k : EofAt(k)
          <5>1. SpineEof => ring # << >> /\ ring' = Tail(ring) /\ UNCHANGED actor /\ Head(ring).kind = "Eof"
            BY DEF SpineEof, SpineReads
          <5>2. FlightLen \in Nat
            BY RowTypes DEF FlightLen
          <5>3. SpineEof => EofAt(1)
            BY <5>1, <5>2, ShiftRead DEF EofAt, IsEof, Send
          <5> QED
            BY <5>3
        <4> QED
          BY <2>1, <4>1, NoEofAt DEF SpineQuiet
      <3>3. WarmFires => WarmReady = 0
        <4>1. WarmFires /\ WarmReady # 0 => SpinePc' = "prefetch"
          BY TasksDiffer DEF WarmFires, Types, TaskTypes, Task, SpinePc
        <4> QED
          BY <3>1, <4>1
      <3>4. \/ SpinePlaying \/ SpinePaused \/ SpineStopped \/ SpineTimePos
            \/ WarmFires /\ WarmReady = 0
        BY <3>1, <3>2, <3>3
        DEF SpineActs, At, HaltFailedAdvance, PlanNext, CommitLandedAdvance, AdvanceLoads, LandedNowhere,
            DrainTerminal, AdvanceReturns, PrefetchReturns, Unwarmed, TaskStep, LoadReturns, Disarm, Drop,
            Waited, Arm, Doing
      <3> QED
        BY <1>2, <2>1, <3>4, QuietS
    <2> QED
      BY <1>3, <1>5, <2>2
  <1> QED
    BY <1>4, <1>5

\* A step of the client's or of the fade's.
ClientActs ==
    \/ ClientPlay \/ ClientPicksUp \/ ClientStop \/ ClientClear \/ ClientDelete
    \/ ClientPause \/ ClientResume \/ ClientResumesStopped
    \/ ClientStep \/ FadeStep \/ TaskStep(Client)

\* The rows a choice may be made of.
LEMMA ClientPlays ==
    ASSUME Types, ClientPlay \/ ClientPicksUp
    PROVE  ClientPc = "idle" /\ \E i \in DOMAIN queue : \E held \in BOOLEAN : PlayIndex(i, held)
  <1>1. ClientPicksUp => current \in DOMAIN queue /\ PlayIndex(current, TRUE)
    BY DEF ClientPicksUp, Reported, OnRow
  <1> QED
    BY <1>1 DEF ClientPlay, ClientPicksUp, Gesture, At, ClientPc

LEMMA ClientMoves ==
    ASSUME Types, ClientActs
    PROVE  /\ UNCHANGED <<mpv, actor, ring>> /\ task'[Spine] = task[Spine]
           /\ ClientQuiet' => ~ClientQuiet
           /\ Met => contested' = "yes" \/ ClientPc' = "load"
  <1>1. CASE ClientPlay \/ ClientPicksUp
    <2>1. PICK i \in DOMAIN queue, held \in BOOLEAN : PlayIndex(i, held)
      BY <1>1, ClientPlays
    <2> DEFINE r == [NoTask EXCEPT !.pc = "load", !.idx = i, !.item = queue[i], !.flag = held]
    <2>2. r.pc = "load"
      BY DEF NoTask
    <2>3. task' = [task EXCEPT ![Client] = r] /\ UNCHANGED <<mpv, actor, ring>>
      BY <2>1 DEF PlayIndex
    <2> HIDE DEF r
    <2>4. task'[Client] = r /\ task'[Spine] = task[Spine]
      BY <2>3, TaskMoves, TasksDiffer DEF Types
    <2> QED
      BY <2>2, <2>3, <2>4 DEF ClientQuiet, ClientPc
  <1>2. ASSUME NEW todo \in Seq(Todo), Continue(Client, <<"wait">> \o todo)
        PROVE  ClientPc' = "todo" /\ task'[Spine] = task[Spine]
    <2>1. PICK s : s = <<"wait">> \o todo
      OBVIOUS
    <2>2. s # << >>
      BY <1>2, <2>1, WaitFirst
    <2> QED
      BY <1>2, <2>1, <2>2, TaskMoves, TasksDiffer DEF ClientPc, Types
  <1>3. /\ <<"disarm">> \in Seq(Todo) /\ << >> \in Seq(Todo) /\ Reschedule \in Seq(Todo)
        /\ Reschedule \o <<"drop", "disarm">> \in Seq(Todo) /\ Reschedule \o Reschedule \in Seq(Todo)
    BY DEF Reschedule, Todo
  <1>4. CASE ClientStop \/ ClientClear \/ ClientPause \/ ClientResumesStopped \/ ClientRampsUp
    <2>1. \E todo \in Seq(Todo) : Continue(Client, <<"wait">> \o todo)
      BY <1>3, <1>4 DEF ClientStop, ClientClear, ClientPause, ClientResumesStopped, ClientRampsUp, Sent
    <2>2. ClientPc' = "todo" /\ task'[Spine] = task[Spine]
      BY <1>2, <2>1
    <2>3. UNCHANGED <<mpv, actor, ring>> /\ Contest
      BY <1>4 DEF ClientStop, ClientClear, ClientPause, ClientResumesStopped, ClientRampsUp, DeckQuiet
    <2> QED
      BY <2>2, <2>3 DEF ClientQuiet, Contest
  <1>5. CASE ClientDelete \/ ClientResume \/ ClientLoads
    <2>1. UNCHANGED <<mpv, actor, ring>> /\ Contest
      BY <1>5 DEF ClientDelete, ClientResume, ClientLoads, DeckQuiet
    <2>2. \E r : task' = [task EXCEPT ![Client] = r] /\ r.pc \in {"evict", "install", "loading"}
      <3>1. CASE ClientDelete
        <4>1. PICK i \in DOMAIN queue :
                task' = [task EXCEPT ![Client] =
                          [NoTask EXCEPT !.pc = "evict", !.item = queue[i], !.flag = (i = current)]]
          BY <3>1 DEF ClientDelete
        <4>2. [NoTask EXCEPT !.pc = "evict", !.item = queue[i], !.flag = (i = current)].pc = "evict"
          BY DEF NoTask
        <4> QED
          BY <4>1, <4>2
      <3>2. CASE ClientResume
        <4>1. [NoTask EXCEPT !.pc = "install"].pc = "install"
          BY DEF NoTask
        <4> QED
          BY <3>2, <4>1 DEF ClientResume
      <3>3. CASE ClientLoads
        <4>1. task' = [task EXCEPT ![Client] = [task[Client] EXCEPT !.pc = "loading"]] /\ task[Client] \in Task
          BY <3>3 DEF ClientLoads, Goto, Types, TaskTypes
        <4>2. [task[Client] EXCEPT !.pc = "loading"].pc = "loading"
          BY <4>1 DEF Task
        <4> QED
          BY <4>1, <4>2
      <3> QED
        BY <1>5, <3>1, <3>2, <3>3
    <2>3. ClientPc' \in {"evict", "install", "loading"} /\ task'[Spine] = task[Spine]
      BY <2>2, TaskMoves, TasksDiffer DEF ClientPc, Types
    <2> QED
      BY <2>1, <2>3 DEF ClientQuiet, Contest
  <1>6. CASE ClientEvicts \/ TaskStep(Client)
    <2>1. UNCHANGED <<mpv, actor, ring>> /\ (Met => contested' = "yes")
      BY <1>6 DEF ClientEvicts, TaskStep, LoadReturns, Disarm, Drop, Waited, Arm, DeckQuiet, Contest
    <2>2. \E todo : Continue(Client, todo)
      BY <1>6 DEF ClientEvicts, TaskStep, LoadReturns, Disarm, Drop, Waited, Arm, Sent
    <2>3. task'[Spine] = task[Spine]
      BY <2>2, TaskMoves, TasksDiffer DEF Types
    <2>4. ~ClientQuiet
      BY <1>6 DEF ClientEvicts, TaskStep, LoadReturns, Disarm, Drop, Waited, Arm, Doing, At, ClientQuiet, ClientPc
    <2> QED
      BY <2>1, <2>3, <2>4
  <1>7. CASE FadeStep
    BY <1>7 DEF FadeStep, FadePauses, FadePaused, FadeRestored, DeckQuiet, Contest, ClientQuiet
  <1> QED
    BY <1>1, <1>4, <1>5, <1>6, <1>7 DEF ClientActs, ClientStep

LEMMA ClientKeepsS ==
    ASSUME Types, AskInv, RowInv, SpineQuiet, Orderly', ClientActs
    PROVE  InvS'
  <1>1. ~Met /\ SpinePc = "idle" /\ (Orderly => InvS)
    BY MetIs DEF RowInv, SpineQuiet
  <1>2. CASE ClientPlay \/ ClientPicksUp
    BY <1>1, <1>2, ClientPlays, PlayS
  <1>3. CASE LoadReturns(Client)
    <2>1. Orderly
      BY <1>1, <1>3 DEF LoadReturns, Orderly
    <2> QED
      BY <1>1, <1>3, <2>1, LoadReturnsS
  <1>4. CASE ~(ClientPlay \/ ClientPicksUp \/ LoadReturns(Client))
    <2>1. Contest
      BY <1>4 DEF ClientActs, ClientStep, FadeStep, TaskStep, ClientStop, ClientClear, ClientDelete, ClientPause,
                  ClientResume, ClientResumesStopped, ClientLoads, ClientEvicts, ClientRampsUp,
                  FadePauses, FadePaused, FadeRestored, Disarm, Drop, Waited, Arm, DeckQuiet
    <2>2. UNCHANGED contested /\ InvS
      BY <1>1, <2>1 DEF Contest, Orderly
    <2> QED
      BY <1>4, <2>2, LoadsS, StopS, DeleteS, EvictS, ResumeS, FadeS, EndsS DEF ClientActs, ClientStep, TaskStep
  <1> QED
    BY <1>2, <1>3, <1>4

LEMMA ClientRow ==
    ASSUME Types, Types', AskInv, AskInv', RowInv, ClientActs
    PROVE  RowInv'
  <1> SUFFICES ASSUME Orderly' PROVE (SpineQuiet' => InvS') /\ (ClientQuiet' => InvC')
    BY DEF RowInv
  <1>1. /\ UNCHANGED <<mpv, actor, ring>> /\ task'[Spine] = task[Spine]
        /\ ClientQuiet' => ~ClientQuiet
        /\ Met => contested' = "yes" \/ ClientPc' = "load"
    BY ClientMoves
  <1>2. SpineQuiet' <=> SpineQuiet
    BY <1>1, StillDeck DEF SpineQuiet, SpinePc, EndQueued
  <1>3. CASE SpineQuiet
    <2>1. InvS'
      BY <1>3, ClientKeepsS
    <2> QED
      BY <1>2, <1>3, <2>1, BridgeAfter
  <1>4. CASE ~SpineQuiet
    <2>1. ASSUME ClientQuiet' PROVE FALSE
      <3>1. Met
        BY <1>1, <1>4, <2>1, MetIs
      <3> QED
        BY <1>1, <2>1, <3>1 DEF Orderly, ClientQuiet
    <2> QED
      BY <1>2, <1>4, <2>1
  <1> QED
    BY <1>3, <1>4

LEMMA RowNextInv ==
    ASSUME PlayInv, PlayInv', AskInv, AskInv', RowInv, [PlaybackNext]_vars
    PROVE  RowInv'
  <1>1. Types /\ Types' /\ FlightInv
    BY DEF PlayInv
  <1>2. CASE DeckStep
    BY <1>1, <1>2, DeckRow
  <1>3. CASE AdvanceTimeout
    BY <1>1, <1>3, TimeoutRow DEF RowInv
  <1>4. CASE SpineActs
    BY <1>1, <1>4, SpineRow
  <1>5. CASE ClientActs
    BY <1>1, <1>5, ClientRow
  <1>6. PlaybackNext => DeckStep \/ AdvanceTimeout \/ SpineActs \/ ClientActs
    BY DEF PlaybackNext, SpineStep, Begin, SpineActs, ClientActs
  <1> QED
    BY <1>2, <1>3, <1>4, <1>5, <1>6, StutterRow

LEMMA InitRow == PlaybackInit => RowInv
  <1> SUFFICES ASSUME PlaybackInit PROVE RowInv
    OBVIOUS
  <1>1. /\ Cmds = << >> /\ Out = << >> /\ Latch = NoLoad /\ Warmth = NoWarm /\ ring = << >>
        /\ queue = InitQueue /\ contested = "no" /\ SpinePc = "idle" /\ ClientPc = "idle"
    BY DeckIsOne, TasksDiffer DEF PlaybackInit, DeckInit, Cmds, Out, Latch, Warmth, SpinePc, ClientPc, NoTask
  <1>2. DOMAIN Cmds = {} /\ DOMAIN Out = {} /\ FlightLen = 0
    BY <1>1 DEF FlightLen
  <1>3. NoneGone /\ Listed
    BY <1>1, <1>2, PlaybackAssumption DEF NoneGone, Listed
  <1>4. Bare /\ Row
    BY <1>1 DEF Bare, NoWarm, Row
  <1>5. InvS
    BY <1>1, <1>3, <1>4 DEF InvS, WarmKnown, RowKnown, ChoiceKnown, ArmsDisarmed, Afresh
  <1>6. \A k : ~EofAt(k) /\ ~LandedAt(k)
    BY <1>2 DEF EofAt, LandedAt
  <1>7. Ending
    BY <1>4, <1>6, NoEofAt DEF Ending, EndsBare, EndsOrder, EndsSilent, LandsNext
  <1>8. InvC
    BY <1>1, <1>3, <1>4, <1>7 DEF InvC, Calm, WarmNext, AdvanceNext, LoadNext, RowNext
  <1> QED
    BY <1>5, <1>8 DEF RowInv

-----------------------------------------------------------------------------
(* What the invariant gives. *)

\* Nothing under way is both halves keeping still.
LEMMA SettledQuiet ==
    ASSUME Types, Settled
    PROVE  SpineQuiet /\ ClientQuiet
  <1>1. /\ ring = << >> /\ Out = << >> /\ SpinePc = "idle" /\ ClientQuiet /\ DOMAIN mpv[deck].ends = {}
    BY DEF Settled, Out, SpinePc, ClientPc, At, ClientQuiet
  <1>2. FlightLen = 0
    BY <1>1 DEF FlightLen
  <1> QED
    BY <1>1, <1>2 DEF SpineQuiet, EndQueued, NoEof

LEMMA SettledRow ==
    ASSUME Types, RowInv, Settled, contested = "no"
    PROVE  Row
  BY SettledQuiet DEF RowInv, Orderly, SpineQuiet, InvC, RowNext

\* While a gesture has met no end half-way and no answer has been given up, the
\* row playback is on is the entry the deck has (handler.rs, current against
\* player.rs, the actor's latch), whatever is warmed, landed in, deleted or
\* consumed on the way.
THEOREM RowIsRight == PlaybackSpec => []RowAgrees
  <1>1. PlaybackInit => PlayInv /\ AskInv /\ RowInv
    BY InitPlay, InitAsk, InitRow
  <1>2. PlayInv /\ AskInv /\ RowInv /\ [PlaybackNext]_vars => (PlayInv /\ AskInv /\ RowInv)'
    <2> SUFFICES ASSUME PlayInv, AskInv, RowInv, [PlaybackNext]_vars PROVE PlayInv' /\ AskInv' /\ RowInv'
      OBVIOUS
    <2>1. PlayInv' /\ AskInv'
      BY NextPlay, AskNext
    <2> QED
      BY <2>1, RowNextInv
  <1>3. PlayInv /\ AskInv /\ RowInv => RowAgrees
    <2> SUFFICES ASSUME PlayInv, AskInv, RowInv, Settled, contested = "no", actor[deck].watch # "Stopped"
                 PROVE  OnRow /\ queue[current] = actor[deck].latch.entry
      BY DEF RowAgrees
    <2>1. Latch # NoLoad
      BY DEF AskInv, DeckPlain, Watch
    <2>2. PICK e : LatchIs(e) /\ HereIs(e)
      BY <2>1, SettledRow DEF PlayInv, Row
    <2> QED
      BY <2>1, <2>2 DEF LatchIs, HereIs, Latch
  <1> QED
    BY <1>1, <1>2, <1>3, PTL DEF PlaybackSpec

\* The event the spine reads next.
LEMMA FirstFlight ==
    ASSUME Types, NEW e, PlayingAt(1, e)
    PROVE  NextIsPlaying(e)
  <1>1. /\ ring \in Seq(Event) /\ Len(ring) \in Nat /\ Out \in Seq(Effect) /\ Len(Out) \in Nat
        /\ 1 \in 1..FlightLen /\ IsPlaying(Flight(1), e)
    BY RowTypes DEF PlayingAt
  <1>2. CASE ring # << >>
    <2>1. Len(ring) > 0 /\ Head(ring) = ring[1]
      BY <1>1, <1>2
    <2> QED
      BY <1>1, <1>2, <2>1 DEF Flight, IsPlaying, Send, NextIsPlaying
  <1>3. CASE ring = << >>
    <2>1. Len(ring) = 0 /\ 1 \in DOMAIN Out /\ Flight(1) = Out[1]
      BY <1>1, <1>3 DEF FlightLen, Flight
    <2>2. 1..(1 - 1) = {}
      OBVIOUS
    <2> QED
      BY <1>1, <1>3, <2>1, <2>2 DEF IsPlaying, NextIsPlaying, Out
  <1> QED
    BY <1>2, <1>3

\* A gapless commit names the entry mpv has gone into (handler.rs,
\* commit_landed_advance): the one the deck announces next.
THEOREM LandedIsPlaying == PlaybackSpec => LandedRowIsPlaying
  <1>1. PlaybackInit => PlayInv /\ AskInv /\ RowInv
    BY InitPlay, InitAsk, InitRow
  <1>2. PlayInv /\ AskInv /\ RowInv /\ [PlaybackNext]_vars => (PlayInv /\ AskInv /\ RowInv)'
    <2> SUFFICES ASSUME PlayInv, AskInv, RowInv, [PlaybackNext]_vars PROVE PlayInv' /\ AskInv' /\ RowInv'
      OBVIOUS
    <2>1. PlayInv' /\ AskInv'
      BY NextPlay, AskNext
    <2> QED
      BY <2>1, RowNextInv
  <1>3. ASSUME PlayInv, RowInv, CommitLandedAdvance, contested' = "no"
        PROVE  current' \in DOMAIN queue /\ NextIsPlaying(queue[current'])
    <2>1. /\ SpinePc = "goto" /\ Landed /\ current' = Target /\ Contest
      BY <1>3 DEF CommitLandedAdvance, At, SpinePc, DeckQuiet
    <2>2. ~Met /\ contested = "no" /\ Types
      BY <1>3, <2>1 DEF Contest, PlayInv
    <2>3. ClientQuiet
      BY <2>1, <2>2, MetIs DEF SpineQuiet
    <2>4. PICK e : PlayingAt(1, e) /\ Target \in DOMAIN queue /\ queue[Target] = e
      BY <1>3, <2>1, <2>2, <2>3 DEF RowInv, Orderly, InvC, AdvanceNext
    <2>5. NextIsPlaying(e)
      BY <2>2, <2>4, FirstFlight
    <2> QED
      BY <2>1, <2>4, <2>5
  <1>4. PlayInv /\ RowInv =>
          [CommitLandedAdvance /\ contested' = "no"
             => current' \in DOMAIN queue /\ NextIsPlaying(queue[current'])]_vars
    BY <1>3
  <1> QED
    BY <1>1, <1>2, <1>4, PTL DEF PlaybackSpec, LandedRowIsPlaying

LEMMA NeverLate ==
    ASSUME Types, contested # "late", [PlaybackNext]_vars, ~AdvanceTimeout
    PROVE  contested' # "late"
  <1>1. CASE DeckStep \/ SpineActs
    BY <1>1, SpineContests DEF DeckStep, DeckFrame, Contest, Types
  <1>2. CASE ClientPlay \/ ClientPicksUp
    <2>1. PICK i, held : PlayIndex(i, held)
      BY <1>2, ClientPlays
    <2> QED
      BY <2>1 DEF PlayIndex
  <1>3. CASE LoadReturns(Client)
    BY <1>3 DEF LoadReturns
  <1>4. CASE ClientActs /\ ~(ClientPlay \/ ClientPicksUp \/ LoadReturns(Client))
    BY <1>4 DEF ClientActs, ClientStep, FadeStep, TaskStep, ClientStop, ClientClear, ClientDelete, ClientPause,
                ClientResume, ClientResumesStopped, ClientLoads, ClientEvicts, ClientRampsUp,
                FadePauses, FadePaused, FadeRestored, Disarm, Drop, Waited, Arm, DeckQuiet, Contest
  <1>5. CASE UNCHANGED vars
    BY <1>5 DEF vars
  <1>6. PlaybackNext => DeckStep \/ AdvanceTimeout \/ SpineActs \/ ClientActs
    BY DEF PlaybackNext, SpineStep, Begin, SpineActs, ClientActs
  <1> QED
    BY <1>1, <1>2, <1>3, <1>4, <1>5, <1>6

\* What reports Stopped is silent (handler.rs, reported_play_state), as long as
\* the spine has given up no answer.
THEOREM SilentWhenStopped == PlaybackSpec /\ [][~AdvanceTimeout]_vars => []StoppedIsSilent
  <1> DEFINE I == PlayInv /\ AskInv /\ RowInv /\ TruthInv /\ contested # "late"
  <1>1. PlaybackInit => I
    BY InitPlay, InitAsk, InitRow, InitTruth, DeckStarts DEF PlaybackInit
  <1>2. I /\ [PlaybackNext]_vars /\ [~AdvanceTimeout]_vars => I'
    <2> SUFFICES ASSUME I, [PlaybackNext]_vars, [~AdvanceTimeout]_vars PROVE I'
      OBVIOUS
    <2>1. PlayInv' /\ AskInv' /\ Types /\ TypeInv
      BY NextPlay, AskNext DEF PlayInv, Types
    <2>2. RowInv'
      BY <2>1, RowNextInv
    <2>3. TruthInv'
      BY <2>1, NextSees, SeesNext, NextTruth, TimeoutTruth
    <2>4. contested' # "late"
      <3>1. CASE UNCHANGED vars
        BY <3>1 DEF vars
      <3>2. CASE ~AdvanceTimeout
        BY <2>1, <3>2, NeverLate
      <3> QED
        BY <3>1, <3>2
    <2> QED
      BY <2>1, <2>2, <2>3, <2>4
  <1>3. I => StoppedIsSilent
    <2> SUFFICES ASSUME PlayInv, AskInv, RowInv, TruthInv, contested = "no", Settled, Reported = "Stopped"
                 PROVE  mpv[deck].pos = 0
      BY DEF StoppedIsSilent, Unmet
    <2>1. Types /\ deck \in Deck /\ mpv[deck] \in Core
      BY DeckIsOne DEF PlayInv, Types, TypeInv, TypeOK
    <2>2. Latch = NoLoad
      <3>1. CASE ~OnRow
        BY <2>1, <3>1, SettledRow DEF Row, HereIs
      <3>2. CASE OnRow
        BY <3>2 DEF Reported, AskInv, DeckPlain, Watch
      <3> QED
        BY <3>1, <3>2
    <2>3. Truth(mpv[deck], actor[deck]) /\ Real(mpv[deck].ends) = {}
      BY <2>1 DEF TruthInv, Settled, Real
    <2>4. Playing(mpv[deck]) = NoLoad /\ actor[deck].warm.kind \in {"None", "Continuation"}
      BY <2>2, <2>3 DEF Truth, Latch, AskInv, DeckPlain, Warmth
    <2>5. mpv[deck].pos \in 0..Len(mpv[deck].list) /\ mpv[deck].list \in Seq(Load)
      BY <2>1, <2>3, <2>4 DEF Truth, Core
    <2>6. NoLoad \notin Load
      BY DeckAssumption
    <2> QED
      BY <2>4, <2>5, <2>6 DEF Playing
  <1> HIDE DEF I
  <1> QED
    BY <1>1, <1>2, <1>3, PTL DEF PlaybackSpec
=============================================================================
