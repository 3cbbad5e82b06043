--------------------------- MODULE MpvDeck_proofs ---------------------------
(***************************************************************************)
(* Proofs about one or more decks, for every number of decks, callers,     *)
(* entries and loads, every ring capacity and everything mpv may do.       *)
(***************************************************************************)
EXTENDS MpvDeck, SequenceTheorems, TLAPS

\* The position of a core is a position of its playlist.  TypeOK alone is not
\* inductive: the entry at the position is read by almost every step.
Sound(m) == m \in Core /\ m.pos <= Len(m.list)

TypeInv == TypeOK /\ \A d \in Deck : Sound(mpv[d])

-----------------------------------------------------------------------------
(* The operations on a core keep it sound. *)

\* What plays is a load of the playlist, or nothing.
LEMMA PlayingType ==
    ASSUME NEW m, Sound(m)
    PROVE  /\ Playing(m) \in MaybeLoad
           /\ m.pos > 0 => Playing(m) \in Load
  <1>1. m.list \in Seq(Load) /\ m.pos \in Nat /\ m.pos <= Len(m.list)
    BY DEF Sound, Core
  <1>2. m.pos > 0 => m.list[m.pos] \in Load
    BY <1>1, ElementOfSeq
  <1> QED
    BY <1>1, <1>2 DEF Playing, MaybeLoad

\* Taking the file from under a core leaves a well-formed report queue.
LEMMA RemovedType ==
    ASSUME NEW m, Sound(m)
    PROVE  Removed(m) \in Seq(EndReport)
  <1>1. m.ends \in Seq(EndReport) /\ m.pos \in Nat
    BY DEF Sound, Core
  <1>2. m.pos # 0 => [reason |-> "Stop", load |-> Playing(m)] \in EndReport
    BY <1>1, PlayingType DEF EndReport, Reason
  <1> QED
    BY <1>1, <1>2, AppendProperties DEF Removed

LEMMA LoadfileReplaceSound ==
    ASSUME NEW m, Sound(m), NEW l \in Load
    PROVE  Sound(LoadfileReplace(m, l))
  <1>1. Removed(m) \in Seq(EndReport)
    BY RemovedType
  <1>2. <<l>> \in Seq(Load) /\ Len(<<l>>) = 1
    OBVIOUS
  <1>3. LoadfileReplace(m, l) \in Core
    BY <1>1, <1>2 DEF LoadfileReplace, Sound, Core
  <1>4. LoadfileReplace(m, l).list = <<l>> /\ LoadfileReplace(m, l).pos = 1
    BY DEF LoadfileReplace, Sound, Core
  <1> QED
    BY <1>2, <1>3, <1>4 DEF Sound

LEMMA PlaylistClearSound ==
    ASSUME NEW m, Sound(m)
    PROVE  Sound(PlaylistClear(m))
  <1>1. CASE m.pos = 0
    <2>1. PlaylistClear(m) = [m EXCEPT !.list = << >>]
      BY <1>1 DEF PlaylistClear
    <2>2. << >> \in Seq(Load) /\ Len(<< >>) = 0
      OBVIOUS
    <2>3. PlaylistClear(m) \in Core
      BY <2>1, <2>2 DEF Sound, Core
    <2>4. PlaylistClear(m).pos = 0 /\ PlaylistClear(m).list = << >>
      BY <1>1, <2>1 DEF Sound, Core
    <2> QED
      BY <2>2, <2>3, <2>4 DEF Sound
  <1>2. CASE m.pos # 0
    <2>1. PlaylistClear(m) = [m EXCEPT !.list = <<Playing(m)>>, !.pos = 1]
      BY <1>2 DEF PlaylistClear
    <2>2. <<Playing(m)>> \in Seq(Load) /\ Len(<<Playing(m)>>) = 1
      <3>1. m.pos > 0
        BY <1>2 DEF Sound, Core
      <3> QED
        BY <3>1, PlayingType
    <2>3. PlaylistClear(m) \in Core
      <3>1. \A s \in Seq(Load) : [m EXCEPT !.list = s, !.pos = 1] \in Core
        BY DEF Sound, Core
      <3> QED
        BY <2>1, <2>2, <3>1
    <2>4. PlaylistClear(m).pos = 1 /\ PlaylistClear(m).list = <<Playing(m)>>
      BY <2>1 DEF Sound, Core
    <2> QED
      BY <2>2, <2>3, <2>4 DEF Sound
  <1> QED
    BY <1>1, <1>2

LEMMA HaltSound ==
    ASSUME NEW m, Sound(m)
    PROVE  Sound(Halt(m))
  <1>1. Removed(m) \in Seq(EndReport)
    BY RemovedType
  <1>2. << >> \in Seq(Load) /\ Len(<< >>) = 0
    OBVIOUS
  <1>3. Halt(m) \in Core
    BY <1>1, <1>2 DEF Halt, Sound, Core
  <1>4. Halt(m).pos = 0 /\ Halt(m).list = << >>
    BY DEF Halt, Sound, Core
  <1> QED
    BY <1>2, <1>3, <1>4 DEF Sound

LEMMA StepPastSound ==
    ASSUME NEW m, Sound(m), m.pos > 0, NEW r \in Reason
    PROVE  Sound(StepPast(m, r))
  <1>1. [reason |-> r, load |-> Playing(m)] \in EndReport
    BY PlayingType DEF EndReport
  <1>2. m.ends \in Seq(EndReport) /\ m.list \in Seq(Load) /\ m.pos \in Nat
    BY DEF Sound, Core
  <1>3. Append(m.ends, [reason |-> r, load |-> Playing(m)]) \in Seq(EndReport)
    BY <1>1, <1>2, AppendProperties
  <1>4. Len(m.list) \in Nat
    BY <1>2
  <1>5. StepPast(m, r) \in Core
    <2>1. \A e \in Seq(EndReport), p \in Nat :
            [m EXCEPT !.ends = e, !.pos = p, !.held = FALSE] \in Core
      BY DEF Sound, Core
    <2>2. (IF m.pos < Len(m.list) THEN m.pos + 1 ELSE 0) \in Nat
      BY <1>2, <1>4
    <2> QED
      BY <1>3, <2>1, <2>2 DEF StepPast
  <1>6. /\ StepPast(m, r).pos = IF m.pos < Len(m.list) THEN m.pos + 1 ELSE 0
        /\ StepPast(m, r).list = m.list
    BY DEF StepPast, Sound, Core
  <1> QED
    BY <1>2, <1>4, <1>5, <1>6 DEF Sound

LEMMA AppendLoadSound ==
    ASSUME NEW m, Sound(m), NEW l \in Load
    PROVE  Sound([m EXCEPT !.list = Append(@, l)])
  <1> DEFINE n == [m EXCEPT !.list = Append(@, l)]
  <1>1. m.list \in Seq(Load) /\ m.pos \in Nat /\ m.pos <= Len(m.list)
    BY DEF Sound, Core
  <1>2. Append(m.list, l) \in Seq(Load) /\ Len(Append(m.list, l)) = Len(m.list) + 1
    BY <1>1, AppendProperties
  <1>3. Len(m.list) \in Nat
    BY <1>1
  <1>4. n \in Core
    BY <1>2 DEF Sound, Core
  <1>5. n.pos = m.pos /\ n.list = Append(m.list, l)
    BY DEF Sound, Core
  <1> QED
    BY <1>1, <1>2, <1>3, <1>4, <1>5 DEF Sound

\* The properties of a core that a command sets leave it sound.
LEMMA SetSound ==
    ASSUME NEW m, Sound(m), NEW b \in BOOLEAN, NEW c \in BOOLEAN
    PROVE  /\ Sound([m EXCEPT !.keepOpen = b, !.pause = c])
           /\ Sound([m EXCEPT !.keepOpen = b])
           /\ Sound([m EXCEPT !.pause = b])
           /\ Sound([m EXCEPT !.held = b])
  <1>1. /\ [m EXCEPT !.keepOpen = b, !.pause = c] \in Core
        /\ [m EXCEPT !.keepOpen = b] \in Core
        /\ [m EXCEPT !.pause = b] \in Core
        /\ [m EXCEPT !.held = b] \in Core
    BY DEF Sound, Core
  <1>2. \A n \in {[m EXCEPT !.keepOpen = b, !.pause = c], [m EXCEPT !.keepOpen = b],
                  [m EXCEPT !.pause = b], [m EXCEPT !.held = b]} :
            n.pos = m.pos /\ n.list = m.list
    BY DEF Sound, Core
  <1> QED
    BY <1>1, <1>2 DEF Sound
-----------------------------------------------------------------------------
(* The operations on an actor keep its state well-typed. *)

\* Events, sends and replies have the type the ring and the actor carry.
LEMMA EffectType ==
    /\ \A d \in Deck, k \in {"Playing", "Paused", "Stopped", "Eof", "TimePos"},
          l \in MaybeLoad, f \in {"plain", "errored", "landed", "crossfaded", "noid"},
          x \in MaybeLoad : /\ Ev(d, k, l, f, x) \in Event
                            /\ Send(Ev(d, k, l, f, x)) \in Effect
    /\ \A c \in Caller, ok \in BOOLEAN : Reply(c, ok) \in Effect
    /\ NoLoad \in MaybeLoad /\ Load \subseteq MaybeLoad
    /\ NoWarm \in Warm
  BY DEF Ev, Send, Reply, Event, Effect, NoWarm, Warm, MaybeLoad

\* One, two and no effects make a list of effects.
LEMMA OutType ==
    /\ << >> \in Seq(Effect)
    /\ \A x \in Effect : <<x>> \in Seq(Effect)
    /\ \A x, y \in Effect : <<x, y>> \in Seq(Effect)
  OBVIOUS

\* An Eof is counted for a load or for nothing.
LEMMA CountEofType ==
    ASSUME eofs \in [1..MaxLoads -> Nat], NEW l \in MaybeLoad
    PROVE  CountEof(l) \in [1..MaxLoads -> Nat]
  BY DEF CountEof, MaybeLoad, Load

\* The sends of an honest stop, whichever of the two there are.
LEMMA HonestStopSendsType ==
    ASSUME NEW d \in Deck, NEW a \in ActorState, NEW e \in {"plain", "errored"}, NEW x \in MaybeLoad
    PROVE  HonestStopSends(d, a, e, x) \in Seq(Effect)
  <1> DEFINE stop == Send(Ev(d, "Stopped", NoLoad, "plain", NoLoad))
             eof == Send(Ev(d, "Eof", a.latch, e, x))
  <1>1. stop \in Effect /\ eof \in Effect
    BY EffectType DEF ActorState
  <1>2. <<stop>> \in Seq(Effect) /\ <<eof>> \in Seq(Effect) /\ << >> \in Seq(Effect)
    BY <1>1, OutType
  <1> QED
    BY <1>2, ConcatProperties DEF HonestStopSends

LEMMA EmitHonestStopType ==
    ASSUME NEW d \in Deck, NEW a \in ActorState, NEW e \in {"plain", "errored"}, NEW x \in MaybeLoad
    PROVE  EmitHonestStop(d, a, e, x) \in ActorState
  <1>1. HonestStopSends(d, a, e, x) \in Seq(Effect)
    BY HonestStopSendsType
  <1> QED
    BY <1>1, EffectType DEF EmitHonestStop, ActorState, PlayState

LEMMA LoadedType ==
    ASSUME NEW d \in Deck, NEW a \in ActorState, NEW c \in Command
    PROVE  Loaded(d, a, c) \in ActorState
  <1>1. c.load \in MaybeLoad /\ c.by \in Caller
    BY DEF Command, MaybeLoad
  <1>2. <<Reply(c.by, TRUE), Send(Ev(d, "Playing", c.load, "plain", c.load))>> \in Seq(Effect)
    BY <1>1, EffectType, OutType
  <1>3. EndQueued(d) \in BOOLEAN
    BY DEF EndQueued
  <1> QED
    BY <1>1, <1>2, <1>3, EffectType DEF Loaded, ActorState, PlayState

LEMMA RefusedType ==
    ASSUME NEW a \in ActorState, NEW c \in Command
    PROVE  Refused(a, c) \in ActorState
  <1>1. <<Reply(c.by, FALSE)>> \in Seq(Effect)
    BY EffectType, OutType DEF Command
  <1> QED
    BY <1>1, EffectType DEF Refused, ActorState

\* Taking a command leaves the channels well-typed and yields a command whose
\* load is one exactly if it is about one.
LEMMA TakingType ==
    ASSUME TypeInv, NEW d \in Deck, NEW op, Taking(d, op)
    PROVE  /\ Head(cmds[d]) \in Command
           /\ op \in LoadOps => Head(cmds[d]).load \in Load
           /\ Head(cmds[d]).by \in Caller
           /\ cmds' \in [Deck -> Seq(Command)]
  <1>1. cmds[d] \in Seq(Command) /\ cmds[d] # << >> /\ Head(cmds[d]).op = op
    BY DEF TypeInv, TypeOK, Taking
  <1>2. Head(cmds[d]) \in Command /\ Tail(cmds[d]) \in Seq(Command)
    BY <1>1, HeadTailProperties
  <1>3. op \in LoadOps => Head(cmds[d]).load \in Load
    BY <1>1, <1>2 DEF Command, LoadOps, PlainOps
  <1>4. Head(cmds[d]).by \in Caller
    BY <1>2 DEF Command
  <1> QED
    BY <1>2, <1>3, <1>4 DEF Taking, TypeInv, TypeOK

\* Setting one field of one actor's state keeps all of them well-typed.
LEMMA ActorFieldType ==
    ASSUME NEW f \in [Deck -> ActorState], NEW d \in Deck
    PROVE  /\ \A w \in Warm : [f EXCEPT ![d].warm = w] \in [Deck -> ActorState]
           /\ \A b \in BOOLEAN : [f EXCEPT ![d].adrift = b] \in [Deck -> ActorState]
           /\ \A o \in Seq(Effect) : [f EXCEPT ![d].out = o] \in [Deck -> ActorState]
  <1>1. ASSUME NEW a \in ActorState
        PROVE  /\ \A w \in Warm : [a EXCEPT !.warm = w] \in ActorState
               /\ \A b \in BOOLEAN : [a EXCEPT !.adrift = b] \in ActorState
               /\ \A o \in Seq(Effect) : [a EXCEPT !.out = o] \in ActorState
    BY DEF ActorState
  <1>2. f[d] \in ActorState
    OBVIOUS
  <1> QED
    BY <1>1, <1>2

\* Setting part of one actor's state keeps all of them well-typed.
LEMMA ActorUpdateType ==
    ASSUME actor \in [Deck -> ActorState], NEW d \in Deck
    PROVE  \A w \in Warm, b \in BOOLEAN, o \in Seq(Effect) :
             /\ [actor EXCEPT ![d].warm = w, ![d].adrift = b, ![d].out = o]
                    \in [Deck -> ActorState]
             /\ [actor EXCEPT ![d].warm = w, ![d].adrift = b] \in [Deck -> ActorState]
             /\ [actor EXCEPT ![d].adrift = b] \in [Deck -> ActorState]
             /\ [actor EXCEPT ![d].out = o] \in [Deck -> ActorState]
  <1> TAKE w \in Warm, b \in BOOLEAN, o \in Seq(Effect)
  <1>1. [actor EXCEPT ![d].adrift = b] \in [Deck -> ActorState]
        /\ [actor EXCEPT ![d].out = o] \in [Deck -> ActorState]
    BY ActorFieldType
  <1> DEFINE f == [actor EXCEPT ![d].warm = w]
             g == [f EXCEPT ![d].adrift = b]
             h == [g EXCEPT ![d].out = o]
  <1>2. f \in [Deck -> ActorState]
    BY ActorFieldType
  <1> HIDE DEF f
  <1>3. g \in [Deck -> ActorState]
    BY <1>2, ActorFieldType
  <1> HIDE DEF g
  <1>4. h \in [Deck -> ActorState]
    BY <1>3, ActorFieldType
  <1>5. [actor EXCEPT ![d].warm = w, ![d].adrift = b] \in [Deck -> ActorState]
    BY <1>3 DEF f, g
  <1>6. [actor EXCEPT ![d].warm = w, ![d].adrift = b, ![d].out = o] \in [Deck -> ActorState]
    BY <1>4 DEF f, g
  <1> QED
    BY <1>1, <1>5, <1>6

\* A step of one deck that leaves its core sound and everything else well-typed
\* preserves the invariant.
LEMMA DeckStepType ==
    ASSUME TypeInv, NEW d \in Deck, NEW m, Sound(m),
           mpv' = [mpv EXCEPT ![d] = m],
           actor' \in [Deck -> ActorState],
           cmds' \in [Deck -> Seq(Command)],
           reply' \in [Caller -> {"none", "wait", "ok", "err"}],
           ring' \in Seq(Event), loads' \in Nat,
           eofs' \in [1..MaxLoads -> Nat]
    PROVE  TypeInv'
  <1>1. mpv' \in [Deck -> Core]
    BY DEF TypeInv, TypeOK, Sound
  <1>2. \A x \in Deck : Sound(mpv'[x])
    BY DEF TypeInv, TypeOK, Sound
  <1> QED
    BY <1>1, <1>2 DEF TypeInv, TypeOK, Sound
-----------------------------------------------------------------------------
(* Type correctness, one lemma per half of the actor and one for the rest. *)

LEMMA InitType == DeckInit => TypeInv
  <1> SUFFICES ASSUME DeckInit PROVE TypeInv
    OBVIOUS
  <1>1. << >> \in Seq(Load) /\ << >> \in Seq(EndReport) /\ << >> \in Seq(Effect)
        /\ << >> \in Seq(Command) /\ << >> \in Seq(Event) /\ Len(<< >>) = 0
    OBVIOUS
  <1>2. mpv \in [Deck -> Core]
    BY <1>1, EffectType DEF DeckInit, Core
  <1>3. actor \in [Deck -> ActorState]
    BY <1>1, EffectType DEF DeckInit, ActorState, PlayState
  <1>4. \A d \in Deck : Sound(mpv[d])
    <2>1. \A d \in Deck : mpv[d].pos = 0 /\ mpv[d].list = << >>
      BY DEF DeckInit
    <2> QED
      BY <1>1, <1>2, <2>1 DEF Sound
  <1> QED
    BY <1>1, <1>2, <1>3, <1>4 DEF DeckInit, TypeInv, TypeOK

\* The commands that load, or park, an entry.
LEMMA LoadCmdType ==
    ASSUME TypeInv, NEW d \in Deck,
           PlayUrl(d) \/ PrefetchWarm(d) \/ PrefetchContinuation(d) \/ SwitchWarmed(d)
    PROVE  TypeInv'
  <1> DEFINE c == Head(cmds[d])
  <1>1. Sound(mpv[d]) /\ actor[d] \in ActorState /\ actor \in [Deck -> ActorState]
        /\ mpv \in [Deck -> Core]
    BY DEF TypeInv, TypeOK
  <1>2. /\ reply \in [Caller -> {"none", "wait", "ok", "err"}] /\ ring \in Seq(Event)
        /\ loads \in Nat /\ eofs \in [1..MaxLoads -> Nat]
    BY DEF TypeInv, TypeOK
  <1>3. EndQueued(d) \in BOOLEAN /\ actor[d].adrift \in BOOLEAN /\ actor[d].warm \in Warm
    BY <1>1 DEF EndQueued, ActorState
  <1>4. Sound(PlaylistClear(mpv[d]))
    BY <1>1, PlaylistClearSound
  <1>5. ASSUME PlayUrl(d) PROVE TypeInv'
    <2>1. Taking(d, "PlayUrl") /\ "PlayUrl" \in LoadOps
      BY <1>5 DEF PlayUrl, LoadOps
    <2>2. c \in Command /\ c.load \in Load /\ cmds' \in [Deck -> Seq(Command)]
      BY <2>1, TakingType
    <2>3. Sound([LoadfileReplace(mpv[d], c.load) EXCEPT !.keepOpen = FALSE, !.pause = FALSE])
      BY <1>1, <2>2, LoadfileReplaceSound, SetSound
    <2>4. Loaded(d, actor[d], c) \in ActorState /\ Refused(actor[d], c) \in ActorState
      BY <1>1, <2>2, LoadedType, RefusedType
    <2>5. actor' \in [Deck -> ActorState]
      BY <1>1, <1>5, <2>4 DEF PlayUrl
    <2>6. mpv' = [mpv EXCEPT ![d] = mpv[d]]
          \/ mpv' = [mpv EXCEPT ![d] = [LoadfileReplace(mpv[d], c.load)
                                          EXCEPT !.keepOpen = FALSE, !.pause = FALSE]]
      BY <1>1, <1>5 DEF PlayUrl
    <2>7. reply' = reply /\ ring' = ring /\ loads' = loads /\ eofs' = eofs
      BY <1>5 DEF PlayUrl, Taking
    <2> HIDE DEF c
    <2> QED
      BY <1>1, <1>2, <2>2, <2>3, <2>5, <2>6, <2>7, DeckStepType
  <1>6. ASSUME PrefetchWarm(d) PROVE TypeInv'
    <2>1. Taking(d, "PrefetchWarm") /\ "PrefetchWarm" \in LoadOps
      BY <1>6 DEF PrefetchWarm, LoadOps
    <2>2. c \in Command /\ c.load \in Load /\ c.by \in Caller /\ cmds' \in [Deck -> Seq(Command)]
      BY <2>1, TakingType
    <2> DEFINE n == PlaylistClear(mpv[d])
               n1 == [n EXCEPT !.list = Append(@, c.load)]
    <2>3. Sound([n1 EXCEPT !.keepOpen = TRUE]) /\ Sound([n EXCEPT !.keepOpen = FALSE])
      BY <1>4, <2>2, AppendLoadSound, SetSound
    <2>4. [n1 EXCEPT !.keepOpen = TRUE]
            = [n EXCEPT !.list = Append(@, c.load), !.keepOpen = TRUE]
      BY <1>4 DEF Sound, Core
    <2>5. \A ok \in BOOLEAN :
            /\ <<Reply(c.by, ok)>> \in Seq(Effect)
            /\ (IF ok THEN [kind |-> "Skip", load |-> c.load] ELSE NoWarm) \in Warm
      BY <2>2, EffectType, OutType DEF Warm
    <2>6. actor' \in [Deck -> ActorState]
      <3>1. PICK ok \in LoadResults :
              actor' = [actor EXCEPT
                      ![d].warm = IF ok THEN [kind |-> "Skip", load |-> c.load] ELSE NoWarm,
                      ![d].adrift = @ \/ EndQueued(d),
                      ![d].out = <<Reply(c.by, ok)>>]
        BY <1>6 DEF PrefetchWarm
      <3>2. ok \in BOOLEAN
        BY DeckAssumption
      <3>3. (actor[d].adrift \/ EndQueued(d)) \in BOOLEAN
        BY <1>3
      <3>4. \A w \in Warm, b \in BOOLEAN, o \in Seq(Effect) :
               [actor EXCEPT ![d].warm = w, ![d].adrift = b, ![d].out = o]
                    \in [Deck -> ActorState]
        BY <1>1, ActorUpdateType
      <3>5. actor' = [actor EXCEPT
                      ![d].warm = IF ok THEN [kind |-> "Skip", load |-> c.load] ELSE NoWarm,
                      ![d].adrift = (actor[d].adrift \/ EndQueued(d)),
                      ![d].out = <<Reply(c.by, ok)>>]
        BY <3>1, <1>1 DEF ActorState
      <3> QED
        BY <2>5, <3>2, <3>3, <3>4, <3>5
    <2>7. mpv' = [mpv EXCEPT ![d] = [n1 EXCEPT !.keepOpen = TRUE]]
          \/ mpv' = [mpv EXCEPT ![d] = [n EXCEPT !.keepOpen = FALSE]]
      BY <1>6, <2>4 DEF PrefetchWarm
    <2>8. reply' = reply /\ ring' = ring /\ loads' = loads /\ eofs' = eofs
      BY <1>6 DEF PrefetchWarm, Taking
    <2> HIDE DEF c, n, n1
    <2> QED
      BY <1>2, <2>2, <2>3, <2>6, <2>7, <2>8, DeckStepType
  <1>7. ASSUME PrefetchContinuation(d) PROVE TypeInv'
    <2>1. Taking(d, "PrefetchContinuation") /\ "PrefetchContinuation" \in LoadOps
      BY <1>7 DEF PrefetchContinuation, LoadOps
    <2>2. c \in Command /\ c.load \in Load /\ c.by \in Caller /\ cmds' \in [Deck -> Seq(Command)]
      BY <2>1, TakingType
    <2> DEFINE n == [PlaylistClear(mpv[d]) EXCEPT !.keepOpen = FALSE]
               n1 == [n EXCEPT !.list = Append(@, c.load)]
    <2>3. Sound(n) /\ Sound(n1)
      BY <1>4, <2>2, AppendLoadSound, SetSound
    <2>4. \A ok \in BOOLEAN :
            /\ <<Reply(c.by, ok)>> \in Seq(Effect)
            /\ (IF ok THEN [kind |-> "Continuation", load |-> c.load] ELSE NoWarm) \in Warm
      BY <2>2, EffectType, OutType DEF Warm
    <2>5. actor' \in [Deck -> ActorState]
      <3>1. PICK ok \in LoadResults :
              actor' = [actor EXCEPT
                      ![d].warm = IF ok THEN [kind |-> "Continuation", load |-> c.load]
                                  ELSE NoWarm,
                      ![d].adrift = @ \/ EndQueued(d),
                      ![d].out = <<Reply(c.by, ok)>>]
        BY <1>7 DEF PrefetchContinuation
      <3>2. ok \in BOOLEAN
        BY DeckAssumption
      <3>3. (actor[d].adrift \/ EndQueued(d)) \in BOOLEAN
        BY <1>3
      <3>4. \A w \in Warm, b \in BOOLEAN, o \in Seq(Effect) :
               [actor EXCEPT ![d].warm = w, ![d].adrift = b, ![d].out = o]
                    \in [Deck -> ActorState]
        BY <1>1, ActorUpdateType
      <3>5. actor' = [actor EXCEPT
                      ![d].warm = IF ok THEN [kind |-> "Continuation", load |-> c.load]
                                  ELSE NoWarm,
                      ![d].adrift = (actor[d].adrift \/ EndQueued(d)),
                      ![d].out = <<Reply(c.by, ok)>>]
        BY <3>1, <1>1 DEF ActorState
      <3> QED
        BY <2>4, <3>2, <3>3, <3>4, <3>5
    <2>6. mpv' = [mpv EXCEPT ![d] = n] \/ mpv' = [mpv EXCEPT ![d] = n1]
      BY <1>7 DEF PrefetchContinuation
    <2>7. reply' = reply /\ ring' = ring /\ loads' = loads /\ eofs' = eofs
      BY <1>7 DEF PrefetchContinuation, Taking
    <2> HIDE DEF c, n, n1
    <2> QED
      BY <1>2, <2>2, <2>3, <2>5, <2>6, <2>7, DeckStepType
  <1>8. ASSUME SwitchWarmed(d) PROVE TypeInv'
    <2>1. Taking(d, "SwitchWarmed") /\ "SwitchWarmed" \in LoadOps
      BY <1>8 DEF SwitchWarmed, LoadOps
    <2>2. c \in Command /\ c.load \in Load /\ cmds' \in [Deck -> Seq(Command)]
      BY <2>1, TakingType
    <2> DEFINE n == IF CanSwitch(d, c.load) THEN mpv[d] ELSE PlaylistClear(mpv[d])
               n1 == [LoadfileReplace(n, c.load) EXCEPT !.keepOpen = FALSE, !.pause = FALSE]
    <2>3. Sound(n)
      BY <1>1, <1>4
    <2>4. Sound(n1)
      <3> HIDE DEF n
      <3> QED
        BY <2>2, <2>3, LoadfileReplaceSound, SetSound
    <2>5. Loaded(d, actor[d], c) \in ActorState /\ Refused(actor[d], c) \in ActorState
      BY <1>1, <2>2, LoadedType, RefusedType
    <2>6. actor' \in [Deck -> ActorState]
      BY <1>1, <1>8, <2>5 DEF SwitchWarmed
    <2>7. mpv' = [mpv EXCEPT ![d] = n] \/ mpv' = [mpv EXCEPT ![d] = n1]
      BY <1>8 DEF SwitchWarmed
    <2>8. reply' = reply /\ ring' = ring /\ loads' = loads /\ eofs' = eofs
      BY <1>8 DEF SwitchWarmed, Taking
    <2> HIDE DEF c, n, n1
    <2> QED
      BY <1>2, <2>2, <2>3, <2>4, <2>6, <2>7, <2>8, DeckStepType
  <1> QED
    BY <1>5, <1>6, <1>7, <1>8

\* The commands that load nothing.
LEMMA PlainCmdType ==
    ASSUME TypeInv, NEW d \in Deck,
           \/ EmitCrossfadedEof(d) \/ DropWarm(d) \/ Pause(d) \/ Resume(d)
           \/ Stop(d) \/ Seek(d)
    PROVE  TypeInv'
  <1> DEFINE c == Head(cmds[d])
             a == actor[d]
  <1>1. Sound(mpv[d]) /\ a \in ActorState /\ actor \in [Deck -> ActorState]
        /\ mpv \in [Deck -> Core]
    BY DEF TypeInv, TypeOK
  <1>2. /\ reply \in [Caller -> {"none", "wait", "ok", "err"}] /\ ring \in Seq(Event)
        /\ loads \in Nat /\ eofs \in [1..MaxLoads -> Nat]
    BY DEF TypeInv, TypeOK
  <1>3. Playing(mpv[d]) \in MaybeLoad /\ a.latch \in MaybeLoad
    BY <1>1, PlayingType DEF ActorState
  <1>4. \A op : Taking(d, op) => c.by \in Caller /\ cmds' \in [Deck -> Seq(Command)]
                                 /\ reply' = reply /\ ring' = ring /\ loads' = loads
    BY TakingType DEF Taking
  <1>5. mpv = [mpv EXCEPT ![d] = mpv[d]]
    BY <1>1
  <1>6. ASSUME EmitCrossfadedEof(d) PROVE TypeInv'
    <2>1. Taking(d, "EmitCrossfadedEof") /\ mpv' = mpv /\ eofs' = CountEof(a.latch)
      BY <1>6 DEF EmitCrossfadedEof
    <2>2. c.by \in Caller
      BY <1>4, <2>1
    <2> DEFINE eof == Send(Ev(d, "Eof", a.latch, "crossfaded", Playing(mpv[d])))
               out == (IF a.latch = NoLoad THEN << >> ELSE <<eof>>) \o <<Reply(c.by, TRUE)>>
    <2>3. out \in Seq(Effect)
      <3>1. eof \in Effect /\ Reply(c.by, TRUE) \in Effect
        BY <1>3, <2>2, EffectType
      <3>2. /\ (IF a.latch = NoLoad THEN << >> ELSE <<eof>>) \in Seq(Effect)
            /\ <<Reply(c.by, TRUE)>> \in Seq(Effect)
        BY <3>1, OutType
      <3> QED
        BY <3>2, ConcatProperties
    <2>4. actor' \in [Deck -> ActorState]
      <3>1. actor' = [actor EXCEPT ![d] = [a EXCEPT !.latch = NoLoad, !.adrift = TRUE,
                                                    !.out = out]]
        BY <1>6 DEF EmitCrossfadedEof
      <3>2. [a EXCEPT !.latch = NoLoad, !.adrift = TRUE, !.out = out] \in ActorState
        <4> HIDE DEF out
        <4> QED
          BY <1>1, <2>3, EffectType DEF ActorState
      <3> QED
        BY <1>1, <3>1, <3>2
    <2>5. eofs' \in [1..MaxLoads -> Nat]
      BY <1>2, <1>3, <2>1, CountEofType
    <2> QED
      BY <1>1, <1>2, <1>4, <1>5, <2>1, <2>4, <2>5, DeckStepType
  <1>7. ASSUME DropWarm(d) PROVE TypeInv'
    <2>1. Taking(d, "DropWarm") /\ eofs' = eofs
      BY <1>7 DEF DropWarm
    <2> DEFINE n == [PlaylistClear(mpv[d]) EXCEPT !.keepOpen = FALSE]
    <2>2. Sound(n)
      BY <1>1, PlaylistClearSound, SetSound
    <2>3. mpv' = [mpv EXCEPT ![d] = n]
      BY <1>7 DEF DropWarm
    <2>4. actor' \in [Deck -> ActorState]
      <3>1. actor' = [actor EXCEPT ![d].warm = NoWarm,
                                   ![d].adrift = (a.adrift \/ EndQueued(d)),
                                   ![d].out = <<Reply(c.by, TRUE)>>]
        BY <1>1, <1>7 DEF DropWarm, ActorState
      <3>2. (a.adrift \/ EndQueued(d)) \in BOOLEAN
        BY <1>1 DEF EndQueued, ActorState
      <3>3. <<Reply(c.by, TRUE)>> \in Seq(Effect)
        BY <1>4, <2>1, EffectType, OutType
      <3> QED
        BY <1>1, <3>1, <3>2, <3>3, ActorUpdateType, EffectType
    <2> HIDE DEF n
    <2> QED
      BY <1>2, <1>4, <2>1, <2>2, <2>3, <2>4, DeckStepType
  <1>8. ASSUME NEW op, NEW on \in BOOLEAN, SetPause(d, op, on) PROVE TypeInv'
    <2> DEFINE st == IF on THEN "Paused" ELSE "Playing"
    <2>1. Taking(d, op) /\ eofs' = eofs /\ mpv' = [mpv EXCEPT ![d].pause = on]
      BY <1>8 DEF SetPause
    <2> DEFINE n == [mpv[d] EXCEPT !.pause = on]
    <2>2. Sound(n)
      BY <1>1, <1>8, SetSound
    <2>3. mpv' = [mpv EXCEPT ![d] = n]
      BY <1>1, <2>1
    <2>4. actor' \in [Deck -> ActorState]
      <3> DEFINE o1 == <<Reply(c.by, TRUE)>>
                 o2 == <<Send(Ev(d, st, a.latch, "plain", a.latch)), Reply(c.by, TRUE)>>
      <3>1. o1 \in Seq(Effect) /\ o2 \in Seq(Effect)
        BY <1>3, <1>4, <2>1, EffectType, OutType
      <3>2. actor' = [actor EXCEPT ![d] = IF a.latch = NoLoad THEN [a EXCEPT !.out = o1]
                                          ELSE [a EXCEPT !.watch = st, !.out = o2]]
        BY <1>8 DEF SetPause
      <3> HIDE DEF o1, o2
      <3>3. [a EXCEPT !.out = o1] \in ActorState
            /\ [a EXCEPT !.watch = st, !.out = o2] \in ActorState
        BY <1>1, <3>1 DEF ActorState, PlayState
      <3> QED
        BY <1>1, <3>2, <3>3
    <2> HIDE DEF n
    <2> QED
      BY <1>2, <1>4, <2>1, <2>2, <2>3, <2>4, DeckStepType
  <1>9. ASSUME Stop(d) PROVE TypeInv'
    <2>1. Taking(d, "Stop") /\ eofs' = eofs
      BY <1>9 DEF Stop
    <2> DEFINE n == [Halt(mpv[d]) EXCEPT !.keepOpen = FALSE]
               o == <<Send(Ev(d, "Stopped", NoLoad, "plain", NoLoad)), Reply(c.by, TRUE)>>
    <2>2. Sound(n)
      BY <1>1, HaltSound, SetSound
    <2>3. mpv' = [mpv EXCEPT ![d] = n]
      BY <1>9 DEF Stop
    <2>4. actor' \in [Deck -> ActorState]
      <3>1. o \in Seq(Effect)
        BY <1>4, <2>1, EffectType, OutType
      <3>2. actor' = [actor EXCEPT ![d] =
                        [a EXCEPT !.latch = NoLoad, !.warm = NoWarm, !.watch = "Stopped",
                                  !.adrift = FALSE, !.out = o]]
        BY <1>9 DEF Stop
      <3> HIDE DEF o
      <3> QED
        BY <1>1, <3>1, <3>2, EffectType DEF ActorState, PlayState
    <2> HIDE DEF n
    <2> QED
      BY <1>2, <1>4, <2>1, <2>2, <2>3, <2>4, DeckStepType
  <1>10. ASSUME Seek(d) PROVE TypeInv'
    <2>1. Taking(d, "Seek") /\ eofs' = eofs /\ mpv' = [mpv EXCEPT ![d].held = FALSE]
      BY <1>10 DEF Seek
    <2> DEFINE n == [mpv[d] EXCEPT !.held = FALSE]
    <2>2. Sound(n)
      BY <1>1, SetSound
    <2>3. mpv' = [mpv EXCEPT ![d] = n]
      BY <1>1, <2>1
    <2>4. actor' \in [Deck -> ActorState]
      <3> DEFINE o1 == <<Reply(c.by, FALSE)>>
                 o2 == <<Send(Ev(d, "TimePos", a.latch, "plain", Playing(mpv[d]))),
                         Reply(c.by, TRUE)>>
      <3>1. o1 \in Seq(Effect) /\ o2 \in Seq(Effect)
        BY <1>3, <1>4, <2>1, EffectType, OutType
      <3>2. actor' = [actor EXCEPT ![d].out = IF mpv[d].pos = 0 THEN o1 ELSE o2]
        BY <1>10 DEF Seek
      <3> HIDE DEF o1, o2
      <3>3. (IF mpv[d].pos = 0 THEN o1 ELSE o2) \in Seq(Effect)
        BY <3>1
      <3>4. \A o \in Seq(Effect) : [actor EXCEPT ![d].out = o] \in [Deck -> ActorState]
        BY <1>1 DEF ActorState
      <3> QED
        BY <3>2, <3>3, <3>4
    <2> HIDE DEF n
    <2> QED
      BY <1>2, <1>4, <2>1, <2>2, <2>3, <2>4, DeckStepType
  <1> QED
    BY <1>6, <1>7, <1>8, <1>9, <1>10 DEF Pause, Resume

\* What mpv does by itself, the reports the actor reads, and its effects.
LEMMA PumpType ==
    ASSUME TypeInv, NEW d \in Deck, PumpEvent(d)
    PROVE  TypeInv'
  <1> DEFINE a == actor[d]
             e == Head(mpv[d].ends)
  <1>1. Sound(mpv[d]) /\ a \in ActorState /\ actor \in [Deck -> ActorState]
        /\ mpv \in [Deck -> Core] /\ mpv[d] \in Core
    BY DEF TypeInv, TypeOK
  <1>2. /\ reply \in [Caller -> {"none", "wait", "ok", "err"}] /\ ring \in Seq(Event)
        /\ loads \in Nat /\ eofs \in [1..MaxLoads -> Nat] /\ cmds \in [Deck -> Seq(Command)]
    BY DEF TypeInv, TypeOK
  <1>3. a.latch \in MaybeLoad /\ a.warm \in Warm /\ a.warm.load \in MaybeLoad
    BY <1>1 DEF ActorState, Warm
  <1>4. Pumping(d) => cmds' = cmds /\ reply' = reply /\ loads' = loads
    BY DEF Pumping
  <1>5. ASSUME NEW rs, PumpingEnd(d, rs)
        PROVE  /\ e \in EndReport /\ e.load \in MaybeLoad
               /\ Sound([mpv[d] EXCEPT !.ends = Tail(@)])
               /\ mpv' = [mpv EXCEPT ![d] = [mpv[d] EXCEPT !.ends = Tail(@)]]
               /\ cmds' = cmds /\ reply' = reply /\ loads' = loads /\ ring' = ring
    <2>1. mpv[d].ends \in Seq(EndReport) /\ mpv[d].ends # << >>
      BY <1>1, <1>5 DEF Core, PumpingEnd
    <2>2. e \in EndReport /\ Tail(mpv[d].ends) \in Seq(EndReport)
      BY <2>1, HeadTailProperties
    <2>3. [mpv[d] EXCEPT !.ends = Tail(@)] \in Core
      BY <1>1, <2>2 DEF Core
    <2>4. [mpv[d] EXCEPT !.ends = Tail(@)].pos = mpv[d].pos
          /\ [mpv[d] EXCEPT !.ends = Tail(@)].list = mpv[d].list
      BY <1>1 DEF Core
    <2> QED
      BY <1>1, <1>4, <1>5, <2>2, <2>3, <2>4 DEF PumpingEnd, EndReport, MaybeLoad, Sound
  <1>6. ASSUME PumpPosition(d) PROVE TypeInv'
    <2> DEFINE n == [mpv[d] EXCEPT !.tick = NoLoad]
               ev == Ev(d, "TimePos", a.latch, "plain", mpv[d].tick)
    <2>1. n \in Core /\ n.pos = mpv[d].pos /\ n.list = mpv[d].list
      BY <1>1, EffectType DEF Core
    <2>2. mpv' = [mpv EXCEPT ![d] = n]
      BY <1>1, <1>6 DEF PumpPosition
    <2>3. ev \in Event
      BY <1>1, <1>3, EffectType DEF Core
    <2>4. ring' \in Seq(Event)
      BY <1>2, <1>6, <2>3, AppendProperties DEF PumpPosition
    <2>5. Sound(n)
      BY <1>1, <2>1 DEF Sound
    <2>6. actor' = actor /\ eofs' = eofs /\ Pumping(d)
      BY <1>6 DEF PumpPosition
    <2> HIDE DEF n, ev
    <2> QED
      BY <1>1, <1>2, <1>4, <2>2, <2>4, <2>5, <2>6, DeckStepType
  <1>7. ASSUME EndFileSkip(d) PROVE TypeInv'
    <2>1. PumpingEnd(d, {"Eof", "Error", "Stop"}) /\ eofs' = eofs
      BY <1>7 DEF EndFileSkip
    <2>2. actor' \in [Deck -> ActorState]
      <3>1. actor' = [actor EXCEPT ![d].adrift = (a.adrift \/ e.reason # "Stop")]
        BY <1>1, <1>7 DEF EndFileSkip, ActorState
      <3>2. (a.adrift \/ e.reason # "Stop") \in BOOLEAN
        BY <1>1 DEF ActorState
      <3>3. \A b \in BOOLEAN : [actor EXCEPT ![d].adrift = b] \in [Deck -> ActorState]
        BY <1>1 DEF ActorState
      <3> QED
        BY <3>1, <3>2, <3>3
    <2> QED
      BY <1>2, <1>5, <2>1, <2>2, DeckStepType
  <1>8. ASSUME EndFileLanded(d) PROVE TypeInv'
    <2>1. PumpingEnd(d, {"Eof"}) /\ eofs' = CountEof(a.latch)
      BY <1>8 DEF EndFileLanded
    <2> DEFINE o == <<Send(Ev(d, "Eof", a.latch, "landed", e.load)),
                      Send(Ev(d, "Playing", a.warm.load, "noid", a.warm.load))>>
    <2>2. o \in Seq(Effect)
      BY <1>3, <1>5, <2>1, EffectType, OutType
    <2>3. actor' = [actor EXCEPT ![d] = [a EXCEPT !.latch = a.warm.load, !.warm = NoWarm,
                                                  !.watch = "Playing", !.out = o]]
      BY <1>8 DEF EndFileLanded
    <2>4. actor' \in [Deck -> ActorState]
      <3> HIDE DEF o
      <3> QED
        BY <1>1, <1>3, <2>2, <2>3, EffectType DEF ActorState, PlayState
    <2>5. eofs' \in [1..MaxLoads -> Nat]
      BY <1>2, <1>3, <2>1, CountEofType
    <2> QED
      BY <1>2, <1>5, <2>1, <2>4, <2>5, DeckStepType
  <1>9. ASSUME EndFileHonestStop(d) PROVE TypeInv'
    <2>1. PumpingEnd(d, {"Eof", "Error"}) /\ eofs' = CountEof(a.latch)
      BY <1>9 DEF EndFileHonestStop
    <2> DEFINE b == EmitHonestStop(d, a, EndFlag(e), e.load)
    <2>2. b \in ActorState
      BY <1>1, <1>5, <2>1, EmitHonestStopType DEF EndFlag
    <2>3. \A w \in BOOLEAN : [b EXCEPT !.adrift = w] \in ActorState
      <3> HIDE DEF b
      <3> QED
        BY <2>2 DEF ActorState
    <2>4. (b.adrift \/ a.warm.kind = "Continuation") \in BOOLEAN
      <3> HIDE DEF b
      <3> QED
        BY <2>2 DEF ActorState
    <2>5. [b EXCEPT !.adrift = @ \/ a.warm.kind = "Continuation"]
            = [b EXCEPT !.adrift = (b.adrift \/ a.warm.kind = "Continuation")]
      <3> HIDE DEF b
      <3> QED
        BY <2>2 DEF ActorState
    <2>6. actor' = [actor EXCEPT ![d] =
                      [b EXCEPT !.adrift = @ \/ a.warm.kind = "Continuation"]]
      BY <1>9 DEF EndFileHonestStop
    <2>7. actor' \in [Deck -> ActorState]
      <3> HIDE DEF b
      <3> QED
        BY <1>1, <2>3, <2>4, <2>5, <2>6
    <2>8. eofs' \in [1..MaxLoads -> Nat]
      BY <1>2, <1>3, <2>1, CountEofType
    <2> QED
      BY <1>2, <1>5, <2>1, <2>7, <2>8, DeckStepType
  <1>10. ASSUME EndFileStop(d) PROVE TypeInv'
    <2>1. PumpingEnd(d, {"Stop"}) /\ eofs' = eofs
      BY <1>10 DEF EndFileStop
    <2>2. actor' \in [Deck -> ActorState]
      <3>1. actor' = [actor EXCEPT ![d].warm = NoWarm,
                                   ![d].adrift = (a.adrift \/ a.warm.kind = "Continuation")]
        BY <1>1, <1>10 DEF EndFileStop, ActorState
      <3>2. (a.adrift \/ a.warm.kind = "Continuation") \in BOOLEAN
        BY <1>1 DEF ActorState
      <3>3. \A w \in Warm, b \in BOOLEAN :
              [actor EXCEPT ![d].warm = w, ![d].adrift = b] \in [Deck -> ActorState]
        BY <1>1 DEF ActorState
      <3> QED
        BY <3>1, <3>2, <3>3, EffectType
    <2> QED
      BY <1>2, <1>5, <2>1, <2>2, DeckStepType
  <1>11. ASSUME LoadFailure(d) PROVE TypeInv'
    <2>1. PumpingEnd(d, {"LoadErr"})
      BY <1>11 DEF LoadFailure
    <2> DEFINE b == EmitHonestStop(d, a, "errored", e.load)
    <2>2. b \in ActorState
      BY <1>1, <1>5, <2>1, EmitHonestStopType
    <2>3. \/ actor' = [actor EXCEPT ![d] = b] /\ eofs' = CountEof(a.latch)
          \/ actor' = [actor EXCEPT ![d].adrift = TRUE] /\ eofs' = eofs
      BY <1>11 DEF LoadFailure
    <2>4. actor' \in [Deck -> ActorState]
      <3> HIDE DEF b
      <3>1. [actor EXCEPT ![d].adrift = TRUE] \in [Deck -> ActorState]
        BY <1>1 DEF ActorState
      <3> QED
        BY <1>1, <2>2, <2>3, <3>1
    <2>5. eofs' \in [1..MaxLoads -> Nat]
      BY <1>2, <1>3, <2>3, CountEofType
    <2> QED
      BY <1>2, <1>5, <2>1, <2>4, <2>5, DeckStepType
  <1> QED
    BY <1>6, <1>7, <1>8, <1>9, <1>10, <1>11 DEF PumpEvent

LEMMA EffectStepType ==
    ASSUME TypeInv, NEW d \in Deck, ActorEffect(d)
    PROVE  TypeInv'
  <1> DEFINE e == Head(actor[d].out)
  <1>1. actor[d].out \in Seq(Effect) /\ actor[d].out # << >> /\ actor \in [Deck -> ActorState]
    BY DEF TypeInv, TypeOK, ActorState, ActorEffect
  <1>2. e \in Effect /\ Tail(actor[d].out) \in Seq(Effect)
    BY <1>1, HeadTailProperties
  <1>3. actor' \in [Deck -> ActorState]
    <2>1. actor' = [actor EXCEPT ![d].out = Tail(actor[d].out)]
      BY <1>1 DEF ActorEffect, ActorState
    <2>2. \A o \in Seq(Effect) : [actor EXCEPT ![d].out = o] \in [Deck -> ActorState]
      BY <1>1 DEF ActorState
    <2> QED
      BY <1>2, <2>1, <2>2
  <1>4. ring' \in Seq(Event) /\ reply' \in [Caller -> {"none", "wait", "ok", "err"}]
    <2>1. CASE e.what = "send" /\ ring' = Append(ring, e.ev) /\ reply' = reply
      <3>1. e.ev \in Event
        BY <1>2, <2>1 DEF Effect
      <3> QED
        BY <2>1, <3>1, AppendProperties DEF TypeInv, TypeOK
    <2>2. CASE /\ e.what = "reply" /\ ring' = ring
               /\ reply' = [reply EXCEPT ![e.to] = IF e.ok THEN "ok" ELSE "err"]
      BY <2>2 DEF TypeInv, TypeOK
    <2> QED
      BY <2>1, <2>2 DEF ActorEffect
  <1>5. mpv' = mpv /\ cmds' = cmds /\ loads' = loads /\ eofs' = eofs
    BY DEF ActorEffect
  <1> QED
    BY <1>3, <1>4, <1>5 DEF TypeInv, TypeOK, Sound

LEMMA MpvStepType ==
    ASSUME TypeInv, NEW d \in Deck, MpvStep(d)
    PROVE  TypeInv'
  <1>1. Sound(mpv[d]) /\ mpv \in [Deck -> Core] /\ mpv[d] \in Core
    BY DEF TypeInv, TypeOK
  <1>2. actor' = actor /\ cmds' = cmds /\ reply' = reply /\ ring' = ring
        /\ loads' = loads /\ eofs' = eofs
    BY DEF MpvStep, MpvFileEnds, MpvPosition
  <1>3. ASSUME NEW m, Sound(m), mpv' = [mpv EXCEPT ![d] = m] PROVE TypeInv'
    BY <1>2, <1>3, DeckStepType DEF TypeInv, TypeOK
  <1>4. CASE MpvFileEnds(d)
    <2>1. mpv[d].pos > 0
      BY <1>4 DEF MpvFileEnds
    <2>2. \A r \in Reason : Sound(StepPast(mpv[d], r))
      BY <1>1, <2>1, StepPastSound
    <2>3. Sound([mpv[d] EXCEPT !.held = TRUE])
      BY <1>1, SetSound
    <2>4. \/ \E r \in EndKinds : mpv' = [mpv EXCEPT ![d] = StepPast(mpv[d], r)]
          \/ mpv' = [mpv EXCEPT ![d] = [mpv[d] EXCEPT !.held = TRUE]]
          \/ mpv' = [mpv EXCEPT ![d] = StepPast(mpv[d], "Eof")]
      BY <1>1, <1>4 DEF MpvFileEnds
    <2>5. EndKinds \subseteq Reason /\ "Eof" \in Reason
      BY DeckAssumption DEF Reason
    <2> QED
      BY <1>3, <2>2, <2>3, <2>4, <2>5
  <1>5. CASE MpvPosition(d)
    <2> DEFINE n == [mpv[d] EXCEPT !.tick = Playing(mpv[d])]
    <2>1. n \in Core /\ n.pos = mpv[d].pos /\ n.list = mpv[d].list
      BY <1>1, PlayingType DEF Core
    <2>2. mpv' = [mpv EXCEPT ![d] = n]
      BY <1>1, <1>5 DEF MpvPosition
    <2> HIDE DEF n
    <2> QED
      BY <1>1, <1>3, <2>1, <2>2 DEF Sound
  <1> QED
    BY <1>4, <1>5 DEF MpvStep

LEMMA RequestType ==
    ASSUME TypeInv, NEW c \in Caller, AnyRequest(c)
    PROVE  TypeInv'
  <1>1. UNCHANGED <<mpv, actor, ring, eofs>>
    BY DEF AnyRequest
  <1>2. ASSUME NEW d \in Deck, NEW x \in Command,
               cmds' = [cmds EXCEPT ![d] = Append(@, x)],
               reply' = [reply EXCEPT ![c] = "wait"], loads' \in Nat
        PROVE  TypeInv'
    <2>1. Append(cmds[d], x) \in Seq(Command)
      BY AppendProperties DEF TypeInv, TypeOK
    <2> QED
      BY <1>1, <1>2, <2>1 DEF TypeInv, TypeOK, Sound
  <1>3. ASSUME NEW d \in Deck, NEW op \in LoadOps, NEW e \in Entry, RequestLoad(d, c, op, e)
        PROVE  TypeInv'
    <2>1. loads \in Nat /\ loads < MaxLoads /\ loads' = loads + 1
      BY <1>3 DEF RequestLoad, TypeInv, TypeOK
    <2>2. NewLoad(e) \in Load
      BY <2>1, DeckAssumption DEF NewLoad, Load
    <2>3. [op |-> op, load |-> NewLoad(e), by |-> c] \in Command
      BY <2>2 DEF Command
    <2> DEFINE x == [op |-> op, load |-> NewLoad(e), by |-> c]
    <2>4. cmds' = [cmds EXCEPT ![d] = Append(@, x)] /\ reply' = [reply EXCEPT ![c] = "wait"]
      BY <1>3 DEF RequestLoad, Request
    <2>5. loads' \in Nat
      BY <2>1
    <2> HIDE DEF x
    <2> QED
      BY <1>2, <2>3, <2>4, <2>5 DEF x
  <1>4. ASSUME NEW d \in Deck, NEW op \in PlainOps, Request(d, c, op, NoLoad), loads' = loads
        PROVE  TypeInv'
    <2>1. [op |-> op, load |-> NoLoad, by |-> c] \in Command
      BY DEF Command
    <2> QED
      BY <1>2, <1>4, <2>1 DEF Request, TypeInv, TypeOK
  <1> QED
    BY <1>3, <1>4 DEF AnyRequest

\* Every step of the deck, its callers and its reader keeps the state typed
\* and every core's position inside its playlist.
LEMMA NextType == TypeInv /\ [Next]_deckVars => TypeInv'
  <1> SUFFICES ASSUME TypeInv, [Next]_deckVars PROVE TypeInv'
    OBVIOUS
  <1>1. ASSUME NEW d \in Deck, ActorStep(d) PROVE TypeInv'
    BY <1>1, EffectStepType, LoadCmdType, PlainCmdType, PumpType DEF ActorStep, HandleCmd
  <1>2. ASSUME NEW d \in Deck, MpvStep(d) PROVE TypeInv'
    BY <1>2, MpvStepType
  <1>3. ASSUME NEW c \in Caller, AnyRequest(c) PROVE TypeInv'
    BY <1>3, RequestType
  <1>4. CASE Consume
    <2>1. ring' \in Seq(Event)
      BY <1>4, HeadTailProperties DEF Consume, TypeInv, TypeOK
    <2> QED
      BY <1>4, <2>1 DEF Consume, TypeInv, TypeOK, Sound
  <1>5. CASE UNCHANGED deckVars
    BY <1>5 DEF deckVars, TypeInv, TypeOK, Sound
  <1> QED
    BY <1>1, <1>2, <1>3, <1>4, <1>5 DEF Next

\* Type correctness of the deck: the state the actor of player.rs and the mpv
\* core under it keep has the type TypeOK gives it, in every behaviour.
THEOREM TypeCorrect == Spec => []TypeOK
  <1>1. DeckInit => TypeInv
    BY InitType
  <1>2. TypeInv /\ [Next]_deckVars => TypeInv'
    BY NextType
  <1>3. TypeInv => TypeOK
    BY DEF TypeInv
  <1> QED
    BY <1>1, <1>2, <1>3, PTL DEF Spec
-----------------------------------------------------------------------------
(***************************************************************************)
(* One Eof per load.  The actor reports whatever it has latched, so the    *)
(* claim rests on where a load can be: in a channel, parked behind the     *)
(* current entry, or latched - in one of these places at a time, on one    *)
(* deck, and never in any of them once it is reported finished.            *)
(***************************************************************************)
Apart(l, k) == l # NoLoad /\ k # NoLoad => l.id # k.id

\* The two latches of an actor.
Latches == {"latch", "warm"}
Latched(d, s) == IF s = "latch" THEN actor[d].latch ELSE actor[d].warm.load

\* A load that was created and is not reported finished.
Live(l) == l # NoLoad => l.id <= loads /\ eofs[l.id] = 0

LiveInv ==
    /\ \A d \in Deck, s \in Latches : Live(Latched(d, s))
    /\ \A d \in Deck : \A i \in 1..Len(cmds[d]) : Live(cmds[d][i].load)
    /\ \A n \in 1..MaxLoads : n > loads => eofs[n] = 0

ApartInv ==
    /\ \A d, e \in Deck, s, t \in Latches :
            d # e \/ s # t => Apart(Latched(d, s), Latched(e, t))
    /\ \A d, e \in Deck, s \in Latches : \A i \in 1..Len(cmds[e]) :
            Apart(Latched(d, s), cmds[e][i].load)
    /\ \A d, e \in Deck : \A i \in 1..Len(cmds[d]), j \in 1..Len(cmds[e]) :
            d # e \/ i # j => Apart(cmds[d][i].load, cmds[e][j].load)

EofInv == OneEofPerLoad /\ LiveInv /\ ApartInv

\* Counting the end of a live load: it reaches one, and no load apart from it
\* is touched.
LEMMA CountLive ==
    ASSUME eofs \in [1..MaxLoads -> Nat], OneEofPerLoad,
           NEW l \in MaybeLoad, Live(l), eofs' = CountEof(l), loads' = loads, loads \in Nat
    PROVE  /\ OneEofPerLoad'
           /\ \A k \in MaybeLoad : Live(k) /\ Apart(k, l) => Live(k)'
           /\ (\A n \in 1..MaxLoads : n > loads => eofs[n] = 0)
                => (\A n \in 1..MaxLoads : n > loads' => eofs'[n] = 0)
  <1>1. CASE l = NoLoad
    BY <1>1 DEF CountEof, OneEofPerLoad, Live
  <1>2. CASE l # NoLoad
    <2>1. l.id \in 1..MaxLoads /\ eofs[l.id] = 0 /\ l.id <= loads
      BY <1>2 DEF MaybeLoad, Load, Live
    <2>2. eofs' = [eofs EXCEPT ![l.id] = 1]
      BY <1>2, <2>1 DEF CountEof
    <2>3. \A n \in 1..MaxLoads : eofs'[n] = IF n = l.id THEN 1 ELSE eofs[n]
      BY <2>1, <2>2
    <2>4. OneEofPerLoad'
      BY <2>3 DEF OneEofPerLoad
    <2>5. ASSUME NEW k \in MaybeLoad, Live(k), Apart(k, l) PROVE Live(k)'
      BY <1>2, <2>3, <2>5 DEF Live, Apart, MaybeLoad, Load
    <2> QED
      BY <2>1, <2>3, <2>4, <2>5
  <1> QED
    BY <1>1, <1>2

\* One actor rearranges what it holds - and may take the head of its channel:
\* each latch keeps what it had, takes over the other's, takes the command's
\* load or is emptied, no load in two places, and the latched load may be
\* reported finished as it leaves.
Rearranged(d, takes) ==
    LET L == actor[d].latch  W == actor[d].warm.load
        c == Head(cmds[d]).load
        L1 == actor'[d].latch  W1 == actor'[d].warm.load IN
    /\ actor' \in [Deck -> ActorState] /\ loads' = loads
    /\ \A e \in Deck : e # d => /\ actor'[e].latch = actor[e].latch
                                /\ actor'[e].warm.load = actor[e].warm.load
    /\ IF takes THEN cmds[d] # << >> /\ cmds' = [cmds EXCEPT ![d] = Tail(@)]
                ELSE cmds' = cmds
    /\ \/ L1 = L /\ W1 \in {W, NoLoad} /\ eofs' = eofs
       \/ L1 = NoLoad /\ W1 \in {W, NoLoad} /\ eofs' \in {eofs, CountEof(L)}
       \/ L1 = W /\ W1 = NoLoad /\ eofs' = CountEof(L)
       \/ takes /\ L1 = c /\ W1 = NoLoad /\ eofs' = eofs
       \/ takes /\ L1 = L /\ W1 = c /\ eofs' = eofs

LEMMA RearrangedLive ==
    ASSUME TypeInv, EofInv, NEW d \in Deck, NEW takes \in BOOLEAN, Rearranged(d, takes)
    PROVE  EofInv'
  <1> DEFINE L == actor[d].latch
             W == actor[d].warm.load
             c == Head(cmds[d]).load
  <1>1. /\ actor \in [Deck -> ActorState] /\ actor' \in [Deck -> ActorState]
        /\ cmds \in [Deck -> Seq(Command)] /\ loads \in Nat /\ loads' = loads
        /\ eofs \in [1..MaxLoads -> Nat]
    BY DEF TypeInv, TypeOK, Rearranged
  <1>2. \A e \in Deck, s \in Latches : Latched(e, s) \in MaybeLoad /\ Latched(e, s)' \in MaybeLoad
    BY <1>1 DEF Latched, ActorState, Warm, Latches
  <1>3. /\ \A e \in Deck : cmds[e] \in Seq(Command) /\ Len(cmds[e]) \in Nat
        /\ \A e \in Deck : \A i \in 1..Len(cmds[e]) : cmds[e][i].load \in MaybeLoad
    <2>1. \A e \in Deck : cmds[e] \in Seq(Command) /\ Len(cmds[e]) \in Nat
      BY <1>1
    <2>2. \A x \in Command : x.load \in MaybeLoad
      BY DEF Command, MaybeLoad
    <2> QED
      BY <2>1, <2>2, ElementOfSeq
  \* Every place of a channel after the step is a place of it before.
  <1>4. \A e \in Deck : /\ Len(cmds'[e]) \in Nat
                        /\ \A i \in 1..Len(cmds'[e]) :
                             /\ ~(takes /\ e = d) => i \in 1..Len(cmds[e])
                                                     /\ cmds'[e][i] = cmds[e][i]
                             /\ takes /\ e = d => i + 1 \in 1..Len(cmds[e])
                                                  /\ cmds'[e][i] = cmds[e][i + 1]
    <2>1. CASE ~takes
      BY <1>3, <2>1 DEF Rearranged
    <2>2. CASE takes
      <3>1. cmds[d] # << >> /\ cmds' = [cmds EXCEPT ![d] = Tail(@)]
        BY <2>2 DEF Rearranged
      <3>2. Len(Tail(cmds[d])) = Len(cmds[d]) - 1
            /\ Len(cmds[d]) \in Nat /\ Len(cmds[d]) # 0
            /\ \A i \in 1..Len(Tail(cmds[d])) : Tail(cmds[d])[i] = cmds[d][i + 1]
        BY <1>3, <3>1, HeadTailProperties, EmptySeq
      <3>3. \A e \in Deck : cmds'[e] = IF e = d THEN Tail(cmds[d]) ELSE cmds[e]
        BY <1>1, <3>1
      <3>4. ASSUME NEW e \in Deck, e # d
            PROVE  cmds'[e] = cmds[e] /\ Len(cmds'[e]) \in Nat
        BY <1>3, <3>3, <3>4
      <3>5. /\ cmds'[d] = Tail(cmds[d]) /\ Len(cmds'[d]) \in Nat
            /\ \A i \in 1..Len(cmds'[d]) : i + 1 \in 1..Len(cmds[d])
        <4>1. cmds'[d] = Tail(cmds[d])
          BY <3>3
        <4>2. \A n, k \in Nat : n # 0 /\ k = n - 1 => \A i \in 1..k : i + 1 \in 1..n
          OBVIOUS
        <4>3. Len(Tail(cmds[d])) \in Nat
          BY <1>3, <3>1, HeadTailProperties, LenProperties
        <4> QED
          BY <3>2, <4>1, <4>2, <4>3
      <3> QED
        BY <2>2, <3>2, <3>4, <3>5
    <2> QED
      BY <2>1, <2>2
  <1>5. takes => 1 \in 1..Len(cmds[d]) /\ c = cmds[d][1].load
    <2>1. ASSUME takes PROVE 1 \in 1..Len(cmds[d]) /\ Head(cmds[d]) = cmds[d][1]
      BY <1>3, <2>1, EmptySeq DEF Rearranged
    <2> QED
      BY <2>1
  <1>6. \A e \in Deck, s \in Latches : e # d => Latched(e, s)' = Latched(e, s)
    BY DEF Rearranged, Latched
  <1>7. /\ Latched(d, "latch") = L /\ Latched(d, "warm") = W
        /\ Latched(d, "latch")' = actor'[d].latch /\ Latched(d, "warm")' = actor'[d].warm.load
        /\ "latch" \in Latches /\ "warm" \in Latches
        /\ \A s \in Latches : s = "latch" \/ s = "warm"
    BY DEF Latched, Latches
  \* What the actor has after the step, with what becomes of the counts.
  <1>8. \/ /\ Latched(d, "latch")' = L /\ Latched(d, "warm")' \in {W, NoLoad} /\ eofs' = eofs
        \/ /\ Latched(d, "latch")' = NoLoad /\ Latched(d, "warm")' \in {W, NoLoad}
           /\ eofs' \in {eofs, CountEof(L)}
        \/ Latched(d, "latch")' = W /\ Latched(d, "warm")' = NoLoad /\ eofs' = CountEof(L)
        \/ takes /\ Latched(d, "latch")' = c /\ Latched(d, "warm")' = NoLoad /\ eofs' = eofs
        \/ takes /\ Latched(d, "latch")' = L /\ Latched(d, "warm")' = c /\ eofs' = eofs
    BY <1>7 DEF Rearranged
  <1> HIDE DEF L, W, c
  <1>9. LiveInv /\ ApartInv /\ OneEofPerLoad
    BY DEF EofInv
  <1>10. ApartInv'
    <2>1. ASSUME NEW e \in Deck, NEW f \in Deck, NEW s \in Latches, NEW t \in Latches,
                 e # f \/ s # t
          PROVE  Apart(Latched(e, s), Latched(f, t))'
      <3>1. CASE e # d /\ f # d
        BY <1>6, <1>9, <2>1, <3>1 DEF ApartInv, Apart
      <3>2. CASE e = d /\ f # d
        BY <1>5, <1>6, <1>7, <1>8, <1>9, <2>1, <3>2 DEF ApartInv, Apart
      <3>3. CASE e # d /\ f = d
        BY <1>5, <1>6, <1>7, <1>8, <1>9, <2>1, <3>3 DEF ApartInv, Apart
      <3>4. CASE e = d /\ f = d
        BY <1>5, <1>7, <1>8, <1>9, <2>1, <3>4 DEF ApartInv, Apart
      <3> QED
        BY <3>1, <3>2, <3>3, <3>4
    <2>2. ASSUME NEW e \in Deck, NEW f \in Deck, NEW s \in Latches, NEW i \in 1..Len(cmds'[f])
          PROVE  Apart(Latched(e, s)', cmds'[f][i].load)
      <3>1. PICK j \in 1..Len(cmds[f]) : /\ cmds'[f][i] = cmds[f][j]
                                         /\ takes /\ f = d => j = i + 1
        BY <1>4
      <3>2. takes /\ f = d => j # 1
        BY <1>4, <3>1
      <3>3. CASE e # d
        BY <1>6, <1>9, <3>1, <3>3 DEF ApartInv, Apart
      <3>4. CASE e = d
        <4>1. Apart(L, cmds[f][j].load) /\ Apart(W, cmds[f][j].load)
          BY <1>7, <1>9 DEF ApartInv
        <4>2. takes => Apart(c, cmds[f][j].load)
          BY <1>5, <1>9, <3>2 DEF ApartInv
        <4> QED
          BY <1>7, <1>8, <3>1, <3>4, <4>1, <4>2 DEF Apart
      <3> QED
        BY <3>3, <3>4
    <2>3. ASSUME NEW e \in Deck, NEW f \in Deck, NEW i \in 1..Len(cmds'[e]),
                 NEW j \in 1..Len(cmds'[f]), e # f \/ i # j
          PROVE  Apart(cmds'[e][i].load, cmds'[f][j].load)
      <3>1. PICK k \in 1..Len(cmds[e]) : /\ cmds'[e][i] = cmds[e][k]
                                         /\ takes /\ e = d => k = i + 1
                                         /\ ~(takes /\ e = d) => k = i
        BY <1>4
      <3>2. PICK l \in 1..Len(cmds[f]) : /\ cmds'[f][j] = cmds[f][l]
                                         /\ takes /\ f = d => l = j + 1
                                         /\ ~(takes /\ f = d) => l = j
        BY <1>4
      <3>3. e # f \/ k # l
        BY <1>4, <2>3, <3>1, <3>2
      <3> QED
        BY <1>9, <3>1, <3>2, <3>3 DEF ApartInv
    <2> QED
      BY <2>1, <2>2, <2>3 DEF ApartInv, Apart
  <1>11. CASE eofs' = eofs
    <2>1. \A l : Live(l) => Live(l)'
      BY <1>1, <1>11 DEF Live
    <2>2. Live(NoLoad)' /\ Live(L) /\ Live(W) /\ (takes => Live(c))
      BY <1>5, <1>7, <1>9 DEF LiveInv, Live
    <2>3. ASSUME NEW e \in Deck, NEW s \in Latches PROVE Live(Latched(e, s))'
      <3>1. Live(Latched(e, s))
        BY <1>9 DEF LiveInv
      <3>2. CASE e # d
        BY <1>6, <1>1, <1>11, <3>1, <3>2 DEF Live
      <3>3. CASE e = d
        BY <1>1, <1>7, <1>8, <1>11, <2>2, <3>3 DEF Live
      <3> QED
        BY <3>2, <3>3
    <2>4. ASSUME NEW e \in Deck, NEW i \in 1..Len(cmds'[e])
          PROVE  cmds'[e][i].load # NoLoad =>
                    cmds'[e][i].load.id <= loads' /\ eofs'[cmds'[e][i].load.id] = 0
      <3>1. PICK j \in 1..Len(cmds[e]) : cmds'[e][i] = cmds[e][j]
        BY <1>4
      <3> QED
        BY <1>1, <1>9, <1>11, <3>1 DEF LiveInv, Live
    <2>5. OneEofPerLoad' /\ \A n \in 1..MaxLoads : n > loads' => eofs'[n] = 0
      BY <1>1, <1>9, <1>11 DEF OneEofPerLoad, LiveInv
    <2> QED
      BY <1>10, <2>3, <2>4, <2>5 DEF EofInv, LiveInv, Live
  <1>12. CASE eofs' = CountEof(L) /\ eofs' # eofs
    <2>1. L \in MaybeLoad /\ Live(L)
      BY <1>2, <1>7, <1>9 DEF LiveInv
    <2>2. /\ OneEofPerLoad'
          /\ \A k \in MaybeLoad : Live(k) /\ Apart(k, L) =>
                (k # NoLoad => k.id <= loads' /\ eofs'[k.id] = 0)
          /\ \A n \in 1..MaxLoads : n > loads' => eofs'[n] = 0
      BY <1>1, <1>9, <1>12, <2>1, CountLive DEF Live, LiveInv
    <2>3. ASSUME NEW e \in Deck, NEW s \in Latches
          PROVE  Latched(e, s)' # NoLoad => Latched(e, s)'.id <= loads' /\ eofs'[Latched(e, s)'.id] = 0
      <3>1. CASE e # d
        <4>1. Live(Latched(e, s)) /\ Apart(Latched(e, s), L) /\ Latched(e, s) \in MaybeLoad
          BY <1>2, <1>7, <1>9, <3>1 DEF LiveInv, ApartInv
        <4> QED
          BY <1>6, <2>2, <3>1, <4>1
      <3>2. CASE e = d
        <4>1. Live(W) /\ Apart(W, L) /\ W \in MaybeLoad
          BY <1>2, <1>7, <1>9 DEF LiveInv, ApartInv
        <4>2. Latched(d, s)' \in {W, NoLoad}
          BY <1>7, <1>8, <1>12
        <4> QED
          BY <2>2, <3>2, <4>1, <4>2
      <3> QED
        BY <3>1, <3>2
    <2>4. ASSUME NEW e \in Deck, NEW i \in 1..Len(cmds'[e])
          PROVE  cmds'[e][i].load # NoLoad =>
                    cmds'[e][i].load.id <= loads' /\ eofs'[cmds'[e][i].load.id] = 0
      <3>1. PICK j \in 1..Len(cmds[e]) : cmds'[e][i] = cmds[e][j]
        BY <1>4
      <3>2. Live(cmds[e][j].load) /\ Apart(cmds[e][j].load, L) /\ cmds[e][j].load \in MaybeLoad
        BY <1>3, <1>7, <1>9 DEF LiveInv, ApartInv, Apart
      <3> QED
        BY <2>2, <3>1, <3>2
    <2> QED
      BY <1>10, <2>2, <2>3, <2>4 DEF EofInv, LiveInv, Live
  <1> QED
    BY <1>8, <1>11, <1>12

LEMMA InitEof == DeckInit => EofInv
  <1> SUFFICES ASSUME DeckInit PROVE EofInv
    OBVIOUS
  <1>1. \A d \in Deck, s \in Latches : Latched(d, s) = NoLoad
    BY DEF DeckInit, Latched, NoWarm
  <1>2. \A d \in Deck : Len(cmds[d]) = 0
    <2>1. \A d \in Deck : cmds[d] = << >>
      BY DEF DeckInit
    <2> QED
      BY <2>1, EmptySeq
  <1>3. \A n \in 1..MaxLoads : eofs[n] = 0
    BY DEF DeckInit
  <1> QED
    BY <1>1, <1>2, <1>3 DEF EofInv, OneEofPerLoad, LiveInv, ApartInv, Live, Apart

\* A step that rearranges nothing.
LEMMA SameEof ==
    ASSUME EofInv, UNCHANGED <<cmds, loads, eofs>>,
           \A d \in Deck : /\ actor'[d].latch = actor[d].latch
                           /\ actor'[d].warm.load = actor[d].warm.load
    PROVE  EofInv'
  <1>1. \A d \in Deck, s \in Latches : Latched(d, s)' = Latched(d, s)
    BY DEF Latched
  <1>2. LiveInv'
    BY <1>1 DEF EofInv, LiveInv, Live
  <1>3. ApartInv'
    BY <1>1 DEF EofInv, ApartInv, Apart
  <1> QED
    BY <1>2, <1>3 DEF EofInv, OneEofPerLoad

\* Each command is a rearrangement of its actor that takes the channel's head.
LEMMA CmdRearranges ==
    ASSUME TypeInv, TypeInv', NEW d \in Deck, HandleCmd(d)
    PROVE  Rearranged(d, TRUE)
  <1> DEFINE c == Head(cmds[d])
  <1>1. actor \in [Deck -> ActorState] /\ actor' \in [Deck -> ActorState]
    BY DEF TypeInv, TypeOK
  <1>2. actor[d] \in ActorState /\ actor[d].warm \in Warm
    BY <1>1 DEF ActorState
  <1>3. \A op : Taking(d, op) =>
            cmds[d] # << >> /\ cmds' = [cmds EXCEPT ![d] = Tail(@)] /\ loads' = loads
    BY DEF Taking
  <1>4. /\ \A op \in {"Skip", "Continuation"} : [kind |-> op, load |-> c.load].load = c.load
        /\ NoWarm.load = NoLoad
    BY DEF NoWarm
  <1>5. /\ Loaded(d, actor[d], c).latch = c.load /\ Loaded(d, actor[d], c).warm = NoWarm
        /\ Refused(actor[d], c).latch = actor[d].latch /\ Refused(actor[d], c).warm = NoWarm
    BY <1>2 DEF Loaded, Refused, ActorState
  <1>6. ASSUME PlayUrl(d) \/ SwitchWarmed(d) PROVE Rearranged(d, TRUE)
    <2>1. PICK op : Taking(d, op)
      BY <1>6 DEF PlayUrl, SwitchWarmed
    <2>2. eofs' = eofs
      BY <1>6 DEF PlayUrl, SwitchWarmed
    <2>3. \/ actor' = [actor EXCEPT ![d] = Loaded(d, actor[d], c)]
          \/ actor' = [actor EXCEPT ![d] = Refused(actor[d], c)]
      BY <1>6 DEF PlayUrl, SwitchWarmed
    <2> QED
      BY <1>1, <1>3, <1>4, <1>5, <2>1, <2>2, <2>3 DEF Rearranged
  <1>7. ASSUME PrefetchWarm(d) \/ PrefetchContinuation(d) PROVE Rearranged(d, TRUE)
    <2>1. PICK op : Taking(d, op)
      BY <1>7 DEF PrefetchWarm, PrefetchContinuation
    <2>2. PICK w \in {NoWarm, [kind |-> "Skip", load |-> c.load],
                      [kind |-> "Continuation", load |-> c.load]}, ok \in LoadResults :
            actor' = [actor EXCEPT ![d].warm = w, ![d].adrift = @ \/ EndQueued(d),
                                   ![d].out = <<Reply(c.by, ok)>>]
      BY <1>7 DEF PrefetchWarm, PrefetchContinuation
    <2>3. w.load \in {c.load, NoLoad}
      BY <1>4
    <2>4. /\ actor'[d].latch = actor[d].latch /\ actor'[d].warm = w
          /\ \A e \in Deck : e # d => actor'[e] = actor[e]
      BY <1>1, <2>2 DEF ActorState
    <2>5. eofs' = eofs
      BY <1>7 DEF PrefetchWarm, PrefetchContinuation
    <2> QED
      BY <1>1, <1>3, <2>1, <2>3, <2>4, <2>5 DEF Rearranged
  <1>8. ASSUME EmitCrossfadedEof(d) PROVE Rearranged(d, TRUE)
    <2>1. Taking(d, "EmitCrossfadedEof") /\ eofs' = CountEof(actor[d].latch)
      BY <1>8 DEF EmitCrossfadedEof
    <2>2. /\ actor'[d].latch = NoLoad /\ actor'[d].warm = actor[d].warm
          /\ \A e \in Deck : e # d => actor'[e] = actor[e]
      BY <1>1, <1>2, <1>8 DEF EmitCrossfadedEof, ActorState
    <2> QED
      BY <1>1, <1>3, <2>1, <2>2 DEF Rearranged
  <1>9. ASSUME DropWarm(d) PROVE Rearranged(d, TRUE)
    <2>1. Taking(d, "DropWarm") /\ eofs' = eofs
      BY <1>9 DEF DropWarm
    <2>2. /\ actor'[d].latch = actor[d].latch /\ actor'[d].warm = NoWarm
          /\ \A e \in Deck : e # d => actor'[e] = actor[e]
      BY <1>1, <1>2, <1>9 DEF DropWarm, ActorState
    <2> QED
      BY <1>1, <1>3, <1>4, <2>1, <2>2 DEF Rearranged
  <1>10. ASSUME NEW op, NEW on, SetPause(d, op, on) PROVE Rearranged(d, TRUE)
    <2>1. Taking(d, op) /\ eofs' = eofs
      BY <1>10 DEF SetPause
    <2>2. /\ actor'[d].latch = actor[d].latch /\ actor'[d].warm = actor[d].warm
          /\ \A e \in Deck : e # d => actor'[e] = actor[e]
      BY <1>1, <1>2, <1>10 DEF SetPause, ActorState
    <2> QED
      BY <1>1, <1>3, <2>1, <2>2 DEF Rearranged
  <1>11. ASSUME Stop(d) PROVE Rearranged(d, TRUE)
    <2>1. Taking(d, "Stop") /\ eofs' = eofs
      BY <1>11 DEF Stop
    <2>2. /\ actor'[d].latch = NoLoad /\ actor'[d].warm = NoWarm
          /\ \A e \in Deck : e # d => actor'[e] = actor[e]
      BY <1>1, <1>2, <1>11 DEF Stop, ActorState
    <2> QED
      BY <1>1, <1>3, <1>4, <2>1, <2>2 DEF Rearranged
  <1>12. ASSUME Seek(d) PROVE Rearranged(d, TRUE)
    <2>1. Taking(d, "Seek") /\ eofs' = eofs
      BY <1>12 DEF Seek
    <2>2. /\ actor'[d].latch = actor[d].latch /\ actor'[d].warm = actor[d].warm
          /\ \A e \in Deck : e # d => actor'[e] = actor[e]
      BY <1>1, <1>2, <1>12 DEF Seek, ActorState
    <2> QED
      BY <1>1, <1>3, <2>1, <2>2 DEF Rearranged
  <1> QED
    BY <1>6, <1>7, <1>8, <1>9, <1>10, <1>11, <1>12 DEF HandleCmd, Pause, Resume

\* The latches of an actor after an honest stop.
LEMMA HonestStopEmpties ==
    ASSUME NEW d \in Deck, NEW a \in ActorState, NEW e, NEW x
    PROVE  /\ EmitHonestStop(d, a, e, x).latch = NoLoad
           /\ EmitHonestStop(d, a, e, x).warm = NoWarm
  BY DEF EmitHonestStop, ActorState

\* Each report is a rearrangement that takes nothing from the channel.
LEMMA PumpRearranges ==
    ASSUME TypeInv, TypeInv', NEW d \in Deck, PumpEvent(d)
    PROVE  Rearranged(d, FALSE)
  <1> DEFINE a == actor[d]
             e == Head(mpv[d].ends)
  <1>1. actor \in [Deck -> ActorState] /\ actor' \in [Deck -> ActorState]
    BY DEF TypeInv, TypeOK
  <1>2. a \in ActorState /\ NoWarm.load = NoLoad
    BY <1>1 DEF NoWarm
  <1>3. cmds' = cmds /\ loads' = loads
    BY DEF PumpEvent, PumpPosition, EndFileSkip, EndFileLanded, EndFileHonestStop,
           EndFileStop, LoadFailure, PumpingEnd, Pumping
  <1>4. ASSUME PumpPosition(d) PROVE Rearranged(d, FALSE)
    BY <1>1, <1>3, <1>4 DEF PumpPosition, Rearranged
  <1>5. ASSUME EndFileSkip(d) PROVE Rearranged(d, FALSE)
    <2>1. /\ actor'[d].latch = a.latch /\ actor'[d].warm = a.warm /\ eofs' = eofs
          /\ \A x \in Deck : x # d => actor'[x] = actor[x]
      BY <1>1, <1>5 DEF EndFileSkip, ActorState
    <2> QED
      BY <1>1, <1>3, <2>1 DEF Rearranged
  <1>6. ASSUME EndFileLanded(d) PROVE Rearranged(d, FALSE)
    <2>1. /\ actor'[d].latch = a.warm.load /\ actor'[d].warm = NoWarm
          /\ eofs' = CountEof(a.latch)
          /\ \A x \in Deck : x # d => actor'[x] = actor[x]
      BY <1>1, <1>2, <1>6 DEF EndFileLanded, ActorState
    <2> QED
      BY <1>1, <1>2, <1>3, <2>1 DEF Rearranged
  <1>7. ASSUME EndFileHonestStop(d) PROVE Rearranged(d, FALSE)
    <2> DEFINE b == EmitHonestStop(d, a, EndFlag(e), e.load)
    <2>1. b.latch = NoLoad /\ b.warm = NoWarm
      BY <1>2, HonestStopEmpties
    <2>2. actor' = [actor EXCEPT ![d] = [b EXCEPT !.adrift = @ \/ a.warm.kind = "Continuation"]]
          /\ eofs' = CountEof(a.latch)
      BY <1>7 DEF EndFileHonestStop
    <2>3. [b EXCEPT !.adrift = @ \/ a.warm.kind = "Continuation"].latch = b.latch
          /\ [b EXCEPT !.adrift = @ \/ a.warm.kind = "Continuation"].warm = b.warm
      BY DEF EmitHonestStop
    <2> HIDE DEF b
    <2> QED
      BY <1>1, <1>2, <1>3, <2>1, <2>2, <2>3 DEF Rearranged
  <1>8. ASSUME EndFileStop(d) PROVE Rearranged(d, FALSE)
    <2>1. /\ actor'[d].latch = a.latch /\ actor'[d].warm = NoWarm /\ eofs' = eofs
          /\ \A x \in Deck : x # d => actor'[x] = actor[x]
      BY <1>1, <1>8 DEF EndFileStop, ActorState
    <2> QED
      BY <1>1, <1>2, <1>3, <2>1 DEF Rearranged
  <1>9. ASSUME LoadFailure(d) PROVE Rearranged(d, FALSE)
    <2> DEFINE b == EmitHonestStop(d, a, "errored", e.load)
    <2>1. b.latch = NoLoad /\ b.warm = NoWarm
      BY <1>2, HonestStopEmpties
    <2>2. \/ actor' = [actor EXCEPT ![d] = b] /\ eofs' = CountEof(a.latch)
          \/ actor' = [actor EXCEPT ![d].adrift = TRUE] /\ eofs' = eofs
      BY <1>9 DEF LoadFailure
    <2> HIDE DEF b
    <2>3. CASE actor' = [actor EXCEPT ![d] = b] /\ eofs' = CountEof(a.latch)
      BY <1>1, <1>2, <1>3, <2>1, <2>3 DEF Rearranged
    <2>4. CASE actor' = [actor EXCEPT ![d].adrift = TRUE] /\ eofs' = eofs
      <3>1. /\ actor'[d].latch = a.latch /\ actor'[d].warm = a.warm
            /\ \A x \in Deck : x # d => actor'[x] = actor[x]
        BY <1>1, <2>4 DEF ActorState
      <3> QED
        BY <1>1, <1>3, <2>4, <3>1 DEF Rearranged
    <2> QED
      BY <2>2, <2>3, <2>4
  <1> QED
    BY <1>4, <1>5, <1>6, <1>7, <1>8, <1>9 DEF PumpEvent

\* A request puts one load, a fresh one or none, at the end of one channel.
LEMMA RequestLive ==
    ASSUME TypeInv, EofInv, NEW c \in Caller, AnyRequest(c)
    PROVE  EofInv'
  <1>1. PICK d \in Deck, x \in Command :
          /\ cmds' = [cmds EXCEPT ![d] = Append(@, x)]
          /\ \/ x.load = NoLoad /\ loads' = loads
             \/ x.load \in Load /\ x.load.id = loads + 1 /\ loads' = loads + 1
    <2>1. ASSUME NEW d \in Deck, NEW op \in LoadOps, NEW e \in Entry, RequestLoad(d, c, op, e)
          PROVE  \E x \in Command :
                   /\ cmds' = [cmds EXCEPT ![d] = Append(@, x)]
                   /\ x.load \in Load /\ x.load.id = loads + 1 /\ loads' = loads + 1
      <3>1. loads \in Nat /\ loads < MaxLoads /\ loads' = loads + 1
        BY <2>1 DEF RequestLoad, TypeInv, TypeOK
      <3>2. NewLoad(e) \in Load /\ NewLoad(e).id = loads + 1
        BY <3>1, DeckAssumption DEF NewLoad, Load
      <3> DEFINE x == [op |-> op, load |-> NewLoad(e), by |-> c]
      <3>3. x \in Command /\ x.load = NewLoad(e)
        BY <3>2 DEF Command
      <3>4. cmds' = [cmds EXCEPT ![d] = Append(@, x)]
        BY <2>1 DEF RequestLoad, Request
      <3> HIDE DEF x
      <3> QED
        BY <3>1, <3>2, <3>3, <3>4
    <2>2. ASSUME NEW d \in Deck, NEW op \in PlainOps, Request(d, c, op, NoLoad), loads' = loads
          PROVE  \E x \in Command :
                   cmds' = [cmds EXCEPT ![d] = Append(@, x)] /\ x.load = NoLoad
      <3> DEFINE x == [op |-> op, load |-> NoLoad, by |-> c]
      <3>1. x \in Command /\ x.load = NoLoad
        BY DEF Command
      <3>2. cmds' = [cmds EXCEPT ![d] = Append(@, x)]
        BY <2>2 DEF Request
      <3> HIDE DEF x
      <3> QED
        BY <3>1, <3>2
    <2> QED
      BY <2>1, <2>2 DEF AnyRequest
  <1>2. eofs' = eofs /\ actor' = actor
    BY DEF AnyRequest
  <1>3. /\ loads \in Nat /\ loads' \in Nat /\ loads <= loads'
        /\ cmds \in [Deck -> Seq(Command)] /\ \A e \in Deck : Len(cmds[e]) \in Nat
    BY <1>1 DEF TypeInv, TypeOK
  <1>4. \A e \in Deck, s \in Latches : Latched(e, s)' = Latched(e, s) /\ Latched(e, s) \in MaybeLoad
    BY <1>2 DEF Latched, TypeInv, TypeOK, ActorState, Warm
  <1>5. \A e \in Deck : \A i \in 1..Len(cmds[e]) : cmds[e][i].load \in MaybeLoad
    <2>1. \A y \in Command : y.load \in MaybeLoad
      BY DEF Command, MaybeLoad
    <2> QED
      BY <1>3, <2>1, ElementOfSeq
  \* A place of a channel after the request is an old one, or the last of d's.
  <1>6. \A e \in Deck : \A i \in 1..Len(cmds'[e]) :
            \/ i \in 1..Len(cmds[e]) /\ cmds'[e][i] = cmds[e][i]
            \/ e = d /\ i = Len(cmds[d]) + 1 /\ cmds'[e][i] = x
    <2>1. /\ Len(Append(cmds[d], x)) = Len(cmds[d]) + 1
          /\ \A i \in 1..Len(cmds[d]) : Append(cmds[d], x)[i] = cmds[d][i]
          /\ Append(cmds[d], x)[Len(cmds[d]) + 1] = x
      BY <1>3, AppendProperties
    <2>2. \A e \in Deck : cmds'[e] = IF e = d THEN Append(cmds[d], x) ELSE cmds[e]
      BY <1>1, <1>3
    <2>3. ASSUME NEW e \in Deck, e # d PROVE cmds'[e] = cmds[e]
      BY <2>2, <2>3
    <2>4. ASSUME NEW i \in 1..Len(cmds'[d])
          PROVE  \/ i \in 1..Len(cmds[d]) /\ cmds'[d][i] = cmds[d][i]
                 \/ i = Len(cmds[d]) + 1 /\ cmds'[d][i] = x
      <3>1. cmds'[d] = Append(cmds[d], x)
        BY <2>2
      <3>2. i \in 1..(Len(cmds[d]) + 1)
        BY <2>1, <3>1
      <3> QED
        BY <1>3, <2>1, <3>1, <3>2
    <2> QED
      BY <2>3, <2>4
  <1>7. LiveInv /\ ApartInv /\ OneEofPerLoad
    BY DEF EofInv
  \* The new load is live, and apart from every load that was live before.
  <1>8. /\ x.load # NoLoad => x.load.id <= loads' /\ eofs'[x.load.id] = 0
        /\ \A k \in MaybeLoad : Live(k) => Apart(k, x.load) /\ Apart(x.load, k)
        /\ \A k \in MaybeLoad : Live(k) =>
                (k # NoLoad => k.id <= loads' /\ eofs'[k.id] = 0)
    <2>1. x.load # NoLoad => x.load.id \in 1..MaxLoads /\ x.load.id > loads
                             /\ x.load.id <= loads'
      BY <1>1, <1>3 DEF Load
    <2>2. \A k \in MaybeLoad : k # NoLoad => k.id \in 1..MaxLoads
      BY DEF MaybeLoad, Load
    <2> QED
      BY <1>2, <1>3, <1>7, <2>1, <2>2, DeckAssumption DEF LiveInv, Live, Apart
  <1>9. LiveInv'
    <2>1. \A e \in Deck, s \in Latches :
             Latched(e, s)' # NoLoad => Latched(e, s)'.id <= loads' /\ eofs'[Latched(e, s)'.id] = 0
      BY <1>4, <1>7, <1>8 DEF LiveInv
    <2>2. \A e \in Deck : \A i \in 1..Len(cmds'[e]) :
             cmds'[e][i].load # NoLoad =>
                cmds'[e][i].load.id <= loads' /\ eofs'[cmds'[e][i].load.id] = 0
      BY <1>5, <1>6, <1>7, <1>8 DEF LiveInv
    <2>3. \A n \in 1..MaxLoads : n > loads' => eofs'[n] = 0
      BY <1>2, <1>3, <1>7, DeckAssumption DEF LiveInv
    <2> QED
      BY <2>1, <2>2, <2>3 DEF LiveInv, Live
  <1>10. ApartInv'
    <2>1. \A e, f \in Deck, s, t \in Latches :
             e # f \/ s # t => Apart(Latched(e, s), Latched(f, t))'
      BY <1>4, <1>7 DEF ApartInv, Apart
    <2>2. ASSUME NEW e \in Deck, NEW f \in Deck, NEW s \in Latches, NEW i \in 1..Len(cmds'[f])
          PROVE  Apart(Latched(e, s)', cmds'[f][i].load)
      <3>1. CASE i \in 1..Len(cmds[f]) /\ cmds'[f][i] = cmds[f][i]
        BY <1>4, <1>7, <3>1 DEF ApartInv
      <3>2. CASE cmds'[f][i] = x
        BY <1>4, <1>7, <1>8, <3>2 DEF LiveInv
      <3> QED
        BY <1>6, <3>1, <3>2
    <2>3. ASSUME NEW e \in Deck, NEW f \in Deck, NEW i \in 1..Len(cmds'[e]),
                 NEW j \in 1..Len(cmds'[f]), e # f \/ i # j
          PROVE  Apart(cmds'[e][i].load, cmds'[f][j].load)
      <3>1. CASE /\ i \in 1..Len(cmds[e]) /\ cmds'[e][i] = cmds[e][i]
                 /\ j \in 1..Len(cmds[f]) /\ cmds'[f][j] = cmds[f][j]
        BY <1>7, <2>3, <3>1 DEF ApartInv
      <3>2. CASE /\ i \in 1..Len(cmds[e]) /\ cmds'[e][i] = cmds[e][i] /\ cmds'[f][j] = x
        BY <1>5, <1>7, <1>8, <3>2 DEF LiveInv
      <3>3. CASE /\ j \in 1..Len(cmds[f]) /\ cmds'[f][j] = cmds[f][j] /\ cmds'[e][i] = x
        BY <1>5, <1>7, <1>8, <3>3 DEF LiveInv
      <3> QED
        BY <1>6, <2>3, <3>1, <3>2, <3>3
    <2> QED
      BY <2>1, <2>2, <2>3 DEF ApartInv, Apart
  <1> QED
    BY <1>2, <1>7, <1>9, <1>10 DEF EofInv, OneEofPerLoad

LEMMA NextEof == TypeInv /\ TypeInv' /\ EofInv /\ [Next]_deckVars => EofInv'
  <1> SUFFICES ASSUME TypeInv, TypeInv', EofInv, [Next]_deckVars PROVE EofInv'
    OBVIOUS
  <1>1. ASSUME NEW d \in Deck, ActorEffect(d) PROVE EofInv'
    <2>1. actor \in [Deck -> ActorState]
      BY DEF TypeInv, TypeOK
    <2>2. \A e \in Deck : actor'[e].latch = actor[e].latch /\ actor'[e].warm = actor[e].warm
      BY <1>1, <2>1 DEF ActorEffect, ActorState
    <2> QED
      BY <1>1, <2>2, SameEof DEF ActorEffect
  <1>2. ASSUME NEW d \in Deck, HandleCmd(d) PROVE EofInv'
    BY <1>2, CmdRearranges, RearrangedLive
  <1>3. ASSUME NEW d \in Deck, PumpEvent(d) PROVE EofInv'
    BY <1>3, PumpRearranges, RearrangedLive
  <1>4. ASSUME NEW d \in Deck, MpvStep(d) PROVE EofInv'
    BY <1>4, SameEof DEF MpvStep, MpvFileEnds, MpvPosition
  <1>5. ASSUME NEW c \in Caller, AnyRequest(c) PROVE EofInv'
    BY <1>5, RequestLive
  <1>6. CASE Consume
    BY <1>6, SameEof DEF Consume
  <1>7. CASE UNCHANGED deckVars
    BY <1>7, SameEof DEF deckVars
  <1> QED
    BY <1>1, <1>2, <1>3, <1>4, <1>5, <1>6, <1>7 DEF Next, ActorStep

\* No load is reported finished twice, however commands, mpv's reports and the
\* decks interleave: the queue cannot advance twice over one track.
THEOREM FinishedOnce == Spec => []OneEofPerLoad
  <1>1. DeckInit => TypeInv /\ EofInv
    BY InitType, InitEof
  <1>2. TypeInv /\ EofInv /\ [Next]_deckVars => (TypeInv /\ EofInv)'
    BY NextType, NextEof
  <1>3. EofInv => OneEofPerLoad
    BY DEF EofInv
  <1> QED
    BY <1>1, <1>2, <1>3, PTL DEF Spec
-----------------------------------------------------------------------------
(***************************************************************************)
(* What a deck publishes is what mpv does.  DeckTellsTruth speaks of the   *)
(* moments when no end is queued; between an end and its report, what the  *)
(* deck will say depends on how many ends are queued, on what is parked    *)
(* and on how far mpv has gone meanwhile, and that is the invariant.       *)
(***************************************************************************)
\* The reports of a file's end that are not of our own making.
Real(s) == {i \in DOMAIN s : s[i].reason # "Stop"}
Alone(s) == \A i, j \in Real(s) : i = j

\* With nothing parked an end leaves the core idle.  With a continuation parked
\* at the end of the list, mpv is before it, in it (one end queued) or past it
\* (two): whichever ends are read first, the latch follows.  Under a skip warm
\* a real end sets the actor adrift, whatever is parked.
Truth(m, a) ==
    /\ (a.watch = "Stopped") <=> (a.latch = NoLoad)
    /\ Real(m.ends) = {} => Playing(m) = a.latch
    /\ a.warm.kind = "None" =>
         /\ m.pos \in {0, Len(m.list)}
         /\ Real(m.ends) # {} => m.pos = 0
    /\ a.warm.kind = "Continuation" =>
         /\ Len(m.list) > 0 /\ m.list[Len(m.list)] = a.warm.load
         /\ Real(m.ends) = {} => m.pos + 1 = Len(m.list)
         /\ Real(m.ends) # {} => \/ m.pos = Len(m.list) /\ Alone(m.ends)
                                 \/ m.pos = 0 /\ ~Alone(m.ends)

TruthInv == \A d \in Deck : ~actor[d].adrift => Truth(mpv[d], actor[d])

\* A report is added at the end of the queue.
LEMMA RealAppend ==
    ASSUME NEW s \in Seq(EndReport), NEW e \in EndReport
    PROVE  /\ e.reason = "Stop" => Real(Append(s, e)) = Real(s)
           /\ e.reason # "Stop" => Real(Append(s, e)) = Real(s) \cup {Len(s) + 1}
  <1>1. /\ Len(s) \in Nat /\ DOMAIN s = 1..Len(s)
        /\ DOMAIN Append(s, e) = 1..(Len(s) + 1)
        /\ \A i \in 1..Len(s) : Append(s, e)[i] = s[i]
        /\ Append(s, e)[Len(s) + 1] = e
    BY AppendProperties
  <1>2. 1..(Len(s) + 1) = (1..Len(s)) \cup {Len(s) + 1}
    BY <1>1
  <1> QED
    BY <1>1, <1>2 DEF Real

\* The first report is read: of the real ones, it was the only one or not.
LEMMA RealTail ==
    ASSUME NEW s \in Seq(EndReport), s # << >>
    PROVE  /\ Head(s).reason = "Stop" => (Real(Tail(s)) = {} <=> Real(s) = {})
           /\ Head(s).reason # "Stop" => Real(s) # {} /\ (Real(Tail(s)) = {} <=> Alone(s))
  <1>1. /\ Len(s) \in Nat \ {0} /\ DOMAIN s = 1..Len(s) /\ Head(s) = s[1]
        /\ DOMAIN Tail(s) = 1..(Len(s) - 1)
        /\ \A i \in 1..(Len(s) - 1) : Tail(s)[i] = s[i + 1]
    BY HeadTailProperties, EmptySeq
  <1>2. \A i \in 1..Len(s) : i = 1 \/ (i - 1 \in 1..(Len(s) - 1) /\ (i - 1) + 1 = i)
    BY <1>1
  <1>3. \A i \in 1..(Len(s) - 1) : i + 1 \in 1..Len(s) /\ i + 1 # 1
    BY <1>1
  <1>4. 1 \in 1..Len(s)
    BY <1>1
  <1>5. \A i \in 1..(Len(s) - 1) : i \in Real(Tail(s)) <=> (i + 1) \in Real(s)
    BY <1>1, <1>3 DEF Real
  <1>6. 1 \in Real(s) <=> Head(s).reason # "Stop"
    BY <1>1, <1>4 DEF Real
  <1>7. Real(Tail(s)) = {} <=> Real(s) \subseteq {1}
    <2>1. Real(Tail(s)) \subseteq 1..(Len(s) - 1) /\ Real(s) \subseteq 1..Len(s)
      BY <1>1 DEF Real
    <2> QED
      BY <1>2, <1>3, <1>5, <2>1
  <1> QED
    BY <1>6, <1>7 DEF Alone

\* Being alone, before and after one more end.
LEMMA AloneAppend ==
    ASSUME NEW s \in Seq(EndReport), NEW e \in EndReport, e.reason # "Stop"
    PROVE  /\ Real(Append(s, e)) # {}
           /\ Real(s) = {} => Alone(Append(s, e))
           /\ Real(s) # {} => ~Alone(Append(s, e))
  <1>1. Real(Append(s, e)) = Real(s) \cup {Len(s) + 1} /\ Len(s) \in Nat
    BY RealAppend
  <1>2. Real(s) \subseteq 1..Len(s)
    BY DEF Real
  <1>3. Len(s) + 1 \notin Real(s)
    BY <1>1, <1>2
  <1> QED
    BY <1>1, <1>3 DEF Alone

\* A removed file's report is one of our own making.
LEMMA RemovedReal ==
    ASSUME NEW m, Sound(m)
    PROVE  Real(Removed(m)) = Real(m.ends)
  <1>1. m.ends \in Seq(EndReport) /\ m.pos \in Nat
    BY DEF Sound, Core
  <1>2. m.pos # 0 => [reason |-> "Stop", load |-> Playing(m)] \in EndReport
    BY <1>1, PlayingType DEF EndReport, Reason
  <1> QED
    BY <1>1, <1>2, RealAppend DEF Removed

\* What the operations on a core leave playing, and where.
LEMMA ReplaceFields ==
    ASSUME NEW m, Sound(m), NEW l \in Load,
           NEW n, n = [LoadfileReplace(m, l) EXCEPT !.keepOpen = FALSE, !.pause = FALSE]
    PROVE  n.pos = 1 /\ Len(n.list) = 1 /\ Playing(n) = l /\ Real(n.ends) = Real(m.ends)
  <1>1. n.pos = 1 /\ n.list = <<l>> /\ n.ends = Removed(m)
    BY DEF LoadfileReplace, Sound, Core
  <1> QED
    BY <1>1, RemovedReal DEF Playing

LEMMA ClearFields ==
    ASSUME NEW m, Sound(m), NEW n, n = PlaylistClear(m)
    PROVE  /\ Len(n.list) = n.pos /\ n.pos \in {0, 1} /\ (n.pos = 0 <=> m.pos = 0)
           /\ Playing(n) = Playing(m) /\ n.ends = m.ends
           /\ n.list \in Seq(Load)
  <1>1. CASE m.pos = 0
    <2>1. n.pos = 0 /\ n.list = << >> /\ n.ends = m.ends
      BY <1>1 DEF PlaylistClear, Sound, Core
    <2> QED
      BY <1>1, <2>1 DEF Playing
  <1>2. CASE m.pos # 0
    <2>1. n.pos = 1 /\ n.list = <<Playing(m)>> /\ n.ends = m.ends
      BY <1>2 DEF PlaylistClear, Sound, Core
    <2>2. Playing(m) \in Load
      BY <1>2, PlayingType DEF Sound, Core
    <2> QED
      BY <1>2, <2>1, <2>2 DEF Playing
  <1> QED
    BY <1>1, <1>2

LEMMA HaltFields ==
    ASSUME NEW m, Sound(m), NEW n, n = [Halt(m) EXCEPT !.keepOpen = FALSE]
    PROVE  n.pos = 0 /\ Playing(n) = NoLoad /\ Len(n.list) = 0 /\ Real(n.ends) = Real(m.ends)
  <1>1. n.pos = 0 /\ n.list = << >> /\ n.ends = Removed(m)
    BY DEF Halt, Sound, Core
  <1> QED
    BY <1>1, RemovedReal DEF Playing

\* Parking an entry behind what plays.
LEMMA ParkFields ==
    ASSUME NEW m, m.list \in Seq(Load), Len(m.list) = m.pos, m.pos \in {0, 1}, NEW l \in Load,
           NEW n, n.list = Append(m.list, l), n.pos = m.pos, n.ends = m.ends
    PROVE  /\ Len(n.list) = n.pos + 1 /\ n.list[Len(n.list)] = l
           /\ Playing(n) = Playing(m)
  <1>1. /\ Len(n.list) = Len(m.list) + 1 /\ n.list[Len(m.list) + 1] = l
        /\ \A i \in 1..Len(m.list) : n.list[i] = m.list[i]
    BY AppendProperties
  <1>2. m.pos = 1 => n.list[1] = m.list[1]
    BY <1>1
  <1> QED
    BY <1>1, <1>2 DEF Playing

\* The truth of a deck depends on where mpv is, what is queued and the latches.
LEMMA SameTruth ==
    ASSUME NEW m, NEW n, NEW a, NEW b, Truth(m, a),
           n.pos = m.pos, n.list = m.list, n.ends = m.ends,
           b.latch = a.latch, b.warm = a.warm,
           (b.watch = "Stopped") <=> (b.latch = NoLoad)
    PROVE  Truth(n, b)
  <1>1. Playing(n) = Playing(m)
    BY DEF Playing
  <1> QED
    BY <1>1 DEF Truth

\* A step of one deck, and the others as they were.
LEMMA TruthStep ==
    ASSUME TruthInv, NEW d \in Deck,
           \A e \in Deck : e # d => mpv'[e] = mpv[e] /\ actor'[e] = actor[e],
           ~actor'[d].adrift => Truth(mpv'[d], actor'[d])
    PROVE  TruthInv'
  BY DEF TruthInv

\* mpv goes past a file: one more end, told before or after the others.
LEMMA StepPastTruth ==
    ASSUME NEW m, Sound(m), m.pos > 0, NEW r \in Reason, r # "Stop",
           NEW a \in ActorState, Truth(m, a)
    PROVE  Truth(StepPast(m, r), a)
  <1> DEFINE n == StepPast(m, r)
             e == [reason |-> r, load |-> Playing(m)]
  <1>1. m.pos \in Nat /\ Len(m.list) \in Nat /\ m.pos <= Len(m.list) /\ m.ends \in Seq(EndReport)
    BY DEF Sound, Core
  <1>2. /\ n.pos = IF m.pos < Len(m.list) THEN m.pos + 1 ELSE 0
        /\ n.list = m.list /\ n.ends = Append(m.ends, e)
    BY DEF StepPast, Sound, Core
  <1>3. e \in EndReport /\ e.reason # "Stop"
    BY PlayingType DEF EndReport
  <1>4. /\ Real(n.ends) # {}
        /\ Real(m.ends) = {} => Alone(n.ends)
        /\ Real(m.ends) # {} => ~Alone(n.ends)
    BY <1>1, <1>2, <1>3, AloneAppend
  <1> HIDE DEF n
  <1>5. a.warm.kind = "None" => n.pos = 0
    BY <1>1, <1>2 DEF Truth
  <1>6. a.warm.kind = "Continuation" =>
            \/ n.pos = Len(n.list) /\ Alone(n.ends)
            \/ n.pos = 0 /\ ~Alone(n.ends)
    <2> SUFFICES ASSUME a.warm.kind = "Continuation"
                 PROVE  \/ n.pos = Len(n.list) /\ Alone(n.ends)
                        \/ n.pos = 0 /\ ~Alone(n.ends)
      OBVIOUS
    <2>1. CASE Real(m.ends) = {}
      <3>1. m.pos + 1 = Len(m.list)
        BY <2>1 DEF Truth
      <3>2. n.pos = Len(n.list)
        BY <1>1, <1>2, <3>1
      <3> QED
        BY <1>4, <2>1, <3>2
    <2>2. CASE Real(m.ends) # {}
      <3>1. m.pos = Len(m.list)
        BY <1>1, <2>2 DEF Truth
      <3>2. n.pos = 0
        BY <1>1, <1>2, <3>1
      <3> QED
        BY <1>4, <2>2, <3>2
    <2> QED
      BY <2>1, <2>2
  <1>7. Truth(n, a)
    BY <1>2, <1>4, <1>5, <1>6 DEF Truth
  <1> QED
    BY <1>7 DEF n

LEMMA MpvStepTruth ==
    ASSUME TypeInv, TruthInv, NEW d \in Deck, MpvStep(d)
    PROVE  TruthInv'
  <1>1. /\ Sound(mpv[d]) /\ mpv \in [Deck -> Core] /\ mpv[d] \in Core
        /\ actor[d] \in ActorState /\ actor' = actor
    BY DEF TypeInv, TypeOK, MpvStep, MpvFileEnds, MpvPosition
  <1>2. ASSUME NEW n, mpv' = [mpv EXCEPT ![d] = n],
               Truth(mpv[d], actor[d]) => Truth(n, actor[d])
        PROVE  TruthInv'
    <2>1. mpv'[d] = n /\ \A e \in Deck : e # d => mpv'[e] = mpv[e]
      BY <1>1, <1>2
    <2> QED
      BY <1>1, <1>2, <2>1, TruthStep DEF TruthInv
  <1>3. ASSUME NEW n, mpv' = [mpv EXCEPT ![d] = n],
               n.pos = mpv[d].pos, n.list = mpv[d].list, n.ends = mpv[d].ends
        PROVE  TruthInv'
    <2>1. Truth(mpv[d], actor[d]) => Truth(n, actor[d])
      <3>1. Truth(mpv[d], actor[d]) => ((actor[d].watch = "Stopped") <=> (actor[d].latch = NoLoad))
        BY DEF Truth
      <3> QED
        BY <1>3, <3>1, SameTruth
    <2> QED
      BY <1>2, <1>3, <2>1
  <1>4. CASE MpvFileEnds(d)
    <2>1. mpv[d].pos > 0
      BY <1>4 DEF MpvFileEnds
    <2>2. EndKinds \subseteq Reason \ {"Stop"} /\ "Eof" \in Reason \ {"Stop"}
      BY DeckAssumption DEF Reason
    <2>3. \/ \E r \in Reason \ {"Stop"} : mpv' = [mpv EXCEPT ![d] = StepPast(mpv[d], r)]
          \/ mpv' = [mpv EXCEPT ![d] = [mpv[d] EXCEPT !.held = TRUE]]
      BY <1>1, <1>4, <2>2 DEF MpvFileEnds
    <2>4. CASE \E r \in Reason \ {"Stop"} : mpv' = [mpv EXCEPT ![d] = StepPast(mpv[d], r)]
      <3>1. PICK r \in Reason \ {"Stop"} : mpv' = [mpv EXCEPT ![d] = StepPast(mpv[d], r)]
        BY <2>4
      <3>2. Truth(mpv[d], actor[d]) => Truth(StepPast(mpv[d], r), actor[d])
        BY <1>1, <2>1, StepPastTruth
      <3> QED
        BY <1>2, <3>1, <3>2
    <2>5. CASE mpv' = [mpv EXCEPT ![d] = [mpv[d] EXCEPT !.held = TRUE]]
      <3> DEFINE n == [mpv[d] EXCEPT !.held = TRUE]
      <3>1. n.pos = mpv[d].pos /\ n.list = mpv[d].list /\ n.ends = mpv[d].ends
        BY <1>1 DEF Core
      <3> HIDE DEF n
      <3> QED
        BY <1>3, <2>5, <3>1 DEF n
    <2> QED
      BY <2>3, <2>4, <2>5
  <1>5. CASE MpvPosition(d)
    <2> DEFINE n == [mpv[d] EXCEPT !.tick = Playing(mpv[d])]
    <2>1. n.pos = mpv[d].pos /\ n.list = mpv[d].list /\ n.ends = mpv[d].ends
      BY <1>1 DEF Core
    <2>2. mpv' = [mpv EXCEPT ![d] = n]
      BY <1>1, <1>5 DEF MpvPosition
    <2> HIDE DEF n
    <2> QED
      BY <1>3, <2>1, <2>2
  <1> QED
    BY <1>4, <1>5 DEF MpvStep

\* A load mpv accepted: it plays, and nothing else is queued or parked, or the
\* actor is adrift.
LEMMA LoadedTruth ==
    ASSUME NEW d \in Deck, NEW m, Sound(m), m.ends = mpv[d].ends,
           NEW a \in ActorState, NEW c \in Command, c.load \in Load,
           NEW n, n = [LoadfileReplace(m, c.load) EXCEPT !.keepOpen = FALSE, !.pause = FALSE],
           NEW b, b = Loaded(d, a, c)
    PROVE  ~b.adrift => Truth(n, b)
  <1>1. /\ b.latch = c.load /\ b.warm = NoWarm /\ b.watch = "Playing" /\ b.adrift = EndQueued(d)
    BY DEF Loaded, ActorState
  <1>2. n.pos = 1 /\ Len(n.list) = 1 /\ Playing(n) = c.load /\ Real(n.ends) = Real(m.ends)
    <2> DEFINE l == c.load
    <2>1. l \in Load /\ n = [LoadfileReplace(m, l) EXCEPT !.keepOpen = FALSE, !.pause = FALSE]
      OBVIOUS
    <2> HIDE DEF l
    <2>2. n.pos = 1 /\ Len(n.list) = 1 /\ Playing(n) = l /\ Real(n.ends) = Real(m.ends)
      BY <2>1, ReplaceFields
    <2> QED
      BY <2>2 DEF l
  <1>3. EndQueued(d) <=> Real(mpv[d].ends) # {}
    BY DEF EndQueued, Real
  <1>4. c.load # NoLoad /\ NoWarm.kind = "None"
    BY DeckAssumption DEF NoWarm
  <1> QED
    BY <1>1, <1>2, <1>3, <1>4 DEF Truth

\* A refused load leaves the core, or clears what it has parked.
LEMMA RefusedTruth ==
    ASSUME NEW m, Sound(m), NEW a \in ActorState, ~a.adrift => Truth(m, a), NEW c,
           NEW n \in {m, PlaylistClear(m)}, NEW b, b = Refused(a, c)
    PROVE  ~b.adrift => Truth(n, b)
  <1>1. /\ b.latch = a.latch /\ b.warm = NoWarm /\ b.watch = a.watch
        /\ ~b.adrift => ~a.adrift /\ a.warm.kind = "None"
    BY DEF Refused, ActorState
  <1>2. NoWarm.kind = "None"
    BY DEF NoWarm
  <1>3. m.pos \in Nat /\ Len(m.list) \in Nat
    BY DEF Sound, Core
  <1>4. CASE n = m
    BY <1>1, <1>2, <1>4 DEF Truth
  <1>5. CASE n = PlaylistClear(m)
    <2>1. Len(n.list) = n.pos /\ (n.pos = 0 <=> m.pos = 0) /\ Playing(n) = Playing(m)
          /\ n.ends = m.ends
      BY <1>5, ClearFields
    <2> QED
      BY <1>1, <1>2, <2>1 DEF Truth
  <1> QED
    BY <1>4, <1>5

\* A command that clears the playlist, and may park a load behind what plays:
\* if no end is queued, what plays is the latch still.
LEMMA ClearedTruth ==
    ASSUME NEW d \in Deck, Sound(mpv[d]), NEW a \in ActorState,
           ~a.adrift => Truth(mpv[d], a),
           NEW w \in Warm, NEW n, n.ends = mpv[d].ends, n.pos = PlaylistClear(mpv[d]).pos,
           \/ w.kind = "None" /\ n.list = PlaylistClear(mpv[d]).list
           \/ w.kind # "None" /\ w.load \in Load /\ n.list = Append(PlaylistClear(mpv[d]).list, w.load),
           NEW b, b.latch = a.latch, b.watch = a.watch, b.warm = w,
           b.adrift = (a.adrift \/ EndQueued(d))
    PROVE  ~b.adrift => Truth(n, b)
  <1> DEFINE p == PlaylistClear(mpv[d])
  <1>1. /\ Len(p.list) = p.pos /\ p.pos \in {0, 1}
        /\ Playing(p) = Playing(mpv[d]) /\ p.ends = mpv[d].ends /\ p.list \in Seq(Load)
    BY ClearFields
  <1> HIDE DEF p
  <1> SUFFICES ASSUME ~b.adrift PROVE Truth(n, b)
    OBVIOUS
  <1>2. /\ Truth(mpv[d], a) /\ Real(mpv[d].ends) = {}
    BY DEF EndQueued, Real
  <1>3. Playing(mpv[d]) = a.latch /\ ((a.watch = "Stopped") <=> (a.latch = NoLoad))
    BY <1>2 DEF Truth
  <1>4. CASE w.kind = "None" /\ n.list = p.list
    <2>1. Playing(n) = Playing(p)
      BY <1>4 DEF p, Playing
    <2> QED
      BY <1>1, <1>2, <1>3, <1>4, <2>1 DEF p, Truth
  <1>5. CASE w.kind # "None" /\ w.load \in Load /\ n.list = Append(p.list, w.load)
    <2>1. /\ Len(n.list) = n.pos + 1 /\ n.list[Len(n.list)] = w.load
          /\ Playing(n) = Playing(p)
      BY <1>1, <1>5, ParkFields DEF p
    <2>2. n.pos \in {0, 1}
      BY <1>1 DEF p
    <2>3. Len(n.list) > 0 /\ n.pos + 1 = Len(n.list)
      BY <2>1, <2>2
    <2> QED
      BY <1>1, <1>2, <1>3, <1>5, <2>1, <2>3 DEF Truth
  <1> QED
    BY <1>4, <1>5 DEF p

LEMMA FrameTruth ==
    ASSUME TypeInv, TruthInv, NEW d \in Deck, NEW n, NEW b,
           mpv' = [mpv EXCEPT ![d] = n], actor' = [actor EXCEPT ![d] = b],
           ~b.adrift => Truth(n, b)
    PROVE  TruthInv'
  <1>1. mpv \in [Deck -> Core] /\ actor \in [Deck -> ActorState]
    BY DEF TypeInv, TypeOK
  <1>2. /\ mpv'[d] = n /\ actor'[d] = b
        /\ \A e \in Deck : e # d => mpv'[e] = mpv[e] /\ actor'[e] = actor[e]
    BY <1>1
  <1> QED
    BY <1>2, TruthStep

LEMMA LoadCmdTruth ==
    ASSUME TypeInv, TruthInv, NEW d \in Deck, PlayUrl(d) \/ SwitchWarmed(d)
    PROVE  TruthInv'
  <1> DEFINE c == Head(cmds[d])
             Replaced(m) == [LoadfileReplace(m, c.load) EXCEPT !.keepOpen = FALSE, !.pause = FALSE]
  <1>1. /\ Sound(mpv[d]) /\ mpv \in [Deck -> Core]
        /\ actor[d] \in ActorState /\ actor \in [Deck -> ActorState]
        /\ ~actor[d].adrift => Truth(mpv[d], actor[d])
    BY DEF TypeInv, TypeOK, TruthInv
  <1>2. c \in Command /\ c.load \in Load
    <2>1. \E op \in LoadOps : Taking(d, op)
      BY DEF PlayUrl, SwitchWarmed, LoadOps
    <2> QED
      BY <2>1, TakingType
  <1>3. ASSUME NEW m \in {mpv[d], PlaylistClear(mpv[d])},
               \/ mpv' = [mpv EXCEPT ![d] = Replaced(m)]
                  /\ actor' = [actor EXCEPT ![d] = Loaded(d, actor[d], c)]
               \/ mpv' = [mpv EXCEPT ![d] = m]
                  /\ actor' = [actor EXCEPT ![d] = Refused(actor[d], c)]
        PROVE  TruthInv'
    <2>1. Sound(m) /\ m.ends = mpv[d].ends
      BY <1>1, PlaylistClearSound, ClearFields
    <2>2. ~Loaded(d, actor[d], c).adrift => Truth(Replaced(m), Loaded(d, actor[d], c))
      <3> HIDE DEF c
      <3> QED
        BY <1>1, <1>2, <2>1, LoadedTruth
    <2>3. ~Refused(actor[d], c).adrift => Truth(m, Refused(actor[d], c))
      <3> HIDE DEF c
      <3> QED
        BY <1>1, RefusedTruth
    <2> HIDE DEF c, Replaced
    <2> QED
      BY <1>3, <2>2, <2>3, FrameTruth
  <1>4. ASSUME PlayUrl(d) PROVE TruthInv'
    <2>1. \/ mpv' = [mpv EXCEPT ![d] = Replaced(mpv[d])]
             /\ actor' = [actor EXCEPT ![d] = Loaded(d, actor[d], c)]
          \/ mpv' = [mpv EXCEPT ![d] = mpv[d]]
             /\ actor' = [actor EXCEPT ![d] = Refused(actor[d], c)]
      BY <1>1, <1>4 DEF PlayUrl
    <2> HIDE DEF c, Replaced
    <2> QED
      BY <1>3, <2>1
  <1>5. ASSUME SwitchWarmed(d) PROVE TruthInv'
    <2>1. PICK m \in {mpv[d], PlaylistClear(mpv[d])} :
            \/ mpv' = [mpv EXCEPT ![d] = Replaced(m)]
               /\ actor' = [actor EXCEPT ![d] = Loaded(d, actor[d], c)]
            \/ mpv' = [mpv EXCEPT ![d] = m]
               /\ actor' = [actor EXCEPT ![d] = Refused(actor[d], c)]
      <3> DEFINE m == IF CanSwitch(d, c.load) THEN mpv[d] ELSE PlaylistClear(mpv[d])
      <3>1. \/ mpv' = [mpv EXCEPT ![d] = Replaced(m)]
               /\ actor' = [actor EXCEPT ![d] = Loaded(d, actor[d], c)]
            \/ mpv' = [mpv EXCEPT ![d] = m]
               /\ actor' = [actor EXCEPT ![d] = Refused(actor[d], c)]
        BY <1>1, <1>5 DEF SwitchWarmed
      <3>2. m \in {mpv[d], PlaylistClear(mpv[d])}
        OBVIOUS
      <3> HIDE DEF m, c, Replaced
      <3> QED
        BY <3>1, <3>2
    <2> HIDE DEF c, Replaced
    <2> QED
      BY <1>3, <2>1
  <1> QED
    BY <1>4, <1>5

\* The commands that clear the playlist and may park an entry.
LEMMA ParkCmdTruth ==
    ASSUME TypeInv, TruthInv, NEW d \in Deck,
           PrefetchWarm(d) \/ PrefetchContinuation(d) \/ DropWarm(d)
    PROVE  TruthInv'
  <1> DEFINE c == Head(cmds[d])
             p == PlaylistClear(mpv[d])
             Now(w, o) == [actor[d] EXCEPT !.warm = w, !.adrift = (actor[d].adrift \/ EndQueued(d)),
                                        !.out = o]
             K == {"Skip", "Continuation"}
  <1>1. /\ Sound(mpv[d]) /\ mpv \in [Deck -> Core] /\ Sound(p) /\ p \in Core
        /\ actor[d] \in ActorState /\ actor \in [Deck -> ActorState]
        /\ ~actor[d].adrift => Truth(mpv[d], actor[d])
    BY PlaylistClearSound DEF TypeInv, TypeOK, TruthInv, Sound
  <1>2. p.ends = mpv[d].ends
    BY <1>1, ClearFields
  <1>3. ASSUME NEW w \in Warm, NEW o, NEW n, n.ends = p.ends, n.pos = p.pos,
               \/ w.kind = "None" /\ n.list = p.list
               \/ w.kind # "None" /\ w.load \in Load /\ n.list = Append(p.list, w.load),
               mpv' = [mpv EXCEPT ![d] = n], actor' = [actor EXCEPT ![d] = Now(w, o)]
        PROVE  TruthInv'
    <2> DEFINE b == Now(w, o)
    <2>1. /\ b.latch = actor[d].latch /\ b.watch = actor[d].watch /\ b.warm = w
          /\ b.adrift = (actor[d].adrift \/ EndQueued(d))
      BY <1>1 DEF ActorState
    <2> HIDE DEF b, p
    <2>2. ~b.adrift => Truth(n, b)
      BY <1>1, <1>2, <1>3, <2>1, ClearedTruth DEF p
    <2> QED
      BY <1>3, <2>2, FrameTruth DEF b
  <1>4. NoWarm \in Warm /\ NoWarm.kind = "None"
    BY EffectType DEF NoWarm
  <1>5. ASSUME NEW k \in K, NEW w, w = [kind |-> k, load |-> c.load], c.load \in Load
        PROVE  w \in Warm /\ w.kind # "None" /\ w.load \in Load
    BY <1>5 DEF Warm, MaybeLoad
  <1>6. ASSUME PrefetchWarm(d) \/ PrefetchContinuation(d) PROVE TruthInv'
    <2>1. c.load \in Load
      <3>1. \E op \in LoadOps : Taking(d, op)
        BY <1>6 DEF PrefetchWarm, PrefetchContinuation, LoadOps
      <3> QED
        BY <3>1, TakingType
    <2> DEFINE W(k, ok) == IF ok THEN [kind |-> k, load |-> c.load] ELSE NoWarm
               Parks(k, ok, n) ==
                  /\ n.ends = p.ends /\ n.pos = p.pos
                  /\ n.list = IF ok THEN Append(p.list, c.load) ELSE p.list
                  /\ mpv' = [mpv EXCEPT ![d] = n]
                  /\ actor' = [actor EXCEPT ![d] = Now(W(k, ok), <<Reply(c.by, ok)>>)]
    <2>2. \E ok \in BOOLEAN, k \in K : \E n : Parks(k, ok, n)
      <3>1. ASSUME PrefetchWarm(d)
            PROVE  \E ok \in BOOLEAN, k \in K : \E n : Parks(k, ok, n)
        <4>1. PICK ok \in LoadResults :
                /\ mpv' = [mpv EXCEPT ![d] =
                      IF ok THEN [p EXCEPT !.list = Append(@, c.load), !.keepOpen = TRUE]
                      ELSE [p EXCEPT !.keepOpen = FALSE]]
                /\ actor' = [actor EXCEPT ![d].warm = W("Skip", ok),
                                          ![d].adrift = @ \/ EndQueued(d),
                                          ![d].out = <<Reply(c.by, ok)>>]
          BY <3>1 DEF PrefetchWarm
        <4> DEFINE n == IF ok THEN [p EXCEPT !.list = Append(@, c.load), !.keepOpen = TRUE]
                        ELSE [p EXCEPT !.keepOpen = FALSE]
        <4>2. /\ n.ends = p.ends /\ n.pos = p.pos
              /\ n.list = IF ok THEN Append(p.list, c.load) ELSE p.list
          <5> HIDE DEF p, c
          <5> QED  BY <1>1 DEF Core
        <4>3. ok \in BOOLEAN /\ "Skip" \in K
          BY DeckAssumption
        <4>4. actor' = [actor EXCEPT ![d] = Now(W("Skip", ok), <<Reply(c.by, ok)>>)]
          <5> HIDE DEF W, c
          <5> QED  BY <1>1, <4>1 DEF ActorState
        <4>5. mpv' = [mpv EXCEPT ![d] = n]
          BY <4>1
        <4> HIDE DEF n, W, K, p, c, Now
        <4> QED
          BY <4>2, <4>3, <4>4, <4>5
      <3>2. ASSUME PrefetchContinuation(d)
            PROVE  \E ok \in BOOLEAN, k \in K : \E n : Parks(k, ok, n)
        <4> DEFINE q == [p EXCEPT !.keepOpen = FALSE]
        <4>1. PICK ok \in LoadResults :
                /\ mpv' = [mpv EXCEPT ![d] =
                      IF ok THEN [q EXCEPT !.list = Append(@, c.load)] ELSE q]
                /\ actor' = [actor EXCEPT ![d].warm = W("Continuation", ok),
                                          ![d].adrift = @ \/ EndQueued(d),
                                          ![d].out = <<Reply(c.by, ok)>>]
          BY <3>2 DEF PrefetchContinuation
        <4> DEFINE n == IF ok THEN [q EXCEPT !.list = Append(@, c.load)] ELSE q
        <4>2. /\ n.ends = p.ends /\ n.pos = p.pos
              /\ n.list = IF ok THEN Append(p.list, c.load) ELSE p.list
          <5> HIDE DEF p, c
          <5> QED  BY <1>1 DEF Core
        <4>3. ok \in BOOLEAN /\ "Continuation" \in K
          BY DeckAssumption
        <4>4. actor' = [actor EXCEPT ![d] = Now(W("Continuation", ok), <<Reply(c.by, ok)>>)]
          <5> HIDE DEF W, c
          <5> QED  BY <1>1, <4>1 DEF ActorState
        <4>5. mpv' = [mpv EXCEPT ![d] = n]
          BY <4>1
        <4> HIDE DEF n, W, K, p, c, Now, q
        <4> QED
          BY <4>2, <4>3, <4>4, <4>5
      <3> QED
        BY <1>6, <3>1, <3>2
    <2>3. PICK ok \in BOOLEAN, k \in K : \E n : Parks(k, ok, n)
      BY <2>2
    <2>4. PICK n : Parks(k, ok, n)
      BY <2>3
    <2> DEFINE w == W(k, ok)
    <2>5. /\ w \in Warm
          /\ \/ w.kind = "None" /\ n.list = p.list
             \/ w.kind # "None" /\ w.load \in Load /\ n.list = Append(p.list, w.load)
      <3>1. CASE ok
        <4>1. w = [kind |-> k, load |-> c.load]
          BY <3>1
        <4>2. w.load = c.load
          BY <4>1
        <4> HIDE DEF w, c, p, K
        <4> QED
          BY <1>5, <2>1, <2>4, <3>1, <4>1, <4>2
      <3>2. CASE ~ok
        BY <1>4, <2>4, <3>2
      <3> QED
        BY <3>1, <3>2
    <2>6. actor' = [actor EXCEPT ![d] = Now(w, <<Reply(c.by, ok)>>)]
      BY <2>4
    <2> HIDE DEF w, c, p, Now, W
    <2> QED
      BY <1>3, <2>4, <2>5, <2>6
  <1>7. ASSUME DropWarm(d) PROVE TruthInv'
    <2> DEFINE n == [p EXCEPT !.keepOpen = FALSE]
    <2>1. n.ends = p.ends /\ n.pos = p.pos /\ n.list = p.list
      <3> HIDE DEF p
      <3> QED  BY <1>1 DEF Core
    <2>2. mpv' = [mpv EXCEPT ![d] = n]
      BY <1>1, <1>7 DEF DropWarm
    <2>3. actor' = [actor EXCEPT ![d] = Now(NoWarm, <<Reply(c.by, TRUE)>>)]
      BY <1>1, <1>7 DEF DropWarm, ActorState
    <2> HIDE DEF n, p, c, Now
    <2> QED
      BY <1>3, <1>4, <2>1, <2>2, <2>3
  <1> QED
    BY <1>6, <1>7

\* The other commands: only Stop moves mpv, and it leaves it idle.
LEMMA PlainCmdTruth ==
    ASSUME TypeInv, TruthInv, NEW d \in Deck,
           EmitCrossfadedEof(d) \/ Pause(d) \/ Resume(d) \/ Stop(d) \/ Seek(d)
    PROVE  TruthInv'
  <1> DEFINE c == Head(cmds[d])
             a == actor[d]
  <1>1. /\ Sound(mpv[d]) /\ mpv \in [Deck -> Core] /\ mpv[d] \in Core
        /\ a \in ActorState /\ actor \in [Deck -> ActorState]
        /\ ~a.adrift => Truth(mpv[d], a)
        /\ Truth(mpv[d], a) => ((a.watch = "Stopped") <=> (a.latch = NoLoad))
    BY DEF TypeInv, TypeOK, TruthInv, Truth
  \* What the actor publishes changes, and neither the latches nor where mpv is.
  <1>2. ASSUME NEW n, NEW b, n.pos = mpv[d].pos, n.list = mpv[d].list, n.ends = mpv[d].ends,
               b.latch = a.latch, b.warm = a.warm, b.adrift = a.adrift,
               \/ b.watch = a.watch
               \/ b.watch # "Stopped" /\ a.latch # NoLoad,
               mpv' = [mpv EXCEPT ![d] = n], actor' = [actor EXCEPT ![d] = b]
        PROVE  TruthInv'
    <2>1. ~b.adrift => Truth(n, b)
      <3> SUFFICES ASSUME ~b.adrift PROVE Truth(n, b)
        OBVIOUS
      <3>1. Truth(mpv[d], a) /\ ((b.watch = "Stopped") <=> (b.latch = NoLoad))
        BY <1>1, <1>2
      <3> HIDE DEF a
      <3> QED
        BY <1>2, <3>1, SameTruth
    <2> QED
      BY <1>2, <2>1, FrameTruth
  <1>3. ASSUME EmitCrossfadedEof(d) PROVE TruthInv'
    <2>1. PICK o : actor' = [actor EXCEPT ![d] = [a EXCEPT !.latch = NoLoad, !.adrift = TRUE,
                                                           !.out = o]]
      BY <1>3 DEF EmitCrossfadedEof
    <2> DEFINE b == [a EXCEPT !.latch = NoLoad, !.adrift = TRUE, !.out = o]
    <2>2. b.adrift
      BY <1>1 DEF ActorState
    <2>3. mpv' = [mpv EXCEPT ![d] = mpv[d]]
      BY <1>1, <1>3 DEF EmitCrossfadedEof
    <2>4. actor' = [actor EXCEPT ![d] = b]
      BY <2>1
    <2> HIDE DEF b, a
    <2> QED
      BY <2>2, <2>3, <2>4, FrameTruth
  <1>4. ASSUME NEW op, NEW on \in BOOLEAN, SetPause(d, op, on) PROVE TruthInv'
    <2> DEFINE st == IF on THEN "Paused" ELSE "Playing"
               n == [mpv[d] EXCEPT !.pause = on]
    <2>1. PICK o1, o2 : actor' = [actor EXCEPT ![d] =
                            IF a.latch = NoLoad THEN [a EXCEPT !.out = o1]
                            ELSE [a EXCEPT !.watch = st, !.out = o2]]
      BY <1>4 DEF SetPause
    <2> DEFINE b == IF a.latch = NoLoad THEN [a EXCEPT !.out = o1]
                    ELSE [a EXCEPT !.watch = st, !.out = o2]
    <2>2. mpv' = [mpv EXCEPT ![d] = n] /\ actor' = [actor EXCEPT ![d] = b]
      BY <1>1, <1>4, <2>1 DEF SetPause
    <2>3. n.pos = mpv[d].pos /\ n.list = mpv[d].list /\ n.ends = mpv[d].ends
      BY <1>1 DEF Core
    <2>4. /\ b.latch = a.latch /\ b.warm = a.warm /\ b.adrift = a.adrift
          /\ b.watch = a.watch \/ (b.watch # "Stopped" /\ a.latch # NoLoad)
      BY <1>1 DEF ActorState
    <2> HIDE DEF n, b, a
    <2> QED
      BY <1>2, <2>2, <2>3, <2>4
  <1>5. ASSUME Stop(d) PROVE TruthInv'
    <2> DEFINE n == [Halt(mpv[d]) EXCEPT !.keepOpen = FALSE]
    <2>1. PICK o : actor' = [actor EXCEPT ![d] =
                        [a EXCEPT !.latch = NoLoad, !.warm = NoWarm, !.watch = "Stopped",
                                  !.adrift = FALSE, !.out = o]]
      BY <1>5 DEF Stop
    <2> DEFINE b == [a EXCEPT !.latch = NoLoad, !.warm = NoWarm, !.watch = "Stopped",
                              !.adrift = FALSE, !.out = o]
    <2>2. mpv' = [mpv EXCEPT ![d] = n] /\ actor' = [actor EXCEPT ![d] = b]
      BY <1>5, <2>1 DEF Stop
    <2>3. n.pos = 0 /\ Playing(n) = NoLoad /\ Len(n.list) = 0
      BY <1>1, HaltFields
    <2>4. b.latch = NoLoad /\ b.watch = "Stopped" /\ b.warm = NoWarm /\ NoWarm.kind = "None"
      BY <1>1 DEF ActorState, NoWarm
    <2> HIDE DEF n, b, a
    <2>5. Truth(n, b)
      BY <2>3, <2>4 DEF Truth
    <2> QED
      BY <2>2, <2>5, FrameTruth
  <1>6. ASSUME Seek(d) PROVE TruthInv'
    <2> DEFINE n == [mpv[d] EXCEPT !.held = FALSE]
    <2>1. PICK o : actor' = [actor EXCEPT ![d].out = o]
      BY <1>6 DEF Seek
    <2> DEFINE b == [a EXCEPT !.out = o]
    <2>2. mpv' = [mpv EXCEPT ![d] = n] /\ actor' = [actor EXCEPT ![d] = b]
      BY <1>1, <1>6, <2>1 DEF Seek
    <2>3. n.pos = mpv[d].pos /\ n.list = mpv[d].list /\ n.ends = mpv[d].ends
      BY <1>1 DEF Core
    <2>4. b.latch = a.latch /\ b.warm = a.warm /\ b.adrift = a.adrift /\ b.watch = a.watch
      BY <1>1 DEF ActorState
    <2> HIDE DEF n, b, a
    <2> QED
      BY <1>2, <2>2, <2>3, <2>4
  <1> QED
    BY <1>3, <1>4, <1>5, <1>6 DEF Pause, Resume

\* The actor reads what mpv reported.
LEMMA PumpTruth ==
    ASSUME TypeInv, TruthInv, NEW d \in Deck, PumpEvent(d)
    PROVE  TruthInv'
  <1> DEFINE a == actor[d]
             m == mpv[d]
             e == Head(m.ends)
             n == [m EXCEPT !.ends = Tail(m.ends)]
  <1>1. /\ Sound(m) /\ mpv \in [Deck -> Core] /\ m \in Core
        /\ a \in ActorState /\ actor \in [Deck -> ActorState]
        /\ ~a.adrift => Truth(m, a)
    BY DEF TypeInv, TypeOK, TruthInv
  <1>2. /\ m.ends \in Seq(EndReport) /\ m.pos \in Nat /\ Len(m.list) \in Nat
        /\ m.pos <= Len(m.list)
    BY <1>1 DEF Sound, Core
  <1>3. NoWarm.kind = "None"
    BY DEF NoWarm
  <1>4. ASSUME NEW r, PumpingEnd(d, r)
        PROVE  /\ mpv' = [mpv EXCEPT ![d] = n] /\ m.ends # << >> /\ e.reason \in r
               /\ n.pos = m.pos /\ n.list = m.list /\ n.ends = Tail(m.ends)
               /\ Playing(n) = Playing(m)
               /\ e.reason = "Stop" => (Real(n.ends) = {} <=> Real(m.ends) = {})
               /\ e.reason # "Stop" => Real(m.ends) # {} /\ (Real(n.ends) = {} <=> Alone(m.ends))
    <2>1. mpv' = [mpv EXCEPT ![d] = n] /\ m.ends # << >> /\ e.reason \in r
      BY <1>1, <1>4 DEF PumpingEnd
    <2>2. n.pos = m.pos /\ n.list = m.list /\ n.ends = Tail(m.ends)
      <3> HIDE DEF m
      <3> QED  BY <1>1 DEF Core
    <2>3. Playing(n) = Playing(m)
      <3> HIDE DEF n
      <3> QED  BY <2>2 DEF Playing
    <2> HIDE DEF n, m
    <2> QED
      BY <1>2, <2>1, <2>2, <2>3, RealTail
  \* The deck stops: with nothing parked, mpv is idle by then.
  <1>5. ASSUME NEW b, a.warm.kind = "None", mpv' = [mpv EXCEPT ![d] = n],
               actor' = [actor EXCEPT ![d] = b],
               Real(m.ends) # {}, n.pos = m.pos, n.list = m.list, Playing(n) = Playing(m),
               b.latch = NoLoad, b.watch = "Stopped", b.warm = NoWarm, b.adrift = a.adrift
        PROVE  TruthInv'
    <2>1. ~b.adrift => Truth(n, b)
      <3> SUFFICES ASSUME ~b.adrift PROVE Truth(n, b)
        OBVIOUS
      <3> HIDE DEF n, m, a
      <3>1. m.pos = 0
        BY <1>1, <1>5 DEF Truth
      <3>2. Playing(n) = NoLoad
        BY <1>5, <3>1 DEF Playing
      <3> QED
        BY <1>3, <1>5, <3>1, <3>2 DEF Truth
    <2> HIDE DEF n, m, a
    <2> QED
      BY <1>5, <2>1, FrameTruth
  \* The actor is adrift from here on.
  <1>6. ASSUME NEW b, mpv' = [mpv EXCEPT ![d] = n], actor' = [actor EXCEPT ![d] = b], b.adrift
        PROVE  TruthInv'
    <2> HIDE DEF n
    <2> QED
      BY <1>6, FrameTruth
  <1>7. ASSUME PumpPosition(d) PROVE TruthInv'
    <2> DEFINE k == [m EXCEPT !.tick = NoLoad]
    <2>1. mpv' = [mpv EXCEPT ![d] = k] /\ actor' = [actor EXCEPT ![d] = a]
      BY <1>1, <1>7 DEF PumpPosition
    <2>2. k.pos = m.pos /\ k.list = m.list /\ k.ends = m.ends
      <3> HIDE DEF m
      <3> QED  BY <1>1 DEF Core
    <2>3. ~a.adrift => Truth(k, a)
      <3> SUFFICES ASSUME ~a.adrift PROVE Truth(k, a)
        OBVIOUS
      <3>1. Truth(m, a) /\ ((a.watch = "Stopped") <=> (a.latch = NoLoad))
        BY <1>1 DEF Truth
      <3> HIDE DEF k, m, a
      <3> QED
        BY <2>2, <3>1, SameTruth
    <2> HIDE DEF k, m, a
    <2> QED
      BY <2>1, <2>3, FrameTruth
  <1>8. ASSUME EndFileSkip(d) PROVE TruthInv'
    <2> DEFINE b == [a EXCEPT !.adrift = (a.adrift \/ e.reason # "Stop")]
    <2>1. a.warm.kind = "Skip" /\ PumpingEnd(d, {"Eof", "Error", "Stop"})
      BY <1>8 DEF EndFileSkip
    <2>2. actor' = [actor EXCEPT ![d] = b]
      BY <1>1, <1>8 DEF EndFileSkip, ActorState
    <2>3. /\ b.latch = a.latch /\ b.warm = a.warm /\ b.watch = a.watch
          /\ b.adrift = (a.adrift \/ e.reason # "Stop")
      BY <1>1 DEF ActorState
    <2>4. ~b.adrift => Truth(n, b)
      <3> SUFFICES ASSUME ~b.adrift PROVE Truth(n, b)
        OBVIOUS
      <3>1. Truth(m, a) /\ e.reason = "Stop"
        BY <1>1, <2>3
      <3>2. Real(n.ends) = {} <=> Real(m.ends) = {}
        BY <1>4, <2>1, <3>1
      <3>3. Playing(n) = Playing(m)
        BY <1>4, <2>1
      <3> HIDE DEF n, m, a, b, e
      <3> QED
        BY <2>1, <2>3, <3>1, <3>2, <3>3 DEF Truth
    <2>5. mpv' = [mpv EXCEPT ![d] = n]
      BY <1>4, <2>1
    <2> HIDE DEF n, b
    <2> QED
      BY <2>2, <2>4, <2>5, FrameTruth
  <1>9. ASSUME EndFileLanded(d) PROVE TruthInv'
    <2>1. a.warm.kind = "Continuation" /\ PumpingEnd(d, {"Eof"})
      BY <1>9 DEF EndFileLanded
    <2>2. PICK o : actor' = [actor EXCEPT ![d] =
                      [a EXCEPT !.latch = a.warm.load, !.warm = NoWarm, !.watch = "Playing",
                                !.out = o]]
      BY <1>9 DEF EndFileLanded
    <2> DEFINE b == [a EXCEPT !.latch = a.warm.load, !.warm = NoWarm, !.watch = "Playing",
                              !.out = o]
    <2>3. /\ b.latch = a.warm.load /\ b.warm = NoWarm /\ b.watch = "Playing"
          /\ b.adrift = a.adrift
      BY <1>1 DEF ActorState
    <2>4. /\ mpv' = [mpv EXCEPT ![d] = n] /\ n.pos = m.pos /\ n.list = m.list
          /\ Playing(n) = Playing(m)
          /\ Real(m.ends) # {} /\ (Real(n.ends) = {} <=> Alone(m.ends))
      BY <1>4, <2>1
    <2>5. actor' = [actor EXCEPT ![d] = b]
      BY <2>2
    <2>6. ~b.adrift => Truth(n, b)
      <3> SUFFICES ASSUME ~b.adrift PROVE Truth(n, b)
        OBVIOUS
      <3>1. Truth(m, a)
        BY <1>1, <2>3
      <3>2. m.list \in Seq(Load)
        <4> HIDE DEF m
        <4> QED  BY <1>1 DEF Core
      <3> HIDE DEF n, m, a, b
      <3>3. /\ Len(m.list) > 0 /\ m.list[Len(m.list)] = a.warm.load
            /\ \/ m.pos = Len(m.list) /\ Alone(m.ends)
               \/ m.pos = 0 /\ ~Alone(m.ends)
        BY <2>1, <2>4, <3>1 DEF Truth
      <3>4. a.warm.load # NoLoad
        <4>1. m.list[Len(m.list)] \in Load
          BY <1>2, <3>2, <3>3, ElementOfSeq
        <4> QED
          BY <3>3, <4>1, DeckAssumption
      <3>5. Real(n.ends) = {} => Playing(n) = a.warm.load
        BY <1>2, <2>4, <3>3 DEF Playing
      <3>6. n.pos \in {0, Len(n.list)} /\ (Real(n.ends) # {} => n.pos = 0)
        BY <2>4, <3>3
      <3> QED
        BY <1>3, <2>3, <3>4, <3>5, <3>6 DEF Truth
    <2> HIDE DEF n, b
    <2> QED
      BY <2>4, <2>5, <2>6, FrameTruth
  <1>10. ASSUME EndFileHonestStop(d) PROVE TruthInv'
    <2> DEFINE h == EmitHonestStop(d, a, EndFlag(e), e.load)
               b == [h EXCEPT !.adrift = @ \/ a.warm.kind = "Continuation"]
    <2>1. /\ PumpingEnd(d, {"Eof", "Error"}) /\ a.warm.kind \in {"None", "Continuation"}
          /\ actor' = [actor EXCEPT ![d] = b]
      BY <1>10 DEF EndFileHonestStop
    <2>2. /\ b.latch = NoLoad /\ b.watch = "Stopped" /\ b.warm = NoWarm
          /\ b.adrift = (a.adrift \/ a.warm.kind = "Continuation")
      BY <1>1 DEF EmitHonestStop, ActorState
    <2>3. /\ mpv' = [mpv EXCEPT ![d] = n] /\ n.pos = m.pos /\ n.list = m.list
          /\ Playing(n) = Playing(m) /\ Real(m.ends) # {}
      <3>1. PumpingEnd(d, {"Eof", "Error"})
        BY <2>1
      <3> HIDE DEF n, m, e
      <3>2. e.reason # "Stop"
        BY <1>4, <3>1
      <3> QED
        BY <1>4, <3>1, <3>2
    <2> HIDE DEF b, n, m, h
    <2>4. CASE a.warm.kind = "None"
      <3>1. b.adrift = a.adrift
        BY <1>1, <2>2, <2>4 DEF ActorState
      <3> HIDE DEF a
      <3> QED
        BY <1>5, <2>1, <2>2, <2>3, <2>4, <3>1
    <2>5. CASE a.warm.kind = "Continuation"
      BY <1>6, <2>1, <2>2, <2>3, <2>5
    <2> QED
      BY <2>1, <2>4, <2>5
  <1>11. ASSUME EndFileStop(d) PROVE TruthInv'
    <2> DEFINE b == [a EXCEPT !.warm = NoWarm, !.adrift = (a.adrift \/ a.warm.kind = "Continuation")]
    <2>1. /\ PumpingEnd(d, {"Stop"}) /\ a.warm.kind # "Skip"
          /\ actor' = [actor EXCEPT ![d] = b]
      BY <1>1, <1>11 DEF EndFileStop, ActorState
    <2>2. /\ b.latch = a.latch /\ b.watch = a.watch /\ b.warm = NoWarm
          /\ b.adrift = (a.adrift \/ a.warm.kind = "Continuation")
      BY <1>1 DEF ActorState
    <2>3. /\ mpv' = [mpv EXCEPT ![d] = n] /\ n.pos = m.pos /\ n.list = m.list
          /\ Playing(n) = Playing(m) /\ (Real(n.ends) = {} <=> Real(m.ends) = {})
      BY <1>4, <2>1
    <2>4. a.warm.kind \in {"None", "Skip", "Continuation"}
      BY <1>1 DEF ActorState, Warm
    <2>5. ~b.adrift => Truth(n, b)
      <3> SUFFICES ASSUME ~b.adrift PROVE Truth(n, b)
        OBVIOUS
      <3>1. Truth(m, a) /\ a.warm.kind = "None"
        BY <1>1, <2>1, <2>2, <2>4
      <3> HIDE DEF n, m, a, b
      <3> QED
        BY <1>3, <2>2, <2>3, <3>1 DEF Truth
    <2> HIDE DEF n, b
    <2> QED
      BY <2>1, <2>3, <2>5, FrameTruth
  <1>12. ASSUME LoadFailure(d) PROVE TruthInv'
    <2> DEFINE h == EmitHonestStop(d, a, "errored", e.load)
               k == [a EXCEPT !.adrift = TRUE]
    <2>1. /\ PumpingEnd(d, {"LoadErr"})
          /\ \/ a.warm.kind = "None" /\ actor' = [actor EXCEPT ![d] = h]
             \/ actor' = [actor EXCEPT ![d] = k]
      BY <1>1, <1>12 DEF LoadFailure, ActorState
    <2>2. /\ h.latch = NoLoad /\ h.watch = "Stopped" /\ h.warm = NoWarm /\ h.adrift = a.adrift
          /\ k.adrift
      BY <1>1 DEF EmitHonestStop, ActorState
    <2>3. /\ mpv' = [mpv EXCEPT ![d] = n] /\ n.pos = m.pos /\ n.list = m.list
          /\ Playing(n) = Playing(m) /\ Real(m.ends) # {}
      <3>1. PumpingEnd(d, {"LoadErr"})
        BY <2>1
      <3> HIDE DEF n, m, e
      <3>2. e.reason # "Stop"
        BY <1>4, <3>1
      <3> QED
        BY <1>4, <3>1, <3>2
    <2> HIDE DEF h, k, n, m, a
    <2> QED
      BY <1>5, <1>6, <2>1, <2>2, <2>3
  <1> QED
    BY <1>7, <1>8, <1>9, <1>10, <1>11, <1>12 DEF PumpEvent

LEMMA InitTruth == DeckInit => TruthInv
  <1> SUFFICES ASSUME DeckInit, NEW d \in Deck PROVE Truth(mpv[d], actor[d])
    BY DEF TruthInv
  <1>1. /\ mpv[d].pos = 0 /\ mpv[d].list = << >> /\ mpv[d].ends = << >>
        /\ actor[d].latch = NoLoad /\ actor[d].watch = "Stopped" /\ actor[d].warm = NoWarm
    BY DEF DeckInit
  <1>2. Real(mpv[d].ends) = {} /\ Playing(mpv[d]) = NoLoad /\ NoWarm.kind = "None"
    BY <1>1 DEF Real, Playing, NoWarm
  <1> QED
    BY <1>1, <1>2 DEF Truth

LEMMA NextTruth == TypeInv /\ TruthInv /\ [Next]_deckVars => TruthInv'
  <1> SUFFICES ASSUME TypeInv, TruthInv, [Next]_deckVars PROVE TruthInv'
    OBVIOUS
  <1>1. mpv \in [Deck -> Core] /\ actor \in [Deck -> ActorState]
    BY DEF TypeInv, TypeOK
  <1>2. ASSUME NEW d \in Deck, ActorEffect(d) PROVE TruthInv'
    <2> DEFINE o == Tail(actor[d].out)
               b == [actor[d] EXCEPT !.out = o]
    <2>1. mpv' = [mpv EXCEPT ![d] = mpv[d]] /\ actor' = [actor EXCEPT ![d] = b]
      BY <1>1, <1>2 DEF ActorEffect
    <2>2. /\ b.latch = actor[d].latch /\ b.warm = actor[d].warm /\ b.watch = actor[d].watch
          /\ b.adrift = actor[d].adrift
      BY <1>1 DEF ActorState
    <2> HIDE DEF b
    <2>3. ~b.adrift => Truth(mpv[d], b)
      <3> SUFFICES ASSUME ~b.adrift PROVE Truth(mpv[d], b)
        OBVIOUS
      <3>1. Truth(mpv[d], actor[d])
        BY <2>2 DEF TruthInv
      <3> QED
        BY <2>2, <3>1 DEF Truth
    <2> QED
      BY <2>1, <2>3, FrameTruth
  <1>3. ASSUME NEW d \in Deck, HandleCmd(d) PROVE TruthInv'
    BY <1>3, LoadCmdTruth, ParkCmdTruth, PlainCmdTruth DEF HandleCmd
  <1>4. ASSUME NEW d \in Deck, PumpEvent(d) PROVE TruthInv'
    BY <1>4, PumpTruth
  <1>5. ASSUME NEW d \in Deck, MpvStep(d) PROVE TruthInv'
    BY <1>5, MpvStepTruth
  <1>6. ASSUME UNCHANGED <<mpv, actor>> PROVE TruthInv'
    BY <1>6 DEF TruthInv
  <1> QED
    BY <1>2, <1>3, <1>4, <1>5, <1>6 DEF Next, ActorStep, AnyRequest, Consume, deckVars

LEMMA TruthTells == TruthInv => DeckTellsTruth
  <1> SUFFICES ASSUME TruthInv, NEW d \in Deck, ~actor[d].adrift, ~EndQueued(d)
               PROVE  /\ Playing(mpv[d]) = actor[d].latch
                      /\ (actor[d].watch = "Stopped") <=> (actor[d].latch = NoLoad)
    BY DEF DeckTellsTruth
  <1>1. Truth(mpv[d], actor[d]) /\ Real(mpv[d].ends) = {}
    BY DEF TruthInv, EndQueued, Real
  <1> QED
    BY <1>1 DEF Truth

\* However commands, ends and refusals interleave, on any number of decks: what
\* a deck publishes is what mpv does, unless one of the seven paths was taken.
THEOREM DeckTruthful == Spec => []DeckTellsTruth
  <1>1. DeckInit => TypeInv /\ TruthInv
    BY InitType, InitTruth
  <1>2. TypeInv /\ TruthInv /\ [Next]_deckVars => (TypeInv /\ TruthInv)'
    BY NextType, NextTruth
  <1>3. TruthInv => DeckTellsTruth
    BY TruthTells
  <1> QED
    BY <1>1, <1>2, <1>3, PTL DEF Spec
=============================================================================
