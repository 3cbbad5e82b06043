# hypodj in TLA+

A verification project for **hypodj**, a single Rust daemon that speaks the MPD
protocol to its clients, talks to an OpenSubsonic server and plays through
libmpv. Paths below are relative to `crates/hypodj-core/src/` unless they say
otherwise.

Playback is where this program is hard: an mpv thread per deck, an event loop
(the director's "spine"), one task per client connection, a fade task, a plan
executor and a store reconciler all act on the same queue, decks and files,
through channels and short lock scopes, with an `.await` - and so somebody
else's turn - between almost any two steps.

Contents: [the system](#the-system) - [modules](#modules) - [model and
code](#how-the-model-corresponds-to-the-code) - [runs](#runs) -
[bounds](#bounds) - [fairness](#fairness) - [proofs](#proofs) -
[disagreements](#where-the-code-and-its-comments-disagree) - [not
modelled](#not-modelled) - [plan](#plan).

## The system

| Part | Source | State | Operations |
|---|---|---|---|
| mpv actor (one OS thread per deck) | `player.rs` | what it has latched (song, queue id, locality), the warm latch (nothing / a skip target / a continuation parked behind the current file), the watched play state | `PlayUrl`, `PrefetchWarm`, `PrefetchContinuation`, `SwitchWarmed`, `EmitCrossfadedEof`, `DropWarm`, `Pause`, `Resume`, `Stop`, `Seek`, volume, and one mpv event at a time |
| director (the spine) | `director.rs` | the publisher: latched entry, last state shown, the one-shot that swallows a transient `Stopped` | one arm per player event; timer fires |
| play queue and advance | `handler.rs` | queue, `current`, `pending_pause`, `pending_skip`, modes, the fuse and the walk's origin, the warm slot | MPD queue and transport commands, `advance_on_eof`, `plan_next`, `play_index` |
| fades | `handler.rs`, `fade.rs` | one fade slot under an async lock, live and logical gain, epoch | supersede, cancel, the terminals at the end of a ramp |
| two-deck crossfade, skip dip | `handler.rs`, `player.rs` | which deck is active, `crossfading`, `pending_skip`, what to evict | arm, install, settle, commit, abort |
| timer wheel | `timer.rs` | heap, live set, control channel, guards | arm, drop a guard, fire |
| plan executor | `executor.rs`, `plan.rs`, `handler.rs` | the registry of plans, their timers | add, cancel, replace, consume edges and positions, reconcile |
| scrobbler | `scrobble.rs` | current id, accumulated position, duration, submitted | `on_event` |
| offline store | `store.rs` | originals and sidecars on disk, the index, window, pins, kick, backoff | scan, plan, download, commit, amend, evict, heal, play lookups |
| autofill, radio continuation | `handler.rs`, `echo.rs` | the one-shot latch, dedup rings | drain-edge dispatch |
| resume checkpoint | `resume.rs`, `handler.rs` | one file | snapshot, atomic write, restore |
| heard ledger, tape | `heard.rs`, `tape.rs` | append-only rows | append, rotate |
| MPD, MPRIS | `mpd.rs`, `mpris.rs` | per-connection idle sets | idle / noidle, projections |
| clients, TUI, language front end, configuration | other crates | - | outside the playback core |

**How they interact.** The handler's tasks send a command to an actor and await
a oneshot reply. The actors send events into one ring of 64 with *blocking*
sends; the spine is its only reader, and hands every event to the scrobbler
before it looks at it. The spine itself calls the handler (`advance_on_eof`),
which sends commands to the very actor that may be blocked on the ring:
`ADVANCE_TIMEOUT` is what breaks that circle. The queue and its flags sit behind
one mutex that is never held over an await, so a decision made under it may be
stale by the time the reply comes. The fade slot has an async lock of its own,
held while a settlement or a terminal talks to the decks. The spine publishes
its edges twice: losslessly to the plan executor, and lossily, with positions,
on a broadcast; timer fires come back through it. The store's reconciler is the
only task that writes the directory; playback reads its index, marks bytes
suspect and kicks it.

**What is hard, and what would make each part correct.**

- *Actor.* Commands are drained before mpv's events, so an end may be read after
  the file was replaced; the warm latch decides what an end means. Correct: a
  load is reported finished at most once; what is published is what mpv does;
  every command is answered.
- *Spine.* It decides by comparing identities after an await whether a `Stopped`
  is a gap between tracks. Correct: observers see tracks open and close one at a
  time, end up with the right track and state, and no real halt is swallowed.
- *Queue and advance.* `current` is an index and is committed after an await,
  while rows are deleted, consumed and appended. Correct: the row playback is on
  is the entry the deck has; an advance goes to the next entry; a walk over dead
  entries ends and hands the position back.
- *Fades and two decks.* A gesture has to finish a crossfade before it takes the
  gain, while the crossfade's own task finishes it too. Correct: one driver at a
  time; the deck that is not active is quiet afterwards; the row follows the deck
  that was promoted; nothing is left ducked; every crossfade ends.
- *Timers and plans.* A guard may be dropped while its deadline is being reached,
  and an edge is read after the queue has moved on. Correct: a plan acts once,
  never early, not after it was cancelled, and a timed one in the end.
- *Store.* Each commit and each removal is several file system steps, and a crash
  or a refusal can come between any two. Correct: what is offered is committed;
  bytes known to be bad are not offered again; a server that flaps evicts
  nothing; the mirror becomes complete and then keeps still.
- *Everything together.* The spine, the actors and the clients wait for each
  other. Correct: nobody waits for ever.

The hazards at their lines are listed in `PROJECT.json`, each with the
properties that would catch it, or a note where none does.

## Modules

| Module | What it models |
|---|---|
| `MpvDeck` | the mpv actor with its command channel, the event ring, and mpv itself as an external, nondeterministic core |
| `QueueOps` | the index arithmetic of the queue, as operators |
| `Director` | the publisher, as operators on a record |
| `TrackLifecycle` | abstract specification: what every observer of the event stream is promised |
| `Playback` | one deck, the spine, one client and the fade task over the queue; extends `MpvDeck` and `QueueOps`, instantiates `Director`, and is checked to implement `TrackLifecycle` |
| `Crossfade` | two decks and the fade slot between them: clients, the spine and the slot's task; extends `QueueOps`, instantiates `Director` and `Scrobbler` |
| `Scrobbler` | the scrobbler, as operators on a record |
| `Alarms` | abstract specification: timers that ring at most once, never early, never after they were silenced |
| `TimerWheel` | the timer source; proved to implement `Alarms` |
| `PlanExecutor` | plans over the timer source, the spine's edges and the queue; extends `TimerWheel` and `QueueOps`, instantiates `Director` |
| `StoreBudget` | the store's budget arithmetic |
| `StorePlan` | the store's pure planner: from what a pass has observed, the actions it will execute |
| `OfflineStore` | the directory, the index, the reconciler's passes step by step, playback, the server and crashes; extends `StorePlan` |
| `MCMpvDeck`, `MCPlayback`, `MCCrossfade`, `MCPlanExecutor`, `MCOfflineStore` | their instances |
| `MpvDeck_proofs`, `QueueOps_proofs`, `Playback_proofs`, `PlaybackRow_proofs` (extends it), `Crossfade_proofs`, `TimerWheel_proofs`, `PlanExecutor_proofs`, `OfflineStore_proofs` | the theorems below |

Definitions commented as a *Variant* are plausible mistakes in the definition
that follows them; each is used to confirm that a property really depends on it.

## How the model corresponds to the code

**`MpvDeck`.** One action per arm of `handle_cmd` and per case of the event
pump. A *load* stands for everything the actor latches together; it carries an
id so that two loads of one entry can be told apart (the code cannot, and no
action reads it except to count). `mpv[d]` is the core: playlist, position,
keep-open, pause, and `ends`, the end-of-file reports mpv has queued and the
actor has not read. An arm runs up to its first blocking send in one step; what
is left of it - sends and the reply, in program order - is `actor[d].out`, one
`ActorEffect` each, so a full ring really blocks the thread in the middle of an
arm. `Taking` (a command) and `Pumping` (an event, only when no command is
queued) are the two halves of `mpv_actor`'s loop.

mpv is external. A file may end in any of the ways `EndKinds` allows; under
keep-open it may hold its last frame or, as the code's author reports, advance
anyway; a `loadfile` may be refused if `LoadResults` says so.

`adrift` is a history flag: since the last load or stop the actor has let go of
what mpv plays. Seven paths of the code do that: a command handled while an end is
still queued inside mpv; an end swallowed under a skip warm; an open failure
ignored under a warm; an end with a continuation parked that is not the handoff;
the late report of a replaced file taking the latch of a continuation parked
since; a refused load, which takes the warm latch and leaves the parked entry in
mpv's playlist, where it will play under a latch that says nothing does; the
promotion of a crossfade. `DeckTellsTruth` says that these are *all* the ways. The
sixth was found while looking for its inductive invariant: it takes three loads
to see, and the run had only two.

**`Playback`.** `queue`, `current`, `pendingPause`, `modes`, `fails`, `origin`
and `continuing` are the fields of the handler's state (`current`,
`pending_pause`, the mode flags, `consecutive_eof_failures`, `walk_origin`,
`continuation_active`); `slot` is `pending_continuation_warm`; `fade` the fade
slot; `pub` the publisher. `task` gives the program counter of the spine and of
the client and what each has captured before its await. Index 0 stands for None.

- *The spine*: `SpinePlaying` ... `SpineEof` are the arms of `spine`; then
  `advance_on_eof` step by step: `HaltFailedAdvance` (the fuse), `PlanNext`,
  `CommitLandedAdvance` (gapless) or `AdvanceLoads` (cold), `LandedNowhere`,
  `DrainTerminal`, and `AdvanceReturns`, back in the director. `WarmFires`,
  `PrefetchReturns`, `Unwarmed` are `on_continuation_warm_fire`. The spine's select
  is biased towards the ring, so `WarmFires` needs an empty one.
- *The client*: `ClientPlay`, `ClientPicksUp` (`resume_by_loading_current`),
  `ClientStop`, `ClientClear`, `ClientDelete` and `ClientEvicts` (the two lock
  scopes of `delete_at`), `ClientPause`, `ClientResume` and `ClientRampsUp`,
  `ClientResumesStopped`.
- *Either task*: `LoadReturns` is `play_index_inner` after its await; `Disarm`,
  `Drop`, `Arm`, `Waited` are the calls that end most handlers.
- *The fade task*: `FadePauses`, `FadePaused`, `FadeRestored`.

A lock scope, or several with no await and no effect another task could observe
between them, is one action (`is_true_drain`, the fuse and `plan_next` are taken
together). `Wedged` is when `ADVANCE_TIMEOUT` strikes: the actor is blocked on a
full ring. Twenty seconds are long for an actor that runs, so an advance is not
timed out by one that does; a server that hangs past the timeout is not modelled.

`contested` is a history flag too. `advance_on_eof` is not told which entry
ended: it counts from whatever row is current when it looks. A gesture that gets
in between an end and its advance therefore makes it skip a row, load from none,
or move the position under a play that has not been answered; so can a stop made
while an end is queued, and a delete between the plan and the load. These races
are known and intrinsic to that design. The properties that relate the row to
the deck claim nothing of behaviours where one has happened, and claim again
from the next play that is made while nothing is under way and is accepted. A
fourth value, `late`, says that the spine has given up on an answer
(`ADVANCE_TIMEOUT`): the load it asked for may be accepted when nobody waits for it,
over a row that has not moved. `RowAgrees` claims nothing then either; that a
deck reported stopped is silent (`StoppedIsSilent`) is still claimed.
`ObserversKnowTheTrack`, `ObserversSeeTracks` and the liveness of both tasks hold
with no such exception; `LandedRowIsPlaying` needs it (`Playback_landed.cfg`, below).

The rows of the queue are entries of their own: `handler.rs` mints an id for each row
from `next_id`, and a row is found again by that id, so `InitQueue` is assumed to
hold none twice (`Distinct`). A continuation that landed with nothing to follow is
appended under the id it was warmed with, which may be that of a row still there;
a play then does not count as starting afresh until the rows are apart again.

`Settled` - every channel empty, every task idle, the deck not adrift - is when
most invariants of `Playback` speak: in between, what is reported is on its way.

**`Crossfade`.** `MpvDeck` models one deck closely; here a deck carries out a
command in one step, with the events it sends, and what is modelled step by step
is who may command which deck. `st` holds the handler's fields that take part,
`slot` is the fade slot with the task in it, `lock` its async lock, `proc` where
each client, the spine and the slot's task are and what they captured.

- *Starting one* (`Mute`, `Arm`, `Retreat`, `Install`) is `start_crossfade` and
  `crossfade_arm`: the spare deck is silenced and loaded, and only then is the
  slot taken. A client's skip and the spine's `maybe_boundary_crossfade`
  (`AtBoundary` in `ReadTimePos`) both come here.
- *Settling* (`Settle`, `Abandon`, `Attribute`, `Promote`, `Silence`, `Land`) is
  `settle_crossfade` under the lock. `Attribute` to `Land` are `crossfade_commit`
  as the crossfade's own task runs it as well; `Followed` finds the row again by
  the id, after the eviction.
- *Terminals*: `CrossfadeEnds`, `SetBaseline`, `PauseTerminal`, `StopRestore`,
  `DipEnds` with `Switch` and `Swap` (`Terminal::SkipLoad`).
- *Gestures* (`Skip`, `Play`, `StopPlayback`, `Clear`, `Delete`, `SetVol`,
  `Pause`, `Resume`) decide before their first await; `TakeSkipLoad`,
  `TakeFade`, `TakeNothing` then take the slot, with a lock scope of their own
  *after* the settlement has given the lock up. A resume is the exception: it
  cancels first (`Release`) and settles after.
- Gains are `baseline`, `between` or `silent`, as far as a promise is made.

`slips` is a history variable with seven values. Between a gesture's look and its
act another task may have acted, and the code does not look again:
`cancelled` (the slot was taken from a crossfade that began after it was
settled), `overrun` (a deck armed that another task is using), `forgotten` (a
promotion that no longer knows its row), `renamed` (a dip that reports its target
over a crossfade under way, which then takes it for its own), `ended` (the incoming
deck ended, or the dip's switch was refused), `late` (an end of the outgoing track
acted upon after the promotion), `raced` (a row or a load replaced between the look
and the act, or a row evicted that a transition is arriving at).
Each is a disagreement of its own, none is prevented by the code, and after one
the invariants about the decks and the row claim nothing: what they say is that
these seven are *all* the ways to leave the good states - for any number of
clients and any queue, as is proved. `renamed` was found by that proof: it takes
`crossfade_skip_secs = 0` beside a boundary crossfade. That a playing deck ends
up at the baseline (`AudibleAtRest`) is claimed with no exception, and liveness
with the single one of `cancelled`.

**`Scrobbler`** is `scrobble.rs` as operators on a record, fed by the ring of
`Crossfade`. A position is short of the thirty-second floor, past it, or past
half the track; `heard` remembers what was really played past the floor.

**`TimerWheel`.** The heap and the live set are owned by one task (`ApplyCmd`,
`SleepEnds`, `Fire`); callers mint an id and send an `Arm`, or drop a guard,
which sends a `Cancel`. The biased select looks at the channel before the sleep,
so `SleepEnds` needs an empty channel, and a `Cancel` that comes between
`SleepEnds` and `Fire` is too late. Dead heap entries are reaped lazily.
`Alarms` is what remains of this to a caller: armed ids, rung ids, deadlines.

**`PlanExecutor`.** The spine's edges go losslessly into `trig` and lossily into
`bcast`, with positions (a full broadcast drops its oldest and leaves a resync).
The executor reads timers, edges and positions in no fixed order and evaluates
each against the queue as it is by then: `OnEvent` is reconcile (orphaned plans
go), maintain (remaining-plans arm, re-arm or disarm), then select (what fires
acts, what is stale goes), in that order; `OnTick` and `OnImmediate` are the other
two arms, `OnTick` being maintain alone. A client validates a plan (`Prepare`) and commits it in a later lock scope
(`Commit`, which replaces a plan of the same single-instance origin). The registry
is a set of plans - nothing reads its order but the order in which the due plans
of one event act - and `acted` remembers which have acted. `SpineEof`
and `SpineAdvance` are the two halves between which a boundary's edge is out and
the row not yet advanced.

**`OfflineStore`.** A pass is `BeginPass` (measure, sample the flags, take the
kick), `Scan` (the directory becomes the index), `AskPins`, `MakePlan`
(`StorePlan` on what is held, wanted and protected *now*), then the planned
actions one by one - download, commit, eviction, heal, changes of flags - each
file system call a step, and `EndPass`. `Crash` may come between any two steps
and `Boot` is `open()`'s sweep. Any file system call may be refused. Meanwhile
tracks are resolved, opened later, fail and stop; stars flip at the server before
the kick reaches the loop; originals are replaced; the server is unreachable;
other programs take and give back disk space; bulk work is paused. A *copy* is
one download of one song: that is what `bad` and `playing` remember. `PlayFails`
records every copy that fails in `bad`, and in `early` those that fail while the
commit that brought them is between its rename and its index entry: a path handed
out for the old entry opens the new bytes by then, the mark goes to the old entry,
and `CommitIndex` writes the new one, unmarked, over it. `early` only records; it
guards no step. A song's `created` date is a number, 0 when the server does not
report it, and votes on drift only when both sides have it: a replacement that
changes nothing else is downloaded over a file that is offered until then.

## Runs

| Run | What it asks |
|---|---|
| `deck` | Any commands against any ends and refused loads: is each load reported finished at most once, is what the deck publishes what mpv does but for the seven paths, is every command answered? |
| `queue` | Advances, gapless or cold, racing plays, deletes and a clear, under plain order, consume, random with repeat, and single: do row, deck and observers agree, does the publisher implement `TrackLifecycle`, is a gapless landing that met no gesture committed only for the entry mpv went into, does an advance keep the order? |
| `transport` | Stop, pause and resume with their ramps, against plays and ends. |
| `walk` | Entries that fail to open or are refused, under consume: does the walk end, and give the position back? |
| `live` | Ring of two: does the spine always come back, every gesture return, and every end become visible? |
| `crossfade` | Three gestures of any of the eight kinds against skip crossfades, dips and pause ramps, with refused loads and tracks ending at any moment: is the spare deck quiet, is the row the one that sounds, is nothing left ducked, and is only the target of a transition ever promoted? |
| `boundary` | Crossfades begun by the spine, against gestures: one driver, every crossfade ends, nobody waits for ever on the slot's lock. |
| `plans` | Plans of every kind against advances, plays, pauses, seeks and deletes: does each act once, never early, one per origin, the timed ones in the end, and do the timers underneath implement `Alarms`? |
| `store` | Passes against everything above: is what is offered committed, do bytes that failed after their commit stay out, does an unreachable server evict nothing pinned, does the mirror become complete and then keep still? |
| `lost_boundary`, `observers`, `scrobble` | three claims of comments that the code does not keep, below |

Between them the passing runs fire every action of every module.

### Bounds

- `RingCap` 1 or 2 for 64: the ring's role is to be full while its reader waits
  for its writer. An arm sends at most two events, so two slots already let an
  arm block before, between and after its sends.
- `MaxEnds` 1: one end waiting inside mpv is what makes a command overtake it.
- `EndKinds`: a natural end and a failed open in `deck` and `walk`. A file that breaks
  off (`Error`) differs from a natural end in its flag and in that it is never the
  gapless handoff; it is in `transport`.
- `MaxLoads` 2 or 3: a track, its successor, and one more that races either. The
  deck's run has one entry and three loads: nothing in an actor tells two entries
  apart, and loading one of them again is the hard case.
  `Room` lets mpv end a file, and a gesture or a warm begin, only while the bound
  leaves a load for everything already under way, so that no behaviour stops
  half-way on account of the bound.
- `MaxFailures` 2 for 3: one failure that goes on and one that blows the fuse.
- Two rows, three in `walk`: a row that ends and a row that follows; a walk needs
  an origin, a row between and a row where it stops.
- `MaxGestures` 3 in `crossfade`: one begins a transition, one meets it, and one
  more meets what that leaves. One client in the runs - its gestures race the
  slot's task and the spine. All of `Crossfade`'s safety
  properties are proved for any number of clients.
- `MaxLag` 1: a deck adds an event *by itself* only while the spine has nothing
  else to read; what commands send is never held back. `Ticks` gives the places a
  position may report: past the floor, and near the end.
- `MaxTime` 2 and `MaxTimers` 4: a deadline reached early, on time or late.
  `Duration` 2 and `Lead` 1: at the start of a track a remaining-plan's deadline is
  ahead of the clock, later on it is due at once. A seek back thus re-arms it ahead
  while the fire of its earlier timer is on its way; the mutant of `NeverEarly`
  takes that fire for the new timer's. `BcastCap` 2 for 512: the broadcast has to be
  able to overflow.
- `Scenarios` (plans, store): a behaviour first chooses which faults it may spend
  and how many of each, so that combinations that multiply states without meeting
  each other are not explored together. `MCPlanExecutor` and `MCOfflineStore` say
  what each scenario is for.
- Three songs; one may be replaced in another format or by a file that differs in
  its date only, one loses its date and one its size; a budget of four units on a disk of
  eight, so that an album fits only without the song; `GiveUpAfter` 2 and
  `MaxChain` 2 for 8: once is a retry, twice is the end. `Batch` 2 downloads
  a pass, so that a pass can leave work over.
- The runs of `Playback`, `Crossfade`, `PlanExecutor` and `OfflineStore` say
  `CHECK_DEADLOCK FALSE`: an idle player whose users make no more gestures really
  stops, as do the bounded loads and faults. The liveness properties are the
  checks that no task is stuck. The deck's run checks deadlock.

### Fairness

- `FairSpec` and `PlaybackFairSpec` are weakly fair to the actor's effects and
  commands (it is an OS thread of its own that never sleeps on anything but the
  ring), to the spine, to a gesture once begun and to a fade once installed (tokio
  polls a task that can go on; the daemon's runtime has two workers and no task
  blocks one). A deck on its own assumes that the ring is read. The timeout is one
  of the spine's own steps.
- `CrossfadeFairSpec` is weakly fair to each client's steps, to the spine and to
  the end of a ramp (`tokio::time` ticks, and a ramp has a fixed number of them).
  Weak fairness is enough for the lock in the runs: it is given up by steps that
  are themselves fair, and tokio's mutex is a fair queue.
- `ExecutorFairSpec`: the timer task, the executor, the spine's part in delivering
  a fire, the commit of a validated plan, and the clock.
- `StoreFairSpec`: the reconciler is a task that never returns and its interval
  fires. Planning belongs to that task; `[]<>(pc # "plan")` is weak fairness of
  `MakePlan`, which is enabled whenever `pc` is "plan", written so that TLC need
  not evaluate the planner to decide whether it is enabled. A download that is
  due again and again is tried (`SF`), because a pass may be interrupted by
  playback infinitely often without the reconciler ever being idle.

Nothing is assumed of mpv, of users, of the server or of the disk: no file need
end, no gesture begin, no server come back. `MirrorComplete` says what follows
*if* the server stays up and nothing defers bulk work.

## Proofs

TLAPS checks every theorem below to its last leaf, for every value of the
constants - any decks, clients, entries, queues, songs, budgets and bounds -
under the named assumptions of the modules and nothing else. TLC evaluates each
of those assumptions in a run.

| Theorem | States |
|---|---|
| `MpvDeck_proofs!TypeCorrect` | `Spec => []TypeOK` |
| `MpvDeck_proofs!FinishedOnce` | `Spec => []OneEofPerLoad` |
| `MpvDeck_proofs!DeckTruthful` | `Spec => []DeckTellsTruth` |
| `Playback_proofs!PlaybackTyped` | `PlaybackSpec => []PlaybackTypeOK` |
| `Playback_proofs!QueueFinishedOnce`, `QueueDeckTruthful` | the deck's two promises, kept under the queue: `PlaybackSpec => []OneEofPerLoad`, `[]DeckTellsTruth` |
| `Playback_proofs!ObserversTold` | `PlaybackSpec => []ObserversKnowTheTrack` |
| `Playback_proofs!ObserversSee` | `PlaybackSpec => ObserversSeeTracks`, the refinement of `TrackLifecycle` |
| `Playback_proofs!OrderKept` | `PlaybackSpec => AdvanceKeepsOrder` |
| `PlaybackRow_proofs!RowIsRight` | `PlaybackSpec => []RowAgrees` |
| `PlaybackRow_proofs!LandedIsPlaying` | `PlaybackSpec => LandedRowIsPlaying` |
| `PlaybackRow_proofs!SilentWhenStopped` | `PlaybackSpec /\ [][~AdvanceTimeout]_vars => []StoppedIsSilent`: unless an answer is given up |
| `QueueOps_proofs!RemapFollows`, `ConsumeFollows` | what the two index remaps preserve |
| `Crossfade_proofs!CrossfadeTypes` | `CrossfadeSpec => []CrossfadeTypeOK` |
| `Crossfade_proofs!OneDriverHolds` | `CrossfadeSpec => []OneDriver` |
| `Crossfade_proofs!TransitionHolds` | `CrossfadeSpec => []TransitionInv`, from which the next five |
| `Crossfade_proofs!SpareStaysQuiet`, `RoomHearsItsRow`, `GainComesBack`, `ReportIsIncoming` | `CrossfadeSpec => []SpareIsQuiet`, `[]RoomHearsTheRow`, `[]AudibleAtRest`, `[]ReportNamesIncoming` |
| `Crossfade_proofs!PromotedIsTarget` | `CrossfadeSpec => PromotedIsTheTarget` |
| `TimerWheel_proofs!WheelInvariant` | `WheelSpec => []WheelInv` |
| `TimerWheel_proofs!WheelImplementsAlarms` | `WheelSpec => ImplementsAlarms` |
| `PlanExecutor_proofs!ExecutorInvariant` | `ExecutorSpec => []ExecutorInv` |
| `PlanExecutor_proofs!ExecutorTyped`, `PlansActOnce`, `PlansNeverEarly`, `PlansOneOfEach` | `ExecutorSpec => []ExecutorTypeOK`, `[]ActsOnce`, `[]NeverEarly`, `[]OneOfEach` |
| `PlanExecutor_proofs!ExecutorImplementsAlarms` | `ExecutorSpec => ImplementsAlarms`, the executor as the caller |
| `OfflineStore_proofs!OfferedStaysCommitted` | `StoreSpec => []OfferedIsCommitted` |
| `OfflineStore_proofs!BadBytesStayOutUnlessRefused` | `StoreSpec /\ [][Published]_vars => []BadBytesStayOut`: unless a commit is refused its sidecar, bytes that fail after their commit stay out |
| `OfflineStore_proofs!BudgetUnderCap`, `OwnBytesDoNotMoveTheBudget`, `ReserveStaysFree`, `AdmittedIsNotEvicted`, `FloorIsHalf` | the store's arithmetic |

- **The deck.** `TypeOK` is not inductive: nearly every step reads the playlist at
  mpv's position. The invariant is `TypeInv`, which adds that the position is one
  of the playlist's (`Sound`). An actor reports what it has latched, so the
  argument for one `Eof` per load is about where a load can be. `LiveInv`: what is
  in a channel, parked or latched has been created and is not yet reported.
  `ApartInv`: those places never hold the same load, on one deck or on two.
  `Rearranged` states what all of the actor's steps have in common, so the
  preservation proof is made once, and each action is only shown to be a
  rearrangement.
  `DeckTellsTruth` speaks of a deck at rest. `TruthInv` speaks of every moment
  while the deck is not adrift. With no end queued inside mpv, mpv plays what is
  latched. With ends queued and nothing parked, it is idle; with a continuation
  parked at the end of its playlist, one end means that it is in the continuation
  and two that it is past it: whichever are read first, the latch follows. Counting
  ends against what is parked is what showed that a refused load takes the warm
  latch from under a parked entry.
- **The composition.** Every step of `Playback` is, for the deck, a step of
  `MpvDeck` or a wait abandoned by `AdvanceTimeout` (`NextSees`); the latter keeps
  the deck's invariants as well, so both theorems about the deck hold under the
  queue without a second proof. The types need what each task has captured at
  each program counter (`TaskTypes`): a load is asked for an entry, a task in the
  middle of its calls has a call left.
  For `ObserversKnowTheTrack` one has to say what is on its way. `FlightInv`: from
  the entry the publisher has latched, the events in flight - in the ring, then in
  what is left of the actor's arm - lead to the entry the actor has latched, each
  `Eof` and `Paused` naming the entry that is open when its turn comes. `PubInv`: during an advance, and while a `Stopped` is owed, the
  publisher has no entry open. From the two, each publication is a step of
  `TrackLifecycle` or none at all.
- **The row.** `RowAgrees` speaks of rest; to get there, two tasks move the position
  while a third party, mpv, moves the deck. The proof (`PlaybackRow_proofs`) rests on
  what "not contested" means: at any moment either the spine keeps still (it is idle
  and no end is on its way to it) or the client and the fade do. The invariant is a
  half for each: `InvS` follows the client while the spine keeps still, `InvC` the
  spine while the client does, and where both keep still each half gives the other
  back (`BridgeHolds`), so a step has to preserve only the half whose task is moving.
  `AskInv` says who has asked the deck for what, that nobody has two questions
  open and that an answer goes to who waits for it. The rest of the invariant says
  what the tasks hold: of a warm, that what is parked behind the current file is
  the entry the mode promises next (`WarmKnown`, `WarmNext`), whether the answer
  to its prefetch has come or not; of the ends on their way, that only the first
  of two is a landing, and that the `Playing` of what was parked comes right
  behind it (`Ending`); of an advance, that the target chosen before the eviction
  is that entry's row after it (`AdvanceNext`, `LoadNext`). `Row` at rest follows,
  and `LandedRowIsPlaying` is `AdvanceNext` at the moment of the commit.
  `SilentWhenStopped` joins the row's invariant with `TruthInv` of the deck: a
  position on no row, or a deck that says stopped, has nothing latched, and what is
  not latched is not played. Its hypothesis leaves out the case `late`, of which
  the invariant says nothing; TLC checks the property there too.
- **The queue.** An index kept over `evict_qid` names the row it named; the target
  of `plan_next`, shifted over the row `consume` took, is the row it was chosen
  as. `OrderKept` is the same of the running system: whatever the modes, the row an
  advance in plain order goes to is the one that followed, found again by entry
  after the eviction. It rests on `PositionIsFirst`, that the position of an entry
  is the least index that holds it.
- **The fade slot.** The lock is held by exactly the tasks whose program counter is
  inside a settlement or a terminal (`LockInv`); with the types it is inductive,
  given lemmas on what each command, each move of a task and each edit of the
  queue does. `OneDriver` speaks of quiet moments only.
  `DriverInv` speaks of every moment without a slip: a fade in the slot is a
  crossfade exactly when the state is marked so; with the slot empty the mark
  stands only while a client is settling, or between the two halves of a resume;
  who settles has emptied the slot; and a dip at its foot is still in the slot.
  `ActInv` adds that only a resume releases the slot unsettled.
- **The two decks.** The five properties of the decks speak of rest;
  `TransitionInv` says what leads there. One task at a time prepares the spare deck,
  and never under a crossfade (`PrepareInv`), so a spare deck that sounds belongs to
  a crossfade or to one about to take the slot (`SpareInv`). Until a crossfade is
  settled, the incoming deck, the report and the slot's target are one entry, which
  is not the one to be evicted (`IncomingInv`); only a pause takes the report back,
  and it is then on its way to settle (`PauseInv`). Who settles carries that entry
  through attribution, promotion and silencing, with its row still in the queue
  (`SettleInv`, `TargetInv`). Whatever the active deck holds is the current row, or
  a task is about to make it so (`RowInv`); for that the spine must have at most one
  end to read, and that of the deck that is active (`EndInv`). These claim nothing
  once something has slipped; `AlwaysInv` claims for ever. In it, `GainInv`: with no
  fade in the slot, a gain off the baseline is owed by some client at one of the
  places in the code from which it is certain to bring it back. The proof has a lemma for
  what each kind of step does to the places of the tasks and to the decks, and one
  per conjunct that says on what it depends; a step is then checked against those.
- **The timer source.** A command is read long after it was sent. `ChannelInv`: an
  id is armed by one command and no `Cancel` of it comes before that. `HeapInv`:
  what is still to be armed is in neither heap nor live set; a dead entry is behind
  a live one, so what the sleep waits for is live; a sleep that has ended belongs to
  a live timer that is due. The refinement maps an armed alarm to a timer that is
  live or about to be, with no `Cancel` queued, or whose sleep has ended. The
  theorem is about the source with arbitrary callers and an arbitrary reader, and
  `ExecutorImplementsAlarms` is the same with the executor as the caller, which is
  what the run `plans` checks.
- **The executor.** `ActsOnce` and `NeverEarly` are about the history of acted
  plans, and a fire comes from a timer armed long before. `ExecutorInv` says what
  holds of the plans still standing, whether committed or only validated: a timed
  plan holds the guard of a timer armed for just its deadline; a validated plan
  shares that timer with no other plan, so dropping the one never silences the
  other; ids minted are standing, validated, acted or ended, and never two of these. A
  fire on its way, in the source's channel or in the spine's stream, is one whose
  deadline has passed. So a plan that a fire finds is due, has not acted, and leaves
  the registry in the step in which it acts.
- **The store.** `StoreInv`: an index entry has a sidecar that says the same of
  format and size, unless a removal has just taken the sidecar or a replacement
  has just written one; and a commit past its sidecar still finds that sidecar its
  own. The proof goes through each file system step, refused or not, and the
  crash.
  `BadBytesStayOut` is about the one thing the store keeps in memory only, the mark
  of a failed play. `CopyInv`: each file is a download of its own, and the one
  being played is of the row's song. `MarkInv`: an indexed song whose bytes have
  failed is marked, a pair on disk that is not indexed belongs to a commit that is
  about to index it, and what a commit has renamed into place is a fresh copy, on
  which no play has failed but an `early` one. The property itself leaves the early
  failures out, until such a copy fails again: the code does offer those bytes once
  more (`OfflineStore_remarked` below), and what is proved is that no scan,
  removal, amendment or later replacement leads there as well. A
  refused sidecar breaks the second: the new audio stays under the old sidecar. It
  takes two such refusals, a refused heal and a server that brings an original back
  at its old length to make of it an unmarked pair with bytes that failed. The
  theorem therefore assumes that a commit gets its sidecar written (`Published`);
  in the run's scenarios the property holds without that.
- **The budget.** The derived budget never exceeds the cap, does not move when the
  store's own bytes do, keeps the reserve free, and the eviction target stays above
  the pin ceiling. That downloads and evictions do not chase each other rests on
  these facts; `MirrorSettles` is the same of the running system, on the instance.

Only model-checked, because not every value of the constants has them:
`ObserversKnowTheState` (under `consume`, a refused load ends an advance on
another row, and the publisher takes that for a new track: the disagreement of
`refused_advance` below) and `FailedWalkReturns` (the walk's run has no pause:
with one, a deck may rest paused in the middle of a walk that has not come to its
end). Only model-checked, because the planner's folds would have to be reasoned
about: `StoreTypeOK` and `FlapKeepsPins`; nothing is proved of what they compute
for every list. And: `StoppedIsSilent` after a timeout, `BadBytesStayOut` with a
commit refused its sidecar, the executor's `DeadlineActs` and all liveness.
Liveness under fairness and `ENABLED` are outside what this prover does, as is
induction over data. No module uses recursive operators.

## Where the code and its comments disagree

Three have a run of their own, whose counterexample shows them:

1. **`lost_boundary`** - the lossless stream exists "so a boundary is never
   missed" (`director.rs:90-93`). An album-boundary plan's entry is looked up in
   the queue when the edge is read (`plan.rs:657`); under `consume`, `plan_next`
   has evicted the entry by then unless the executor was faster, and the plan
   expires at the very boundary it waits for.
2. **`observers`** - from the flip of the active deck on, the outgoing deck's late
   events "belong to a deck nothing is reading as current" (`player.rs:566-568`).
   Its `Stopped` goes into the shared ring, and the spine, which does not ask
   which deck an event is from, tells observers that the player stopped.
3. **`scrobble`** - a `TimePos` need not carry the id because "accumulation is
   attributed to the latched current id" (`scrobble.rs:13-15`). Arming the incoming
   deck emits its `Playing` at once, so during an overlap the outgoing track's
   positions are attributed to the incoming song, which is submitted unheard.

Thirteen more are kept as a property and a configuration each, to be run by hand
(`tlc -config <name>.cfg <module>`); TLC reports each one violated:

| Configuration (module) | Claim | What happens |
|---|---|---|
| `MpvDeck_stale_end` (`MCMpvDeck`) | `emit_honest_stop`'s `Eof` "describes the entry that actually ended" (`player.rs:1449`) | It reads the latches when the report is handled; a `PlayUrl` handled first has repointed them, and the old file's end is reported as the new file's. |
| `MpvDeck_superseded_dip` (`MCMpvDeck`) | a superseded skip leaves the current track playing to its own end (`player.rs:1657`) | If that end was already swallowed, mpv is in the abandoned target, and `DropWarm` keeps it there. |
| `Playback_halt` (`MCPlayback`) | a halted walk's `Stopped` "MUST surface" (`director.rs:541`) | `halt_failed_advance` moves the position back to the walk's origin; the spine takes that for an advance and swallows the `Stopped`. |
| `Playback_refused_advance` (`MCPlayback`) | "an Err from play_index never repoints" the position (`director.rs:541`) | Under `consume`, `plan_next` has already removed the row it was on. |
| `Playback_paused_audible` (`MCPlayback`) | the kept pause intent stands only "over a player holding nothing" (`handler.rs:7605`) | A ramp that ends between two tracks keeps it, and the advance then loads the next one unpaused. |
| `Playback_landed` (`MCPlayback`) | a gapless commit is of the row mpv "ALREADY advanced into" (`handler.rs:12198`) | A warm prefetched for the row of before is parked behind the file of a play, and mpv goes into it. Its drop is given up at a full ring, the slot is warmed anew for the play's own successor, and when the landing is read that is the row committed. |
| `Crossfade_orphan` (`MCCrossfade`) | deleting the arriving row abandons the transition, the deck stays on the track it has (`handler.rs:11714-11731`) | The crossfade may have promoted that row's deck between the look and the settlement: the row that goes is the one that sounds. |
| `Crossfade_stop` (`MCCrossfade`) | a stop silences both decks (`handler.rs:8098-8101`, `11367-11370`) | A crossfade begun after the stop has settled loses its task to the stop, and its incoming deck plays on. |
| `Crossfade_renamed` (`MCCrossfade`) | `pending_skip` names the incoming track from the instant the crossfade starts (`handler.rs:11350-11351`) | With `crossfade_skip_secs = 0`, a skip during a boundary crossfade dips: it writes its own target there before it settles, and the settlement commits that row under the deck that was coming in. |
| `OfflineStore_gesture` (`MCOfflineStore`) | freshness on the gesture path is exact (`store.rs:3718-3720`) | A full pass asks for the pins between the star at the server and the kick, and remembers an answer from before the star. |
| `OfflineStore_replaced` (`MCOfflineStore`) | a pinned original is kept until its replacement is committed (`store.rs:46-54`) | A replacement of the same format renames over the old file before it writes the sidecar; cut short there, both are swept. |
| `OfflineStore_remarked` (`MCOfflineStore`) | "known-bad bytes are never re-offered" (`store.rs:2961`) | The path of an entry under replacement is opened after `commit`'s rename and the play fails; `mark_suspect` marks the old entry, and `commit` inserts the new one over it with `suspect: false`. The bytes are offered until they fail again. |
| `OfflineStore_handed` (`MCOfflineStore`) | playback is never handed a path about to vanish (`store.rs:3250`) | The path is resolved under the lock and opened later; a removal comes between. |

## Not modelled

- **Autofill and radio continuation.** A fetch from the server whose result is
  appended at a drain. `Playback` is in Radio mode with no station configured, so a
  drained queue ends, and the only continuation is a warm that landed with nothing
  to follow (`LandedNowhere`).
- **Resume checkpoint.** Its three reads at three moments are listed as a hazard; the
  file itself is one atomic rename.
- **Heard ledger and tape.** Append-only rows and arithmetic over play counts.
- **MPD and MPRIS.** Parsing and formatting are data; `idle` is a `Notify` per
  change; MPRIS projects `reported_play_state`, which `Playback` models.
- **Subsonic client, library, recognition, language front end, configuration,
  terminal UI, command-line client.** Network I/O, scoring of metadata, parsing,
  rendering and a copy of the daemon's state that is polled.
- **In the modelled parts.** Additions to the queue, the plan executor's `Move`
  and `trim_spent` (MPD's own `move`, `swap` and `shuffle` do not exist here);
  mode changes while a behaviour runs; entries that cannot be resolved to a URL;
  the warm before a dip and `same_album_run`; volume levels, step schedules and
  ramps' lengths (`fade.rs` is arithmetic on decibels); winddown and wake as fades;
  what a plan's action does once it runs; covers and `cache.rs`; the store's status
  and digest, the change of its limit at run time, the lengths of its back-off, a refused rename
  or fsync inside `commit` (it leaves only the temp file, for the next sweep), and
  the parsing of dates (`created_matches` is equality of instants);
  the scrobbler's network calls, whose failures are only logged; command failures
  other than a refused load.

Most of the repository's lines are of these kinds - tests inside the source files,
the terminal UI, protocol text, HTTP and metadata - with no state that interleaves
with playback. The modules cover the control of the playback core, not its lines.

## Plan

1. *Done*: `MpvDeck`, `QueueOps`, `Director`, `TrackLifecycle`, `Playback`.
2. *Done*: `TimerWheel`, `Alarms`, `PlanExecutor`; `StoreBudget`, `StorePlan`,
   `OfflineStore`; `Scrobbler`, `Crossfade`; their proofs.
3. *Next to model*: continuation (autofill, radio with its one-shot latch) and
   queue additions in `Playback`; the checkpoint's three reads against an advance.
4. *Next to prove*: `StoppedIsSilent` after a timeout, where the row invariant needs
   a case for an answer nobody waits for; `FlapKeepsPins` and the store's types,
   given lemmas on the planner's folds.
