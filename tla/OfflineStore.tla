---------------------------- MODULE OfflineStore ----------------------------
(***************************************************************************)
(* The offline audio store, store.rs: the directory of originals and their *)
(* sidecars, the index over it, the reconciler task that alone writes it,  *)
(* and what the player and the clients do to it meanwhile (the store calls *)
(* of handler.rs).                                                         *)
(*                                                                         *)
(* The reconciler runs passes.  A pass measures, scans, asks the server    *)
(* for the pins, plans (StorePlan) and executes the plan one action at a   *)
(* time; each file system step and each wait for the server is a step of   *)
(* its own here, and the daemon can die between any two of them.           *)
(***************************************************************************)
EXTENDS StorePlan

CONSTANTS
    Catalog,     \* what could be starred: a sequence of [tier, ids]
    InitSong,    \* [Id -> the song the server has], at the start
    NextSong,    \* [Id -> the songs it may be replaced with]
    Rows,        \* the play queue: a sequence of ids
    Ahead,       \* store.queue_ahead
    Configured,  \* store.max_bytes
    Disk,        \* total size of the file system
    GiveUpAfter, \* DOWNLOAD_GIVE_UP_AFTER (8 in the code)
    MaxChain,    \* MAX_EVICTION_CHAIN (8 in the code)
    Scenarios    \* the bounds of a behaviour, one of which is chosen at the start

\* How many tracks are played, stars flipped, songs replaced at the server,
\* changes of reachability, crashes, file system refusals, failed downloads,
\* pauses and changes of other disk use there are; what is starred at the start.
Scenario == [plays : Nat, stars : Nat, drifts : Nat, flaps : Nat, crashes : Nat, refusals : Nat,
             failures : Nat, pauses : Nat, squeezes : Nat, starred : SUBSET DOMAIN Catalog]

ASSUME StoreAssumption ==
    /\ Range(Rows) \subseteq Id /\ Ahead \in Nat
    /\ {Configured, Disk, GiveUpAfter, MaxChain} \subseteq Nat
    /\ Scenarios \subseteq Scenario

VARIABLES
    audio,      \* the files <id>.<suffix>: [size, copy], a copy being one download
    sidecar,    \* the files <id>.toml
    tmp,        \* whether a download's temp file is on disk
    other,      \* what other programs use of the file system
    index, window, protected,
    paused, remote,        \* `paused', `playback_remote'
    fullRequested, permit, \* the kick: its sticky flag and its one Notify permit
    memo,       \* pin_set_memo
    pc, mode, input, todo, job,   \* the pass: where it is, and the action in hand
    report, chain, failures,      \* PassReport, eviction_chain, Backoff
    song, starred, up,     \* the server
    playing, going,        \* the deck, and what it has been told to open next
    bad,        \* history: the copies whose play has failed
    early,      \* history: those that failed while the commit that brought them was under way
    now,        \* the clock of last_played_unix
    left                   \* what remains of the scenario's bounds

diskVars == <<audio, sidecar, tmp, other>>
indexVars == <<index, window, protected>>
flagVars == <<paused, remote, fullRequested, permit>>
passVars == <<pc, mode, input, todo, job, report, chain, failures, memo>>
worldVars == <<song, starred, up, playing, going, bad, early, now, left>>
vars == <<diskVars, indexVars, flagVars, passVars, worldVars>>

Sidecar == [suffix : Suffix, size : Nat, created : Nat, pinned : BOOLEAN, stale : BOOLEAN, played : Nat]
NoInput == <<"none">>
NoJob == [op |-> "none"]
NoReport == [scheduled |-> 0, committed |-> 0, evicted |-> 0]
Silence == [row |-> 0, local |-> FALSE, copy |-> 0]
Nowhere == [row |-> 0, file |-> << >>]

MapWithout(f, ks) == [k \in DOMAIN f \ ks |-> f[k]]
MapWith(f, k, v) == [x \in DOMAIN f \cup {k} |-> IF x = k THEN v ELSE f[x]]
FileSize(f) == audio[f].size
DiskUse == SumOf(FileSize, DOMAIN audio) + (IF tmp THEN 1 ELSE 0) + other
Available == SatSub(Disk, DiskUse)

\* The server's answer to getStarred2 and its expansion.
PinSet(stars) ==
    LET groups == SetToSortSeq(stars, LAMBDA a, b : a < b)
    IN [k \in DOMAIN groups |->
           [tier |-> Catalog[groups[k]].tier,
            songs |-> [j \in DOMAIN Catalog[groups[k]].ids |-> song[Catalog[groups[k]].ids[j]]]]]

\* lookup: the file playback is given, if any.
Offered(id) ==
    /\ id \in DOMAIN index /\ ~index[id].suspect
    /\ LET f == <<id, index[id].suffix>>
       IN f \in DOMAIN audio /\ audio[f].size = index[id].size

-----------------------------------------------------------------------------
(* The directory. *)

\* scan_dir: an entry is a sidecar and the audio file it names, at its length.
ValidPair(id) ==
    /\ id \in DOMAIN sidecar
    /\ LET f == <<id, sidecar[id].suffix>>
       IN f \in DOMAIN audio /\ audio[f].size = sidecar[id].size
Scanned == {id \in DOMAIN sidecar : ValidPair(id)}
ScanEntry(id) == [suffix |-> sidecar[id].suffix, size |-> sidecar[id].size,
                  created |-> sidecar[id].created, pinned |-> sidecar[id].pinned, stale |-> sidecar[id].stale,
                  suspect |-> FALSE, played |-> sidecar[id].played, dirty |-> FALSE]
OrphanAudio == {f \in DOMAIN audio : ~(ValidPair(f[1]) /\ sidecar[f[1]].suffix = f[2])}

\* As if the scan knew everything.
ResyncFromDisk == [id \in Scanned |-> ScanEntry(id)]

\* resync_from_scan: disk truth, with the flags that live in memory only.
Resync ==
    [id \in Scanned |->
        LET e == ScanEntry(id)
            old == index[id]
        IN IF id \notin DOMAIN index THEN e
           ELSE IF old.dirty /\ old.played >= e.played
                THEN [e EXCEPT !.suspect = old.suspect, !.played = old.played, !.dirty = TRUE]
                ELSE [e EXCEPT !.suspect = old.suspect]]

\* A new process: open() sweeps and heals before anything can be asked of it.
Boot ==
    /\ audio' = [f \in DOMAIN audio \ OrphanAudio |-> audio[f]]
    /\ sidecar' = [id \in Scanned |-> sidecar[id]]
    /\ tmp' = FALSE
    /\ index' = [id \in Scanned |-> ScanEntry(id)]
    /\ window' = << >> /\ protected' = {}
    /\ paused' = FALSE /\ remote' = FALSE /\ fullRequested' = FALSE /\ permit' = FALSE
    /\ memo' = NoPins /\ pc' = "begin" /\ mode' = "full" /\ input' = NoInput
    /\ todo' = << >> /\ job' = NoJob /\ report' = NoReport /\ chain' = 0
    /\ failures' = [id \in Id |-> 0]
    /\ playing' = Silence /\ going' = Nowhere /\ bad' = {} /\ early' = {}

StoreInit ==
    /\ audio = << >> /\ sidecar = << >> /\ tmp = FALSE /\ other = 0
    /\ index = << >> /\ window = << >> /\ protected = {}
    /\ paused = FALSE /\ remote = FALSE /\ fullRequested = FALSE /\ permit = FALSE
    /\ memo = NoPins /\ pc = "begin" /\ mode = "full" /\ input = NoInput
    /\ todo = << >> /\ job = NoJob /\ report = NoReport /\ chain = 0
    /\ failures = [id \in Id |-> 0]
    /\ song = InitSong /\ up = TRUE /\ playing = Silence /\ going = Nowhere
    /\ bad = {} /\ early = {}
    /\ now = 1
    /\ left \in Scenarios /\ starred = left.starred

-----------------------------------------------------------------------------
(* The reconciler: run and run_pass. *)

Unplanned == UNCHANGED <<diskVars, indexVars, paused, remote, worldVars, failures>>

\* The loop waits: an interval tick, by which time the memo has expired (30 s, and
\* the interval is at least 60 s), a full kick, or a light one.
TickKeepsMemo ==
    /\ pc = "idle" /\ pc' = "begin" /\ mode' = "full"
    /\ Unplanned /\ UNCHANGED <<fullRequested, permit, input, todo, job, report, chain, memo>>

Tick ==
    /\ pc = "idle" /\ pc' = "begin" /\ mode' = "full" /\ memo' = NoPins
    /\ Unplanned /\ UNCHANGED <<fullRequested, permit, input, todo, job, report, chain>>

Kicked ==
    /\ pc = "idle" /\ permit /\ pc' = "begin" /\ permit' = FALSE
    /\ mode' = IF fullRequested THEN "full" ELSE "light"
    /\ memo' = IF fullRequested THEN NoPins ELSE memo    \* source.invalidate()
    /\ fullRequested' = FALSE
    /\ Unplanned /\ UNCHANGED <<input, todo, job, report, chain>>

\* The budget is measured and the flags are sampled; a full pass takes any full
\* request with it.
BeginPass ==
    /\ pc = "begin"
    /\ LET Held(id) == index[id].size
           derived == DeriveBudget(Available, Disk, SumOf(Held, DOMAIN index), Configured)
       IN input' = [mode |-> mode, configured |-> Configured, avail |-> Available,
                    max |-> IF derived = Unmeasured THEN Configured ELSE derived,
                    remote |-> remote, paused |-> paused, pins |-> NoPins, loose |-> << >>]
    /\ fullRequested' = (fullRequested /\ mode = "light")
    /\ report' = NoReport
    /\ pc' = IF mode = "full" THEN "scan" ELSE "plan"
    /\ Unplanned /\ UNCHANGED <<permit, mode, todo, job, chain, memo>>

\* The scan becomes the index.  What it cannot account for is swept first.
Scan ==
    /\ pc = "scan" /\ pc' = "pins"
    /\ index' = Resync
    /\ input' = [input EXCEPT !.loose =
           (IF tmp THEN <<[op |-> "sweep"]>> ELSE << >>)
           \o SetToSeq({[op |-> "orphan", file |-> f] : f \in OrphanAudio})
           \o ActsOf("heal", DOMAIN sidecar \ Scanned)]
    /\ UNCHANGED <<diskVars, window, protected, flagVars, worldVars,
                   mode, todo, job, report, chain, failures, memo>>

\* pins(): the memo while it is fresh, or the server, or no answer.
AskPins ==
    /\ pc = "pins" /\ pc' = "plan"
    /\ \/ memo # NoPins /\ input' = [input EXCEPT !.pins = memo] /\ UNCHANGED memo
       \/ /\ up
          /\ input' = [input EXCEPT !.pins = PinSet(starred)]
          /\ memo' = PinSet(starred)
       \/ ~up /\ UNCHANGED <<input, memo>>
    /\ UNCHANGED <<diskVars, indexVars, flagVars, worldVars, mode, todo, job, report, chain, failures>>

\* What it plans from: entries(), window() and protected_ids() as they are now.
Observed == [mode |-> input.mode, configured |-> input.configured, avail |-> input.avail,
             max |-> input.max, remote |-> input.remote, paused |-> input.paused,
             pins |-> input.pins, held |-> index, window |-> window, protected |-> protected]

MakePlan ==
    /\ pc = "plan" /\ pc' = "act"
    /\ todo' = input.loose \o Plan(Observed)
    /\ input' = [pins |-> input.pins, max |-> input.max, pinned |-> {id \in DOMAIN index : index[id].pinned}]
    /\ UNCHANGED <<diskVars, indexVars, flagVars, worldVars, mode, job, report, chain, failures, memo>>

\* PassReport.re_enter.
Drained(r) == r.committed > 0 /\ r.scheduled >= Batch
EndPass ==
    /\ pc = "act" /\ todo = << >>
    /\ IF Drained(report) \/ (report.evicted > 0 /\ chain < MaxChain)
       THEN /\ chain' = IF Drained(report) THEN 0 ELSE chain + 1
            /\ pc' = "begin"
       ELSE chain' = 0 /\ pc' = "idle"
    /\ input' = NoInput /\ report' = NoReport
    /\ Unplanned /\ UNCHANGED <<fullRequested, permit, mode, todo, job, memo>>

-----------------------------------------------------------------------------
(* execute: the plan, one action at a time. *)

Acting(op) == pc = "act" /\ todo # << >> /\ Head(todo).op = op
Target == Head(todo).id
NextAction == pc' = "act" /\ todo' = Tail(todo) /\ job' = NoJob
Executing == UNCHANGED <<other, window, protected, flagVars, song, starred, up, playing, going, bad, early, now,
                         mode, input, chain, memo>>
May(fault) == left[fault] > 0
Spend(fault) == left' = [left EXCEPT ![fault] = @ - 1]

SweepLoose ==
    /\ \/ Acting("sweep") /\ tmp' = FALSE /\ UNCHANGED audio
       \/ Acting("orphan") /\ audio' = MapWithout(audio, {Head(todo).file}) /\ UNCHANGED tmp
    /\ NextAction /\ Executing
    /\ UNCHANGED <<sidecar, index, report, failures, left>>

\* remove_entry, of an eviction and of a heal: the sidecar, the index, the audio.
RemoveSidecar ==
    /\ Acting("evict") \/ Acting("heal")
    /\ \/ /\ sidecar' = MapWithout(sidecar, {Target}) /\ pc' = "unindex"
          /\ UNCHANGED <<todo, job, left>>
       \/ May("refusals") /\ Spend("refusals") /\ NextAction /\ UNCHANGED sidecar
    /\ Executing /\ UNCHANGED <<audio, tmp, index, report, failures>>

RemoveKeepsIndex ==
    /\ pc = "unindex" /\ pc' = "unlink"
    /\ job' = [op |-> "remove", files |-> {Target} \X Suffix]
    /\ Executing /\ UNCHANGED <<index, audio, sidecar, tmp, todo, report, failures, left>>

RemoveFromIndex ==
    /\ pc = "unindex" /\ pc' = "unlink"
    /\ index' = MapWithout(index, {Target})
    /\ job' = [op |-> "remove", files |->
                  IF Target \in DOMAIN index THEN {<<Target, index[Target].suffix>>}
                  ELSE {Target} \X Suffix]
    /\ Executing /\ UNCHANGED <<audio, sidecar, tmp, todo, report, failures, left>>

RemoveAudio ==
    /\ pc = "unlink"
    /\ \/ /\ audio' = MapWithout(audio, job.files)
          /\ report' = IF Head(todo).op = "evict" THEN [report EXCEPT !.evicted = @ + 1] ELSE report
          /\ UNCHANGED left
       \/ May("refusals") /\ Spend("refusals") /\ UNCHANGED <<audio, report>>
    /\ NextAction /\ Executing /\ UNCHANGED <<sidecar, tmp, index, failures>>

\* set_stale, set_pinned and flush_recency: the sidecar first, then the index.
Amended(op, s) ==
    CASE op = "stale" -> [s EXCEPT !.stale = TRUE]
      [] op = "fresh" -> [s EXCEPT !.stale = FALSE]
      [] op = "pin" -> [s EXCEPT !.pinned = TRUE]
      [] op = "unpin" -> [s EXCEPT !.pinned = FALSE]

AmendSidecar ==
    /\ \E op \in {"stale", "fresh", "pin", "unpin"} : Acting(op)
    /\ \/ /\ Target \in DOMAIN sidecar
          /\ sidecar' = [sidecar EXCEPT ![Target] = Amended(Head(todo).op, @)]
          /\ pc' = "amend" /\ UNCHANGED <<todo, job, left>>
       \/ Target \notin DOMAIN sidecar /\ NextAction /\ UNCHANGED <<sidecar, left>>
       \/ May("refusals") /\ Spend("refusals") /\ NextAction /\ UNCHANGED sidecar
    /\ Executing /\ UNCHANGED <<audio, tmp, index, report, failures>>

AmendIndex ==
    /\ pc = "amend"
    /\ index' = IF Target \in DOMAIN index
                THEN [index EXCEPT ![Target] = Amended(Head(todo).op, @)] ELSE index
    /\ NextAction /\ Executing
    /\ UNCHANGED <<audio, sidecar, tmp, report, failures, left>>

\* A flush writes the recency the plan saw, and clears the flag only if it still
\* is the recency in memory.
FlushSidecar ==
    /\ Acting("flush")
    /\ \/ /\ Target \in DOMAIN sidecar
          /\ sidecar' = [sidecar EXCEPT ![Target].played = Head(todo).played]
          /\ pc' = "flushed" /\ UNCHANGED <<todo, job, left>>
       \/ Target \notin DOMAIN sidecar /\ NextAction /\ UNCHANGED <<sidecar, left>>
       \/ May("refusals") /\ Spend("refusals") /\ NextAction /\ UNCHANGED sidecar
    /\ Executing /\ UNCHANGED <<audio, tmp, index, report, failures>>

FlushIndex ==
    /\ pc = "flushed"
    /\ index' = IF Target \in DOMAIN index /\ index[Target].played = Head(todo).played
                THEN [index EXCEPT ![Target].dirty = FALSE] ELSE index
    /\ NextAction /\ Executing
    /\ UNCHANGED <<audio, sidecar, tmp, report, failures, left>>

-----------------------------------------------------------------------------
(* Downloads. *)

Fail(id) == failures' = [failures EXCEPT ![id] = IF @ < GiveUpAfter THEN @ + 1 ELSE @]
BulkWork == Head(todo).why \in {"backfill", "stale"}
Asked(id) == input.pins # NoPins /\ id \in Pinned(input.pins)

\* Bulk work gives way to playback and to a pause, in the middle of a pass too.
Yields == BulkWork /\ (remote \/ paused)
YieldDownload ==
    /\ Acting("download") /\ Yields /\ NextAction
    /\ Executing /\ UNCHANGED <<audio, sidecar, tmp, index, report, failures, left>>

\* Still backing off, or given up on.
WaitOut ==
    /\ Acting("download") /\ ~Yields /\ failures[Target] > 0 /\ NextAction
    /\ report' = [report EXCEPT !.scheduled = @ + 1]
    /\ Executing /\ UNCHANGED <<audio, sidecar, tmp, index, failures, left>>

\* The song's details come from the pins or from the server, and its bytes from
\* the server.
StartDownload ==
    /\ Acting("download") /\ ~Yields /\ failures[Target] < GiveUpAfter
    /\ report' = [report EXCEPT !.scheduled = @ + 1]
    /\ \/ ~up /\ Fail(Target) /\ NextAction /\ UNCHANGED tmp
       \/ /\ up /\ tmp' = TRUE /\ pc' = "fetch"
          /\ job' = [op |-> "fetch",
                     song |-> IF Asked(Target) THEN PinSong(input.pins, Target) ELSE song[Target],
                     pinned |-> IF input.pins = NoPins THEN Target \in input.pinned ELSE Asked(Target)]
          /\ UNCHANGED <<todo, failures>>
    /\ Executing /\ UNCHANGED <<audio, sidecar, index, left>>

EndFetchAnyLength ==
    /\ pc = "fetch" /\ pc' = "rename"
    /\ Executing /\ UNCHANGED <<audio, sidecar, tmp, index, todo, job, report, failures, left>>

\* fetch ends: refused or cut off, or with the bytes the server has by now, whose
\* length commit checks against what was announced.
EndFetch ==
    /\ pc = "fetch"
    /\ \/ /\ song[job.song.id].size = job.song.size /\ job.song.size > 0
          /\ pc' = "rename" /\ UNCHANGED <<tmp, todo, job, failures, left>>
       \/ /\ IF ~up \/ song[job.song.id].size # job.song.size \/ job.song.size = 0
             THEN UNCHANGED left ELSE May("failures") /\ Spend("failures")
          /\ tmp' = FALSE /\ Fail(job.song.id) /\ NextAction
    /\ Executing /\ UNCHANGED <<audio, sidecar, index, report>>

\* A number for a new copy that no copy still of interest has.
UsedCopies == {audio[f].copy : f \in DOMAIN audio} \cup bad \cup {playing.copy}
FreshCopy == Min((1..(Cardinality(UsedCopies) + 1)) \ UsedCopies)

\* commit: the bytes are renamed into place, over a file of the same suffix;
CommitRename ==
    /\ pc = "rename" /\ pc' = "publish" /\ tmp' = FALSE
    /\ audio' = MapWith(audio, <<job.song.id, job.song.suffix>>,
                        [size |-> job.song.size, copy |-> FreshCopy])
    /\ job' = [op |-> "fetch", song |-> job.song, pinned |-> job.pinned,
               old |-> IF job.song.id \in DOMAIN index THEN {index[job.song.id].suffix} ELSE {},
               at |-> now]
    /\ Executing /\ UNCHANGED <<sidecar, index, todo, report, failures, left>>

\* the sidecar commits them;
CommitSidecar ==
    /\ pc = "publish"
    /\ \/ /\ sidecar' = MapWith(sidecar, job.song.id,
                 [suffix |-> job.song.suffix, size |-> job.song.size, created |-> job.song.created,
                  pinned |-> job.pinned, stale |-> FALSE, played |-> job.at])
          /\ pc' = "supersede" /\ UNCHANGED <<todo, job, failures, left>>
       \/ May("refusals") /\ Spend("refusals") /\ Fail(job.song.id) /\ NextAction /\ UNCHANGED sidecar
    /\ Executing /\ UNCHANGED <<audio, tmp, index, report>>

\* a file of another suffix goes; and the index offers the new bytes.
CommitSupersede ==
    /\ pc = "supersede" /\ pc' = "offer"
    /\ audio' = MapWithout(audio, {job.song.id} \X (job.old \ {job.song.suffix}))
    /\ Executing /\ UNCHANGED <<sidecar, tmp, index, todo, job, report, failures, left>>

CommitIndex ==
    /\ pc = "offer"
    /\ index' = MapWith(index, job.song.id,
           [suffix |-> job.song.suffix, size |-> job.song.size, created |-> job.song.created,
            pinned |-> job.pinned, stale |-> FALSE, suspect |-> FALSE, played |-> job.at, dirty |-> FALSE])
    /\ failures' = [failures EXCEPT ![job.song.id] = 0]
    /\ report' = [report EXCEPT !.committed = @ + 1]
    /\ NextAction /\ Executing /\ UNCHANGED <<audio, sidecar, tmp, left>>

Reconciler ==
    \/ Kicked \/ BeginPass \/ Scan \/ AskPins \/ EndPass
    \/ SweepLoose \/ RemoveSidecar \/ RemoveFromIndex \/ RemoveAudio
    \/ AmendSidecar \/ AmendIndex \/ FlushSidecar \/ FlushIndex
    \/ YieldDownload \/ WaitOut \/ StartDownload \/ EndFetch
    \/ CommitRename \/ CommitSidecar \/ CommitSupersede \/ CommitIndex

-----------------------------------------------------------------------------
(* The player and the clients. *)

Meanwhile == UNCHANGED <<diskVars, passVars, song, starred, up>>
WindowFrom(p) == SubSeq(Rows, p, IF p + Ahead < Len(Rows) THEN p + Ahead ELSE Len(Rows))

\* resolve_play: a row is on its way to the deck, as the path of a file if the
\* store offers one; note_played.
Resolve(p) ==
    LET id == Rows[p]
    IN /\ now' = now + 1
       /\ going' = [row |-> p,
                    file |-> IF Offered(id) THEN <<id, index[id].suffix>> ELSE << >>]
       /\ index' = IF Offered(id) THEN [index EXCEPT ![id].played = now', ![id].dirty = TRUE] ELSE index
       /\ remote' = ~Offered(id)

\* A play or an advance releases the pin of a skip; a skip pins its target against
\* eviction and kicks.
Play(p) ==
    /\ May("plays") /\ Spend("plays")
    /\ Resolve(p) /\ protected' = {}
    /\ Meanwhile /\ UNCHANGED <<window, paused, fullRequested, permit, playing, bad, early>>

Skip(p) ==
    /\ May("plays") /\ Spend("plays")
    /\ Resolve(p) /\ protected' = {Rows[p]} /\ permit' = TRUE
    /\ Meanwhile /\ UNCHANGED <<window, paused, fullRequested, playing, bad, early>>

\* The deck opens it, and the row is current: update_store_window.
Arrive ==
    /\ going # Nowhere
    /\ playing' = [row |-> going.row, local |-> going.file # << >>,
                   copy |-> IF going.file \in DOMAIN audio THEN audio[going.file].copy ELSE 0]
    /\ going' = Nowhere
    /\ window' = WindowFrom(going.row)
    /\ permit' = (permit \/ window' # window)
    /\ Meanwhile /\ UNCHANGED <<index, protected, paused, remote, fullRequested, bad, early, now, left>>

\* The copy a commit has renamed into place and not yet put into the index.
Arriving ==
    IF pc \in {"publish", "supersede", "offer"}
    THEN {audio[<<job.song.id, job.song.suffix>>].copy} ELSE {}

\* A track ends in an error: the entry its local bytes belong to is marked suspect,
\* if there is one.
PlayFails ==
    /\ playing # Silence
    /\ playing' = Silence
    /\ LET id == Rows[playing.row]
           marks == playing.local /\ id \in DOMAIN index /\ ~index[id].suspect
           copies == {audio[f].copy : f \in DOMAIN audio}
       IN /\ index' = IF marks THEN [index EXCEPT ![id].suspect = TRUE] ELSE index
          /\ permit' = (permit \/ marks)
          /\ bad' = (bad \cup {playing.copy}) \cap copies
          /\ early' = ((early \ {playing.copy}) \cup ({playing.copy} \cap Arriving)) \cap copies
    /\ Meanwhile /\ UNCHANGED <<window, protected, paused, remote, fullRequested, going, now, left>>

\* Playback stops: nothing is remote any more, and the window stays.
Stop ==
    /\ playing # Silence
    /\ playing' = Silence /\ remote' = FALSE
    /\ Meanwhile /\ UNCHANGED <<indexVars, paused, fullRequested, permit, going, bad, early, now, left>>

\* store pause and store resume.
SetPaused ==
    /\ May("pauses") /\ Spend("pauses")
    /\ paused' = ~paused
    /\ permit' = (permit \/ paused) /\ fullRequested' = (fullRequested \/ paused)
    /\ Meanwhile /\ UNCHANGED <<indexVars, remote, playing, going, bad, early, now>>

\* A star reaches the server, and then the handler kicks a full pass.
Star(g) ==
    /\ May("stars") /\ Spend("stars") /\ up
    /\ starred' = IF g \in starred THEN starred \ {g} ELSE starred \cup {g}
    /\ permit' = TRUE /\ fullRequested' = TRUE
    /\ UNCHANGED <<diskVars, indexVars, passVars, paused, remote, song, up, playing, going, bad, early, now>>

-----------------------------------------------------------------------------
(* The world. *)

Drift(id) ==
    /\ May("drifts") /\ Spend("drifts")
    /\ \E s \in NextSong[id] \ {song[id]} : song' = [song EXCEPT ![id] = s]
    /\ UNCHANGED <<diskVars, indexVars, flagVars, passVars, starred, up, playing, going, bad, early, now>>

Flap ==
    /\ May("flaps") /\ Spend("flaps") /\ up' = ~up
    /\ UNCHANGED <<diskVars, indexVars, flagVars, passVars, song, starred, playing, going, bad, early, now>>

\* Another program takes or gives back some of the disk.
Squeeze ==
    /\ May("squeezes") /\ Spend("squeezes")
    /\ other' \in {0, Disk - Configured} \ {other}
    /\ UNCHANGED <<audio, sidecar, tmp, indexVars, flagVars, passVars, song, starred, up, playing,
                   going, bad, early, now>>

Crash ==
    /\ May("crashes") /\ Spend("crashes")
    /\ Boot /\ UNCHANGED <<other, song, starred, up, now>>

World ==
    \/ \E p \in DOMAIN Rows : Play(p) \/ Skip(p)
    \/ Arrive \/ PlayFails \/ Stop \/ SetPaused \/ Flap \/ Squeeze \/ Crash
    \/ \E g \in DOMAIN Catalog : Star(g)
    \/ \E id \in Id : Drift(id)

StoreNext == Reconciler \/ MakePlan \/ Tick \/ World

StoreSpec == StoreInit /\ [][StoreNext]_vars

\* The reconciler is a task of its own that never returns, and its timer fires; a
\* download that is due again and again is tried.  (Planning is part of that task:
\* "infinitely often not planning" is weak fairness of MakePlan, which is enabled
\* whenever pc is "plan", without having TLC decide whether it is.)
StoreFairSpec ==
    /\ StoreSpec
    /\ WF_vars(Reconciler) /\ []<>(pc # "plan") /\ WF_vars(Tick)
    /\ SF_vars(StartDownload)
-----------------------------------------------------------------------------
(* Properties. *)

\* Files, index, kick and pass have their types, and a pass is under way exactly
\* when it has something in hand.
StoreTypeOK ==
    /\ DOMAIN audio \subseteq Id \X Suffix
    /\ \A f \in DOMAIN audio : audio[f] \in [size : Nat \ {0}, copy : Nat \ {0}]
    /\ DOMAIN sidecar \subseteq Id /\ Range(sidecar) \subseteq Sidecar
    /\ DOMAIN index \subseteq Id /\ Range(index) \subseteq IndexEntry
    /\ Range(window) \subseteq Id /\ protected \subseteq Id /\ other \in Nat
    /\ {tmp, paused, remote, fullRequested, permit, up} \subseteq BOOLEAN
    /\ mode \in {"light", "full"} /\ chain \in 0..MaxChain
    /\ failures \in [Id -> 0..GiveUpAfter] /\ song \in [Id -> Song]
    /\ pc \in {"idle", "begin", "scan", "pins", "plan", "act", "unindex", "unlink", "amend",
               "flushed", "fetch", "rename", "publish", "supersede", "offer"}
    /\ pc \in {"unlink", "fetch", "rename", "publish", "supersede", "offer"} <=> job # NoJob
    /\ (pc \in {"idle", "begin", "scan", "pins", "plan"}) => todo = << >>

\* What playback would be given is committed: a crash at this instant would find
\* the same pair and keep it.  Only an entry on its way out, between its sidecar
\* and the index, or a replacement on its way in, between its sidecar and the
\* index, is offered on the index's word.
OfferedIsCommitted ==
    \A id \in Id : Offered(id) =>
        \/ ValidPair(id) /\ sidecar[id].suffix = index[id].suffix
        \/ pc = "unindex" /\ Target = id
        \/ pc \in {"supersede", "offer"} /\ job.song.id = id

\* Bytes a play has failed on are never offered again while the process lives,
\* whatever passes, scans, removals and replacements come in between - once the
\* commit that brought them is finished.  Bytes that failed before that, opened
\* between the rename and the index entry, are `early': the entry is written over
\* the mark, and only a second failure puts them out for good (store.rs, commit,
\* mark_suspect, resync_from_scan).
BadBytesStayOut ==
    \A id \in Id : Offered(id) => audio[<<id, index[id].suffix>>].copy \notin bad \ early

\* While the server cannot be reached nothing that is pinned is evicted, and only
\* a pass that has its answer may decide that a pin is over the line.
FlapKeepsPins ==
    [][\A id \in DOMAIN sidecar \ DOMAIN sidecar' :
           (Acting("evict") /\ sidecar[id].pinned) => input.pins # NoPins]_vars

\* The mirror settles: downloads and evictions do not chase each other for ever,
\* whatever was starred, replaced or squeezed before.
MirrorSettles == <>[][sidecar' = sidecar /\ audio' = audio]_<<sidecar, audio>>

\* The songs the ceiling has room for.
Wanted == DOMAIN Frontier(PinSet(starred), index,
              PinCeiling(DeriveBudget(Available, Disk, MapThenSumSet(LAMBDA id : index[id].size, DOMAIN index), Configured))).claim

\* Once the server stays up and nothing defers bulk work, every starred song the
\* ceiling has room for is held, or has been given up on.
MirrorComplete ==
    <>[](up /\ ~remote /\ ~paused) =>
        <>[](pc = "idle" => \A id \in Wanted : id \in DOMAIN index \/ failures[id] >= GiveUpAfter)

\* Violated by the code: store.rs:3250 says that playback is never handed a path
\* that is about to vanish.
HandedPathStays == going.file # << >> => going.file \in DOMAIN audio

\* Violated by the code: store.rs:2961 says that known-bad bytes are never
\* re-offered.  The path of an entry being replaced can be opened after commit's
\* rename; the play fails and marks the old entry, and commit writes the new one,
\* unmarked, over it.
KnownBadStaysOut ==
    \A id \in Id : Offered(id) => audio[<<id, index[id].suffix>>].copy \notin bad

\* Violated by the code: a pinned entry leaves the store only by a decision of a
\* pass, never because its replacement was cut short.
KeptUntilReplaced ==
    [][\A id \in DOMAIN sidecar \ DOMAIN sidecar' :
           sidecar[id].pinned => Acting("evict")]_vars

\* Violated by the code: store.rs:3720 says that freshness on the gesture path is
\* exact: pins remembered from before a star flip are dropped, by the full pass the
\* flip has asked for, before they are used again.
GestureIsFresh ==
    (memo # NoPins /\ Pinned(memo) # Pinned(PinSet(starred))) => fullRequested
=============================================================================
