------------------------- MODULE OfflineStore_proofs -------------------------
(***************************************************************************)
(* What playback is offered is committed, and bytes that failed stay out,  *)
(* for every set of songs, queue, capacity and scenario; at the end, the   *)
(* arithmetic of the budget.                                               *)
(*                                                                         *)
(* The first argument is about two maps the code writes at different       *)
(* moments: an index entry has a sidecar of the same suffix and length     *)
(* beside it, except where one of two operations has got half of the way - *)
(* and each of them names the entry it is working on.                      *)
(***************************************************************************)
EXTENDS OfflineStore, TLAPS, FiniteSetTheorems, WellFoundedInduction

\* A sidecar says what the index says.
Held(id) ==
    /\ id \in DOMAIN sidecar
    /\ sidecar[id].suffix = index[id].suffix /\ sidecar[id].size = index[id].size

Removing(id) == pc = "unindex" /\ Target = id
Replacing(id) == pc \in {"supersede", "offer"} /\ job.song.id = id

HasBytes(r) == {"suffix", "size"} \subseteq DOMAIN r
Amendments == {"stale", "fresh", "pin", "unpin"}

\* Entries and sidecars say which bytes they are for; the one sidecar that is
\* ahead of the index is that of the song in hand.
StoreInv ==
    /\ \A id \in DOMAIN sidecar : HasBytes(sidecar[id])
    /\ \A id \in DOMAIN index : HasBytes(index[id])
    /\ \A id \in DOMAIN index : Held(id) \/ Removing(id) \/ Replacing(id)
    /\ pc \in {"supersede", "offer"} =>
        /\ job.song.id \in DOMAIN sidecar
        /\ sidecar[job.song.id].suffix = job.song.suffix
        /\ sidecar[job.song.id].size = job.song.size
    /\ pc = "amend" => Head(todo).op \in Amendments
-----------------------------------------------------------------------------
\* It is enough for what the property says.
LEMMA InvOffered == StoreInv => OfferedIsCommitted
BY DEF StoreInv, OfferedIsCommitted, Offered, ValidPair, Held, Removing, Replacing

LEMMA InvInit == StoreInit => StoreInv
BY DEF StoreInit, StoreInv

\* Steps that touch neither map nor the operation in hand.
LEMMA InvElsewhere ==
    ASSUME StoreInv, UNCHANGED <<sidecar, index, pc, todo, job>>
    PROVE  StoreInv'
BY DEF StoreInv, Held, Removing, Replacing, HasBytes, Target

\* Steps of the pass outside the two operations that touch neither map.
LEMMA InvBetween ==
    ASSUME StoreInv, UNCHANGED <<sidecar, index>>,
           pc \notin {"unindex", "supersede", "offer"}, pc' \notin {"amend", "supersede", "offer"}
    PROVE  StoreInv'
BY DEF StoreInv, Held, Removing, Replacing, HasBytes

\* Steps that amend entries and sidecars without saying they are other bytes.
LEMMA InvAmended ==
    ASSUME StoreInv,
           DOMAIN sidecar' = DOMAIN sidecar, DOMAIN index' = DOMAIN index,
           \A id \in DOMAIN sidecar :
               /\ HasBytes(sidecar'[id])
               /\ sidecar'[id].suffix = sidecar[id].suffix /\ sidecar'[id].size = sidecar[id].size,
           \A id \in DOMAIN index :
               /\ HasBytes(index'[id])
               /\ index'[id].suffix = index[id].suffix /\ index'[id].size = index[id].size,
           \/ UNCHANGED <<pc, todo, job>>
           \/ /\ pc \notin {"unindex", "supersede", "offer"}
              /\ pc' \notin {"supersede", "offer"}
              /\ pc' = "amend" => Head(todo').op \in Amendments
    PROVE  StoreInv'
BY DEF StoreInv, Held, Removing, Replacing, HasBytes, Target

\* After a scan the index is what the sidecars say.
LEMMA ScanAgrees ==
    ASSUME NEW id
    PROVE  /\ HasBytes(ScanEntry(id))
           /\ ScanEntry(id).suffix = sidecar[id].suffix /\ ScanEntry(id).size = sidecar[id].size
BY DEF ScanEntry, HasBytes
-----------------------------------------------------------------------------
(* The reconciler. *)

LEMMA InvWaiting ==
    ASSUME StoreInv, Kicked \/ Tick \/ BeginPass \/ AskPins \/ MakePlan \/ EndPass
    PROVE  StoreInv'
<1>1. UNCHANGED <<sidecar, index>>
  BY DEF Kicked, Tick, BeginPass, AskPins, MakePlan, EndPass, Unplanned, diskVars, indexVars
<1>2. pc \notin {"unindex", "supersede", "offer"} /\ pc' \notin {"amend", "supersede", "offer"}
  BY DEF Kicked, Tick, BeginPass, AskPins, MakePlan, EndPass
<1>3. QED  BY <1>1, <1>2, InvBetween

LEMMA InvScan == StoreInv /\ Scan => StoreInv'
<1> SUFFICES ASSUME StoreInv, Scan PROVE StoreInv'
  OBVIOUS
<1>1. pc' = "pins" /\ index' = Resync /\ sidecar' = sidecar
  BY DEF Scan, diskVars
<1>2. DOMAIN index' = Scanned /\ Scanned \subseteq DOMAIN sidecar
  BY <1>1 DEF Resync, Scanned
<1>3. ASSUME NEW id \in Scanned
      PROVE  /\ HasBytes(index'[id])
             /\ index'[id].suffix = sidecar[id].suffix /\ index'[id].size = sidecar[id].size
  <2> DEFINE e == ScanEntry(id)
  <2>1. \/ index'[id] = e
        \/ \E s, p : index'[id] = [e EXCEPT !.suspect = s, !.played = p, !.dirty = TRUE]
        \/ \E s : index'[id] = [e EXCEPT !.suspect = s]
    BY <1>1 DEF Resync
  <2>2. QED  BY <2>1, ScanAgrees DEF HasBytes
<1>4. QED  BY <1>1, <1>2, <1>3 DEF StoreInv, Held

LEMMA InvRemove ==
    ASSUME StoreInv, SweepLoose \/ RemoveSidecar \/ RemoveFromIndex \/ RemoveAudio
    PROVE  StoreInv'
<1>1. CASE SweepLoose
  BY <1>1, InvBetween DEF SweepLoose, Acting, NextAction
<1>2. CASE RemoveSidecar
  <2>1. pc = "act" /\ index' = index
    BY <1>2 DEF RemoveSidecar, Acting
  <2>2. CASE sidecar' = MapWithout(sidecar, {Target}) /\ pc' = "unindex" /\ UNCHANGED <<todo, job, left>>
    BY <2>1, <2>2 DEF StoreInv, Held, Removing, Replacing, MapWithout, Target, HasBytes
  <2>3. CASE NextAction /\ sidecar' = sidecar
    BY <2>1, <2>3, InvBetween DEF NextAction
  <2>4. QED  BY <1>2, <2>2, <2>3 DEF RemoveSidecar
<1>3. CASE RemoveFromIndex
  BY <1>3 DEF RemoveFromIndex, StoreInv, Held, Removing, Replacing, MapWithout, HasBytes
<1>4. CASE RemoveAudio
  BY <1>4, InvBetween DEF RemoveAudio, NextAction
<1>5. QED  BY <1>1, <1>2, <1>3, <1>4

\* A pin, a stale mark, a flush.
LEMMA AmendedKeeps ==
    ASSUME NEW op \in Amendments, NEW s, HasBytes(s)
    PROVE  /\ HasBytes(Amended(op, s))
           /\ Amended(op, s).suffix = s.suffix /\ Amended(op, s).size = s.size
BY DEF Amended, Amendments, HasBytes

LEMMA InvAmend ==
    ASSUME StoreInv, AmendSidecar \/ FlushSidecar \/ FlushIndex
    PROVE  StoreInv'
<1>1. CASE AmendSidecar
  <2>1. /\ pc = "act" /\ index' = index
        /\ Head(todo).op \in Amendments
    BY <1>1 DEF AmendSidecar, Acting, Amendments
  <2>2. CASE /\ Target \in DOMAIN sidecar /\ pc' = "amend" /\ todo' = todo
             /\ sidecar' = [sidecar EXCEPT ![Target] = Amended(Head(todo).op, @)]
    <3>1. \A id \in DOMAIN sidecar :
              /\ HasBytes(sidecar'[id])
              /\ sidecar'[id].suffix = sidecar[id].suffix /\ sidecar'[id].size = sidecar[id].size
      BY <2>1, <2>2, AmendedKeeps DEF StoreInv
    <3>2. QED  BY <2>1, <2>2, <3>1, InvAmended DEF StoreInv
  <2>3. CASE NextAction /\ sidecar' = sidecar
    BY <2>1, <2>3, InvBetween DEF NextAction
  <2>4. QED  BY <1>1, <2>2, <2>3 DEF AmendSidecar
<1>2. CASE FlushSidecar
  <2>1. pc = "act" /\ index' = index
    BY <1>2 DEF FlushSidecar, Acting
  <2>2. CASE /\ Target \in DOMAIN sidecar /\ pc' = "flushed"
             /\ sidecar' = [sidecar EXCEPT ![Target].played = Head(todo).played]
    <3>1. \A id \in DOMAIN sidecar :
              /\ HasBytes(sidecar'[id])
              /\ sidecar'[id].suffix = sidecar[id].suffix /\ sidecar'[id].size = sidecar[id].size
      BY <2>2 DEF StoreInv, HasBytes
    <3>2. QED  BY <2>1, <2>2, <3>1, InvAmended DEF StoreInv
  <2>3. CASE NextAction /\ sidecar' = sidecar
    BY <2>1, <2>3, InvBetween DEF NextAction
  <2>4. QED  BY <1>2, <2>2, <2>3 DEF FlushSidecar
<1>3. CASE FlushIndex
  <2>1. /\ pc = "flushed" /\ pc' = "act" /\ sidecar' = sidecar
        /\ index' = IF Target \in DOMAIN index /\ index[Target].played = Head(todo).played
                    THEN [index EXCEPT ![Target].dirty = FALSE] ELSE index
    BY <1>3 DEF FlushIndex, NextAction
  <2>2. \A id \in DOMAIN index :
            /\ HasBytes(index'[id])
            /\ index'[id].suffix = index[id].suffix /\ index'[id].size = index[id].size
    BY <2>1 DEF StoreInv, HasBytes
  <2>3. QED  BY <2>1, <2>2, InvAmended DEF StoreInv
<1>4. QED  BY <1>1, <1>2, <1>3

\* The step that follows a pin or a stale mark on the disk: the action in hand
\* is still the one that was begun.
LEMMA InvAmendIndex == StoreInv /\ AmendIndex => StoreInv'
<1> SUFFICES ASSUME StoreInv, AmendIndex PROVE StoreInv'
  OBVIOUS
<1>1. /\ pc = "amend" /\ pc' = "act" /\ sidecar' = sidecar
      /\ index' = IF Target \in DOMAIN index
                  THEN [index EXCEPT ![Target] = Amended(Head(todo).op, @)] ELSE index
      /\ Head(todo).op \in Amendments
  BY DEF AmendIndex, NextAction, StoreInv
<1>2. QED  BY <1>1, InvAmended, AmendedKeeps DEF StoreInv

LEMMA InvDownload ==
    ASSUME StoreInv, YieldDownload \/ WaitOut \/ StartDownload \/ EndFetch \/ CommitRename
    PROVE  StoreInv'
<1>1. UNCHANGED <<sidecar, index>>
  BY DEF YieldDownload, WaitOut, StartDownload, EndFetch, CommitRename
<1>2. pc \in {"act", "fetch", "rename"} /\ pc' \in {"act", "fetch", "rename", "publish"}
  BY DEF YieldDownload, WaitOut, StartDownload, EndFetch, CommitRename, Acting, NextAction
<1>3. QED  BY <1>1, <1>2, InvBetween

LEMMA InvCommit ==
    ASSUME StoreInv, CommitSidecar \/ CommitSupersede \/ CommitIndex
    PROVE  StoreInv'
<1>1. CASE CommitSidecar
  <2>1. pc = "publish" /\ index' = index
    BY <1>1 DEF CommitSidecar
  <2>2. CASE /\ sidecar' = MapWith(sidecar, job.song.id,
                    [suffix |-> job.song.suffix, size |-> job.song.size, created |-> job.song.created,
                     pinned |-> job.pinned, stale |-> FALSE, played |-> job.at])
             /\ pc' = "supersede" /\ job' = job
    BY <2>1, <2>2 DEF StoreInv, Held, Removing, Replacing, MapWith, HasBytes
  <2>3. CASE NextAction /\ sidecar' = sidecar
    BY <2>1, <2>3, InvBetween DEF NextAction
  <2>4. QED  BY <1>1, <2>2, <2>3 DEF CommitSidecar
<1>2. CASE CommitSupersede
  BY <1>2 DEF CommitSupersede, StoreInv, Held, Removing, Replacing, HasBytes
<1>3. CASE CommitIndex
  BY <1>3 DEF CommitIndex, NextAction, StoreInv, Held, Removing, Replacing, MapWith, HasBytes
<1>4. QED  BY <1>1, <1>2, <1>3
-----------------------------------------------------------------------------
(* The player, the clients and the world. *)

LEMMA InvResolve ==
    ASSUME StoreInv, NEW p, Resolve(p), UNCHANGED <<sidecar, pc, todo, job>>
    PROVE  StoreInv'
<1> DEFINE id == Rows[p]
<1>1. \/ index' = index
      \/ id \in DOMAIN index /\ index' = [index EXCEPT ![id].played = now', ![id].dirty = TRUE]
  BY DEF Resolve, Offered
<1>2. DOMAIN index' = DOMAIN index /\ \A i \in DOMAIN index :
          /\ HasBytes(index'[i])
          /\ index'[i].suffix = index[i].suffix /\ index'[i].size = index[i].size
  BY <1>1 DEF StoreInv, HasBytes
<1>3. QED  BY <1>2, InvAmended DEF StoreInv

LEMMA InvPlayFails == StoreInv /\ PlayFails => StoreInv'
<1> SUFFICES ASSUME StoreInv, PlayFails PROVE StoreInv'
  OBVIOUS
<1> DEFINE id == Rows[playing.row]
<1>1. \/ index' = index
      \/ id \in DOMAIN index /\ index' = [index EXCEPT ![id].suspect = TRUE]
  BY DEF PlayFails
<1>2. DOMAIN index' = DOMAIN index /\ \A i \in DOMAIN index :
          /\ HasBytes(index'[i])
          /\ index'[i].suffix = index[i].suffix /\ index'[i].size = index[i].size
  BY <1>1 DEF StoreInv, HasBytes
<1>3. UNCHANGED <<sidecar, pc, todo, job>>
  BY DEF PlayFails, Meanwhile, diskVars, passVars
<1>4. QED  BY <1>2, <1>3, InvAmended DEF StoreInv

\* A new process agrees with its disk, whenever the old one died.
LEMMA InvCrash == StoreInv /\ Crash => StoreInv'
<1> SUFFICES ASSUME StoreInv, Crash PROVE StoreInv'
  OBVIOUS
<1>1. /\ sidecar' = [id \in Scanned |-> sidecar[id]]
      /\ index' = [id \in Scanned |-> ScanEntry(id)]
      /\ pc' = "begin"
  BY DEF Crash, Boot
<1>2. Scanned \subseteq DOMAIN sidecar
  BY DEF Scanned
<1>3. QED  BY <1>1, <1>2, ScanAgrees DEF StoreInv, Held

LEMMA InvWorld == StoreInv /\ World => StoreInv'
<1> SUFFICES ASSUME StoreInv, World PROVE StoreInv'
  OBVIOUS
<1>1. CASE \E p \in DOMAIN Rows : Play(p) \/ Skip(p)
  BY <1>1, InvResolve DEF Play, Skip, Meanwhile, diskVars, passVars
<1>2. CASE Arrive \/ Stop \/ SetPaused \/ Flap \/ Squeeze \/ (\E g \in DOMAIN Catalog : Star(g))
           \/ (\E id \in Id : Drift(id))
  BY <1>2, InvElsewhere
     DEF Arrive, Stop, SetPaused, Flap, Squeeze, Star, Drift, Meanwhile,
         diskVars, indexVars, passVars
<1>3. CASE PlayFails
  BY <1>3, InvPlayFails
<1>4. CASE Crash
  BY <1>4, InvCrash
<1>5. QED  BY <1>1, <1>2, <1>3, <1>4 DEF World
-----------------------------------------------------------------------------
LEMMA InvNext == StoreInv /\ [StoreNext]_vars => StoreInv'
<1> SUFFICES ASSUME StoreInv, [StoreNext]_vars PROVE StoreInv'
  OBVIOUS
<1>1. CASE Reconciler
  BY <1>1, InvWaiting, InvScan, InvRemove, InvAmend, InvAmendIndex, InvDownload, InvCommit
     DEF Reconciler
<1>2. CASE MakePlan \/ Tick
  BY <1>2, InvWaiting
<1>3. CASE World
  BY <1>3, InvWorld
<1>4. CASE UNCHANGED vars
  BY <1>4, InvElsewhere DEF vars, diskVars, indexVars, passVars
<1>5. QED  BY <1>1, <1>2, <1>3, <1>4 DEF StoreNext

\* store.rs writes a commit and a removal as a file, a sidecar and an index entry,
\* and lets a crash or a refusal come between any two: what playback is offered
\* would be found by the next start all the same.
THEOREM OfferedStaysCommitted == StoreSpec => []OfferedIsCommitted
<1>1. StoreSpec => []StoreInv
  BY InvInit, InvNext, PTL DEF StoreSpec
<1>2. QED  BY <1>1, InvOffered, PTL
-----------------------------------------------------------------------------
(***************************************************************************)
(* Bytes a play has failed on stay out.  The mark lives in the index       *)
(* alone, so the argument is about what forgets the index: a scan that     *)
(* finds a pair the index does not know.  As long as no commit is refused  *)
(* its sidecar, such a pair belongs to the commit under way, whose bytes   *)
(* are new.                                                                *)
(***************************************************************************)

\* Each file is a download of its own, and the one being played or opened is of
\* the row's song.
CopyInv ==
    /\ IsFiniteSet(DOMAIN audio) /\ IsFiniteSet(bad)
    /\ \A f \in DOMAIN audio : f # << >> /\ audio[f].copy \in Nat \ {0}
    /\ \A f, g \in DOMAIN audio : audio[f].copy = audio[g].copy => f = g
    /\ going.file # << >> => going.file[1] = Rows[going.row]
    /\ playing.copy # 0 => playing.local
    /\ \A f \in DOMAIN audio : audio[f].copy = playing.copy => f[1] = Rows[playing.row]

\* A commit of the song is under way, past its rename.
Committing(id) == pc \in {"publish", "supersede", "offer"} /\ job.song.id = id

\* The file an entry is for holds bytes a play has failed on since their commit.
HasBadBytes(id, suffix) ==
    <<id, suffix>> \in DOMAIN audio /\ audio[<<id, suffix>>].copy \in bad \ early

\* Bad bytes are marked where they are indexed; a pair the index does not know
\* belongs to the commit under way; and the bytes of a commit have failed
\* early, if at all.
MarkInv ==
    /\ \A id \in DOMAIN index : "suspect" \in DOMAIN index[id]
    /\ \A id \in DOMAIN index : HasBadBytes(id, index[id].suffix) => index[id].suspect
    /\ \A id \in DOMAIN sidecar \ DOMAIN index : ValidPair(id) => Committing(id)
    /\ pc \in {"publish", "supersede", "offer"} => ~HasBadBytes(job.song.id, job.song.suffix)
    /\ pc = "unindex" => Target \notin DOMAIN sidecar

\* A commit whose sidecar is written: it goes on to the old file.
Published == CommitSidecar => pc' = "supersede"

LEMMA MarksSuffice == MarkInv => BadBytesStayOut
BY DEF MarkInv, BadBytesStayOut, Offered, HasBadBytes
-----------------------------------------------------------------------------
\* A non-empty set of numbers has a least one.
LEMMA LeastCopy ==
    ASSUME NEW S \in SUBSET Nat, S # {}
    PROVE  \E k \in S : \A y \in S : k <= y
<1>1. PICK k \in S : \A y \in S : ~(<<y, k>> \in OpToRel(<, Nat))
  BY NatLessThanWellFounded, WFMin
<1>2. \A y \in S : ~(y < k)
  BY <1>1 DEF OpToRel
<1>3. QED  BY <1>2

\* There is always a number that no copy of interest has.
LEMMA FreshIsFresh ==
    ASSUME CopyInv
    PROVE  FreshCopy \in Nat \ {0} /\ FreshCopy \notin UsedCopies
<1> DEFINE copyOf == [f \in DOMAIN audio |-> audio[f].copy]
           copies == {audio[f].copy : f \in DOMAIN audio}
           n == Cardinality(UsedCopies)
           free == (1..(n + 1)) \ UsedCopies
<1>1. copyOf \in Surjection(DOMAIN audio, copies)
  BY DEF Surjection
<1>2. IsFiniteSet(copies)
  BY <1>1, FS_Surjection DEF CopyInv
<1>3. IsFiniteSet({playing.copy})
  BY FS_Singleton
<1>4. IsFiniteSet(copies \cup bad)
  BY <1>2, FS_Union DEF CopyInv
<1>5. IsFiniteSet(UsedCopies)
  BY <1>3, <1>4, FS_Union DEF UsedCopies
<1>6. n \in Nat
  BY <1>5, FS_CardinalityType
<1>7. free # {}
  <2>1. Cardinality(1..(n + 1)) = n + 1
    BY <1>6, FS_Interval
  <2>2. ASSUME 1..(n + 1) \subseteq UsedCopies PROVE FALSE
    <3>1. n + 1 <= n
      BY <1>5, <2>1, <2>2, FS_Subset
    <3>2. QED  BY <1>6, <3>1
  <2>3. QED  BY <2>2
<1>8. free \subseteq Nat
  BY <1>6
<1>9. PICK k \in free : \A y \in free : k <= y
  BY <1>7, <1>8, LeastCopy
<1> HIDE DEF free
<1>10. Min(free) \in free
  BY <1>9 DEF Min
<1>11. FreshCopy = Min(free)
  BY DEF FreshCopy, free
<1>12. QED  BY <1>6, <1>10, <1>11 DEF free
\* Steps that touch no file and play nothing.
LEMMA CopyElsewhere ==
    ASSUME CopyInv, UNCHANGED <<audio, bad, playing, going>>
    PROVE  CopyInv'
BY DEF CopyInv

\* Files go, and none is replaced.
Fewer == DOMAIN audio' \subseteq DOMAIN audio /\ \A f \in DOMAIN audio' : audio'[f] = audio[f]

LEMMA WithoutIsFewer == ASSUME NEW fs, audio' = MapWithout(audio, fs) PROVE Fewer
BY DEF MapWithout, Fewer

LEMMA CopyFewer ==
    ASSUME CopyInv, Fewer,
           \/ UNCHANGED <<bad, playing, going>>
           \/ bad' = {} /\ playing' = Silence /\ going' = Nowhere
    PROVE  CopyInv'
<1>1. IsFiniteSet(DOMAIN audio') /\ IsFiniteSet(bad')
  BY FS_Subset, FS_EmptySet DEF CopyInv, Fewer
<1>2. QED  BY <1>1 DEF CopyInv, Fewer, Silence, Nowhere

LEMMA CopyRename == CopyInv /\ CommitRename => CopyInv'
<1> SUFFICES ASSUME CopyInv, CommitRename PROVE CopyInv'
  OBVIOUS
<1> DEFINE g == <<job.song.id, job.song.suffix>>
<1>1. /\ DOMAIN audio' = DOMAIN audio \cup {g}
      /\ audio'[g].copy = FreshCopy
      /\ \A f \in DOMAIN audio : f # g => audio'[f] = audio[f]
  BY DEF CommitRename, MapWith
<1>2. UNCHANGED <<bad, playing, going>>
  BY DEF CommitRename, Executing
<1>3. IsFiniteSet(DOMAIN audio')
  BY <1>1, FS_AddElement DEF CopyInv
<1>4. FreshCopy \in Nat \ {0} /\ FreshCopy # playing.copy
      /\ \A f \in DOMAIN audio : audio[f].copy # FreshCopy
  BY FreshIsFresh DEF UsedCopies
<1>5. g # << >>
  OBVIOUS
<1> HIDE DEF g
<1>6. QED  BY <1>1, <1>2, <1>3, <1>4, <1>5 DEF CopyInv

LEMMA CopyWorld == CopyInv /\ World => CopyInv'
<1> SUFFICES ASSUME CopyInv, World PROVE CopyInv'
  OBVIOUS
<1>1. ASSUME NEW p \in DOMAIN Rows, Play(p) \/ Skip(p) PROVE CopyInv'
  BY <1>1 DEF CopyInv, Play, Skip, Resolve, Meanwhile, diskVars
<1>2. CASE Arrive
  <2>1. UNCHANGED <<audio, bad>> /\ going' = Nowhere
        /\ playing' = [row |-> going.row, local |-> going.file # << >>,
                       copy |-> IF going.file \in DOMAIN audio THEN audio[going.file].copy ELSE 0]
    BY <1>2 DEF Arrive, Meanwhile, diskVars
  <2>2. QED  BY <2>1 DEF CopyInv, Nowhere
<1>3. CASE PlayFails
  <2>1. UNCHANGED <<audio, going>> /\ playing' = Silence
        /\ bad' \subseteq bad \cup {playing.copy}
    BY <1>3 DEF PlayFails, Meanwhile, diskVars
  <2>2. IsFiniteSet(bad')
    BY <2>1, FS_AddElement, FS_Subset DEF CopyInv
  <2>3. QED  BY <2>1, <2>2 DEF CopyInv, Silence
<1>4. CASE Stop
  BY <1>4 DEF CopyInv, Stop, Silence, Meanwhile, diskVars
<1>5. CASE SetPaused \/ Flap \/ Squeeze \/ (\E g \in DOMAIN Catalog : Star(g))
           \/ (\E id \in Id : Drift(id))
  BY <1>5, CopyElsewhere
     DEF SetPaused, Flap, Squeeze, Star, Drift, Meanwhile, diskVars
<1>6. CASE Crash
  BY <1>6, CopyFewer DEF Crash, Boot, Fewer
<1>7. QED  BY <1>1, <1>2, <1>3, <1>4, <1>5, <1>6 DEF World

LEMMA CopyNext == CopyInv /\ [StoreNext]_vars => CopyInv'
<1> SUFFICES ASSUME CopyInv, [StoreNext]_vars PROVE CopyInv'
  OBVIOUS
<1>1. CASE SweepLoose \/ RemoveAudio \/ CommitSupersede
  <2>1. UNCHANGED <<bad, playing, going>>
    BY <1>1 DEF SweepLoose, RemoveAudio, CommitSupersede, Executing
  <2>2. Fewer
    BY <1>1, WithoutIsFewer DEF SweepLoose, RemoveAudio, CommitSupersede, Fewer
  <2>3. QED  BY <2>1, <2>2, CopyFewer
<1>2. CASE CommitRename
  BY <1>2, CopyRename
<1>3. CASE \/ Kicked \/ Tick \/ BeginPass \/ Scan \/ AskPins \/ MakePlan \/ EndPass
           \/ RemoveSidecar \/ RemoveFromIndex \/ AmendSidecar \/ AmendIndex
           \/ FlushSidecar \/ FlushIndex \/ YieldDownload \/ WaitOut \/ StartDownload
           \/ EndFetch \/ CommitSidecar \/ CommitIndex
  <2>1. UNCHANGED <<audio, bad, playing, going>>
    BY <1>3 DEF Kicked, Tick, BeginPass, Scan, AskPins, MakePlan, EndPass, Unplanned,
         RemoveSidecar, RemoveFromIndex, AmendSidecar, AmendIndex, FlushSidecar, FlushIndex,
         YieldDownload, WaitOut, StartDownload, EndFetch, CommitSidecar, CommitIndex,
         Executing, diskVars, worldVars
  <2>2. QED  BY <2>1, CopyElsewhere
<1>4. CASE World
  BY <1>4, CopyWorld
<1>5. CASE UNCHANGED vars
  BY <1>5, CopyElsewhere DEF vars, diskVars, worldVars
<1>6. QED  BY <1>1, <1>2, <1>3, <1>4, <1>5 DEF StoreNext, Reconciler
-----------------------------------------------------------------------------
CommitSteps == {"publish", "supersede", "offer"}

\* Steps that touch neither files nor maps nor the operation in hand.
LEMMA MarkElsewhere ==
    ASSUME MarkInv, UNCHANGED <<audio, sidecar, index, bad, early, pc, todo, job>>
    PROVE  MarkInv'
BY DEF MarkInv, HasBadBytes, ValidPair, Committing, Target

\* Steps outside a commit and a removal that at most take files away.
LEMMA MarkBetween ==
    ASSUME MarkInv, UNCHANGED <<sidecar, index, bad, early>>, Fewer,
           pc \notin CommitSteps, pc' \notin CommitSteps \cup {"unindex"}
    PROVE  MarkInv'
BY DEF MarkInv, HasBadBytes, ValidPair, Committing, Fewer, CommitSteps

\* Steps that amend entries and sidecars in what neither bytes nor marks are.
LEMMA MarkAmended ==
    ASSUME MarkInv, UNCHANGED <<audio, bad, early>>,
           DOMAIN sidecar' = DOMAIN sidecar, DOMAIN index' = DOMAIN index,
           \A id \in DOMAIN sidecar :
               sidecar'[id].suffix = sidecar[id].suffix /\ sidecar'[id].size = sidecar[id].size,
           \A id \in DOMAIN index :
               /\ "suspect" \in DOMAIN index'[id]
               /\ index'[id].suffix = index[id].suffix /\ index'[id].suspect = index[id].suspect,
           \/ UNCHANGED <<pc, todo, job>>
           \/ pc \notin CommitSteps /\ pc' \notin CommitSteps \cup {"unindex"}
    PROVE  MarkInv'
BY DEF MarkInv, HasBadBytes, ValidPair, Committing, CommitSteps, Target

\* A scan keeps the marks of what it finds again; what it finds for the first
\* time is none that was played.
LEMMA MarkScan == StoreInv /\ MarkInv /\ Scan => MarkInv'
<1> SUFFICES ASSUME StoreInv, MarkInv, Scan PROVE MarkInv'
  OBVIOUS
<1>1. /\ pc = "scan" /\ pc' = "pins" /\ index' = Resync
      /\ UNCHANGED <<audio, sidecar, bad, early>>
  BY DEF Scan, diskVars, worldVars
<1>2. DOMAIN index' = Scanned /\ Scanned \subseteq DOMAIN sidecar
  BY <1>1 DEF Resync, Scanned
<1>3. \A id \in Scanned : ValidPair(id)
  BY DEF Scanned
<1>4. Scanned \subseteq DOMAIN index
  BY <1>1, <1>2, <1>3 DEF MarkInv, Committing
<1>5. ASSUME NEW id \in Scanned
      PROVE  /\ "suspect" \in DOMAIN index'[id]
             /\ index'[id].suffix = index[id].suffix /\ index'[id].suspect = index[id].suspect
  <2> DEFINE e == ScanEntry(id)
             old == index[id]
  <2>1. \/ index'[id] = [e EXCEPT !.suspect = old.suspect, !.played = old.played, !.dirty = TRUE]
        \/ index'[id] = [e EXCEPT !.suspect = old.suspect]
    BY <1>1, <1>4 DEF Resync
  <2>2. "suspect" \in DOMAIN e /\ "suffix" \in DOMAIN e
    BY DEF ScanEntry
  <2>3. e.suffix = old.suffix
    BY <1>1, <1>4, ScanAgrees DEF StoreInv, Held, Removing, Replacing
  <2> HIDE DEF e, old
  <2>4. QED  BY <2>1, <2>2, <2>3 DEF old
<1>6. \A id \in DOMAIN sidecar \ Scanned : ~ValidPair(id)
  BY DEF Scanned
<1>7. QED  BY <1>1, <1>2, <1>4, <1>5, <1>6 DEF MarkInv, HasBadBytes, ValidPair

LEMMA MarkRemove ==
    ASSUME MarkInv, RemoveSidecar \/ RemoveFromIndex
    PROVE  MarkInv'
<1>1. UNCHANGED <<audio, bad, early>>
  BY DEF RemoveSidecar, RemoveFromIndex, Executing
<1>2. CASE RemoveSidecar
  <2>1. pc = "act" /\ index' = index
    BY <1>2 DEF RemoveSidecar, Acting
  <2>2. CASE sidecar' = MapWithout(sidecar, {Target}) /\ pc' = "unindex" /\ UNCHANGED <<todo, job, left>>
    BY <1>1, <2>1, <2>2 DEF MarkInv, HasBadBytes, ValidPair, Committing, MapWithout, Target
  <2>3. CASE NextAction /\ sidecar' = sidecar
    BY <1>1, <2>1, <2>3, MarkBetween DEF NextAction, Fewer, CommitSteps
  <2>4. QED  BY <1>2, <2>2, <2>3 DEF RemoveSidecar
<1>3. CASE RemoveFromIndex
  <2>1. /\ pc = "unindex" /\ pc' = "unlink" /\ sidecar' = sidecar
        /\ index' = MapWithout(index, {Target})
    BY <1>3 DEF RemoveFromIndex
  <2>2. QED  BY <1>1, <2>1 DEF MarkInv, HasBadBytes, ValidPair, Committing, MapWithout
<1>4. QED  BY <1>2, <1>3

LEMMA AmendedKeepsMark ==
    ASSUME NEW op \in Amendments, NEW s, "suspect" \in DOMAIN s
    PROVE  /\ "suspect" \in DOMAIN Amended(op, s)
           /\ Amended(op, s).suffix = s.suffix /\ Amended(op, s).suspect = s.suspect
BY DEF Amended, Amendments

\* A pin, a stale mark, a flush.
LEMMA MarkAmend ==
    ASSUME StoreInv, MarkInv, AmendSidecar \/ AmendIndex \/ FlushSidecar \/ FlushIndex
    PROVE  MarkInv'
<1>1. UNCHANGED <<audio, bad, early>>
  BY DEF AmendSidecar, AmendIndex, FlushSidecar, FlushIndex, Executing
<1>2. pc \notin CommitSteps /\ pc' \notin CommitSteps \cup {"unindex"}
  BY DEF AmendSidecar, AmendIndex, FlushSidecar, FlushIndex, Acting, NextAction, CommitSteps
<1>3. DOMAIN sidecar' = DOMAIN sidecar /\ \A id \in DOMAIN sidecar :
          sidecar'[id].suffix = sidecar[id].suffix /\ sidecar'[id].size = sidecar[id].size
  <2>1. CASE sidecar' = sidecar
    BY <2>1
  <2>2. CASE AmendSidecar /\ sidecar' # sidecar
    <3>1. /\ Target \in DOMAIN sidecar /\ Head(todo).op \in Amendments
          /\ sidecar' = [sidecar EXCEPT ![Target] = Amended(Head(todo).op, @)]
      BY <2>2 DEF AmendSidecar, Acting, Amendments
    <3>2. QED  BY <3>1, AmendedKeeps DEF StoreInv
  <2>3. CASE FlushSidecar /\ sidecar' # sidecar
    BY <2>3 DEF FlushSidecar, StoreInv, HasBytes
  <2>4. QED  BY <2>1, <2>2, <2>3 DEF AmendIndex, FlushIndex
<1>4. DOMAIN index' = DOMAIN index /\ \A id \in DOMAIN index :
          /\ "suspect" \in DOMAIN index'[id]
          /\ index'[id].suffix = index[id].suffix /\ index'[id].suspect = index[id].suspect
  <2>1. CASE index' = index
    BY <2>1 DEF MarkInv
  <2>2. CASE AmendIndex /\ index' # index
    <3>1. /\ Head(todo).op \in Amendments
          /\ index' = [index EXCEPT ![Target] = Amended(Head(todo).op, @)]
      BY <2>2 DEF AmendIndex, StoreInv
    <3>2. QED  BY <3>1, AmendedKeepsMark DEF MarkInv, StoreInv
  <2>3. CASE FlushIndex /\ index' # index
    <3>1. index' = [index EXCEPT ![Target].dirty = FALSE]
      BY <2>3 DEF FlushIndex
    <3>2. QED  BY <3>1 DEF MarkInv, StoreInv, HasBytes
  <2>4. QED  BY <2>1, <2>2, <2>3 DEF AmendSidecar, FlushSidecar
<1>5. QED  BY <1>1, <1>2, <1>3, <1>4, MarkAmended

\* The bytes of a commit are new.
LEMMA MarkRename == CopyInv /\ MarkInv /\ CommitRename => MarkInv'
<1> SUFFICES ASSUME CopyInv, MarkInv, CommitRename PROVE MarkInv'
  OBVIOUS
<1> DEFINE g == <<job.song.id, job.song.suffix>>
<1>1. /\ DOMAIN audio' = DOMAIN audio \cup {g}
      /\ audio'[g].copy = FreshCopy
      /\ \A f \in DOMAIN audio : f # g => audio'[f] = audio[f]
  BY DEF CommitRename, MapWith
<1>2. /\ pc = "rename" /\ pc' = "publish" /\ UNCHANGED <<sidecar, index, bad, early>>
      /\ job'.song = job.song
  BY DEF CommitRename, Executing
<1>3. FreshCopy \notin bad
  BY FreshIsFresh DEF UsedCopies
<1>4. \A id, s : <<id, s>> = g <=> id = job.song.id /\ s = job.song.suffix
  OBVIOUS
<1> HIDE DEF g
<1>5. \A id, s : HasBadBytes(id, s)' <=> HasBadBytes(id, s) /\ <<id, s>> # g
  BY <1>1, <1>2, <1>3 DEF HasBadBytes
<1>6. \A id \in DOMAIN sidecar : id # job.song.id => (ValidPair(id)' <=> ValidPair(id))
  <2> SUFFICES ASSUME NEW id \in DOMAIN sidecar, id # job.song.id
               PROVE  ValidPair(id)' <=> ValidPair(id)
    OBVIOUS
  <2> DEFINE f == <<id, sidecar[id].suffix>>
  <2>1. f # g
    BY <1>4
  <2>2. (f \in DOMAIN audio' <=> f \in DOMAIN audio) /\ (f \in DOMAIN audio => audio'[f] = audio[f])
    BY <1>1, <2>1
  <2>3. QED  BY <1>2, <2>2 DEF ValidPair
<1>7. ~HasBadBytes(job.song.id, job.song.suffix)'
  BY <1>1, <1>2, <1>3 DEF HasBadBytes, g
<1>8. QED  BY <1>2, <1>5, <1>6, <1>7 DEF MarkInv, Committing

LEMMA MarkCommit ==
    ASSUME StoreInv, MarkInv, Published, CommitSidecar \/ CommitSupersede \/ CommitIndex
    PROVE  MarkInv'
<1>1. UNCHANGED <<bad, early>>
  BY DEF CommitSidecar, CommitSupersede, CommitIndex, Executing
<1>2. CASE CommitSidecar
  <2>1. /\ pc = "publish" /\ pc' = "supersede" /\ UNCHANGED <<audio, index, job>>
        /\ sidecar' = MapWith(sidecar, job.song.id,
                    [suffix |-> job.song.suffix, size |-> job.song.size, created |-> job.song.created,
                     pinned |-> job.pinned, stale |-> FALSE, played |-> job.at])
    BY <1>2 DEF CommitSidecar, Published, NextAction
  <2>2. QED  BY <1>1, <2>1 DEF MarkInv, HasBadBytes, ValidPair, Committing, MapWith
<1>3. CASE CommitSupersede
  <2>1. pc = "supersede" /\ pc' = "offer" /\ UNCHANGED <<index, sidecar, job>>
    BY <1>3 DEF CommitSupersede
  <2>2. Fewer
    BY <1>3, WithoutIsFewer DEF CommitSupersede
  <2>3. QED  BY <1>1, <2>1, <2>2 DEF MarkInv, HasBadBytes, ValidPair, Committing, Fewer
<1>4. CASE CommitIndex
  <2>1. /\ pc = "offer" /\ pc' = "act" /\ UNCHANGED <<audio, sidecar>>
        /\ index' = MapWith(index, job.song.id,
             [suffix |-> job.song.suffix, size |-> job.song.size, created |-> job.song.created,
              pinned |-> job.pinned, stale |-> FALSE, suspect |-> FALSE, played |-> job.at, dirty |-> FALSE])
    BY <1>4 DEF CommitIndex, NextAction
  <2>2. DOMAIN index' = DOMAIN index \cup {job.song.id}
        /\ "suspect" \in DOMAIN index'[job.song.id]
        /\ index'[job.song.id].suffix = job.song.suffix
        /\ \A id \in DOMAIN index : id # job.song.id => index'[id] = index[id]
    BY <2>1 DEF MapWith
  <2>3. QED  BY <1>1, <2>1, <2>2 DEF MarkInv, HasBadBytes, ValidPair, Committing
<1>5. QED  BY <1>2, <1>3, <1>4
-----------------------------------------------------------------------------
\* A play that fails marks the entry of what it played, if there is one.
LEMMA MarkPlayFails == CopyInv /\ MarkInv /\ PlayFails => MarkInv'
<1> SUFFICES ASSUME CopyInv, MarkInv, PlayFails PROVE MarkInv'
  OBVIOUS
<1> DEFINE id == Rows[playing.row]
           marks == playing.local /\ id \in DOMAIN index /\ ~index[id].suspect
           copies == {audio[f].copy : f \in DOMAIN audio}
<1>1. UNCHANGED <<audio, sidecar, pc, todo, job>>
  BY DEF PlayFails, Meanwhile, diskVars, passVars
<1>2. index' = IF marks THEN [index EXCEPT ![id].suspect = TRUE] ELSE index
  BY DEF PlayFails
<1>3. /\ bad' = (bad \cup {playing.copy}) \cap copies
      /\ early' = ((early \ {playing.copy}) \cup ({playing.copy} \cap Arriving)) \cap copies
  BY DEF PlayFails
<1>4. DOMAIN index' = DOMAIN index /\ \A i \in DOMAIN index :
          /\ "suspect" \in DOMAIN index'[i]
          /\ index'[i].suffix = index[i].suffix
          /\ index[i].suspect => index'[i].suspect
  BY <1>2 DEF MarkInv
<1>5. \A i, s : HasBadBytes(i, s)' =>
          \/ HasBadBytes(i, s)
          \/ /\ playing.copy # 0 /\ i = id
             /\ audio[<<i, s>>].copy = playing.copy /\ playing.copy \notin Arriving
  <2> SUFFICES ASSUME NEW i, NEW s, HasBadBytes(i, s)', ~HasBadBytes(i, s)
               PROVE  /\ playing.copy # 0 /\ i = id
                      /\ audio[<<i, s>>].copy = playing.copy /\ playing.copy \notin Arriving
    OBVIOUS
  <2> DEFINE c == audio[<<i, s>>].copy
  <2>1. <<i, s>> \in DOMAIN audio /\ c \in bad' /\ c \notin early' /\ ~(c \in bad /\ c \notin early)
    BY <1>1 DEF HasBadBytes
  <2>2. c \in copies
    BY <2>1
  <2>3. c = playing.copy /\ playing.copy \notin Arriving
    <3> HIDE DEF c, copies
    <3>1. QED  BY <1>3, <2>1, <2>2
  <2>4. <<i, s>>[1] = i
    OBVIOUS
  <2>5. QED  BY <2>1, <2>3, <2>4 DEF CopyInv
<1>6. playing.copy # 0 /\ id \in DOMAIN index => index'[id].suspect
  <2>1. playing.copy # 0 => playing.local
    BY DEF CopyInv
  <2>2. QED  BY <1>2, <2>1 DEF MarkInv
<1>7. \A i : Committing(i)' <=> Committing(i)
  BY <1>1 DEF Committing
<1>8. pc \in {"publish", "supersede", "offer"} => ~HasBadBytes(job.song.id, job.song.suffix)'
  <2>1. UNCHANGED <<pc, job>>
    BY <1>1
  <2>2. pc \in {"publish", "supersede", "offer"}
        => ~HasBadBytes(job.song.id, job.song.suffix)
           /\ audio[<<job.song.id, job.song.suffix>>].copy \in Arriving
    BY DEF MarkInv, Arriving
  <2>3. HasBadBytes(job.song.id, job.song.suffix)' <=>
        /\ <<job.song.id, job.song.suffix>> \in DOMAIN audio'
        /\ audio'[<<job.song.id, job.song.suffix>>].copy \in bad' \ early'
    BY <2>1 DEF HasBadBytes
  <2>4. \A f \in {<<job.song.id, job.song.suffix>>} :
            (f \in DOMAIN audio /\ audio[f].copy \in bad' \ early')
            => (audio[f].copy \in bad \ early \/ audio[f].copy \notin Arriving)
    BY <1>3
  <2>5. QED  BY <1>1, <2>1, <2>2, <2>3, <2>4 DEF HasBadBytes
<1> HIDE DEF id, marks, copies
<1>9. QED  BY <1>1, <1>4, <1>5, <1>6, <1>7, <1>8 DEF MarkInv, ValidPair, Target

LEMMA MarkWorld == StoreInv /\ CopyInv /\ MarkInv /\ World => MarkInv'
<1> SUFFICES ASSUME StoreInv, CopyInv, MarkInv, World PROVE MarkInv'
  OBVIOUS
<1>1. ASSUME NEW p \in DOMAIN Rows, Play(p) \/ Skip(p) PROVE MarkInv'
  <2> DEFINE id == Rows[p]
  <2>1. UNCHANGED <<audio, sidecar, bad, early, pc, todo, job>>
    BY <1>1 DEF Play, Skip, Meanwhile, diskVars, passVars
  <2>2. \/ index' = index
        \/ id \in DOMAIN index /\ index' = [index EXCEPT ![id].played = now', ![id].dirty = TRUE]
    BY <1>1 DEF Play, Skip, Resolve, Offered
  <2>3. DOMAIN index' = DOMAIN index /\ \A i \in DOMAIN index :
            /\ "suspect" \in DOMAIN index'[i]
            /\ index'[i].suffix = index[i].suffix /\ index'[i].suspect = index[i].suspect
    BY <2>2 DEF MarkInv, StoreInv, HasBytes
  <2>4. QED  BY <2>1, <2>3, MarkAmended
<1>2. CASE Arrive \/ Stop \/ SetPaused \/ Flap \/ Squeeze \/ (\E g \in DOMAIN Catalog : Star(g))
           \/ (\E id \in Id : Drift(id))
  BY <1>2, MarkElsewhere
     DEF Arrive, Stop, SetPaused, Flap, Squeeze, Star, Drift, Meanwhile,
         diskVars, indexVars, passVars
<1>3. CASE PlayFails
  BY <1>3, MarkPlayFails
<1>4. CASE Crash
  <2>1. /\ sidecar' = [id \in Scanned |-> sidecar[id]]
        /\ index' = [id \in Scanned |-> ScanEntry(id)]
        /\ pc' = "begin" /\ bad' = {}
    BY <1>4 DEF Crash, Boot
  <2>2. \A id : "suspect" \in DOMAIN ScanEntry(id)
    BY DEF ScanEntry
  <2>3. QED  BY <2>1, <2>2 DEF MarkInv, HasBadBytes
<1>5. QED  BY <1>1, <1>2, <1>3, <1>4 DEF World

LEMMA MarkNext ==
    StoreInv /\ CopyInv /\ MarkInv /\ [StoreNext]_vars /\ [Published]_vars => MarkInv'
<1> SUFFICES ASSUME StoreInv, CopyInv, MarkInv, [StoreNext]_vars, [Published]_vars
             PROVE  MarkInv'
  OBVIOUS
<1>1. CASE Kicked \/ Tick \/ BeginPass \/ AskPins \/ MakePlan \/ EndPass
  <2>1. UNCHANGED <<audio, sidecar, index, bad, early>>
    BY <1>1 DEF Kicked, Tick, BeginPass, AskPins, MakePlan, EndPass, Unplanned,
         diskVars, indexVars, worldVars
  <2>2. pc \notin CommitSteps /\ pc' \notin CommitSteps \cup {"unindex"}
    BY <1>1 DEF Kicked, Tick, BeginPass, AskPins, MakePlan, EndPass, CommitSteps
  <2>3. QED  BY <2>1, <2>2, MarkBetween DEF Fewer
<1>2. CASE Scan
  BY <1>2, MarkScan
<1>3. CASE SweepLoose \/ RemoveAudio
  <2>1. UNCHANGED <<sidecar, index, bad, early>>
    BY <1>3 DEF SweepLoose, RemoveAudio, Executing
  <2>2. pc \notin CommitSteps /\ pc' \notin CommitSteps \cup {"unindex"}
    BY <1>3 DEF SweepLoose, RemoveAudio, Acting, NextAction, CommitSteps
  <2>3. Fewer
    BY <1>3, WithoutIsFewer DEF SweepLoose, RemoveAudio, Fewer
  <2>4. QED  BY <2>1, <2>2, <2>3, MarkBetween
<1>4. CASE RemoveSidecar \/ RemoveFromIndex
  BY <1>4, MarkRemove
<1>5. CASE AmendSidecar \/ AmendIndex \/ FlushSidecar \/ FlushIndex
  BY <1>5, MarkAmend
<1>6. CASE YieldDownload \/ WaitOut \/ StartDownload \/ EndFetch
  <2>1. UNCHANGED <<audio, sidecar, index, bad, early>>
    BY <1>6 DEF YieldDownload, WaitOut, StartDownload, EndFetch, Executing
  <2>2. pc \notin CommitSteps /\ pc' \notin CommitSteps \cup {"unindex"}
    BY <1>6 DEF YieldDownload, WaitOut, StartDownload, EndFetch, Acting, NextAction, CommitSteps
  <2>3. QED  BY <2>1, <2>2, MarkBetween DEF Fewer
<1>7. CASE CommitRename
  BY <1>7, MarkRename
<1>8. CASE CommitSidecar \/ CommitSupersede \/ CommitIndex
  <2>1. Published
    <3>1. CASE UNCHANGED vars
      BY <1>8, <3>1 DEF vars, passVars, CommitSidecar, CommitSupersede, CommitIndex, NextAction,
           Published
    <3>2. QED  BY <3>1
  <2>2. QED  BY <1>8, <2>1, MarkCommit
<1>9. CASE World
  BY <1>9, MarkWorld
<1>10. CASE UNCHANGED vars
  BY <1>10, MarkElsewhere DEF vars, diskVars, indexVars, passVars, worldVars
<1>11. QED
  BY <1>1, <1>2, <1>3, <1>4, <1>5, <1>6, <1>7, <1>8, <1>9, <1>10 DEF StoreNext, Reconciler

LEMMA MarkInit == StoreInit => CopyInv /\ MarkInv
<1> SUFFICES ASSUME StoreInit PROVE CopyInv /\ MarkInv
  OBVIOUS
<1>1. /\ audio = << >> /\ sidecar = << >> /\ index = << >> /\ pc = "begin"
      /\ playing = Silence /\ going = Nowhere /\ bad = {}
  BY DEF StoreInit
<1>2. DOMAIN audio = {} /\ DOMAIN sidecar = {} /\ DOMAIN index = {}
  BY <1>1
<1>3. IsFiniteSet({})
  BY FS_EmptySet
<1>4. QED  BY <1>1, <1>2, <1>3 DEF CopyInv, MarkInv, Silence, Nowhere

\* store.rs keeps the mark of a failed play in memory only, while passes, scans,
\* removals and half-done replacements rewrite what it marks: unless the file
\* system refuses a commit its sidecar, the bytes that failed are offered to no
\* later play of the process.
THEOREM BadBytesStayOutUnlessRefused ==
    StoreSpec /\ [][Published]_vars => []BadBytesStayOut
<1>1. StoreInit => StoreInv /\ CopyInv /\ MarkInv
  BY InvInit, MarkInit
<1>2. StoreInv /\ CopyInv /\ MarkInv /\ [StoreNext]_vars /\ [Published]_vars
      => (StoreInv /\ CopyInv /\ MarkInv)'
  BY InvNext, CopyNext, MarkNext
<1>3. StoreInv /\ CopyInv /\ MarkInv => BadBytesStayOut
  BY MarksSuffice
<1>4. QED  BY <1>1, <1>2, <1>3, PTL DEF StoreSpec
-----------------------------------------------------------------------------
(***************************************************************************)
(* What the budget arithmetic of StoreBudget promises, for every size of   *)
(* disk and every constant: the facts the comments of store.rs rest its    *)
(* anti-thrash argument on.                                                *)
(***************************************************************************)

\* The reserve is a size.
LEMMA ReserveIsNat ==
    ASSUME NEW total \in Nat
    PROVE  BudgetReserve(total) \in Nat
<1>1. total \div 100 \in Nat OBVIOUS
<1>2. (total \div 100) * ReservePct \in Nat
    <2>1. \A a, b \in Nat : a * b \in Nat OBVIOUS
    <2> QED BY <1>1, <2>1, BudgetAssumption
<1> QED BY <1>2, BudgetAssumption DEF BudgetReserve, Greatest

\* The budget of a measured disk is a size, at most the cap.
THEOREM BudgetUnderCap ==
    ASSUME NEW avail \in Nat, NEW total \in Nat, NEW own \in Nat, NEW configured \in Nat,
           avail <= total
    PROVE  DeriveBudget(avail, total, own, configured) \in 0..configured
<1> DEFINE reserve == BudgetReserve(total)
<1>1. reserve \in Nat BY ReserveIsNat
<1>2. SatSub(avail + own, reserve) \in Nat
    BY <1>1 DEF SatSub, Greatest
<1>3. DeriveBudget(avail, total, own, configured) = Least(configured, SatSub(avail + own, reserve))
    BY DEF DeriveBudget
<1> HIDE DEF reserve
<1> QED BY <1>2, <1>3 DEF Least

\* The store's own evictions and downloads do not move its budget (store.rs:1090):
\* bytes it frees become available, and the sum stays.
THEOREM OwnBytesDoNotMoveTheBudget ==
    ASSUME NEW avail \in Nat, NEW total \in Nat, NEW own \in Nat, NEW configured \in Nat,
           NEW freed \in Nat, freed <= own, avail + freed <= total
    PROVE  DeriveBudget(avail + freed, total, own - freed, configured)
             = DeriveBudget(avail, total, own, configured)
<1>1. avail <= total OBVIOUS
<1>2. (avail + freed) + (own - freed) = avail + own OBVIOUS
<1> QED BY <1>1, <1>2 DEF DeriveBudget

\* A store that fills its budget leaves the reserve free (store.rs:1082), unless
\* the budget is nothing at all, in which case it writes nothing.
THEOREM ReserveStaysFree ==
    ASSUME NEW avail \in Nat, NEW total \in Nat, NEW own \in Nat, NEW configured \in Nat,
           avail <= total,
           NEW filled \in Nat, filled <= DeriveBudget(avail, total, own, configured), filled > 0
    PROVE  (avail + own) - filled >= BudgetReserve(total)
<1> DEFINE reserve == BudgetReserve(total)
<1>1. reserve \in Nat BY ReserveIsNat
<1>2. filled <= Least(configured, SatSub(avail + own, reserve)) BY DEF DeriveBudget
<1>3. SatSub(avail + own, reserve) \in Nat BY <1>1 DEF SatSub, Greatest
<1>4. filled <= SatSub(avail + own, reserve)
    <2>1. ASSUME NEW room \in Nat, filled <= Least(configured, room)
          PROVE  filled <= room
        BY <2>1 DEF Least
    <2> QED BY <1>2, <1>3, <2>1
<1>5. (avail + own) - filled >= reserve
    <2> HIDE DEF reserve
    <2> QED BY <1>1, <1>4 DEF SatSub, Greatest
<1> QED BY <1>5

\* Pins are admitted within the budget, and keep three quarters of it.
LEMMA CeilingBounds ==
    ASSUME NEW max \in Nat
    PROVE  PinCeiling(max) \in 0..max /\ PinCeiling(max) >= max - (max \div 4)
<1>1. max \div 4 \in Nat /\ max \div 4 <= max OBVIOUS
<1> DEFINE quarter == max \div 4
<1>2. quarter \in Nat /\ quarter <= max BY <1>1
<1>3. PinCeiling(max) = SatSub(max, Least(Setback, quarter)) BY DEF PinCeiling
<1> HIDE DEF quarter
<1>4. Least(Setback, quarter) \in 0..quarter BY <1>2, BudgetAssumption DEF Least
<1>5. PinCeiling(max) \in 0..max /\ PinCeiling(max) >= max - quarter
    BY <1>2, <1>3, <1>4 DEF SatSub, Greatest
<1> QED BY <1>5 DEF quarter

\* What the frontier admits under a budget, eviction under the same budget leaves
\* alone, whatever the disk: the store does not delete what it would download.
THEOREM AdmittedIsNotEvicted ==
    ASSUME NEW max \in Nat, NEW configured \in Nat, NEW avail \in Nat,
           NEW pinned \in Nat, pinned <= PinCeiling(max)
    PROVE  pinned <= EvictTarget(max, configured, avail)
<1>1. pinned <= max BY CeilingBounds
<1>2. Least(EvictFloor, configured) \in Nat BY BudgetAssumption DEF Least
<1>3. max <= EvictTarget(max, configured, avail) BY <1>2 DEF EvictTarget, Greatest
<1>4. EvictTarget(max, configured, avail) \in Nat BY <1>2 DEF EvictTarget, Greatest
<1> QED BY <1>1, <1>3, <1>4

\* Half the ceiling at most is kept back for hand-picked stars, so that a frontier
\* that admits them always has room for something else.
THEOREM FloorIsHalf ==
    ASSUME NEW ceiling \in Nat
    PROVE  StarFloor(ceiling) \in 0..ceiling /\ 2 * StarFloor(ceiling) <= ceiling
<1> DEFINE half == ceiling \div 2
<1>1. half \in Nat /\ 2 * half <= ceiling OBVIOUS
<1>2. StarFloor(ceiling) = Least(StarFloorBytes, half) BY DEF StarFloor
<1> HIDE DEF half
<1> QED BY <1>1, <1>2, BudgetAssumption DEF Least
=============================================================================
