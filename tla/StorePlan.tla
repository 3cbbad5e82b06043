----------------------------- MODULE StorePlan -----------------------------
(***************************************************************************)
(* The pure planner of the offline store, store.rs plan_pass_with_status:  *)
(* from what a pass has observed, the actions it will execute, in order.   *)
(*                                                                         *)
(* A song id is a number, so that "sorted by id" means something.  An      *)
(* entry of the index, a song of the server's and a pin group are records; *)
(* the starred groups arrive as a sequence, in the server's order.         *)
(***************************************************************************)
EXTENDS StoreBudget, SequencesExt, FiniteSetsExt

CONSTANTS
    Id,        \* the song ids
    Suffix,    \* audio formats
    Batch      \* download_batch

ASSUME PlanAssumption == Id \subseteq Nat /\ Batch \in Nat \ {0}

\* A song as getStarred2 reports it; a server may leave the size out (0).
Song == [id : Id, size : Nat, suffix : Suffix, created : Nat, cold : BOOLEAN]
IndexEntry == [suffix : Suffix, size : Nat, created : Nat, pinned : BOOLEAN, stale : BOOLEAN,
               suspect : BOOLEAN, played : Nat, dirty : BOOLEAN]

\* What a pass plans from: its mode, budgets and flags, the entries held, the
\* queue window in play order, the protected ids, and the pin groups, `NoPins'
\* on a light pass and when the server did not answer.
NoPins == <<[tier |-> "unavailable", songs |-> << >>]>>

IdsOf(group) == {group.songs[i].id : i \in DOMAIN group.songs}
Pinned(pins) == UNION {IdsOf(pins[i]) : i \in DOMAIN pins}
SumOf(Size(_), ids) == MapThenSumSet(Size, ids)
ById(ids) == SetToSortSeq(ids, LAMBDA a, b : a < b)

\* The first listing of a song in the pin set.
PinSong(pins, id) ==
    LET g == CHOOSE i \in DOMAIN pins :
                 id \in IdsOf(pins[i]) /\ \A j \in 1..(i - 1) : id \notin IdsOf(pins[j])
    IN SelectSeq(pins[g].songs, LAMBDA s : s.id = id)[1]

\* The server's size, or the held size when it reports none, or 0.
SizeIn(pins, held, id) ==
    LET s == PinSong(pins, id).size
    IN IF s > 0 THEN s ELSE IF id \in DOMAIN held THEN held[id].size ELSE 0

-----------------------------------------------------------------------------
(* The frontier: groups in the order of what the store would keep. *)

\* The share of a group's bytes nobody has played for a long time, in tenths.
ColdIds(group) == {group.songs[i].id : i \in {j \in DOMAIN group.songs : group.songs[j].cold}}
ColdDecile(all, cold) == IF all = 0 THEN 0 ELSE ((cold * 100) \div all) \div 10

TierClass(tier) == IF tier = "artist" THEN 1 ELSE 0

EmphasisRank(tier, hasCold) ==
    IF hasCold THEN CASE tier = "album" -> 0 [] tier = "song" -> 1 [] tier = "artist" -> 2
    ELSE CASE tier = "song" -> 3 [] tier = "album" -> 4 [] tier = "artist" -> 5

\* Lexicographic comparison of tuples of numbers of one length.
Before(s, t) ==
    \E k \in DOMAIN s : s[k] < t[k] /\ \A j \in 1..(k - 1) : s[j] = t[j]

RankKey(g, all, cold, held, i) ==
    <<TierClass(g.tier), - ColdDecile(all, cold),
      IF IdsOf(g) \cap DOMAIN held # {} THEN 0 ELSE 1, EmphasisRank(g.tier, cold > 0), i>>

RankOrder(pins, held) ==
    LET Size(id) == SizeIn(pins, held, id)
        ranked(i, j) == Before(i.key, j.key)
        keyed == {[slot |-> i, key |-> RankKey(pins[i], SumOf(Size, IdsOf(pins[i])),
                                               SumOf(Size, ColdIds(pins[i])), held, i)] : i \in DOMAIN pins}
    IN FoldLeft(LAMBDA order, e : Append(order, pins[e.slot]), << >>, SetToSortSeq(keyed, ranked))

\* The bytes of the starred songs still to come at or below a slot, each counted
\* unless every group above already wants it.
StarAhead(pins, held, order, slot) ==
    LET Size(id) == SizeIn(pins, held, id)
        above(k) == UNION {IdsOf(order[j]) : j \in 1..(k - 1)}
        own(k) == IF order[k].tier = "song" /\ ~(IdsOf(order[k]) \subseteq above(k))
                  THEN SumOf(Size, IdsOf(order[k])) ELSE 0
    IN SumOf(own, slot..Len(order))

\* One group, admitted whole or not at all: `fresh' are the ids no group above claims.
AdmitGroup(f, fresh, cost, room, slot) ==
    IF f.bytes + cost <= room
    THEN [claim |-> [id \in DOMAIN f.claim \cup fresh |->
                         IF id \in fresh THEN slot ELSE f.claim[id]],
          resident |-> f.resident \cup {slot}, bytes |-> f.bytes + cost]
    ELSE f

\* The ids that only groups below the line want, each at its first group's slot.
BelowLine(order, walk) ==
    LET wants(id) == {k \in DOMAIN order \ walk.resident : id \in IdsOf(order[k])}
    IN [id \in UNION {IdsOf(order[k]) : k \in DOMAIN order} \ DOMAIN walk.claim |-> Min(wants(id))]

FrontierOf(order, walk) ==
    [order |-> order, resident |-> walk.resident, claim |-> walk.claim, bytes |-> walk.bytes,
     below |-> BelowLine(order, walk)]

\* Walk the order; what hand-picked stars still need is kept back from the others.
AdmitAll(pins, held, ceiling, order) ==
    LET Size(id) == SizeIn(pins, held, id)
        reserved(slot) == IF order[slot].tier = "song" THEN 0
                          ELSE Least(StarFloor(ceiling), StarAhead(pins, held, order, slot))
        admit(f, slot) ==
            AdmitGroup(f, IdsOf(order[slot]) \ DOMAIN f.claim,
                       SumOf(Size, IdsOf(order[slot]) \ DOMAIN f.claim),
                       SatSub(ceiling, reserved(slot)), slot)
    IN FrontierOf(order, FoldLeft(admit, [claim |-> << >>, resident |-> {}, bytes |-> 0],
                                  [slot \in DOMAIN order |-> slot]))

Frontier(pins, held, ceiling) == AdmitAll(pins, held, ceiling, RankOrder(pins, held))

-----------------------------------------------------------------------------
(* Eviction: victims in the order they go, a group at a time. *)

\* Nothing pinned may go without the server's word.
MayGoAnyway(in, id) == id \notin Range(in.window) \cup in.protected
MayGo(in, id) ==
    /\ id \notin Range(in.window) \cup in.protected
    /\ in.pins = NoPins => ~in.held[id].pinned

\* Opportunistic entries go one by one, least recently played first; then the
\* groups below the line and then the line's own tail, last first and whole.
\* Without pins everything that may go is opportunistic.
Units(kind, ids, slots) == [k \in DOMAIN slots |-> [kind |-> kind, ids |-> ids[slots[k]]]]
Downward(slots) == SetToSortSeq(slots, LAMBDA a, b : a > b)
Whole(kind, ids, slotOf) ==
    Units(kind, [k \in {slotOf[id] : id \in ids} |-> {id \in ids : slotOf[id] = k}],
          Downward({slotOf[id] : id \in ids}))
LeastRecent(in, ids) ==
    Units("opportunistic", [id \in ids |-> {id}],
          SetToSortSeq(ids, LAMBDA a, b : Before(<<in.held[a].played, a>>, <<in.held[b].played, b>>)))

Victims(in, front, held) ==
    IF in.pins = NoPins THEN LeastRecent(in, held)
    ELSE LeastRecent(in, held \ (DOMAIN front.claim \cup DOMAIN front.below))
         \o Whole("deferred", held \cap DOMAIN front.below, front.below)
         \o Whole("resident", held \cap DOMAIN front.claim, front.claim)

\* Take units from the front until `want' bytes are found.
TakeUnits(units, held, want, spare) ==
    LET Held(id) == held[id].size
    IN FoldLeft(LAMBDA t, u :
                 IF t.got >= want THEN t
                 ELSE [got |-> t.got + SumOf(Held, u.ids \ spare), take |-> t.take \o ById(u.ids \ spare)],
             [got |-> 0, take |-> << >>], units)

\* Room for a pin, from what is not resident: all of `want' or nothing.
AllOrNothing(t, want) == IF t.got < want THEN [got |-> 0, take |-> << >>] ELSE t
ReclaimForPin(units, held, want, spare) ==
    AllOrNothing(TakeUnits(SelectSeq(units, LAMBDA u : u.kind # "resident"), held, want, spare), want)

-----------------------------------------------------------------------------
(* The pass. *)

Act(op, id) == [op |-> op, id |-> id]
Each(op, ids) == [k \in DOMAIN ids |-> Act(op, ids[k])]
ActsOf(op, ids) == Each(op, ById(ids))

\* fingerprint_verdict: `created' votes only when both sides have it.
Verdict(entry, song) ==
    IF song.size = 0 THEN "unknown"
    ELSE IF \/ song.size # entry.size \/ song.suffix # entry.suffix
            \/ 0 \notin {entry.created, song.created} /\ entry.created # song.created
         THEN "differ" ELSE "equal"

\* One SetStale or SetPinned per entry the server's answer changes.
Judgement(id, entry, verdict) ==
    (IF verdict = "differ" /\ ~entry.stale THEN <<Act("stale", id)>>
     ELSE IF verdict = "equal" /\ entry.stale THEN <<Act("fresh", id)>>
     ELSE << >>)
    \o (IF entry.pinned THEN << >> ELSE <<Act("pin", id)>>)

Verdicts(in) ==
    FoldLeft(LAMBDA acts, id : acts \o Judgement(id, in.held[id], Verdict(in.held[id], PinSong(in.pins, id))),
             << >>, ById(Pinned(in.pins) \cap DOMAIN in.held))
    \o ActsOf("unpin", {id \in DOMAIN in.held : in.held[id].pinned /\ id \notin Pinned(in.pins)})

\* Downloads are queued up to the batch, each id once.
Queue(d, id, why) ==
    IF Len(d) >= Batch \/ \E k \in DOMAIN d : d[k].id = id THEN d
    ELSE Append(d, [op |-> "download", id |-> id, why |-> why])

\* What he is about to hear: replacements of suspect bytes, and the window.
UrgentDownloads(in) ==
    LET suspects == ById({id \in DOMAIN in.held : in.held[id].suspect})
        absent == SelectSeq(in.window, LAMBDA id : id \notin DOMAIN in.held)
        first == FoldLeft(LAMBDA d, id : Queue(d, id, "suspect"), << >>, suspects)
    IN IF in.max = 0 THEN << >>
       ELSE FoldLeft(LAMBDA d, id : Queue(d, id, "window"), first, absent)

\* Replacements of drifted bytes, as far as the growth fits.
Drifted(in) ==
    {id \in DOMAIN in.held : in.held[id].stale \/
        (in.pins # NoPins /\ id \in Pinned(in.pins) /\
         Verdict(in.held[id], PinSong(in.pins, id)) = "differ")}
Growth(in, id) ==
    IF in.pins # NoPins /\ id \in Pinned(in.pins)
    THEN SatSub(PinSong(in.pins, id).size, in.held[id].size) ELSE 0

QueueStale(s, id, d, growth) ==
    IF growth > s.headroom \/ d = s.downloads THEN s
    ELSE [s EXCEPT !.downloads = d, !.headroom = SatSub(@, growth)]

StaleDownloads(in, state) ==
    FoldLeft(LAMBDA s, id : QueueStale(s, id, Queue(s.downloads, id, "stale"), Growth(in, id)),
             state, ById(Drifted(in)))

\* Missing pins, a group at a time from the top of the order, making room from
\* what ranks below them.
Missing(in, front, slot) ==
    SelectSeq([k \in DOMAIN front.order[slot].songs |-> front.order[slot].songs[k].id],
              LAMBDA id : id \in DOMAIN front.claim \ DOMAIN in.held /\ front.claim[id] = slot)

RoomFor(s, units, held, bytes) ==
    IF bytes <= s.headroom THEN [got |-> 0, take |-> << >>]
    ELSE ReclaimForPin(units, held, bytes - s.headroom,
                       s.evicted \cup {s.downloads[k].id : k \in DOMAIN s.downloads})

Cleared(s, room, max) ==
    [s EXCEPT !.onDisk = SatSub(@, room.got), !.evicted = @ \cup Range(room.take),
              !.reclaim = @ \o room.take,
              !.headroom = IF room.got = 0 THEN @
                           ELSE Least(@ + room.got, SatSub(max, SatSub(s.onDisk, room.got)))]

QueueMissing(s, missing, bytes) ==
    LET queued == FoldLeft(LAMBDA q, id : Queue(q, id, "backfill"), s.downloads, missing)
    IN IF queued = s.downloads THEN s
       ELSE [s EXCEPT !.downloads = queued, !.headroom = SatSub(@, bytes)]

FillGroup(s, missing, bytes, room, max) ==
    IF missing = << >> \/ (bytes > s.headroom /\ room.got = 0) THEN s
    ELSE QueueMissing(Cleared(s, room, max), missing, bytes)

Backfill(in, front, units, state) ==
    LET Size(id) == SizeIn(in.pins, in.held, id)
        bytes(slot) == SumOf(Size, Range(Missing(in, front, slot)))
        admit(s, slot) ==
            IF Len(s.downloads) >= Batch \/ slot \notin front.resident THEN s
            ELSE FillGroup(s, Missing(in, front, slot), bytes(slot),
                           RoomFor(s, units, in.held, bytes(slot)), in.max)
    IN FoldLeft(admit, state, [slot \in DOMAIN front.order |-> slot])

\* The plan's parts, each from what was worked out before it.
Bulk(in, front, units, start) ==
    IF in.max = 0 \/ in.remote \/ in.paused THEN start
    ELSE IF in.pins = NoPins THEN StaleDownloads(in, start)
    ELSE Backfill(in, front, units, StaleDownloads(in, start))

Shrink(in, units, bulk) ==
    TakeUnits(units, in.held, SatSub(bulk.onDisk, EvictTarget(in.max, in.configured, in.avail)),
              bulk.evicted \cup {bulk.downloads[k].id : k \in DOMAIN bulk.downloads}).take

Flushes(in) ==
    FoldLeft(LAMBDA acts, id : Append(acts, [op |-> "flush", id |-> id, played |-> in.held[id].played]),
             << >>, ById({id \in DOMAIN in.held : in.held[id].dirty}))

InOrder(in, bulk, shrink) ==
    (IF in.pins = NoPins THEN << >> ELSE Verdicts(in))
    \o Each("evict", bulk.reclaim) \o bulk.downloads \o Flushes(in) \o Each("evict", shrink)

PlanBulk(in, units, bulk) == InOrder(in, bulk, Shrink(in, units, bulk))
PlanUnits(in, front, units, start) == PlanBulk(in, units, Bulk(in, front, units, start))
PlanFront(in, front, total) ==
    PlanUnits(in, front, Victims(in, front, {id \in DOMAIN in.held : MayGo(in, id)}),
              [downloads |-> UrgentDownloads(in), onDisk |-> total, evicted |-> {},
               reclaim |-> << >>, headroom |-> SatSub(in.max, total)])

\* plan_pass.
Plan(in) ==
    LET Held(id) == in.held[id].size
    IN IF in.mode = "light" THEN UrgentDownloads(in)
       ELSE PlanFront(in, IF in.pins = NoPins THEN << >>
                          ELSE Frontier(in.pins, in.held, PinCeiling(in.max)),
                      SumOf(Held, DOMAIN in.held))
=============================================================================
