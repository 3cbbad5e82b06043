--------------------------- MODULE MCOfflineStore ---------------------------
(* Instances of OfflineStore. *)
EXTENDS OfflineStore

MCId == {1, 2, 3}
MCSuffix == {"flac", "mp3"}
MCSong == [i \in MCId |-> [id |-> i, size |-> IF i = 2 THEN 2 ELSE 1, suffix |-> "mp3",
                           created |-> 1, cold |-> i = 2]]
\* A replacement changes the size, and for song 1 the format too or nothing but the
\* date; of song 2 the date is no longer reported, of song 3 the size.
MCNext == <<{[MCSong[1] EXCEPT !.size = 2, !.suffix = "flac", !.created = 2],
             [MCSong[1] EXCEPT !.created = 2]},
            {[MCSong[2] EXCEPT !.size = 1, !.created = 0]},
            {[MCSong[3] EXCEPT !.size = 0]}>>
\* A song on its own, and an album that fits only without it.
MCCatalog == <<[tier |-> "song", ids |-> <<1>>], [tier |-> "album", ids |-> <<2, 3>>]>>
MCRows == <<1, 3>>

Calm == [plays |-> 0, stars |-> 0, drifts |-> 0, flaps |-> 0, crashes |-> 0, refusals |-> 0,
         failures |-> 0, pauses |-> 0, squeezes |-> 0, starred |-> {1}]
\* Tracks play and fail while the mirror works; stars flip, the server comes and
\* goes; originals are replaced at the server; the disk is taken and given back.
Playing == [Calm EXCEPT !.plays = 2]
Failing == [Calm EXCEPT !.plays = 1, !.failures = 2]
Flipping == [Calm EXCEPT !.stars = 2, !.flaps = 1, !.pauses = 1, !.starred = {2}]
Drifting == [Calm EXCEPT !.drifts = 1, !.plays = 1, !.crashes = 1]
Refusing == [Calm EXCEPT !.drifts = 1, !.refusals = 1, !.crashes = 1, !.stars = 1, !.starred = {2}]
Squeezing == [Calm EXCEPT !.squeezes = 2, !.stars = 1, !.flaps = 1, !.starred = {2}]
All == {Playing, Failing, Flipping, Drifting, Refusing, Squeezing}
=============================================================================
