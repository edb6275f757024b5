------------------------------- MODULE Results -------------------------------
(***************************************************************************)
(* What is shown of a room's players: the results of a finished room, from *)
(* a cache built of the archive or else from the live rows, and the board  *)
(* of a running room, a shared snapshot into which each player's own live  *)
(* score is placed.  A room is ended by finalizeRoom (the claim, the       *)
(* archive, then the rows) or by the sweep of abandoned rooms (the archive,*)
(* the status, then the rows), and the two may meet.                       *)
(***************************************************************************)
EXTENDS Naturals, FiniteSets

CONSTANTS
    Viewers,    \* GetRoomResults requests at a time
    Players,    \* player ids
    MaxScore,   \* bound on a score
    NoRoster

ASSUME ResultsAssumption ==
    /\ Players \subseteq Nat /\ IsFiniteSet(Players)
    /\ MaxScore \in Nat
    /\ NoRoster \notin Nat \cup {"full", "empty"}

VARIABLES
    room,      \* what there is of a room with players, and who is closing it
    cached,    \* resultsCache: the roster of the built entry
    viewer,
    score,     \* of the live rows
    board      \* standingsCache: the scores at the last load

resultsVars == <<room, cached, viewer, score, board>>

Roster == {"full", "empty"}

Room == [over: BOOLEAN,                            \* the status is "finished"
         archive: Roster \cup {NoRoster},           \* the room's game_sessions row
         rows: Roster,                             \* the players rows
         ending: {"no", "claimed", "archived"},     \* finalizeRoom
         sweep: {"no", "listed", "archived", "closed"}]
NewRoom == [over |-> FALSE, archive |-> NoRoster, rows |-> "full", ending |-> "no", sweep |-> "no"]

\* late: it found the room finished and its players archived, and could read the archive.
Viewer == [step: {"idle", "missed", "build", "store", "archive", "rows", "answered"},
           late: BOOLEAN, roster: Roster \cup {NoRoster}]
NoViewer == [step |-> "idle", late |-> FALSE, roster |-> NoRoster]

ResultsInit ==
    /\ room = NewRoom
    /\ cached = NoRoster
    /\ viewer = [v \in Viewers |-> NoViewer]
    /\ score = [p \in Players |-> 0]
    /\ board = NoRoster

-----------------------------------------------------------------------------
(* The room is ended.                                                      *)

\* The players as they are archived: a failed read of the rows counts as none.
Collected(readable) == IF readable THEN room.rows ELSE "empty"

\* finalizeRoom claims the end.
Claim ==
    /\ ~room.over
    /\ room' = [room EXCEPT !.over = TRUE, !.ending = "claimed"]

\* One archive per room: game_sessions.room_id is unique.
Archive(readable) ==
    /\ room.ending = "claimed"
    /\ room.archive = NoRoster
    /\ room' = [room EXCEPT !.archive = Collected(readable), !.ending = "archived"]

\* It fails or is refused, or the process stops, and the rows are left alone.
ArchiveFails ==
    /\ room.ending = "claimed"
    /\ room' = [room EXCEPT !.ending = "no"]

Cleanup ==
    /\ room.ending = "archived"
    /\ room' = [room EXCEPT !.rows = "empty", !.ending = "no"]

\* cleanupAbandonedRooms lists the open rooms, then takes them one by one.
SweepList ==
    /\ ~room.over
    /\ room.sweep = "no"
    /\ room' = [room EXCEPT !.sweep = "listed"]

\* An archive that is there is kept.
SweepArchive(readable) ==
    /\ room.sweep = "listed"
    /\ room' = [room EXCEPT !.sweep = "archived",
                 !.archive = IF @ = NoRoster THEN Collected(readable) ELSE @]

SweepClose ==
    /\ room.sweep = "archived"
    /\ room' = [room EXCEPT !.over = TRUE, !.sweep = "closed"]

SweepWipe ==
    /\ room.sweep = "closed"
    /\ room' = [room EXCEPT !.rows = "empty", !.sweep = "no"]

\* Any of its writes fails, or the process stops.
SweepFails ==
    /\ room.sweep # "no"
    /\ room' = [room EXCEPT !.sweep = "no"]

Closes ==
    /\ \/ Claim \/ ArchiveFails \/ Cleanup
       \/ SweepList \/ SweepClose \/ SweepWipe \/ SweepFails
       \/ \E readable \in BOOLEAN : Archive(readable) \/ SweepArchive(readable)
    /\ UNCHANGED <<cached, viewer, score, board>>

-----------------------------------------------------------------------------
(* GetRoomResults.                                                         *)

\* archivedPlayers: one that fails reads like an archive that is not there, and so does
\* an archive of nobody.
ArchiveRead(readable) == readable /\ room.archive = "full"

Answer(v, roster) ==
    viewer' = [viewer EXCEPT ![v].step = "answered", ![v].roster = roster]

\* First the cache.
Ask(v) ==
    /\ viewer[v].step = "idle"
    /\ viewer' = [viewer EXCEPT ![v] = [late |-> FALSE, roster |-> cached,
                      step |-> IF cached = NoRoster THEN "missed" ELSE "answered"]]
    /\ UNCHANGED <<room, cached, score, board>>

\* The room row: a finished room is built, another one is read as it is.
ReadRoom(v) ==
    /\ viewer[v].step = "missed"
    /\ viewer' = [viewer EXCEPT ![v].step = IF room.over THEN "build" ELSE "rows",
                                ![v].late = room.over /\ room.archive = "full"]
    /\ UNCHANGED <<room, cached, score, board>>

\* buildResults, under the entry's mutex: who waited for it finds it built, and nothing
\* is cached without an archive.
Build(v, readable) ==
    /\ viewer[v].step = "build"
    /\ IF cached # NoRoster THEN Answer(v, cached)
       ELSE IF ArchiveRead(readable)
            THEN viewer' = [viewer EXCEPT ![v].step = "store", ![v].roster = "full"]
            ELSE viewer' = [viewer EXCEPT ![v].step = "archive"]
    /\ UNCHANGED <<room, cached, score, board>>

StoreResults(v) ==
    /\ viewer[v].step = "store"
    /\ cached' = viewer[v].roster
    /\ Answer(v, viewer[v].roster)
    /\ UNCHANGED <<room, score, board>>

\* getRoomPlayers: the archive once more, then the live rows.
ReadArchive(v, readable) ==
    /\ viewer[v].step = "archive"
    /\ IF ArchiveRead(readable)
       THEN Answer(v, "full")
       ELSE viewer' = [viewer EXCEPT ![v].step = "rows", ![v].late = @ /\ readable]
    /\ UNCHANGED <<room, cached, score, board>>

\* Mutant: the list of the live rows is cached like the archive's.
ReadRowsCached(v) ==
    /\ viewer[v].step = "rows"
    /\ cached' = room.rows
    /\ Answer(v, room.rows)
    /\ UNCHANGED <<room, score, board>>

ReadRows(v) ==
    /\ viewer[v].step = "rows"
    /\ Answer(v, room.rows)
    /\ UNCHANGED <<room, cached, score, board>>

Answered(v) ==
    /\ viewer[v].step = "answered"
    /\ viewer' = [viewer EXCEPT ![v] = NoViewer]
    /\ UNCHANGED <<room, cached, score, board>>

\* sweepResultsCache, after ten idle minutes.
Forget ==
    /\ cached # NoRoster
    /\ cached' = NoRoster
    /\ UNCHANGED <<room, viewer, score, board>>
-----------------------------------------------------------------------------
(* The board of a room that has its rows.                                  *)

\* Scores only rise.
Scores(p) ==
    /\ room.rows = "full"
    /\ \E n \in score[p]..MaxScore : score' = [score EXCEPT ![p] = n]
    /\ UNCHANGED <<room, cached, viewer, board>>

\* roomSnapshot loads all rows when a second has passed since it did.
Snapshot ==
    /\ room.rows = "full"
    /\ board' = score
    /\ UNCHANGED <<room, cached, viewer, score>>

\* Mutant: ties count as ahead whoever they belong to.
AheadOnTies(p) == {q \in Players : board[q] >= score[p]}

\* rankAgainst: the rows of the board strictly ahead of a row with the live score; sort.Search
\* finds where they end, since the board is sorted the same way.
Ahead(p) == {q \in Players : board[q] > score[p] \/ (board[q] = score[p] /\ q < p)}

RankOf(p) == Cardinality(Ahead(p)) + 1

ResultsNext ==
    \/ Closes \/ Forget \/ Snapshot
    \/ \E v \in Viewers : Ask(v) \/ ReadRoom(v) \/ StoreResults(v) \/ ReadRows(v) \/ Answered(v)
    \/ \E v \in Viewers, readable \in BOOLEAN : Build(v, readable) \/ ReadArchive(v, readable)
    \/ \E p \in Players : Scores(p)

ResultsSpec == ResultsInit /\ [][ResultsNext]_resultsVars

ResultsTypeOK ==
    /\ room \in Room
    /\ cached \in Roster \cup {NoRoster}
    /\ viewer \in [Viewers -> Viewer]
    /\ score \in [Players -> 0..MaxScore]
    /\ board \in [Players -> 0..MaxScore] \cup {NoRoster}

\* An empty roster is never remembered, whatever was read when; and a request that found
\* the room finished with its players archived is not answered with one, unless it cannot
\* read the archive (buildResults, getRoomPlayers).
ResultsStayFull ==
    /\ cached # "empty"
    /\ \A v \in Viewers : viewer[v].step = "answered" /\ viewer[v].late => viewer[v].roster = "full"

\* Against a board up to a second old, the rank told to a player counts the others only:
\* his own row in it, older than his live score, is never ahead of him (rankAgainst).
OwnRowNeverAhead ==
    board # NoRoster =>
        \A p \in Players : RankOf(p) = Cardinality(Ahead(p) \ {p}) + 1 /\ RankOf(p) <= Cardinality(Players)
==============================================================================
