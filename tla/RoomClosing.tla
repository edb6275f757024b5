----------------------------- MODULE RoomClosing -----------------------------
(***************************************************************************)
(* How a room ends (handler/quiz.go, cron/cron.go).  finalizeRoom reads    *)
(* the room, claims the transition to finished, collects the rankings from *)
(* the live rows, archives them in game_sessions, broadcasts game:ended    *)
(* and, if the archive was written, deletes the live rows in the           *)
(* background.  The host's End button, solo mode's auto-finish and the     *)
(* licence sweep all call it, at once if it happens; a caller who loses    *)
(* the claim replays the archive instead.  The abandoned-room sweep closes *)
(* a room nobody touched for twelve hours by a path of its own.  Players   *)
(* answer and leave meanwhile.                                             *)
(***************************************************************************)
EXTENDS Integers, FiniteSets, FiniteSetsExt

CONSTANTS
    Players,
    Questions,
    Closers,    \* calls of finalizeRoom (bound)
    Reason,     \* the reason each of them gives
    ReadsFail,  \* whether the reads for the rankings may fail, which nobody notices
    None

ASSUME ReadsAssumption == ReadsFail \in BOOLEAN
ASSUME QuizAssumption == IsFiniteSet(Questions)
ASSUME ReasonAssumption == Reason \in [Closers -> {"", "license_expired", "license_revoked"}]

VARIABLES
    room,       \* the rooms row, and whether 12 h went by without a write to it
    rows,       \* players: the score of every player whose row exists
    log,        \* answer_logs, all of them correct: <<player, question>>
    acked,      \* answers whose player was told they count; never forgotten
    left,       \* players who asked to leave
    leaving,    \* LeaveRoom calls that read the status and decided to delete
    session,    \* game_sessions: None or the archived rankings
    podium,     \* the last game:ended broadcast: None, or rankings and reason
    closer,     \* the calls of finalizeRoom
    sweep,      \* the abandoned-room sweep
    lost        \* the claim's own broadcast failed, or a restart came before it

vars == <<room, rows, log, acked, left, leaving, session, podium, closer, sweep, lost>>

game == <<rows, log, acked, left, leaving>>
ending == <<session, podium>>

Reasons == {"", "license_expired", "license_revoked"}

\* A player's place in the rankings.
Entry == [score: 0 .. Cardinality(Questions), correct: 0 .. Cardinality(Questions)]
Rankings == UNION {[S -> Entry] : S \in SUBSET Players}
Podium == [rankings: Rankings, reason: Reasons]

ASSUME NoneAssumption == None \notin Rankings \cup Podium

Count(S, p) == Cardinality({a \in S : a[1] = p})
Scores == UNION {[S -> 0 .. Cardinality(Questions)] : S \in SUBSET Players}

NoOne == [p \in {} |-> 0]

\* The player rows as read, and CorrectAnswerCounts joined to them.  A failed read of
\* the one leaves an empty list, of the other nothing but zeros.
Listed == [p \in DOMAIN rows |-> [score |-> rows[p], correct |-> 0]]
Counted(ranks) == [p \in DOMAIN ranks |-> [ranks[p] EXCEPT !.correct = Count(log, p)]]
ReadOf(right, failed) == {right} \cup (IF ReadsFail THEN {failed} ELSE {})
CloserIdle == [pc |-> "idle", seen |-> "", ranks |-> NoOne]

Init ==
    /\ room = [status |-> "active", reason |-> "", idle |-> FALSE]
    /\ rows = [p \in Players |-> 0]
    /\ log = {}
    /\ acked = {}
    /\ left = {}
    /\ leaving = {}
    /\ session = None
    /\ podium = None
    /\ closer = [c \in Closers |-> CloserIdle]
    /\ sweep = CloserIdle
    /\ lost = FALSE

-----------------------------------------------------------------------------
(* The players.                                                            *)

\* Mutant: no unique index.
AnswerAgain(p, q) ==
    /\ room.status = "active"
    /\ p \in DOMAIN rows
    /\ log' = log \cup {<<p, q>>}
    /\ acked' = acked \cup {<<p, q>>}
    /\ rows' = [rows EXCEPT ![p] = @ + 1]
    /\ UNCHANGED <<room, left, leaving, closer, sweep, lost>> /\ UNCHANGED ending

\* Mutant: the status was read before the transaction only.
AnswerAnytime(p, q) ==
    /\ p \in DOMAIN rows
    /\ <<p, q>> \notin log
    /\ log' = log \cup {<<p, q>>}
    /\ acked' = acked \cup {<<p, q>>}
    /\ rows' = [rows EXCEPT ![p] = @ + 1]
    /\ UNCHANGED <<room, left, leaving, closer, sweep, lost>> /\ UNCHANGED ending

\* A submit's transaction, of either mode: the room is active and stays so until it
\* has committed.
AnswerQuestion(p, q) ==
    /\ room.status = "active"
    /\ p \in DOMAIN rows
    /\ <<p, q>> \notin log
    /\ log' = log \cup {<<p, q>>}
    /\ acked' = acked \cup {<<p, q>>}
    /\ rows' = [rows EXCEPT ![p] = @ + 1]
    /\ UNCHANGED <<room, left, leaving, closer, sweep, lost>> /\ UNCHANGED ending

\* LeaveRoom reads the status, and is going to delete the row.  In a running game it
\* would only flag it (not modelled: nothing here depends on it), but takes the same
\* path as in a finished one when the room could not be read.
LeaveRead(p) ==
    /\ p \notin left
    /\ leaving' = leaving \cup {p}
    /\ left' = left \cup {p}
    /\ UNCHANGED <<room, rows, log, acked, closer, sweep, lost>> /\ UNCHANGED ending

Without(S) == [p \in DOMAIN rows \ S |-> rows[p]]

LeaveDelete(p) ==
    /\ p \in leaving
    /\ leaving' = leaving \ {p}
    /\ rows' = Without({p})
    /\ UNCHANGED <<room, log, acked, left, closer, sweep, lost>> /\ UNCHANGED ending

-----------------------------------------------------------------------------
(* finalizeRoom.                                                           *)

Goto(c, pc) == closer' = [closer EXCEPT ![c].pc = pc]
Rest(c) == closer' = [closer EXCEPT ![c] = CloserIdle]

\* The room is read; ended_reason is remembered from here.
CloserReads(c) ==
    /\ closer[c].pc = "idle"
    /\ closer' = [closer EXCEPT ![c] = [CloserIdle EXCEPT !.pc = "claim",
                                                          !.seen = room.reason]]
    /\ UNCHANGED <<room, sweep, lost>> /\ UNCHANGED game /\ UNCHANGED ending

\* The claim: status and reason in one guarded update.
Claim(c) ==
    /\ closer[c].pc = "claim"
    /\ room.status # "finished"
    /\ room' = [status |-> "finished", reason |-> Reason[c], idle |-> FALSE]
    /\ Goto(c, "collect")
    /\ UNCHANGED <<sweep, lost>> /\ UNCHANGED game /\ UNCHANGED ending

\* Mutant: a loser broadcasts the live rows.
ReplayLive(c) ==
    /\ closer[c].pc = "claim"
    /\ room.status = "finished"
    /\ Rest(c)
    /\ podium' = [rankings |-> Counted(Listed), reason |-> closer[c].seen]
    /\ UNCHANGED <<room, sweep, session, lost>> /\ UNCHANGED game

\* The claim was lost: the archive, if there is one with rankings in it, is
\* broadcast again under the reason that was read.  The publish may fail.
Replay(c) ==
    /\ closer[c].pc = "claim"
    /\ room.status = "finished"
    /\ Rest(c)
    /\ \/ /\ session # None /\ DOMAIN session # {}
          /\ podium' = [rankings |-> session, reason |-> closer[c].seen]
       \/ UNCHANGED podium
    /\ UNCHANGED <<room, sweep, session, lost>> /\ UNCHANGED game

\* The player rows are read.
Collect(c) ==
    /\ closer[c].pc = "collect"
    /\ \E ranks \in ReadOf(Listed, NoOne) :
          closer' = [closer EXCEPT ![c].pc = "archive", ![c].ranks = ranks]
    /\ UNCHANGED <<room, sweep, lost>> /\ UNCHANGED game /\ UNCHANGED ending

\* Mutant: a failed archive ends the call.
ArchiveOrGiveUp(c) ==
    /\ closer[c].pc = "archive"
    /\ LET ranks == Counted(closer[c].ranks)
       IN  \/ /\ session = None
              /\ session' = ranks
              /\ closer' = [closer EXCEPT ![c].pc = "announce", ![c].ranks = ranks]
           \/ UNCHANGED session /\ Rest(c)
    /\ UNCHANGED <<room, podium, sweep, lost>> /\ UNCHANGED game

\* The answers are counted and the rankings inserted into game_sessions, unique on
\* room_id.  The insert may fail.
Archive(c) ==
    /\ closer[c].pc = "archive"
    /\ \E ranks \in ReadOf(Counted(closer[c].ranks), closer[c].ranks) :
          LET next(pc) == closer' = [closer EXCEPT ![c].pc = pc, ![c].ranks = ranks]
          IN  \/ session = None /\ session' = ranks /\ next("announce")
              \/ UNCHANGED session /\ next("announce_only")
    /\ UNCHANGED <<room, podium, sweep, lost>> /\ UNCHANGED game

\* A publish that fails tells nobody.  Its error is dropped, and it is not tried again.
Tell(c) ==
    \/ /\ podium' = [rankings |-> closer[c].ranks, reason |-> Reason[c]]
       /\ UNCHANGED lost
    \/ lost' = TRUE /\ UNCHANGED podium

\* Mutant: the cleanup does not look at what became of the archive.
AnnounceThenWipe(c) ==
    /\ closer[c].pc \in {"announce", "announce_only"}
    /\ Tell(c)
    /\ Goto(c, "wipe")
    /\ UNCHANGED <<room, session, sweep>> /\ UNCHANGED game

\* game:ended goes out either way; the rows are only cleaned up after an archive.
Announce(c) ==
    /\ closer[c].pc \in {"announce", "announce_only"}
    /\ Tell(c)
    /\ IF closer[c].pc = "announce" THEN Goto(c, "wipe") ELSE Rest(c)
    /\ UNCHANGED <<room, session, sweep>> /\ UNCHANGED game

\* A DELETE of the room's rows; one that fails is reported and not tried again.
DeletePlayers == rows' \in {NoOne, rows}
DeleteLog == log' \in {{}, log}

\* The cleanup goroutine: players, then answer logs.
WipePlayers(c) ==
    /\ closer[c].pc = "wipe"
    /\ DeletePlayers
    /\ Goto(c, "wipe_log")
    /\ UNCHANGED <<room, log, acked, left, leaving, sweep, lost>> /\ UNCHANGED ending

WipeLog(c) ==
    /\ closer[c].pc = "wipe_log"
    /\ DeleteLog
    /\ Rest(c)
    /\ UNCHANGED <<room, rows, acked, left, leaving, sweep, lost>> /\ UNCHANGED ending

-----------------------------------------------------------------------------
(* cleanupAbandonedRooms.                                                  *)

SweepOver == [CloserIdle EXCEPT !.pc = "over"]

\* Twelve hours without a write to the rooms row.  Answers write other tables.
TwelveHours ==
    /\ room.status = "active"
    /\ ~room.idle
    /\ room' = [room EXCEPT !.idle = TRUE]
    /\ UNCHANGED <<closer, sweep, lost>> /\ UNCHANGED game /\ UNCHANGED ending

\* The room is on the list of abandoned rooms, as a copy.
SweepReads ==
    /\ sweep.pc \in {"idle", "over"}
    /\ room.status = "active"
    /\ room.idle
    /\ sweep' = [CloserIdle EXCEPT !.pc = "collect", !.seen = room.reason]
    /\ UNCHANGED <<room, closer, lost>> /\ UNCHANGED game /\ UNCHANGED ending

SweepCollects ==
    /\ sweep.pc = "collect"
    /\ \E ranks \in ReadOf(Listed, NoOne) :
          sweep' = [sweep EXCEPT !.pc = "archive", !.ranks = ranks]
    /\ UNCHANGED <<room, closer, lost>> /\ UNCHANGED game /\ UNCHANGED ending

\* An archive that exists is left alone; one that cannot be written ends it here.
SweepArchives ==
    /\ sweep.pc = "archive"
    /\ \/ /\ session = None
          /\ session' \in ReadOf(Counted(sweep.ranks), sweep.ranks)
          /\ sweep' = [sweep EXCEPT !.pc = "save"]
       \/ /\ session # None
          /\ sweep' = [sweep EXCEPT !.pc = "save"]
          /\ UNCHANGED session
       \/ /\ sweep' = SweepOver
          /\ UNCHANGED session
    /\ UNCHANGED <<room, closer, podium, lost>> /\ UNCHANGED game

\* The whole row is written back from the copy; a failure leaves the room as it is.
SweepSaves ==
    /\ sweep.pc = "save"
    /\ \/ /\ room' = [status |-> "finished", reason |-> sweep.seen, idle |-> FALSE]
          /\ sweep' = [sweep EXCEPT !.pc = "wipe"]
       \/ UNCHANGED room /\ sweep' = SweepOver
    /\ UNCHANGED <<closer, lost>> /\ UNCHANGED game /\ UNCHANGED ending

SweepWipesPlayers ==
    /\ sweep.pc = "wipe"
    /\ DeletePlayers
    /\ sweep' = [sweep EXCEPT !.pc = "wipe_log"]
    /\ UNCHANGED <<room, log, acked, left, leaving, closer, lost>> /\ UNCHANGED ending

SweepWipesLog ==
    /\ sweep.pc = "wipe_log"
    /\ DeleteLog
    /\ sweep' = SweepOver
    /\ UNCHANGED <<room, rows, acked, left, leaving, closer, lost>> /\ UNCHANGED ending

-----------------------------------------------------------------------------
\* A call that won the claim and has not broadcast yet.
Ending(c) == closer[c].pc \in {"collect", "archive", "announce", "announce_only"}

\* The backend restarts: whatever was under way stops where it was.
Restart ==
    /\ closer' = [c \in Closers |-> CloserIdle]
    /\ lost' = (lost \/ \E c \in Closers : Ending(c))
    /\ sweep' = IF sweep.pc = "idle" THEN sweep ELSE SweepOver
    /\ leaving' = {}
    /\ <<closer', sweep', leaving'>> # <<closer, sweep, leaving>>
    /\ UNCHANGED <<room, rows, log, acked, left>> /\ UNCHANGED ending

Sweep == SweepReads \/ SweepCollects \/ SweepArchives \/ SweepSaves
             \/ SweepWipesPlayers \/ SweepWipesLog

Finalize(c) == CloserReads(c) \/ Claim(c) \/ Replay(c) \/ Collect(c) \/ Archive(c)
                   \/ Announce(c) \/ WipePlayers(c) \/ WipeLog(c)

Next ==
    \/ \E p \in Players, q \in Questions : AnswerQuestion(p, q)
    \/ \E p \in Players : LeaveRead(p) \/ LeaveDelete(p)
    \/ \E c \in Closers : Finalize(c)
    \/ TwelveHours
    \/ Sweep
    \/ Restart

Spec == Init /\ [][Next]_vars

-----------------------------------------------------------------------------
Closer == [pc: {"idle", "claim", "collect", "archive", "announce", "announce_only",
                "save", "wipe", "wipe_log", "over"},
           seen: Reasons, ranks: Rankings]

TypeOK ==
    /\ room \in [status: {"active", "finished"}, reason: Reasons, idle: BOOLEAN]
    /\ rows \in Scores
    /\ log \subseteq acked
    /\ acked \subseteq Players \X Questions
    /\ left \subseteq Players
    /\ leaving \subseteq left
    /\ session \in Rankings \cup {None}
    /\ podium \in Podium \cup {None}
    /\ closer \in [Closers -> Closer]
    /\ sweep \in Closer
    /\ lost \in BOOLEAN

-----------------------------------------------------------------------------
(* Properties.                                                             *)

Swept == sweep.pc # "idle"

\* The archive of a room that was finalized holds every player who did not leave, with
\* everything they were told counted: no submit commits between the claim and the
\* rankings without being in them.  (The sweep gives no such promise: an answer
\* accepted between its read and its save is not in its archive.)
ArchiveIsComplete ==
    (session # None /\ ~Swept) =>
        \A p \in Players \ left :
            /\ p \in DOMAIN session
            /\ session[p] = [score |-> Count(acked, p), correct |-> Count(acked, p)]

\* Not kept by the code (README, section 5).
\* The result of a player who stayed is always on record somewhere: the live rows are
\* deleted "only once the rankings are safely persisted in game_sessions" (finalizeRoom).
ResultsSurvive ==
    \A p \in Players \ left :
        p \in DOMAIN rows \/ (session # None /\ p \in DOMAIN session)

\* Everybody is shown the archived rankings, whoever ends the room how often: a second
\* closer never wipes the podium (finalizeRoom: "Read the archive, never the live rows").
PodiumMatchesArchive ==
    (podium # None /\ session # None /\ ~Swept) => podium.rankings = session

\* Until the archive exists the live rows are the only copy, and nobody deletes them:
\* not after a failed archive, not in the sweep either.
RowsOutliveArchive ==
    session = None =>
        \A p \in Players \ left : p \in DOMAIN rows /\ rows[p] = Count(log, p) /\ rows[p] = Count(acked, p)

\* A finished room has told its players, or the call that won the claim is on its way to
\* telling them, whatever fails before - unless the backend restarted after the claim or
\* the publish itself failed (finalizeRoom drops its error).  Neither is made up for by
\* itself: it takes another call, which replays the archive if there is one.
EndIsUnderWay ==
    (room.status = "finished" /\ podium = None /\ ~Swept /\ ~lost) =>
        \E c \in Closers : Ending(c)

\* Not kept by the code (README, section 5).
\* game:ended carries the reason the room stores (finalizeRoom: "The STORED reason, not
\* this caller's argument").
ReplayKeepsReason ==
    (podium # None /\ ~Swept) => podium.reason = room.reason
=============================================================================
