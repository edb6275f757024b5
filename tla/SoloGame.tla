------------------------------ MODULE SoloGame ------------------------------
(***************************************************************************)
(* A solo (player-paced) room (handler/quiz.go): each player walks through *)
(* the questions alone.  StartGame deals everyone the first question; the  *)
(* timer of a question starts when the player's page first loads it        *)
(* (GetRoom and GetPlayerQuestion, which read the player row and write the *)
(* deadline later, by id alone); a submit, late or not, deals the next     *)
(* one.  The player who finishes last closes the room: each finisher looks *)
(* for someone left after its own commit, and claims the room's end.       *)
(***************************************************************************)
EXTENDS AnswerClaims

CONSTANT Loads    \* page loads in flight at once (bound)

VARIABLES
    status,     \* rooms.status
    progress,   \* the player row's current_question_id and question_active_until
    loads,      \* page loads that saw a question without a deadline
    cut         \* a finisher was lost between its commit and the close

soloVars == <<claims, log, score, requests, status, progress, loads, cut>>

Progress == [current: 0 .. NumQuestions, timer: {"none", "running", "passed"}]

\* What a step of a submit, of a page load, or of the room leaves alone.
PagesUnchanged == UNCHANGED <<loads, cut>>
AnswersUnchanged == UNCHANGED <<claims, log, score>>

SoloInit ==
    /\ ClaimsInit
    /\ status = "waiting"
    /\ progress = [p \in Players |-> [current |-> 0, timer |-> "none"]]
    /\ loads = [f \in Loads |-> None]
    /\ cut = FALSE

Done(p) == progress[p].current = 0

-----------------------------------------------------------------------------
(* The room.                                                               *)

\* Flips the status and deals the first question, under one lock of the room row.
StartSoloGame ==
    /\ status = "waiting"
    /\ status' = "active"
    /\ progress' = [p \in Players |-> [current |-> 1, timer |-> "none"]]
    /\ AnswersUnchanged /\ UNCHANGED requests /\ PagesUnchanged

\* finalizeRoom's claim: the host's End button or a sweep.
CloseSoloRoom ==
    /\ status # "finished"
    /\ status' = "finished"
    /\ AnswersUnchanged /\ UNCHANGED <<requests, progress>> /\ PagesUnchanged

TimeUpFor(p) ==
    /\ progress[p].timer = "running"
    /\ progress' = [progress EXCEPT ![p].timer = "passed"]
    /\ AnswersUnchanged /\ UNCHANGED <<requests, status>> /\ PagesUnchanged

Finishers == {r \in Requests : requests[r].pc \in {"check", "close"}}

\* The backend restarts: every request in flight is gone, marks stay.
SoloRestart ==
    /\ requests' = [r \in Requests |-> IdleRequest]
    /\ loads' = [f \in Loads |-> None]
    /\ cut' = (cut \/ Finishers # {})
    /\ <<requests', loads'>> # <<requests, loads>>
    /\ AnswersUnchanged /\ UNCHANGED <<status, progress>>

-----------------------------------------------------------------------------
(* Loading a question.                                                     *)

\* The row is read: a deadline that is there is reported, a missing one is set by a
\* second statement.
LoadQuestion(f, p) ==
    /\ loads[f] = None
    /\ status = "active"
    /\ ~Done(p)
    /\ progress[p].timer = "none"
    /\ loads' = [loads EXCEPT ![f] = p]
    /\ AnswersUnchanged /\ UNCHANGED <<requests, status, progress, cut>>

\* A submit in flight that was late for the old deadline is not for the new one.
OnTimeAgainFor(p) ==
    [r \in Requests |-> IF requests[r].player = p
                          THEN [requests[r] EXCEPT !.late = FALSE] ELSE requests[r]]

\* UPDATE players SET question_active_until, whatever question is current by now.
StartTimer(f) ==
    LET p == loads[f]
    IN  /\ loads[f] # None
        /\ loads' = [loads EXCEPT ![f] = None]
        /\ progress' = [progress EXCEPT ![p].timer = "running"]
        /\ requests' = OnTimeAgainFor(p)
        /\ AnswersUnchanged /\ UNCHANGED <<status, cut>>

-----------------------------------------------------------------------------
(* Answering.                                                              *)

SoloLate(p, q) == progress[p].current = q /\ progress[p].timer = "passed"

SoloSubmit(r, p, q) ==
    /\ SubmitClaiming(r, p, q, SoloLate(p, q)) \/ SubmitUnclaimed(r, p, q, SoloLate(p, q))
    /\ UNCHANGED <<status, progress>> /\ PagesUnchanged

\* Mutant: any question of the quiz is taken.
SoloAcceptsAnyQuestion(p, q) == status = "active" /\ ~Done(p)

\* The transaction's checks, under the player row's lock and the room's SHARE lock.
\* A late answer is accepted, as a miss.
SoloAccepts(p, q) == status = "active" /\ progress[p].current = q

\* Points by the clock: none when late, no speed bonus when the question was never
\* loaded, that is at most 1.
Earnable(p, late) ==
    IF progress[p].timer = "none" THEN {x \in Points : x <= 1}
    ELSE IF late THEN {x \in Points : x = 0}
    ELSE Points

\* The next question, its timer left to the page that loads it.
Following(q) ==
    [current |-> IF q < NumQuestions THEN q + 1 ELSE 0, timer |-> "none"]

\* Mutant: a timed-out answer returns before the auto-finish.
AfterCommitOnTime(r, q) ==
    IF q = NumQuestions /\ ~requests[r].late THEN GoTo(r, "check") ELSE Finish(r)

\* The answer to the last question goes on to the auto-finish.
AfterCommit(r, q) == IF q = NumQuestions THEN GoTo(r, "check") ELSE Finish(r)

SoloSubmitTx(r) ==
    LET p == requests[r].player
        q == requests[r].question
    IN  /\ requests[r].pc = "tx"
        /\ \/ /\ ~SoloAccepts(p, q)
              /\ Refuse(r)
              /\ UNCHANGED progress
           \/ /\ SoloAccepts(p, q)
              /\ \E points \in Earnable(p, requests[r].late) : Record(p, q, points)
              /\ progress' = [progress EXCEPT ![p] = Following(q)]
              /\ AfterCommit(r, q)
        /\ UNCHANGED <<status, loads, cut>>

\* The transaction fails on the database: rolled back.
SoloSubmitFails(r) ==
    /\ requests[r].pc = "tx"
    /\ Refuse(r)
    /\ UNCHANGED <<status, progress>> /\ PagesUnchanged

\* Mutant: the finisher looks at its own row only.
CheckLeftSelf(r) ==
    /\ requests[r].pc = "check"
    /\ IF Done(requests[r].player) THEN GoTo(r, "close") ELSE Finish(r)
    /\ AnswersUnchanged /\ UNCHANGED <<status, progress>> /\ PagesUnchanged

\* A finisher looks for anyone left ...
CheckLeft(r) ==
    /\ requests[r].pc = "check"
    /\ IF \A p \in Players : Done(p) THEN GoTo(r, "close") ELSE Finish(r)
    /\ AnswersUnchanged /\ UNCHANGED <<status, progress>> /\ PagesUnchanged

\* ... and closes the room if there is no one, unless somebody has.
AutoFinish(r) ==
    /\ requests[r].pc = "close"
    /\ status' = "finished"
    /\ Finish(r)
    /\ AnswersUnchanged /\ UNCHANGED progress /\ PagesUnchanged

\* Either of them fails on the database: reported, not retried.
FinishFails(r) ==
    /\ r \in Finishers
    /\ Finish(r)
    /\ cut' = TRUE
    /\ AnswersUnchanged /\ UNCHANGED <<status, progress, loads>>

SoloNext ==
    \/ StartSoloGame
    \/ CloseSoloRoom
    \/ SoloRestart
    \/ \E p \in Players : TimeUpFor(p)
    \/ \E f \in Loads, p \in Players : LoadQuestion(f, p)
    \/ \E f \in Loads : StartTimer(f)
    \/ \E r \in Requests, p \in Players, q \in Questions : SoloSubmit(r, p, q)
    \/ \E r \in Requests : SoloSubmitTx(r) \/ SoloSubmitFails(r) \/ CheckLeft(r) \/ AutoFinish(r)
                         \/ FinishFails(r)
    \/ \E r \in Requests : Release(r) /\ UNCHANGED <<status, progress>> /\ PagesUnchanged
    \/ ForgetClaim /\ UNCHANGED <<status, progress>> /\ PagesUnchanged

SoloSpec == SoloInit /\ [][SoloNext]_soloVars

SoloTypeOK ==
    /\ ClaimsTypeOK
    /\ status \in {"waiting", "active", "finished"}
    /\ progress \in [Players -> Progress]
    /\ loads \in [Loads -> Players \cup {None}]
    /\ cut \in BOOLEAN

-----------------------------------------------------------------------------
(* Properties.                                                             *)

\* A player has answered exactly the questions before the one they are on, and all of
\* them once they are done: a repeat, a lost mark, a rollback or a late answer never
\* skips a question nor asks one twice.
Passed(p) == IF Done(p) THEN Questions ELSE 1 .. (progress[p].current - 1)
ProgressMatchesLog ==
    (status = "active" \/ log # {}) =>
        \A p \in Players : {q \in Questions : Answered(p, q)} = Passed(p)

\* Once the room is finished no submit on its way scores any more (the SHARE lock on
\* the room row that finalizeRoom's claim waits for).
SoloFinishIsFinal ==
    [][status = "finished" => status' = "finished" /\ UNCHANGED <<log, score>>]_soloVars

\* The room closes on its own only when nobody is left with a question.
AutoFinishLeavesNobody ==
    \A r \in Requests : requests[r].pc = "close" => \A p \in Players : Done(p)

\* When the last ones finish together, one of them is still going to close the room,
\* unless a finisher was lost between its commit and its claim; then it is left to the
\* host's End button and the sweep.
LastFinisherCloses ==
    (status = "active" /\ ~cut /\ \A p \in Players : Done(p)) => Finishers # {}
=============================================================================
