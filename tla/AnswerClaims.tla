---------------------------- MODULE AnswerClaims ----------------------------
(***************************************************************************)
(* What SubmitAnswer does around its database transaction, in both game    *)
(* modes: a mark in Redis says "this player has answered this question"    *)
(* before the database is asked (answer_claim.go), and is taken back when  *)
(* nothing was recorded.  The mark is only an optimisation: Redis may be   *)
(* down, restart or evict it, and the release may fail.  The guarantee is  *)
(* the unique index of answer_logs.  HostPacedGame and SoloGame extend     *)
(* this module with the transaction of their mode.                         *)
(***************************************************************************)
EXTENDS Integers, FiniteSets, FiniteSetsExt

CONSTANTS
    Players,
    NumQuestions,   \* questions of the quiz, in order
    Points,         \* what an answer may earn, 0 for a wrong or late one
    Requests,       \* submits in flight at once (bound)
    None

ASSUME QuizAssumption == /\ NumQuestions \in Nat \ {0}
                         /\ Points \subseteq Nat
                         /\ None \notin Players

VARIABLES
    claims,     \* marks held in Redis
    log,        \* answer_logs
    score,      \* players.score
    requests    \* SubmitAnswer calls

Questions == 1 .. NumQuestions

Answer == [player: Players, question: Questions, points: Points]

\* tx: marked, transaction to come; release: rolled back, mark to be taken back;
\* check, close: solo mode's auto-finish.  `late' compares the moment of arrival
\* with the deadline, 2 s of grace included.
Request == [pc: {"idle", "tx", "release", "check", "close"}, player: Players \cup {None},
            question: 0 .. NumQuestions, late: BOOLEAN, claimed: BOOLEAN]

Answered(p, q) == \E a \in log : a.player = p /\ a.question = q
AnswersOf(p) == {a \in log : a.player = p}

GoTo(r, pc) == requests' = [requests EXCEPT ![r].pc = pc]

IdleRequest == [pc |-> "idle", player |-> None, question |-> 0,
                late |-> FALSE, claimed |-> FALSE]
Finish(r) == requests' = [requests EXCEPT ![r] = IdleRequest]

ClaimsInit ==
    /\ claims = {}
    /\ log = {}
    /\ score = [p \in Players |-> 0]
    /\ requests = [r \in Requests |-> IdleRequest]

Begin(r, p, q, late, claimed) ==
    requests' = [requests EXCEPT ![r] = [pc |-> "tx", player |-> p, question |-> q,
                                         late |-> late, claimed |-> claimed]]

\* SubmitAnswer up to the transaction: SETNX sets the mark (a mark that is there
\* already refuses the answer as a repeat and nothing changes) ...
SubmitClaiming(r, p, q, late) ==
    /\ requests[r].pc = "idle"
    /\ <<p, q>> \notin claims
    /\ claims' = claims \cup {<<p, q>>}
    /\ Begin(r, p, q, late, TRUE)
    /\ UNCHANGED <<log, score>>

\* ... or Redis does not answer, having set the mark or not, and answer_logs is asked
\* instead.  A mark set this way counts as nobody's: no refusal takes it back.
SubmitUnclaimed(r, p, q, late) ==
    /\ requests[r].pc = "idle"
    /\ ~Answered(p, q)
    /\ claims' \in {claims, claims \cup {<<p, q>>}}
    /\ Begin(r, p, q, late, FALSE)
    /\ UNCHANGED <<log, score>>

\* The transaction recorded nothing: a mark of our own has to go.
Refuse(r) ==
    /\ IF requests[r].claimed THEN GoTo(r, "release") ELSE Finish(r)
    /\ UNCHANGED <<claims, log, score>>

\* Mutant: the score update is not part of what is rolled back.
RefuseRepeatKeepingScore(r) ==
    /\ Answered(requests[r].player, requests[r].question)
    /\ Finish(r)
    /\ score' = [score EXCEPT ![requests[r].player] = @ + 1]
    /\ UNCHANGED <<claims, log>>

\* The insert hit the unique index: rolled back, and the mark is right to stay.
RefuseRepeat(r) ==
    /\ Answered(requests[r].player, requests[r].question)
    /\ Finish(r)
    /\ UNCHANGED <<claims, log, score>>

\* Mutant: no unique index.
RecordAgain(p, q, points) ==
    /\ log' = log \cup {[player |-> p, question |-> q, points |-> points]}
    /\ score' = [score EXCEPT ![p] = @ + points]
    /\ UNCHANGED claims

\* Score and log entry are written together.
Record(p, q, points) ==
    /\ ~Answered(p, q)
    /\ log' = log \cup {[player |-> p, question |-> q, points |-> points]}
    /\ score' = [score EXCEPT ![p] = @ + points]
    /\ UNCHANGED claims

\* releaseAnswer is best effort: DEL may fail, and the mark stays.
Release(r) ==
    /\ requests[r].pc = "release"
    /\ \/ claims' = claims \ {<<requests[r].player, requests[r].question>>}
       \/ UNCHANGED claims
    /\ Finish(r)
    /\ UNCHANGED <<log, score>>

\* Eviction, a Redis restart or the end of answerClaimTTL.
ForgetClaim ==
    /\ \E c \in claims : claims' = claims \ {c}
    /\ UNCHANGED <<log, score, requests>>

ClaimsTypeOK ==
    /\ claims \subseteq Players \X Questions
    /\ log \subseteq Answer
    /\ score \in [Players -> Nat]
    /\ requests \in [Requests -> Request]

-----------------------------------------------------------------------------
(* Properties common to both modes.                                        *)

\* However often an answer is sent, and whatever Redis forgets, it is recorded once.
OneAnswerPerQuestion ==
    \A a, b \in log : (a.player = b.player /\ a.question = b.question) => a = b

\* A player's score is what their recorded answers earned, to the point: a repeat, a
\* rolled back submit or two at once never count twice (recordClassicAnswer).
PointsOf(answers) == MapThenSumSet(LAMBDA a : a.points, answers)
ScoreIsSumOfAnswers == \A p \in Players : score[p] = PointsOf(AnswersOf(p))

\* Not kept by the code (README, section 5): a mark nobody is working on stands for a
\* recorded answer.  answer_claim.go says of a mark whose release failed: "That is the
\* same outcome as the answer having gone through".
InFlight(p, q) == \E r \in Requests : /\ requests[r].pc \in {"tx", "release"}
                                      /\ requests[r].player = p
                                      /\ requests[r].question = q
ClaimMeansRecorded ==
    \A c \in claims : Answered(c[1], c[2]) \/ InFlight(c[1], c[2])
=============================================================================
