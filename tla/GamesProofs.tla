----------------------------- MODULE GamesProofs -----------------------------
(***************************************************************************)
(* The two game modes, for any number of players, questions and requests.  *)
(* What both rest on comes first: a request past the mark knows its player *)
(* and question, an answer is recorded once whatever Redis forgets, and a  *)
(* score is the sum of a finite set of answers, which grows one by one.    *)
(* The host-paced room adds that a finished room has no question up and    *)
(* that the question up is one the room has reached; the solo room that    *)
(* a game not yet started has neither answers nor finishers.               *)
(***************************************************************************)
EXTENDS HostPacedGame, SoloGame, SumLemmas

\* A request that is not idle is about a player and a question.
RequestInv ==
    /\ requests \in [Requests -> Request]
    /\ \A r \in Requests : requests[r].pc # "idle" =>
          requests[r].player \in Players /\ requests[r].question \in Questions

ScoreInv == \A p \in Players : IsFiniteSet(AnswersOf(p)) /\ score[p] = PointsOf(AnswersOf(p))

AnswerInv ==
    /\ log \subseteq Answer
    /\ score \in [Players -> Nat]
    /\ OneAnswerPerQuestion
    /\ ScoreInv

ClaimsInv == claims \subseteq Players \X Questions /\ RequestInv /\ AnswerInv

Pc == {"idle", "tx", "release", "check", "close"}

-----------------------------------------------------------------------------
(* Requests.                                                               *)

LEMMA QuestionFacts ==
    /\ NumQuestions \in Nat /\ NumQuestions > 0
    /\ \A q \in Questions : q \in Nat /\ q \in 0 .. NumQuestions /\ q # 0
BY QuizAssumption DEF Questions

LEMMA IdleIsRequest == IdleRequest \in Request /\ IdleRequest.pc = "idle"
<1>1. None \in Players \cup {None} /\ 0 \in 0 .. NumQuestions
  BY QuestionFacts
<1> QED BY <1>1, Zenon DEF IdleRequest, Request

LEMMA RequestWritten ==
    ASSUME RequestInv, NEW r \in Requests, NEW new \in Request,
           new.pc # "idle" => new.player \in Players /\ new.question \in Questions,
           requests' = [requests EXCEPT ![r] = new]
    PROVE  /\ RequestInv' /\ requests'[r] = new
           /\ \A s \in Requests \ {r} : requests'[s] = requests[s]
BY DEF RequestInv

LEMMA FinishKeeps ==
    ASSUME RequestInv, NEW r \in Requests, Finish(r)
    PROVE  /\ RequestInv' /\ requests'[r].pc = "idle"
           /\ \A s \in Requests \ {r} : requests'[s] = requests[s]
<1>1. requests' = [requests EXCEPT ![r] = IdleRequest]
  BY DEF Finish
<1>2. IdleRequest.pc # "idle" => IdleRequest.player \in Players /\ IdleRequest.question \in Questions
  BY IdleIsRequest
<1> QED BY <1>1, <1>2, IdleIsRequest, RequestWritten

LEMMA GoToKeeps ==
    ASSUME RequestInv, NEW r \in Requests, NEW pc \in Pc, requests[r].pc # "idle", GoTo(r, pc)
    PROVE  /\ RequestInv' /\ requests'[r].pc = pc
           /\ \A s \in Requests \ {r} : requests'[s] = requests[s]
<1> DEFINE new == [requests[r] EXCEPT !.pc = pc]
<1>1. requests[r] \in Request
  BY DEF RequestInv
<1>2. new \in Request
  BY <1>1 DEF Request, Pc
<1>3. new.pc = pc /\ new.player = requests[r].player /\ new.question = requests[r].question
  BY <1>1 DEF Request
<1>4. new.player \in Players /\ new.question \in Questions
  BY <1>3 DEF RequestInv
<1>5. requests' = [requests EXCEPT ![r] = new]
  BY DEF GoTo
<1> HIDE DEF new
<1> QED BY <1>2, <1>3, <1>4, <1>5, RequestWritten

\* A request that is refused ends, or has its mark to take back.
LEMMA RefuseKeeps ==
    ASSUME ClaimsInv, NEW r \in Requests, requests[r].pc # "idle", Refuse(r)
    PROVE  /\ ClaimsInv' /\ UNCHANGED <<claims, log, score>>
           /\ requests'[r].pc \in {"idle", "release"}
           /\ \A s \in Requests \ {r} : requests'[s] = requests[s]
<1>1. UNCHANGED <<claims, log, score>> /\ (GoTo(r, "release") \/ Finish(r))
  BY DEF Refuse
<1>2. /\ RequestInv' /\ requests'[r].pc \in {"idle", "release"}
      /\ \A s \in Requests \ {r} : requests'[s] = requests[s]
  BY <1>1, GoToKeeps, FinishKeeps DEF ClaimsInv, Pc
<1> QED BY <1>1, <1>2 DEF ClaimsInv, AnswerInv, OneAnswerPerQuestion, ScoreInv, AnswersOf

LEMMA RepeatKeeps ==
    ASSUME ClaimsInv, NEW r \in Requests, RefuseRepeat(r)
    PROVE  ClaimsInv' /\ UNCHANGED <<claims, log, score>>
<1>1. UNCHANGED <<claims, log, score>> /\ RequestInv'
  BY FinishKeeps DEF RefuseRepeat, ClaimsInv
<1> QED BY <1>1 DEF ClaimsInv, AnswerInv, OneAnswerPerQuestion, ScoreInv, AnswersOf

\* Either way into the transaction.
LEMMA SubmitKeeps ==
    ASSUME ClaimsInv, NEW r \in Requests, NEW p \in Players, NEW q \in Questions,
           NEW late \in BOOLEAN,
           SubmitClaiming(r, p, q, late) \/ SubmitUnclaimed(r, p, q, late)
    PROVE  /\ ClaimsInv' /\ UNCHANGED <<log, score>>
           /\ requests[r].pc = "idle" /\ requests'[r].pc = "tx"
           /\ \A s \in Requests \ {r} : requests'[s] = requests[s]
<1>1. PICK claimed \in BOOLEAN : Begin(r, p, q, late, claimed)
  BY DEF SubmitClaiming, SubmitUnclaimed
<1> DEFINE new == [pc |-> "tx", player |-> p, question |-> q, late |-> late, claimed |-> claimed]
<1>2. p \in Players \cup {None} /\ q \in 0 .. NumQuestions
  BY QuestionFacts
<1>3. new \in Request
  BY <1>2, Zenon DEF Request
<1>4. new.pc = "tx" /\ new.player \in Players /\ new.question \in Questions
  OBVIOUS
<1>5. requests' = [requests EXCEPT ![r] = new]
  BY <1>1 DEF Begin
<1> HIDE DEF new
<1>6. /\ RequestInv' /\ requests'[r].pc = "tx"
      /\ \A s \in Requests \ {r} : requests'[s] = requests[s]
  BY <1>3, <1>4, <1>5, RequestWritten DEF ClaimsInv
<1>7. /\ UNCHANGED <<log, score>> /\ requests[r].pc = "idle"
      /\ claims' = claims \/ claims' = claims \cup {<<p, q>>}
  BY DEF SubmitClaiming, SubmitUnclaimed
<1>8. claims' \subseteq Players \X Questions
  BY <1>7 DEF ClaimsInv
<1> QED BY <1>6, <1>7, <1>8 DEF ClaimsInv, AnswerInv, OneAnswerPerQuestion, ScoreInv, AnswersOf

LEMMA ReleaseKeeps ==
    ASSUME ClaimsInv, NEW r \in Requests, Release(r)
    PROVE  /\ ClaimsInv' /\ UNCHANGED <<log, score>>
           /\ requests[r].pc = "release" /\ requests'[r].pc = "idle"
           /\ \A s \in Requests \ {r} : requests'[s] = requests[s]
<1>1. /\ RequestInv' /\ requests'[r].pc = "idle"
      /\ \A s \in Requests \ {r} : requests'[s] = requests[s]
  BY FinishKeeps DEF Release, ClaimsInv
<1>2. UNCHANGED <<log, score>> /\ claims' \subseteq claims /\ requests[r].pc = "release"
  BY DEF Release
<1> QED BY <1>1, <1>2 DEF ClaimsInv, AnswerInv, OneAnswerPerQuestion, ScoreInv, AnswersOf

LEMMA ForgetKeeps ==
    ASSUME ClaimsInv, ForgetClaim
    PROVE  ClaimsInv' /\ UNCHANGED <<log, score, requests>>
<1>1. claims' \subseteq claims /\ UNCHANGED <<log, score, requests>>
  BY DEF ForgetClaim
<1> QED BY <1>1 DEF ClaimsInv, RequestInv, AnswerInv, OneAnswerPerQuestion, ScoreInv, AnswersOf

\* The points of a set of answers, as a sum of a function.
LEMMA PointsTotal ==
    ASSUME NEW S, IsFiniteSet(S)
    PROVE  PointsOf(S) = Total([a \in S |-> a.points], S)
<1> DEFINE f == [a \in S |-> a.points]
           Recurs(g) == g = [s \in SUBSET S |->
                               IF s = {} THEN 0 ELSE First(s).points + g[s \ {First(s)}]]
           W == CHOOSE g : Recurs(g)
<1>1. PointsOf(S) = W[S]
  BY DEF PointsOf, MapThenSumSet, MapThenFoldSet, First
<1>2. \A s \in SUBSET S : s # {} => f[First(s)] = First(s).points
  BY FirstIsIn
<1>3. \A g : SumsUp(f, S, g) <=> Recurs(g)
  BY <1>2 DEF SumsUp
<1>4. PICK g : SumsUp(f, S, g) /\ Total(f, S) = g[S]
  <2> HIDE DEF f
  <2> QED BY TotalSums
<1>5. SumsUp(f, S, W)
  <2>1. \E h : Recurs(h)
    BY <1>3, <1>4
  <2>2. Recurs(W)
    <3> HIDE DEF Recurs
    <3> QED BY <2>1
  <2> HIDE DEF f, W, Recurs
  <2> QED BY <1>3, <2>2
<1>6. W[S] = g[S]
  <2> HIDE DEF f, W, Recurs
  <2>1. S \subseteq S
    OBVIOUS
  <2> QED BY <1>4, <1>5, <2>1, SumsAgree
<1> QED BY <1>1, <1>4, <1>6

\* One more answer brings its own points.
LEMMA PointsAdd ==
    ASSUME NEW S, IsFiniteSet(S), NEW new, new \notin S,
           \A a \in S \cup {new} : a.points \in Nat
    PROVE  PointsOf(S \cup {new}) = PointsOf(S) + new.points
<1> DEFINE f == [a \in S |-> a.points]
           h == [a \in S \cup {new} |-> a.points]
<1>1. IsFiniteSet(S \cup {new})
  BY FS_AddElement
<1>2. PointsOf(S) = Total(f, S) /\ PointsOf(S \cup {new}) = Total(h, S \cup {new})
  BY <1>1, PointsTotal
<1>3. /\ \A a \in S : h[a] = f[a]
      /\ \A a \in S \cup {new} : h[a] \in Int
      /\ h[new] = new.points
  OBVIOUS
<1> HIDE DEF f, h
<1>4. Total(h, S) = Total(f, S)
  BY <1>3, TotalSame
<1>5. Total(h, S \cup {new}) = Total(h, S) + h[new]
  BY <1>3, TotalAdds
<1> QED BY <1>2, <1>3, <1>4, <1>5

\* No answers, no points.
LEMMA NoPoints == PointsOf({}) = 0
<1>1. PointsOf({}) = Total([a \in {} |-> a.points], {})
  BY PointsTotal, FS_EmptySet
<1> QED BY <1>1, TotalOfNone

\* Score and log move together, and one answer is new.
LEMMA RecordKeeps ==
    ASSUME AnswerInv, NEW p \in Players, NEW q \in Questions, NEW points \in Points,
           Record(p, q, points)
    PROVE  /\ AnswerInv'
           /\ log' = log \cup {[player |-> p, question |-> q, points |-> points]}
<1> DEFINE new == [player |-> p, question |-> q, points |-> points]
<1>1. new \in Answer /\ new.player = p /\ new.question = q
  BY DEF Answer
<1>2. log' = log \cup {new} /\ ~Answered(p, q) /\ score' = [score EXCEPT ![p] = @ + points]
  BY DEF Record
<1>3. score' \in [Players -> Nat]
  BY <1>2, QuizAssumption DEF AnswerInv
<1> HIDE DEF new
<1>4. OneAnswerPerQuestion'
  BY <1>1, <1>2 DEF AnswerInv, OneAnswerPerQuestion, ScoreInv, AnswersOf, Answered
<1>5. log' \subseteq Answer
  BY <1>1, <1>2 DEF AnswerInv
<1>6. ASSUME NEW x \in Players
      PROVE  IsFiniteSet((AnswersOf(x))') /\ score'[x] = PointsOf((AnswersOf(x))')
  <2> DEFINE S == AnswersOf(x)
  <2>1. IsFiniteSet(S) /\ score[x] = PointsOf(S)
    BY DEF AnswerInv, ScoreInv
  <2>2. CASE x = p
    <3>1. (AnswersOf(x))' = S \cup {new} /\ new \notin S
      BY <1>1, <1>2, <2>2 DEF AnswersOf, Answered
    <3>2. score'[x] = score[x] + points /\ new.points = points
      BY <1>2, <2>2 DEF AnswerInv, new
    <3>3. \A a \in S \cup {new} : a.points \in Nat
      BY <1>1, QuizAssumption DEF AnswerInv, AnswersOf, Answer
    <3> HIDE DEF S
    <3>4. PointsOf(S \cup {new}) = PointsOf(S) + new.points
      BY <2>1, <3>1, <3>3, PointsAdd
    <3> QED BY <2>1, <3>1, <3>2, <3>4, FS_AddElement
  <2>3. CASE x # p
    <3>1. (AnswersOf(x))' = S
      BY <1>1, <1>2, <2>3 DEF AnswersOf
    <3>2. score'[x] = score[x]
      BY <1>2, <2>3 DEF AnswerInv
    <3> QED BY <2>1, <3>1, <3>2
  <2> QED BY <2>2, <2>3
<1> QED BY <1>2, <1>3, <1>4, <1>5, <1>6 DEF AnswerInv, ScoreInv, new

\* A new deadline changes nobody's request but its lateness.
LEMMA LatenessKeeps ==
    ASSUME RequestInv, NEW S \in SUBSET Requests,
           requests' = [r \in Requests |-> IF r \in S THEN [requests[r] EXCEPT !.late = FALSE]
                                                      ELSE requests[r]]
    PROVE  /\ RequestInv'
           /\ \A r \in Requests : requests'[r].pc = requests[r].pc
<1>1. ASSUME NEW r \in Requests
      PROVE  /\ requests'[r] \in Request /\ requests'[r].pc = requests[r].pc
             /\ requests'[r].player = requests[r].player
             /\ requests'[r].question = requests[r].question
  <2>1. requests[r] \in Request
    BY DEF RequestInv
  <2>2. /\ [requests[r] EXCEPT !.late = FALSE].pc = requests[r].pc
        /\ [requests[r] EXCEPT !.late = FALSE].player = requests[r].player
        /\ [requests[r] EXCEPT !.late = FALSE].question = requests[r].question
        /\ [requests[r] EXCEPT !.late = FALSE] \in Request
    BY <2>1, Zenon DEF Request
  <2> QED BY <2>1, <2>2
<1>2. requests' \in [Requests -> Request]
  BY <1>1
<1> QED BY <1>1, <1>2 DEF RequestInv

LEMMA NoRequests ==
    ASSUME requests' = [r \in Requests |-> IdleRequest]
    PROVE  RequestInv' /\ \A r \in Requests : requests'[r].pc = "idle"
BY IdleIsRequest DEF RequestInv

LEMMA ClaimsBegin ==
    ASSUME ClaimsInit
    PROVE  ClaimsInv /\ log = {} /\ \A r \in Requests : requests[r].pc = "idle"
<1>1. \A p \in Players : AnswersOf(p) = {} /\ score[p] = 0
  BY DEF ClaimsInit, AnswersOf
<1>2. ScoreInv
  BY <1>1, NoPoints, FS_EmptySet DEF ScoreInv
<1> QED BY <1>2, IdleIsRequest DEF ClaimsInit, ClaimsInv, RequestInv, AnswerInv, OneAnswerPerQuestion

-----------------------------------------------------------------------------
(* The host-paced room.                                                    *)

\* The question that is up is one the room has reached, and none is after the end.
ReachInv ==
    /\ room.current <= room.index
    /\ room.status = "finished" => room.current = 0

RoomInv == room \in Room /\ host \in [HostRequests -> HostRequest] /\ seated \subseteq Players

IInv == ClaimsInv /\ RoomInv /\ ReachInv

\* What a step does not do: answer after the end, or answer ahead of the host.
AnswersInOrder ==
    /\ room.status = "finished" => room'.status = "finished" /\ UNCHANGED <<log, score>>
    /\ \A q \in Questions : room.index < q =>
          {a \in log' : a.question = q} = {a \in log : a.question = q}

Good == IInv' /\ AnswersInOrder

LEMMA RoomIs ==
    ASSUME RoomInv
    PROVE  /\ room.status \in {"waiting", "active", "finished"}
           /\ room.index \in 0 .. NumQuestions /\ room.current \in 0 .. NumQuestions
           /\ room.index \in Nat /\ room.current \in Nat
BY QuestionFacts DEF RoomInv, Room

\* The steps of the host, the clock and the end of the room.
LEMMA RoomMoves ==
    ASSUME IInv, NEW new \in Room, room' = new,
           new.current <= new.index,
           new.status = "finished" => new.current = 0,
           room.status = "finished" => new.status = "finished",
           RequestInv', host' \in [HostRequests -> HostRequest],
           UNCHANGED <<claims, log, score, seated>>
    PROVE  Good
BY DEF IInv, ClaimsInv, AnswerInv, OneAnswerPerQuestion, ScoreInv, AnswersOf, RoomInv, ReachInv, Good, AnswersInOrder

LEMMA StartKeeps == ASSUME IInv, StartGame PROVE Good
<1> DEFINE new == [room EXCEPT !.status = "active", !.index = 0, !.current = 0]
<1>1. 0 \in 0 .. NumQuestions /\ 0 <= 0
  BY QuestionFacts
<1>2. new \in Room /\ new.status = "active" /\ new.index = 0 /\ new.current = 0
  BY <1>1 DEF IInv, RoomInv, Room
<1>3. room' = new /\ room.status = "waiting" /\ UNCHANGED <<claims, log, score, requests, host, seated>>
  BY DEF StartGame
<1> HIDE DEF new
<1>4. RequestInv' /\ host' \in [HostRequests -> HostRequest]
  BY <1>3 DEF IInv, ClaimsInv, RequestInv, RoomInv
<1> QED BY <1>1, <1>2, <1>3, <1>4, RoomMoves

LEMMA CloseKeeps == ASSUME IInv, CloseRoom PROVE Good
<1> DEFINE new == [room EXCEPT !.status = "finished", !.current = 0]
<1>1. 0 \in 0 .. NumQuestions /\ 0 <= room.index
  BY QuestionFacts, RoomIs DEF IInv
<1>2. new \in Room /\ new.status = "finished" /\ new.index = room.index /\ new.current = 0
  BY <1>1 DEF IInv, RoomInv, Room
<1>3. room' = new /\ UNCHANGED <<claims, log, score, requests, host, seated>>
  BY DEF CloseRoom
<1> HIDE DEF new
<1>4. RequestInv' /\ host' \in [HostRequests -> HostRequest]
  BY <1>3 DEF IInv, ClaimsInv, RequestInv, RoomInv
<1> QED BY <1>1, <1>2, <1>3, <1>4, RoomMoves

\* TimeUp and EndWrite only touch the deadline.
LEMMA DeadlineKeeps ==
    ASSUME IInv, NEW until \in {"none", "running", "passed"}, room' = [room EXCEPT !.until = until],
           host' \in [HostRequests -> HostRequest],
           UNCHANGED <<claims, log, score, requests, seated>>
    PROVE  Good
<1> DEFINE new == [room EXCEPT !.until = until]
<1>1. /\ new \in Room /\ new.status = room.status /\ new.index = room.index
      /\ new.current = room.current
  BY DEF IInv, RoomInv, Room
<1> HIDE DEF new
<1>2. RequestInv'
  BY DEF IInv, ClaimsInv, RequestInv
<1>3. room' = new /\ new.current <= new.index /\ (new.status = "finished" => new.current = 0)
  BY <1>1 DEF new, IInv, ReachInv
<1> QED BY <1>1, <1>2, <1>3, RoomMoves

LEMMA HostKeeps ==
    ASSUME IInv, NEW h \in HostRequests, NextRead(h) \/ NextWrite(h) \/ EndRead(h) \/ EndWrite(h)
    PROVE  Good
<1>1. HostIdle \in HostRequest
  BY QuestionFacts DEF HostIdle, HostRequest
<1>2. host[h] \in HostRequest /\ host[h].at \in 0 .. NumQuestions
  BY DEF IInv, RoomInv, HostRequest
<1>3. CASE UNCHANGED <<claims, log, score, requests, room, seated>>
  <2>1. host' \in [HostRequests -> HostRequest]
    <3>1. ASSUME NextRead(h)
          PROVE  [pc |-> "next", at |-> room.index + 1] \in HostRequest
      <4>1. room.index + 1 \in 0 .. NumQuestions
        BY <3>1, RoomIs, QuestionFacts DEF NextRead, IInv
      <4> QED BY <4>1 DEF HostRequest
    <3>2. ASSUME EndRead(h)
          PROVE  [pc |-> "end", at |-> 0] \in HostRequest
      BY QuestionFacts DEF HostRequest
    <3> QED BY <1>1, <3>1, <3>2 DEF NextRead, NextWrite, EndRead, EndWrite, IInv, RoomInv
  <2> QED BY <1>3, <2>1 DEF IInv, ClaimsInv, RequestInv, AnswerInv, OneAnswerPerQuestion, ScoreInv, AnswersOf, RoomInv,
                            ReachInv, Good, AnswersInOrder
<1>4. CASE EndWrite(h) /\ room' = [room EXCEPT !.until = "none"]
  <2>1. host' \in [HostRequests -> HostRequest]
    BY <1>1, <1>4 DEF EndWrite, IInv, RoomInv
  <2> QED BY <1>4, <2>1, DeadlineKeeps DEF EndWrite
<1>5. CASE NextWrite(h) /\ room.status = "active" /\ ~UNCHANGED <<room, requests>>
  <2> DEFINE q == host[h].at
             new == [room EXCEPT !.index = q, !.current = q, !.until = "running"]
             S == {r \in Requests : requests[r].question = q}
  <2>1. host' \in [HostRequests -> HostRequest]
    BY <1>1, <1>5 DEF NextWrite, IInv, RoomInv
  <2>2. /\ room' = new /\ UNCHANGED <<claims, log, score, seated>>
        /\ requests' = OnTimeAgain(q)
    BY <1>5 DEF NextWrite
  <2>3. /\ new \in Room /\ new.status = "active" /\ new.index = q /\ new.current = q
    BY <1>2, <1>5 DEF IInv, RoomInv, Room
  <2>4. q <= q
    BY <1>2, QuestionFacts
  <2>5. RequestInv'
    <3>1. requests' = [r \in Requests |-> IF r \in S THEN [requests[r] EXCEPT !.late = FALSE]
                                                     ELSE requests[r]]
      BY <2>2 DEF OnTimeAgain
    <3> QED BY <3>1, LatenessKeeps DEF IInv, ClaimsInv
  <2> HIDE DEF new
  <2> QED BY <1>5, <2>1, <2>2, <2>3, <2>4, <2>5, RoomMoves
<1> QED BY <1>3, <1>4, <1>5 DEF NextRead, NextWrite, EndRead, EndWrite

\* Steps that leave the room and the answers alone.
LEMMA ClaimsMove ==
    ASSUME IInv, ClaimsInv', UNCHANGED <<log, score, room, host>>, seated' \subseteq seated
    PROVE  Good
BY DEF IInv, RoomInv, ReachInv, Good, AnswersInOrder

LEMMA SubmitMoves ==
    ASSUME IInv, NEW r \in Requests, NEW p \in Players, NEW q \in Questions, Submit(r, p, q)
    PROVE  Good
<1>1. Late(q) \in BOOLEAN
  BY DEF Late
<1>2. SubmitClaiming(r, p, q, Late(q)) \/ SubmitUnclaimed(r, p, q, Late(q))
  BY DEF Submit
<1>3. ClaimsInv' /\ UNCHANGED <<log, score>>
  BY <1>1, <1>2, SubmitKeeps DEF IInv
<1> QED BY <1>3, ClaimsMove DEF Submit

LEMMA FailureKeeps ==
    ASSUME IInv, NEW r \in Requests, SubmitFails(r)
    PROVE  Good
<1>1. Refuse(r) /\ requests[r].pc # "idle" /\ UNCHANGED <<room, host, seated>>
  BY DEF SubmitFails
<1> QED BY <1>1, RefuseKeeps, ClaimsMove DEF IInv

LEMMA UnseatKeeps ==
    ASSUME IInv, NEW p \in Players, Unseat(p)
    PROVE  Good
<1>1. UNCHANGED <<claims, log, score, requests, room, host>> /\ seated' \subseteq seated
  BY DEF Unseat
<1>2. ClaimsInv'
  BY <1>1 DEF IInv, ClaimsInv, RequestInv, AnswerInv, OneAnswerPerQuestion, ScoreInv, AnswersOf
<1> QED BY <1>1, <1>2, ClaimsMove

\* The transaction records an answer to the question that is up, of an active room.
LEMMA TransactionKeeps ==
    ASSUME IInv, NEW r \in Requests, SubmitTx(r)
    PROVE  Good
<1> DEFINE p == requests[r].player
           q == requests[r].question
<1>1. requests[r].pc # "idle" /\ p \in Players /\ q \in Questions /\ UNCHANGED <<room, host, seated>>
  BY DEF SubmitTx, IInv, ClaimsInv, RequestInv
<1>2. CASE Refuse(r)
  BY <1>1, <1>2, RefuseKeeps, ClaimsMove DEF IInv
<1>3. CASE RefuseRepeat(r)
  BY <1>1, <1>3, RepeatKeeps, ClaimsMove DEF IInv
<1>4. ASSUME NEW points \in Points, Accepts(q, requests[r].late), Record(p, q, points), Finish(r)
      PROVE  Good
  <2> DEFINE new == [player |-> p, question |-> q, points |-> points]
  <2>1. room.status = "active" /\ room.current = q
    BY <1>4 DEF Accepts
  <2>2. AnswerInv' /\ log' = log \cup {new} /\ new.question = q
    BY <1>1, <1>4, RecordKeeps DEF IInv, ClaimsInv
  <2>3. RequestInv' /\ UNCHANGED claims
    BY <1>4, FinishKeeps DEF IInv, ClaimsInv, Record
  <2>4. ClaimsInv'
    BY <2>2, <2>3 DEF IInv, ClaimsInv
  <2> HIDE DEF new, q
  <2>5. ASSUME NEW x \in Questions, room.index < x
        PROVE  {a \in log' : a.question = x} = {a \in log : a.question = x}
    <3>1. x # q
      BY <2>1, <2>5, RoomIs, QuestionFacts DEF IInv, ReachInv
    <3> QED BY <2>2, <3>1
  <2>6. AnswersInOrder
    BY <2>1, <2>5 DEF AnswersInOrder
  <2> QED BY <1>1, <2>4, <2>6 DEF IInv, RoomInv, ReachInv, Good
<1> QED BY <1>2, <1>3, <1>4 DEF SubmitTx

LEMMA RestartKeeps == ASSUME IInv, Restart PROVE Good
<1>1. RequestInv' /\ UNCHANGED <<claims, log, score, room, seated>>
  BY NoRequests DEF Restart
<1>2. HostIdle \in HostRequest
  BY QuestionFacts DEF HostIdle, HostRequest
<1>3. host' \in [HostRequests -> HostRequest]
  BY <1>2 DEF Restart
<1>4. room \in Room /\ room' = room
  BY <1>1 DEF IInv, RoomInv
<1> QED BY <1>1, <1>3, <1>4, RoomMoves DEF IInv, ReachInv

LEMMA StepIsGood == ASSUME IInv, Next PROVE Good
<1>1. CASE TimeUp
  <2>1. host' \in [HostRequests -> HostRequest] /\ room' = [room EXCEPT !.until = "passed"]
    BY <1>1 DEF TimeUp, IInv, RoomInv
  <2> QED BY <1>1, <2>1, DeadlineKeeps DEF TimeUp
<1>2. ASSUME NEW r \in Requests, Release(r), UNCHANGED <<room, host, seated>>
      PROVE  Good
  BY <1>2, ReleaseKeeps, ClaimsMove DEF IInv
<1>3. ASSUME ForgetClaim, UNCHANGED <<room, host, seated>>
      PROVE  Good
  BY <1>3, ForgetKeeps, ClaimsMove DEF IInv
<1> QED BY <1>1, <1>2, <1>3, StartKeeps, CloseKeeps, RestartKeeps, HostKeeps, UnseatKeeps,
           SubmitMoves, FailureKeeps, TransactionKeeps DEF Next

LEMMA InitInv == Init => IInv
<1> SUFFICES ASSUME Init
             PROVE  IInv
  OBVIOUS
<1>1. 0 \in 0 .. NumQuestions /\ 0 <= 0
  BY QuestionFacts
<1>2. room \in Room /\ room.current = 0 /\ room.index = 0
  BY <1>1 DEF Init, Room
<1>3. host \in [HostRequests -> HostRequest]
  BY <1>1 DEF Init, HostIdle, HostRequest
<1> QED BY <1>1, <1>2, <1>3, ClaimsBegin DEF Init, IInv, RoomInv, ReachInv

\* The types, one answer per question, and no question up that the room has not reached.
THEOREM HostPacedInvariant == Spec => []IInv
<1>1. IInv /\ [Next]_vars => IInv'
  <2>1. ASSUME IInv, UNCHANGED vars
        PROVE  IInv'
    BY <2>1 DEF vars, IInv, ClaimsInv, RequestInv, AnswerInv, OneAnswerPerQuestion, ScoreInv, AnswersOf, RoomInv, ReachInv
  <2> QED BY <2>1, StepIsGood DEF Good
<1> QED BY <1>1, InitInv, PTL DEF Spec

\* Marks, answers, requests and the room keep their shape.
THEOREM HostPacedTypesHold == Spec => []TypeOK
<1>1. IInv => TypeOK
  BY DEF IInv, ClaimsInv, RequestInv, AnswerInv, RoomInv, TypeOK, ClaimsTypeOK
<1> QED BY <1>1, HostPacedInvariant, PTL

\* However often an answer is sent in a host-paced room, and whatever Redis forgets, it
\* is recorded once (the unique index of answer_logs behind SubmitAnswer).
THEOREM AnswersAreRecordedOnce == Spec => []OneAnswerPerQuestion
<1>1. IInv => OneAnswerPerQuestion
  BY DEF IInv, ClaimsInv, AnswerInv
<1> QED BY <1>1, HostPacedInvariant, PTL

\* A player's score is what their recorded answers earned, to the point, however many
\* of them there are (recordClassicAnswer's one transaction for score and log).
THEOREM ScoresAreSums == Spec => []ScoreIsSumOfAnswers
<1>1. IInv => ScoreIsSumOfAnswers
  BY DEF IInv, ClaimsInv, AnswerInv, ScoreInv, ScoreIsSumOfAnswers
<1> QED BY <1>1, HostPacedInvariant, PTL

\* No stale request of the host brings a finished room back, and no submit on its way
\* scores after the end (NextQuestion's status guard, the SHARE lock of a submit).
THEOREM TheEndIsFinal == Spec => FinishedIsFinal
<1>1. IInv /\ [Next]_vars =>
         [room.status = "finished" => /\ room'.status = "finished"
                                      /\ room'.current = 0
                                      /\ UNCHANGED <<log, score>>]_vars
  <2>1. ASSUME IInv, Next, room.status = "finished"
        PROVE  room'.status = "finished" /\ room'.current = 0 /\ UNCHANGED <<log, score>>
    BY <2>1, StepIsGood DEF Good, AnswersInOrder, IInv, ReachInv
  <2> QED BY <2>1
<1> QED BY <1>1, HostPacedInvariant, PTL DEF Spec, FinishedIsFinal

\* Nobody answers a question before the host has put it up, whatever the host's stale
\* requests do (the submit's check against the room's current question).
THEOREM NobodyAnswersAhead == Spec => AnswersFollowHost
<1>1. IInv /\ [Next]_vars =>
         [\A q \in Questions : (room.index < q /\ room'.index < q) =>
             {a \in log' : a.question = q} = {a \in log : a.question = q}]_vars
  <2>1. ASSUME IInv, Next
        PROVE  \A q \in Questions : (room.index < q /\ room'.index < q) =>
                  {a \in log' : a.question = q} = {a \in log : a.question = q}
    BY <2>1, StepIsGood DEF Good, AnswersInOrder
  <2> QED BY <2>1
<1> QED BY <1>1, HostPacedInvariant, PTL DEF Spec, AnswersFollowHost

-----------------------------------------------------------------------------
(* The solo room.                                                          *)

CourseInv ==
    /\ status \in {"waiting", "active", "finished"}
    /\ progress \in [Players -> Progress]
    /\ loads \in [Loads -> Players \cup {None}]
    /\ cut \in BOOLEAN

\* Before the start nobody has answered and nobody has finished.
StartInv == status = "waiting" => log = {} /\ Finishers = {}

SoloIInv ==
    /\ ClaimsInv
    /\ CourseInv
    /\ StartInv
    /\ ProgressMatchesLog
    /\ AutoFinishLeavesNobody
    /\ Players # {} => LastFinisherCloses

NoScoreAfterEnd == status = "finished" => status' = "finished" /\ UNCHANGED <<log, score>>

SoloGood == SoloIInv' /\ NoScoreAfterEnd

LEMMA ProgressIs ==
    ASSUME CourseInv, NEW p \in Players
    PROVE  /\ progress[p] \in Progress /\ progress[p].current \in 0 .. NumQuestions
           /\ \A timer \in {"none", "running", "passed"} :
                 LET new == [progress[p] EXCEPT !.timer = timer]
                 IN  new \in Progress /\ new.current = progress[p].current
BY DEF CourseInv, Progress

\* Steps after which everybody is where they were: a request comes to close the room only
\* when all are done, and goes away only leaving another, or a trace.
LEMMA CourseKept ==
    ASSUME SoloIInv, ClaimsInv', CourseInv', UNCHANGED <<log, score, status>>,
           \A p \in Players : progress'[p].current = progress[p].current,
           \A r \in Requests : requests'[r].pc = "close" =>
              requests[r].pc = "close" \/ \A p \in Players : Done(p),
           Finishers' \subseteq Finishers,
           cut \/ (Finishers' = {} /\ Finishers # {} /\ \A p \in Players : Done(p)) => cut'
    PROVE  SoloGood
<1>1. \A p \in Players : (Done(p))' <=> Done(p)
  BY DEF Done
<1>2. \A p \in Players : (Passed(p))' = Passed(p)
  BY <1>1 DEF Passed
<1>3. StartInv'
  BY DEF SoloIInv, StartInv
<1>4. ProgressMatchesLog'
  BY <1>2 DEF SoloIInv, ProgressMatchesLog, Answered
<1>5. AutoFinishLeavesNobody'
  BY <1>1 DEF SoloIInv, AutoFinishLeavesNobody
<1>6. Players # {} => LastFinisherCloses'
  BY <1>1 DEF SoloIInv, LastFinisherCloses
<1> QED BY <1>3, <1>4, <1>5, <1>6 DEF SoloIInv, SoloGood, NoScoreAfterEnd

\* Steps that finish the room.
LEMMA EndKept ==
    ASSUME SoloIInv, ClaimsInv', CourseInv', UNCHANGED <<log, score, progress>>,
           status' = "finished", status # "waiting" \/ log = {},
           \A r \in Requests : requests'[r].pc = "close" => requests[r].pc = "close"
    PROVE  SoloGood
<1>1. \A p \in Players : ((Done(p))' <=> Done(p)) /\ (Passed(p))' = Passed(p)
  BY DEF Done, Passed
<1>2. StartInv' /\ LastFinisherCloses'
  BY DEF StartInv, LastFinisherCloses
<1>3. ProgressMatchesLog'
  BY <1>1 DEF SoloIInv, ProgressMatchesLog, Answered
<1>4. AutoFinishLeavesNobody'
  BY <1>1 DEF SoloIInv, AutoFinishLeavesNobody
<1> QED BY <1>2, <1>3, <1>4 DEF SoloIInv, SoloGood, NoScoreAfterEnd

LEMMA SoloCloses ==
    ASSUME SoloIInv, CloseSoloRoom \/ \E r \in Requests : AutoFinish(r)
    PROVE  SoloGood
<1>1. CASE CloseSoloRoom
  <2>1. /\ UNCHANGED <<claims, log, score, requests, progress, loads, cut>>
        /\ status' = "finished"
    BY <1>1 DEF CloseSoloRoom, AnswersUnchanged, PagesUnchanged
  <2>2. ClaimsInv' /\ CourseInv'
    BY <2>1 DEF SoloIInv, ClaimsInv, RequestInv, AnswerInv, OneAnswerPerQuestion, ScoreInv, AnswersOf, CourseInv
  <2>3. status # "waiting" \/ log = {}
    BY DEF SoloIInv, StartInv
  <2> QED BY <2>1, <2>2, <2>3, EndKept
<1>2. ASSUME NEW r \in Requests, AutoFinish(r)
      PROVE  SoloGood
  <2>1. /\ UNCHANGED <<claims, log, score, progress, loads, cut>> /\ status' = "finished"
        /\ Finish(r)
    BY <1>2 DEF AutoFinish, AnswersUnchanged, PagesUnchanged
  <2>2. /\ RequestInv' /\ requests'[r].pc = "idle"
        /\ \A s \in Requests \ {r} : requests'[s] = requests[s]
    BY <2>1, FinishKeeps DEF SoloIInv, ClaimsInv
  <2>3. ClaimsInv' /\ CourseInv'
    BY <2>1, <2>2 DEF SoloIInv, ClaimsInv, AnswerInv, OneAnswerPerQuestion, ScoreInv, AnswersOf, CourseInv
  <2>4. status # "waiting" \/ log = {}
    BY DEF SoloIInv, StartInv
  <2>5. \A s \in Requests : requests'[s].pc = "close" => requests[s].pc = "close"
    BY <2>2
  <2> QED BY <2>1, <2>3, <2>4, <2>5, EndKept
<1> QED BY <1>1, <1>2

LEMMA SoloStarts ==
    ASSUME SoloIInv, StartSoloGame
    PROVE  SoloGood
<1> DEFINE first == [current |-> 1, timer |-> "none"]
<1>1. /\ status = "waiting" /\ status' = "active" /\ progress' = [p \in Players |-> first]
      /\ UNCHANGED <<claims, log, score, requests, loads, cut>>
  BY DEF StartSoloGame, AnswersUnchanged, PagesUnchanged
<1>2. 1 \in 0 .. NumQuestions
  BY QuestionFacts
<1>3. first \in Progress /\ first.current = 1
  BY <1>2 DEF Progress
<1> HIDE DEF first
<1>4. ClaimsInv' /\ CourseInv'
  BY <1>1, <1>3 DEF SoloIInv, ClaimsInv, RequestInv, AnswerInv, OneAnswerPerQuestion, ScoreInv, AnswersOf, CourseInv
<1>5. log = {} /\ Finishers = {} /\ Finishers' = {}
  BY <1>1 DEF SoloIInv, StartInv, Finishers
<1>6. \A p \in Players : ~(Done(p))' /\ (Passed(p))' = 1 .. 0
  BY <1>1, <1>3 DEF Done, Passed
<1>7. ProgressMatchesLog'
  <2>1. ASSUME NEW p \in Players
        PROVE  {q \in Questions : (Answered(p, q))'} = {}
    BY <1>1, <1>5 DEF Answered
  <2>2. 1 .. 0 = {}
    OBVIOUS
  <2> QED BY <1>6, <2>1, <2>2 DEF ProgressMatchesLog
<1>8. AutoFinishLeavesNobody'
  BY <1>5 DEF AutoFinishLeavesNobody, Finishers
<1>9. Players # {} => LastFinisherCloses'
  BY <1>6 DEF LastFinisherCloses
<1> QED BY <1>1, <1>4, <1>7, <1>8, <1>9 DEF SoloIInv, StartInv, SoloGood, NoScoreAfterEnd

\* Steps that keep everybody's request where it was, and everybody's question.
LEMMA SameRequests ==
    ASSUME SoloIInv, ClaimsInv', CourseInv', UNCHANGED <<log, score, status, cut>>,
           \A p \in Players : progress'[p].current = progress[p].current,
           \A r \in Requests : requests'[r].pc = requests[r].pc
    PROVE  SoloGood
<1>1. Finishers' = Finishers
  BY DEF Finishers
<1> QED BY <1>1, CourseKept

LEMMA TimerKeeps ==
    ASSUME SoloIInv, NEW p \in Players, TimeUpFor(p)
    PROVE  SoloGood
<1> DEFINE new == [progress[p] EXCEPT !.timer = "passed"]
<1>1. /\ progress' = [progress EXCEPT ![p] = new]
      /\ UNCHANGED <<claims, log, score, requests, status, loads, cut>>
  BY DEF TimeUpFor, AnswersUnchanged, PagesUnchanged
<1>2. new \in Progress /\ new.current = progress[p].current
  BY ProgressIs DEF SoloIInv
<1> HIDE DEF new
<1>3. CourseInv' /\ \A x \in Players : progress'[x].current = progress[x].current
  BY <1>1, <1>2 DEF SoloIInv, CourseInv
<1>4. ClaimsInv'
  BY <1>1 DEF SoloIInv, ClaimsInv, RequestInv, AnswerInv, OneAnswerPerQuestion, ScoreInv, AnswersOf
<1> QED BY <1>1, <1>3, <1>4, SameRequests

LEMMA LoadKeeps ==
    ASSUME SoloIInv, NEW f \in Loads, NEW p \in Players, LoadQuestion(f, p)
    PROVE  SoloGood
<1>1. /\ UNCHANGED <<claims, log, score, requests, status, progress, cut>>
      /\ loads' = [loads EXCEPT ![f] = p]
  BY DEF LoadQuestion, AnswersUnchanged
<1>2. ClaimsInv' /\ CourseInv'
  BY <1>1 DEF SoloIInv, ClaimsInv, RequestInv, AnswerInv, OneAnswerPerQuestion, ScoreInv, AnswersOf, CourseInv
<1> QED BY <1>1, <1>2, SameRequests

LEMMA StartTimerKeeps ==
    ASSUME SoloIInv, NEW f \in Loads, StartTimer(f)
    PROVE  SoloGood
<1> DEFINE p == loads[f]
           new == [progress[p] EXCEPT !.timer = "running"]
           S == {r \in Requests : requests[r].player = p}
<1>1. p \in Players
  BY DEF StartTimer, SoloIInv, CourseInv
<1>2. /\ UNCHANGED <<claims, log, score, status, cut>> /\ loads' = [loads EXCEPT ![f] = None]
      /\ progress' = [progress EXCEPT ![p] = new] /\ requests' = OnTimeAgainFor(p)
  BY DEF StartTimer, AnswersUnchanged
<1>3. new \in Progress /\ new.current = progress[p].current
  BY <1>1, ProgressIs DEF SoloIInv
<1>4. requests' = [r \in Requests |-> IF r \in S THEN [requests[r] EXCEPT !.late = FALSE]
                                                 ELSE requests[r]]
  BY <1>2 DEF OnTimeAgainFor
<1>5. RequestInv' /\ \A r \in Requests : requests'[r].pc = requests[r].pc
  BY <1>4, LatenessKeeps DEF SoloIInv, ClaimsInv
<1> HIDE DEF new
<1>6. CourseInv' /\ \A x \in Players : progress'[x].current = progress[x].current
  BY <1>1, <1>2, <1>3 DEF SoloIInv, CourseInv
<1>7. ClaimsInv'
  BY <1>2, <1>5 DEF SoloIInv, ClaimsInv, AnswerInv, OneAnswerPerQuestion, ScoreInv, AnswersOf
<1> QED BY <1>2, <1>5, <1>6, <1>7, SameRequests

\* Steps of one request that come neither from nor to the auto-finish.
LEMMA RequestMoves ==
    ASSUME SoloIInv, ClaimsInv', UNCHANGED <<log, score, status, progress, loads, cut>>,
           NEW r \in Requests, requests[r].pc \notin {"check", "close"},
           requests'[r].pc \notin {"check", "close"},
           \A s \in Requests \ {r} : requests'[s] = requests[s]
    PROVE  SoloGood
<1>1. CourseInv'
  BY DEF SoloIInv, CourseInv
<1>2. Finishers' = Finishers
  BY DEF Finishers
<1>3. \A s \in Requests : requests'[s].pc = "close" => requests[s].pc = "close"
  OBVIOUS
<1> QED BY <1>1, <1>2, <1>3, CourseKept

LEMMA SoloSubmitKeeps ==
    ASSUME SoloIInv, NEW r \in Requests, NEW p \in Players, NEW q \in Questions, SoloSubmit(r, p, q)
    PROVE  SoloGood
<1>1. SoloLate(p, q) \in BOOLEAN
  BY DEF SoloLate
<1>2. /\ SubmitClaiming(r, p, q, SoloLate(p, q)) \/ SubmitUnclaimed(r, p, q, SoloLate(p, q))
      /\ UNCHANGED <<status, progress, loads, cut>>
  BY DEF SoloSubmit, PagesUnchanged
<1>3. /\ ClaimsInv' /\ UNCHANGED <<log, score>>
      /\ requests[r].pc = "idle" /\ requests'[r].pc = "tx"
      /\ \A s \in Requests \ {r} : requests'[s] = requests[s]
  BY <1>1, <1>2, SubmitKeeps DEF SoloIInv
<1> QED BY <1>2, <1>3, RequestMoves

LEMMA SoloRefuseKeeps ==
    ASSUME SoloIInv, NEW r \in Requests, requests[r].pc = "tx", Refuse(r),
           UNCHANGED <<status, progress, loads, cut>>
    PROVE  SoloGood
<1>1. /\ ClaimsInv' /\ UNCHANGED <<claims, log, score>>
      /\ requests'[r].pc \in {"idle", "release"}
      /\ \A s \in Requests \ {r} : requests'[s] = requests[s]
  BY RefuseKeeps DEF SoloIInv
<1> QED BY <1>1, RequestMoves

LEMMA SoloReleaseKeeps ==
    ASSUME SoloIInv, NEW r \in Requests, Release(r), UNCHANGED <<status, progress, loads, cut>>
    PROVE  SoloGood
BY ReleaseKeeps, RequestMoves DEF SoloIInv

LEMMA SoloForgetKeeps ==
    ASSUME SoloIInv, ForgetClaim, UNCHANGED <<status, progress, loads, cut>>
    PROVE  SoloGood
<1>1. ClaimsInv' /\ UNCHANGED <<log, score, requests>>
  BY ForgetKeeps DEF SoloIInv
<1>2. CourseInv'
  BY DEF SoloIInv, CourseInv
<1> QED BY <1>1, <1>2, SameRequests

LEMMA SoloRestartKeeps ==
    ASSUME SoloIInv, SoloRestart
    PROVE  SoloGood
<1>1. /\ UNCHANGED <<claims, log, score, status, progress>> /\ (cut' <=> cut \/ Finishers # {})
      /\ requests' = [r \in Requests |-> IdleRequest] /\ loads' = [f \in Loads |-> None]
      /\ cut' \in BOOLEAN
  BY DEF SoloRestart, AnswersUnchanged, SoloIInv, CourseInv
<1>2. RequestInv' /\ \A r \in Requests : requests'[r].pc = "idle"
  BY <1>1, NoRequests
<1>3. ClaimsInv' /\ CourseInv'
  BY <1>1, <1>2 DEF SoloIInv, ClaimsInv, AnswerInv, OneAnswerPerQuestion, ScoreInv, AnswersOf, CourseInv
<1>4. Finishers' = {}
  BY <1>2 DEF Finishers
<1> QED BY <1>1, <1>2, <1>3, <1>4, CourseKept

\* A finisher goes on to close only when nobody is left, and stops otherwise.
LEMMA CheckKeeps ==
    ASSUME SoloIInv, NEW r \in Requests, CheckLeft(r)
    PROVE  SoloGood
<1>1. UNCHANGED <<claims, log, score, status, progress, loads, cut>> /\ requests[r].pc = "check"
  BY DEF CheckLeft, AnswersUnchanged, PagesUnchanged
<1>2. CourseInv' /\ r \in Finishers
  BY <1>1 DEF SoloIInv, CourseInv, Finishers
<1>3. CASE (\A p \in Players : Done(p)) /\ GoTo(r, "close")
  <2>1. /\ RequestInv' /\ requests'[r].pc = "close"
        /\ \A s \in Requests \ {r} : requests'[s] = requests[s]
    BY <1>1, <1>3, GoToKeeps DEF SoloIInv, ClaimsInv, Pc
  <2>2. ClaimsInv'
    BY <1>1, <2>1 DEF SoloIInv, ClaimsInv, AnswerInv, OneAnswerPerQuestion, ScoreInv, AnswersOf
  <2>3. Finishers' = Finishers
    BY <1>1, <2>1 DEF Finishers
  <2> QED BY <1>1, <1>2, <1>3, <2>1, <2>2, <2>3, CourseKept
<1>4. CASE (~\A p \in Players : Done(p)) /\ Finish(r)
  <2>1. /\ RequestInv' /\ requests'[r].pc = "idle"
        /\ \A s \in Requests \ {r} : requests'[s] = requests[s]
    BY <1>4, FinishKeeps DEF SoloIInv, ClaimsInv
  <2>2. ClaimsInv'
    BY <1>1, <2>1 DEF SoloIInv, ClaimsInv, AnswerInv, OneAnswerPerQuestion, ScoreInv, AnswersOf
  <2>3. /\ Finishers' \subseteq Finishers
        /\ \A s \in Requests : requests'[s].pc = "close" => requests[s].pc = "close"
    BY <2>1 DEF Finishers
  <2> QED BY <1>1, <1>2, <1>4, <2>2, <2>3, CourseKept
<1> QED BY <1>3, <1>4 DEF CheckLeft

LEMMA FinishFailsKeeps ==
    ASSUME SoloIInv, NEW r \in Requests, FinishFails(r)
    PROVE  SoloGood
<1>1. UNCHANGED <<claims, log, score, status, progress, loads>> /\ cut' = TRUE /\ Finish(r)
  BY DEF FinishFails, AnswersUnchanged
<1>2. /\ RequestInv' /\ requests'[r].pc = "idle"
      /\ \A s \in Requests \ {r} : requests'[s] = requests[s]
  BY <1>1, FinishKeeps DEF SoloIInv, ClaimsInv
<1>3. ClaimsInv' /\ CourseInv'
  BY <1>1, <1>2 DEF SoloIInv, ClaimsInv, AnswerInv, OneAnswerPerQuestion, ScoreInv, AnswersOf, CourseInv
<1>4. /\ Finishers' \subseteq Finishers
      /\ \A s \in Requests : requests'[s].pc = "close" => requests[s].pc = "close"
  BY <1>2 DEF Finishers
<1> QED BY <1>1, <1>3, <1>4, CourseKept

LEMMA FollowingIs ==
    ASSUME NEW q \in Questions
    PROVE  /\ Following(q) \in Progress
           /\ q < NumQuestions => Following(q).current = q + 1
           /\ ~(q < NumQuestions) => Following(q).current = 0 /\ q = NumQuestions
<1>1. q \in Nat /\ q # 0 /\ q <= NumQuestions /\ NumQuestions \in Nat
  BY QuizAssumption DEF Questions
<1> DEFINE next == IF q < NumQuestions THEN q + 1 ELSE 0
<1>2. next \in 0 .. NumQuestions
  BY <1>1
<1> HIDE DEF next
<1>3. [current |-> next, timer |-> "none"] \in Progress
  BY <1>2 DEF Progress
<1> QED BY <1>1, <1>3 DEF Following, next

\* The transaction moves its player past the question it answers, and only then.
LEMMA SoloTransactionKeeps ==
    ASSUME SoloIInv, NEW r \in Requests, SoloSubmitTx(r)
    PROVE  SoloGood
<1> PICK p \in Players, q \in Questions : p = requests[r].player /\ q = requests[r].question
  BY DEF SoloSubmitTx, SoloIInv, ClaimsInv, RequestInv
<1>1. requests[r].pc = "tx" /\ UNCHANGED <<status, loads, cut>>
  BY DEF SoloSubmitTx
<1>2. CASE Refuse(r) /\ UNCHANGED progress
  BY <1>1, <1>2, SoloRefuseKeeps
<1>3. ASSUME SoloAccepts(p, q), NEW points \in Points, Record(p, q, points),
             progress' = [progress EXCEPT ![p] = Following(q)], AfterCommit(r, q)
      PROVE  SoloGood
  <2> DEFINE new == [player |-> p, question |-> q, points |-> points]
  <2>1. status = "active" /\ progress[p].current = q /\ q \in Nat /\ q # 0 /\ q <= NumQuestions
    BY <1>1, <1>3, QuestionFacts DEF SoloAccepts, Questions
  <2>2. AnswerInv' /\ log' = log \cup {new} /\ new.player = p /\ new.question = q
    BY <1>1, <1>3, RecordKeeps DEF SoloIInv, ClaimsInv
  <2>3. /\ RequestInv' /\ UNCHANGED claims
        /\ requests'[r].pc = (IF q = NumQuestions THEN "check" ELSE "idle")
        /\ \A s \in Requests \ {r} : requests'[s] = requests[s]
    BY <1>1, <1>3, GoToKeeps, FinishKeeps DEF SoloIInv, ClaimsInv, Record, AfterCommit, Pc
  <2>4. ClaimsInv'
    BY <2>2, <2>3 DEF SoloIInv, ClaimsInv
  <2> HIDE DEF new
  <2>5. progress' \in [Players -> Progress] /\ progress'[p] = Following(q)
        /\ \A x \in Players \ {p} : progress'[x] = progress[x]
    BY <1>1, <1>3, FollowingIs DEF SoloIInv, CourseInv
  <2>6. CourseInv'
    BY <1>1, <2>5 DEF SoloIInv, CourseInv
  <2>7. ProgressMatchesLog'
    <3>1. ASSUME NEW x \in Players
          PROVE  {y \in Questions : Answered(x, y)} = Passed(x)
      BY <2>1 DEF SoloIInv, ProgressMatchesLog
    <3>2. ASSUME NEW x \in Players \ {p}
          PROVE  {y \in Questions : (Answered(x, y))'} = (Passed(x))'
      <4>1. \A y \in Questions : (Answered(x, y))' <=> Answered(x, y)
        BY <2>2, <3>2 DEF Answered
      <4>2. (Passed(x))' = Passed(x)
        BY <2>5, <3>2 DEF Passed, Done
      <4> QED BY <3>1, <3>2, <4>1, <4>2
    <3>3. {y \in Questions : (Answered(p, y))'} = (Passed(p))'
      <4>1. \A y \in Questions : (Answered(p, y))' <=> Answered(p, y) \/ y = q
        BY <2>2 DEF Answered
      <4>2. {y \in Questions : Answered(p, y)} = 1 .. (q - 1)
        <5>1. Passed(p) = 1 .. (q - 1)
          BY <2>1 DEF Passed, Done
        <5> QED BY <1>1, <3>1, <5>1
      <4>3. {y \in Questions : (Answered(p, y))'} = 1 .. q
        <5>1. ASSUME NEW y \in Questions, (Answered(p, y))'
              PROVE  y \in 1 .. q
          <6>1. y \in 1 .. (q - 1) \/ y = q
            BY <4>1, <4>2, <5>1
          <6> QED BY <2>1, <6>1
        <5>2. ASSUME NEW y \in 1 .. q
              PROVE  y \in Questions /\ (Answered(p, y))'
          <6>1. y \in Questions /\ (y \in 1 .. (q - 1) \/ y = q)
            BY <2>1, <5>2, QuestionFacts DEF Questions
          <6> QED BY <4>1, <4>2, <6>1
        <5> QED BY <5>1, <5>2
      <4>4. (Passed(p))' = 1 .. q
        <5>1. CASE q < NumQuestions
          <6>1. progress'[p].current = q + 1 /\ q + 1 # 0 /\ (q + 1) - 1 = q
            BY <1>1, <2>1, <2>5, <5>1, FollowingIs
          <6> QED BY <6>1 DEF Passed, Done
        <5>2. CASE ~(q < NumQuestions)
          <6>1. progress'[p].current = 0 /\ q = NumQuestions
            BY <1>1, <2>5, <5>2, FollowingIs
          <6> QED BY <6>1 DEF Passed, Done, Questions
        <5> QED BY <5>1, <5>2
      <4> QED BY <4>3, <4>4
    <3> QED BY <3>2, <3>3 DEF ProgressMatchesLog
  <2>8. ~Done(p)
    BY <2>1 DEF Done
  <2>9. AutoFinishLeavesNobody'
    <3>1. \A s \in Requests : requests'[s].pc = "close" => requests[s].pc = "close"
      BY <2>3
    <3> QED BY <1>1, <2>8, <3>1 DEF SoloIInv, AutoFinishLeavesNobody
  <2>10. LastFinisherCloses'
    <3>1. ASSUME (Done(p))'
          PROVE  r \in Finishers'
      <4>1. q = NumQuestions
        BY <1>1, <2>1, <2>5, <3>1, FollowingIs, QuestionFacts DEF Done
      <4> QED BY <2>3, <4>1 DEF Finishers
    <3> QED BY <1>1, <3>1 DEF LastFinisherCloses
  <2> QED BY <1>1, <2>1, <2>4, <2>6, <2>7, <2>9, <2>10 DEF SoloIInv, StartInv, SoloGood, NoScoreAfterEnd
<1> QED BY <1>2, <1>3 DEF SoloSubmitTx, Earnable

LEMMA SoloStep == ASSUME SoloIInv, SoloNext PROVE SoloGood
<1>1. ASSUME NEW r \in Requests, SoloSubmitFails(r)
      PROVE  SoloGood
  BY <1>1, SoloRefuseKeeps DEF SoloSubmitFails, PagesUnchanged
<1>2. ASSUME NEW r \in Requests, Release(r) /\ UNCHANGED <<status, progress>> /\ PagesUnchanged
      PROVE  SoloGood
  BY <1>2, SoloReleaseKeeps DEF PagesUnchanged
<1>3. ASSUME ForgetClaim /\ UNCHANGED <<status, progress>> /\ PagesUnchanged
      PROVE  SoloGood
  BY <1>3, SoloForgetKeeps DEF PagesUnchanged
<1> QED BY <1>1, <1>2, <1>3, SoloStarts, SoloCloses, SoloRestartKeeps, TimerKeeps, LoadKeeps,
           StartTimerKeeps, SoloSubmitKeeps, SoloTransactionKeeps, CheckKeeps,
           FinishFailsKeeps DEF SoloNext

LEMMA SoloInitInv == SoloInit => SoloIInv
<1> SUFFICES ASSUME SoloInit
             PROVE  SoloIInv
  OBVIOUS
<1>1. [current |-> 0, timer |-> "none"] \in Progress
  BY QuestionFacts DEF Progress
<1>2. CourseInv
  BY <1>1 DEF SoloInit, CourseInv
<1>3. ClaimsInv /\ log = {} /\ \A r \in Requests : requests[r].pc = "idle"
  BY ClaimsBegin DEF SoloInit
<1>4. status = "waiting" /\ Finishers = {}
  BY <1>3 DEF SoloInit, Finishers
<1> QED BY <1>2, <1>3, <1>4 DEF SoloIInv, StartInv, ProgressMatchesLog, AutoFinishLeavesNobody,
                                LastFinisherCloses

\* Everybody is at the question after the ones they answered, and the auto-finish only
\* follows the last of them.
THEOREM SoloInvariant == SoloSpec => []SoloIInv
<1>1. SoloIInv /\ [SoloNext]_soloVars => SoloIInv'
  <2>1. ASSUME SoloIInv, UNCHANGED soloVars
        PROVE  SoloIInv'
    <3>1. ClaimsInv' /\ CourseInv'
      BY <2>1 DEF soloVars, SoloIInv, ClaimsInv, RequestInv, AnswerInv, OneAnswerPerQuestion, ScoreInv, AnswersOf, CourseInv
    <3> QED BY <2>1, <3>1, SameRequests DEF soloVars, SoloGood
  <2> QED BY <2>1, SoloStep DEF SoloGood
<1> QED BY <1>1, SoloInitInv, PTL DEF SoloSpec

\* Marks, answers, requests and everybody's place keep their shape.
THEOREM SoloTypesHold == SoloSpec => []SoloTypeOK
<1>1. SoloIInv => SoloTypeOK
  BY DEF SoloIInv, ClaimsInv, RequestInv, AnswerInv, CourseInv, SoloTypeOK, ClaimsTypeOK
<1> QED BY <1>1, SoloInvariant, PTL

\* The same of a solo player's score (the transaction of a solo submit).
THEOREM SoloScoresAreSums == SoloSpec => []ScoreIsSumOfAnswers
<1>1. SoloIInv => ScoreIsSumOfAnswers
  BY DEF SoloIInv, ClaimsInv, AnswerInv, ScoreInv, ScoreIsSumOfAnswers
<1> QED BY <1>1, SoloInvariant, PTL

\* A repeat, a lost mark, a rollback or a late answer never skips a question nor asks one
\* twice (the transaction of a solo submit).
THEOREM NoQuestionSkipped == SoloSpec => []ProgressMatchesLog
<1>1. SoloIInv => ProgressMatchesLog
  BY DEF SoloIInv
<1> QED BY <1>1, SoloInvariant, PTL

\* A solo room closes on its own only when nobody is left with a question, whatever was
\* answered between a finisher's look at the room and its claim (SubmitAnswer's auto-finish).
THEOREM NobodyIsCutOff == SoloSpec => []AutoFinishLeavesNobody
<1>1. SoloIInv => AutoFinishLeavesNobody
  BY DEF SoloIInv
<1> QED BY <1>1, SoloInvariant, PTL

\* Of players who finish together one is still going to close the room, unless a finisher
\* was lost.  A room started without players has no last finisher (auto-finish).
THEOREM TheLastOneCloses ==
    ASSUME Players # {}
    PROVE  SoloSpec => []LastFinisherCloses
<1>1. SoloIInv => LastFinisherCloses
  BY DEF SoloIInv
<1> QED BY <1>1, SoloInvariant, PTL

\* No submit on its way scores once a solo room is finished (the SHARE lock of a submit).
THEOREM TheSoloEndIsFinal == SoloSpec => SoloFinishIsFinal
<1>1. SoloIInv /\ [SoloNext]_soloVars =>
         [status = "finished" => status' = "finished" /\ UNCHANGED <<log, score>>]_soloVars
  <2>1. ASSUME SoloIInv, SoloNext
        PROVE  status = "finished" => status' = "finished" /\ UNCHANGED <<log, score>>
    BY <2>1, SoloStep DEF SoloGood, NoScoreAfterEnd
  <2> QED BY <2>1
<1> QED BY <1>1, SoloInvariant, PTL DEF SoloSpec, SoloFinishIsFinal

=============================================================================
