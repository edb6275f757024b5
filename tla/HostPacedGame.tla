---------------------------- MODULE HostPacedGame ----------------------------
(***************************************************************************)
(* A host-paced room (handler/quiz.go): the host starts the game, puts up  *)
(* one question after the other and ends it; everybody answers the room's  *)
(* current question.  The host's requests read the room, decide, and write *)
(* later without a lock, so a second request of the host may come between. *)
(* A submit's transaction holds the room row SHARE: it sees one state of   *)
(* the room and nothing moves the room under it.                           *)
(***************************************************************************)
EXTENDS AnswerClaims

CONSTANT HostRequests   \* NextQuestion and EndQuestion calls at once (bound)

VARIABLES
    room,     \* the rooms row
    host,     \* the host's requests in flight
    seated    \* players whose row exists

vars == <<claims, log, score, requests, room, host, seated>>

\* index 0 and current 0 stand for -1 and NULL.
Room == [status: {"waiting", "active", "finished"},
         index: 0 .. NumQuestions, current: 0 .. NumQuestions,
         until: {"none", "running", "passed"}]

\* at: the index NextQuestion computed from its read.
HostRequest == [pc: {"idle", "next", "end"}, at: 0 .. NumQuestions]
HostIdle == [pc |-> "idle", at |-> 0]

Init ==
    /\ ClaimsInit
    /\ room = [status |-> "waiting", index |-> 0, current |-> 0, until |-> "none"]
    /\ host = [h \in HostRequests |-> HostIdle]
    /\ seated = Players

-----------------------------------------------------------------------------
(* The host.                                                               *)

StartGame ==
    /\ room.status = "waiting"
    /\ room' = [room EXCEPT !.status = "active", !.index = 0, !.current = 0]
    /\ UNCHANGED <<claims, log, score, requests, host, seated>>

NextRead(h) ==
    /\ host[h].pc = "idle"
    /\ room.status = "active"
    /\ room.index < NumQuestions
    /\ host' = [host EXCEPT ![h] = [pc |-> "next", at |-> room.index + 1]]
    /\ UNCHANGED <<claims, log, score, requests, room, seated>>

\* A question put up anew has a new deadline: what was late for the old one is not.
OnTimeAgain(q) ==
    [r \in Requests |-> IF requests[r].question = q
                          THEN [requests[r] EXCEPT !.late = FALSE] ELSE requests[r]]

\* Mutant: the whole row is written back from the copy that was read.
NextWriteSave(h) ==
    LET q == host[h].at
    IN  /\ host[h].pc = "next"
        /\ host' = [host EXCEPT ![h] = HostIdle]
        /\ room' = [status |-> "active", index |-> q, current |-> q, until |-> "running"]
        /\ requests' = OnTimeAgain(q)
        /\ UNCHANGED <<claims, log, score, seated>>

\* Only the columns this step owns, and only while the room is still active; the update
\* may also fail.
NextWrite(h) ==
    LET q == host[h].at
    IN  /\ host[h].pc = "next"
        /\ host' = [host EXCEPT ![h] = HostIdle]
        /\ \/ /\ room.status = "active"
              /\ room' = [room EXCEPT !.index = q, !.current = q, !.until = "running"]
              /\ requests' = OnTimeAgain(q)
           \/ UNCHANGED <<room, requests>>
        /\ UNCHANGED <<claims, log, score, seated>>

EndRead(h) ==
    /\ host[h].pc = "idle"
    /\ room.status = "active"
    /\ room.current # 0
    /\ host' = [host EXCEPT ![h] = [pc |-> "end", at |-> 0]]
    /\ UNCHANGED <<claims, log, score, requests, room, seated>>

\* The reveal is out; the deadline of whatever question is up now goes, unless the
\* update fails, which nobody looks at.
EndWrite(h) ==
    /\ host[h].pc = "end"
    /\ host' = [host EXCEPT ![h] = HostIdle]
    /\ room' \in {room, [room EXCEPT !.until = "none"]}
    /\ UNCHANGED <<claims, log, score, requests, seated>>

\* finalizeRoom's claim, by the host or a sweep; RoomClosing has the rest of it.
CloseRoom ==
    /\ room.status # "finished"
    /\ room' = [room EXCEPT !.status = "finished", !.current = 0]
    /\ UNCHANGED <<claims, log, score, requests, host, seated>>

TimeUp ==
    /\ room.until = "running"
    /\ room' = [room EXCEPT !.until = "passed"]
    /\ UNCHANGED <<claims, log, score, requests, host, seated>>

-----------------------------------------------------------------------------
(* The players.                                                            *)

\* The row goes: LeaveRoom outside a running game, or on a status read before the
\* start, JoinRoom freeing a nickname, finalizeRoom's cleanup.
Unseat(p) ==
    /\ p \in seated
    /\ seated' = seated \ {p}
    /\ UNCHANGED <<claims, log, score, requests, room, host>>

Late(q) == room.current = q /\ room.until = "passed"

Submit(r, p, q) ==
    /\ SubmitClaiming(r, p, q, Late(q)) \/ SubmitUnclaimed(r, p, q, Late(q))
    /\ UNCHANGED <<room, host, seated>>

\* Mutant: any question of the quiz is taken while one is open.
AcceptsAnyQuestion(q, late) ==
    /\ room.status = "active"
    /\ room.until # "none"
    /\ ~late

\* The transaction's checks: status, current question, deadline.
Accepts(q, late) ==
    /\ room.status = "active"
    /\ room.current = q
    /\ room.until # "none"
    /\ ~late

\* The transaction of a host-paced submit; recordClassicAnswer inserts only for a
\* player row that exists.
SubmitTx(r) ==
    LET p == requests[r].player
        q == requests[r].question
        accepted == Accepts(q, requests[r].late) /\ p \in seated
    IN  /\ requests[r].pc = "tx"
        /\ \/ ~accepted /\ Refuse(r)
           \/ accepted /\ RefuseRepeat(r)
           \/ /\ accepted
              /\ \E points \in Points : Record(p, q, points)
              /\ Finish(r)
        /\ UNCHANGED <<room, host, seated>>

\* The transaction fails, on a timeout of the pool for one.
SubmitFails(r) ==
    /\ requests[r].pc = "tx"
    /\ Refuse(r)
    /\ UNCHANGED <<room, host, seated>>

\* The backend restarts: every request in flight is gone, marks stay.
Restart ==
    /\ requests' = [r \in Requests |-> IdleRequest]
    /\ host' = [h \in HostRequests |-> HostIdle]
    /\ <<requests', host'>> # <<requests, host>>
    /\ UNCHANGED <<claims, log, score, room, seated>>

Next ==
    \/ StartGame
    \/ CloseRoom
    \/ TimeUp
    \/ Restart
    \/ \E h \in HostRequests : NextRead(h) \/ NextWrite(h) \/ EndRead(h) \/ EndWrite(h)
    \/ \E p \in Players : Unseat(p)
    \/ \E r \in Requests, p \in Players, q \in Questions : Submit(r, p, q)
    \/ \E r \in Requests : SubmitTx(r) \/ SubmitFails(r)
    \/ \E r \in Requests : Release(r) /\ UNCHANGED <<room, host, seated>>
    \/ ForgetClaim /\ UNCHANGED <<room, host, seated>>

Spec == Init /\ [][Next]_vars

TypeOK ==
    /\ ClaimsTypeOK
    /\ room \in Room
    /\ host \in [HostRequests -> HostRequest]
    /\ seated \subseteq Players

-----------------------------------------------------------------------------
(* Properties.                                                             *)

\* The end is final: no stale request of the host brings the room back, and no submit
\* on its way scores after it (NextQuestion's status guard, the SHARE lock).
FinishedIsFinal ==
    [][room.status = "finished" =>
          /\ room'.status = "finished"
          /\ room'.current = 0
          /\ UNCHANGED <<log, score>>]_vars

\* Nobody answers a question the host has not put up: the questions with answers
\* are within those the room has reached, also when a stale NextQuestion steps back.
AnswersFollowHost ==
    [][\A q \in Questions : (room.index < q /\ room'.index < q) =>
          {a \in log' : a.question = q} = {a \in log : a.question = q}]_vars
=============================================================================
