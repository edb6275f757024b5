-------------------------------- MODULE Lobby --------------------------------
(***************************************************************************)
(* Rooms before the game: a host opens them up to the plan's limit,        *)
(* players take seats under a nickname up to the plan's cap, unload their  *)
(* page and come back, leave, and the host starts the game.  A join checks *)
(* the room, frees an abandoned nickname, and only then locks the room row *)
(* to look again and insert; leaving and reconnecting take no lock.  The   *)
(* gates may be armed or disarmed between any two of a join's reads.       *)
(***************************************************************************)
EXTENDS Naturals, FiniteSets

CONSTANTS
    Rooms,        \* room ids of one host, in the order nobody cares about
    PlayerPaced,  \* the rooms created in that mode
    Seats,        \* player ids; a deleted one is not used again
    Nicknames,
    Joins,        \* JoinRoom requests under way at a time
    Creates,      \* CreateRoom requests under way at a time
    RoomLimit,    \* MaxConcurrentRooms of the plan
    PlayerCap,    \* MaxPlayersPerRoom of the plan
    OpenCap,      \* MaxPlayersPerRoom while the gates are off
    None

ASSUME LobbyAssumption ==
    /\ PlayerPaced \subseteq Rooms
    /\ RoomLimit \in Nat /\ PlayerCap \in Nat /\ OpenCap \in Nat
    /\ None \notin Rooms \cup Seats \cup Nicknames

VARIABLES
    status,    \* of each room, "none" before it is created
    seat,      \* the players rows
    joining,   \* JoinRoom requests
    creating,  \* CreateRoom requests
    leaving,   \* what a LeaveRoom request of the seat has decided
    enforcing, \* the gates are armed
    bare       \* solo rooms whose quiz had no question left when they started

vars == <<status, seat, joining, creating, leaving, enforcing, bare>>

\* dealt: the first question is assigned.  stayed: let in under the plan's cap by a
\* join that held the room alone, and connected ever since.  That and bare are kept
\* for the properties only.
Seat == [row: {"none", "here", "gone"}, room: Rooms \cup {None}, nick: Nicknames \cup {None},
         connected: BOOLEAN, dealt: BOOLEAN, stayed: BOOLEAN]
NoSeat == [row |-> "none", room |-> None, nick |-> None,
           connected |-> FALSE, dealt |-> FALSE, stayed |-> FALSE]
Gone == [NoSeat EXCEPT !.row = "gone"]

\* strict: the cap it is held to is the plan's.  alone: its lock is FOR UPDATE.
Join == [step: {"idle", "found", "ready", "locked"}, room: Rooms \cup {None},
         nick: Nicknames \cup {None}, holder: Seats \cup {None},
         strict: BOOLEAN, alone: BOOLEAN]
NoJoin == [step |-> "idle", room |-> None, nick |-> None, holder |-> None,
           strict |-> FALSE, alone |-> FALSE]

Create == [step: {"idle", "closing", "insert"}, empty: SUBSET Rooms]
NoCreate == [step |-> "idle", empty |-> {}]

Init ==
    /\ status = [r \in Rooms |-> "none"]
    /\ seat = [s \in Seats |-> NoSeat]
    /\ joining = [j \in Joins |-> NoJoin]
    /\ creating = [k \in Creates |-> NoCreate]
    /\ leaving = [s \in Seats |-> "idle"]
    /\ enforcing \in BOOLEAN
    /\ bare = {}

SeatsOf(r) == {s \in Seats : seat[s].row = "here" /\ seat[s].room = r}
Connected(r) == {s \in SeatsOf(r) : seat[s].connected}
Holders(r, n) == {s \in SeatsOf(r) : seat[s].nick = n}

\* A join in its transaction holds the room row, FOR UPDATE or FOR SHARE.  Either
\* keeps writers of the row out.
Locks(r) == {j \in Joins : joining[j].step = "locked" /\ joining[j].room = r}

-----------------------------------------------------------------------------
(* CreateRoom.                                                             *)

Open == {r \in Rooms : status[r] \in {"waiting", "active"}}

\* Within the limit the room is made.  At the limit, the lobbies nobody has joined
\* are listed, to be closed; with none of them the request is refused.
CreateCount(k) ==
    LET empty == {r \in Rooms : status[r] = "waiting" /\ SeatsOf(r) = {}}
        within == enforcing => Cardinality(Open) < RoomLimit
    IN  /\ creating[k] = NoCreate
        /\ within \/ empty # {}
        /\ creating' = [creating EXCEPT ![k] =
              IF within THEN [step |-> "insert", empty |-> {}]
                        ELSE [step |-> "closing", empty |-> empty]]
        /\ UNCHANGED <<status, seat, joining, leaving, enforcing, bare>>

\* closeEmptyLobbies finalizes one of them, whoever has joined it since.
CreateClose(k, r) ==
    /\ r \in creating[k].empty
    /\ Locks(r) = {}
    /\ status' = [status EXCEPT ![r] = "finished"]
    /\ creating' = [creating EXCEPT ![k].empty = @ \ {r}]
    /\ UNCHANGED <<seat, joining, leaving, enforcing, bare>>

CreateRecount(k) ==
    /\ creating[k] = [step |-> "closing", empty |-> {}]
    /\ creating' = [creating EXCEPT ![k].step =
          IF Cardinality(Open) < RoomLimit THEN "insert" ELSE "idle"]
    /\ UNCHANGED <<status, seat, joining, leaving, enforcing, bare>>

CreateInsert(k, r) ==
    /\ creating[k].step = "insert"
    /\ status[r] = "none"
    /\ status' = [status EXCEPT ![r] = "waiting"]
    /\ creating' = [creating EXCEPT ![k] = NoCreate]
    /\ UNCHANGED <<seat, joining, leaving, enforcing, bare>>

\* A database error, or no free PIN.
CreateFails(k) ==
    /\ creating[k] # NoCreate
    /\ creating' = [creating EXCEPT ![k] = NoCreate]
    /\ UNCHANGED <<status, seat, joining, leaving, enforcing, bare>>

-----------------------------------------------------------------------------
(* JoinRoom.                                                               *)

\* The room is open, the host's cap is read (GetEntitlements), and the nickname is
\* not in use by somebody connected.
JoinCheck(j, r, n) ==
    /\ joining[j] = NoJoin
    /\ status[r] = "waiting"
    /\ \A s \in Holders(r, n) : ~seat[s].connected
    /\ joining' = [joining EXCEPT ![j] =
          [step |-> "found", room |-> r, nick |-> n, strict |-> enforcing, alone |-> FALSE,
           holder |-> IF Holders(r, n) = {} THEN None ELSE CHOOSE s \in Holders(r, n) : TRUE]]
    /\ UNCHANGED <<status, seat, creating, leaving, enforcing, bare>>

\* The row of a holder who is gone makes room, if it is still disconnected.  The
\* strength of the lock to come is decided.
JoinFree(j) ==
    LET s == joining[j].holder
    IN  /\ joining[j].step = "found"
        /\ seat' = [x \in Seats |->
              IF x = s /\ seat[x].row = "here" /\ ~seat[x].connected THEN Gone ELSE seat[x]]
        /\ joining' = [joining EXCEPT ![j].step = "ready", ![j].holder = None,
                                      ![j].alone = enforcing]
        /\ UNCHANGED <<status, creating, leaving, enforcing, bare>>

\* Mutant: the lock is shared, whether or not the players are counted.
LockableShared(j) == TRUE

\* Only shared locks are held together.
Lockable(j) ==
    \A k \in Locks(joining[j].room) : ~joining[j].alone /\ ~joining[k].alone

\* The transaction: lock, look at the status again, and count the connected if the
\* gates are armed by now, whatever was decided before.
JoinLock(j) ==
    LET r == joining[j].room
        cap == IF joining[j].strict THEN PlayerCap ELSE OpenCap
    IN  /\ joining[j].step = "ready"
        /\ Lockable(j)
        /\ status[r] = "waiting"
        /\ enforcing => Cardinality(Connected(r)) < cap
        /\ joining' = [joining EXCEPT ![j].step = "locked", ![j].strict = @ /\ enforcing]
        /\ UNCHANGED <<status, seat, creating, leaving, enforcing, bare>>

\* Insert and commit; the index on (room, nickname) refuses a second holder.
JoinInsert(j, s) ==
    /\ joining[j].step = "locked"
    /\ Holders(joining[j].room, joining[j].nick) = {}
    /\ seat[s].row = "none"
    /\ seat' = [seat EXCEPT ![s] = [row |-> "here", room |-> joining[j].room,
                                    nick |-> joining[j].nick, connected |-> TRUE,
                                    dealt |-> FALSE,
                                    stayed |-> joining[j].strict /\ joining[j].alone]]
    /\ joining' = [joining EXCEPT ![j] = NoJoin]
    /\ UNCHANGED <<status, creating, leaving, enforcing, bare>>

\* Refused (started, full, taken) or rolled back.
JoinEnds(j) ==
    /\ joining[j] # NoJoin
    /\ joining' = [joining EXCEPT ![j] = NoJoin]
    /\ UNCHANGED <<status, seat, creating, leaving, enforcing, bare>>

-----------------------------------------------------------------------------
(* StartGame, one transaction under the exclusive lock.                    *)

\* Mutant: whoever is away keeps the seat.
StartKeepsAway(r, first) ==
    /\ status[r] = "waiting"
    /\ Locks(r) = {}
    /\ status' = [status EXCEPT ![r] = "active"]
    /\ seat' = [s \in Seats |-> IF s \in Connected(r)
                                THEN [seat[s] EXCEPT !.dealt = r \in PlayerPaced /\ first]
                                ELSE seat[s]]
    /\ bare' = IF r \in PlayerPaced /\ ~first THEN bare \cup {r} ELSE bare
    /\ UNCHANGED <<joining, creating, leaving, enforcing>>

\* Whoever is away loses the seat; a player-paced room deals the first question if
\* the quiz, which may be edited while its rooms wait, still has one.  It starts
\* without one too.
StartGame(r, first) ==
    /\ status[r] = "waiting"
    /\ Locks(r) = {}
    /\ status' = [status EXCEPT ![r] = "active"]
    /\ seat' = [s \in Seats |->
          IF s \notin SeatsOf(r) THEN seat[s]
          ELSE IF ~seat[s].connected THEN Gone
          ELSE [seat[s] EXCEPT !.dealt = r \in PlayerPaced /\ first]]
    /\ bare' = IF r \in PlayerPaced /\ ~first THEN bare \cup {r} ELSE bare
    /\ UNCHANGED <<joining, creating, leaving, enforcing>>

\* The room is finished, by any path of RoomClosing; its seats are deleted later.
Finish(r) ==
    /\ r \in Open
    /\ Locks(r) = {}
    /\ status' = [status EXCEPT ![r] = "finished"]
    /\ UNCHANGED <<seat, joining, creating, leaving, enforcing, bare>>

-----------------------------------------------------------------------------
(* LeaveRoom and reconnectPlayer.                                          *)

\* The room's status decides what becomes of the seat: a running game, or an
\* unloading page in the lobby, only flags it.  A room that cannot be read decides
\* like one that is over.
LeaveRead(s, unload) ==
    LET st == status[seat[s].room]
        flags == st = "active" \/ (unload /\ st = "waiting")
    IN  /\ seat[s].row = "here"
        /\ leaving[s] = "idle"
        /\ leaving' \in {[leaving EXCEPT ![s] = IF flags THEN "flag" ELSE "delete"],
                         [leaving EXCEPT ![s] = "delete"]}
        /\ UNCHANGED <<status, seat, joining, creating, enforcing, bare>>

LeaveWrite(s) ==
    /\ leaving[s] # "idle"
    /\ seat' = [seat EXCEPT ![s] =
          IF @.row = "gone" \/ leaving[s] = "delete" THEN Gone
          ELSE [@ EXCEPT !.connected = FALSE, !.stayed = FALSE]]
    /\ leaving' = [leaving EXCEPT ![s] = "idle"]
    /\ UNCHANGED <<status, joining, creating, enforcing, bare>>

\* The first call from the reloaded page; the cap is not looked at.
Reconnect(s) ==
    /\ seat[s].row = "here"
    /\ ~seat[s].connected
    /\ seat' = [seat EXCEPT ![s].connected = TRUE]
    /\ UNCHANGED <<status, joining, creating, leaving, enforcing, bare>>

-----------------------------------------------------------------------------

\* An admin turns the gates on or off (EnforcementSwitch).
SetEnforcement ==
    /\ enforcing' = ~enforcing
    /\ UNCHANGED <<status, seat, joining, creating, leaving, bare>>

Restart ==
    /\ joining' = [j \in Joins |-> NoJoin]
    /\ creating' = [k \in Creates |-> NoCreate]
    /\ leaving' = [s \in Seats |-> "idle"]
    /\ <<joining', creating', leaving'>> # <<joining, creating, leaving>>
    /\ UNCHANGED <<status, seat, enforcing, bare>>

Next ==
    \/ \E k \in Creates : CreateCount(k) \/ CreateRecount(k) \/ CreateFails(k)
    \/ \E k \in Creates, r \in Rooms : CreateClose(k, r) \/ CreateInsert(k, r)
    \/ \E j \in Joins, r \in Rooms, n \in Nicknames : JoinCheck(j, r, n)
    \/ \E j \in Joins : JoinFree(j) \/ JoinLock(j) \/ JoinEnds(j)
    \/ \E j \in Joins, s \in Seats : JoinInsert(j, s)
    \/ \E r \in Rooms, first \in BOOLEAN : StartGame(r, first)
    \/ \E r \in Rooms : Finish(r)
    \/ \E s \in Seats, unload \in BOOLEAN : LeaveRead(s, unload)
    \/ \E s \in Seats : LeaveWrite(s) \/ Reconnect(s)
    \/ SetEnforcement
    \/ Restart

Spec == Init /\ [][Next]_vars

TypeOK ==
    /\ status \in [Rooms -> {"none", "waiting", "active", "finished"}]
    /\ seat \in [Seats -> Seat]
    /\ joining \in [Joins -> Join]
    /\ creating \in [Creates -> Create]
    /\ leaving \in [Seats -> {"idle", "flag", "delete"}]
    /\ enforcing \in BOOLEAN
    /\ bare \subseteq Rooms

-----------------------------------------------------------------------------
(* Properties.                                                             *)

\* In a running solo game either everybody with a seat has a question or, when the quiz
\* had none to give, nobody has: no join slips between the start and the dealing, and
\* no player who was away comes back without what the others got.
EverySeatIsDealt ==
    \A r \in PlayerPaced : status[r] = "active" =>
        \A s \in SeatsOf(r) : seat[s].dealt <=> r \notin bare

\* The players a room took in under the plan's cap and who have stayed are within it,
\* however many join at once and whenever the gates are armed.  Over it go only a
\* player who was away and comes back (reconnectPlayer) and one whose join found the
\* gates off when it read the cap, chose the lock or counted.
CapBindsNewcomers ==
    \A r \in Rooms : Cardinality({s \in Connected(r) : seat[s].stayed}) <= PlayerCap
==============================================================================
