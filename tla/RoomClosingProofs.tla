-------------------------- MODULE RoomClosingProofs --------------------------
(***************************************************************************)
(* How a room ends, for any number of players, questions and calls of      *)
(* finalizeRoom.  One call at most wins the claim, and from the claim on   *)
(* no answer is accepted: what the winner reads, archives and broadcasts   *)
(* are the same rankings.  Whoever deletes rows, the winner or the         *)
(* abandoned-room sweep, has an archive behind it.                         *)
(***************************************************************************)
EXTENDS RoomClosing, FiniteSetTheorems, TLAPS

\* A call that won the claim.
Claimed(c) ==
    closer[c].pc \in {"collect", "archive", "announce", "announce_only", "wipe", "wipe_log"}

\* Rows are deleted after the room has finished and its archive is written.
OrderInv ==
    /\ room.status = "active" =>
          (\A c \in Closers : ~Claimed(c)) /\ sweep.pc \notin {"wipe", "wipe_log"}
    /\ \A c \in Closers : closer[c].pc \in {"announce", "wipe", "wipe_log"} => session # None
    /\ sweep.pc \in {"save", "wipe", "wipe_log"} => session # None

\* The live rows and the log while they are the only record, or the game goes on.
RowInv ==
    /\ room.status = "active" \/ session = None =>
          log = acked /\ \A p \in DOMAIN rows : rows[p] = Count(log, p)
    /\ session = None => Players \ left \subseteq DOMAIN rows

\* What the winner of the claim may rely on, unless the abandoned-room sweep has begun.
ClaimInv ==
    ~Swept =>
        /\ room.status = "active" => session = None /\ podium = None
        /\ \A c, d \in Closers : Claimed(c) /\ Claimed(d) => c = d
        /\ \A c \in Closers :
              /\ closer[c].pc \in {"collect", "archive"} => session = None /\ podium = None
              /\ closer[c].pc = "announce" => session = closer[c].ranks
              /\ closer[c].pc = "announce_only" => session = None
        /\ podium # None /\ session # None => podium.rankings = session
        /\ room.status = "finished" /\ podium = None /\ ~lost => \E c \in Closers : Ending(c)

\* What it has read, when its reads do not fail.
CompleteInv ==
    ~ReadsFail /\ ~Swept =>
        /\ \A c \in Closers : closer[c].pc = "archive" =>
              \A p \in Players \ left :
                 p \in DOMAIN closer[c].ranks /\ closer[c].ranks[p].score = Count(acked, p)
        /\ session # None =>
              \A p \in Players \ left :
                 /\ p \in DOMAIN session
                 /\ session[p] = [score |-> Count(acked, p), correct |-> Count(acked, p)]

IInv == TypeOK /\ OrderInv /\ RowInv /\ ClaimInv /\ CompleteInv

-----------------------------------------------------------------------------
(* Counting answers.                                                       *)

LEMMA CountBound ==
    ASSUME NEW L \in SUBSET (Players \X Questions), NEW p \in Players
    PROVE  /\ IsFiniteSet({a \in L : a[1] = p})
           /\ Count(L, p) \in 0 .. Cardinality(Questions)
<1> DEFINE A == {a \in L : a[1] = p}
<1>1. A \subseteq {p} \X Questions
  OBVIOUS
<1>2. IsFiniteSet({p}) /\ Cardinality({p}) = 1 /\ Cardinality(Questions) \in Nat
  BY QuizAssumption, FS_Singleton, FS_CardinalityType
<1>3. /\ IsFiniteSet({p} \X Questions)
      /\ Cardinality({p} \X Questions) = Cardinality(Questions)
  <2>1. /\ IsFiniteSet({p} \X Questions)
        /\ Cardinality({p} \X Questions) = Cardinality({p}) * Cardinality(Questions)
    BY <1>2, QuizAssumption, FS_Product
  <2> QED BY <1>2, <2>1
<1>4. IsFiniteSet(A) /\ Cardinality(A) <= Cardinality(Questions)
  BY <1>1, <1>3, FS_Subset
<1>5. Cardinality(A) \in Nat
  BY <1>4, FS_CardinalityType
<1> HIDE DEF A
<1>6. Cardinality(A) \in 0 .. Cardinality(Questions)
  BY <1>2, <1>4, <1>5
<1> QED BY <1>4, <1>6 DEF A, Count

LEMMA CountGrows ==
    ASSUME NEW L \in SUBSET (Players \X Questions), NEW p \in Players, NEW q \in Questions,
           <<p, q>> \notin L
    PROVE  /\ Count(L \cup {<<p, q>>}, p) = Count(L, p) + 1
           /\ \A r \in Players \ {p} : Count(L \cup {<<p, q>>}, r) = Count(L, r)
           /\ Count(L, p) + 1 \in 0 .. Cardinality(Questions)
<1> DEFINE A == {a \in L : a[1] = p}
           M == L \cup {<<p, q>>}
<1>1. {a \in M : a[1] = p} = A \cup {<<p, q>>} /\ <<p, q>> \notin A
  OBVIOUS
<1>2. IsFiniteSet(A) /\ Count(L, p) = Cardinality(A)
  BY CountBound DEF Count
<1>3. Cardinality(A \cup {<<p, q>>}) = Cardinality(A) + 1
  BY <1>1, <1>2, FS_AddElement
<1>4. Count(M, p) = Count(L, p) + 1
  BY <1>1, <1>2, <1>3 DEF Count
<1>5. ASSUME NEW r \in Players \ {p}
      PROVE  Count(M, r) = Count(L, r)
  <2>1. {a \in M : a[1] = r} = {a \in L : a[1] = r}
    BY <1>5
  <2> QED BY <2>1 DEF Count
<1>6. M \in SUBSET (Players \X Questions)
  OBVIOUS
<1>7. Count(M, p) \in 0 .. Cardinality(Questions)
  BY <1>6, CountBound
<1> QED BY <1>4, <1>5, <1>7

-----------------------------------------------------------------------------
(* Rankings.                                                               *)

LEMMA IsRanking ==
    ASSUME NEW S \in SUBSET Players, NEW f \in [S -> Entry]
    PROVE  f \in Rankings
BY DEF Rankings

LEMMA RankingIs ==
    ASSUME NEW f \in Rankings
    PROVE  /\ DOMAIN f \subseteq Players /\ f # None
           /\ \A p \in DOMAIN f : f[p] \in Entry
           /\ f \in [DOMAIN f -> Entry]
BY NoneAssumption DEF Rankings

LEMMA NoOneRanks == NoOne \in Rankings
<1>1. NoOne \in [{} -> Entry]
  BY DEF NoOne
<1> QED BY <1>1, IsRanking

LEMMA RowsAre ==
    ASSUME TypeOK
    PROVE  /\ DOMAIN rows \subseteq Players
           /\ \A p \in DOMAIN rows : rows[p] \in 0 .. Cardinality(Questions)
           /\ rows \in [DOMAIN rows -> 0 .. Cardinality(Questions)]
BY DEF TypeOK, Scores

\* The rows as they are read.
LEMMA ListedRanks ==
    ASSUME TypeOK
    PROVE  /\ Listed \in Rankings /\ DOMAIN Listed = DOMAIN rows
           /\ \A p \in DOMAIN rows : Listed[p].score = rows[p]
<1>1. 0 \in 0 .. Cardinality(Questions)
  BY QuizAssumption, FS_CardinalityType
<1>2. \A p \in DOMAIN rows : [score |-> rows[p], correct |-> 0] \in Entry
  BY <1>1, RowsAre DEF Entry
<1>3. Listed \in [DOMAIN rows -> Entry]
  BY <1>2 DEF Listed
<1>4. Listed \in Rankings
  BY <1>3, RowsAre, IsRanking
<1> QED BY <1>4 DEF Listed

\* The counts of the log joined to them.
LEMMA CountedRanks ==
    ASSUME TypeOK, NEW ranks \in Rankings
    PROVE  /\ Counted(ranks) \in Rankings /\ DOMAIN Counted(ranks) = DOMAIN ranks
           /\ \A p \in DOMAIN ranks :
                 Counted(ranks)[p] = [score |-> ranks[p].score, correct |-> Count(log, p)]
<1>1. log \in SUBSET (Players \X Questions)
  BY DEF TypeOK
<1>2. ASSUME NEW p \in DOMAIN ranks
      PROVE  /\ [ranks[p] EXCEPT !.correct = Count(log, p)]
                   = [score |-> ranks[p].score, correct |-> Count(log, p)]
             /\ [ranks[p] EXCEPT !.correct = Count(log, p)] \in Entry
  <2>1. Count(log, p) \in 0 .. Cardinality(Questions)
    BY <1>1, <1>2, CountBound, RankingIs
  <2>2. ranks[p] \in Entry
    BY <1>2, RankingIs
  <2> QED BY <2>1, <2>2 DEF Entry
<1>3. Counted(ranks) \in [DOMAIN ranks -> Entry]
  BY <1>2 DEF Counted
<1>4. Counted(ranks) \in Rankings
  BY <1>3, RankingIs, IsRanking
<1> QED BY <1>2, <1>4 DEF Counted

-----------------------------------------------------------------------------
(* Calls: what a step leaves of one.                                       *)

PC == {"idle", "claim", "collect", "archive", "announce", "announce_only", "save", "wipe",
       "wipe_log", "over"}

LEMMA IdleCloser ==
    /\ CloserIdle \in Closer /\ CloserIdle.pc = "idle"
    /\ \A pc \in PC, seen \in Reasons :
          LET new == [CloserIdle EXCEPT !.pc = pc, !.seen = seen]
          IN  new \in Closer /\ new.pc = pc /\ new.seen = seen
<1>1. CloserIdle \in Closer
  BY NoOneRanks DEF CloserIdle, Closer, Reasons
<1>2. ASSUME NEW pc \in PC, NEW seen \in Reasons
      PROVE  LET new == [CloserIdle EXCEPT !.pc = pc, !.seen = seen]
             IN  new \in Closer /\ new.pc = pc /\ new.seen = seen
  BY <1>1 DEF Closer, PC
<1> QED BY <1>1, <1>2 DEF CloserIdle

\* The other calls stand still.
Spares(c) == \A d \in Closers \ {c} : closer'[d] = closer[d]

LEMMA CloserWritten ==
    ASSUME TypeOK, NEW c \in Closers, NEW new \in Closer, closer' = [closer EXCEPT ![c] = new]
    PROVE  closer' \in [Closers -> Closer] /\ closer'[c] = new /\ Spares(c)
BY DEF TypeOK, Spares

LEMMA MovesWith ==
    ASSUME TypeOK, NEW c \in Closers, NEW pc \in PC, NEW ranks \in Rankings,
           \/ closer' = [closer EXCEPT ![c].pc = pc, ![c].ranks = ranks]
           \/ Goto(c, pc) /\ ranks = closer[c].ranks
    PROVE  /\ closer' \in [Closers -> Closer] /\ Spares(c)
           /\ closer'[c].pc = pc /\ closer'[c].ranks = ranks
<1> DEFINE new == [closer[c] EXCEPT !.pc = pc, !.ranks = ranks]
<1>1. closer[c] \in Closer
  BY DEF TypeOK
<1>2. new \in Closer /\ new.pc = pc /\ new.ranks = ranks
  BY <1>1 DEF Closer, PC
<1>3. closer' = [closer EXCEPT ![c] = new]
  BY <1>1 DEF TypeOK, Closer, Goto
<1> HIDE DEF new
<1> QED BY <1>2, <1>3, CloserWritten

LEMMA Rests ==
    ASSUME TypeOK, NEW c \in Closers, Rest(c)
    PROVE  closer' \in [Closers -> Closer] /\ Spares(c) /\ closer'[c].pc = "idle"
BY IdleCloser, CloserWritten DEF Rest

\* The sweep: any step of it, and what it may become.
LEMMA SweepMoves ==
    ASSUME TypeOK, NEW pc \in PC, NEW ranks \in Rankings,
           \/ sweep' = [sweep EXCEPT !.pc = pc, !.ranks = ranks]
           \/ sweep' = [sweep EXCEPT !.pc = pc] /\ ranks = sweep.ranks
    PROVE  sweep' \in Closer /\ sweep'.pc = pc
<1>1. sweep \in Closer
  BY DEF TypeOK
<1> QED BY <1>1 DEF Closer, PC

LEMMA SweepIsOver == SweepOver \in Closer /\ SweepOver.pc = "over"
<1>1. CloserIdle \in Closer
  BY IdleCloser
<1> QED BY <1>1 DEF SweepOver, Closer

LEMMA RoomIs ==
    ASSUME TypeOK
    PROVE  /\ room.status \in {"active", "finished"} /\ room.reason \in Reasons
           /\ \A reason \in Reasons :
                 [status |-> "finished", reason |-> reason, idle |-> FALSE]
                    \in [status: {"active", "finished"}, reason: Reasons, idle: BOOLEAN]
BY DEF TypeOK

LEMMA DeletedRows ==
    ASSUME TypeOK
    PROVE  /\ NoOne \in Scores
           /\ \A S : Without(S) \in Scores
                  /\ DOMAIN Without(S) = DOMAIN rows \ S
                  /\ \A p \in DOMAIN rows \ S : Without(S)[p] = rows[p]
<1>1. NoOne \in [{} -> 0 .. Cardinality(Questions)]
  BY DEF NoOne
<1>2. ASSUME NEW S
      PROVE  /\ Without(S) \in Scores
             /\ DOMAIN Without(S) = DOMAIN rows \ S
             /\ \A p \in DOMAIN rows \ S : Without(S)[p] = rows[p]
  <2>1. Without(S) \in [DOMAIN rows \ S -> 0 .. Cardinality(Questions)]
    BY RowsAre DEF Without
  <2>2. DOMAIN rows \ S \in SUBSET Players
    BY RowsAre
  <2> QED BY <2>1, <2>2 DEF Scores, Without
<1> QED BY <1>1, <1>2 DEF Scores

-----------------------------------------------------------------------------
(* Players.                                                                *)

LEMMA AnswerKeeps ==
    ASSUME IInv, NEW p \in Players, NEW q \in Questions, AnswerQuestion(p, q)
    PROVE  IInv'
<1>1. /\ room.status = "active" /\ p \in DOMAIN rows /\ <<p, q>> \notin log
      /\ log' = log \cup {<<p, q>>} /\ acked' = acked \cup {<<p, q>>}
      /\ rows' = [rows EXCEPT ![p] = @ + 1]
      /\ UNCHANGED <<room, left, leaving, closer, sweep, lost, session, podium>>
  BY DEF AnswerQuestion, ending
<1>2. log = acked /\ \A r \in DOMAIN rows : rows[r] = Count(log, r)
  BY <1>1 DEF IInv, RowInv
<1>3. /\ log \in SUBSET (Players \X Questions) /\ DOMAIN rows \subseteq Players
      /\ rows \in [DOMAIN rows -> 0 .. Cardinality(Questions)]
  BY RowsAre DEF IInv, TypeOK
<1>4. /\ Count(log', p) = Count(log, p) + 1 /\ Count(log, p) + 1 \in 0 .. Cardinality(Questions)
      /\ \A r \in Players \ {p} : Count(log', r) = Count(log, r)
  <2>1. /\ Count(log \cup {<<p, q>>}, p) = Count(log, p) + 1
        /\ Count(log, p) + 1 \in 0 .. Cardinality(Questions)
        /\ \A r \in Players \ {p} : Count(log \cup {<<p, q>>}, r) = Count(log, r)
    <3>1. log \in SUBSET (Players \X Questions) /\ <<p, q>> \notin log
      BY <1>1, <1>3
    <3> QED BY <3>1, CountGrows
  <2> QED BY <1>1, <2>1
<1>5. /\ rows' \in [DOMAIN rows -> 0 .. Cardinality(Questions)] /\ DOMAIN rows' = DOMAIN rows
      /\ \A r \in DOMAIN rows : rows'[r] = Count(log', r)
  BY <1>1, <1>2, <1>3, <1>4
<1>6. rows' \in Scores
  BY <1>3, <1>5 DEF Scores
<1>7. TypeOK'
  BY <1>1, <1>6 DEF IInv, TypeOK
<1>8. OrderInv' /\ ClaimInv'
  BY <1>1 DEF IInv, OrderInv, ClaimInv, Claimed, Swept, Ending
<1>9. RowInv'
  BY <1>1, <1>2, <1>5 DEF IInv, RowInv
<1>10. CompleteInv'
  BY <1>1 DEF IInv, OrderInv, ClaimInv, CompleteInv, Claimed, Swept
<1> QED BY <1>7, <1>8, <1>9, <1>10 DEF IInv

\* A player who leaves takes at most the own row along.
LEMMA LeaveKeeps ==
    ASSUME IInv, NEW p \in Players, LeaveRead(p) \/ LeaveDelete(p)
    PROVE  IInv'
<1>1. UNCHANGED <<room, log, acked, closer, sweep, lost, session, podium>>
  BY DEF LeaveRead, LeaveDelete, ending
<1>2. OrderInv' /\ ClaimInv'
  BY <1>1 DEF IInv, OrderInv, ClaimInv, Claimed, Swept, Ending
<1>3. left \subseteq left'
  BY DEF LeaveRead, LeaveDelete
<1>4. CompleteInv'
  BY <1>1, <1>3 DEF IInv, CompleteInv, Swept
<1>5. CASE LeaveRead(p)
  <2>1. UNCHANGED rows /\ left' = left \cup {p} /\ leaving' = leaving \cup {p}
    BY <1>5 DEF LeaveRead
  <2> QED BY <1>1, <1>2, <1>4, <2>1 DEF IInv, TypeOK, RowInv
<1>6. CASE LeaveDelete(p)
  <2>1. /\ UNCHANGED left /\ leaving' = leaving \ {p} /\ rows' = Without({p}) /\ p \in left
    BY <1>6 DEF LeaveDelete, IInv, TypeOK
  <2>2. /\ rows' \in Scores /\ DOMAIN rows' = DOMAIN rows \ {p}
        /\ \A r \in DOMAIN rows \ {p} : rows'[r] = rows[r]
    BY <2>1, DeletedRows DEF IInv
  <2>3. TypeOK'
    BY <1>1, <2>1, <2>2 DEF IInv, TypeOK
  <2>4. RowInv'
    BY <1>1, <2>1, <2>2 DEF IInv, RowInv
  <2> QED BY <1>2, <1>4, <2>3, <2>4 DEF IInv
<1> QED BY <1>5, <1>6

-----------------------------------------------------------------------------
(* finalizeRoom.                                                           *)

LEMMA ReadsKeeps ==
    ASSUME IInv, NEW c \in Closers, CloserReads(c)
    PROVE  IInv'
<1> DEFINE new == [CloserIdle EXCEPT !.pc = "claim", !.seen = room.reason]
<1>1. UNCHANGED <<room, rows, log, acked, left, leaving, session, podium, sweep, lost>>
  BY DEF CloserReads, game, ending
<1>2. new \in Closer /\ new.pc = "claim"
  <2>1. room.reason \in Reasons /\ "claim" \in PC
    BY RoomIs DEF IInv, PC
  <2> QED BY <2>1, IdleCloser DEF new
<1>3. closer[c].pc = "idle" /\ closer' = [closer EXCEPT ![c] = new]
  BY DEF CloserReads
<1> HIDE DEF new
<1>4. closer' \in [Closers -> Closer] /\ Spares(c) /\ closer'[c].pc = "claim"
  BY <1>2, <1>3, CloserWritten DEF IInv
<1>5. TypeOK' /\ RowInv'
  BY <1>1, <1>4 DEF IInv, TypeOK, RowInv
<1>6. OrderInv' /\ CompleteInv'
  BY <1>1, <1>4 DEF IInv, OrderInv, CompleteInv, Claimed, Swept, Spares
<1>7. ClaimInv'
  BY <1>1, <1>3, <1>4 DEF IInv, ClaimInv, Claimed, Swept, Spares, Ending
<1> QED BY <1>5, <1>6, <1>7 DEF IInv

LEMMA ClaimKeeps ==
    ASSUME IInv, NEW c \in Closers, Claim(c)
    PROVE  IInv'
<1>1. /\ room' = [status |-> "finished", reason |-> Reason[c], idle |-> FALSE]
      /\ UNCHANGED <<rows, log, acked, left, leaving, session, podium, sweep, lost>>
  BY DEF Claim, game, ending
<1>2. room.status = "active" /\ room'.status = "finished"
  BY <1>1, RoomIs DEF Claim, IInv
<1>3. closer' \in [Closers -> Closer] /\ Spares(c) /\ closer'[c].pc = "collect"
  <2>1. closer[c].ranks \in Rankings
    BY DEF IInv, TypeOK, Closer
  <2> QED BY <2>1, MovesWith DEF Claim, IInv, PC
<1>4. \A d \in Closers : ~Claimed(d)
  BY <1>2 DEF IInv, OrderInv
<1>5. TypeOK'
  <2>1. Reason[c] \in Reasons
    BY ReasonAssumption DEF Reasons
  <2> QED BY <1>1, <1>3, <2>1, RoomIs DEF IInv, TypeOK
<1>6. OrderInv' /\ RowInv'
  BY <1>1, <1>2, <1>3 DEF IInv, OrderInv, RowInv, Spares
<1>7. ClaimInv'
  BY <1>1, <1>2, <1>3, <1>4 DEF IInv, ClaimInv, Claimed, Swept, Spares, Ending
<1>8. CompleteInv'
  BY <1>1, <1>3 DEF IInv, CompleteInv, Swept, Spares
<1> QED BY <1>5, <1>6, <1>7, <1>8 DEF IInv

LEMMA ReplayKeeps ==
    ASSUME IInv, NEW c \in Closers, Replay(c)
    PROVE  IInv'
<1>1. /\ closer[c].pc = "claim" /\ room.status = "finished"
      /\ UNCHANGED <<room, rows, log, acked, left, leaving, session, sweep, lost>>
  BY DEF Replay, game
<1>2. closer' \in [Closers -> Closer] /\ Spares(c) /\ closer'[c].pc = "idle"
  BY Rests DEF Replay, IInv
<1>3. \/ podium' = podium
      \/ /\ session # None /\ podium' = [rankings |-> session, reason |-> closer[c].seen]
         /\ podium' \in Podium /\ podium' # None
  <2>1. closer[c].seen \in Reasons /\ session \in Rankings \cup {None}
    BY DEF IInv, TypeOK, Closer
  <2>2. session # None =>
           [rankings |-> session, reason |-> closer[c].seen] \in Podium
    BY <2>1 DEF Podium
  <2> QED BY <2>2, NoneAssumption DEF Replay
<1>4. TypeOK' /\ RowInv'
  BY <1>1, <1>2, <1>3 DEF IInv, TypeOK, RowInv
<1>5. OrderInv' /\ CompleteInv'
  BY <1>1, <1>2 DEF IInv, OrderInv, CompleteInv, Claimed, Swept, Spares
<1>6. ClaimInv'
  BY <1>1, <1>2, <1>3 DEF IInv, ClaimInv, Claimed, Swept, Spares, Ending
<1> QED BY <1>4, <1>5, <1>6 DEF IInv

LEMMA CollectKeeps ==
    ASSUME IInv, NEW c \in Closers, Collect(c)
    PROVE  IInv'
<1>1. /\ closer[c].pc = "collect"
      /\ UNCHANGED <<room, rows, log, acked, left, leaving, session, podium, sweep, lost>>
  BY DEF Collect, game, ending
<1>2. PICK ranks \in ReadOf(Listed, NoOne) :
         closer' = [closer EXCEPT ![c].pc = "archive", ![c].ranks = ranks]
  BY DEF Collect
<1>3. ranks \in Rankings /\ (~ReadsFail => ranks = Listed)
  BY ListedRanks, NoOneRanks DEF ReadOf, IInv
<1>4. /\ closer' \in [Closers -> Closer] /\ Spares(c)
      /\ closer'[c].pc = "archive" /\ closer'[c].ranks = ranks
  BY <1>2, <1>3, MovesWith DEF IInv, PC
<1>5. TypeOK' /\ RowInv'
  BY <1>1, <1>4 DEF IInv, TypeOK, RowInv
<1>6. OrderInv'
  BY <1>1, <1>4 DEF IInv, OrderInv, Claimed, Spares
<1>7. ClaimInv'
  BY <1>1, <1>4 DEF IInv, ClaimInv, Claimed, Swept, Spares, Ending
<1>8. CompleteInv'
  <2>1. ASSUME ~ReadsFail, ~Swept, NEW p \in Players \ left
        PROVE  p \in DOMAIN ranks /\ ranks[p].score = Count(acked, p)
    <3>1. session = None
      BY <1>1, <2>1 DEF IInv, ClaimInv
    <3>2. p \in DOMAIN rows /\ rows[p] = Count(acked, p)
      BY <2>1, <3>1 DEF IInv, RowInv
    <3> QED BY <1>3, <2>1, <3>2, ListedRanks DEF IInv
  <2> QED BY <1>1, <1>4, <2>1 DEF IInv, CompleteInv, Swept, Spares
<1> QED BY <1>5, <1>6, <1>7, <1>8 DEF IInv

LEMMA ArchiveKeeps ==
    ASSUME IInv, NEW c \in Closers, Archive(c)
    PROVE  IInv'
<1>1. /\ closer[c].pc = "archive" /\ closer[c].ranks \in Rankings
      /\ UNCHANGED <<room, rows, log, acked, left, leaving, podium, sweep, lost>>
  BY DEF Archive, game, IInv, TypeOK, Closer
<1>2. PICK ranks \in ReadOf(Counted(closer[c].ranks), closer[c].ranks) :
         \/ /\ session = None /\ session' = ranks
            /\ closer' = [closer EXCEPT ![c].pc = "announce", ![c].ranks = ranks]
         \/ /\ UNCHANGED session
            /\ closer' = [closer EXCEPT ![c].pc = "announce_only", ![c].ranks = ranks]
  BY DEF Archive
<1>3. /\ ranks \in Rankings /\ ranks # None
      /\ ~ReadsFail => ranks = Counted(closer[c].ranks)
  BY <1>1, CountedRanks, RankingIs DEF ReadOf, IInv
<1>4. /\ closer' \in [Closers -> Closer] /\ Spares(c)
      /\ closer'[c].pc \in {"announce", "announce_only"} /\ closer'[c].ranks = ranks
      /\ closer'[c].pc = "announce" => session = None /\ session' = ranks
      /\ closer'[c].pc = "announce_only" => UNCHANGED session
  <2>1. /\ closer' = [closer EXCEPT ![c].pc = "announce", ![c].ranks = ranks] =>
              /\ closer' \in [Closers -> Closer] /\ Spares(c)
              /\ closer'[c].pc = "announce" /\ closer'[c].ranks = ranks
        /\ closer' = [closer EXCEPT ![c].pc = "announce_only", ![c].ranks = ranks] =>
              /\ closer' \in [Closers -> Closer] /\ Spares(c)
              /\ closer'[c].pc = "announce_only" /\ closer'[c].ranks = ranks
    BY <1>3, MovesWith DEF IInv, PC
  <2> QED BY <1>2, <2>1
<1>5. Claimed(c) /\ Claimed(c)' /\ Ending(c)' /\ room.status = "finished"
  BY <1>1, <1>4, RoomIs DEF Claimed, Ending, IInv, OrderInv
<1>6. TypeOK'
  BY <1>1, <1>3, <1>4 DEF IInv, TypeOK
<1>7. session # None => session' = session
  BY <1>4
<1>8. OrderInv'
  BY <1>1, <1>3, <1>4, <1>5, <1>7 DEF IInv, OrderInv, Spares
<1>9. RowInv'
  BY <1>1, <1>4, <1>3, <1>5 DEF IInv, RowInv
<1>10. ASSUME ~Swept
       PROVE  session = None /\ podium = None /\ \A d \in Closers \ {c} : ~Claimed(d) /\ ~Claimed(d)'
  <2>1. session = None /\ podium = None
    BY <1>1, <1>10 DEF IInv, ClaimInv
  <2>2. \A d \in Closers \ {c} : ~Claimed(d)
    BY <1>5, <1>10 DEF IInv, ClaimInv
  <2> QED BY <1>4, <2>1, <2>2 DEF Claimed, Spares
<1>11. ClaimInv'
  <2>1. SUFFICES ASSUME ~Swept
                 PROVE  ClaimInv'
    BY <1>1 DEF ClaimInv, Swept
  <2> QED BY <1>1, <1>4, <1>5, <1>10, <2>1 DEF ClaimInv, Claimed
<1>12. CompleteInv'
  <2>1. SUFFICES ASSUME ~Swept, ~ReadsFail
                 PROVE  CompleteInv'
    BY <1>1 DEF CompleteInv, Swept
  <2>2. ASSUME NEW p \in Players \ left
        PROVE  /\ p \in DOMAIN ranks
               /\ ranks[p] = [score |-> Count(acked, p), correct |-> Count(acked, p)]
    <3>1. /\ p \in DOMAIN closer[c].ranks /\ closer[c].ranks[p].score = Count(acked, p)
      BY <1>1, <2>1, <2>2 DEF IInv, CompleteInv
    <3>2. log = acked
      BY <1>10, <2>1 DEF IInv, RowInv
    <3> QED BY <1>1, <1>3, <2>1, <3>1, <3>2, CountedRanks DEF IInv
  <2>3. \A d \in Closers : closer'[d].pc # "archive"
    BY <1>4, <1>10, <2>1 DEF Claimed
  <2> QED BY <1>1, <1>4, <1>10, <2>1, <2>2, <2>3 DEF CompleteInv
<1> QED BY <1>6, <1>8, <1>9, <1>11, <1>12 DEF IInv

LEMMA AnnounceKeeps ==
    ASSUME IInv, NEW c \in Closers, Announce(c)
    PROVE  IInv'
<1>1. /\ closer[c].pc \in {"announce", "announce_only"} /\ closer[c].ranks \in Rankings
      /\ UNCHANGED <<room, rows, log, acked, left, leaving, session, sweep>>
  BY DEF Announce, game, IInv, TypeOK, Closer
<1>2. \/ /\ podium' = [rankings |-> closer[c].ranks, reason |-> Reason[c]]
         /\ podium' \in Podium /\ podium' # None
         /\ UNCHANGED lost
      \/ UNCHANGED podium /\ lost' = TRUE
  <2>1. Reason[c] \in Reasons
    BY ReasonAssumption DEF Reasons
  <2>2. [rankings |-> closer[c].ranks, reason |-> Reason[c]] \in Podium
    BY <1>1, <2>1 DEF Podium
  <2> QED BY <2>2, NoneAssumption DEF Announce, Tell
<1>3. /\ closer' \in [Closers -> Closer] /\ Spares(c)
      /\ closer'[c].pc \in {"wipe", "idle"}
      /\ closer'[c].pc = "wipe" => closer[c].pc = "announce"
  BY <1>1, MovesWith, Rests DEF Announce, IInv, PC
<1>4. Claimed(c) /\ room.status = "finished"
  BY <1>1, RoomIs DEF Claimed, IInv, OrderInv
<1>5. TypeOK' /\ RowInv'
  BY <1>1, <1>2, <1>3 DEF IInv, TypeOK, RowInv
<1>6. OrderInv' /\ CompleteInv'
  BY <1>1, <1>3, <1>4 DEF IInv, OrderInv, CompleteInv, Swept, Spares
<1>7. ClaimInv'
  <2>1. SUFFICES ASSUME ~Swept
                 PROVE  ClaimInv'
    BY <1>1 DEF ClaimInv, Swept
  <2>2. \A d \in Closers \ {c} : ~Claimed(d) /\ ~Claimed(d)'
    BY <1>3, <1>4, <2>1 DEF IInv, ClaimInv, Claimed, Spares
  <2>3. podium' # None /\ session # None => podium'.rankings = session
    BY <1>1, <1>2, <2>1 DEF IInv, ClaimInv
  <2> QED BY <1>1, <1>2, <1>3, <1>4, <2>1, <2>2, <2>3 DEF ClaimInv, Claimed
<1> QED BY <1>5, <1>6, <1>7 DEF IInv

LEMMA WipeKeeps ==
    ASSUME IInv, NEW c \in Closers, WipePlayers(c) \/ WipeLog(c)
    PROVE  IInv'
<1>1. /\ closer[c].pc \in {"wipe", "wipe_log"}
      /\ UNCHANGED <<room, acked, left, leaving, session, podium, sweep, lost>>
      /\ rows' \in {NoOne, rows} /\ log' \in {{}, log}
  BY DEF WipePlayers, WipeLog, DeletePlayers, DeleteLog, ending
<1>2. /\ closer' \in [Closers -> Closer] /\ Spares(c)
      /\ closer'[c].pc \in {"wipe_log", "idle"}
  <2>1. closer[c].ranks \in Rankings
    BY DEF IInv, TypeOK, Closer
  <2> QED BY <2>1, MovesWith, Rests DEF WipePlayers, WipeLog, IInv, PC
<1>3. Claimed(c) /\ room.status = "finished" /\ session # None
  BY <1>1, RoomIs DEF Claimed, IInv, OrderInv
<1>4. TypeOK' /\ RowInv'
  BY <1>1, <1>2, <1>3, DeletedRows DEF IInv, TypeOK, RowInv
<1>5. OrderInv' /\ CompleteInv'
  BY <1>1, <1>2, <1>3 DEF IInv, OrderInv, CompleteInv, Swept, Spares
<1>6. ClaimInv'
  BY <1>1, <1>2, <1>3 DEF IInv, ClaimInv, Claimed, Swept, Spares, Ending
<1> QED BY <1>4, <1>5, <1>6 DEF IInv

-----------------------------------------------------------------------------
(* The sweep, the clock and the restart.                                   *)

LEMMA SweepKeeps ==
    ASSUME IInv, Sweep
    PROVE  IInv'
<1>1. UNCHANGED <<acked, left, leaving, closer, podium, lost>>
  BY DEF Sweep, SweepReads, SweepCollects, SweepArchives, SweepSaves, SweepWipesPlayers,
         SweepWipesLog, game, ending
<1>2. sweep \in Closer /\ sweep.ranks \in Rankings
  BY DEF IInv, TypeOK, Closer
<1>3. /\ sweep' \in Closer /\ sweep'.pc # "idle"
      /\ sweep'.pc = "save" => session' # None
      /\ sweep'.pc = "wipe" => room'.status = "finished" /\ session' # None
      /\ sweep'.pc = "wipe_log" => room'.status = "finished" /\ session' # None
      /\ session' = session \/ (session = None /\ session' \in Rankings /\ session' # None)
      /\ room' = room \/ (room'.status = "finished" /\ room' \in
            [status: {"active", "finished"}, reason: Reasons, idle: BOOLEAN])
      /\ rows' \in {NoOne, rows} /\ log' \in {{}, log}
      /\ rows' # rows \/ log' # log => room'.status = "finished" /\ session # None
  <2>1. CASE SweepReads
    <3>1. sweep' = [CloserIdle EXCEPT !.pc = "collect", !.seen = room.reason]
          /\ UNCHANGED <<room, rows, log, session>>
      BY <2>1 DEF SweepReads, game, ending
    <3>2. room.reason \in Reasons /\ "collect" \in PC
      BY RoomIs DEF IInv, PC
    <3>3. sweep' \in Closer /\ sweep'.pc = "collect"
      BY <3>1, <3>2, IdleCloser
    <3> QED BY <3>1, <3>3
  <2>2. CASE SweepCollects
    <3>1. PICK ranks \in ReadOf(Listed, NoOne) :
             sweep' = [sweep EXCEPT !.pc = "archive", !.ranks = ranks]
      BY <2>2 DEF SweepCollects
    <3>2. ranks \in Rankings
      BY ListedRanks, NoOneRanks DEF ReadOf, IInv
    <3>3. sweep' \in Closer /\ sweep'.pc = "archive"
      BY <3>1, <3>2, SweepMoves DEF IInv, PC
    <3> QED BY <2>2, <3>3 DEF SweepCollects, game, ending
  <2>3. CASE SweepArchives
    <3>1. UNCHANGED <<room, rows, log>>
      BY <2>3 DEF SweepArchives, game
    <3>2. \/ sweep' \in Closer /\ sweep'.pc = "over" /\ UNCHANGED session
          \/ /\ sweep' \in Closer /\ sweep'.pc = "save"
             /\ \/ session # None /\ UNCHANGED session
                \/ session = None /\ session' \in ReadOf(Counted(sweep.ranks), sweep.ranks)
      BY <1>2, <2>3, SweepMoves, SweepIsOver DEF SweepArchives, IInv, PC
    <3>3. \A ranks \in ReadOf(Counted(sweep.ranks), sweep.ranks) : ranks \in Rankings /\ ranks # None
      BY <1>2, CountedRanks, RankingIs DEF ReadOf, IInv
    <3> QED BY <3>1, <3>2, <3>3
  <2>4. CASE SweepSaves
    <3>1. sweep.seen \in Reasons /\ session # None
      BY <1>2, <2>4 DEF Closer, SweepSaves, IInv, OrderInv
    <3>2. \/ sweep' \in Closer /\ sweep'.pc = "over" /\ UNCHANGED room
          \/ /\ sweep' \in Closer /\ sweep'.pc = "wipe"
             /\ room' = [status |-> "finished", reason |-> sweep.seen, idle |-> FALSE]
      BY <1>2, <2>4, SweepMoves, SweepIsOver DEF SweepSaves, IInv, PC
    <3> QED BY <2>4, <3>1, <3>2, RoomIs DEF SweepSaves, IInv, game, ending
  <2>5. CASE SweepWipesPlayers \/ SweepWipesLog
    <3>1. room.status = "finished" /\ session # None
      BY <2>5, RoomIs DEF SweepWipesPlayers, SweepWipesLog, IInv, OrderInv
    <3>2. /\ sweep' \in Closer /\ sweep'.pc \in {"wipe_log", "over"}
      BY <1>2, <2>5, SweepMoves, SweepIsOver DEF SweepWipesPlayers, SweepWipesLog, IInv, PC
    <3> QED BY <2>5, <3>1, <3>2
            DEF SweepWipesPlayers, SweepWipesLog, DeletePlayers, DeleteLog, ending
  <2> QED BY <2>1, <2>2, <2>3, <2>4, <2>5 DEF Sweep
<1>4. TypeOK'
  BY <1>1, <1>3, DeletedRows DEF IInv, TypeOK
<1>5. Swept'
  BY <1>3 DEF Swept
<1>6. OrderInv'
  BY <1>1, <1>3 DEF IInv, OrderInv, Claimed
<1>7. RowInv'
  <2>1. room'.status = "active" => room.status = "active"
    BY <1>3
  <2> QED BY <1>1, <1>3, <2>1 DEF IInv, RowInv
<1> QED BY <1>4, <1>5, <1>6, <1>7 DEF IInv, ClaimInv, CompleteInv

LEMMA TwelveHoursKeeps ==
    ASSUME IInv, TwelveHours
    PROVE  IInv'
<1> DEFINE new == [room EXCEPT !.idle = TRUE]
<1>1. UNCHANGED <<rows, log, acked, left, leaving, session, podium, closer, sweep, lost>>
  BY DEF TwelveHours, game, ending
<1>2. room \in [status: {"active", "finished"}, reason: Reasons, idle: BOOLEAN]
  BY DEF IInv, TypeOK
<1>3. new \in [status: {"active", "finished"}, reason: Reasons, idle: BOOLEAN]
  BY <1>2, Zenon
<1>4. new.status = room.status
  BY <1>2
<1>5. room' = new
  BY DEF TwelveHours
<1> HIDE DEF new
<1>6. TypeOK' /\ room'.status = room.status
  BY <1>1, <1>3, <1>4, <1>5 DEF IInv, TypeOK
<1> QED BY <1>1, <1>6 DEF IInv, OrderInv, RowInv, ClaimInv, CompleteInv, Claimed, Swept, Ending

LEMMA RestartKeeps ==
    ASSUME IInv, Restart
    PROVE  IInv'
<1>1. UNCHANGED <<room, rows, log, acked, left, session, podium>>
  BY DEF Restart, ending
<1>2. closer' \in [Closers -> Closer] /\ \A c \in Closers : closer'[c].pc = "idle"
  BY IdleCloser DEF Restart
<1>3. /\ sweep' \in Closer /\ sweep'.pc \in {"idle", "over"}
      /\ sweep'.pc = "idle" => ~Swept
      /\ leaving' = {} /\ lost' \in BOOLEAN
      /\ ~lost' => ~lost /\ \A c \in Closers : ~Ending(c)
  BY SweepIsOver DEF Restart, Swept, IInv, TypeOK
<1>4. TypeOK' /\ RowInv'
  BY <1>1, <1>2, <1>3 DEF IInv, TypeOK, RowInv
<1>5. OrderInv' /\ CompleteInv'
  BY <1>1, <1>2, <1>3 DEF IInv, OrderInv, CompleteInv, Claimed, Swept
<1>6. ClaimInv'
  BY <1>1, <1>2, <1>3 DEF IInv, ClaimInv, Claimed, Swept
<1> QED BY <1>4, <1>5, <1>6 DEF IInv

-----------------------------------------------------------------------------
(* The theorems.                                                           *)

LEMMA InitInv == Init => IInv
<1> SUFFICES ASSUME Init
             PROVE  IInv
  OBVIOUS
<1>1. \A p \in Players : Count({}, p) = 0
  <2>1. ASSUME NEW p \in Players
        PROVE  Count({}, p) = 0
    <3>1. {a \in {} : a[1] = p} = {}
      OBVIOUS
    <3> QED BY <3>1, FS_EmptySet DEF Count
  <2> QED BY <2>1
<1>2. rows \in [Players -> 0 .. Cardinality(Questions)] /\ DOMAIN rows = Players
      /\ \A p \in Players : rows[p] = 0
  <2>1. Cardinality(Questions) \in Nat
    BY QuizAssumption, FS_CardinalityType
  <2>2. 0 \in 0 .. Cardinality(Questions)
    BY <2>1
  <2> QED BY <2>2 DEF Init
<1>3. \A c \in Closers : closer[c].pc = "idle"
  BY IdleCloser DEF Init
<1>4. TypeOK
  <2>1. rows \in Scores
    BY <1>2 DEF Scores
  <2>2. room \in [status: {"active", "finished"}, reason: Reasons, idle: BOOLEAN]
    BY DEF Init, Reasons
  <2> QED BY <2>1, <2>2, IdleCloser DEF Init, TypeOK
<1>5. OrderInv /\ RowInv
  BY <1>1, <1>2, <1>3, IdleCloser DEF Init, OrderInv, RowInv, Claimed
<1>6. ClaimInv /\ CompleteInv
  BY <1>3 DEF Init, ClaimInv, CompleteInv, Claimed
<1> QED BY <1>4, <1>5, <1>6 DEF IInv

\* One call wins the end of a room, and no answer moves after it has.
THEOREM InductiveInvariant == Spec => []IInv
<1>1. ASSUME IInv, [Next]_vars
      PROVE  IInv'
  <2>1. CASE UNCHANGED vars
    BY <1>1, <2>1 DEF vars, IInv, TypeOK, OrderInv, RowInv, ClaimInv, CompleteInv, Claimed,
                      Swept, Ending
  <2> QED BY <1>1, <2>1, AnswerKeeps, LeaveKeeps, ReadsKeeps, ClaimKeeps, ReplayKeeps,
             CollectKeeps, ArchiveKeeps, AnnounceKeeps, WipeKeeps, TwelveHoursKeeps, SweepKeeps,
             RestartKeeps DEF Next, Finalize
<1> QED BY <1>1, InitInv, PTL DEF Spec

\* Every row, ranking and call keeps its shape, and no player counts more answers than
\* the quiz has questions.
THEOREM TypesHold == Spec => []TypeOK
BY InductiveInvariant, PTL DEF IInv

\* Unless the reads for the rankings fail, the archive of a room that was finalized has
\* every player who stayed, with every answer they were told counts (finalizeRoom's
\* claim against SubmitAnswer's transaction).
THEOREM ArchivesAreComplete ==
    ASSUME ~ReadsFail
    PROVE  Spec => []ArchiveIsComplete
<1>1. IInv => ArchiveIsComplete
  BY DEF IInv, CompleteInv, ArchiveIsComplete
<1> QED BY <1>1, InductiveInvariant, PTL

\* Whoever ends the room how often, the rankings that are broadcast are the archived
\* ones, whether or not they were read in full (finalizeRoom).
THEOREM PodiumIsArchive == Spec => []PodiumMatchesArchive
<1>1. IInv => PodiumMatchesArchive
  BY DEF IInv, ClaimInv, PodiumMatchesArchive
<1> QED BY <1>1, InductiveInvariant, PTL

\* Neither the winner of the claim nor the abandoned-room sweep deletes a row of a room
\* without an archive, also when reads and inserts fail and across restarts.
THEOREM RowsOutlive == Spec => []RowsOutliveArchive
<1>1. IInv => RowsOutliveArchive
  BY DEF IInv, RowInv, RowsOutliveArchive
<1> QED BY <1>1, InductiveInvariant, PTL

\* A finished room that has not told its players has a call on its way to telling them,
\* unless a restart or a failed publish lost it (finalizeRoom).
THEOREM EndsAreUnderWay == Spec => []EndIsUnderWay
<1>1. IInv => EndIsUnderWay
  BY DEF IInv, ClaimInv, EndIsUnderWay
<1> QED BY <1>1, InductiveInvariant, PTL

=============================================================================
