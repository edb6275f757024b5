----------------------------- MODULE QuizEditing -----------------------------
(***************************************************************************)
(* One quiz, its owner and the people the owner invited to edit it.  An    *)
(* editor's page holds a copy of the quiz, and a save replaces the whole   *)
(* question list by the payload of that page: a compare-and-swap on        *)
(* updated_at takes the quiz row for the rest of the transaction.  The     *)
(* owner also imports questions from a pack, invites and removes editors,  *)
(* and deletes the quiz.                                                   *)
(***************************************************************************)
EXTENDS Naturals, FiniteSets

CONSTANTS
    Owner,
    Guests,       \* the other accounts, each with the address it may be invited by
    Questions,    \* question ids; a deleted one is not used again
    Invites,      \* AddQuizCollaborator requests under way at a time
    GrantLimit,   \* MaxCollaboratorsPerQuiz of the owner's plan
    MaxVersion,   \* bound on the saves
    MaxChange,    \* bound on the rows one payload adds to its page and drops from it
    MaxBusy,      \* bound on the pages, invitations and imports under way together
    Imported, Gone, None

ASSUME EditingAssumption ==
    /\ GrantLimit \in Nat /\ MaxVersion \in Nat /\ MaxBusy \in Nat /\ MaxChange \in Nat
    /\ Owner \notin Guests
    /\ {Imported, Gone, None} \cap (Nat \cup Guests) = {}
    /\ Cardinality({Imported, Gone, None}) = 3

VARIABLES
    quiz,      \* the quizzes row; version stands for updated_at
    written,   \* of a questions row: the save that wrote it last; None before it exists
    pack,      \* the owner's template, and the import from it under way
    desk,      \* an editor's page and its request
    inviting,  \* AddQuizCollaborator requests
    grant,     \* quiz_collaborators rows by address
    deleting   \* DeleteQuiz, and whether it has left grants behind

vars == <<quiz, written, pack, desk, inviting, grant, deleting>>

Editors == Guests \cup {Owner}

Quiz == [state: {"none", "live", "deleted"}, version: 0..MaxVersion]

\* expects: the updated_at sent along, None from a client that sends none.
\* existing: the rows the transaction has read and will replace.
Desk == [step: {"away", "loading", "open", "checked", "locked"},
         version: 0..MaxVersion, seen: SUBSET Questions,
         keep: SUBSET Questions, adds: 0..1, expects: 0..MaxVersion \cup {None},
         existing: SUBSET Questions]
EmptyDesk == [step |-> "away", version |-> 0, seen |-> {}, keep |-> {}, adds |-> 0,
              expects |-> None, existing |-> {}]

Invite == [step: {"idle", "ready", "locked"}, guest: Guests \cup {None}, known: BOOLEAN]
NoInvite == [step |-> "idle", guest |-> None, known |-> FALSE]

Init ==
    /\ quiz = [state |-> "none", version |-> 0]
    /\ written = [q \in Questions |-> None]
    /\ pack = [filled |-> FALSE, importing |-> FALSE]
    /\ desk = [e \in Editors |-> EmptyDesk]
    /\ inviting = [i \in Invites |-> NoInvite]
    /\ grant = [g \in Guests |-> "none"]
    /\ deleting = "no"

Rows == {q \in Questions : written[q] \notin {Gone, None}}
Unused == {q \in Questions : written[q] = None}
Grants == {g \in Guests : grant[g] # "none"}

\* rightsOn: the owner, or an editor whose grant is linked to the account.  The owner's
\* plan must include sharing too; it lapses and comes back at any moment, and a refusal
\* leaves no trace, so it takes nothing away from what may happen.
CanEdit(e) == e \in {Owner} \cup {g \in Guests : grant[g] = "linked"}

\* The row lock of the quiz: an UpdateQuiz or AddQuizCollaborator transaction.
QuizFree == /\ \A e \in Editors : desk[e].step # "locked"
            /\ \A i \in Invites : inviting[i].step # "locked"

Busy == Cardinality({e \in Editors : desk[e].step # "away"})
            + Cardinality({i \in Invites : inviting[i].step # "idle"})
            + (IF pack.importing THEN 1 ELSE 0)
-----------------------------------------------------------------------------
\* Making the quiz, its content coming from the client or from a pack.  The rows are
\* new and committed together; the plan's limits only refuse.

NewQuiz(rows) ==
    /\ quiz.state = "none"
    /\ quiz' = [quiz EXCEPT !.state = "live"]
    /\ written' = [q \in Questions |-> IF q \in rows THEN 0 ELSE None]

CreateQuiz ==
    /\ \E rows \in SUBSET Questions : Cardinality(rows) <= 1 /\ NewQuiz(rows)
    /\ UNCHANGED <<pack, desk, inviting, grant, deleting>>

InstantiateTemplate ==
    /\ pack.filled
    /\ \E q \in Questions : NewQuiz({q})
    /\ UNCHANGED <<pack, desk, inviting, grant, deleting>>

CreateTemplate ==
    /\ ~pack.filled
    /\ pack' = [pack EXCEPT !.filled = TRUE]
    /\ UNCHANGED <<quiz, written, desk, inviting, grant, deleting>>

\* A quiz without questions gives no pack.
CreateTemplateFromQuiz ==
    /\ ~pack.filled /\ quiz.state = "live" /\ Rows # {}
    /\ pack' = [pack EXCEPT !.filled = TRUE]
    /\ UNCHANGED <<quiz, written, desk, inviting, grant, deleting>>

DeleteTemplate ==
    /\ pack.filled
    /\ pack' = [pack EXCEPT !.filled = FALSE]
    /\ UNCHANGED <<quiz, written, desk, inviting, grant, deleting>>

\* ImportBankQuestions reads the pack and the quiz, and the limit of the plan ...
AskImport ==
    /\ pack.filled /\ ~pack.importing /\ Busy < MaxBusy
    /\ quiz.state = "live"
    /\ pack' = [pack EXCEPT !.importing = TRUE]
    /\ UNCHANGED <<quiz, written, desk, inviting, grant, deleting>>

\* ... and appends rows later, to a quiz deleted since too, or fails; updated_at stays.
\* The insert takes a key-share lock on the quiz: a save does not block it, an
\* invitation does.
ImportBankQuestions ==
    /\ pack.importing
    /\ \/ /\ \A i \in Invites : inviting[i].step # "locked"
          /\ \E q \in Unused : written' = [written EXCEPT ![q] = Imported]
       \/ UNCHANGED written
    /\ pack' = [pack EXCEPT !.importing = FALSE]
    /\ UNCHANGED <<quiz, desk, inviting, grant, deleting>>
-----------------------------------------------------------------------------
\* GetQuiz: the quiz row, then the preload of its questions, then the rights.

LoadRow(e) ==
    /\ desk[e].step = "away" /\ Busy < MaxBusy
    /\ quiz.state = "live" /\ quiz.version < MaxVersion
    /\ desk' = [desk EXCEPT ![e] = [EmptyDesk EXCEPT !.step = "loading",
                                                     !.version = quiz.version]]
    /\ UNCHANGED <<quiz, written, pack, inviting, grant, deleting>>

LoadQuestions(e) ==
    /\ desk[e].step = "loading"
    /\ desk' = [desk EXCEPT ![e] = IF CanEdit(e)
                                   THEN [@ EXCEPT !.step = "open", !.seen = Rows]
                                   ELSE EmptyDesk]
    /\ UNCHANGED <<quiz, written, pack, inviting, grant, deleting>>
-----------------------------------------------------------------------------
\* UpdateQuiz, in three steps: the checks, the compare-and-swap, the rest.  An active
\* room of the quiz refuses as well, at the moment of this check only.  A refused
\* editor loads the page again; one that asks again from the old page is where a
\* request that took longer would be.

AskSave(e) ==
    /\ desk[e].step = "open"
    /\ quiz.state = "live" /\ CanEdit(e)
    /\ \E keep \in SUBSET desk[e].seen, adds \in 0..1, expects \in {desk[e].version, None} :
        /\ Cardinality(desk[e].seen \ keep) + adds <= MaxChange
        /\ desk' = [desk EXCEPT ![e] = [@ EXCEPT !.step = "checked", !.version = 0, !.keep = keep,
                                                 !.adds = adds, !.expects = expects]]
    /\ UNCHANGED <<quiz, written, pack, inviting, grant, deleting>>

\* Mutant: the version is compared in Go, on the copy read at the start of the request.
SwapsUnchecked(e) == quiz.state = "live"

\* The UPDATE ... WHERE updated_at waits for the row and then decides; no row means
\* that someone else saved, or that the quiz is deleted.  The questions are read
\* behind it; an import that commits between the two could as well have come before.
Swaps(e) == quiz.state = "live" /\ desk[e].expects \in {quiz.version, None}

\* Mutant: the rows to replace are those of the page, not those read under the lock.
SaveBeginFromPage(e) ==
    /\ desk[e].step = "checked"
    /\ QuizFree
    /\ desk' = [desk EXCEPT ![e] = IF Swaps(e)
                                   THEN [@ EXCEPT !.step = "locked", !.existing = desk[e].seen]
                                   ELSE EmptyDesk]
    /\ UNCHANGED <<quiz, written, pack, inviting, grant, deleting>>

SaveBegin(e) ==
    /\ desk[e].step = "checked"
    /\ QuizFree
    /\ desk' = [desk EXCEPT ![e] = IF Swaps(e)
                                   THEN [@ EXCEPT !.step = "locked", !.existing = Rows]
                                   ELSE EmptyDesk]
    /\ UNCHANGED <<quiz, written, pack, inviting, grant, deleting>>

\* The payload's rows that still exist are written, the others made anew, and what
\* the payload does not name goes.  (A payload without a slide leaves the slide of a
\* kept row as it was; slides are not in the model.)  The answer carries the saved quiz, but the page
\* loads it again before the next save (LoadRow).
SaveCommit(e) ==
    LET d == desk[e]
        kept == d.keep \cap d.existing
        made == Cardinality(d.keep \ d.existing) + d.adds
    IN  /\ d.step = "locked"
        /\ quiz.version < MaxVersion
        /\ \E fresh \in SUBSET Unused :
            /\ Cardinality(fresh) = made
            /\ written' = [q \in Questions |->
                  IF q \in kept \cup fresh THEN quiz.version + 1
                  ELSE IF q \in d.existing THEN Gone ELSE written[q]]
        /\ quiz' = [quiz EXCEPT !.version = @ + 1]
        /\ desk' = [desk EXCEPT ![e] = EmptyDesk]
        /\ UNCHANGED <<pack, inviting, grant, deleting>>

\* A question that does not validate, a failed statement, a restart; a page closed.
SaveFails(e) ==
    /\ desk[e].step # "away"
    /\ desk' = [desk EXCEPT ![e] = EmptyDesk]
    /\ UNCHANGED <<quiz, written, pack, inviting, grant, deleting>>

\* DeleteQuiz: the soft delete, then the grants in a statement of their own, whose
\* failure is only logged; the service may stop between the two.
DeleteQuiz ==
    /\ quiz.state = "live" /\ deleting = "no"
    /\ QuizFree
    /\ quiz' = [quiz EXCEPT !.state = "deleted"]
    /\ deleting' = "grants"
    /\ UNCHANGED <<written, pack, desk, inviting, grant>>

DropGrants ==
    /\ deleting = "grants"
    /\ \/ deleting' = "no" /\ grant' = [g \in Guests |-> "none"]
       \/ deleting' = "failed" /\ UNCHANGED grant
    /\ UNCHANGED <<quiz, written, pack, desk, inviting>>
-----------------------------------------------------------------------------
\* Inviting: the checks and the look-up of the account, then a transaction that
\* takes the quiz row and inserts.  The hourly cap only refuses.  An account the
\* look-up does not find may be made right after, and a look-up that fails finds none.

InviteAsk(i, g) ==
    /\ inviting[i].step = "idle" /\ Busy < MaxBusy
    /\ quiz.state = "live"
    /\ \E known \in BOOLEAN :
        inviting' = [inviting EXCEPT ![i] = [step |-> "ready", guest |-> g, known |-> known]]
    /\ UNCHANGED <<quiz, written, pack, desk, grant, deleting>>

\* Mutant: the soft-deleted row answers too (an Unscoped read).
InviteLockUnscoped(i) ==
    /\ inviting[i].step = "ready"
    /\ QuizFree
    /\ inviting' = [inviting EXCEPT ![i] =
          IF grant[@.guest] = "none" /\ Cardinality(Grants) < GrantLimit
          THEN [@ EXCEPT !.step = "locked"] ELSE NoInvite]
    /\ UNCHANGED <<quiz, written, pack, desk, grant, deleting>>

\* Mutant: the quiz row is read without FOR UPDATE.
InviteLockShared(i) ==
    /\ inviting[i].step = "ready"
    /\ inviting' = [inviting EXCEPT ![i] =
          IF quiz.state = "live" /\ grant[@.guest] = "none" /\ Cardinality(Grants) < GrantLimit
          THEN [@ EXCEPT !.step = "locked"] ELSE NoInvite]
    /\ UNCHANGED <<quiz, written, pack, desk, grant, deleting>>

\* The transaction up to its count: a deleted quiz is not found, an address already
\* invited keeps its row, a full quiz takes no more.  The limit is that of the plan when
\* the request began; a plan that changes meanwhile is not in the model.
InviteLock(i) ==
    /\ inviting[i].step = "ready"
    /\ QuizFree
    /\ inviting' = [inviting EXCEPT ![i] =
          IF quiz.state = "live" /\ grant[@.guest] = "none" /\ Cardinality(Grants) < GrantLimit
          THEN [@ EXCEPT !.step = "locked"] ELSE NoInvite]
    /\ UNCHANGED <<quiz, written, pack, desk, grant, deleting>>

\* The insert, pending or linked as the look-up said before the transaction.
InviteInsert(i) ==
    /\ inviting[i].step = "locked"
    /\ \/ grant' = [grant EXCEPT ![inviting[i].guest] =
                       IF inviting[i].known THEN "linked" ELSE "pending"]
       \/ UNCHANGED grant
    /\ inviting' = [inviting EXCEPT ![i] = NoInvite]
    /\ UNCHANGED <<quiz, written, pack, desk, deleting>>

RemoveQuizCollaborator(g) ==
    /\ quiz.state = "live" /\ grant[g] # "none"
    /\ grant' = [grant EXCEPT ![g] = "none"]
    /\ UNCHANGED <<quiz, written, pack, desk, inviting, deleting>>

LeaveSharedQuiz(g) ==
    /\ grant[g] = "linked"
    /\ grant' = [grant EXCEPT ![g] = "none"]
    /\ UNCHANGED <<quiz, written, pack, desk, inviting, deleting>>

\* Register and every Login end with claimPendingInvites.
SignIn(g) ==
    /\ grant[g] = "pending"
    /\ grant' = [grant EXCEPT ![g] = "linked"]
    /\ UNCHANGED <<quiz, written, pack, desk, inviting, deleting>>
-----------------------------------------------------------------------------
Next ==
    \/ CreateQuiz \/ InstantiateTemplate \/ AskImport \/ ImportBankQuestions
    \/ CreateTemplate \/ CreateTemplateFromQuiz \/ DeleteTemplate
    \/ \E e \in Editors : \/ LoadRow(e) \/ LoadQuestions(e)
                          \/ AskSave(e) \/ SaveBegin(e)
                          \/ SaveCommit(e) \/ SaveFails(e)
    \/ DeleteQuiz \/ DropGrants
    \/ \E i \in Invites, g \in Guests : InviteAsk(i, g)
    \/ \E i \in Invites : InviteLock(i) \/ InviteInsert(i)
    \/ \E g \in Guests : RemoveQuizCollaborator(g) \/ LeaveSharedQuiz(g) \/ SignIn(g)

Spec == Init /\ [][Next]_vars
-----------------------------------------------------------------------------
TypeOK ==
    /\ quiz \in Quiz
    /\ written \in [Questions -> 0..MaxVersion \cup {Imported, Gone, None}]
    /\ pack \in [filled: BOOLEAN, importing: BOOLEAN]
    /\ desk \in [Editors -> Desk]
    /\ inviting \in [Invites -> Invite]
    /\ grant \in [Guests -> {"none", "pending", "linked"}]
    /\ deleting \in {"no", "grants", "failed"}

\* The question list is one save's payload, never a mixture of two: every row comes
\* from the latest save, or from an import since (the sync of UpdateQuiz).
ListIsOneSave == \A q \in Questions : written[q] \in {quiz.version, Imported, Gone, None}

\* A save that says which version it started from drops no saved question its editor
\* has not had on the page, whoever saved it (the compare-and-swap of UpdateQuiz).
NoUnseenLoss ==
    [][\A e \in Editors :
        SaveCommit(e) /\ desk[e].expects # None =>
            \A q \in Questions :
                written[q] \in Nat /\ written'[q] = Gone => q \in desk[e].seen]_vars

\* A deleted quiz keeps no grant that a restored row would bring back to life, even
\* with invitations under way, unless dropping them failed (DeleteQuiz).
DeletedQuizHasNoGrants == quiz.state = "deleted" /\ deleting = "no" => Grants = {}

\* Invitations sent together do not overshoot the plan's cap (AddQuizCollaborator).
GrantsWithinLimit == Cardinality(Grants) <= GrantLimit
==============================================================================
