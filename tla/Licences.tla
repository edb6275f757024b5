------------------------------- MODULE Licences -------------------------------
(***************************************************************************)
(* Plans, activation codes and terms.  A user has one subscription row,    *)
(* overwritten in place by four kinds of actors: redemptions (one          *)
(* transaction, the code row locked), an admin's assignment (no            *)
(* transaction: read, save, history), claw-backs of a code (a transaction  *)
(* per redeemer) and downgrades of lapsed terms (the hourly sweep, or any  *)
(* gated request of the user).  Only the code row is locked by a           *)
(* redemption, and nothing by a save of the subscription.                  *)
(* A day is the unit of time; ends_at NULL is the day Never.               *)
(***************************************************************************)
EXTENDS Naturals, FiniteSets

CONSTANTS
    Users, Codes,
    Enforcing,    \* the gates are armed (EnforcementSwitch)
    Plans, Free,  \* Free is the plan nobody pays for
    Rank,         \* planRank
    PlanOf,       \* the plan a code grants,
    TermOf,       \* its days, Never for a lifetime code,
    MaxUses,      \* how many may redeem it,
    ShelfLife,    \* the last day it can be redeemed
    Assigned,     \* users an admin assigns plans to,
    AdminTerms,   \* and for how many days
    MaxDay,       \* bound of the calendar
    MaxEnd,       \* bound of the terms
    MaxBusy,      \* bound on the requests under way, the sweep's own aside
    None

Never == MaxEnd + 1

ASSUME LicencesAssumption ==
    /\ MaxDay \in Nat /\ MaxEnd \in Nat /\ MaxBusy \in Nat
    /\ Free \in Plans /\ Enforcing \in BOOLEAN
    /\ Rank \in [Plans -> Nat]
    /\ PlanOf \in [Codes -> Plans \ {Free}]
    /\ TermOf \in [Codes -> 1..MaxEnd \cup {Never}]
    /\ MaxUses \in [Codes -> Nat \ {0}]
    /\ ShelfLife \in [Codes -> Nat]
    /\ Assigned \subseteq Users /\ AdminTerms \subseteq 1..MaxEnd \cup {Never}
    /\ None \notin Users \cup Codes \cup Plans
    /\ {"admin", "expiry"} \cap Codes = {}   \* a history row's other sources

VARIABLES
    today,
    sub,         \* the subscription row of each user
    lastEvent,   \* where the newest history row of the user comes from
    code,        \* the license_codes rows
    redeemers,   \* the license_redemptions rows
    redeem,      \* the redemption under way of each code by each user
    assign,      \* the admin's assignment under way for each user
    lapse,       \* the downgrade under way for each user
    due,         \* users the running sweep has still to downgrade
    clawing      \* the revocation or claw-back under way for each code

vars == <<today, sub, lastEvent, code, redeemers, redeem, assign, lapse, due, clawing>>
requests == <<redeem, assign, lapse, due, clawing>>

\* by is the code that the row's plan came from, None when no code did.
Row == [plan: Plans, ends: 0..MaxEnd \cup {Never}, by: Codes \cup {None}]
FreeRow == [plan |-> Free, ends |-> Never, by |-> None]

NoRedeem == [on |-> FALSE, base |-> None]
NoAssign == [step |-> "idle", row |-> FreeRow]
NoClaw == [step |-> "idle", used |-> 0, list |-> {}]

Init ==
    /\ today = 0
    /\ sub = [u \in Users |-> FreeRow]
    /\ lastEvent = [u \in Users |-> None]
    /\ code = [c \in Codes |-> [minted |-> FALSE, used |-> 0, revoked |-> FALSE]]
    /\ redeemers = [c \in Codes |-> {}]
    /\ redeem = [c \in Codes |-> [u \in Users |-> NoRedeem]]
    /\ assign = [u \in Users |-> NoAssign]
    /\ lapse = [u \in Users |-> "idle"]
    /\ due = {}
    /\ clawing = [c \in Codes |-> NoClaw]

\* Room for one more request.
Capacity ==
    Cardinality({r \in Codes \X Users : redeem[r[1]][r[2]] # NoRedeem})
    + Cardinality({c \in Codes : clawing[c] # NoClaw})
    + Cardinality({u \in Users : assign[u] # NoAssign})
    + Cardinality({u \in Users : lapse[u] # "idle"}) < MaxBusy

Tomorrow ==
    /\ today < MaxDay
    /\ today' = today + 1
    /\ UNCHANGED <<sub, lastEvent, code, redeemers, requests>>

-----------------------------------------------------------------------------
(* Terms.                                                                  *)

Live(row) == row.ends > today
Expired(row) == row.ends < today

ReplacesHigherLiveTerm(row, plan) == Live(row) /\ Rank[row.plan] > Rank[plan]

\* computeTerm: the last day of a term granted over the row.  A grant that extends
\* adds to what is left of the same plan, and leaves a lifetime alone.
Ends(row, plan, days, extend) ==
    IF plan = Free \/ days = Never THEN Never
    ELSE IF extend /\ row.plan = plan /\ row.ends = Never THEN Never
    ELSE IF extend /\ row.plan = plan /\ Live(row) THEN row.ends + days
    ELSE today + days

Bounded(ends) == ends <= MaxEnd \/ ends = Never

Grant(u, row, source) ==
    /\ sub' = [sub EXCEPT ![u] = row]
    /\ lastEvent' = [lastEvent EXCEPT ![u] = source]

-----------------------------------------------------------------------------
(* RedeemCode.                                                             *)

Mint(c) ==
    /\ ~code[c].minted
    /\ code' = [code EXCEPT ![c].minted = TRUE]
    /\ UNCHANGED <<today, sub, lastEvent, redeemers, requests>>

\* Mutant: the row is read without FOR UPDATE.
NeverLocked(c) == TRUE

\* No redemption holds the lock of the code row.
Unlocked(c) == \A u \in Users : redeem[c][u] = NoRedeem

Redeemable(c, u) ==
    /\ code[c].minted
    /\ ~code[c].revoked
    /\ today <= ShelfLife[c]
    /\ code[c].used < MaxUses[c]
    /\ ~ReplacesHigherLiveTerm(sub[u], PlanOf[c])
    /\ u \notin redeemers[c]

\* The code row is locked and every check passes (its plan is on sale, too).  The row's
\* own checks and the unlocked look at the subscription are one step: what the lock
\* covers cannot move between them, and the subscription is read again by RedeemRead.
RedeemLock(c, u) ==
    /\ Unlocked(c)
    /\ Redeemable(c, u)
    /\ Capacity
    /\ redeem[c][u] = NoRedeem
    /\ redeem' = [redeem EXCEPT ![c][u].on = TRUE]
    /\ UNCHANGED <<today, sub, lastEvent, code, redeemers, assign, lapse, due, clawing>>

\* setPlanTx reads the subscription, without a lock.
RedeemRead(c, u) ==
    /\ redeem[c][u].on
    /\ redeem[c][u].base = None
    /\ redeem' = [redeem EXCEPT ![c][u].base = sub[u]]
    /\ UNCHANGED <<today, sub, lastEvent, code, redeemers, assign, lapse, due, clawing>>

\* Mutant: a renewal of the same plan leaves no history row.
RedeemCommitRenewal(c, u) ==
    LET ends == Ends(redeem[c][u].base, PlanOf[c], TermOf[c], TRUE)
    IN  /\ redeem[c][u].base # None
        /\ Bounded(ends)
        /\ Grant(u, [plan |-> PlanOf[c], ends |-> ends, by |-> c],
                 IF redeem[c][u].base.plan = PlanOf[c] THEN lastEvent[u] ELSE c)
        /\ redeemers' = [redeemers EXCEPT ![c] = @ \cup {u}]
        /\ code' = [code EXCEPT ![c].used = @ + 1]
        /\ redeem' = [redeem EXCEPT ![c][u] = NoRedeem]
        /\ UNCHANGED <<today, assign, lapse, due, clawing>>

\* Redemption row, used_count, plan and history commit together.
RedeemCommit(c, u) ==
    LET ends == Ends(redeem[c][u].base, PlanOf[c], TermOf[c], TRUE)
    IN  /\ redeem[c][u].base # None
        /\ Bounded(ends)
        /\ Grant(u, [plan |-> PlanOf[c], ends |-> ends, by |-> c], c)
        /\ redeemers' = [redeemers EXCEPT ![c] = @ \cup {u}]
        /\ code' = [code EXCEPT ![c].used = @ + 1]
        /\ redeem' = [redeem EXCEPT ![c][u] = NoRedeem]
        /\ UNCHANGED <<today, assign, lapse, due, clawing>>

\* The transaction rolls back.
RedeemFails(c, u) ==
    /\ redeem[c][u] # NoRedeem
    /\ redeem' = [redeem EXCEPT ![c][u] = NoRedeem]
    /\ UNCHANGED <<today, sub, lastEvent, code, redeemers, assign, lapse, due, clawing>>

-----------------------------------------------------------------------------
(* AdminSetPlan, for AdminAssignPlan and ClawBackUser: setPlanTx on the bare *)
(* connection, so each statement commits by itself.                        *)

AssignRead(u, plan, days, extend) ==
    LET ends == Ends(sub[u], plan, days, extend)
    IN  /\ assign[u].step = "idle"
        /\ Capacity
        /\ Bounded(ends)
        /\ assign' = [assign EXCEPT ![u] =
              [step |-> "read", row |-> [plan |-> plan, ends |-> ends, by |-> None]]]
        /\ UNCHANGED <<today, sub, lastEvent, code, redeemers, redeem, lapse, due, clawing>>

AssignSave(u) ==
    /\ assign[u].step = "read"
    /\ sub' = [sub EXCEPT ![u] = assign[u].row]
    /\ assign' = [assign EXCEPT ![u].step = "saved"]
    /\ UNCHANGED <<today, lastEvent, code, redeemers, redeem, lapse, due, clawing>>

\* A history row that cannot be written fails the request, and the plan stays.
AssignRecord(u) ==
    /\ assign[u].step = "saved"
    /\ lastEvent' \in {lastEvent, [lastEvent EXCEPT ![u] = "admin"]}
    /\ assign' = [assign EXCEPT ![u] = NoAssign]
    /\ UNCHANGED <<today, sub, code, redeemers, redeem, lapse, due, clawing>>

-----------------------------------------------------------------------------
(* Lapsed terms: SweepExpiredSubscriptions and GetEntitlements, both through *)
(* DowngradeToFree.                                                        *)

SweepStart ==
    /\ Enforcing
    /\ due = {}
    /\ due' = {u \in Users : sub[u].plan # Free /\ Expired(sub[u])}
    /\ due' # {}
    /\ UNCHANGED <<today, sub, lastEvent, code, redeemers, redeem, assign, lapse, clawing>>

\* DowngradeToFree reads the row again, for the plan it replaces; it does not look at
\* the date.
Downgrade(u) ==
    /\ lapse[u] = "idle"
    /\ lapse' = [lapse EXCEPT ![u] = IF sub[u].plan = Free THEN "free" ELSE "paid"]

SweepTake(u) ==
    /\ u \in due
    /\ Downgrade(u)
    /\ due' = due \ {u}
    /\ UNCHANGED <<today, sub, lastEvent, code, redeemers, redeem, assign, clawing>>

\* A gated request of the user (GetEntitlements).  Every writer of a subscription sets its
\* Status active, so the branch for another Status is never taken.
Visit(u) ==
    /\ Enforcing
    /\ Expired(sub[u])
    /\ Capacity
    /\ Downgrade(u)
    /\ UNCHANGED <<today, sub, lastEvent, code, redeemers, redeem, assign, due, clawing>>

DowngradeSave(u) ==
    /\ lapse[u] \in {"free", "paid"}
    /\ sub' = [sub EXCEPT ![u] = FreeRow]
    /\ lapse' = [lapse EXCEPT ![u] = IF lapse[u] = "paid" THEN "saved" ELSE "idle"]
    /\ UNCHANGED <<today, lastEvent, code, redeemers, redeem, assign, due, clawing>>

DowngradeRecord(u) ==
    /\ lapse[u] = "saved"
    /\ lastEvent' \in {lastEvent, [lastEvent EXCEPT ![u] = "expiry"]}
    /\ lapse' = [lapse EXCEPT ![u] = "idle"]
    /\ UNCHANGED <<today, sub, code, redeemers, redeem, assign, due, clawing>>

-----------------------------------------------------------------------------
(* RevokeCode and ClawBackCode.                                            *)

\* The row is read without its lock.
RevokeRead(c) ==
    /\ code[c].minted
    /\ clawing[c].step = "idle"
    /\ Capacity
    /\ clawing' = [clawing EXCEPT ![c] =
          [NoClaw EXCEPT !.step = IF code[c].revoked THEN "revoked" ELSE "read",
                         !.used = code[c].used]]
    /\ UNCHANGED <<today, sub, lastEvent, code, redeemers, redeem, assign, lapse, due>>

\* The whole row is saved, with the count that was read, once no redemption holds it.
RevokeSave(c) ==
    /\ clawing[c].step = "read"
    /\ Unlocked(c)
    /\ code' = [code EXCEPT ![c].revoked = TRUE, ![c].used = clawing[c].used]
    /\ clawing' = [clawing EXCEPT ![c].step = "revoked"]
    /\ UNCHANGED <<today, sub, lastEvent, redeemers, redeem, assign, lapse, due>>

\* A plain revocation is done, or a claw-back has no more redeemers to look at.
RevokeDone(c) ==
    /\ clawing[c].step = "revoked" \/ (clawing[c].step = "listed" /\ clawing[c].list = {})
    /\ clawing' = [clawing EXCEPT ![c] = NoClaw]
    /\ UNCHANGED <<today, sub, lastEvent, code, redeemers, redeem, assign, lapse, due>>

\* Mutant: the redeemers are listed before the code is revoked.
ClawListEarly(c) ==
    /\ clawing[c].step \in {"read", "revoked"}
    /\ clawing' = [clawing EXCEPT ![c].step = "listed", ![c].list = redeemers[c]]
    /\ UNCHANGED <<today, sub, lastEvent, code, redeemers, redeem, assign, lapse, due>>

ClawList(c) ==
    /\ clawing[c].step = "revoked"
    /\ clawing' = [clawing EXCEPT ![c].step = "listed", ![c].list = redeemers[c]]
    /\ UNCHANGED <<today, sub, lastEvent, code, redeemers, redeem, assign, lapse, due>>

\* shouldClawBack: the grant is still the last thing that happened to the account.
ShouldClawBack(c, u) == sub[u].plan # Free /\ lastEvent[u] = c

\* clawBackOne: the subscription locked, the rule checked, the plan taken.
ClawOne(c, u) ==
    /\ clawing[c].step = "listed"
    /\ u \in clawing[c].list
    /\ ShouldClawBack(c, u)
    /\ Grant(u, FreeRow, "admin")
    /\ clawing' = [clawing EXCEPT ![c].list = @ \ {u}]
    /\ UNCHANGED <<today, code, redeemers, redeem, assign, lapse, due>>

\* The rule says no, or the transaction of this user fails; the others go on.
ClawSkip(c, u) ==
    /\ clawing[c].step = "listed"
    /\ u \in clawing[c].list
    /\ clawing' = [clawing EXCEPT ![c].list = @ \ {u}]
    /\ UNCHANGED <<today, sub, lastEvent, code, redeemers, redeem, assign, lapse, due>>

-----------------------------------------------------------------------------

Restart ==
    /\ redeem' = [c \in Codes |-> [u \in Users |-> NoRedeem]]
    /\ assign' = [u \in Users |-> NoAssign]
    /\ lapse' = [u \in Users |-> "idle"]
    /\ due' = {}
    /\ clawing' = [c \in Codes |-> NoClaw]
    /\ requests' # requests
    /\ UNCHANGED <<today, sub, lastEvent, code, redeemers>>

Next ==
    \/ Tomorrow
    \/ Restart
    \/ \E c \in Codes : Mint(c)
    \/ \E c \in Codes, u \in Users :
          RedeemLock(c, u) \/ RedeemRead(c, u) \/ RedeemCommit(c, u) \/ RedeemFails(c, u)
    \/ \E u \in Assigned, p \in Plans, d \in AdminTerms, x \in BOOLEAN : AssignRead(u, p, d, x)
    \/ \E u \in Users : AssignSave(u) \/ AssignRecord(u)
    \/ SweepStart
    \/ \E u \in Users : SweepTake(u) \/ Visit(u) \/ DowngradeSave(u) \/ DowngradeRecord(u)
    \/ \E c \in Codes : RevokeRead(c) \/ RevokeSave(c) \/ RevokeDone(c) \/ ClawList(c)
    \/ \E c \in Codes, u \in Users : ClawOne(c, u) \/ ClawSkip(c, u)

Spec == Init /\ [][Next]_vars

TypeOK ==
    /\ today \in 0..MaxDay
    /\ sub \in [Users -> Row]
    /\ lastEvent \in [Users -> Codes \cup {None, "admin", "expiry"}]
    /\ code \in [Codes -> [minted: BOOLEAN, used: Nat, revoked: BOOLEAN]]
    /\ redeemers \in [Codes -> SUBSET Users]
    /\ redeem \in [Codes -> [Users -> [on: BOOLEAN, base: Row \cup {None}]]]
    /\ assign \in [Users -> [step: {"idle", "read", "saved"}, row: Row]]
    /\ lapse \in [Users -> {"idle", "free", "paid", "saved"}]
    /\ due \subseteq Users
    /\ clawing \in [Codes -> [step: {"idle", "read", "revoked", "listed"}, used: Nat,
                              list: SUBSET Users]]

-----------------------------------------------------------------------------
(* Properties.                                                             *)

\* No code is redeemed by more accounts than it was sold for, and its counter says
\* how many, as long as it can still be redeemed (RedeemCode's lock on the code row).
CodesStayInBudget ==
    \A c \in Codes :
        /\ Cardinality(redeemers[c]) <= MaxUses[c]
        /\ ~code[c].revoked => code[c].used = Cardinality(redeemers[c])

\* A claw-back lists its redeemers once, and nobody redeems the code after that: not
\* even a redemption that was under way when the code was revoked (ClawBackCode).
ClawBackMissesNobody ==
    [][\A c \in Codes : clawing[c].step = "listed" => redeemers'[c] = redeemers[c]]_vars

\* A claw-back never takes a plan that another code has granted since (clawBackOne).
ClawBackSparesOtherCodes ==
    [][\A c \in Codes, u \in Users :
          (u \in clawing[c].list \ clawing'[c].list /\ sub'[u] # sub[u]) => sub[u].by \in {c, None}]_vars

\* "downgrades every paid subscription whose EndsAt has passed" (expiry.go:20), and no
\* other: the row a downgrade takes is a lapsed one.
DowngradesTakeLapsedTerms ==
    [][\A u \in Users :
          (lapse[u] \in {"free", "paid"} /\ lapse'[u] # lapse[u] /\ sub'[u] # sub[u])
              => Expired(sub[u])]_vars
==============================================================================
