---------------------------- MODULE LicencesProofs ----------------------------
(***************************************************************************)
(* What redemptions, revocations and claw-backs may rely on, for any       *)
(* number of users, codes, plans and requests at once, whatever the        *)
(* budgets and terms.  Three invariants, each inductive with the types:    *)
(* the lock of a code row has one holder, for whom the checks made under   *)
(* the lock still hold; a claw-back works on a revoked code; and a         *)
(* history row that names a code names the one the plan came from.         *)
(***************************************************************************)
EXTENDS Licences, FiniteSetTheorems, TLAPS

Holds(c, u) == redeem[c][u] # NoRedeem

\* FOR UPDATE on the code row, and what Redeemable found under it.
OneHolder == \A c \in Codes : \A u, v \in Users : Holds(c, u) /\ Holds(c, v) => u = v
ChecksStillHold ==
    \A c \in Codes, u \in Users : Holds(c, u) =>
        /\ ~code[c].revoked
        /\ code[c].used < MaxUses[c]
        /\ u \notin redeemers[c]
BudgetInv == /\ OneHolder
             /\ ChecksStillHold
             /\ CodesStayInBudget
             /\ \A c \in Codes : IsFiniteSet(redeemers[c])

RevokedFirst ==
    \A c \in Codes : clawing[c].step \in {"revoked", "listed"} => code[c].revoked

EventNamesCode ==
    \A u \in Users :
        /\ lastEvent[u] \in Codes /\ sub[u].by # None => sub[u].by = lastEvent[u]
        /\ assign[u].row.by = None   \* an admin's assignment comes from no code

IInv == TypeOK /\ BudgetInv /\ RevokedFirst /\ EventNamesCode

-----------------------------------------------------------------------------
(* Types.                                                                  *)

\* computeTerm gives a day, and within the bound of the model a term.
LEMMA EndsIsDay ==
    ASSUME today \in Nat, NEW row \in Row, NEW plan \in Plans,
           NEW days \in 1..MaxEnd \cup {Never}, NEW extend \in BOOLEAN,
           Bounded(Ends(row, plan, days, extend))
    PROVE  Ends(row, plan, days, extend) \in 0..MaxEnd \cup {Never}
<1>1. MaxEnd \in Nat /\ Never \in Nat /\ days \in Nat /\ row.ends \in Nat
  BY LicencesAssumption DEF Never, Row
<1>2. Ends(row, plan, days, extend) \in Nat
  BY <1>1 DEF Ends
<1> QED BY <1>1, <1>2 DEF Bounded

\* A free row, and the requests that are not there.
LEMMA IdleTypes ==
    /\ FreeRow \in Row
    /\ NoRedeem \in [on: BOOLEAN, base: Row \cup {None}]
    /\ NoAssign \in [step: {"idle", "read", "saved"}, row: Row]
    /\ NoClaw \in [step: {"idle", "read", "revoked", "listed"}, used: Nat, list: SUBSET Users]
<1>1. FreeRow \in Row
  BY LicencesAssumption DEF FreeRow, Row, Never
<1> QED BY <1>1 DEF NoRedeem, NoAssign, NoClaw

\* A row a redemption or an assignment is about to write.
LEMMA NewRowType ==
    ASSUME NEW plan \in Plans, NEW ends \in 0..MaxEnd \cup {Never}, NEW by \in Codes \cup {None}
    PROVE  [plan |-> plan, ends |-> ends, by |-> by] \in Row
BY Zenon DEF Row

LEMMA RedeemTypes ==
    ASSUME TypeOK, NEW c \in Codes, NEW u \in Users,
           RedeemLock(c, u) \/ RedeemRead(c, u) \/ RedeemCommit(c, u) \/ RedeemFails(c, u)
    PROVE  TypeOK'
<1> DEFINE Redemption == [on: BOOLEAN, base: Row \cup {None}]
           Code == [minted: BOOLEAN, used: Nat, revoked: BOOLEAN]
<1>1. redeem \in [Codes -> [Users -> Redemption]]
  BY DEF TypeOK
<1>2. ASSUME NEW new \in Redemption,
             redeem' = [redeem EXCEPT ![c][u] = new]
      PROVE  redeem' \in [Codes -> [Users -> Redemption]]
  BY <1>1, <1>2
<1>3. CASE RedeemLock(c, u)
  <2>1. [redeem[c][u] EXCEPT !.on = TRUE] \in Redemption
    <3>1. redeem[c][u] \in Redemption
      BY <1>1
    <3> QED BY <3>1, Zenon
  <2> QED BY <1>2, <1>3, <2>1 DEF RedeemLock, TypeOK
<1>4. CASE RedeemRead(c, u)
  <2>1. [redeem[c][u] EXCEPT !.base = sub[u]] \in Redemption
    <3>1. sub[u] \in Row /\ redeem[c][u] \in Redemption
      BY <1>1 DEF TypeOK
    <3> QED BY <3>1
  <2> QED BY <1>2, <1>4, <2>1 DEF RedeemRead, TypeOK
<1>5. CASE RedeemCommit(c, u)
  <2> DEFINE ends == Ends(redeem[c][u].base, PlanOf[c], TermOf[c], TRUE)
             row == [plan |-> PlanOf[c], ends |-> ends, by |-> c]
  <2>1. redeem[c][u].base \in Row /\ PlanOf[c] \in Plans /\ today \in Nat
    <3>1. redeem[c][u] \in Redemption /\ redeem[c][u].base # None
      BY <1>1, <1>5 DEF RedeemCommit
    <3>2. today \in Nat
      BY LicencesAssumption DEF TypeOK
    <3> QED BY <3>1, <3>2, LicencesAssumption
  <2>2. ends \in 0..MaxEnd \cup {Never}
    BY <1>5, <2>1, EndsIsDay, LicencesAssumption DEF RedeemCommit
  <2>3. sub' = [sub EXCEPT ![u] = row] /\ lastEvent' = [lastEvent EXCEPT ![u] = c]
    BY <1>5 DEF RedeemCommit, Grant
  <2>4. row \in Row
    BY <2>1, <2>2, NewRowType
  <2> HIDE DEF row
  <2>5. sub' \in [Users -> Row] /\ lastEvent' \in [Users -> Codes \cup {None, "admin", "expiry"}]
    BY <2>3, <2>4 DEF TypeOK
  <2>6. redeemers' \in [Codes -> SUBSET Users]
    BY <1>5 DEF RedeemCommit, TypeOK
  <2>7. code' \in [Codes -> Code]
    <3>1. code[c] \in Code /\ code[c].used + 1 \in Nat
      BY DEF TypeOK
    <3>2. [code[c] EXCEPT !.used = @ + 1] \in Code
      BY <3>1, Zenon
    <3> QED BY <1>5, <3>2 DEF RedeemCommit, TypeOK
  <2>8. redeem' \in [Codes -> [Users -> Redemption]]
    BY <1>2, <1>5, IdleTypes DEF RedeemCommit
  <2> QED BY <1>5, <2>5, <2>6, <2>7, <2>8 DEF RedeemCommit, TypeOK
<1>6. CASE RedeemFails(c, u)
  BY <1>2, <1>6, IdleTypes DEF RedeemFails, TypeOK
<1> QED BY <1>3, <1>4, <1>5, <1>6

LEMMA AssignTypes ==
    ASSUME TypeOK, NEW u \in Users,
           \/ \E p \in Plans, d \in AdminTerms, x \in BOOLEAN : AssignRead(u, p, d, x)
           \/ AssignSave(u)
           \/ AssignRecord(u)
    PROVE  TypeOK'
<1> DEFINE Assignment == [step: {"idle", "read", "saved"}, row: Row]
<1>1. assign \in [Users -> Assignment] /\ sub \in [Users -> Row] /\ today \in Nat
  BY LicencesAssumption DEF TypeOK
<1>2. ASSUME NEW p \in Plans, NEW d \in AdminTerms, NEW x \in BOOLEAN, AssignRead(u, p, d, x)
      PROVE  TypeOK'
  <2> DEFINE ends == Ends(sub[u], p, d, x)
             row == [plan |-> p, ends |-> ends, by |-> None]
  <2>1. ends \in 0..MaxEnd \cup {Never}
    BY <1>1, <1>2, EndsIsDay, LicencesAssumption DEF AssignRead
  <2>2. row \in Row
    BY <2>1, NewRowType
  <2>3. assign' = [assign EXCEPT ![u] = [step |-> "read", row |-> row]]
    BY <1>2 DEF AssignRead
  <2> HIDE DEF row
  <2>4. assign' \in [Users -> Assignment]
    BY <1>1, <2>2, <2>3
  <2> QED BY <1>2, <2>4 DEF AssignRead, TypeOK
<1>3. CASE AssignSave(u)
  <2>1. assign' \in [Users -> Assignment] /\ sub' \in [Users -> Row]
    BY <1>1, <1>3 DEF AssignSave
  <2> QED BY <1>3, <2>1 DEF AssignSave, TypeOK
<1>4. CASE AssignRecord(u)
  <2>1. assign' \in [Users -> Assignment]
    BY <1>1, <1>4, IdleTypes DEF AssignRecord
  <2>2. lastEvent' \in [Users -> Codes \cup {None, "admin", "expiry"}]
    BY <1>4 DEF AssignRecord, TypeOK
  <2> QED BY <1>4, <2>1, <2>2 DEF AssignRecord, TypeOK
<1> QED BY <1>2, <1>3, <1>4

LEMMA DowngradeTypes ==
    ASSUME TypeOK, NEW u \in Users,
           SweepTake(u) \/ Visit(u) \/ DowngradeSave(u) \/ DowngradeRecord(u)
    PROVE  TypeOK'
<1>1. CASE SweepTake(u) \/ Visit(u)
  BY <1>1 DEF SweepTake, Visit, Downgrade, TypeOK
<1>2. CASE DowngradeSave(u)
  BY <1>2, IdleTypes DEF DowngradeSave, TypeOK
<1>3. CASE DowngradeRecord(u)
  <2>1. lastEvent' \in [Users -> Codes \cup {None, "admin", "expiry"}]
    BY <1>3 DEF DowngradeRecord, TypeOK
  <2> QED BY <1>3, <2>1 DEF DowngradeRecord, TypeOK
<1> QED BY <1>1, <1>2, <1>3

LEMMA ClawTypes ==
    ASSUME TypeOK, NEW c \in Codes,
           \/ RevokeRead(c) \/ RevokeSave(c) \/ RevokeDone(c) \/ ClawList(c)
           \/ \E u \in Users : ClawOne(c, u) \/ ClawSkip(c, u)
    PROVE  TypeOK'
<1> DEFINE Code == [minted: BOOLEAN, used: Nat, revoked: BOOLEAN]
           Claw == [step: {"idle", "read", "revoked", "listed"}, used: Nat, list: SUBSET Users]
<1>1. clawing \in [Codes -> Claw] /\ clawing[c] \in Claw
  BY DEF TypeOK
<1>2. ASSUME NEW new \in Claw,
             clawing' = [clawing EXCEPT ![c] = new]
      PROVE  clawing' \in [Codes -> Claw]
  BY <1>1, <1>2
<1>3. CASE RevokeRead(c)
  <2> DEFINE step == IF code[c].revoked THEN "revoked" ELSE "read"
             new == [NoClaw EXCEPT !.step = step, !.used = code[c].used]
  <2>1. new \in Claw
    <3>1. code[c].used \in Nat /\ step \in {"idle", "read", "revoked", "listed"}
      BY DEF TypeOK
    <3> HIDE DEF step
    <3> QED BY <3>1, IdleTypes
  <2> QED BY <1>2, <1>3, <2>1 DEF RevokeRead, TypeOK
<1>4. CASE RevokeSave(c)
  <2>1. code' \in [Codes -> Code]
    <3> DEFINE new == [code[c] EXCEPT !.revoked = TRUE, !.used = clawing[c].used]
    <3>1. new \in Code
      <4>1. code[c] \in Code /\ clawing[c].used \in Nat
        BY <1>1 DEF TypeOK
      <4> QED BY <4>1, Zenon
    <3>2. code' = [code EXCEPT ![c] = new]
      BY <1>4 DEF RevokeSave, TypeOK
    <3> HIDE DEF new
    <3> QED BY <3>1, <3>2 DEF TypeOK
  <2>2. [clawing[c] EXCEPT !.step = "revoked"] \in Claw
    BY <1>1
  <2> QED BY <1>2, <1>4, <2>1, <2>2 DEF RevokeSave, TypeOK
<1>5. CASE RevokeDone(c)
  BY <1>2, <1>5, IdleTypes DEF RevokeDone, TypeOK
<1>6. CASE ClawList(c)
  <2>1. [clawing[c] EXCEPT !.step = "listed", !.list = redeemers[c]] \in Claw
    BY <1>1 DEF TypeOK
  <2>2. clawing' = [clawing EXCEPT ![c] = [@ EXCEPT !.step = "listed", !.list = redeemers[c]]]
    BY <1>1, <1>6 DEF ClawList, TypeOK
  <2> QED BY <1>2, <1>6, <2>1, <2>2 DEF ClawList, TypeOK
<1>7. ASSUME NEW u \in Users, ClawOne(c, u) \/ ClawSkip(c, u)
      PROVE  TypeOK'
  <2>1. clawing' = [clawing EXCEPT ![c].list = @ \ {u}]
    BY <1>7 DEF ClawOne, ClawSkip
  <2>2. [clawing[c] EXCEPT !.list = @ \ {u}] \in Claw
    BY <1>1
  <2>3. clawing' \in [Codes -> Claw]
    BY <1>2, <2>1, <2>2
  <2>4. CASE ClawOne(c, u)
    <3>1. sub' \in [Users -> Row]
      BY <2>4, IdleTypes DEF ClawOne, Grant, TypeOK
    <3>2. lastEvent' \in [Users -> Codes \cup {None, "admin", "expiry"}]
      BY <2>4 DEF ClawOne, Grant, TypeOK
    <3> QED BY <2>3, <2>4, <3>1, <3>2 DEF ClawOne, TypeOK
  <2>5. CASE ClawSkip(c, u)
    BY <2>3, <2>5 DEF ClawSkip, TypeOK
  <2> QED BY <1>7, <2>4, <2>5
<1> QED BY <1>3, <1>4, <1>5, <1>6, <1>7

LEMMA InitTypes == Init => TypeOK
BY IdleTypes, LicencesAssumption DEF Init, TypeOK

\* Every row and every request keeps its shape (model/license.go).
THEOREM TypesHold == Spec => []TypeOK
<1>1. TypeOK /\ [Next]_vars => TypeOK'
  <2> SUFFICES ASSUME TypeOK, [Next]_vars
               PROVE  TypeOK'
    OBVIOUS
  <2>1. CASE Tomorrow
    BY <2>1, LicencesAssumption DEF Tomorrow, requests, TypeOK
  <2>2. CASE Restart
    BY <2>2, IdleTypes DEF Restart, TypeOK
  <2>3. ASSUME NEW c \in Codes, Mint(c)
        PROVE  TypeOK'
    <3> DEFINE Code == [minted: BOOLEAN, used: Nat, revoked: BOOLEAN]
    <3>1. code[c] \in Code
      BY DEF TypeOK
    <3>2. [code[c] EXCEPT !.minted = TRUE] \in Code
      BY <3>1, Zenon
    <3>3. code' \in [Codes -> Code]
      BY <2>3, <3>2 DEF Mint, TypeOK
    <3> QED BY <2>3, <3>3 DEF Mint, requests, TypeOK
  <2>4. CASE \E c \in Codes, u \in Users :
                RedeemLock(c, u) \/ RedeemRead(c, u) \/ RedeemCommit(c, u) \/ RedeemFails(c, u)
    BY <2>4, RedeemTypes
  <2>5. CASE \E u \in Assigned, p \in Plans, d \in AdminTerms, x \in BOOLEAN : AssignRead(u, p, d, x)
    BY <2>5, AssignTypes, LicencesAssumption
  <2>6. CASE \E u \in Users : AssignSave(u) \/ AssignRecord(u)
    BY <2>6, AssignTypes
  <2>7. CASE SweepStart
    BY <2>7 DEF SweepStart, TypeOK
  <2>8. CASE \E u \in Users : SweepTake(u) \/ Visit(u) \/ DowngradeSave(u) \/ DowngradeRecord(u)
    BY <2>8, DowngradeTypes
  <2>9. CASE \/ \E c \in Codes : RevokeRead(c) \/ RevokeSave(c) \/ RevokeDone(c) \/ ClawList(c)
             \/ \E c \in Codes, u \in Users : ClawOne(c, u) \/ ClawSkip(c, u)
    BY <2>9, ClawTypes
  <2>10. CASE UNCHANGED vars
    BY <2>10 DEF vars, TypeOK
  <2> QED BY <2>1, <2>2, <2>3, <2>4, <2>5, <2>6, <2>7, <2>8, <2>9, <2>10 DEF Next
<1> QED BY <1>1, InitTypes, PTL DEF Spec

-----------------------------------------------------------------------------
(* The budget of a code.                                                   *)

\* A redemption commits: the code was below its budget, and the account is new.
LEMMA CommitInBudget ==
    ASSUME TypeOK, BudgetInv, NEW c \in Codes, NEW u \in Users, RedeemCommit(c, u)
    PROVE  BudgetInv'
<1>1. /\ redeemers \in [Codes -> SUBSET Users] /\ MaxUses[c] \in Nat
      /\ code \in [Codes -> [minted: BOOLEAN, used: Nat, revoked: BOOLEAN]]
      /\ redeem \in [Codes -> [Users -> [on: BOOLEAN, base: Row \cup {None}]]]
  BY LicencesAssumption DEF TypeOK
<1>2. Holds(c, u)
  BY DEF RedeemCommit, Holds, NoRedeem
<1>3. /\ redeemers'[c] = redeemers[c] \cup {u}
      /\ code'[c].used = code[c].used + 1 /\ code'[c].revoked = code[c].revoked
      /\ \A d \in Codes \ {c} : redeemers'[d] = redeemers[d] /\ code'[d] = code[d]
  BY <1>1 DEF RedeemCommit
<1>4. \A d \in Codes, v \in Users : Holds(d, v)' => Holds(d, v) /\ (d # c \/ v # u)
  BY <1>1 DEF RedeemCommit, Holds
<1>5. OneHolder'
  BY <1>4 DEF BudgetInv, OneHolder
<1>6. \A v \in Users : ~Holds(c, v)'
  BY <1>2, <1>4 DEF BudgetInv, OneHolder
<1>7. ChecksStillHold'
  <2> SUFFICES ASSUME NEW d \in Codes, NEW v \in Users, Holds(d, v)'
               PROVE  /\ ~code'[d].revoked
                      /\ code'[d].used < MaxUses[d]
                      /\ v \notin redeemers'[d]
    BY DEF ChecksStillHold
  <2>1. d # c /\ Holds(d, v)
    BY <1>4, <1>6
  <2> QED BY <1>3, <2>1 DEF BudgetInv, ChecksStillHold
<1>8. /\ IsFiniteSet(redeemers[c]) /\ u \notin redeemers[c]
      /\ code[c].used = Cardinality(redeemers[c]) /\ code[c].used < MaxUses[c]
  BY <1>2 DEF BudgetInv, ChecksStillHold, CodesStayInBudget
<1>9. /\ IsFiniteSet(redeemers'[c])
      /\ Cardinality(redeemers'[c]) = code[c].used + 1
  BY <1>3, <1>8, FS_AddElement
<1>10. code[c].used \in Nat
  BY <1>1
<1>11. CodesStayInBudget'
  <2> SUFFICES ASSUME NEW d \in Codes
               PROVE  /\ Cardinality(redeemers'[d]) <= MaxUses[d]
                      /\ ~code'[d].revoked => code'[d].used = Cardinality(redeemers'[d])
    BY DEF CodesStayInBudget
  <2>1. CASE d = c
    <3>1. Cardinality(redeemers'[c]) <= MaxUses[c]
      <4>1. MaxUses[c] \in Nat
        BY LicencesAssumption
      <4> QED BY <1>8, <1>9, <1>10, <4>1
    <3>2. code'[c].used = Cardinality(redeemers'[c])
      BY <1>3, <1>9
    <3> QED BY <2>1, <3>1, <3>2
  <2>2. CASE d # c
    BY <1>3, <2>2 DEF BudgetInv, CodesStayInBudget
  <2> QED BY <2>1, <2>2
<1>12. \A d \in Codes : IsFiniteSet(redeemers'[d])
  BY <1>3, <1>9 DEF BudgetInv
<1> QED BY <1>5, <1>7, <1>11, <1>12 DEF BudgetInv

\* A redemption takes the lock when nobody holds it, or lets it go.
LEMMA LockInBudget ==
    ASSUME TypeOK, BudgetInv, UNCHANGED <<code, redeemers>>,
           \A d \in Codes, v \in Users :
               Holds(d, v)' => \/ Holds(d, v)
                               \/ Unlocked(d) /\ Redeemable(d, v)
                                  /\ \A w \in Users : Holds(d, w)' => w = v
    PROVE  BudgetInv'
<1>1. OneHolder'
  <2> SUFFICES ASSUME NEW d \in Codes, NEW v \in Users, NEW w \in Users,
                      Holds(d, v)', Holds(d, w)'
               PROVE  v = w
    BY DEF OneHolder
  <2>1. CASE Holds(d, v) /\ Holds(d, w)
    BY <2>1 DEF BudgetInv, OneHolder
  <2>2. CASE ~(Holds(d, v) /\ Holds(d, w))
    BY <2>2
  <2> QED BY <2>1, <2>2
<1>2. ChecksStillHold'
  <2> SUFFICES ASSUME NEW d \in Codes, NEW v \in Users, Holds(d, v)'
               PROVE  /\ ~code[d].revoked
                      /\ code[d].used < MaxUses[d]
                      /\ v \notin redeemers[d]
    BY DEF ChecksStillHold
  <2>1. Holds(d, v) \/ Redeemable(d, v)
    OBVIOUS
  <2> QED BY <2>1 DEF BudgetInv, ChecksStillHold, Redeemable
<1>3. CodesStayInBudget'
  BY DEF BudgetInv, CodesStayInBudget
<1> QED BY <1>1, <1>2, <1>3 DEF BudgetInv

\* A code row is saved by a mint or by a revocation, which has waited for the lock.
LEMMA CodeSavedInBudget ==
    ASSUME TypeOK, BudgetInv, NEW c \in Codes, UNCHANGED <<redeemers, redeem>>,
           \A d \in Codes \ {c} : code'[d] = code[d],
           \/ code'[c].used = code[c].used /\ code'[c].revoked = code[c].revoked
           \/ Unlocked(c) /\ code'[c].revoked
    PROVE  BudgetInv'
<1>1. \A d \in Codes, v \in Users : Holds(d, v)' <=> Holds(d, v)
  BY DEF Holds
<1>2. ChecksStillHold'
  <2> SUFFICES ASSUME NEW d \in Codes, NEW v \in Users, Holds(d, v)
               PROVE  /\ ~code'[d].revoked
                      /\ code'[d].used < MaxUses[d]
                      /\ v \notin redeemers[d]
    BY <1>1 DEF ChecksStillHold
  <2>1. code'[d].used = code[d].used /\ code'[d].revoked = code[d].revoked
    BY DEF Unlocked, Holds
  <2> QED BY <2>1 DEF BudgetInv, ChecksStillHold
<1>3. OneHolder' /\ CodesStayInBudget'
  BY <1>1 DEF BudgetInv, OneHolder, CodesStayInBudget
<1> QED BY <1>2, <1>3 DEF BudgetInv

LEMMA NextInBudget ==
    ASSUME TypeOK, BudgetInv, [Next]_vars
    PROVE  BudgetInv'
<1> DEFINE Redemption == [on: BOOLEAN, base: Row \cup {None}]
<1>1. redeem \in [Codes -> [Users -> Redemption]]
  BY DEF TypeOK
<1>2. ASSUME UNCHANGED <<code, redeemers, redeem>>
      PROVE  BudgetInv'
  BY <1>2, LockInBudget DEF Holds
<1>3. ASSUME NEW c \in Codes, NEW u \in Users, RedeemLock(c, u)
      PROVE  BudgetInv'
  <2>1. \A d \in Codes, v \in Users : Holds(d, v)' => Holds(d, v) \/ (d = c /\ v = u)
    BY <1>1, <1>3 DEF RedeemLock, Holds
  <2>2. \A w \in Users : ~Holds(c, w)
    BY <1>3 DEF RedeemLock, Unlocked, Holds
  <2> QED BY <1>3, <2>1, <2>2, LockInBudget DEF RedeemLock
<1>4. ASSUME NEW c \in Codes, NEW u \in Users, RedeemRead(c, u) \/ RedeemFails(c, u)
      PROVE  BudgetInv'
  <2>1. Holds(c, u)
    BY <1>4 DEF RedeemRead, RedeemFails, Holds, NoRedeem
  <2>2. \A d \in Codes, v \in Users : Holds(d, v)' => Holds(d, v)
    BY <1>1, <1>4, <2>1 DEF RedeemRead, RedeemFails, Holds
  <2> QED BY <1>4, <2>2, LockInBudget DEF RedeemRead, RedeemFails
<1>5. CASE Restart
  <2>1. \A d \in Codes, v \in Users : ~Holds(d, v)'
    BY <1>5 DEF Restart, Holds
  <2> QED BY <1>5, <2>1, LockInBudget DEF Restart
<1>6. ASSUME NEW c \in Codes, Mint(c)
      PROVE  BudgetInv'
  <2>1. /\ code'[c].used = code[c].used /\ code'[c].revoked = code[c].revoked
        /\ \A d \in Codes \ {c} : code'[d] = code[d]
    BY <1>6 DEF Mint, TypeOK
  <2> QED BY <1>6, <2>1, CodeSavedInBudget DEF Mint, requests
<1>7. ASSUME NEW c \in Codes, RevokeSave(c)
      PROVE  BudgetInv'
  <2>1. code'[c].revoked /\ \A d \in Codes \ {c} : code'[d] = code[d]
    BY <1>7 DEF RevokeSave, TypeOK
  <2> QED BY <1>7, <2>1, CodeSavedInBudget DEF RevokeSave
<1>8. CASE UNCHANGED vars
  BY <1>2, <1>8 DEF vars
<1>9. CASE Tomorrow \/ SweepStart
  BY <1>2, <1>9 DEF Tomorrow, SweepStart, requests
<1>10. ASSUME NEW u \in Users, NEW p, NEW d, NEW x,
              \/ AssignRead(u, p, d, x) \/ AssignSave(u) \/ AssignRecord(u)
              \/ SweepTake(u) \/ Visit(u) \/ DowngradeSave(u) \/ DowngradeRecord(u)
       PROVE  BudgetInv'
  BY <1>2, <1>10 DEF AssignRead, AssignSave, AssignRecord, SweepTake, Visit, DowngradeSave,
                     DowngradeRecord
<1>11. ASSUME NEW c \in Codes, NEW u,
              \/ RevokeRead(c) \/ RevokeDone(c) \/ ClawList(c)
              \/ ClawOne(c, u) \/ ClawSkip(c, u)
       PROVE  BudgetInv'
  BY <1>2, <1>11 DEF RevokeRead, RevokeDone, ClawList, ClawOne, ClawSkip
<1>12. Assigned \subseteq Users
  BY LicencesAssumption
<1> QED BY <1>3, <1>4, <1>5, <1>6, <1>7, <1>8, <1>9, <1>10, <1>11, <1>12, CommitInBudget DEF Next

-----------------------------------------------------------------------------
(* Revocations and history.                                                *)

\* A code's revocation is on record before its redeemers are listed, and is never
\* taken back.
LEMMA NextRevokedFirst ==
    ASSUME TypeOK, RevokedFirst, [Next]_vars
    PROVE  RevokedFirst' /\ \A c \in Codes : code[c].revoked => code'[c].revoked
<1> DEFINE Claw == [step: {"idle", "read", "revoked", "listed"}, used: Nat, list: SUBSET Users]
<1>1. /\ clawing \in [Codes -> Claw]
      /\ code \in [Codes -> [minted: BOOLEAN, used: Nat, revoked: BOOLEAN]]
  BY DEF TypeOK
<1>2. ASSUME \A c \in Codes : code[c].revoked => code'[c].revoked,
             \A c \in Codes : clawing'[c].step \in {"revoked", "listed"} =>
                 clawing[c].step \in {"revoked", "listed"} \/ code'[c].revoked
      PROVE  RevokedFirst' /\ \A c \in Codes : code[c].revoked => code'[c].revoked
  BY <1>2 DEF RevokedFirst
<1>3. ASSUME NEW c \in Codes, NEW u \in Users, RedeemCommit(c, u)
      PROVE  RevokedFirst' /\ \A d \in Codes : code[d].revoked => code'[d].revoked
  <2>1. UNCHANGED clawing
    BY <1>3 DEF RedeemCommit
  <2>2. \A d \in Codes : code[d].revoked => code'[d].revoked
    BY <1>1, <1>3 DEF RedeemCommit
  <2> QED BY <1>2, <2>1, <2>2
<1>4. ASSUME NEW c \in Codes, Mint(c)
      PROVE  RevokedFirst' /\ \A d \in Codes : code[d].revoked => code'[d].revoked
  <2>1. UNCHANGED clawing
    BY <1>4 DEF Mint, requests
  <2>2. \A d \in Codes : code[d].revoked => code'[d].revoked
    BY <1>1, <1>4 DEF Mint
  <2> QED BY <1>2, <2>1, <2>2
<1>5. CASE Restart
  <2>1. \A c \in Codes : clawing'[c].step = "idle"
    BY <1>5 DEF Restart, NoClaw
  <2> QED BY <1>2, <1>5, <2>1 DEF Restart
<1>6. ASSUME NEW c \in Codes, RevokeRead(c)
      PROVE  RevokedFirst' /\ \A d \in Codes : code[d].revoked => code'[d].revoked
  <2>1. /\ clawing'[c].step = (IF code[c].revoked THEN "revoked" ELSE "read")
        /\ \A d \in Codes \ {c} : clawing'[d] = clawing[d]
    BY <1>1, <1>6 DEF RevokeRead, NoClaw
  <2> QED BY <1>2, <1>6, <2>1 DEF RevokeRead
<1>7. ASSUME NEW c \in Codes, RevokeSave(c)
      PROVE  RevokedFirst' /\ \A d \in Codes : code[d].revoked => code'[d].revoked
  <2>1. /\ code'[c].revoked /\ \A d \in Codes \ {c} : code'[d] = code[d]
        /\ \A d \in Codes \ {c} : clawing'[d] = clawing[d]
    BY <1>1, <1>7 DEF RevokeSave
  <2> QED BY <1>2, <2>1
<1>8. ASSUME NEW c \in Codes, NEW u,
             RevokeDone(c) \/ ClawList(c) \/ ClawOne(c, u) \/ ClawSkip(c, u)
      PROVE  RevokedFirst' /\ \A d \in Codes : code[d].revoked => code'[d].revoked
  <2>1. UNCHANGED code
    BY <1>8 DEF RevokeDone, ClawList, ClawOne, ClawSkip
  <2>2. \A d \in Codes : clawing'[d].step \in {"revoked", "listed"} =>
            clawing[d].step \in {"revoked", "listed"}
    BY <1>1, <1>8 DEF RevokeDone, ClawList, ClawOne, ClawSkip, NoClaw
  <2> QED BY <1>2, <2>1, <2>2
<1>9. ASSUME UNCHANGED <<code, clawing>>
      PROVE  RevokedFirst' /\ \A d \in Codes : code[d].revoked => code'[d].revoked
  BY <1>2, <1>9
<1>10. CASE Tomorrow \/ SweepStart \/ UNCHANGED vars
  BY <1>9, <1>10 DEF Tomorrow, SweepStart, vars, requests
<1>11. ASSUME NEW c \in Codes, NEW u \in Users,
              RedeemLock(c, u) \/ RedeemRead(c, u) \/ RedeemFails(c, u)
       PROVE  RevokedFirst' /\ \A d \in Codes : code[d].revoked => code'[d].revoked
  BY <1>9, <1>11 DEF RedeemLock, RedeemRead, RedeemFails
<1>12. ASSUME NEW u \in Assigned, NEW p \in Plans, NEW d \in AdminTerms, NEW x \in BOOLEAN,
              AssignRead(u, p, d, x)
       PROVE  RevokedFirst' /\ \A e \in Codes : code[e].revoked => code'[e].revoked
  BY <1>9, <1>12 DEF AssignRead
<1>13. ASSUME NEW u \in Users,
              \/ AssignSave(u) \/ AssignRecord(u)
              \/ SweepTake(u) \/ Visit(u) \/ DowngradeSave(u) \/ DowngradeRecord(u)
       PROVE  RevokedFirst' /\ \A d \in Codes : code[d].revoked => code'[d].revoked
  BY <1>9, <1>13 DEF AssignSave, AssignRecord, SweepTake, Visit, DowngradeSave, DowngradeRecord
<1> QED BY <1>3, <1>4, <1>5, <1>6, <1>7, <1>8, <1>10, <1>11, <1>12, <1>13 DEF Next

\* What overwrites a plan that came from a code says so in the history, or the plan no
\* longer comes from a code; only a redemption writes a code into the history.
LEMMA NextEventNamesCode ==
    ASSUME TypeOK, EventNamesCode, [Next]_vars
    PROVE  EventNamesCode'
<1>1. /\ sub \in [Users -> Row]
      /\ lastEvent \in [Users -> Codes \cup {None, "admin", "expiry"}]
      /\ assign \in [Users -> [step: {"idle", "read", "saved"}, row: Row]]
      /\ "admin" \notin Codes /\ "expiry" \notin Codes
  BY LicencesAssumption DEF TypeOK
<1>2. ASSUME UNCHANGED <<sub, lastEvent, assign>>
      PROVE  EventNamesCode'
  BY <1>2 DEF EventNamesCode
<1>3. ASSUME NEW c \in Codes, NEW u \in Users, RedeemCommit(c, u)
      PROVE  EventNamesCode'
  <2> DEFINE ends == Ends(redeem[c][u].base, PlanOf[c], TermOf[c], TRUE)
             row == [plan |-> PlanOf[c], ends |-> ends, by |-> c]
  <2>1. /\ sub' = [sub EXCEPT ![u] = row]
        /\ lastEvent' = [lastEvent EXCEPT ![u] = c]
        /\ UNCHANGED assign
    BY <1>3 DEF RedeemCommit, Grant
  <2>2. row.by = c
    OBVIOUS
  <2> HIDE DEF row
  <2> QED BY <1>1, <2>1, <2>2 DEF EventNamesCode
<1>4. ASSUME NEW u \in Users, NEW event \in {"admin", "expiry"},
             UNCHANGED sub, \A v \in Users : assign'[v].row.by = None,
             lastEvent' \in {lastEvent, [lastEvent EXCEPT ![u] = event]}
      PROVE  EventNamesCode'
  BY <1>1, <1>4 DEF EventNamesCode
<1>5. ASSUME NEW u \in Users, AssignRecord(u) \/ DowngradeRecord(u)
      PROVE  EventNamesCode'
  <2>1. \A v \in Users : assign'[v].row.by = None
    BY <1>1, <1>5 DEF AssignRecord, DowngradeRecord, NoAssign, FreeRow, EventNamesCode
  <2> QED BY <1>4, <1>5, <2>1 DEF AssignRecord, DowngradeRecord
<1>6. ASSUME NEW c \in Codes, NEW u \in Users, ClawOne(c, u)
      PROVE  EventNamesCode'
  BY <1>1, <1>6 DEF ClawOne, Grant, FreeRow, EventNamesCode
<1>7. ASSUME NEW u \in Users, DowngradeSave(u)
      PROVE  EventNamesCode'
  BY <1>1, <1>7 DEF DowngradeSave, FreeRow, EventNamesCode
<1>8. ASSUME NEW u \in Users, AssignSave(u)
      PROVE  EventNamesCode'
  <2>1. \A v \in Users : assign'[v].row = assign[v].row
    BY <1>1, <1>8 DEF AssignSave
  <2>2. sub' = [sub EXCEPT ![u] = assign[u].row] /\ UNCHANGED lastEvent
    BY <1>8 DEF AssignSave
  <2> QED BY <1>1, <2>1, <2>2 DEF EventNamesCode
<1>9. CASE Tomorrow \/ SweepStart \/ UNCHANGED vars
  BY <1>2, <1>9 DEF Tomorrow, requests, SweepStart, vars
<1>10. ASSUME NEW c \in Codes,
              Mint(c) \/ RevokeRead(c) \/ RevokeSave(c) \/ RevokeDone(c) \/ ClawList(c)
       PROVE  EventNamesCode'
  BY <1>2, <1>10 DEF Mint, requests, RevokeRead, RevokeSave, RevokeDone, ClawList
<1>11. ASSUME NEW c \in Codes, NEW u \in Users,
              RedeemLock(c, u) \/ RedeemRead(c, u) \/ RedeemFails(c, u) \/ ClawSkip(c, u)
       PROVE  EventNamesCode'
  BY <1>2, <1>11 DEF RedeemLock, RedeemRead, RedeemFails, ClawSkip
<1>12. ASSUME NEW u \in Assigned, NEW p \in Plans, NEW d \in AdminTerms, NEW x \in BOOLEAN,
              AssignRead(u, p, d, x)
       PROVE  EventNamesCode'
  <2> DEFINE row == [plan |-> p, ends |-> Ends(sub[u], p, d, x), by |-> None]
  <2>1. row.by = None
    OBVIOUS
  <2>2. assign' = [assign EXCEPT ![u] = [step |-> "read", row |-> row]] /\ UNCHANGED <<sub, lastEvent>>
    BY <1>12 DEF AssignRead
  <2> HIDE DEF row
  <2> QED BY <1>1, <2>1, <2>2 DEF EventNamesCode
<1>13. ASSUME NEW u \in Users, SweepTake(u) \/ Visit(u)
       PROVE  EventNamesCode'
  BY <1>2, <1>13 DEF SweepTake, Visit
<1>14. CASE Restart
  <2>1. \A v \in Users : assign'[v].row.by = None
    BY <1>14 DEF Restart, NoAssign, FreeRow
  <2> QED BY <1>14, <2>1 DEF Restart, EventNamesCode
<1> QED BY <1>3, <1>5, <1>6, <1>7, <1>8, <1>9, <1>10, <1>11, <1>12, <1>13, <1>14 DEF Next

-----------------------------------------------------------------------------
(* Theorems.                                                               *)

LEMMA InitInv == Init => BudgetInv /\ RevokedFirst /\ EventNamesCode
<1> SUFFICES ASSUME Init
             PROVE  BudgetInv /\ RevokedFirst /\ EventNamesCode
  OBVIOUS
<1>1. OneHolder /\ ChecksStillHold
  BY DEF Init, OneHolder, ChecksStillHold, Holds
<1>2. \A c \in Codes : IsFiniteSet(redeemers[c]) /\ Cardinality(redeemers[c]) = 0
  BY FS_EmptySet DEF Init
<1>3. CodesStayInBudget
  <2>1. \A c \in Codes : MaxUses[c] \in Nat /\ code[c].used = 0
    BY LicencesAssumption DEF Init
  <2> QED BY <1>2, <2>1 DEF CodesStayInBudget
<1>4. RevokedFirst
  BY DEF Init, NoClaw, RevokedFirst
<1>5. EventNamesCode
  BY DEF Init, FreeRow, NoAssign, EventNamesCode
<1> QED BY <1>1, <1>2, <1>3, <1>4, <1>5 DEF BudgetInv

\* The invariant of the code rows, the revocations and the history.
THEOREM InductiveInvariant == Spec => []IInv
<1>1. Init => IInv
  BY InitTypes, InitInv DEF IInv
<1>2. TypeOK /\ TypeOK' /\ IInv /\ [Next]_vars => IInv'
  BY NextInBudget, NextRevokedFirst, NextEventNamesCode DEF IInv
<1> QED BY <1>1, <1>2, TypesHold, PTL DEF Spec

\* No code serves more accounts than it was sold for, and its counter is right for as
\* long as it can be redeemed, whoever redeems it at once (RedeemCode).
THEOREM BudgetIsKept == Spec => []CodesStayInBudget
<1>1. IInv => CodesStayInBudget
  BY DEF IInv, BudgetInv
<1> QED BY <1>1, InductiveInvariant, PTL

\* Once a claw-back has its list, nobody redeems the code: the list is everybody
\* (ClawBackCode).
THEOREM ClawBackListIsEverybody == Spec => ClawBackMissesNobody
<1>1. ASSUME IInv, [Next]_vars, NEW c \in Codes, clawing[c].step = "listed"
      PROVE  redeemers'[c] = redeemers[c]
  <2>1. code[c].revoked
    BY <1>1 DEF IInv, RevokedFirst
  <2>2. \A u \in Users : redeem[c][u].base = None
    BY <2>1, <1>1 DEF IInv, BudgetInv, ChecksStillHold, Holds, NoRedeem
  <2>3. CASE \E d \in Codes, u \in Users : RedeemCommit(d, u)
    <3> PICK d \in Codes, u \in Users : RedeemCommit(d, u)
      BY <2>3
    <3>1. d # c
      BY <2>2 DEF RedeemCommit
    <3> QED BY <1>1, <3>1 DEF RedeemCommit, IInv, TypeOK
  <2>4. CASE UNCHANGED redeemers
    BY <2>4
  <2> QED BY <1>1, <2>3, <2>4
          DEF Next, vars, requests, Tomorrow, Restart, Mint, RedeemLock, RedeemRead, RedeemFails,
              AssignRead, AssignSave, AssignRecord, SweepStart, SweepTake, Visit, DowngradeSave,
              DowngradeRecord, RevokeRead, RevokeSave, RevokeDone, ClawList, ClawOne, ClawSkip
<1>2. IInv /\ [Next]_vars => [\A c \in Codes : clawing[c].step = "listed" =>
                                  redeemers'[c] = redeemers[c]]_vars
  BY <1>1
<1> QED BY <1>2, InductiveInvariant, PTL DEF Spec, ClawBackMissesNobody

\* A claw-back that takes a plan away takes it from the code it is about, or from no
\* code at all, never what another code has granted since (shouldClawBack).
THEOREM OtherCodesAreSpared == Spec => ClawBackSparesOtherCodes
<1>1. ASSUME IInv, [Next]_vars, NEW c \in Codes, NEW u \in Users,
             u \in clawing[c].list \ clawing'[c].list, sub'[u] # sub[u]
      PROVE  sub[u].by \in {c, None}
  <2>1. CASE \E d \in Codes, v \in Users : ClawOne(d, v)
    <3> PICK d \in Codes, v \in Users : ClawOne(d, v)
      BY <2>1
    <3>1. d = c /\ v = u
      BY <1>1 DEF ClawOne, Grant, IInv, TypeOK
    <3>2. lastEvent[u] = c
      BY <3>1 DEF ClawOne, ShouldClawBack
    <3> QED BY <1>1, <3>2 DEF IInv, EventNamesCode
  <2>2. CASE UNCHANGED sub \/ UNCHANGED clawing
    BY <1>1, <2>2
  <2> QED BY <1>1, <2>1, <2>2
          DEF Next, vars, requests, Tomorrow, Restart, Mint, RedeemLock, RedeemRead, RedeemCommit,
              RedeemFails, AssignRead, AssignSave, AssignRecord, SweepStart, SweepTake, Visit,
              DowngradeSave, DowngradeRecord, RevokeRead, RevokeSave, RevokeDone, ClawList, ClawSkip
<1>2. IInv /\ [Next]_vars => [\A c \in Codes, u \in Users :
          (u \in clawing[c].list \ clawing'[c].list /\ sub'[u] # sub[u]) => sub[u].by \in {c, None}]_vars
  BY <1>1
<1> QED BY <1>2, InductiveInvariant, PTL DEF Spec, ClawBackSparesOtherCodes
=============================================================================
