# A verification project for the quizzZone backend

TLA+ models of the Go API gateway under `src/`: what the checkout does with money, what
licences, rooms, games, quizzes and accounts do when many requests reach for them at
once. TLC checks each module on a small instance; TLAPS proves the safety properties
those runs check for instances of any size. `PROJECT.json` maps every definition to the lines it stands
for, and lists runs, mutants, hazards, findings and theorems.

Paths below are relative to `src/internal/`.

## 1. The system

One Go process (one replica; several caches say so) serves hosts, players, buyers and
admins over HTTP. Its state is in Postgres through GORM. Redis holds claims, counters,
tokens and the mail queue. Centrifugo carries events to browsers and keeps nothing.
SePay reports money by webhook and through two APIs. Background workers run in the
process: sweeps of rooms, licences and orders, the payment reconcile job, mail senders.

| Component | State | Operations | Who else touches it | Hard behaviour | What makes it correct |
|---|---|---|---|---|---|
| Orders and ledger (`pkg/payment/order.go`, `sepay.go`) | `payment_orders`, `bank_transactions` | CreateOrder, CancelUserOrder, ExpireStale, AdminConfirm, AdminCancel, AttachTransaction, DismissTransaction, settle | both payment channels, the expiry worker | five ways to pay one order, all concurrent; two checkouts with nothing to lock | one code per paid order; paid by one transfer at exactly the price; the ledger only grows; the money on an order is money of the ledger |
| Bank channel (`sepay.go`, `reconcile.go`, `payment_webhook.go`) | requests in flight | SePayWebhook, Reconcile, ApplySePay | SePay | lost and repeated webhooks, one transfer under two ids, crash before commit | all money ends on record; exact money pays |
| Hosted gateway (`gateway.go`, `gateway_reconcile.go`) | SePay's order states, a list read by the poll and an answer it has fetched | ApplyGatewayIPN, ReconcileGateway | SePay | notifications of other types first, voids, another buyer's name, stale list | money grants once; nothing is granted to a misrouted payment |
| Host-paced game (`handler/quiz.go`, `submit_classic.go`) | the room row, player rows, `answer_logs` | StartGame, NextQuestion, EndQuestion, SubmitAnswer | sweeps, LeaveRoom | requests that read, wait, then write; submits racing the end | score = sum of answers; one answer a question; the end is final |
| Solo game (`handler/quiz.go`) | question and deadline on each player row | StartGame, SubmitAnswer, GetRoom / GetPlayerQuestion (start the timer), auto-finish | finalizeRoom | two finishers at once, late answers, retried submits | every question once, in order; the last finisher closes the room |
| Answer claims (`handler/answer_claim.go`) | Redis marks | claimAnswer, releaseAnswer | both modes | Redis down, evicting, restarting | nothing but speed depends on them |
| Room closing (`handler/quiz.go` finalizeRoom, `cron/cron.go`) | `game_sessions`, `rooms.status`, `ended_reason` | EndGame, finalizeRoom, cleanupAbandonedRooms | auto-finish, licence sweep | several closers, failing archive, failing broadcast, restart between steps | complete archive; the podium shown is the archive; rows outlive it |
| Lobby (`handler/quiz.go`, `player_errors.go`) | players of a waiting room | CreateRoom, JoinRoom, LeaveRoom, reconnectPlayer, closeEmptyLobbies | StartGame | check then act on caps, a switch read three times, seats deleted on stale status, a quiz emptied before the start | caps hold; nobody loses a seat of a running game |
| Results and statistics (`results_cache.go`, `standings_cache.go`, `question_stats.go`) | short-lived caches | GetRoomResults, standings, stats | room closing | archive read, then live rows; two orders of ending a room | ranks are a proper order; never an empty list for a played game |
| Caches (`room_cache.go`, `room_state_cache.go`, `question_cache.go`) | process memory | load, invalidate, sweep | every writer of a room or quiz | a load in flight while the entry is dropped | a reader after the write sees the write |
| Quiz editing and sharing (`quiz.go`, `quiz_sharing.go`, `template.go`) | quizzes, members, invites | UpdateQuiz, DeleteQuiz, share, accept | rooms that run the quiz | edit against start of a game | a running quiz is not rewritten |
| Licences (`pkg/license/*`) | subscriptions, codes, redemptions, history | RedeemCode, RevokeCode, ClawBackCode, AssignPlan, SweepExpiredSubscriptions, warnings | checkout mints codes; admin; sweep | unlocked read-then-save against a renewal | no paid term is lost; a code is used at most `max_uses` times |
| Enforcement switch (`pkg/license/enforcement.go`) | stored flag and its cached copy | SetEnforcement, RefreshEnforcement | refresher | refresh racing a change | the copy follows the row |
| Accounts (`auth.go`, `password_reset.go`, `pkg/jwt`) | users, refresh tokens, reset links in Redis | register, login, refresh, logout, reset | admin users | two resets at once, revoke racing refresh, Redis errors that are dropped | one live link; revoked means revoked |
| Mail (`pkg/email`) | Redis list, two in-memory lanes | enqueue, nextJob, guards | most handlers | crash after pop, Redis outage, full queue | priority first, bounded, no stale code sent |
| Rate limits (`middleware/ratelimit.go`) | Redis counters | allow | every route | fail open or closed | no more than the limit in a window |
| Reporting (`pkg/notify`, `telegrambot`, `pkg/audit`, `cron/digest.go`) | chat, logs | alerts, commands, digest | everyone | – | – |

Interactions that matter: a *paid* order mints a licence code in the same transaction
(checkout → licences); a lapsed licence closes its host's rooms (licences → room
closing); the last solo submit closes its room (game → room closing); room closing
deletes the rows that results, standings and reconnects read.

## 2. Plan

Money first, because a mistake costs money and has the most actors; then the running
game; then the end of the room, where data is deleted; then what the game rests on. The
models of the plan are written:

1. `Checkout`, `BankTransfers`, `OrderPromise` (abstract)
2. `GatewayPayments`
3. `AnswerClaims`, `HostPacedGame`, `SoloGame`
4. `RoomClosing`
5. `Licences`, `EnforcementSwitch`
6. `Lobby`
7. `SnapshotCache`, `Results` (checked with `EnforcementSwitch` by `MCCopies`)
8. `Accounts`
9. `QuizEditing`

An abstract ledger of bought terms, which a subscription's end would refine, was planned
for 5 and is not stated: the code does not keep one (finding 1 below, and two codes
redeemed at once). A model of the mail queue was planned for 8 and dropped: nothing in
the system reads back whether a mail was sent.

Proofs follow the same order, in seven modules: `BankTransfersProofs`, `GatewayProofs`,
`GamesProofs` (both modes), `RoomClosingProofs`, `LicencesProofs`, `RoomProofs` (lobby,
caches, results), `OwnerProofs` (accounts, quiz editing); and `SumLemmas`, on sums over
finite sets, which three of them use. Section 6 says what they prove.

What is left: abstract specifications for the components that have none but their
properties (a room's end, a licence code), with the refinements proved as the
checkout's is; and what the enforcement switch keeps without fairness.

## 3. Modules and the code

**Checkout** – the two tables, every operation that works on one locked order row, and
the checkout. An operation on one order is one action, which waits while a checkout holds
the row (`Held`); an error return is an action that is not enabled.
`orders[o]` is the row with order code `o` (`live` stands for `expires_at`, `codes`
counts minted codes, `ref` stands for `external_ref`), `ledger[r]` the row whose unique
key is `r`. `Settle` is `settle`, one disjunct per case of its switch. A checkout (`carts`)
is two steps: `BeginCheckout` reads and locks the buyer's pending orders, which are none for a buyer without
one, and may miss an order inserted while it waited for a lock; `CreateOrder` closes what was read and inserts,
if the partial unique index lets it (`NoOtherPending`). `EndCheckout` is every other end: the live order returned, the
hourly cap, the unique violation (after which CreateOrder begins again, as `BeginCheckout`), a
rollback. The checkout switch and an inactive product are refusals.

**BankTransfers** – extends it with SePay's side (`bank`) and the requests between
`knownReference`, which runs outside the transaction, and the transaction (`inFlight`):
`Receive` and `Apply`. `Fail` is a crash or a rolled back transaction at that point.
The webhook may post any transfer any number of times; the job only adds that a listed
transfer comes again. `SplitId` are transfers listed under another id than their
webhook's. `LookupFails` lets the look-up fail, since its error is dropped. The
handlers' mail and alerts (`AfterApplied`) change no order.

**GatewayPayments** – extends `Checkout` with SePay's payment page (external: `Capture`,
`Void`), the four kinds of notification, and the poll: `PollStart` reads the list,
`PollFetch` asks SePay about one order of it, `PollApply` applies the answer in a transaction
of its own, against whatever order and payment are by then; `PollAborts` is a failed fetch or
transaction, a timeout or a restart.

**OrderPromise** – what a buyer may rely on: open, in review, called off, sold; who
sold it. `KeepsPromise` is the refinement mapping in `BankTransfers`.

**AnswerClaims** – SubmitAnswer around its transaction, common to both modes: the mark
(SETNX), the fallback when Redis cannot answer (it may have set the mark all the same), the transaction's outcome, the best-effort
release. `ForgetClaim` is eviction, a Redis restart, or the end of the six hours.

**HostPacedGame** – the room row with the host's requests, which read, decide and write in
separate steps (`NextRead`/`NextWrite`, `EndRead`/`EndWrite`), so that two of them, or one and
the end, interleave; either write may fail. A submit's transaction holds the room row SHARE and is one step. Time
is the deadline passing (`TimeUp`) and each request's `late` flag, two seconds of grace
included.

**SoloGame** – progress per player, page loads that read the row and start the timer later
(`LoadQuestion`/`StartTimer`), the submit that deals the next question, and the auto-finish
in two steps (`CheckLeft`/`AutoFinish`) after the commit. Joins and deleted rows are left out: they
belong to Lobby. `ensureSoloQuestionAssigned` only acts on a row that joined without a question,
which cannot happen here. A quiz edited during the game is left out with it.

**RoomClosing** – the steps of finalizeRoom and of the abandoned-room sweep, each a
statement against the database, with answers and leaving players around them. An
answer is one step, whatever the mode. `ReadsFail` lets the two reads behind the rankings fail,
since their errors are dropped. The room starts active: closing a lobby archives
empty rankings by the same steps. A publish may fail (`Tell`), and its error is dropped; `lost` remembers that for the
claim's own broadcast, as it does a restart before it. LeaveRoom in a running game only flags the row; in the finished
window, or when it cannot read the room, it deletes, also for a page that merely unloads, so `left` includes those.

**Licences** – one subscription row per user (`sub`), overwritten in place by four
kinds of actors, of which only a claw-back locks it. A redemption is one transaction with the code row
`FOR UPDATE` (`RedeemLock`), which reads the subscription (`RedeemRead`) and later writes
it with the redemption row (`RedeemCommit`); an assignment is three statements
(`AssignRead`, `AssignSave`, `AssignRecord`); a downgrade is a read and a save, whether the
hourly sweep decides it (`SweepTake`) or a gated request of the user (`Visit`). `RevokeRead`
and `RevokeSave` are RevokeCode, `ClawList` the list of redeemers, `ClawOne` one
redeemer's transaction, which decides by the newest history row (`lastEvent`,
`ShouldClawBack`). `RedeemLock` takes the checks on the code together: each only refuses, under one lock.
Every writer of a subscription sets `Status` to active, so the downgrade of another status is never taken, and `Status` is not
in the model. Days are the unit of time; `Ends` is computeTerm. `by`, the code a
plan came from, is not stored in the row: the properties need it.

**EnforcementSwitch** – the row of `system_settings` and the flag in memory, each written
by admins (row, then flag), by hand, by the minute worker (read, then store) and by a start.

**Lobby** – rooms of one host and the seats in them. A join checks the nickname, frees it
from a player who is gone, and then takes the room row: `FOR UPDATE` while the cap is
enforced, `FOR SHARE` otherwise (`Lockable`). It reads the switch three times, for the cap, for the lock and for the count,
and `SetEnforcement` may come between (`strict`, `alone`). StartGame is one transaction, which deals the first question if there is one: the
quiz may be edited while its rooms wait, and a game starts without one too (`bare`). LeaveRoom and
reconnectPlayer lock nothing (`LeaveRead`, `LeaveWrite`, `Reconnect`). At the limit
CreateRoom closes lobbies it has found empty, whoever has joined them since
(`CreateClose`). `stayed` and `bare` are for the properties only.

**QuizEditing** – one quiz, its owner's and editors' pages, and the grants. `LoadRow` and
`LoadQuestions` are the two reads of GetQuiz; `SaveBegin` is the compare-and-swap that
takes the quiz row, `SaveCommit` the sync of the question list under it. `written[q]` is the
save that wrote a question last. A client that sends no `expected_updated_at` is part of the
model (`expects = None`). An import from a template checks pack and quiz (`AskImport`) and appends later, under the table's key-share
lock, to a quiz deleted since too (`ImportBankQuestions`). Two saves from one page are out: the page reloads after a save. The plan's grant limit is a constant, though it is read before the
invitation's transaction; slides, which a payload may leave as they were, are content.

**Accounts** – one account, its registration, refresh tokens with the index
`refresh_user:<id>` that RevokeAllRefreshTokens works from, writers of the users row, and
reset links. Each command of Redis is a step; `Stops` ends a request after any of them, and those whose errors the code
drops may do nothing: the DEL and the SREM of a rotation or logout, the EXPIRE of the index, the keys of a reset link.
`raced` is a session that was indexed between the two commands of a revocation, `loose` one whose own DEL failed or for
which the index was not renewed. The index may end with its life (`IndexExpires`).

**SnapshotCache** – `roomState` and `quizQuestions`, which are the same code: the
map's entry (`slot`), entries that live on in the hands of a reader, the mutex
(`holder`), and writers that commit and then delete the entry. `ForeignCommit` is a writer
that does not delete it (cron, licence sweep): its staleness is bounded by the TTL.

**Results** – GetRoomResults while its room ends: the cache, the archive, the archive
again, the live rows, each read a step, and a read of the archive that fails falls through to the next source. The room is ended by
finalizeRoom (claim, archive, rows), by the abandoned-room sweep (archive, status, rows), or by both at once, any
write of which may fail. And the standings of a running room.

Each module keeps its mutants next to the definitions they change, marked `Mutant:`; no
specification uses them.

## 4. Runs

| Run | Instance | Shows |
|---|---|---|
| `bank` | 1 buyer, 1 item, 2 order codes, 1 checkout at a time, 2 transfers (one under two ids), amounts 1 and 2 | safety of the bank channel and refinement of `OrderPromise` |
| `bank_liveness` | 1 buyer, 2 items at 2 prices, 2 order codes, 2 checkouts at once, 1 transfer | racing checkouts leave one pending order; money reaches the ledger; exact money pays |
| `gateway` | 1 buyer and 1 stranger, 1 item, 2 order codes, 1 payment of 5 kinds | safety and liveness of the gateway |
| `host_paced` | 1 player, 2 questions, 2 submits and 2 requests of the host in flight | scores, one answer, finality |
| `solo` | 2 players, 2 questions, 2 submits and 1 page load in flight | progress, auto-finish |
| `closing` | 2 players, 2 questions, host and licence sweep closing, abandoned-room sweep | archive, podium, cleanup, who has been told |
| `licences` | 2 users, 2 codes of one plan with 1 use each, an admin who assigns a higher plan, 3 days, 2 requests at once | a code's budget; a claw-back takes all and only what its code gave |
| `licences_renewal` | the same | *violation*: a downgrade overwrites a renewal |
| `lobby` | 1 solo room, 3 seats, 2 nicknames, 2 joins and 1 create at once, limit and cap 1, cap 2 while the gates are off | everybody dealt a question, or nobody; the cap binds newcomers |
| `sharing` | an owner and 2 guests, 3 question ids, 2 saves, 2 invitations, limit 1 | one save's list, no unseen loss, grants |
| `accounts` | 2 requests at once, 2 tokens, 2 links | sessions stay revocable; a link works once |
| `caches` | 2 readers, 2 writers, 3 entries, 2 writes; 2 viewers, 3 players; 2 admins | copies in memory against their rows |

`caches` checks three modules that share no state: a behaviour exercises one and the
others stand still, which explores each as a run of its own would. It may stop, since its
writes and changes are bounded.

### Why the bounds are enough

- Two order codes give one order replaced by, or racing with, another; a third adds no new pair. Two
  checkouts at once, in `bank_liveness`, meet with nothing to lock, or one waits while the other replaces an order: that is
  what `OnePendingPerBuyer` is about. `bank` has the second transfer instead. The proofs lift all of it.
- Two transfers: the second one meets an order the first has paid, or sent to review. Two
  amounts with a price of 1 give exact and wrong; with two prices, also an amount exact for one item only.
  `MCPages` gives a gateway payment every invoice, and wrong amount or wrong buyer for one of them.
- One gateway payment still gives three ledger rows (IPN, void, poll), which is where its hazards are.
- `MaxInFlight = 1` request per transfer and channel: webhook and list reach ApplySePay at once; two webhooks of one
  transfer have the same key, and the second is the case `Recorded(r)`.
- One player in `host_paced`: players share nothing but the room row, which a submit only reads.
- Two requests are a race; both may carry the same answer. Two questions are "not last" and "last".
- Two closers: a winner and a loser. A call may come again after it ended.
- Two codes with one use: a code is contended, and a user's plan is replaced by another code's. `MaxBusy = 2` requests
  are a race of any two kinds, the sweep aside. Terms of one day and three days let terms run, end and be renewed.
- Cap and limit 1: full is reached with one player, and the second join or room is the race. Three seats allow one
  who is away, one who takes the nickname, and one who waits for the lock. With the gates off a second player fits, so that
  the plan's cap is exceeded when they are armed again. No property compares rooms; a second one only adds to CreateRoom's limit.
- Grant limit 1 with two guests is the race for the last place. One row dropped or added per save, two saves: every overlap of two
  payloads over three questions that matters to who wrote a row. `MaxBusy = 2` is two editors, or an editor and an invitation.
- Two tokens: one is rotated while another is made or revoked with it, by two requests. Two links: a link and the next.
- Three entries: the one in the map and one in the hands of each reader. Two writes: one seen and one invalidated.

All runs but the liveness runs and `caches` use symmetry, over sets that no property and
no constant tells apart. Deadlock is checked in every run but `caches` and the gateway's: when the only
payment has been notified in every way and its orders are closed, that system is at rest.

### Fairness

None for webhooks or IPNs (SePay gives up after seven attempts, and the code's answer to that is the job), buyers,
admins, hosts or players. `bank_liveness` and `gateway` assume the hourly job: a listed transfer is taken up again
(the job does not always come just while a checkout holds the row: strong fairness of `ReceiveUnheld(t)`, and of `PollStart`
and `PollFetch(o)` while no row is held), and its transaction, which restarts and failures may disable again and again, does not
fail every time (strong fairness of `Apply(t, "list")` and of `PollApply(o)`); a checkout's transaction ends (weak fairness
of `EndCheckout(c)`). Both say nothing of a transfer
older than the job's window (48 h), which is only reached if the job failed for two days, or of an order whose plan
was deactivated after checkout: MarkPaidTx then refuses every time (hazard list). `caches` assumes the worker that
re-reads the switch every minute (weak fairness of `RefreshRead` and of `RefreshStore`), and that the switch is changed finitely often
(`MaxUpsets`). The other runs need no fairness, because
what has to happen there is stated as an invariant: while the room is in a state that somebody must leave, somebody is
on the way (`LastFinisherCloses`, `EndIsUnderWay`).

## 5. What the checks and the modelling found

With a run:

1. **A downgrade takes a renewed term.** `DowngradeToFree` saves the subscription it was handed. When a code is redeemed, or an admin
   renews, between that read and the save, the renewed row is overwritten by Free. The row lock that would order the two does not exist:
   redemptions lock the code, not the subscription. `licences_renewal` shows it.

Seen with a property that the module still states under "not kept by the code" (make it the INVARIANT, or PROPERTY, of the module's cfg to
see TLC's counterexample):

2. **One transfer recorded twice** (`OneRowPerTransfer`). `ApplySePay` looks for the bank reference before its transaction; with the
   webhook and the list API under different ids both look-ups can come first, although `reconcile.go:26-28` says a mismatch "cannot record
   one transfer twice". No code is minted twice (`PaidByOneTransfer` holds), but the second row reads as a duplicate payment, or is added to an order in review.
3. **The code on an order is replaced** (`CodeStaysOnOrder`). A customer mismatch is checked before the order's status, so it takes a *paid*
   order to review; confirming it mints a second code and `license_code` no longer shows the first (`model/payment.go:59-61`).
4. **A payment is added twice to `paid_amount_vnd`** (`PaidAmountArrived`). The poll and the IPN use different ids for one payment; an order
   sent to review by one is topped up by the other.
5. **A claim outlives a lost submit** (`ClaimMeansRecorded`). `answer_claim.go:48-52` calls a stale mark "the same outcome as the answer having gone
   through"; nothing was recorded, and a solo player cannot get past the question until the mark expires.
6. **A replayed `game:ended` may carry no reason** (`ReplayKeepsReason`), from a room read before the winner's claim.
7. **A failed read of the players is archived as an empty game** (`ResultsSurvive`, with `ReadsFail = TRUE`), after which the rows are deleted.

Seen while modelling, with no property of its own:

- `cron/cron.go:267-269` says money for an expired order is "sent to review rather than granted", while `settle` grants it when it is
  exact (`sepay.go:176-178` says so too, and `ExactMoneyActivates` relies on it).
- The abandoned-room sweep leaves out answers accepted between its read and its save, and writes back the `ended_reason` it read. A crash between
  finalizeRoom's claim and its archive is not made up for by a later call. A slow EndQuestion clears the next question's deadline.
- RevokeRefreshToken drops the error of its DEL and takes the session out of the index all the same (`jwt.go:156-157`): a session whose rotation or
  logout met a failing Redis works on and is out of RevokeAllRefreshTokens' reach. `Accounts` has the step (`DropToken`, `UnindexToken`).
- A publish of `game:ended` that fails is not tried again (`quiz.go:2275`), and a solo game whose quiz was emptied while the room waited starts with
  no question for anybody (`quiz.go:918`).
- Two codes redeemed by one account at once both extend the same row, and one term is lost. RevokeCode writes back the `used_count` it
  read, so a revoked code may show one redemption less than it has.
- Results asked for across a whole closing may come back empty: the rows are not "present for the whole window" (`quiz.go:3213`) for a reader that
  looked for the archive before it was written and for the rows after they were deleted; for one that found the room open while the
  abandoned-room sweep, which archives first, was closing it; and for one whose read of the archive failed. Nothing keeps such an answer (`ResultsStayFull`).
- JoinRoom frees a nickname, and LeaveRoom deletes a seat, on what they read before the game started. A reconnecting player is
  taken in over the cap. Two CreateRoom calls may exceed the room limit by one.
- ChangePassword and the two admin edits save the whole users row, and undo what another of them wrote since the read. A session
  indexed between RevokeAllRefreshTokens' two commands lives on outside the index until it is rotated or its seven days end.

## 6. Proofs

Eight modules of proofs, each for every value of the constants that satisfies the module's named assumptions, which TLC
evaluates in the runs. They state every safety property of the passing runs. Each rests on one
inductive invariant, proved with one lemma per action; a theorem below is that invariant together with a short step.

| Module of proofs | Theorems, with the property of a run they state |
|---|---|
| `BankTransfersProofs` | `TypesHold` (`TypeOK`), `OneCodePerPaidOrder` (`CodeIffPaid`), `OneTransferPerPaidOrder` (`PaidByOneTransfer`), `OneLiveCheckoutPerBuyer` (`OnePendingPerBuyer`), `LedgerOnlyGrows` (`LedgerIsAppendOnly`), `PaidAmountsAreLedgered` (`PaidAmountIsLedgerMoney`), `CheckoutKeepsPromise` (`KeepsPromise`) |
| `GatewayProofs` | `OneGrantPerOrder` (`MoneyGrantsOnce`), `SettlementMeetsUngranted` (`OpenOrdersAreUngranted`), `GrantsNameTheOwner` (`MisroutedNeverGrants`), `OneLiveCheckoutPerBuyer` and `PaidAmountsAreLedgered` (in no gateway run) |
| `GamesProofs` | `AnswersAreRecordedOnce` (`OneAnswerPerQuestion`), `ScoresAreSums` (`ScoreIsSumOfAnswers`), `TheEndIsFinal` (`FinishedIsFinal`), `NobodyAnswersAhead` (`AnswersFollowHost`); solo: `NoQuestionSkipped` (`ProgressMatchesLog`), `NobodyIsCutOff` (`AutoFinishLeavesNobody`), `TheLastOneCloses` (`LastFinisherCloses`), `SoloScoresAreSums` and `TheSoloEndIsFinal` (no run) |
| `RoomClosingProofs` | `TypesHold` (`TypeOK`), `ArchivesAreComplete` (`ArchiveIsComplete`), `PodiumIsArchive` (`PodiumMatchesArchive`), `RowsOutlive` (`RowsOutliveArchive`), `EndsAreUnderWay` (`EndIsUnderWay`) |
| `LicencesProofs` | `BudgetIsKept` (`CodesStayInBudget`), `ClawBackListIsEverybody` (`ClawBackMissesNobody`), `OtherCodesAreSpared` (`ClawBackSparesOtherCodes`) |
| `RoomProofs` | `ReadsAreCurrent` (`ReadsSeeInvalidatedWrites`), `ResultsAreFull` (`ResultsStayFull`), `RanksAreOthers` (`OwnRowNeverAhead`), `SeatsAreDealt` (`EverySeatIsDealt`), `CapHolds` (`CapBindsNewcomers`) |
| `OwnerProofs` | accounts: `SessionsCanBeRevoked` (`SessionsStayRevocable`), `OneLinkOnePassword` (`LinkSetsOnePassword`); quizzes: `OneSavesList` (`ListIsOneSave`), `NothingLostUnseen` (`NoUnseenLoss`), `DeletedQuizIsUnshared` (`DeletedQuizHasNoGrants`), `GrantsStayWithinLimit` (`GrantsWithinLimit`) |
| `SumLemmas` | `TotalAdds` and `AmountAdds`: what a sum over a finite set gains with one more element |

### The invariants, and why the properties need them

**Bank channel.** `IInv` is the types with the three properties on orders. None of the three is inductive without the types (what a
record update leaves is known only of a record of the right shape). With them the proof turns on three facts: an order that
is marked paid was not paid before, so it had no code and no row paid it; a row being settled is new or unmatched, so it
pays nothing yet; and `paid` is never left on this channel. One lemma per record update (`MarkPaidFields`,
`ReviewFields`, `SetTxnSound`) gives the shape of the new record; `OneOrderMoves`, `UnpaidMoves` and `IdleRowMoves` say what the
invariant keeps when one order or row changes; `SendToReviewSound`, `GrantSound`, `SettleSound` compose them along
`Settle`, and one lemma per operation follows.

`LedgerOnlyGrows` needs one more invariant, `OpenRowsUnplaced` (a row that is new or unmatched names no order): without it
an attached transfer could leave another order. `CheckoutKeepsPromise` is the refinement of `OrderPromise`: `Shown` says
what each status maps to, `OneView` how the mapped variables move when one order does, and one lemma per operation which
step of the promise it is. Cancellations are `CallOff`, money for review `QuestionMoney` (or nothing, when the order
is under review already), `MarkPaid` is `Sell`, `CreateOrder` is `Open` with the live order it replaces, and the
sweep, the clock and every request that changes only the ledger are stutters.

`OneLiveCheckoutPerBuyer` needs that what a checkout holds locked is still pending and its buyer's when it commits, and
that no two hold the same order: the index alone compares with what is pending, and what is pending and not refused is what
the checkout closes. That holds whatever it missed, so the theorem covers the race with nothing to lock.

`PaidAmountsAreLedgered` needs `MoneyInv`: `MarkPaidTx` *replaces* the amount that `review` adds to, so the sum survives a
grant only if an order that still awaits money has no credited row; and an order under an admin's word never comes back
to settlement. The rows of an order are finite, although `Rows` may not be, because each step credits one row at most.

**Gateway.** Here `paid` *can* be left (finding 3), so "a row that pays an order finds it paid" is false. `Ungranted` takes its
place: orders that were never granted have no code, no payer and no row, and no order becomes one of them again.
`MisroutedNeverGrants` also needs that a payment names an order that exists, whose owner then never changes.
The money of an order follows as on the bank channel, with one difference: a paid order may come under review and gain more.
That finding 4 (one payment added twice) does not contradict it is the point: the ledger holds that payment twice as well.

**Games.** A request past the mark knows its player and question (`RequestInv`), and an answer is recorded once whatever
Redis forgets (`AnswerInv`); both modes share these. `ScoreInv` adds that a player's answers are finitely many and sum up to the score. The host-paced room adds that a finished room has no question up and that the
question up is one it has reached (`ReachInv`): the guards of stale requests are what keeps it. The solo
room adds that a game not yet started has neither answers nor finishers (`StartInv`). `TheLastOneCloses` assumes that the room has a
player: the code starts a room with none, and that room has no last finisher.

**Closing.** `ClaimInv`: one call at most has won the claim, and what it read, archived and will announce are the same rankings, until the abandoned-room
sweep steps in. `OrderInv`: whoever deletes has an archive behind it. `RowInv`: while the rows are the only record they count
every acknowledged answer. `CompleteInv` follows these through the reads, and holds only if these do not fail:
`ArchivesAreComplete` therefore assumes `~ReadsFail`, as the run does, and finding 7 is the other case. The other theorems hold for both.

**Licences.** The lock on a code row has one holder, and what `Redeemable` found under it still holds (`ChecksStillHold`). A claw-back works on a code that
is revoked already, so no redemption gets that lock any more. A history row that names a code names the one the plan came from
(`EventNamesCode`), in spite of the unlocked writers.

**Room.** The lobby's `JoinInv`: a join that holds the room row knows the room is waiting and, if it holds it alone and counted under the plan's cap, has a place left that nobody else can take.
The cache's `CopyInv`: the entry in the map covers every invalidated write, and so does what a reader of it is about to store; an entry
already out of the map covers what was invalidated when its readers came. These cannot be read off the code's mutexes alone: a load that
began before an invalidation ends in an entry no later reader finds. The results' `RosterInv` follows a viewer who came after the archive, and the room through both orders of ending it; `BoardInv`
says a board is no newer than the scores, which only rise. Theorems on caches and results are about `SnapshotSpec` and `ResultsSpec`, which `MCCopies` runs side by side.

**Accounts.** `SessionInv`: a key whose deletion has been tried is dead or loose before its entry leaves the index, and a revocation has read every live session
it does not race with. `LinkInv`: a link has one taker, and has set nothing before.

**Quiz editing.** `LockInv`: one transaction holds the quiz row, of a quiz that is there. What it read or counted under the lock is then still
so at its commit (`ListInv`, `GrantInv`). `PageInv` ties unlocked pages to the version: a page that still has the quiz's version has
seen every question a save has written.

**Sums.** `MapThenSumSet` is a recursion that takes elements in the order `CHOOSE` gives, and the prover has no induction. `SumLemmas`
argues from a smallest counterexample instead (`SmallestSet`, from the library's theorem that strict inclusion of finite sets is
well-founded): a sum exists (`SumExists`), two of them agree (`SumsAgree`), it may take any element first (`SumTakesAny`), and so
one more element adds its own value (`TotalAdds`). `PointsTotal` and `AmountTotal` carry that over to the sums in the models.

Assumptions on constants say that sentinels are not members of the sets (`None`, `NoKey`, `NoCopy`, `NoRoster`, `Imported`, `Gone`; `NoneAssumption` in
`RoomClosing`; no code is called `admin` or `expiry`), that a quiz and the results' players are finite, that numbers are numbers and prices positive,
and, for the checkout, which ledger keys there are.

### Only model-checked

- Liveness (`MoneyReachesLedger`, `ExactMoneyActivates`, `CapturedMoneyActivates`, `GatesFollowTheRow`): fairness and ENABLED
  are out of the prover's reach.
- `DowngradesTakeLapsedTerms`, which is violated, and the counterexamples of section 5.

## 7. What is not modelled

- The mail queue and its lanes: its jobs change nothing another component reads.
- Rate limits and captcha: one atomic script, or one call of a service, per request.
- Licences: warning and delivery mails, the readiness report, history and its exports, the editing of plan limits. An order only
  counts its codes; that a minted code has the order's plan and term is `Mint`'s assumption.
- Lobby: PIN collisions (a refusal), privacy flag, listings. Rooms of several hosts share nothing but the PIN.
- Quiz editing: the content of questions, themes, uploads, template edits and visibility, the tie to running rooms (hazard list).
- Results: per-question statistics, which are sums over the answer log.
- Accounts: roles' permissions, the counters of wrong codes, password hashing, the check of access tokens per request.
- The hourly cap on new orders (a refusal, in `EndCheckout`); parsing of transfer contents, abstracted to the code they name; an amount in
  SePay's answer to the poll that does not parse, which is recorded as `ignored`.
- Scoring by the clock, abstracted to a set of points; poll questions; display payloads.
- Broadcasts, except `game:ended`: they carry no state the server reads back.
- Notifications, the bot, digest, audit log, uploads, configuration, i18n, themes: reporting, text and I/O.
- `bin/`, `scripts/`, `server.log` and the compiled `api-gateway` are artefacts.
