# InstaPay backend: specifications, checks and proofs

This directory holds TLA+ specifications of the InstaPay backend (`src/`), the
TLC configurations that check them on small instances, and theorems about them
that TLAPS proves for all values of the constants.

## 1. The system

Five NestJS services call each other over HTTP and keep their documents in
MongoDB. No call is part of a database transaction. There is no message queue,
no retry and no lock: every handler is an `async` function that waits for other
services between its reads and its writes, while other handlers run.

| Component | State it keeps | Operations | Talks to |
|---|---|---|---|
| transaction handlers (`transaction-service`) | transaction documents: parties, amount, status | send-money, request-receive-money, confirm-receive, reject-receive, request-refund, admin approve-refund, reject-refund, suspiciousTransaction; change-default; history (reads) | account store (read, write back), users (`findUser`, `updateUser`), notifications, mail |
| limit hook (`transaction.schema.ts`) | none of its own | after every save of a transaction: read the sender's account, add the amount to `limit.spent`, write the account | account store, notifications |
| account store (`account-service`) | account documents: Balance, limit (amount, spent, type, endDate), PIN hash, wrongPIN, owner | add, delete, updateLimit, updatePIN, getAccount, getAccountById, checkDefaultAcc, checkLimit, updateAccount (whole document) | users, notifications |
| PIN tries (`checkPIN`, `checkNoOfTries`, `resetTries`) | `wrongPIN` of the account, `authTypes` of the user | try a PIN, block after five tries, unlock through a mailed link, forgotten PIN | account and transaction services call each other |
| account and card lifecycle | cards, accounts, `user.defaultAcc` | create the card, then the account, then the default; delete | users |
| users, sessions and bans (`user-service`) | status Online, Offline or Suspended, defaultAcc, socketId | login, logout, change of password, ban, guards of the other services, `updateUserMicroservice` (whole document) | called by all |
| signup and one-time codes (`auth.service.ts`) | `authTypes`: one code per purpose with an expiry | signup, verifyEmail, resendOTP, preLogin, login, changeMail, forgotten password | mail |
| notifications | notification documents, isRead | one operation per event; the `post('save')` hook looks the user up and emits | users, gateway |
| realtime gateway | `socketId` of the user | connect, disconnect, emit | users |
| mail service | none | send one mail | SMTP |
| nginx, compose, Kubernetes | none | routes and containers | |

### What is hard

* **Stale copies.** `updateAccount` replaces the whole document by the copy the
  caller has read some awaits before. Two requests on one account can undo each
  other's changes, and a new limit, a wrong PIN count or a ban can be undone in
  the same way.
* **Check, then act.** The status of a transaction is judged on the loaded copy
  and saved last; in between both accounts are written.
* **Partial failure.** Debit, credit, save, hook and notification are separate
  calls. When one fails the handler ends and nothing is undone.
* **Order.** The debit comes before the first use of the payee's account; the
  check that one does not pay oneself comes after the payment.
* **Two documents for one fact.** `user.defaultAcc` outlives the account it
  names; `transaction.accSenderId` need not be the account that paid.

### What makes each component correct

* Transaction handlers: money is conserved; a payment is made once; a refund is
  made once for each request; a balance is not overdrawn; what a transaction
  says about money happened; whoever is debited for a payment sees it completed.
* Limit hook and account store: the spending of an account is what was paid out
  of it; it stays within the limit; concurrent use of different accounts
  disturbs nothing.
* PIN tries: a bound on wrong tries, whatever overlaps; a try that is counted, a
  reset and a new PIN are not undone.
* Lifecycle: no two accounts have one card; what an addition leaves behind is
  whole; the default account of a user is the user's own; a deleted account
  stays deleted.
* Users: a ban lasts. No request that begins after it makes the user Online.
* Codes: a code lets one request through, no one logs in without one, and a
  confirmed address is one to which a code was mailed.
* Notifications: an answer "done" means that the change is stored and everyone
  has been told; nobody hears of a payment that is not stored; a stored payment
  is told or its client gets an error; a notification goes to a connection opened
  in its recipient's name, and whoever is connected gets it.

`PROJECT.json` lists the hazards with the line at which each bites. Some of them
are how the code is, and no document promises otherwise: a request that is paid
and rejected at the same time ends as Failed; the hook of a payment may fail, and
its limit is never charged; the mailed login code need not be the stored one.
These are reachable in the models and have no property. Others have one that
names the case and holds outside it; the end of section 3 lists these cases.

## 2. Modules

Money, users, accounts and notifications are four state machines. They share
documents, but each field that matters belongs to one of them: balances and
limits to `Transfers`, PINs, tries, cards and default accounts to
`AccountService`, status, email and codes to `Users`, `socketId` to
`Notifications`. What one machine does to the documents of another is in both:
a payment that puts a whole account back is `Debit` in `Transfers` and `PutBack`
in `AccountService`; a service that puts a whole user back is `WriteBack` in
`Users`, `WriteDefault` in `AccountService` and `PutUserBack` in `Notifications`.
`PATCH /user` hands its whole body to `updateOne`: the DTO declares email and
password besides the mobile number, and `main.ts` strips nothing that it does not
declare. So a member can write any field of the own document, and each machine has
an `UpdateUser` for the fields it is about: `Users` for status, email, password,
confirmEmail and authTypes, `AccountService` for defaultAcc, `Notifications` for
socketId.

| Module | What it is |
|---|---|
| `AccountStore` | the account documents and default accounts; one operator per call to account-service |
| `Transfers` | the handlers of transaction-service, one action per await; properties that hold under all interleavings and failures |
| `Payments` | abstract specification: every operation on a transaction is atomic |
| `SerialTransfers` | `Transfers` with one request at a time: refinement of `Payments`, conservation, liveness |
| `Users` | the user documents, the requests of auth.service and user.service, guards and tokens |
| `AccountService` | accounts, cards, PINs, tries and default accounts; what transaction-service does to them |
| `Notifications` | callers, notification-service and the gateway, which fail independently of each other |
| `Deliveries` | abstract specification: what a client and those whom a request concerns are told, and when |
| `MCTransfers`, `MCUsers`, `MCAccountService`, `MCNotifications` | constants for TLC |
| `TransfersProofs` | the inductive type invariant of `Transfers`, proved |
| `TransfersSafety` | lemmas on what each action does to the job of its handler; `NoOverdraft`, and that transactions keep their terms, proved |
| `TransfersStages` | `StagesInOrder` and `RecordedMeansMoved`, proved |
| `TransfersMoney` | lemmas on sums over finite sets; `ExclusiveIsExact` and `MoneyAccounted`, proved |
| `SerialProofs` | refinement of `Payments`, `MoneyConserved`, `NoRepetition` and `SoleLimitKept`, proved for requests served one at a time |
| `UsersProofs` | every property of `Users` that the run `users` checks, proved |
| `AccountServiceProofs` | every property of `AccountService` that its run checks, proved |
| `NotificationsProofs` | every safety property of `Notifications`, and that it implements `Deliveries`, proved |

### Transfers: state and code

| Variable | Code |
|---|---|
| `account[a]` | document in the `accounts` collection (`account.schema.ts`): Balance, limit.spent, limit.amount; `Nil` once deleted |
| `defaultAcc[u]` | `user.defaultAcc` |
| `txn[t]` | transaction document; documents are numbered by the request that creates them |
| `job[h]` | one running handler: its name, the await it is at, and its local variables (transaction, accounts read) |
| `accepted` | number of requests so far, bounded by `MaxRequests` |
| `book`, `contended`, `trail` | history: balances as increments would leave them, accounts on which two uses of a copy overlapped, the writes of each payment that found a document (`Noted`). No guard reads them |

### Transfers: actions and code

A handler runs from one await to the next without being interrupted (Node runs
one callback at a time), so one action is what the code does between two awaits.
Awaits are merged where the order cannot matter: a read whose answer is only
tested and never written back (the owner check of a transaction, the account of
a receiver that is only looked up for its id, the PIN and limit checks, which
judge the copy that was sent to them) is taken together with the read before it.
An account can disappear but not come back, so such a test made earlier admits
every behaviour in which it is made later. In `ReqReceiveMoney` two ids are
read together that the code reads in two calls; neither is written back.

| Action | Code |
|---|---|
| `SendMoney`, `ReqReceiveMoney`, `ConfirmReceive`, `RejectReceive`, `RequestRefund`, `ApproveRefund`, `RejectRefund`, `SuspiciousTransaction`, `ChangeDefault` | the handlers of the same names up to the first await that matters |
| `ReadPayer`, `RefusePayer` | confirm-receive: read of the payer's account, balance and limit check on the copy |
| `FindPayee`, `ReadPayee` | `findUser`, then `checkDefaultAcc` of the payee |
| `Debit`, `Credit`, `PayeeMissing` | the two `updateAccount` of `sendMoney` and `confirmReceive`, and the TypeError on an empty payee |
| `ReadTo`, `ReadFrom`, `GiveBack`, `TakeBack` | approve-refund |
| `Record` | `create` or `save` of the transaction |
| `HookRead`, `HookWrite` | `post('save')` of the transaction |
| `SetDefaultAcc` | `changeDefaultAcc` |
| `Abort` | a failed call or a crash of the process, at any await |
| `SetLimit`, `Delete` | updateLimit and deleteAccount of account-service |

`Serve`, `SetLimit` and `Delete` are the disjuncts of `Next`; `Rest` lets the
system stand still when no request is being served.

### Transfers: abstractions

* Amounts are positive integers. DTOs and schema refuse amounts below 1; sums
  of fractions are not modelled.
* PIN checks, e-mails and notifications before a write are calls that may fail
  (`Abort`); after the last write they change no state of this model.
* Owners never change. Accounts are not added while the model runs.
* A default account changes by change-default only. That a member can put any id
  into defaultAcc by `PATCH /user` is in `AccountService`; here nobody does.
* `updateAccount` on a deleted account writes nothing and is no error
  (`findByIdAndUpdate`), so the request goes on to its next write.
* Who may call a handler is left out except where the code relates caller and
  data: confirm-receive is paid from an account of the user who was asked.
* `limit.endDate` is stored and never read by the code; the model has no clock.
* In `Delete` the read, the PIN check and `deleteOne` are one step; the guard
  `Deletable` bounds which accounts a run deletes.

### Users

| Variable | Code |
|---|---|
| `user[u]` | user document (`user.schema.ts`): status, confirmEmail, email, mobileNumber, password (the number of the request that set it), authTypes; `Nil` before signup |
| `job[h]` | a request: what it will save (`patch`), the body it will write (`body`), or the whole copy of a user that another service holds (`copy`) |
| `tokens` | the JWTs handed out. None expires |
| `clock` | time, for the expiry of codes |
| `mailed`, `reached`, `banned`, `crossed`, `stale`, `relisted`, `named`, `spent`, `reused`, `shared`, `unproven`, `rivals` | history |

An action per request (`Signup`, `VerifyEmail`, `ResendOTP`, `PreLogin`,
`Login`, `ChangeMail`, `ConfirmUpdateMail`, `SendForgetPassOTP`,
`ConfirmOTPPassword`, `ForgetPass`, `UpdateUser`, `UpdatePassword`, `Logout`,
`BannedUser`, and `KeepUser` for the guards of the other services) covers the
code up to the await after its first read; `FindMobile`, `FindEmail`, `Create`,
`Save`, `UpdateOne`, `CheckPassword`, `SetPassword` and `WriteBack` are the rest.

* A `Body` is what a client sends, of which nothing is stripped; `Bodies` bounds
  which ones a run has. `UpdateOne` sets every field of it: an address without a
  confirmation, a password as it is (which `compareSync` then refuses, unless it
  is the text of a hash), a status, elements with codes of the member's own
  (`Own`). In a signup `create` takes the body too, but for the fields the code
  sets itself (`password`, `authTypes`). The body's role is left out: it makes an
  admin, and the admins are outside the model.
* A service puts a user back as it was read, or with the `INVALID_PIN` element
  that `checkNoOfTries` pushes or prolongs (`PutBack`).

* Mongoose saves the fields a handler has modified, not the document. So a save
  is a `Patch` that is computed from the copy and applied to what is stored.
* An element of `authTypes` is written by its position in the copy. When an
  older array has been put back the position may be past the end (MongoDB fills
  up with null) or belong to another purpose: `SetAt` does both. A null element
  is a TypeError for the loops that meet it (`Readable`).
* The loops that compare a code let everyone pass who has no element for the
  purpose (`Passes`).
* `confirmOTPPassword` clears a code in its copy and never saves it; what it lets
  through is counted like the rest (`spent`, `reused`, `unproven`).
* The code and its mail come before the save; a mail that fails ends the
  request (`Abort`).
* Members are no admins, and `BannedUser` is any admin. Names and addresses are
  left out. A failed bcrypt comparison ends a request without effect and is
  left out, except in `CheckPassword`.

### AccountService

| Variable | Code |
|---|---|
| `account[a]` | account document: owner, card, PIN (the number of the request that set it), wrongPIN |
| `cards` | card documents |
| `defaultAcc[u]` | `user.defaultAcc` |
| `job[h]` | a request, with the account and the default account it has read |
| `links` | mails that reset the tries: of which account, to whom |
| `otpTokens`, `pinTokens` | tokens of a forgotten PIN |
| `opened`, `lastPIN`, `wrongs`, `stale`, `cut`, `chosen` | history |

`checkPIN` is common to five requests: `Tries` judges wrongPIN on the copy,
`Lock` and `MailLink` write the user back and mail the link, `Count` counts a
wrong PIN with `$inc`, `AfterPIN` goes on to what the request is for. In a
payment `Tries` ends a locked request with the TypeError of the code. `AddCard`,
`AddAccount` and `WriteUser` are the three writes of an addition. `WriteDefault`
writes a user as JSON, in which an undefined field is missing, so that a default
account is replaced and never unset. In `UpdateUser` a member puts any account
into the own document, also one of somebody else or none (`Choosers` bounds who
does). Balance and limit are in `Transfers`.

### Notifications

| Variable | Code |
|---|---|
| `saved` | requests whose transaction is saved |
| `notes`, `read` | notification documents, isRead |
| `job[h]`, `answer[n]` | the calling handler and what its client got |
| `call[n]` | the call in notification-service: recipients left, whether the document of the first is stored, and the id that its hook has read |
| `socket[s]` | connections, numbered in their order: the user named in the handshake, open, already told to user-service |
| `socketId[u]`, `kept[u]` | the id in the user document, and in a copy that another service holds |
| `asked`, `pushed`, `missed`, `disordered`, `claimed` | history |

`Tell`, `Save` and `Hook` are in the order the code has for each event
(`FirstStep`, `AfterHook`): payments, money requests and rejections save and
then tell, refunds tell and then save. Every save runs the hook of the
transaction, which tells the sender of a low balance. `StoreNote`,
`ReadRecipient` and `Emit` serve a call: the hook awaits the recipient's document
and emits afterwards to the id it has read. `Fail` and `Abort` break callee and
caller independently, so a call can go on without its caller. `Connect`,
`UpdateSocketId`, `Disconnect`, the write-back of users and `UpdateUser` are free
to interleave with all of it. The gateway takes the user of a connection from the
handshake and asks nobody: a connection stands for the user it names, whoever the
client is, customer or admin.
`requestRefund` is refused when there is no admin, so there is one.
`NotificationService.create` has no caller.

### Slips

Some definitions are preceded by one whose comment begins with "Slip". It is
the same definition with a plausible mistake in it (a dropped guard, a lost
answer, a wrong sign); with the slip in its place, a property must fail
(`PROJECT.json`, "mutants").

## 3. Runs

In the runs of `Transfers` alice owns `a1` (and `a2` where there are three
accounts) and bob owns `b1`.

| Run | Bounds | What it shows |
|---|---|---|
| `concurrent` | 2 handlers, 3 requests of any kind but suspiciousTransaction and changeDefault (both are in `serial`), accounts a1 and b1 with balance 1, amount 1, limit 2, b1 may be deleted, limits may be renewed, every call may fail; 1.7 million states | what becomes of money and records under all interleavings |
| `serial` | 1 handler, 4 requests, 3 accounts, amounts 1 and 2, no failures, no self payment | refinement of `Payments`, conservation, no repetition, the limit of a user's only account, and that a debit is followed by a credit and a record |
| `users` | a member and a newcomer, 2 emails, 2 mobile numbers, 2 requests at a time, 5 in all, every one may fail, codes valid until the one tick of the clock, two bodies (a mobile number; an address, a status, confirmEmail and an element together); 2.8 million states | what bans and codes are worth, which addresses are confirmed, and who can share a mobile number |
| `accounts` | 2 members, 3 cards, 2 requests at a time, 4 in all, every one may fail, `MaxTries` 1, one member who writes defaultAcc; 1.5 million states | PINs, tries, cards, deletions, default accounts |
| `notifications` | 2 customers, 2 admins, one request (a payment of one to the other, or to himself), 2 connections in the name of a customer or of an admin, one who is put back and one who writes socketId, failures on both sides; 0.5 million states | what an answer and a notification say of the transaction, and to which connection they go |
| `double_confirm` | 2 handlers, money requests and confirmations | counterexample to "a confirmed request is refused the second time" |
| `self_payment` | 1 handler, `SelfPay` | counterexample to conservation when sender and receiver are one |
| `limit` | 1 handler, alice has two accounts | counterexample to "a payment beyond the limit is refused" |
| `dangling_default` | 1 handler, bob may delete his default account | counterexample to "a debit is followed by a credit" |
| `confirmed_mail` | 1 handler, login and change of email | counterexample to "a confirmed address has been reached" |
| `link_holder` | 1 handler, tries on any account | counterexample to "the mail goes to the address linked with the account" |
| `deleted_card` | 1 handler, additions and deletions | counterexample to "a card that is refused is linked with an account" |

The bounds of `concurrent` are enough for two overlapping payments of one
account, for a confirmation racing a rejection or another confirmation, for a
refund racing a payment, and for a failure in each. Two handlers suffice for
every pair of requests; a third request is needed to have a transaction for the
other two to race on. In `serial` four requests are one payment, one refund
request, its decision and one more operation, or two payments and a refund; two
amounts tell a wrong amount from a right one.

In `users` five requests are preLogin, login, and three that race: a ban, a
write-back, a logout or a second login; or preLogin, login and a change of email
with its confirmation and one more. The one tick of the clock is the end of the
validity of a code: another may be asked for then, and the first still passes. That
an expired code is refused is left to random simulations of longer behaviours
(twelve requests, three ticks, depth 80), which met no violation, and to the
theorems, which hold for any clock. The two bodies take in every field that some
property depends on, in one write. In `accounts`, with one try until the
lock, four requests are a wrong try, the lock and its mail, a reset and a try
that was judged before it; or two additions that race, with two writes of an
older user; or a deletion with a payment, a new PIN and a default account. The
requests of `notifications` share nothing but the gateway, and each has a call of
its own: one request against two connections is the interesting instance, as one
can be made, told to user-service, or put back between the two halves of its hook.
The bounds on who connects, is put back, claims and reads (`Named`, `Kept`,
`Claimants`, `Readers`) give each of these to a user who is told first or second.
The safety properties are proved for any number and for all users.

The slots of handlers are interchangeable, so `concurrent`, `users` and
`accounts` use symmetry (`accounts` also of two cards); the runs with liveness
do not. Deadlock is checked in every run: `Rest` lets a system without requests
stand still, and no other state may.

### Properties of Transfers

* `NoOverdraft`: a balance is negative only on an account a refund was taken
  from. Stale writes can lose payments, but what they write is never below
  zero, because each debit is checked against the very copy it writes. This
  holds for every interleaving and failure.
* `ExclusiveIsExact`: on an account on which no two uses of a copy have
  overlapped, whole-document writes are as exact as increments. `contended`
  says when that is; the converse cases are the lost updates.
* `MoneyAccounted`: as long as no two uses of a copy have overlapped and no
  account was deleted, the stored balances together are less than at the start
  only if some payment has debited and not credited, and more only if some refund
  has repaid and not taken back. Both are two separate calls, and the second may
  never come; that crashes, refusals, new limits and the hook make and lose
  nothing is what is stated. It says nothing of overlapping requests, whose lost
  updates do make and lose money, nor of deletions, which do too.
* `RecordedMeansMoved`: a Send is recorded, and Success and Refunded are shown,
  only after the accounts that are still there were written. An account that was
  deleted after it was read is written no more, and nobody is told: the payment is
  recorded as a Success all the same.
* `StagesInOrder`: no credit without a debit and no claw-back without a refund
  paid, in every interleaving and crash, except where the account to be written
  first was deleted in the meantime: then the other write is made alone. No
  refund is paid that was not asked for.
* `ImplementsPayments`, `MoneyConserved`, `NoRepetition`: served one at a time,
  the handlers keep the atomic promise. The refinement mapping takes what the
  request in progress has moved back out of the balances (`Settled`); the
  atomic step is the save of the transaction.
* `SoleLimitKept`: the limit is judged on the paying account and charged, after
  the payment, to the account the transaction names. Where a user has one
  account the two are the same, and the limit holds for what was really paid
  out (`book`), not only for `limit.spent`. `WithinLimit`, without the
  condition, fails (run `limit`). In the run `serial` limits do not change; the
  theorem covers their renewal in the middle of a payment.
* `DebitSettles`: liveness of a payment under `FairSpec`.

### Properties of Users

* `BanLasts`: a banned member stays Suspended, but for two ways out: a login, a
  logout or a change of password that had judged the status before the ban was
  saved (`crossed`), and a service that puts an older document back (`stale`).
* `CodesAreOneTime`: the code of a forgotten password passes in
  `confirmOTPPassword` until it expires, because what that unsets is never saved.
  No other code lets two requests through, but for two that compared it before
  either saved (`shared`), a document put back (`stale`), and a member who has put
  elements in by `PATCH /user` (`relisted`).
* `LoginNeedsCode`: who has no element for a purpose passes the comparison. For
  login and signup there always is one: their tokens are handed out after a save
  that pushed it, and positional writes and documents put back do not take it
  away. `PATCH /user` can (`relisted`). For a change of email and a forgotten
  password a document put back can, too.
* `ConfirmedWasMailed`: a confirmed address is one to which a code was mailed, or
  one that the member has put in by `PATCH /user`, which leaves confirmEmail as it
  is (`named`); no other member's body or copy brings one in.
* `MobilesApart`: no index keeps mobile numbers apart, a lookup some awaits
  before the write does. It does so but for two requests that both look before
  one writes (`rivals`), and a document put back with the number of before.

### Properties of AccountService

* `TriesBounded`: the count is judged on a copy, so requests that overlap can
  exceed the maximum; they exceed it by less than their number, however often
  the tries are reset in between. Accounts whose document a payment or refund
  has put back are excluded: after a reset that can bring back any count.
* `PINAndTriesKept`: updates of PIN and tries undo nothing of each other.
* `CardsApart`, `AddIsWhole`, `DefaultIsOwn`: an addition is three writes with
  awaits in between, and users are written back from copies. Who has put a default
  account in by `PATCH /user` may have any (`chosen`).
* `DeletedStays`: payments, tries, resets and new PINs that have read an account
  before it was deleted write nothing after, and no addition takes its number. That
  `user.defaultAcc` goes on naming the deleted account is a finding
  (`dangling_default`).

### Properties of Notifications

* `OkMeansDone`, `NewsInOrder`: an answer and a notification are promises about
  the saved transaction; what the two services do to each other's failures must
  not break them.
* `ImplementsDeliveries`: `Deliveries` has no calls, handlers or failures. Its
  request has a sequence of those whom it concerns; they are told in that order,
  before the change is stored or after it; the change is stored while the client
  waits, or never; the client is answered once, and with success only if all is
  done. After an error the change is not made any more, while notes may still be
  (a call outlives its caller). The mapping reads `told` off the documents and
  leaves out the notes of a low balance.
* `PushesArePersonal`: between the read and the emit of a hook anything may
  happen to the id; what is emitted goes to a connection that names the recipient,
  or to one the recipient has put in (`claimed`). It does not say that the client
  behind the connection is that user: the code does not check it.
* `ConnectedIsReached`: a user whose newest connection is open and registered is
  missed in three ways only: the id was written after the hook had read it, an
  older id has taken its place (`disordered`), or the user has put one in
  (`claimed`).
* `StoredIsTold`: liveness.

### What the history variables leave out

Many properties hold but for a case that a history variable names. In that case
the code does go wrong, or at least makes no promise, and the property says that
it takes that case:

| Variable | Case | Hazard that is thereby left out |
|---|---|---|
| `contended` | two uses of a copy of one account overlap | the lost update of balance, spending and limit |
| deleted accounts | an account goes between the read and the write of it | one half of a payment or refund is made alone |
| `Users.stale` | another service puts an older user document back | the ban, the code or the number that is undone |
| `crossed` | a request had judged the status before the ban was saved | the login that undoes a ban |
| `shared` | two requests compared a code before either saved | both are let through |
| `confirmOTPPassword` | the code of a forgotten password | it passes until it expires |
| `rivals` | two requests looked a number up before either wrote | both get it |
| `relisted`, `named`, `chosen`, `claimed` | a member has written authTypes, email, defaultAcc or socketId by `PATCH /user` | whatever that field was to guarantee for the member |
| `AccountService.stale` | a payment or refund puts an older account back | the PIN and the tries that come back |
| `cut` | an addition fails half-way | a card without an account, a member without a default one |
| `disordered` | an older id replaces a newer one, or an id is written while a hook is about to emit | the notification that is missed |

### Fairness

`Transfers.FairSpec` has weak fairness of `Resume(h)` for each handler: a
handler whose awaited call is answered is resumed by the event loop. Nothing is
assumed of clients, of limits or of deletions, and no fairness is put on
failures. In `serial` calls do not fail, so each handler ends.

`Notifications.FairSpec` has weak fairness of `Resume(h)` and of `Serve(n)`,
the event loops of the calling service and of notification-service. Nothing
obliges a call to fail or a client to connect. Failures are on: `StoredIsTold`
holds because a failed call and a handler that dies both give the client an
error.

### Disagreements between code and what it says

Seven runs end in a counterexample (PROJECT.json, "findings"): a request that is
confirmed twice, a payment to oneself, a limit exceeded from a second account,
a payment to a user whose default account is gone, a new address confirmed by a
code that went to the old one, a mail that goes to somebody else than the
holder, and a card that stays linked with an account that is gone.

## 4. Proofs

All theorems hold for all values of the constants that satisfy the `ASSUME` of
the module: any finite number of handlers, any members, accounts, cards,
requests and connections. Those of `SerialProofs` are about one handler and
calls that do not fail (`Serially`), and say so.

### Transfers

`TransfersProofs`, from `StoreAssumption` and `TransferAssumption`:

* `TypeCorrect`: `Spec => []TypeInv`. `TypeOK` alone is not inductive: `Debit`
  writes `job[h].payer`, which must be a document and not `Nil`, and `Record`
  needs both accounts. `TypeInv` adds `JobOK`, which says for each step of a
  handler which of its fields are set.
* `TypesHold`: `Spec => []TypeOK`.

`TransfersSafety`, from the same:

* `Overdraft`: `Spec => []NoOverdraft`. A balance check judges a copy, and the
  copy is written two awaits later, when the stored balance may be anything. So
  `NoOverdraft` alone is not inductive: the argument is about the copies. The
  invariant `SafetyInv` adds
  * `SoundCopies`: until the debit, the copy of the payer covers the amount; a
    copy with a negative balance is of an account a refund was taken from; a
    refund is taken from the account its transaction names;
  * `OwnSlot`: a transaction is created by one handler, so that the account a
    refund is blamed on stays the one the transaction names;
  * `Phases`: payments and refunds are made by their own requests only.
* `TermsKept`: `Spec => [][KeepsTerms]_vars`, that no step changes the parties
  or the amount of a transaction. `Overdraft` needs it: `Clawed` must not be
  forgotten.

A new limit, a deletion and a stuttering step keep the invariant together
(`StoreSafety`): they leave the handlers alone and change no balance.

`TransfersStages`, from the same:

* `InOrder`: `Spec => []StagesInOrder`. That a payment is credited no more often
  than debited says nothing of a handler that is about to credit. The invariant
  counts those: `Backed` says that the handlers waiting to credit (any finite
  set of them) and the credits made are together no more than the debits, unless
  an account of the payer is gone, and the same of the two writes of a refund.
  Whose accounts a handler writes is in `KnowsOwners` and `OwnDefaults`.
* `RecordedIsMoved`: `Spec => []RecordedMeansMoved`. `Traced` says what a
  handler at each step has done, or has seen in the copy of the transaction it
  loaded; `Shown` what each status stands for. `Shown` has to allow for a
  refund that is rejected, which puts a transaction back to Success whether it
  was paid or not. The counters of `trail` never go down, so what one handler
  has done stays done whatever the others do (`TracedStays`).

`TransfersMoney`, from the same and `FinitelyManyAccounts`:

* `ExactWhereExclusive`: `Spec => []ExclusiveIsExact`. As long as an account is
  not contended, a copy of it that somebody holds is the stored document
  (`CopiesExact`), because two that use it at the same time contend for it.
* `MoneyIsAccounted`: `Spec => []MoneyAccounted`. `MoneyInv` says that the sum
  over all accounts of what increments would leave (`book`) is the opening
  balances and, for each transaction, its amount times the credits less the
  debits made for it (`Balanced`). The amount is that of the stored transaction
  or of the handler that has yet to save it; a handler that dies leaves neither,
  so the invariant says that some assignment of amounts exists (`Names`), and a
  transaction number that no request has had may still get any (`Unused`). With
  `StagesInv`, which bounds credits by debits for each transaction, the flow is
  at most zero for payments and at least zero for refunds: no account is gone, so
  the exceptions of `StagesInOrder` do not arise. No copies have overlapped either,
  so that by `ExactInv` the stored balances are those of `book`.

  The module proves what it needs of `SumFunction`: that it exists, is unique,
  and changes by the difference when one or two addends change. The community
  modules define it by recursion over a set, so the lemmas use well-founded
  induction on subsets of a finite set, stated as a fact about sets.

`SerialProofs`, from the same and `Serially` (one handler, no failures, no
deletions, nobody pays himself):

* `Refinement`: `Serially /\ Spec => ImplementsPayments`. `SerialInv` adds to
  `SafetyInv` that default accounts are of their users, that the parties of a
  transaction are two users, and what the handler knows at each step (`Ready`):
  that its copies show the balances that are stored, and its transaction the
  status it was loaded with. `InFlight` is what a request has moved before it is
  saved; a step up to the save leaves `Settled` alone, and the save is the step
  of `Payments`, which moves it. Limits may change at any time; in the run
  `serial` they do not.
* `Conservation`: `Serially /\ Spec => []MoneyConserved`. By `Refinement` the
  settled balances change only in steps of `Payments`, and each of them adds to
  one account what it takes from another (`PaymentsConserve`).
* `SoleLimitHolds`: `Serially /\ Spec => []SoleLimitKept`. `limit.spent` lags
  behind what was paid out by the payment in progress, and the limit may be
  renewed before it is charged. `LimitInv` says that the stored document
  (`LimitOK`), and the copy that is going to be written over it (`HeldCovers`),
  cover what was paid out and what the request has taken and not charged yet
  (`Owed`), and that the hook charges the account that paid (`ChargesPayer`).
* `NothingTwice`: `Serially /\ Spec => []NoRepetition`. `OnceInv` says that what
  is still to be paid has not been paid, except by the request that is about to
  save it.

### Users

`UsersProofs`, from `UsersAssumption`, proves every property of the run `users`.
A request is described once: `SubmitBegins` says of all of them that they begin
with what is stored (`Begun`, `Reads`, `Mails`), and the invariants are proved
from that, not from each request anew.

* `UserTypes`: `TypeInv` is `TypeOK`, what a request knows at each step
  (`JobOK`), that only a newcomer signs up and that requests have their own
  numbers (`PlacesOK`), and that every code in a document, a copy or a request
  was mailed for its member (`MailsOK`).
* `BansLast`: `BanInv`. No request that writes a status is under way for a
  banned member, unless the ban has noted it (`crossed`). New ones find the
  member suspended.
* `ConfirmedIsMailed`: `AddressInv` says of every place where an address waits
  to be written (the token of a change, the patch of a request, the copy that
  another service holds) that it was mailed to for that member, or put in by the
  member.
* `LoginsNeedCodes`: `ElementInv`. Whoever has a token with which a code may be
  entered has the element it is compared with (`TokenElements`). Positional
  writes keep the elements; a document that is put back keeps those for signup
  and login, because the request that copied it had been logged in
  (`HeldElements`). Members who have replaced the elements are left out, and only
  they enter codes of their own (`OwnInv`).
* `CodesHoldOnce`: `OneTimeInv`. The codes in a document are apart, the code of
  a running request is in no document yet (`FreshInv`), and a request clears the
  very place where its code is (`PlaceInv`), although that place was computed
  from a copy. Codes are in the elements they were mailed for (`ForInv`), so that
  only those of a forgotten password get to `confirmOTPPassword`. So any other
  spent code is gone (`SpentInv`).
* `MobilesStayApart`: `MobileInv` adds to the property that who has the number
  of a request that has looked it up got it since: then the request's member is a
  rival, or that document was put back.

### AccountService

`AccountServiceProofs`, from `AccountServiceAssumption`, proves every property
of the run `accounts`. Each invariant is about what is on its way:

* `AccountTypes`: `TypeInv` is `TypeOK` and, for each step, the fields that are
  set.
* `TriesAreBounded`: a try that was judged and is not counted yet is room that
  is taken. `TriesInv` says that the count and the tries awaited (`Awaited`)
  together stay within `MaxTries - 1` and one for each handler. The finiteness
  of `Handlers` is used here.
* `CardsAreApart`, `DefaultsAreOwn`: `OwnerInv`. The owner and the card of an
  account never change (`HolderKept`), so a copy that is put back agrees with
  what is stored (`CopiesOwn`); a card is on its way to one account only
  (`CardsOnce`), and so is the number of an account (`NumberedOnce`).
* `PINsAndTriesAreKept`: `PINInv`.
* `DeletedAccountsStay`: an action property. A step that writes an account finds
  it or opens it, and the number of an account to be opened has opened none
  (`NumberedOnce`).
* `AddingIsWhole`: `WholeInv` adds what a request that is about to write the
  default account has seen (`WaitOK`).

### Notifications

`NotificationsProofs`, from `NotificationsAssumption`:

* `NotificationTypes`: `TypeInv` adds which steps have a request, and that a
  call that stores or pushes has a recipient left.
* `PushesStayPersonal`, `ConnectedAreReached`: `SocketInv`. Every id of a user,
  stored, kept in a copy or read by a hook, is of a connection that names the
  user, unless the user has claimed one (`IdsOwn`); a user whose ids came in order
  has the latest one stored (`LatestKnown`), and the one that a hook has read is
  still that (`ReadKnown`).
* `AnswersHold`, `NewsIsInOrder`: `NewsInv` says what each step of a handler and
  of its call has done already (`Progress`, `CallProgress`), that a call serves
  one handler (`ServingOK`), and that the numbers of requests to come are
  untouched (`Untouched`).
* `Delivers`: `Spec => ImplementsDeliveries`. `TurnInv` adds that a call has told
  all recipients before those that are left, which are the last of the sequence
  (`InTurn`), and that a request that is being served has not been answered.
  Every step of a handler makes a call, saves or answers (`Serves`): the guards
  of `Store` and `Answer` follow from `NewsInOrder` and `OkMeansDone` after the
  step. A step of notification-service that stores a note of the news is `Tell`;
  all else does not show.

### How the proofs are laid out

They go by action: lemmas for starting a request, for ending one and for each
kind of write, then one step per disjunct of `Next`, and a last step that puts
the three facts of an inductive invariant together.

Only model-checked, because liveness under fairness is out of the prover's
reach: `DebitSettles` and `StoredIsTold`.

## 5. Not modelled

* Banks: a constant collection that is only read.
* The mail service: it keeps no state. What matters is to whom a code or a link
  goes, which `Users` and `AccountService` record, and that the call may fail.
* Proxy and deployment: configuration. That a service runs in several replicas
  changes nothing in the models, where requests of one service interleave at
  every await as those of two replicas do, except for the gateway: its sockets
  live in one process, and the model has one.
* Reads: history, lists of transactions, accounts, notifications and users.
* Fractions of amounts, names and addresses, the wording of messages, hashes and
  token signatures.
