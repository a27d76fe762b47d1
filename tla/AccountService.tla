--------------------------- MODULE AccountService ---------------------------
(***************************************************************************)
(* Accounts, cards, PINs and default accounts: the requests of             *)
(* account-service, and what transaction-service does to the same          *)
(* documents.                                                              *)
(*                                                                         *)
(* A request holds a copy of the account it has read, and the copy of the  *)
(* user document its guard has read.  Of an account only the card, the PIN *)
(* and wrongPIN matter here, of a user only defaultAcc; Transfers has the  *)
(* balance and the limit, Users the rest of a user.                        *)
(*                                                                         *)
(* A request is numbered; its number names the account it opens, or the    *)
(* PIN it sets.                                                            *)
(***************************************************************************)
EXTENDS Integers, FiniteSets

CONSTANTS
    Members,        \* users, all logged in
    Holder,         \* the member who has an account when the model starts
    Cards,          \* card numbers
    FirstCard,      \* the card of that account
    Handlers,       \* slots for requests that are served at the same time
    Requests,       \* names of the requests clients make
    Choosers,       \* bound: members who write defaultAcc themselves
    MaxRequests,    \* bound: requests accepted in one behaviour
    MaxTries,       \* wrong PINs until an account is locked: 5 in the code
    Faults,         \* may a call fail, or the process crash?
    Nil             \* null and undefined

VARIABLES
    account,        \* the account documents, Nil before and after their life
    cards,          \* the numbers of the card documents
    defaultAcc,     \* user.defaultAcc
    job,            \* what each handler is doing, and the copies it holds
    links,          \* mailed links that reset the tries: of which account,
                    \* to which member
    otpTokens,      \* accounts for which a "forget PIN" token is out ...
    pinTokens,      \* ... and those for which it has been confirmed
    accepted        \* requests accepted so far

\* History variables.  No guard reads them.
VARIABLES
    opened,         \* by whom and with which card an account was opened
    lastPIN,        \* the PIN that was set last
    wrongs,         \* wrong PINs counted since the tries were last reset
    stale,          \* accounts whose document was replaced by an older copy
    cut,            \* half-done additions: cards without an account, and
                    \* members with an account that is not their default one
    chosen          \* members who have put a default account in by PATCH /user

serviceVars == <<account, cards, defaultAcc, job, links, otpTokens, pinTokens,
                 accepted>>
historyVars == <<opened, lastPIN, wrongs, stale, cut, chosen>>
vars == <<serviceVars, historyVars>>

-----------------------------------------------------------------------------
(* Data                                                                    *)

Numbers == 0 .. MaxRequests

\* The account that is there when the model starts has number 0.
Document == [userId : Members, card : Cards, PIN : Numbers, wrongPIN : Nat]

ASSUME AccountServiceAssumption ==
    /\ Holder \in Members
    /\ FirstCard \in Cards
    /\ Choosers \subseteq Members
    /\ MaxRequests \in Nat
    /\ MaxTries \in Nat \ {0}
    /\ Faults \in BOOLEAN
    /\ Nil \notin Numbers \cup Members \cup Cards \cup Document
                   \cup [user : Members, card : Cards]
    /\ IsFiniteSet(Handlers)
    /\ Handlers # {}

Steps == {"idle", "addCard", "addAccount", "writeUser", "tries", "lock",
          "mailLink", "count", "savePIN", "remove", "pay", "setPIN"}

Ops == {"add", "getBalance", "updatePIN", "delete", "pay", "updateAccount",
        "changeDefault", "forgetPIN", "none"}

Idle == [op |-> "none", pc |-> "idle", no |-> 0, user |-> Nil, card |-> Nil,
         acc |-> Nil, copy |-> Nil, right |-> FALSE, default |-> Nil]

Job == [op : Ops, pc : Steps, no : Numbers, user : Members \cup {Nil},
        card : Cards \cup {Nil}, acc : Numbers \cup {Nil},
        copy : Document \cup {Nil}, right : BOOLEAN,
        default : Numbers \cup {Nil}]

Open(a) == account[a] # Nil

Init ==
    /\ account = [a \in Numbers |->
         IF a = 0 THEN [userId |-> Holder, card |-> FirstCard, PIN |-> 0,
                        wrongPIN |-> 0]
                  ELSE Nil]
    /\ cards = {FirstCard}
    /\ defaultAcc = [u \in Members |-> IF u = Holder THEN 0 ELSE Nil]
    /\ job = [h \in Handlers |-> Idle]
    /\ links = {}
    /\ otpTokens = {}
    /\ pinTokens = {}
    /\ accepted = 0
    /\ opened = [a \in Numbers |->
         IF a = 0 THEN [user |-> Holder, card |-> FirstCard] ELSE Nil]
    /\ lastPIN = [a \in Numbers |-> 0]
    /\ wrongs = [a \in Numbers |-> 0]
    /\ stale = {}
    /\ cut = {}
    /\ chosen = {}

-----------------------------------------------------------------------------
(* Requests: what a handler does up to the await after its first reads     *)

Accept(op) ==
    /\ op \in Requests
    /\ accepted < MaxRequests
    /\ accepted' = accepted + 1

Start(h, j) ==
    /\ job[h].pc = "idle"
    /\ job' = [job EXCEPT ![h] = j]

Request(op, u, pc) ==
    [Idle EXCEPT !.op = op, !.pc = pc, !.user = u, !.no = accepted + 1,
                 !.default = defaultAcc[u]]

\* POST /account: checkCardExist.
Add(h) ==
    /\ Accept("add")
    /\ \E u \in Members, c \in Cards \ cards :
         Start(h, [Request("add", u, "addCard") EXCEPT !.card = c])

\* A request that asks for a PIN, and has read the account to check it on.
AskPIN(h, op, a, u) ==
    /\ Accept(op)
    /\ Open(a)
    /\ \E right \in BOOLEAN :
         Start(h, [Request(op, u, "tries") EXCEPT
                     !.acc = a, !.copy = account[a], !.right = right])

\* POST /account/balance/:id, of any account.
GetBalance(h) == \E a \in Numbers, u \in Members : AskPIN(h, "getBalance", a, u)

\* PATCH /account/PIN/:id, of an own account.
UpdatePIN(h) ==
    \E a \in Numbers : Open(a) /\ AskPIN(h, "updatePIN", a, account[a].userId)

\* DELETE /account/:id, of any account.
Delete(h) == \E a \in Numbers, u \in Members : AskPIN(h, "delete", a, u)

\* Transaction-service: POST /send-money and /confirm-receive.
Pay(h) ==
    \E a \in Numbers : Open(a) /\ AskPIN(h, "pay", a, account[a].userId)

\* Transaction-service reads an account that it will write back and for which
\* it asks no PIN: the receiver of a payment, a refund, the limit hook.
KeepAccount(h) ==
    /\ Accept("updateAccount")
    /\ \E a \in Numbers :
         /\ Open(a)
         /\ Start(h, [Request("updateAccount", account[a].userId, "pay") EXCEPT
                        !.acc = a, !.copy = account[a]])

\* Slip: the account need not be one of the user.
ChangeDefaultAny(h) ==
    /\ Accept("changeDefault")
    /\ \E a \in Numbers, u \in Members :
         /\ defaultAcc[u] \notin {Nil, a}
         /\ Open(a)
         /\ Start(h, [Request("changeDefault", u, "writeUser") EXCEPT
                        !.default = a])

\* PATCH /transaction/change-default.
ChangeDefault(h) ==
    /\ Accept("changeDefault")
    /\ \E a \in Numbers, u \in Members :
         /\ defaultAcc[u] \notin {Nil, a}
         /\ Open(a)
         /\ account[a].userId = u
         /\ Start(h, [Request("changeDefault", u, "writeUser") EXCEPT
                        !.default = a])

\* PATCH /account/forgetPIN with a confirmed token for an own account.
ForgetPIN(h) ==
    /\ Accept("forgetPIN")
    /\ \E a \in pinTokens :
         /\ Open(a)
         /\ Start(h, [Request("forgetPIN", account[a].userId, "setPIN") EXCEPT
                        !.acc = a])

Submit(h) ==
    /\ \/ Add(h)
       \/ GetBalance(h)
       \/ UpdatePIN(h)
       \/ Delete(h)
       \/ Pay(h)
       \/ KeepAccount(h)
       \/ ChangeDefault(h)
       \/ ForgetPIN(h)
    /\ UNCHANGED <<account, cards, defaultAcc, links, otpTokens, pinTokens,
                   historyVars>>

-----------------------------------------------------------------------------
(* Requests that are done with one step                                    *)

\* POST /account/sendForgetPINOTP/:id: the code is put into the guard's copy
\* of the user, which is dropped; the mail and the token go out.
SendOTP ==
    /\ Accept("sendOTP")
    /\ \E a \in Numbers : Open(a) /\ otpTokens' = otpTokens \cup {a}
    /\ UNCHANGED <<account, wrongs, pinTokens>>

\* POST /account/confirmOTPforgetPIN: no stored code, so none to compare with.
ConfirmOTPForgetPIN ==
    /\ Accept("confirmOTPForgetPIN")
    /\ \E a \in otpTokens : pinTokens' = pinTokens \cup {a}
    /\ UNCHANGED <<account, wrongs, otpTokens>>

\* GET /account/verifyAccountUser/:token, as often as one likes.
ResetTries ==
    /\ Accept("resetTries")
    /\ \E l \in links :
         /\ Open(l.acc)
         /\ account' = [account EXCEPT ![l.acc].wrongPIN = 0]
         /\ wrongs' = [wrongs EXCEPT ![l.acc] = 0]
    /\ UNCHANGED <<otpTokens, pinTokens>>

Answer ==
    /\ SendOTP \/ ConfirmOTPForgetPIN \/ ResetTries
    /\ UNCHANGED <<cards, defaultAcc, job, links, opened, lastPIN, stale, cut, chosen>>

\* User-service: PATCH /user, of whose body nothing is stripped, with an id for
\* defaultAcc.  Nobody asks whose account it is, or whether there is one.
UpdateUser ==
    /\ Accept("updateUser")
    /\ \E u \in Choosers, a \in Numbers :
         /\ defaultAcc' = [defaultAcc EXCEPT ![u] = a]
         /\ chosen' = chosen \cup {u}
    /\ UNCHANGED <<account, cards, job, links, otpTokens, pinTokens, opened,
                   lastPIN, wrongs, stale, cut>>

-----------------------------------------------------------------------------
(* Adding an account                                                       *)

At(h, step) == job[h].pc = step

Goto(h, step) == job' = [job EXCEPT ![h].pc = step]

End(h) == job' = [job EXCEPT ![h] = Idle]

\* Slip: nothing but checkCardExist keeps a card number from coming twice.
AddCardAgain(h) ==
    /\ At(h, "addCard")
    /\ cards' = cards \cup {job[h].card}
    /\ Goto(h, "addAccount")
    /\ UNCHANGED <<account, defaultAcc, historyVars>>

\* addCard: cardNo has a unique index.
AddCard(h) ==
    /\ At(h, "addCard")
    /\ IF job[h].card \in cards
         THEN End(h) /\ UNCHANGED cards
         ELSE /\ cards' = cards \cup {job[h].card}
              /\ Goto(h, "addAccount")
    /\ UNCHANGED <<account, defaultAcc, historyVars>>

\* Slip: of a user without a default account, none becomes the default one.
AddAccountOnly(h) ==
    /\ At(h, "addAccount")
    /\ LET j == job[h]
       IN  /\ account' = [account EXCEPT ![j.no] =
                [userId |-> j.user, card |-> j.card, PIN |-> j.no,
                 wrongPIN |-> 0]]
           /\ opened' = [opened EXCEPT ![j.no] = [user |-> j.user, card |-> j.card]]
           /\ lastPIN' = [lastPIN EXCEPT ![j.no] = j.no]
    /\ End(h)
    /\ UNCHANGED <<cards, defaultAcc, wrongs, stale, cut, chosen>>

\* addAccount: a user whose copy names no default account gets this one.
AddAccount(h) ==
    /\ At(h, "addAccount")
    /\ LET j == job[h]
       IN  /\ account' = [account EXCEPT ![j.no] =
                [userId |-> j.user, card |-> j.card, PIN |-> j.no,
                 wrongPIN |-> 0]]
           /\ IF j.default = Nil
                THEN job' = [job EXCEPT ![h].pc = "writeUser",
                                        ![h].default = j.no]
                ELSE End(h)
           /\ opened' = [opened EXCEPT ![j.no] = [user |-> j.user, card |-> j.card]]
           /\ lastPIN' = [lastPIN EXCEPT ![j.no] = j.no]
    /\ UNCHANGED <<cards, defaultAcc, wrongs, stale, cut, chosen>>

\* updateUser with the whole user: a defaultAcc that is undefined is not in
\* the JSON body, and the stored one stays.
WriteDefault(u, a) ==
    defaultAcc' = IF a = Nil THEN defaultAcc ELSE [defaultAcc EXCEPT ![u] = a]

WriteUser(h) ==
    /\ At(h, "writeUser")
    /\ WriteDefault(job[h].user, job[h].default)
    /\ End(h)
    /\ UNCHANGED <<account, cards, historyVars>>

-----------------------------------------------------------------------------
(* checkPIN                                                                *)

\* What comes after the right PIN.
AfterPIN(op) == CASE op = "getBalance" -> "idle"
               [] op = "updatePIN"  -> "savePIN"
               [] op = "delete"     -> "remove"
               [] op = "pay"        -> "pay"

\* Slip: one try too many.
LockedLate(doc) == doc.wrongPIN > MaxTries

Locked(doc) == doc.wrongPIN >= MaxTries

\* checkNoOfTries, asked of transaction-service, judges the copy; a payment
\* sends no authTypes along and ends in a TypeError instead of the mail.
Tries(h) ==
    /\ At(h, "tries")
    /\ LET j == job[h]
       IN  CASE Locked(j.copy) /\ j.op = "pay" -> End(h)
             [] Locked(j.copy) /\ j.op # "pay" -> Goto(h, "lock")
             [] ~ Locked(j.copy) /\ ~ j.right -> Goto(h, "count")
             [] ~ Locked(j.copy) /\ j.right ->
                  IF AfterPIN(j.op) = "idle" THEN End(h) ELSE Goto(h, AfterPIN(j.op))
    /\ UNCHANGED <<account, cards, defaultAcc, links, historyVars>>

\* The user document is written back with an element for the mail ...
Lock(h) ==
    /\ At(h, "lock")
    /\ WriteDefault(job[h].user, job[h].default)
    /\ Goto(h, "mailLink")
    /\ UNCHANGED <<account, cards, links, historyVars>>

\* ... and the mail goes out, each time, to the user who asked.
MailLink(h) ==
    /\ At(h, "mailLink")
    /\ links' = links \cup {[acc |-> job[h].acc, to |-> job[h].user]}
    /\ End(h)
    /\ UNCHANGED <<account, cards, defaultAcc, historyVars>>

\* Slip: wrongPIN counts the tries that are left.
CountDown(h) ==
    /\ At(h, "count")
    /\ LET a == job[h].acc
       IN  IF Open(a)
             THEN /\ account' = [account EXCEPT ![a].wrongPIN = @ - 1]
                  /\ wrongs' = [wrongs EXCEPT ![a] = @ + 1]
             ELSE UNCHANGED <<account, wrongs>>
    /\ End(h)
    /\ UNCHANGED <<cards, defaultAcc, links, opened, lastPIN, stale, cut, chosen>>

\* A wrong PIN: $inc of the stored wrongPIN.
Count(h) ==
    /\ At(h, "count")
    /\ LET a == job[h].acc
       IN  IF Open(a)
             THEN /\ account' = [account EXCEPT ![a].wrongPIN = @ + 1]
                  /\ wrongs' = [wrongs EXCEPT ![a] = @ + 1]
             ELSE UNCHANGED <<account, wrongs>>
    /\ End(h)
    /\ UNCHANGED <<cards, defaultAcc, links, opened, lastPIN, stale, cut, chosen>>

\* Both ways of storing a new PIN; a document that is gone is not written.
WritePIN(h) ==
    LET j == job[h]
    IN  IF Open(j.acc)
          THEN /\ account' = [account EXCEPT ![j.acc].PIN = j.no]
               /\ lastPIN' = [lastPIN EXCEPT ![j.acc] = j.no]
          ELSE UNCHANGED <<account, lastPIN>>

\* Slip: updatePIN writes the whole copy, like updateAccount.
SavePINWhole(h) ==
    /\ At(h, "savePIN")
    /\ LET j == job[h]
       IN  IF Open(j.acc)
             THEN /\ account' = [account EXCEPT ![j.acc] = [j.copy EXCEPT !.PIN = j.no]]
                  /\ lastPIN' = [lastPIN EXCEPT ![j.acc] = j.no]
             ELSE UNCHANGED <<account, lastPIN>>
    /\ End(h)
    /\ UNCHANGED <<cards, defaultAcc, links, opened, wrongs, stale, cut, chosen>>

\* updatePIN: the save of a loaded document writes the PIN alone.
SavePIN(h) ==
    /\ At(h, "savePIN")
    /\ WritePIN(h)
    /\ End(h)
    /\ UNCHANGED <<cards, defaultAcc, links, opened, wrongs, stale, cut, chosen>>

\* forgetPIN: wrongPIN stays as it is.
SetPIN(h) ==
    /\ At(h, "setPIN")
    /\ WritePIN(h)
    /\ End(h)
    /\ UNCHANGED <<cards, defaultAcc, links, opened, wrongs, stale, cut, chosen>>

\* deleteAccount: the card stays; of the default account the user forgets the
\* id, and sends the rest of the copy back.
Remove(h) ==
    /\ At(h, "remove")
    /\ LET j == job[h]
       IN  /\ account' = [account EXCEPT ![j.acc] = Nil]
           /\ IF j.default = j.acc
                THEN job' = [job EXCEPT ![h].pc = "writeUser",
                                        ![h].default = Nil]
                ELSE End(h)
    /\ UNCHANGED <<cards, defaultAcc, links, historyVars>>

\* Slip: updateAccount makes the document that it does not find.
PutBackUpserted(h) ==
    /\ At(h, "pay")
    /\ LET a == job[h].acc
       IN  /\ account' = [account EXCEPT ![a] = job[h].copy]
           /\ stale' = IF account[a] = job[h].copy THEN stale ELSE stale \cup {a}
    /\ End(h)
    /\ UNCHANGED <<cards, defaultAcc, links, opened, lastPIN, wrongs, cut, chosen>>

\* updateAccount: PIN and wrongPIN go back to what the copy says.
PutBack(h) ==
    /\ At(h, "pay")
    /\ LET j == job[h]
       IN  IF Open(j.acc)
             THEN /\ account' = [account EXCEPT ![j.acc] = j.copy]
                  /\ stale' = IF account[j.acc] = j.copy
                                THEN stale ELSE stale \cup {j.acc}
             ELSE UNCHANGED <<account, stale>>
    /\ End(h)
    /\ UNCHANGED <<cards, defaultAcc, links, opened, lastPIN, wrongs, cut, chosen>>

Advance(h) ==
    /\ \/ AddCard(h) /\ UNCHANGED links
       \/ AddAccount(h) /\ UNCHANGED links
       \/ WriteUser(h) /\ UNCHANGED links
       \/ Tries(h)
       \/ Lock(h)
       \/ MailLink(h)
       \/ Count(h)
       \/ SavePIN(h)
       \/ SetPIN(h)
       \/ Remove(h)
       \/ PutBack(h)
    /\ UNCHANGED <<otpTokens, pinTokens, accepted>>

\* A call of the handler fails, or the process dies.
Abort(h) ==
    /\ Faults
    /\ ~ At(h, "idle")
    /\ End(h)
    /\ LET j == job[h]
       IN  cut' = CASE At(h, "addAccount") -> cut \cup {j.card}
                    [] At(h, "writeUser") /\ j.op = "add" -> cut \cup {j.user}
                    [] OTHER -> cut
    /\ UNCHANGED <<account, cards, defaultAcc, links, otpTokens, pinTokens,
                   accepted, opened, lastPIN, wrongs, stale, chosen>>

\* No request is being served, and clients may have none to make.
Rest ==
    /\ \A h \in Handlers : At(h, "idle")
    /\ UNCHANGED vars

Next ==
    \/ \E h \in Handlers : Submit(h) \/ Advance(h) \/ Abort(h)
    \/ Answer
    \/ UpdateUser
    \/ Rest

Spec == Init /\ [][Next]_vars

-----------------------------------------------------------------------------
(* Properties                                                              *)

\* Every variable holds what the code can put into it.
TypeOK ==
    /\ account \in [Numbers -> Document \cup {Nil}]
    /\ cards \subseteq Cards
    /\ defaultAcc \in [Members -> Numbers \cup {Nil}]
    /\ job \in [Handlers -> Job]
    /\ links \subseteq [acc : Numbers, to : Members]
    /\ otpTokens \cup pinTokens \cup stale \subseteq Numbers
    /\ accepted \in Numbers
    /\ opened \in [Numbers -> [user : Members, card : Cards] \cup {Nil}]
    /\ lastPIN \in [Numbers -> Numbers]
    /\ wrongs \in [Numbers -> Nat]
    /\ cut \subseteq Cards \cup Members
    /\ chosen \subseteq Members

\* The tries are judged on a copy and counted later, so that they can exceed
\* the maximum, but only by the requests that are served at the same time:
\* however often they are reset.  A payment that puts an older document back
\* can bring back a count at which nobody was judged.
TriesBounded ==
    \A a \in Numbers \ stale : Open(a) =>
      account[a].wrongPIN < MaxTries + Cardinality(Handlers)

\* PINs that are changed and tries that are counted or reset are field
\* updates that undo nothing of each other.  Only a payment or a refund that
\* puts an older document back can bring an old PIN or count back.
PINAndTriesKept ==
    \A a \in Numbers \ stale : Open(a) =>
      account[a].PIN = lastPIN[a] /\ account[a].wrongPIN = wrongs[a]

\* No two open accounts have the same card, though its number is looked up
\* long before it is stored.
CardsApart ==
    \A a, b \in Numbers : Open(a) /\ Open(b) /\ account[a].card = account[b].card
      => a = b

\* Adding an account leaves nothing half done: a stored card has had an
\* account, and who has an account has a default one, unless the request is
\* still being served or was cut off in between.
AddIsWhole ==
    /\ \A c \in cards \ cut :
         \/ \E a \in Numbers : opened[a] # Nil /\ opened[a].card = c
         \/ \E h \in Handlers : At(h, "addAccount") /\ job[h].card = c
    /\ \A a \in Numbers : Open(a) =>
         LET u == account[a].userId
         IN  \/ defaultAcc[u] # Nil
             \/ u \in cut
             \/ \E h \in Handlers : At(h, "writeUser") /\ job[h].user = u

\* A member's default account is one that the member has opened, be it open or
\* deleted since, whatever old copies of the user are written; PATCH /user alone
\* takes any other.
DefaultIsOwn ==
    \A u \in Members \ chosen : defaultAcc[u] # Nil =>
      opened[defaultAcc[u]] # Nil /\ opened[defaultAcc[u]].user = u

\* A deleted account stays deleted: no payment, refund, try or new PIN that has
\* read it before brings it back, and no request opens it a second time.
DeletedStays ==
    [][\A a \in Numbers : opened[a] # Nil /\ ~ Open(a) => account'[a] = Nil]_vars

\* The message of checkNoOfTries: the mail with the link goes to the address
\* that is linked with the account, that of its holder.
LinkGoesToHolder == \A l \in links : opened[l.acc].user = l.to

\* The message of checkCardExist: a card that is refused is linked with an
\* account, or is about to be.
RefusedCardIsLinked ==
    \A c \in cards :
      \/ \E a \in Numbers : Open(a) /\ account[a].card = c
      \/ \E h \in Handlers : At(h, "addAccount") /\ job[h].card = c
=============================================================================
