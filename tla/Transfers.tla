------------------------------ MODULE Transfers ------------------------------
(***************************************************************************)
(* The request handlers of transaction-service.                            *)
(*                                                                         *)
(* A handler runs to its next await and then waits for the answer of       *)
(* account-service, user-service or MongoDB while other handlers run.  One *)
(* action below is one such stretch.  What a handler has read it keeps in  *)
(* its own memory (job[h].payer, job[h].payee), so each guard judges the   *)
(* copy, and each write stores the copy.                                   *)
(*                                                                         *)
(* A handler slot is one request being served; a crash of the process or a *)
(* failed call ends the handler and undoes nothing.                        *)
(***************************************************************************)
EXTENDS AccountStore, Functions, FiniteSets

CONSTANTS
    Handlers,       \* slots for requests that are served at the same time
    Amounts,        \* amounts clients ask for
    Requests,       \* names of the handlers clients call
    MaxRequests,    \* bound: requests accepted in one behaviour
    Deletable,      \* accounts their owner may delete
    SelfPay,        \* may a request name its own sender as the other party?
    Faults          \* may a call fail, or the process crash?

VARIABLES
    txn,            \* the transaction documents, Nil until created
    job,            \* what each handler is doing, and the copies it holds
    accepted        \* requests accepted so far; also numbers transactions

\* History variables.  No guard reads them.
VARIABLES
    book,           \* what each account would hold had every balance and
                    \* spent update been an increment of the stored value
    contended,      \* accounts that two uses of a copy have overlapped on
    trail           \* how often each step of a payment has written an account

handlerVars == <<txn, job, accepted>>
historyVars == <<book, contended, trail>>
vars == <<storeVars, handlerVars, historyVars>>

-----------------------------------------------------------------------------
(* Data                                                                    *)

Txns == 1 .. MaxRequests

Statuses ==
    {"Success", "Pending", "Failed", "Refunding", "Refunded", "Suspicious"}

Transaction ==
    [type : {"Send", "Receive"}, status : Statuses,
     from : Accounts, to : Accounts, amount : Amounts]

ASSUME TransferAssumption ==
    /\ Amounts \subseteq Nat \ {0}
    /\ MaxRequests \in Nat
    /\ Deletable \subseteq Accounts
    /\ SelfPay \in BOOLEAN
    /\ Faults \in BOOLEAN
    /\ Nil \notin Transaction

\* A collection holds finitely many documents.
ASSUME FinitelyManyAccounts == IsFiniteSet(Accounts)

\* The status each handler saves.  A sendMoney takes the schema's default.
Outcome ==
    [sendMoney             |-> "Success",
     reqReceiveMoney       |-> "Pending",
     confirmReceive        |-> "Success",
     rejectReceive         |-> "Failed",
     requestRefund         |-> "Refunding",
     approveRefund         |-> "Refunded",
     rejectRefund          |-> "Success",
     suspiciousTransaction |-> "Suspicious"]

\* The handlers that save a transaction.
Ops == DOMAIN Outcome

\* Slip: the two types are mixed up.
TypesSwapped == [sendMoney |-> "Receive", reqReceiveMoney |-> "Send"]

\* Those that create it, and the type they give it.
TypeOf == [sendMoney |-> "Send", reqReceiveMoney |-> "Receive"]

Creating == DOMAIN TypeOf

Steps ==
    {"idle", "readPayer", "findPayee", "readPayee", "debit", "credit",
     "readTo", "readFrom", "giveBack", "takeBack",
     "record", "hookRead", "hookWrite", "setDefault"}

Idle ==
    [op |-> "none", pc |-> "idle", tx |-> 0, amount |-> 0, peer |-> Nil,
     src |-> Nil, dst |-> Nil, payer |-> Nil, payee |-> Nil]

Job ==
    [op : Ops \cup {"changeDefault", "none"},
     pc : Steps, tx : 0 .. MaxRequests, amount : Amounts \cup {0},
     peer : Users \cup {Nil},
     src : Accounts \cup {Nil}, dst : Accounts \cup {Nil},
     payer : Doc \cup {Nil}, payee : Doc \cup {Nil}]

\* drawn, paid: debits and credits of a payment that found a document to write;
\* repaid, clawed: the two halves of a refund; disputed: refund requests recorded.
TrailEntry ==
    [drawn : Nat, paid : Nat, repaid : Nat, clawed : Nat, disputed : Nat]

NoTrail == [drawn |-> 0, paid |-> 0, repaid |-> 0, clawed |-> 0, disputed |-> 0]

\* The balance and the spending an account should show, and what has been paid
\* out of it since its limit was set.
BookEntry == [bal : Int, spent : Nat, out : Nat]

\* Slips: the amount is not taken off, or not put on; the limit is given back,
\* not used up.
Undebited(doc, n)  == doc
Uncredited(doc, n) == doc
Refilled(doc, n)  == [doc EXCEPT !.spent = @ - n]

Debited(doc, n)  == [doc EXCEPT !.bal = @ - n]
Credited(doc, n) == [doc EXCEPT !.bal = @ + n]
Charged(doc, n)  == [doc EXCEPT !.spent = @ + n]

-----------------------------------------------------------------------------
(* Which accounts a handler holds a copy of that it is going to write back *)

HoldsPayer(j) ==
    j.pc \in {"findPayee", "readPayee", "debit", "giveBack", "hookWrite"}

HoldsPayee(j) ==
    j.pc \in {"debit", "credit", "readFrom", "giveBack", "takeBack"}

Held(h) ==
    {a \in Accounts : \/ HoldsPayer(job[h]) /\ job[h].src = a
                      \/ HoldsPayee(job[h]) /\ job[h].dst = a}

\* Two handlers hold the same account, or one holds it in both roles.
Overlap ==
    {a \in Accounts :
       \/ \E g, h \in Handlers : g # h /\ a \in Held(g) /\ a \in Held(h)
       \/ \E h \in Handlers : /\ HoldsPayer(job[h]) /\ job[h].src = a
                              /\ HoldsPayee(job[h]) /\ job[h].dst = a}

-----------------------------------------------------------------------------
Init ==
    /\ StoreInit
    /\ txn = [t \in Txns |-> Nil]
    /\ job = [h \in Handlers |-> Idle]
    /\ accepted = 0
    /\ book = [a \in Accounts |-> [bal |-> Opening, spent |-> 0, out |-> 0]]
    /\ contended = {}
    /\ trail = [t \in Txns |-> NoTrail]

-----------------------------------------------------------------------------
(* Requests: what a handler does up to the first await that matters        *)

Accept(h, op) ==
    /\ op \in Requests
    /\ job[h].pc = "idle"
    /\ accepted < MaxRequests
    /\ accepted' = accepted + 1
    /\ UNCHANGED <<storeVars, txn, book, trail>>

Start(h, j) == job' = [job EXCEPT ![h] = j]

\* POST /send-money.  The sender's account, named or default, is read and the
\* amount is checked against that copy.
SendMoney(h) ==
    /\ Accept(h, "sendMoney")
    /\ \E a \in Accounts, v \in Users, n \in Amounts :
         /\ Found(a)
         /\ n <= account[a].bal
         /\ WithinRemaining(account[a], n)
         /\ SelfPay \/ v # Owner[a]
         /\ Start(h, [Idle EXCEPT !.op = "sendMoney", !.pc = "findPayee",
                                  !.tx = accepted + 1, !.amount = n,
                                  !.peer = v, !.src = a,
                                  !.payer = account[a]])

\* POST /request-receive-money.  Of both accounts only the ids are used.
ReqReceiveMoney(h) ==
    /\ Accept(h, "reqReceiveMoney")
    /\ \E b \in Accounts, u \in Users, n \in Amounts :
         /\ Found(b)
         /\ defaultAcc[u] # Nil
         /\ Found(defaultAcc[u])
         /\ SelfPay \/ u # Owner[b]
         /\ Start(h, [Idle EXCEPT !.op = "reqReceiveMoney", !.pc = "record",
                                  !.tx = accepted + 1, !.amount = n,
                                  !.src = defaultAcc[u], !.dst = b])

\* getById and the checks on the copy of the transaction it returns.
Load(h, op, t, next) ==
    /\ Accept(h, op)
    /\ txn[t] # Nil
    /\ \E a \in Accounts :
         /\ IF op = "confirmReceive"
              THEN Owner[a] = Owner[txn[t].from]  \* body.accountId or default
              ELSE a = txn[t].from
         /\ Start(h, [Idle EXCEPT !.op = op, !.pc = next, !.tx = t,
                                  !.amount = txn[t].amount,
                                  !.peer = Owner[txn[t].to],
                                  !.src = a, !.dst = txn[t].to])

\* Slips: the status of the transaction is not looked at.
ConfirmAny(h) ==
    \E t \in Txns :
      /\ Load(h, "confirmReceive", t, "readPayer")
      /\ Found(txn[t].to)
      /\ Found(txn[t].from)

RejectAny(h) ==
    \E t \in Txns : Load(h, "rejectReceive", t, "record") /\ Found(txn[t].to)

ApproveAny(h) == \E t \in Txns : Load(h, "approveRefund", t, "readTo")

\* POST /confirm-receive: checkTransactionStatus and checkTransactionOwner.
ConfirmReceive(h) ==
    \E t \in Txns :
      /\ Load(h, "confirmReceive", t, "readPayer")
      /\ txn[t].status = "Pending"
      /\ Found(txn[t].to)
      /\ Found(txn[t].from)

\* POST /reject-receive: any user may call it.
RejectReceive(h) ==
    \E t \in Txns :
      /\ Load(h, "rejectReceive", t, "record")
      /\ txn[t].status = "Pending"
      /\ Found(txn[t].to)

\* POST /request-refund: checkTransactionOwner, checkForRefund(_, true).
RequestRefund(h) ==
    \E t \in Txns :
      /\ Load(h, "requestRefund", t, "record")
      /\ txn[t].status \notin {"Refunding", "Refunded"}
      /\ Found(txn[t].from)

\* POST /admin/approve-refund: checkForRefund; both accounts are read next.
ApproveRefund(h) ==
    \E t \in Txns :
      /\ Load(h, "approveRefund", t, "readTo")
      /\ txn[t].status = "Refunding"

\* POST /admin/reject-refund.
RejectRefund(h) ==
    \E t \in Txns :
      /\ Load(h, "rejectRefund", t, "record")
      /\ txn[t].status = "Refunding"
      /\ Found(txn[t].to)
      /\ Found(txn[t].from)

\* POST /admin/suspiciousTransaction.
SuspiciousTransaction(h) ==
    \E t \in Txns :
      /\ Load(h, "suspiciousTransaction", t, "record")
      /\ txn[t].status # "Suspicious"
      /\ Found(txn[t].from)
      /\ Found(txn[t].to)

\* PATCH /change-default: the account is looked up, the user written later.
ChangeDefault(h) ==
    /\ Accept(h, "changeDefault")
    /\ \E a \in Accounts :
         /\ Found(a)
         /\ defaultAcc[Owner[a]] \notin {Nil, a}
         /\ Start(h, [Idle EXCEPT !.op = "changeDefault", !.pc = "setDefault",
                                  !.peer = Owner[a], !.dst = a])

Submit(h) ==
    \/ SendMoney(h)
    \/ ReqReceiveMoney(h)
    \/ ConfirmReceive(h)
    \/ RejectReceive(h)
    \/ RequestRefund(h)
    \/ ApproveRefund(h)
    \/ RejectRefund(h)
    \/ SuspiciousTransaction(h)
    \/ ChangeDefault(h)

-----------------------------------------------------------------------------
(* The rest of a handler, one await at a time                              *)

At(h, step) == job[h].pc = step

Goto(h, step) == job' = [job EXCEPT ![h].pc = step]

End(h) == job' = [job EXCEPT ![h] = Idle]

Unrecorded == UNCHANGED <<accepted, book, trail>>

\* Slip: the balance is not looked at.
CanPayOnCredit(h) ==
    LET doc == account[job[h].src]
    IN  doc # Nil /\ WithinRemaining(doc, job[h].amount)

\* confirmReceive: the payer's account is read and the copy is checked.
CanPay(h) ==
    LET doc == account[job[h].src]
    IN  /\ doc # Nil
        /\ job[h].amount <= doc.bal
        /\ WithinRemaining(doc, job[h].amount)

ReadPayer(h) ==
    /\ At(h, "readPayer")
    /\ CanPay(h)
    /\ job' = [job EXCEPT ![h].pc = "findPayee",
                          ![h].payer = account[job[h].src]]
    /\ Unrecorded /\ UNCHANGED <<storeVars, txn>>

RefusePayer(h) ==
    /\ At(h, "readPayer")
    /\ ~ CanPay(h)
    /\ End(h)
    /\ Unrecorded /\ UNCHANGED <<storeVars, txn>>

\* findUser on the other party: its default account as of now.
FindPayee(h) ==
    /\ At(h, "findPayee")
    /\ IF defaultAcc[job[h].peer] = Nil
         THEN End(h)                  \* "No account found for the receiver"
         ELSE job' = [job EXCEPT ![h].pc = "readPayee",
                                 ![h].dst = defaultAcc[job[h].peer]]
    /\ Unrecorded /\ UNCHANGED <<storeVars, txn>>

\* Slip: the answer is not kept.
ReadPayeeLost(h) ==
    /\ At(h, "readPayee")
    /\ Goto(h, "debit")
    /\ Unrecorded /\ UNCHANGED <<storeVars, txn>>

\* checkDefaultAcc: an account that is gone is an empty reply, not an error.
ReadPayee(h) ==
    /\ At(h, "readPayee")
    /\ job' = [job EXCEPT ![h].pc = "debit",
                          ![h].payee = account[job[h].dst]]
    /\ Unrecorded /\ UNCHANGED <<storeVars, txn>>

\* What a call to updateAccount adds to the history: nothing, when there is no
\* document left to write.
Noted(a, entries, tallies) ==
    IF Found(a) THEN book' = entries /\ trail' = tallies
                ELSE UNCHANGED <<book, trail>>

Debit(h) ==
    /\ At(h, "debit")
    /\ LET j == job[h]
       IN  /\ UpdateAccount(j.src, Debited(j.payer, j.amount))
           /\ Noted(j.src, [book EXCEPT ![j.src].bal = @ - j.amount,
                                        ![j.src].out = @ + j.amount],
                           [trail EXCEPT ![j.tx].drawn = @ + 1])
           /\ job' = [job EXCEPT ![h].pc = "credit", ![h].payer = Nil]
    /\ UNCHANGED <<defaultAcc, txn, accepted>>

Credit(h) ==
    /\ At(h, "credit")
    /\ job[h].payee # Nil
    /\ LET j == job[h]
       IN  /\ UpdateAccount(j.dst, Credited(j.payee, j.amount))
           /\ Noted(j.dst, [book EXCEPT ![j.dst].bal = @ + j.amount],
                           [trail EXCEPT ![j.tx].paid = @ + 1])
           /\ job' = [job EXCEPT ![h].pc = "record", ![h].payee = Nil]
    /\ UNCHANGED <<defaultAcc, txn, accepted>>

\* receiveAcc.Balance += amount on an empty reply is a TypeError.
PayeeMissing(h) ==
    /\ At(h, "credit")
    /\ job[h].payee = Nil
    /\ End(h)
    /\ Unrecorded /\ UNCHANGED <<storeVars, txn>>

\* approveRefund: the receiver's account is read, then the sender's.
ReadTo(h) ==
    /\ At(h, "readTo")
    /\ IF Found(job[h].dst)
         THEN job' = [job EXCEPT ![h].pc = "readFrom",
                                 ![h].payee = account[job[h].dst]]
         ELSE End(h)
    /\ Unrecorded /\ UNCHANGED <<storeVars, txn>>

ReadFrom(h) ==
    /\ At(h, "readFrom")
    /\ IF Found(job[h].src)
         THEN job' = [job EXCEPT ![h].pc = "giveBack",
                                 ![h].payer = account[job[h].src]]
         ELSE End(h)
    /\ Unrecorded /\ UNCHANGED <<storeVars, txn>>

GiveBack(h) ==
    /\ At(h, "giveBack")
    /\ LET j == job[h]
       IN  /\ UpdateAccount(j.src, Credited(j.payer, j.amount))
           /\ Noted(j.src, [book EXCEPT ![j.src].bal = @ + j.amount],
                           [trail EXCEPT ![j.tx].repaid = @ + 1])
           /\ job' = [job EXCEPT ![h].pc = "takeBack", ![h].payer = Nil]
    /\ UNCHANGED <<defaultAcc, txn, accepted>>

TakeBack(h) ==
    /\ At(h, "takeBack")
    /\ LET j == job[h]
       IN  /\ UpdateAccount(j.dst, Debited(j.payee, j.amount))
           /\ Noted(j.dst, [book EXCEPT ![j.dst].bal = @ - j.amount],
                           [trail EXCEPT ![j.tx].clawed = @ + 1])
           /\ job' = [job EXCEPT ![h].pc = "record", ![h].payee = Nil]
    /\ UNCHANGED <<defaultAcc, txn, accepted>>

\* create, or save of the status alone: whatever the stored status is by now.
Record(h) ==
    /\ At(h, "record")
    /\ LET j == job[h]
       IN  /\ txn' = [txn EXCEPT ![j.tx] =
                        IF j.op \in Creating
                          THEN [type |-> TypeOf[j.op],
                                status |-> Outcome[j.op], from |-> j.src,
                                to |-> j.dst, amount |-> j.amount]
                          ELSE [@ EXCEPT !.status = Outcome[j.op]]]
           /\ trail' = IF j.op = "requestRefund"
                         THEN [trail EXCEPT ![j.tx].disputed = @ + 1]
                         ELSE trail
    /\ Goto(h, "hookRead")
    /\ UNCHANGED <<storeVars, accepted, book>>

\* The post('save') hook of the transaction schema: the sender's account is
\* read again, and limit.spent of the copy grows by the amount.
HookRead(h) ==
    /\ At(h, "hookRead")
    /\ LET a == txn[job[h].tx].from
       IN  IF Found(a)
             THEN job' = [job EXCEPT ![h].pc = "hookWrite", ![h].src = a,
                                     ![h].payer = account[a]]
             ELSE End(h)
    /\ Unrecorded /\ UNCHANGED <<storeVars, txn>>

HookWrite(h) ==
    /\ At(h, "hookWrite")
    /\ LET j == job[h]
       IN  /\ UpdateAccount(j.src, Charged(j.payer, j.amount))
           /\ Noted(j.src, [book EXCEPT ![j.src].spent = @ + j.amount], trail)
    /\ End(h)
    /\ UNCHANGED <<defaultAcc, txn, accepted>>

SetDefaultAcc(h) ==
    /\ At(h, "setDefault")
    /\ SetDefault(job[h].peer, job[h].dst)
    /\ End(h)
    /\ Unrecorded /\ UNCHANGED <<account, txn>>

Advance(h) ==
    \/ ReadPayer(h)
    \/ RefusePayer(h)
    \/ FindPayee(h)
    \/ ReadPayee(h)
    \/ Debit(h)
    \/ Credit(h)
    \/ PayeeMissing(h)
    \/ ReadTo(h)
    \/ ReadFrom(h)
    \/ GiveBack(h)
    \/ TakeBack(h)
    \/ Record(h)
    \/ HookRead(h)
    \/ HookWrite(h)
    \/ SetDefaultAcc(h)

\* The call a handler waits for fails, or the process dies: the handler is
\* gone, what it has written stays.
Abort(h) ==
    /\ Faults
    /\ ~ At(h, "idle")
    /\ End(h)
    /\ Unrecorded /\ UNCHANGED <<storeVars, txn>>

-----------------------------------------------------------------------------
(* What account-service does on its own account of other requests          *)

ChangeLimit(a, cap) ==
    /\ UpdateLimit(a, cap)
    /\ book' = [book EXCEPT ![a].spent = 0, ![a].out = 0]
    /\ UNCHANGED <<defaultAcc, handlerVars, trail>>

Delete(a) ==
    /\ a \in Deletable
    /\ DeleteAccount(a)
    /\ UNCHANGED <<defaultAcc, handlerVars, historyVars>>

\* No request is being served, and clients may have none to make.
Rest ==
    /\ \A h \in Handlers : At(h, "idle")
    /\ UNCHANGED vars

\* A step of a handler may leave it with a copy that another one holds too.
Serve(h) ==
    /\ Submit(h) \/ Advance(h) \/ Abort(h)
    /\ contended' = contended \cup Overlap'

\* A new limit is not in the copies that are held.
SetLimit(a) ==
    /\ \E cap \in Caps : ChangeLimit(a, cap)
    /\ contended' = contended \cup {b \in {a} : \E h \in Handlers : b \in Held(h)}

Next ==
    \/ \E h \in Handlers : Serve(h)
    \/ \E a \in Accounts : SetLimit(a)
    \/ \E a \in Accounts : Delete(a)
    \/ Rest

Spec == Init /\ [][Next]_vars

\* Node resumes a handler once its call is answered, so a handler that is
\* ready goes on.  Nothing obliges clients to send requests, or calls to fail.
Resume(h) == Advance(h) /\ contended' = contended \cup Overlap'

FairSpec == Spec /\ \A h \in Handlers : WF_vars(Resume(h))

-----------------------------------------------------------------------------
(* Properties                                                              *)

\* Every variable holds what the code can put into it.
TypeOK ==
    /\ StoreTypeOK
    /\ txn \in [Txns -> Transaction \cup {Nil}]
    /\ job \in [Handlers -> Job]
    /\ accepted \in 0 .. MaxRequests
    /\ book \in [Accounts -> BookEntry]
    /\ contended \subseteq Accounts
    /\ trail \in [Txns -> TrailEntry]

\* A refund has been taken from the account.
Clawed(a) ==
    \E t \in Txns : txn[t] # Nil /\ txn[t].to = a /\ trail[t].clawed > 0

\* Whatever requests overlap, and whatever copies they write over each other,
\* a balance is negative only on an account that an approved refund was taken
\* from: the one write that no balance check comes before.
NoOverdraft ==
    \A a \in Accounts : Found(a) /\ account[a].bal < 0 => Clawed(a)

\* Writing whole documents from copies is as good as the $inc that the hook
\* has in a comment, for every account on which no two uses of a copy have
\* overlapped: crashes, failed calls, deletions and new limits included.
ExclusiveIsExact ==
    \A a \in Accounts \ contended :
      Found(a) => /\ account[a].bal = book[a].bal
                  /\ account[a].spent = book[a].spent

\* An account of the user is gone: updateAccount on it writes nothing, and tells
\* its caller of nothing.
LostAccount(u) == \E a \in Accounts : Owner[a] = u /\ ~ Found(a)

\* So has the payer of a transaction that is recorded, or somebody.
PayerLostAccount(t) ==
    IF txn[t] = Nil THEN \E u \in Users : LostAccount(u)
                    ELSE LostAccount(Owner[txn[t].from])

\* What a transaction document says about money was written into the accounts,
\* but for the ones deleted in the meantime: a Send is recorded after the sender's
\* account was debited once and the receiver's credited once; a money request
\* stands at Success after its receiver was credited, or after a refund request
\* that was rejected; Refunded means that both accounts were written back.
RecordedMeansMoved ==
    \A t \in Txns : txn[t] # Nil =>
      /\ txn[t].type = "Send" =>
           /\ trail[t].drawn = 1 \/ ~ Found(txn[t].from)
           /\ trail[t].paid = 1 \/ ~ Found(txn[t].to)
      /\ txn[t].type = "Receive" /\ txn[t].status = "Success" =>
           trail[t].paid > 0 \/ trail[t].disputed > 0 \/ LostAccount(Owner[txn[t].to])
      /\ txn[t].status = "Refunded" =>
           /\ trail[t].repaid > 0 \/ ~ Found(txn[t].from)
           /\ trail[t].clawed > 0 \/ ~ Found(txn[t].to)

\* The other party is only written after the one whose money it is, in every
\* interleaving and after any crash: there are never more credits than debits of a
\* payment unless the payer lost an account, nor more debits than credits of a
\* refund unless the sender's account is gone; and no refund is paid that was
\* never asked for.  The exceptions are real: a debit of a deleted account is not
\* an error, and the credit that follows makes money.
StagesInOrder ==
    \A t \in Txns :
      /\ trail[t].paid > trail[t].drawn => PayerLostAccount(t)
      /\ trail[t].clawed > trail[t].repaid =>
           txn[t] # Nil /\ ~ Found(txn[t].from)
      /\ trail[t].repaid > 0 => trail[t].disputed > 0

\* While no two uses of a copy have overlapped and no account is deleted, the
\* stored balances together miss money only if a payment took it from the payer
\* and has not reached the payee (in progress, failed or crashed in between), and
\* exceed what there was only if a refund reached the sender and was not taken
\* from the receiver.  Overlapping copies do make and lose money (ExclusiveIsExact
\* says on which accounts), and so do deletions (StagesInOrder).
MoneyAccounted ==
    LET total   == SumFunction([a \in Accounts |-> account[a].bal])
        opening == Opening * Cardinality(Accounts)
    IN  contended = {} /\ (\A a \in Accounts : Found(a)) =>
          /\ (\A t \in Txns : trail[t].drawn = trail[t].paid) => total >= opening
          /\ (\A t \in Txns : trail[t].repaid = trail[t].clawed) => total <= opening
=============================================================================
