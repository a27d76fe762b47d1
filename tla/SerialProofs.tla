----------------------------- MODULE SerialProofs -----------------------------
(***************************************************************************)
(* Theorems about requests that are served one after the other: the        *)
(* handlers of Transfers implement Payments, for any accounts, amounts and *)
(* number of requests, and so conserve money, pay once and keep to limits. *)
(***************************************************************************)
EXTENDS SerialTransfers, TransfersMoney

\* One handler, no failures, nobody pays himself and no account is deleted.
Serially ==
    /\ Handlers = {Server}
    /\ SelfPay = FALSE
    /\ Faults = FALSE
    /\ Deletable = {}

-----------------------------------------------------------------------------
(* What the handler knows                                                  *)

Pays(j) ==
    j.op \in {"sendMoney", "confirmReceive"} /\ j.pc \in Paying \cup {"record"}

\* A payment: the copies show the balances that are stored.
PayReady(j, docs) ==
    Pays(j) =>
      /\ j.pc \in {"readPayer", "findPayee"} => j.peer # Owner[j.src]
      /\ j.pc \in {"findPayee", "readPayee", "debit"} =>
           j.payer.bal = docs[j.src].bal /\ j.amount <= j.payer.bal
      /\ j.pc \in {"readPayee", "debit", "credit", "record"} =>
           Owner[j.dst] # Owner[j.src]
      /\ j.pc \in {"debit", "credit"} =>
           j.payee # Nil /\ j.payee.bal = docs[j.dst].bal
      /\ j.pc \in {"credit", "record"} => docs[j.src].bal >= 0

\* A confirmation: the transaction is still pending, and the accounts are of
\* the users it names.
ConfirmReady(j, txs) ==
    Pays(j) /\ j.op = "confirmReceive" =>
      /\ txs[j.tx].status = "Pending"
      /\ j.amount = txs[j.tx].amount
      /\ Owner[j.src] = Owner[txs[j.tx].from]
      /\ j.pc \in {"readPayer", "findPayee"} => j.peer = Owner[txs[j.tx].to]
      /\ j.pc \in {"readPayee", "debit", "credit", "record"} =>
           Owner[j.dst] = Owner[txs[j.tx].to]

RefundReady(j, docs, txs) ==
    j.op = "approveRefund" /\ j.pc \in Refunding \cup {"record"} =>
      /\ txs[j.tx].status = "Refunding"
      /\ j.src = txs[j.tx].from
      /\ j.dst = txs[j.tx].to
      /\ j.amount = txs[j.tx].amount
      /\ j.pc \in {"readFrom", "giveBack", "takeBack"} => j.payee.bal = docs[j.dst].bal
      /\ j.pc = "giveBack" => j.payer.bal = docs[j.src].bal

\* The requests that save a status and move nothing.
SaveReady(j, txs) ==
    j.pc = "record" =>
      /\ j.op = "reqReceiveMoney" => Owner[j.src] # Owner[j.dst]
      /\ j.op = "rejectReceive" => txs[j.tx].status = "Pending"
      /\ j.op = "requestRefund" => txs[j.tx].status \notin {"Refunding", "Refunded"}
      /\ j.op = "rejectRefund" => txs[j.tx].status = "Refunding"
      /\ j.op = "suspiciousTransaction" => txs[j.tx].status # "Suspicious"

RestReady(j, docs) ==
    /\ j.pc = "hookWrite" => j.payer.bal = docs[j.src].bal
    /\ j.pc = "setDefault" => j.peer = Owner[j.dst]

Ready(j, docs, txs) ==
    /\ PayReady(j, docs)
    /\ ConfirmReady(j, txs)
    /\ RefundReady(j, docs, txs)
    /\ SaveReady(j, txs)
    /\ RestReady(j, docs)

\* All accounts are there, default accounts are of their users, and the
\* parties of a transaction are two users.
Orderly ==
    /\ \A a \in Accounts : Found(a)
    /\ \A u \in Users : defaultAcc[u] # Nil => Owner[defaultAcc[u]] = u
    /\ \A t \in Txns : txn[t] # Nil => Owner[txn[t].from] # Owner[txn[t].to]

SerialInv ==
    /\ Serially
    /\ SafetyInv
    /\ Orderly
    /\ Ready(job[Server], account, txn)

\* What is at hand in every step.
LEMMA Given ==
    ASSUME SerialInv
    PROVE  /\ Server \in Handlers
           /\ TypeInv /\ Orderly
           /\ Ready(job[Server], account, txn)
           /\ JobOK(job[Server], txn)
           /\ job \in [Handlers -> Job]
           /\ account \in [Accounts -> Doc]
           /\ defaultAcc \in [Users -> Accounts \cup {Nil}]
           /\ txn \in [Txns -> Transaction \cup {Nil}]
           /\ Owner \in [Accounts -> Users]
           /\ Nil \notin Accounts /\ Nil \notin Doc
  BY StoreAssumption DEF SerialInv, Serially, SafetyInv, TypeInv, TypeOK, StoreTypeOK,
                         Orderly, Found

\* A free slot is ready for anything.
LEMMA IdleReady == \A docs, txs : Ready(Idle, docs, txs)
  BY OutcomeFacts DEF Ready, PayReady, ConfirmReady, RefundReady, SaveReady, RestReady,
         Pays, Idle, Paying, Refunding

-----------------------------------------------------------------------------
(* Requests                                                                *)

\* A request on a transaction begins with what the transaction says.
LEMMA LoadReady ==
    ASSUME SerialInv, NEW op \in Ops \ Creating, NEW t \in Txns, NEW next,
           Load(Server, op, t, next),
           \/ op = "confirmReceive" /\ next = "readPayer" /\ txn[t].status = "Pending"
           \/ op = "approveRefund" /\ next = "readTo" /\ txn[t].status = "Refunding"
           \/ op = "rejectReceive" /\ next = "record" /\ txn[t].status = "Pending"
           \/ /\ op = "requestRefund" /\ next = "record"
              /\ txn[t].status \notin {"Refunding", "Refunded"}
           \/ op = "rejectRefund" /\ next = "record" /\ txn[t].status = "Refunding"
           \/ /\ op = "suspiciousTransaction" /\ next = "record"
              /\ txn[t].status # "Suspicious"
    PROVE  Ready(job'[Server], account, txn)
  <1>. DEFINE j == job'[Server]
  <1>1. PICK a \in Accounts :
          /\ IF op = "confirmReceive" THEN Owner[a] = Owner[txn[t].from]
                                      ELSE a = txn[t].from
          /\ job' = [job EXCEPT ![Server] =
                       [Idle EXCEPT !.op = op, !.pc = next, !.tx = t,
                                    !.amount = txn[t].amount,
                                    !.peer = Owner[txn[t].to],
                                    !.src = a, !.dst = txn[t].to]]
    BY DEF Load, Start
  <1>2. /\ j.op = op /\ j.pc = next /\ j.tx = t /\ j.amount = txn[t].amount
        /\ j.peer = Owner[txn[t].to] /\ j.src = a /\ j.dst = txn[t].to
    BY <1>1, Given DEF Idle
  <1>3. Owner[txn[t].from] # Owner[txn[t].to]
    BY Given DEF Orderly, Load
  <1>. HIDE DEF j
  <1>4. Ready(j, account, txn)
    BY <1>1, <1>2, <1>3 DEF Ready, PayReady, ConfirmReady, RefundReady, SaveReady,
                            RestReady, Pays, Paying, Refunding
  <1>. QED
    BY <1>4 DEF j

\* Every request that is accepted.
LEMMA SubmitReady ==
    ASSUME SerialInv, Submit(Server)
    PROVE  Ready(job'[Server], account, txn)
  <1>. DEFINE j == job'[Server]
  <1>1. CASE SendMoney(Server)
    <2>1. PICK a \in Accounts, v \in Users, n \in Amounts :
            /\ n <= account[a].bal /\ v # Owner[a]
            /\ job' = [job EXCEPT ![Server] =
                         [Idle EXCEPT !.op = "sendMoney", !.pc = "findPayee",
                                      !.tx = accepted + 1, !.amount = n,
                                      !.peer = v, !.src = a,
                                      !.payer = account[a]]]
      BY <1>1 DEF SendMoney, Start, SerialInv, Serially
    <2>2. /\ j.op = "sendMoney" /\ j.pc = "findPayee" /\ j.amount = n
          /\ j.peer = v /\ j.src = a /\ j.payer = account[a]
      BY <2>1, Given DEF Idle
    <2>. HIDE DEF j
    <2>3. Ready(j, account, txn)
      BY <2>1, <2>2 DEF Ready, PayReady, ConfirmReady, RefundReady, SaveReady,
                        RestReady, Pays, Paying, Refunding
    <2>. QED
      BY <2>3 DEF j
  <1>2. CASE ReqReceiveMoney(Server)
    <2>1. PICK b \in Accounts, u \in Users, n \in Amounts :
            /\ defaultAcc[u] # Nil /\ u # Owner[b]
            /\ job' = [job EXCEPT ![Server] =
                         [Idle EXCEPT !.op = "reqReceiveMoney", !.pc = "record",
                                      !.tx = accepted + 1, !.amount = n,
                                      !.src = defaultAcc[u], !.dst = b]]
      BY <1>2 DEF ReqReceiveMoney, Start, SerialInv, Serially
    <2>2. /\ j.op = "reqReceiveMoney" /\ j.pc = "record"
          /\ j.src = defaultAcc[u] /\ j.dst = b
      BY <2>1, Given DEF Idle
    <2>3. Owner[defaultAcc[u]] = u
      BY <2>1, Given DEF Orderly
    <2>. HIDE DEF j
    <2>4. Ready(j, account, txn)
      BY <2>1, <2>2, <2>3 DEF Ready, PayReady, ConfirmReady, RefundReady, SaveReady,
                              RestReady, Pays, Paying, Refunding
    <2>. QED
      BY <2>4 DEF j
  <1>3. CASE ChangeDefault(Server)
    <2>1. PICK a \in Accounts :
            job' = [job EXCEPT ![Server] =
                      [Idle EXCEPT !.op = "changeDefault", !.pc = "setDefault",
                                   !.peer = Owner[a], !.dst = a]]
      BY <1>3 DEF ChangeDefault, Start
    <2>2. /\ j.op = "changeDefault" /\ j.pc = "setDefault"
          /\ j.peer = Owner[a] /\ j.dst = a
      BY <2>1, Given DEF Idle
    <2>. HIDE DEF j
    <2>3. Ready(j, account, txn)
      BY <2>2 DEF Ready, PayReady, ConfirmReady, RefundReady, SaveReady,
                  RestReady, Pays, Paying, Refunding
    <2>. QED
      BY <2>3 DEF j
  <1>4. CASE \/ ConfirmReceive(Server) \/ RejectReceive(Server)
             \/ RequestRefund(Server) \/ ApproveRefund(Server)
             \/ RejectRefund(Server) \/ SuspiciousTransaction(Server)
    <2>1. PICK t \in Txns :
            \/ Load(Server, "confirmReceive", t, "readPayer") /\ txn[t].status = "Pending"
            \/ Load(Server, "rejectReceive", t, "record") /\ txn[t].status = "Pending"
            \/ /\ Load(Server, "requestRefund", t, "record")
               /\ txn[t].status \notin {"Refunding", "Refunded"}
            \/ Load(Server, "approveRefund", t, "readTo") /\ txn[t].status = "Refunding"
            \/ Load(Server, "rejectRefund", t, "record") /\ txn[t].status = "Refunding"
            \/ /\ Load(Server, "suspiciousTransaction", t, "record")
               /\ txn[t].status # "Suspicious"
      BY <1>4 DEF ConfirmReceive, RejectReceive, RequestRefund, ApproveRefund,
                  RejectRefund, SuspiciousTransaction
    <2>. QED
      BY <2>1, LoadReady, OutcomeFacts
  <1>. QED
    BY <1>1, <1>2, <1>3, <1>4 DEF Submit

-----------------------------------------------------------------------------
(* Steps that read, and steps that move money                              *)

\* What a handler with the job j has moved into or out of the account a.
InFlight(j, a) ==
    LET pays == j.op \in {"sendMoney", "confirmReceive"}
        out  == \/ pays /\ j.pc \in {"credit", "record"} /\ j.src = a
                \/ ~ pays /\ j.op = "approveRefund" /\ j.pc = "record" /\ j.dst = a
        into == \/ pays /\ j.pc = "record" /\ j.dst = a
                \/ j.op = "approveRefund" /\ j.pc \in {"takeBack", "record"} /\ j.src = a
    IN  (IF into THEN j.amount ELSE 0) - (IF out THEN j.amount ELSE 0)

\* An account is seen by Payments as it is, unless a payment or a refund has
\* begun to move its money.
LEMMA FlightFacts ==
    ASSUME NEW j, NEW a, j.amount \in Int
    PROVE  /\ \/ j.pc \notin {"credit", "record", "takeBack"}
              \/ j.op \notin {"sendMoney", "confirmReceive", "approveRefund"}
              => InFlight(j, a) = 0
           /\ j.op \in {"sendMoney", "confirmReceive"} /\ j.pc = "credit" =>
                InFlight(j, a) = 0 - (IF a = j.src THEN j.amount ELSE 0)
           /\ /\ j.op \in {"sendMoney", "confirmReceive"}
              /\ j.pc = "record"
              => InFlight(j, a) = (IF a = j.dst THEN j.amount ELSE 0)
                                  - (IF a = j.src THEN j.amount ELSE 0)
           /\ j.op = "approveRefund" /\ j.pc = "takeBack" =>
                InFlight(j, a) = (IF a = j.src THEN j.amount ELSE 0)
           /\ j.op = "approveRefund" /\ j.pc = "record" =>
                InFlight(j, a) = (IF a = j.src THEN j.amount ELSE 0)
                                 - (IF a = j.dst THEN j.amount ELSE 0)
  BY DEF InFlight

\* The balances that Payments sees.
LEMMA SettledIs ==
    /\ \A a : Settled(a) = account[a].bal - InFlight(job[Server], a)
    /\ \A a : Settled(a)' = account'[a].bal - InFlight(job'[Server], a)
  BY DEF Settled, Moved, InFlight

\* The amounts and balances a handler computes with are numbers.
LEMMA Numbers ==
    ASSUME SerialInv
    PROVE  /\ \A a \in Accounts : account[a].bal \in Int
           /\ job[Server].amount \in Int
           /\ \A t \in Txns : txn[t] # Nil => txn[t].amount \in Int
           /\ job[Server].pc \in Paying \cup Refunding \cup Saving =>
                job[Server].amount \in Amounts
  <1>1. \A a \in Accounts : account[a].bal \in Int
    BY Given DEF Doc
  <1>2. job[Server].amount \in Amounts \cup {0}
    BY Given DEF JobOK, Job
  <1>3. \A n \in Amounts \cup {0} : n \in Int
    BY TransferAssumption
  <1>4. \A t \in Txns : txn[t] # Nil => txn[t].amount \in Amounts
    BY Given DEF Transaction
  <1>5. job[Server].pc \in Paying \cup Refunding \cup Saving =>
          job[Server].amount \in Amounts
    BY Given DEF JobOK, KnowsRequest
  <1>. QED
    BY <1>1, <1>2, <1>3, <1>4, <1>5

\* Payments sees nothing of a step.
Unseen == UNCHANGED txn /\ \A a \in Accounts : Settled(a)' = Settled(a)

\* What a step leaves behind.
Onward ==
    /\ Ready(job'[Server], account', txn')
    /\ Orderly'

\* A handler that has begun to move money says so.
Moving(j) ==
    /\ j.op \in {"sendMoney", "confirmReceive", "approveRefund"}
    /\ j.pc \in {"credit", "record", "takeBack"}

\* A step of a handler that has nothing to move, and writes no balance.
LEMMA StillUnseen ==
    ASSUME SerialInv, UNCHANGED txn, ~ Moving(job[Server]), ~ Moving(job'[Server]),
           job'[Server].amount \in Int,
           \A a \in Accounts : account'[a].bal = account[a].bal
    PROVE  Unseen
  <1>1. \A a : InFlight(job[Server], a) = 0 /\ InFlight(job'[Server], a) = 0
    BY FlightFacts, Numbers DEF Moving
  <1>. QED
    BY <1>1, SettledIs, Numbers DEF Unseen

\* Where the money stays, the order of things does.
LEMMA StillOrderly ==
    ASSUME Orderly, UNCHANGED <<defaultAcc, txn>>,
           \A a \in Accounts : account'[a] # Nil
    PROVE  Orderly'
  BY DEF Orderly, Found

\* A payment up to the debit.
LEMMA PayReads ==
    ASSUME SerialInv,
           \/ ReadPayer(Server) \/ RefusePayer(Server) \/ FindPayee(Server)
           \/ ReadPayee(Server)
    PROVE  Onward /\ Unseen
  <1>. DEFINE i == job[Server]
              j == job'[Server]
  <1>1. UNCHANGED <<account, defaultAcc, txn>>
    BY DEF ReadPayer, RefusePayer, FindPayee, ReadPayee, storeVars
  <1>2. CASE j = Idle
    <2>1. ~ Moving(i)
      BY DEF Moving, ReadPayer, RefusePayer, FindPayee, ReadPayee, At
    <2>2. ~ Moving(j) /\ j.amount = 0
      BY <1>2 DEF Moving, Idle
    <2>3. Ready(j, account', txn')
      BY <1>2, IdleReady
    <2>4. Orderly'
      BY <1>1, Given, StillOrderly DEF Orderly, Found
    <2>5. Unseen
      BY <1>1, <2>1, <2>2, StillUnseen
    <2>. QED
      BY <2>3, <2>4, <2>5 DEF Onward
  <1>3. CASE j # Idle
    <2>1. /\ i \in Job /\ KnowsRequest(i) /\ KnowsParties(i) /\ HasCopies(i)
          /\ WorksOn(i, txn)
      BY Given DEF JobOK
    <2>2. /\ i.op \in {"sendMoney", "confirmReceive"}
          /\ i.src \in Accounts
          /\ j.op = i.op /\ j.tx = i.tx /\ j.amount = i.amount /\ j.src = i.src
          /\ \/ /\ i.pc = "readPayer" /\ j.pc = "findPayee" /\ j.peer = i.peer
                /\ j.payer = account[i.src] /\ i.amount <= account[i.src].bal
             \/ /\ i.pc = "findPayee" /\ j.pc = "readPayee" /\ j.payer = i.payer
                /\ defaultAcc[i.peer] # Nil /\ j.dst = defaultAcc[i.peer]
                /\ i.peer \in Users
             \/ /\ i.pc = "readPayee" /\ j.pc = "debit" /\ j.payer = i.payer
                /\ j.dst = i.dst /\ j.payee = account[i.dst] /\ i.dst \in Accounts
      <3>1. i.op \in {"sendMoney", "confirmReceive"} /\ i.src \in Accounts
        <4>1. i.pc \in Paying
          BY DEF ReadPayer, RefusePayer, FindPayee, ReadPayee, At, Paying
        <4>2. Phases
          BY DEF SerialInv, SafetyInv
        <4>. QED
          BY <2>1, <4>1, <4>2, Given DEF Phases, KnowsRequest
      <3>2. CASE ReadPayer(Server)
        BY <2>1, <3>1, <3>2, Given DEF ReadPayer, At, CanPay, Job
      <3>3. CASE FindPayee(Server)
        <4>1. defaultAcc[i.peer] # Nil
          BY <1>3, <3>3, Given DEF FindPayee, End
        <4>. QED
          BY <2>1, <3>1, <3>3, <4>1, Given DEF FindPayee, At, Job, KnowsParties
      <3>4. CASE ReadPayee(Server)
        BY <2>1, <3>1, <3>4, Given DEF ReadPayee, At, Job, KnowsParties
      <3>5. CASE RefusePayer(Server)
        BY <1>3, <3>5, Given DEF RefusePayer, End
      <3>. QED
        BY <3>2, <3>3, <3>4, <3>5
    <2>3. ~ Moving(i) /\ ~ Moving(j) /\ j.amount \in Int
      BY <2>2, Numbers DEF Moving
    <2>4. PayReady(i, account) /\ ConfirmReady(i, txn) /\ Pays(i) /\ Pays(j)
      BY <2>2, Given DEF Ready, Pays, Paying
    <2>5. \A a \in Accounts : account[a] \in Doc /\ account[a] # Nil
      BY Given
    <2>6. \A u \in Users : defaultAcc[u] # Nil => Owner[defaultAcc[u]] = u
      BY Given DEF Orderly
    <2>. HIDE DEF i, j
    <2>7. PayReady(j, account)
      BY <2>2, <2>4, <2>5, <2>6 DEF PayReady
    <2>8. ConfirmReady(j, txn)
      BY <2>2, <2>4, <2>6 DEF ConfirmReady
    <2>9. RefundReady(j, account, txn) /\ SaveReady(j, txn) /\ RestReady(j, account)
      BY <2>2 DEF RefundReady, SaveReady, RestReady
    <2>. USE DEF i, j
    <2>10. Ready(j, account', txn')
      BY <1>1, <2>7, <2>8, <2>9 DEF Ready
    <2>11. Orderly'
      BY <1>1, <2>5, Given, StillOrderly
    <2>12. Unseen
      BY <1>1, <2>3, StillUnseen
    <2>. QED
      BY <2>10, <2>11, <2>12 DEF Onward
  <1>. QED
    BY <1>2, <1>3

\* A write of an account leaves it with the document that is written.
LEMMA Written ==
    ASSUME SerialInv, NEW a \in Accounts, NEW doc \in Doc, UpdateAccount(a, doc)
    PROVE  /\ account'[a] = doc
           /\ \A b \in Accounts : b # a => account'[b] = account[b]
           /\ \A b \in Accounts : account'[b] # Nil
  BY Given DEF UpdateAccount, Orderly, Found

\* The two writes of a payment: the request has the money while it is under
\* way, so Payments sees nothing of it.
LEMMA PayMoves ==
    ASSUME SerialInv, Debit(Server) \/ Credit(Server)
    PROVE  Onward /\ Unseen
  <1>. DEFINE i == job[Server]
              j == job'[Server]
  <1>1. /\ i \in Job /\ KnowsRequest(i) /\ KnowsParties(i) /\ HasCopies(i)
        /\ i.pc \in {"debit", "credit"} /\ UNCHANGED <<defaultAcc, txn>>
    BY Given DEF JobOK, Debit, Credit, At
  <1>2. /\ i.op \in {"sendMoney", "confirmReceive"}
        /\ i.src \in Accounts /\ i.dst \in Accounts /\ i.amount \in Amounts
        /\ i.amount \in Int /\ Pays(i)
    <2>1. Phases
      BY DEF SerialInv, SafetyInv
    <2>2. i.pc \in Paying
      BY <1>1 DEF Paying
    <2>. QED
      BY <1>1, <2>1, <2>2, Given, Numbers DEF Phases, KnowsRequest, KnowsParties, Pays
  <1>3. PayReady(i, account) /\ ConfirmReady(i, txn)
    BY Given DEF Ready
  <1>4. \A a \in Accounts : account[a].bal \in Int
    BY Numbers
  <1>5. CASE Debit(Server)
    <2>1. /\ i.pc = "debit" /\ j.pc = "credit" /\ i.payer \in Doc
          /\ j.op = i.op /\ j.tx = i.tx /\ j.amount = i.amount /\ j.src = i.src
          /\ j.dst = i.dst /\ j.payee = i.payee
          /\ UpdateAccount(i.src, Debited(i.payer, i.amount))
      BY <1>1, <1>5, Given DEF Debit, At, Job, HasCopies, HoldsPayer
    <2>2. Debited(i.payer, i.amount) \in Doc
          /\ Debited(i.payer, i.amount).bal = i.payer.bal - i.amount
      BY <1>2, <2>1, DocArithmetic DEF Debited, Doc
    <2>3. /\ account'[i.src].bal = i.payer.bal - i.amount
          /\ \A b \in Accounts : b # i.src => account'[b] = account[b]
          /\ \A b \in Accounts : account'[b] # Nil
      BY <1>2, <2>1, <2>2, Written
    <2>4. /\ i.payer.bal = account[i.src].bal /\ i.amount <= i.payer.bal
          /\ Owner[i.dst] # Owner[i.src]
          /\ i.payee # Nil /\ i.payee.bal = account[i.dst].bal
      BY <1>2, <1>3, <2>1 DEF PayReady
    <2>. HIDE DEF i, j
    <2>5. Pays(j)
      BY <1>2, <2>1 DEF Pays, Paying
    <2>6. PayReady(j, account')
      BY <1>2, <1>4, <2>1, <2>3, <2>4 DEF PayReady
    <2>7. ConfirmReady(j, txn)
      BY <1>2, <1>3, <2>1 DEF ConfirmReady
    <2>8. RefundReady(j, account', txn) /\ SaveReady(j, txn) /\ RestReady(j, account')
      BY <1>2, <2>1 DEF RefundReady, SaveReady, RestReady
    <2>9. \A a \in Accounts : InFlight(i, a) = 0
      BY <1>2, <2>1, FlightFacts
    <2>10. \A a \in Accounts : InFlight(j, a) = 0 - (IF a = i.src THEN i.amount ELSE 0)
      BY <1>2, <2>1, FlightFacts
    <2>11. \A a \in Accounts : account'[a].bal - InFlight(j, a)
                                 = account[a].bal - InFlight(i, a)
      BY <1>2, <1>4, <2>3, <2>4, <2>9, <2>10
    <2>. USE DEF i, j
    <2>12. Unseen
      BY <1>1, <2>11, SettledIs DEF Unseen
    <2>13. Orderly'
      BY <1>1, <2>3, Given, StillOrderly
    <2>. QED
      BY <1>1, <2>6, <2>7, <2>8, <2>12, <2>13 DEF Onward, Ready
  <1>6. CASE Credit(Server)
    <2>1. /\ i.pc = "credit" /\ j.pc = "record" /\ i.payee # Nil
          /\ j.op = i.op /\ j.tx = i.tx /\ j.amount = i.amount /\ j.src = i.src
          /\ j.dst = i.dst
          /\ UpdateAccount(i.dst, Credited(i.payee, i.amount))
      BY <1>1, <1>6, Given DEF Credit, At, Job
    <2>2. /\ i.payee \in Doc
          /\ Credited(i.payee, i.amount) \in Doc
          /\ Credited(i.payee, i.amount).bal = i.payee.bal + i.amount
      <3>1. i.payee \in Doc
        BY <1>1, <2>1 DEF Job
      <3>. QED
        BY <1>2, <3>1, DocArithmetic DEF Credited, Doc
    <2>3. /\ account'[i.dst].bal = i.payee.bal + i.amount
          /\ \A b \in Accounts : b # i.dst => account'[b] = account[b]
          /\ \A b \in Accounts : account'[b] # Nil
      BY <1>2, <2>1, <2>2, Written
    <2>4. /\ account[i.src].bal >= 0
          /\ Owner[i.dst] # Owner[i.src]
          /\ i.payee.bal = account[i.dst].bal
      BY <1>2, <1>3, <2>1 DEF PayReady
    <2>. HIDE DEF i, j
    <2>5. Pays(j)
      BY <1>2, <2>1 DEF Pays, Paying
    <2>6. PayReady(j, account')
      BY <1>2, <1>4, <2>1, <2>3, <2>4 DEF PayReady
    <2>7. ConfirmReady(j, txn)
      BY <1>2, <1>3, <2>1 DEF ConfirmReady
    <2>8. RefundReady(j, account', txn) /\ SaveReady(j, txn) /\ RestReady(j, account')
      BY <1>2, <2>1 DEF RefundReady, SaveReady, RestReady
    <2>9. \A a \in Accounts : InFlight(i, a) = 0 - (IF a = i.src THEN i.amount ELSE 0)
      BY <1>2, <2>1, FlightFacts
    <2>10. \A a \in Accounts : InFlight(j, a) = (IF a = i.dst THEN i.amount ELSE 0)
                                                - (IF a = i.src THEN i.amount ELSE 0)
      BY <1>2, <2>1, FlightFacts
    <2>11. \A a \in Accounts : account'[a].bal - InFlight(j, a)
                                 = account[a].bal - InFlight(i, a)
      BY <1>2, <1>4, <2>3, <2>4, <2>9, <2>10
    <2>. USE DEF i, j
    <2>12. Unseen
      BY <1>1, <2>11, SettledIs DEF Unseen
    <2>13. Orderly'
      BY <1>1, <2>3, Given, StillOrderly
    <2>. QED
      BY <1>1, <2>6, <2>7, <2>8, <2>12, <2>13 DEF Onward, Ready
  <1>. QED
    BY <1>5, <1>6

\* Served alone, a handler that has debited a payer always finds the payee.
LEMMA NoPayeeMissing == SerialInv => ~ PayeeMissing(Server)
  <1>. SUFFICES ASSUME SerialInv, PayeeMissing(Server) PROVE FALSE
    OBVIOUS
  <1>. DEFINE i == job[Server]
  <1>1. i.pc = "credit" /\ i.payee = Nil
    BY DEF PayeeMissing, At
  <1>2. Phases
    BY DEF SerialInv, SafetyInv
  <1>3. Pays(i)
    BY <1>1, <1>2, Given DEF Phases, Pays, Paying
  <1>. QED
    BY <1>1, <1>3, Given DEF Ready, PayReady

\* A refund up to its first write.
LEMMA RefundReads ==
    ASSUME SerialInv, ReadTo(Server) \/ ReadFrom(Server)
    PROVE  Onward /\ Unseen
  <1>. DEFINE i == job[Server]
              j == job'[Server]
  <1>1. /\ i \in Job /\ KnowsRequest(i) /\ KnowsParties(i)
        /\ i.pc \in {"readTo", "readFrom"}
        /\ UNCHANGED <<account, defaultAcc, txn>>
    BY Given DEF JobOK, ReadTo, ReadFrom, At, storeVars
  <1>2. /\ i.op = "approveRefund" /\ i.src \in Accounts /\ i.dst \in Accounts
        /\ i.amount \in Int
    <2>1. Phases
      BY DEF SerialInv, SafetyInv
    <2>2. i.pc \in Refunding
      BY <1>1 DEF Refunding
    <2>. QED
      BY <1>1, <2>1, <2>2, Given, Numbers DEF Phases, KnowsRequest, KnowsParties
  <1>3. RefundReady(i, account, txn)
    BY Given DEF Ready
  <1>4. /\ j.op = i.op /\ j.tx = i.tx /\ j.amount = i.amount
        /\ j.src = i.src /\ j.dst = i.dst
        /\ \/ i.pc = "readTo" /\ j.pc = "readFrom" /\ j.payee = account[i.dst]
           \/ /\ i.pc = "readFrom" /\ j.pc = "giveBack"
              /\ j.payer = account[i.src] /\ j.payee = i.payee
    <2>1. Found(i.src) /\ Found(i.dst)
      BY <1>2, Given DEF Orderly
    <2>2. CASE ReadTo(Server)
      BY <1>1, <2>1, <2>2, Given DEF ReadTo, At, Job
    <2>3. CASE ReadFrom(Server)
      BY <1>1, <2>1, <2>3, Given DEF ReadFrom, At, Job
    <2>. QED
      BY <2>2, <2>3
  <1>5. ~ Moving(i) /\ ~ Moving(j) /\ j.amount \in Int
    BY <1>1, <1>2, <1>4 DEF Moving
  <1>6. Unseen
    BY <1>1, <1>5, StillUnseen
  <1>7. Orderly'
    BY <1>1, Given, StillOrderly DEF Orderly, Found
  <1>. HIDE DEF i, j
  <1>8. RefundReady(j, account, txn)
    BY <1>2, <1>3, <1>4 DEF RefundReady, Refunding
  <1>9. /\ PayReady(j, account) /\ ConfirmReady(j, txn) /\ SaveReady(j, txn)
        /\ RestReady(j, account)
    BY <1>2, <1>4 DEF PayReady, ConfirmReady, Pays, SaveReady, RestReady
  <1>. USE DEF i, j
  <1>. QED
    BY <1>1, <1>6, <1>7, <1>8, <1>9 DEF Onward, Ready

\* The two writes of a refund.
LEMMA RefundMoves ==
    ASSUME SerialInv, GiveBack(Server) \/ TakeBack(Server)
    PROVE  Onward /\ Unseen
  <1>. DEFINE i == job[Server]
              j == job'[Server]
  <1>1. /\ i \in Job /\ KnowsRequest(i) /\ KnowsParties(i) /\ HasCopies(i)
        /\ WorksOn(i, txn)
        /\ i.pc \in {"giveBack", "takeBack"} /\ UNCHANGED <<defaultAcc, txn>>
    BY Given DEF JobOK, GiveBack, TakeBack, At
  <1>2. /\ i.op = "approveRefund" /\ i.src \in Accounts /\ i.dst \in Accounts
        /\ i.amount \in Amounts /\ i.amount \in Int /\ i.tx \in Txns
        /\ txn[i.tx] # Nil
    <2>1. Phases
      BY DEF SerialInv, SafetyInv
    <2>2. i.pc \in Refunding
      BY <1>1 DEF Refunding
    <2>. QED
      BY <1>1, <2>1, <2>2, Given, Numbers, OutcomeFacts
         DEF Phases, KnowsRequest, KnowsParties, WorksOn
  <1>3. RefundReady(i, account, txn)
    BY Given DEF Ready
  <1>4. \A a \in Accounts : account[a].bal \in Int
    BY Numbers
  <1>5. Owner[i.src] # Owner[i.dst]
    BY <1>1, <1>2, <1>3, Given DEF RefundReady, Refunding, Orderly
  <1>6. CASE GiveBack(Server)
    <2>1. /\ i.pc = "giveBack" /\ j.pc = "takeBack" /\ i.payer \in Doc
          /\ j.op = i.op /\ j.tx = i.tx /\ j.amount = i.amount /\ j.src = i.src
          /\ j.dst = i.dst /\ j.payee = i.payee
          /\ UpdateAccount(i.src, Credited(i.payer, i.amount))
      BY <1>1, <1>6, Given DEF GiveBack, At, Job, HasCopies, HoldsPayer
    <2>2. /\ Credited(i.payer, i.amount) \in Doc
          /\ Credited(i.payer, i.amount).bal = i.payer.bal + i.amount
      BY <1>2, <2>1, DocArithmetic DEF Credited, Doc
    <2>3. /\ account'[i.src].bal = i.payer.bal + i.amount
          /\ \A b \in Accounts : b # i.src => account'[b] = account[b]
          /\ \A b \in Accounts : account'[b] # Nil
      BY <1>2, <2>1, <2>2, Written
    <2>4. i.payer.bal = account[i.src].bal /\ i.payee.bal = account[i.dst].bal
      BY <1>2, <1>3, <2>1 DEF RefundReady, Refunding
    <2>. HIDE DEF i, j
    <2>5. RefundReady(j, account', txn)
      BY <1>2, <1>3, <1>5, <2>1, <2>3, <2>4 DEF RefundReady, Refunding
    <2>6. /\ PayReady(j, account') /\ ConfirmReady(j, txn) /\ SaveReady(j, txn)
          /\ RestReady(j, account')
      BY <1>2, <2>1 DEF PayReady, ConfirmReady, Pays, SaveReady, RestReady
    <2>7. \A a \in Accounts : InFlight(i, a) = 0
      BY <1>2, <2>1, FlightFacts
    <2>8. \A a \in Accounts : InFlight(j, a) = (IF a = i.src THEN i.amount ELSE 0)
      BY <1>2, <2>1, FlightFacts
    <2>9. \A a \in Accounts : account'[a].bal - InFlight(j, a)
                                = account[a].bal - InFlight(i, a)
      BY <1>2, <1>4, <2>3, <2>4, <2>7, <2>8
    <2>. USE DEF i, j
    <2>10. Unseen
      BY <1>1, <2>9, SettledIs DEF Unseen
    <2>11. Orderly'
      BY <1>1, <2>3, Given, StillOrderly
    <2>. QED
      BY <1>1, <2>5, <2>6, <2>10, <2>11 DEF Onward, Ready
  <1>7. CASE TakeBack(Server)
    <2>1. /\ i.pc = "takeBack" /\ j.pc = "record" /\ i.payee \in Doc
          /\ j.op = i.op /\ j.tx = i.tx /\ j.amount = i.amount /\ j.src = i.src
          /\ j.dst = i.dst
          /\ UpdateAccount(i.dst, Debited(i.payee, i.amount))
      BY <1>1, <1>7, Given DEF TakeBack, At, Job, HasCopies
    <2>2. /\ Debited(i.payee, i.amount) \in Doc
          /\ Debited(i.payee, i.amount).bal = i.payee.bal - i.amount
      BY <1>2, <2>1, DocArithmetic DEF Debited, Doc
    <2>3. /\ account'[i.dst].bal = i.payee.bal - i.amount
          /\ \A b \in Accounts : b # i.dst => account'[b] = account[b]
          /\ \A b \in Accounts : account'[b] # Nil
      BY <1>2, <2>1, <2>2, Written
    <2>4. i.payee.bal = account[i.dst].bal
      BY <1>2, <1>3, <2>1 DEF RefundReady, Refunding
    <2>. HIDE DEF i, j
    <2>5. RefundReady(j, account', txn)
      BY <1>2, <1>3, <2>1 DEF RefundReady, Refunding
    <2>6. /\ PayReady(j, account') /\ ConfirmReady(j, txn) /\ SaveReady(j, txn)
          /\ RestReady(j, account')
      BY <1>2, <2>1 DEF PayReady, ConfirmReady, Pays, SaveReady, RestReady
    <2>7. \A a \in Accounts : InFlight(i, a) = (IF a = i.src THEN i.amount ELSE 0)
      BY <1>2, <2>1, FlightFacts
    <2>8. \A a \in Accounts : InFlight(j, a) = (IF a = i.src THEN i.amount ELSE 0)
                                               - (IF a = i.dst THEN i.amount ELSE 0)
      BY <1>2, <2>1, FlightFacts
    <2>9. \A a \in Accounts : account'[a].bal - InFlight(j, a)
                                = account[a].bal - InFlight(i, a)
      BY <1>2, <1>4, <2>3, <2>4, <2>7, <2>8
    <2>. USE DEF i, j
    <2>10. Unseen
      BY <1>1, <2>9, SettledIs DEF Unseen
    <2>11. Orderly'
      BY <1>1, <2>3, Given, StillOrderly
    <2>. QED
      BY <1>1, <2>5, <2>6, <2>10, <2>11 DEF Onward, Ready
  <1>. QED
    BY <1>6, <1>7

\* The hook after a save, and a new default account.
LEMMA AfterSave ==
    ASSUME SerialInv,
           \/ HookRead(Server) \/ HookWrite(Server) \/ SetDefaultAcc(Server)
    PROVE  Onward /\ Unseen
  <1>. DEFINE i == job[Server]
              j == job'[Server]
  <1>1. i \in Job /\ KnowsRequest(i) /\ KnowsParties(i) /\ HasCopies(i) /\ WorksOn(i, txn)
    BY Given DEF JobOK
  <1>2. ~ Moving(i)
    BY DEF Moving, HookRead, HookWrite, SetDefaultAcc, At
  <1>3. ~ Moving(Idle) /\ Idle.amount = 0
    BY DEF Moving, Idle
  <1>4. CASE HookRead(Server)
    <2>1. UNCHANGED <<account, defaultAcc, txn>> /\ i.pc = "hookRead"
      BY <1>4 DEF HookRead, storeVars, At
    <2>2. i.tx \in Txns /\ txn[i.tx] # Nil /\ i.amount \in Int
      BY <1>1, <2>1, Numbers DEF KnowsRequest, WorksOn, Saving
    <2>3. txn[i.tx].from \in Accounts
      BY <2>2, Given DEF Transaction
    <2>4. Found(txn[i.tx].from)
      BY <2>3, Given DEF Orderly
    <2>5. /\ j.pc = "hookWrite" /\ j.src = txn[i.tx].from
          /\ j.payer = account[txn[i.tx].from] /\ j.amount = i.amount
      BY <1>1, <1>4, <2>4, Given DEF HookRead, Job
    <2>6. ~ Moving(j) /\ Ready(j, account, txn)
      BY <2>5 DEF Moving, Ready, PayReady, ConfirmReady, RefundReady, SaveReady,
                  RestReady, Pays, Paying, Refunding
    <2>7. Unseen
      BY <1>2, <2>1, <2>2, <2>5, <2>6, StillUnseen
    <2>8. Orderly'
      BY <2>1, Given, StillOrderly DEF Orderly, Found
    <2>. QED
      BY <2>1, <2>6, <2>7, <2>8 DEF Onward
  <1>5. CASE HookWrite(Server)
    <2>1. /\ i.pc = "hookWrite" /\ UNCHANGED <<defaultAcc, txn>> /\ j = Idle
          /\ UpdateAccount(i.src, Charged(i.payer, i.amount))
      BY <1>1, <1>5, Given DEF HookWrite, At, End
    <2>2. i.src \in Accounts /\ i.amount \in Amounts /\ i.payer \in Doc
      BY <1>1, <2>1 DEF KnowsRequest, HasCopies, HoldsPayer, Saving
    <2>3. /\ Charged(i.payer, i.amount) \in Doc
          /\ Charged(i.payer, i.amount).bal = i.payer.bal
      BY <2>2, DocArithmetic DEF Charged, Doc
    <2>4. /\ account'[i.src].bal = i.payer.bal
          /\ \A b \in Accounts : b # i.src => account'[b] = account[b]
          /\ \A b \in Accounts : account'[b] # Nil
      BY <2>1, <2>2, <2>3, Written
    <2>5. i.payer.bal = account[i.src].bal
      BY <2>1, Given DEF Ready, RestReady
    <2>6. \A a \in Accounts : account'[a].bal = account[a].bal
      BY <2>4, <2>5
    <2>7. Unseen
      BY <1>2, <1>3, <2>1, <2>6, StillUnseen
    <2>8. Orderly'
      BY <2>1, <2>4, Given, StillOrderly
    <2>9. Ready(j, account', txn')
      BY <2>1, IdleReady
    <2>. QED
      BY <2>7, <2>8, <2>9 DEF Onward
  <1>6. CASE SetDefaultAcc(Server)
    <2>1. /\ i.pc = "setDefault" /\ UNCHANGED <<account, txn>> /\ j = Idle
          /\ defaultAcc' = [defaultAcc EXCEPT ![i.peer] = i.dst]
      BY <1>1, <1>6, Given DEF SetDefaultAcc, SetDefault, At, End
    <2>2. i.peer = Owner[i.dst]
      BY <2>1, Given DEF Ready, RestReady
    <2>3. Unseen
      BY <1>2, <1>3, <2>1, StillUnseen
    <2>4. Orderly'
      BY <2>1, <2>2, Given DEF Orderly, Found
    <2>5. Ready(j, account', txn')
      BY <2>1, IdleReady
    <2>. QED
      BY <2>3, <2>4, <2>5 DEF Onward
  <1>. QED
    BY <1>4, <1>5, <1>6

\* A request that is accepted: it has moved nothing yet.
LEMMA SubmitUnseen ==
    ASSUME SerialInv, Submit(Server)
    PROVE  Onward /\ Unseen
  <1>. DEFINE i == job[Server]
              j == job'[Server]
  <1>1. UNCHANGED <<account, defaultAcc, txn>>
    BY SubmitSteps, Given DEF storeVars
  <1>2. Ready(j, account', txn')
    BY <1>1, SubmitReady
  <1>3. Orderly'
    BY <1>1, Given, StillOrderly DEF Orderly, Found
  <1>4. i.pc = "idle"
    BY DEF Submit, SendMoney, ReqReceiveMoney, ConfirmReceive, RejectReceive,
           RequestRefund, ApproveRefund, RejectRefund, SuspiciousTransaction,
           ChangeDefault, Load, Accept
  <1>5. j.amount \in Int
    <2>1. job' \in [Handlers -> Job]
      BY SubmitType, Given
    <2>2. j.amount \in Amounts \cup {0}
      BY <2>1, Given DEF Job
    <2>3. \A n \in Amounts \cup {0} : n \in Int
      BY TransferAssumption
    <2>. QED
      BY <2>2, <2>3
  <1>6. ~ Moving(j)
    <2>1. \/ j.pc \in {"findPayee", "setDefault"}
          \/ j.op = "reqReceiveMoney"
          \/ j.op \in Ops \ Creating /\ Loaded(j)
      BY SubmitSteps, Given
    <2>. QED
      BY <2>1, OutcomeFacts DEF Loaded, Moving
  <1>7. ~ Moving(i)
    BY <1>4 DEF Moving
  <1>8. Unseen
    BY <1>1, <1>5, <1>6, <1>7, StillUnseen
  <1>. QED
    BY <1>2, <1>3, <1>8 DEF Onward

-----------------------------------------------------------------------------
(* The save: the step that Payments sees                                   *)

\* Money that moves between two accounts.
LEMMA MoveSeen ==
    ASSUME NEW b \in Accounts, NEW c \in Accounts, NEW n \in Int, b # c,
           \A a \in Accounts : Settled(a) \in Int,
           \A a \in Accounts : Settled(a)' = Settled(a) - (IF a = b THEN n ELSE 0)
                                                        + (IF a = c THEN n ELSE 0)
    PROVE  Abstract!Move(b, c, n)
  <1>1. Settled(b)' = Settled(b) - n /\ Settled(c)' = Settled(c) + n
    OBVIOUS
  <1>2. \A a \in Accounts \ {b, c} : Settled(a)' = Settled(a)
    OBVIOUS
  <1>. DEFINE f == [a \in Accounts |-> Settled(a)]
              g == [a \in Accounts |-> Settled(a)']
  <1>3. g = [f EXCEPT ![b] = @ - n, ![c] = @ + n]
    BY <1>1, <1>2
  <1>. QED
    BY <1>3 DEF Abstract!Move

\* Where no balance changes Payments sees none that does.
LEMMA NoMoveSeen ==
    ASSUME \A a \in Accounts : Settled(a)' = Settled(a)
    PROVE  [a \in Accounts |-> Settled(a)]' = [a \in Accounts |-> Settled(a)]
  OBVIOUS

\* What the save has to do with balances.
LEMMA RecordFacts ==
    ASSUME SerialInv, Record(Server)
    PROVE  LET i == job[Server]
           IN  /\ i.pc = "record" /\ job'[Server].pc = "hookRead"
               /\ UNCHANGED <<account, defaultAcc>>
               /\ i.op \in Ops /\ i.tx \in Txns /\ i.amount \in Amounts /\ i.amount \in Int
               /\ i.src \in Accounts /\ i.dst \in Accounts
               /\ i.op \notin Creating => txn[i.tx] # Nil
               /\ i.op \in Creating => txn[i.tx] = Nil
               /\ \A a \in Accounts : Settled(a) \in Int /\ Settled(a)' = account[a].bal
  <1>. DEFINE i == job[Server]
  <1>1. /\ i \in Job /\ KnowsRequest(i) /\ KnowsParties(i) /\ WorksOn(i, txn)
        /\ i.pc = "record" /\ UNCHANGED <<account, defaultAcc>>
    BY Given DEF JobOK, Record, At, storeVars
  <1>2. job'[Server].pc = "hookRead" /\ job'[Server].amount = i.amount
    BY <1>1, Given DEF Record, Goto, Job
  <1>3. /\ i.op \in Ops /\ i.tx \in Txns /\ i.amount \in Amounts /\ i.amount \in Int
        /\ i.src \in Accounts /\ i.dst \in Accounts
        /\ i.op \notin Creating => txn[i.tx] # Nil
    BY <1>1, Numbers DEF KnowsRequest, KnowsParties, WorksOn, Saving
  <1>4. i.op \in Creating => txn[i.tx] = Nil
    <2>1. OwnSlot
      BY DEF SerialInv, SafetyInv
    <2>. QED
      BY <1>1, <2>1, Given DEF OwnSlot, Creates
  <1>5. \A a : InFlight(job'[Server], a) = 0 /\ InFlight(i, a) \in Int
    <2>1. \A a : InFlight(job'[Server], a) = 0
      BY <1>2, <1>3, FlightFacts
    <2>2. \A a : InFlight(i, a) \in Int
      BY <1>3 DEF InFlight
    <2>. QED
      BY <2>1, <2>2
  <1>6. \A a \in Accounts : Settled(a) \in Int /\ Settled(a)' = account[a].bal
    BY <1>1, <1>5, SettledIs, Numbers
  <1>. QED
    BY <1>1, <1>2, <1>3, <1>4, <1>6

\* A payment is seen when it is saved.
LEMMA PaymentSeen ==
    ASSUME SerialInv, Record(Server),
           job[Server].op \in {"sendMoney", "confirmReceive"}
    PROVE  Abstract!Next
  <1>. DEFINE i == job[Server]
              t == i.tx
  <1>1. /\ i.pc = "record" /\ i.tx \in Txns /\ i.amount \in Amounts /\ i.amount \in Int
        /\ i.src \in Accounts /\ i.dst \in Accounts /\ UNCHANGED account
        /\ i.op \notin Creating => txn[i.tx] # Nil
        /\ i.op \in Creating => txn[i.tx] = Nil
        /\ \A a \in Accounts : Settled(a) \in Int /\ Settled(a)' = account[a].bal
    BY RecordFacts
  <1>2. /\ Pays(i) /\ PayReady(i, account) /\ ConfirmReady(i, txn)
    BY <1>1, Given DEF Pays, Ready
  <1>3. Owner[i.dst] # Owner[i.src] /\ account[i.src].bal >= 0
    BY <1>1, <1>2 DEF PayReady
  <1>4. \A a \in Accounts :
          InFlight(i, a) = (IF a = i.dst THEN i.amount ELSE 0)
                           - (IF a = i.src THEN i.amount ELSE 0)
    BY <1>1, FlightFacts
  <1>5. \A a \in Accounts : Settled(a) = account[a].bal - InFlight(i, a)
    BY SettledIs
  <1>6. \A a \in Accounts : account[a].bal \in Int
    BY Numbers
  <1>7. /\ \A a \in Accounts : Settled(a)' = Settled(a)
                                 - (IF a = i.src THEN i.amount ELSE 0)
                                 + (IF a = i.dst THEN i.amount ELSE 0)
        /\ i.amount <= Settled(i.src)
    <2>. HIDE DEF i
    <2>1. \A a \in Accounts : Settled(a)' = Settled(a)
                                 - (IF a = i.src THEN i.amount ELSE 0)
                                 + (IF a = i.dst THEN i.amount ELSE 0)
      BY <1>1, <1>4, <1>5, <1>6
    <2>2. i.src # i.dst
      BY <1>3
    <2>3. InFlight(i, i.src) = 0 - i.amount
      BY <1>1, <1>4, <2>2
    <2>4. i.amount <= Settled(i.src)
      BY <1>1, <1>3, <1>5, <1>6, <2>3
    <2>. QED
      BY <2>1, <2>4
  <1>8. Abstract!Move(i.src, i.dst, i.amount)
    BY <1>1, <1>3, <1>7, MoveSeen
  <1>9. CASE i.op = "sendMoney"
    <2>1. txn[t] = Nil
      BY <1>1, <1>9, OutcomeFacts
    <2>2. txn' = [txn EXCEPT ![t] = [type |-> "Send", status |-> "Success",
                                     from |-> i.src, to |-> i.dst,
                                     amount |-> i.amount]]
      <3>1. i.op \in Creating
        BY <1>9, OutcomeFacts
      <3>2. TypeOf[i.op] = "Send" /\ Outcome[i.op] = "Success"
        BY <1>9 DEF TypeOf, Outcome
      <3>. QED
        BY <3>1, <3>2 DEF Record
    <2>3. Abstract!Create(t, "Send", "Success", i.src, i.dst, i.amount)
      BY <2>2 DEF Abstract!Create
    <2>4. Abstract!Send(t)
      BY <1>1, <1>7, <1>8, <2>1, <2>3 DEF Abstract!Send
    <2>. QED
      BY <1>1, <2>4 DEF Abstract!Next
  <1>10. CASE i.op = "confirmReceive"
    <2>1. txn[t] # Nil /\ i.op \notin Creating
      BY <1>1, <1>10, OutcomeFacts
    <2>2. txn' = [txn EXCEPT ![t] = [txn[t] EXCEPT !.status = "Success"]]
      BY <1>10, <2>1 DEF Record, Outcome
    <2>3. /\ txn[t].status = "Pending" /\ i.amount = txn[t].amount
          /\ Owner[i.src] = Owner[txn[t].from] /\ Owner[i.dst] = Owner[txn[t].to]
      BY <1>1, <1>2, <1>10 DEF ConfirmReady
    <2>4. Abstract!Become(t, "Success")
      BY <2>2 DEF Abstract!Become
    <2>5. Abstract!Status(t) = "Pending"
      BY <2>1, <2>3 DEF Abstract!Status
    <2>6. Abstract!Settle(t)
      BY <1>1, <1>7, <1>8, <2>3, <2>4, <2>5 DEF Abstract!Settle
    <2>. QED
      BY <1>1, <2>6 DEF Abstract!Next
  <1>. QED
    BY <1>9, <1>10

\* A refund is seen when it is saved.
LEMMA RefundSeen ==
    ASSUME SerialInv, Record(Server), job[Server].op = "approveRefund"
    PROVE  Abstract!Next
  <1>. DEFINE i == job[Server]
              t == i.tx
  <1>1. /\ i.pc = "record" /\ i.tx \in Txns /\ i.amount \in Int
        /\ i.src \in Accounts /\ i.dst \in Accounts
        /\ txn[i.tx] # Nil /\ i.op \notin Creating
        /\ \A a \in Accounts : Settled(a) \in Int /\ Settled(a)' = account[a].bal
    BY RecordFacts, OutcomeFacts
  <1>2. /\ txn[t].status = "Refunding" /\ i.src = txn[t].from /\ i.dst = txn[t].to
        /\ i.amount = txn[t].amount
    BY <1>1, Given DEF Ready, RefundReady
  <1>3. Owner[i.src] # Owner[i.dst]
    BY <1>1, <1>2, Given DEF Orderly
  <1>4. \A a \in Accounts :
          InFlight(i, a) = (IF a = i.src THEN i.amount ELSE 0)
                           - (IF a = i.dst THEN i.amount ELSE 0)
    BY <1>1, FlightFacts
  <1>5. \A a \in Accounts : Settled(a) = account[a].bal - InFlight(i, a)
    BY SettledIs
  <1>6. \A a \in Accounts : account[a].bal \in Int
    BY Numbers
  <1>7. \A a \in Accounts : Settled(a)' = Settled(a)
                              - (IF a = i.dst THEN i.amount ELSE 0)
                              + (IF a = i.src THEN i.amount ELSE 0)
    <2>. HIDE DEF i
    <2>. QED
      BY <1>1, <1>4, <1>5, <1>6
  <1>8. Abstract!Move(txn[t].to, txn[t].from, txn[t].amount)
    BY <1>1, <1>2, <1>3, <1>7, MoveSeen
  <1>9. txn' = [txn EXCEPT ![t] = [txn[t] EXCEPT !.status = "Refunded"]]
    BY <1>1 DEF Record, Outcome
  <1>10. Abstract!Become(t, "Refunded")
    BY <1>9 DEF Abstract!Become
  <1>11. Abstract!Refund(t)
    BY <1>1, <1>2, <1>8, <1>10 DEF Abstract!Refund, Abstract!Status
  <1>. QED
    BY <1>1, <1>11 DEF Abstract!Next

\* The other saves change a status and no balance.
LEMMA StatusSeen ==
    ASSUME SerialInv, Record(Server),
           job[Server].op \notin {"sendMoney", "confirmReceive", "approveRefund"}
    PROVE  Abstract!Next
  <1>. DEFINE i == job[Server]
              t == i.tx
  <1>1. /\ i.pc = "record" /\ i.op \in Ops /\ i.tx \in Txns /\ i.amount \in Amounts
        /\ i.amount \in Int /\ i.src \in Accounts /\ i.dst \in Accounts
        /\ i.op \notin Creating => txn[i.tx] # Nil
        /\ i.op \in Creating => txn[i.tx] = Nil
        /\ \A a \in Accounts : Settled(a) \in Int /\ Settled(a)' = account[a].bal
    BY RecordFacts
  <1>2. \A a \in Accounts : InFlight(i, a) = 0
    BY <1>1, FlightFacts
  <1>3. \A a \in Accounts : Settled(a)' = Settled(a)
    BY <1>1, <1>2, SettledIs, Numbers
  <1>4. [a \in Accounts |-> Settled(a)]' = [a \in Accounts |-> Settled(a)]
    BY <1>3, NoMoveSeen
  <1>5. SaveReady(i, txn)
    BY Given DEF Ready
  <1>6. i.op \in {"reqReceiveMoney", "rejectReceive", "requestRefund", "rejectRefund",
                  "suspiciousTransaction"}
    BY <1>1 DEF Ops, Outcome
  <1>7. CASE i.op = "reqReceiveMoney"
    <2>1. txn[t] = Nil
      BY <1>1, <1>7, OutcomeFacts
    <2>2. txn' = [txn EXCEPT ![t] = [type |-> "Receive", status |-> "Pending",
                                     from |-> i.src, to |-> i.dst,
                                     amount |-> i.amount]]
      <3>1. i.op \in Creating
        BY <1>7, OutcomeFacts
      <3>2. TypeOf[i.op] = "Receive" /\ Outcome[i.op] = "Pending"
        BY <1>7 DEF TypeOf, Outcome
      <3>. QED
        BY <3>1, <3>2 DEF Record
    <2>3. Abstract!Create(t, "Receive", "Pending", i.src, i.dst, i.amount)
      BY <2>2 DEF Abstract!Create
    <2>4. Abstract!Ask(t)
      BY <1>1, <1>4, <2>1, <2>3 DEF Abstract!Ask
    <2>. QED
      BY <1>1, <2>4 DEF Abstract!Next
  <1>8. CASE i.op # "reqReceiveMoney"
    <2>1. txn[t] # Nil /\ i.op \notin Creating
      BY <1>1, <1>6, <1>8, OutcomeFacts
    <2>2. txn' = [txn EXCEPT ![t] = [txn[t] EXCEPT !.status = Outcome[i.op]]]
      BY <2>1 DEF Record
    <2>3. Abstract!Become(t, Outcome[i.op]) /\ Abstract!Status(t) = txn[t].status
      BY <2>1, <2>2 DEF Abstract!Become, Abstract!Status
    <2>4. txn[t].status # "None"
      BY <1>1, <2>1, Given DEF Transaction, Statuses
    <2>5. CASE i.op = "rejectReceive"
      <3>1. Abstract!Decline(t)
        BY <1>1, <1>4, <1>5, <2>3, <2>5 DEF SaveReady, Outcome, Abstract!Decline
      <3>. QED
        BY <1>1, <3>1 DEF Abstract!Next
    <2>6. CASE i.op = "requestRefund"
      <3>1. Abstract!Dispute(t)
        BY <1>1, <1>4, <1>5, <2>3, <2>4, <2>6 DEF SaveReady, Outcome, Abstract!Dispute
      <3>. QED
        BY <1>1, <3>1 DEF Abstract!Next
    <2>7. CASE i.op = "rejectRefund"
      <3>1. Abstract!Dismiss(t)
        BY <1>1, <1>4, <1>5, <2>3, <2>7 DEF SaveReady, Outcome, Abstract!Dismiss
      <3>. QED
        BY <1>1, <3>1 DEF Abstract!Next
    <2>8. CASE i.op = "suspiciousTransaction"
      <3>1. Abstract!Report(t)
        BY <1>1, <1>4, <1>5, <2>3, <2>4, <2>8 DEF SaveReady, Outcome, Abstract!Report
      <3>. QED
        BY <1>1, <3>1 DEF Abstract!Next
    <2>. QED
      BY <1>6, <1>8, <2>5, <2>6, <2>7, <2>8
  <1>. QED
    BY <1>7, <1>8

\* The save leaves two users as the parties of its transaction.
LEMMA RecordOnward ==
    ASSUME SerialInv, Record(Server), KeepsTerms
    PROVE  Onward
  <1>. DEFINE i == job[Server]
  <1>1. /\ i.pc = "record" /\ job'[Server].pc = "hookRead"
        /\ UNCHANGED <<account, defaultAcc>> /\ i.tx \in Txns
        /\ i.op \notin Creating => txn[i.tx] # Nil
    BY RecordFacts
  <1>2. Ready(job'[Server], account', txn')
    BY <1>1 DEF Ready, PayReady, ConfirmReady, RefundReady, SaveReady, RestReady,
                Pays, Paying, Refunding
  <1>3. ASSUME NEW t \in Txns, txn'[t] # Nil
        PROVE  Owner[txn'[t].from] # Owner[txn'[t].to]
    <2>1. CASE txn[t] # Nil
      BY <2>1, Given DEF KeepsTerms, Orderly
    <2>2. CASE txn[t] = Nil
      <3>1. t = i.tx /\ i.op \in Creating
        BY <1>1, <1>3, <2>2, Given DEF Record
      <3>2. txn'[t].from = i.src /\ txn'[t].to = i.dst
        BY <3>1, Given DEF Record
      <3>3. Owner[i.src] # Owner[i.dst]
        <4>1. CASE i.op = "sendMoney"
          BY <1>1, <4>1, Given DEF Ready, PayReady, Pays
        <4>2. CASE i.op = "reqReceiveMoney"
          BY <1>1, <4>2, Given DEF Ready, SaveReady
        <4>. QED
          BY <3>1, <4>1, <4>2, OutcomeFacts
      <3>. QED
        BY <3>2, <3>3
    <2>. QED
      BY <2>1, <2>2
  <1>4. Orderly'
    BY <1>1, <1>3, Given DEF Orderly, Found
  <1>. QED
    BY <1>2, <1>4 DEF Onward

-----------------------------------------------------------------------------
(* The invariant and the refinement                                        *)

absVars == <<[a \in Accounts |-> Settled(a)], txn>>

\* In the first states nothing is under way.
LEMMA InitSerial == Serially /\ Init => SerialInv /\ Abstract!Init
  <1>. SUFFICES ASSUME Serially, Init PROVE SerialInv /\ Abstract!Init
    OBVIOUS
  <1>1. Server \in Handlers /\ job[Server] = Idle
    BY DEF Serially, Init
  <1>2. SafetyInv
    BY InitSafety
  <1>3. /\ \A a \in Accounts : account[a] # Nil /\ account[a].bal = Opening
        /\ \A t \in Txns : txn[t] = Nil
    <2>1. \A a \in Accounts :
            account[a] = [bal |-> Opening, spent |-> 0, cap |-> DefaultCap]
      BY DEF Init, StoreInit
    <2>2. [bal |-> Opening, spent |-> 0, cap |-> DefaultCap] \in Doc
      BY StoreAssumption DEF Doc
    <2>. QED
      BY <2>1, <2>2, StoreAssumption DEF Init
  <1>4. \A u \in Users : defaultAcc[u] # Nil => Owner[defaultAcc[u]] = u
    BY DEF Init, StoreInit
  <1>5. SerialInv
    BY <1>1, <1>2, <1>3, <1>4, IdleReady DEF SerialInv, Orderly, Found
  <1>6. \A a \in Accounts : Settled(a) = Opening
    <2>1. \A a : InFlight(Idle, a) = 0
      BY FlightFacts DEF Idle
    <2>. QED
      BY <1>1, <1>3, <2>1, SettledIs, StoreAssumption
  <1>7. Abstract!Init
    BY <1>6 DEF Abstract!Init, Init
  <1>. QED
    BY <1>5, <1>7

\* A step that is not seen is a stuttering step of Payments.
LEMMA UnseenStutters == Unseen => UNCHANGED absVars
  BY DEF Unseen, absVars

\* A new limit changes no balance, also of an account that is in use.
LEMMA LimitOnward ==
    ASSUME SerialInv, NEW a \in Accounts, SetLimit(a)
    PROVE  Onward /\ Unseen
  <1>1. PICK cap \in Caps : ChangeLimit(a, cap)
    BY DEF SetLimit
  <1>2. /\ account' = [account EXCEPT ![a].cap = cap, ![a].spent = 0]
        /\ UNCHANGED <<defaultAcc, txn, job>>
    BY <1>1 DEF ChangeLimit, UpdateLimit, handlerVars
  <1>3. /\ account'[a] \in Doc /\ account'[a].bal = account[a].bal
        /\ \A b \in Accounts : b # a => account'[b] = account[b]
    <2>1. cap \in Nat /\ account[a] \in Doc
      BY StoreAssumption, Given
    <2>. QED
      BY <1>2, <2>1, Given DEF Doc
  <1>4. \A b \in Accounts : account'[b] # Nil /\ account'[b].bal = account[b].bal
    BY <1>3, Given
  <1>5. Orderly'
    BY <1>2, <1>4, Given, StillOrderly
  <1>6. Unseen
    <2>1. \A b : Settled(b)' = account'[b].bal - InFlight(job[Server], b)
      BY <1>2, SettledIs
    <2>. QED
      BY <1>2, <1>4, <2>1, SettledIs DEF Unseen
  <1>7. Ready(job'[Server], account', txn')
    <2>. DEFINE i == job[Server]
    <2>1. /\ JobOK(i, txn) /\ Ready(i, account, txn) /\ Phases
      BY Given DEF SerialInv, SafetyInv
    <2>2. /\ i.pc \in Paying \cup Refunding \cup Saving => i.src \in Accounts
          /\ i.pc \in {"debit"} \cup Refunding => i.dst \in Accounts
          /\ i.pc = "credit" => i.dst \in Accounts
      BY <2>1 DEF JobOK, KnowsRequest, KnowsParties
    <2>. HIDE DEF i
    <2>3. PayReady(i, account')
      BY <1>4, <2>1, <2>2 DEF Ready, PayReady, Pays, Paying, Saving
    <2>4. RefundReady(i, account', txn)
      BY <1>4, <2>1, <2>2 DEF Ready, RefundReady, Refunding, Saving
    <2>5. RestReady(i, account')
      BY <1>4, <2>1, <2>2 DEF Ready, RestReady, Saving
    <2>6. Ready(i, account', txn)
      BY <2>1, <2>3, <2>4, <2>5 DEF Ready
    <2>. QED
      BY <1>2, <2>6 DEF i
  <1>. QED
    BY <1>5, <1>6, <1>7 DEF Onward

\* A step of the handler.
LEMMA ServeSerial ==
    ASSUME SerialInv, Serve(Server), KeepsTerms
    PROVE  Onward /\ (Abstract!Next \/ Unseen)
  <1>1. ~ Abort(Server) /\ ~ PayeeMissing(Server)
    BY NoPayeeMissing DEF Abort, SerialInv, Serially
  <1>2. CASE Submit(Server)
    BY <1>2, SubmitUnseen
  <1>3. CASE Record(Server)
    BY <1>3, RecordOnward, PaymentSeen, RefundSeen, StatusSeen
  <1>4. CASE \/ ReadPayer(Server) \/ RefusePayer(Server) \/ FindPayee(Server)
             \/ ReadPayee(Server)
    BY <1>4, PayReads
  <1>5. CASE Debit(Server) \/ Credit(Server)
    BY <1>5, PayMoves
  <1>6. CASE ReadTo(Server) \/ ReadFrom(Server)
    BY <1>6, RefundReads
  <1>7. CASE GiveBack(Server) \/ TakeBack(Server)
    BY <1>7, RefundMoves
  <1>8. CASE HookRead(Server) \/ HookWrite(Server) \/ SetDefaultAcc(Server)
    BY <1>8, AfterSave
  <1>. QED
    BY <1>1, <1>2, <1>3, <1>4, <1>5, <1>6, <1>7, <1>8 DEF Serve, Advance

\* Every step keeps the invariant, and is a step of Payments or none.
LEMMA StepSerial ==
    SerialInv /\ [Next]_vars => SerialInv' /\ [Abstract!Next]_absVars
  <1>. SUFFICES ASSUME SerialInv, [Next]_vars
                PROVE  SerialInv' /\ [Abstract!Next]_absVars
    OBVIOUS
  <1>1. SafetyInv' /\ KeepsTerms
    BY StepSafety DEF SerialInv
  <1>2. Serially'
    BY DEF SerialInv, Serially
  <1>3. Onward /\ (Abstract!Next \/ Unseen) => SerialInv' /\ [Abstract!Next]_absVars
    BY <1>1, <1>2, UnseenStutters DEF Onward, SerialInv
  <1>4. ASSUME NEW h \in Handlers, Serve(h) PROVE Onward /\ (Abstract!Next \/ Unseen)
    <2>1. h = Server
      BY DEF SerialInv, Serially
    <2>. QED
      BY <1>1, <1>4, <2>1, ServeSerial
  <1>5. ASSUME NEW a \in Accounts, SetLimit(a) PROVE Onward /\ Unseen
    BY <1>5, LimitOnward
  <1>6. ASSUME NEW a \in Accounts, Delete(a) PROVE FALSE
    BY <1>6 DEF Delete, SerialInv, Serially
  <1>7. CASE UNCHANGED vars
    <2>1. UNCHANGED <<account, defaultAcc, txn, job>>
      BY <1>7 DEF vars, storeVars, handlerVars
    <2>2. Unseen
      BY <2>1, SettledIs DEF Unseen
    <2>3. Onward
      BY <2>1, Given DEF Onward, Orderly, Found
    <2>. QED
      BY <1>3, <2>2, <2>3
  <1>. QED
    BY <1>3, <1>4, <1>5, <1>6, <1>7 DEF Next, Rest

\* Served one after the other, without failures, deletions and payments to
\* oneself, the handlers keep the promise that every operation on a transaction
\* happens at once: for any accounts, amounts, limits and number of requests.
\* Payments sees a payment or a refund in the step that saves its status.
THEOREM Refinement == Serially /\ Spec => ImplementsPayments
  <1>1. Serially /\ Spec => []SerialInv
    BY InitSerial, StepSerial, PTL DEF Spec
  <1>2. Serially /\ Init => Abstract!Init
    BY InitSerial
  <1>3. SerialInv /\ [Next]_vars =>
          [Abstract!Next]_<<[a \in Accounts |-> Settled(a)], txn>>
    BY StepSerial DEF absVars
  <1>. QED
    BY <1>1, <1>2, <1>3, PTL DEF Spec, ImplementsPayments, Abstract!Spec

-----------------------------------------------------------------------------
(* Money is conserved                                                      *)

\* What is on all accounts, as Payments sees them.
Holdings == SumFunctionOnSet([a \in Accounts |-> Settled(a)], Accounts)

\* A move takes from one account what it gives to another.
LEMMA MoveConserves ==
    ASSUME \A a \in Accounts : Settled(a) \in Int, NEW b \in Accounts,
           NEW c \in Accounts, NEW n \in Int, Abstract!Move(b, c, n)
    PROVE  Holdings' = Holdings
  <1>. DEFINE f == [a \in Accounts |-> Settled(a)]
              e == [a \in Accounts |-> Settled(a)]'
  <1>1. b # c /\ e = [f EXCEPT ![b] = @ - n, ![c] = @ + n]
    BY DEF Abstract!Move
  <1>2. f = [a \in Accounts |-> f[a]] /\ \A a \in Accounts : f[a] \in Int
    OBVIOUS
  <1>3. SumFunctionOnSet(e, Accounts) = SumFunctionOnSet(f, Accounts)
    <2>. HIDE DEF e, f
    <2>1. /\ e[b] = f[b] - n /\ e[c] = f[c] + n
          /\ \A a \in Accounts \ {b, c} : e[a] = f[a]
      BY <1>1, <1>2
    <2>. QED
      BY <1>1, <1>2, <2>1, FinitelyManyAccounts, SumMove
  <1>. QED
    BY <1>3 DEF Holdings

\* Every step of Payments keeps what is on all accounts.
LEMMA PaymentsConserve ==
    ASSUME TypeInv, \A a \in Accounts : Settled(a) \in Int, [Abstract!Next]_absVars
    PROVE  Holdings' = Holdings
  <1>1. CASE [a \in Accounts |-> Settled(a)]' = [a \in Accounts |-> Settled(a)]
    BY <1>1 DEF Holdings
  <1>2. ASSUME NEW t \in Txns, Abstract!Send(t) PROVE Holdings' = Holdings
    <2>1. PICK b \in Accounts, c \in Accounts, n \in Amounts : Abstract!Move(b, c, n)
      BY <1>2 DEF Abstract!Send
    <2>2. n \in Int
      BY TransferAssumption
    <2>. QED
      BY <2>1, <2>2, MoveConserves
  <1>3. ASSUME NEW t \in Txns, txn[t] # Nil
        PROVE  /\ txn[t].from \in Accounts /\ txn[t].to \in Accounts
               /\ txn[t].amount \in Int
    <2>1. txn[t] \in Transaction
      BY <1>3 DEF TypeInv, TypeOK
    <2>2. \A n \in Amounts : n \in Int
      BY TransferAssumption
    <2>. QED
      BY <2>1, <2>2 DEF Transaction
  <1>4. ASSUME NEW t \in Txns, Abstract!Settle(t) PROVE Holdings' = Holdings
    <2>1. txn[t] # Nil
      BY <1>4 DEF Abstract!Settle, Abstract!Status
    <2>2. PICK b \in Accounts, c \in Accounts : Abstract!Move(b, c, txn[t].amount)
      BY <1>4 DEF Abstract!Settle
    <2>. QED
      BY <1>3, <2>1, <2>2, MoveConserves
  <1>5. ASSUME NEW t \in Txns, Abstract!Refund(t) PROVE Holdings' = Holdings
    <2>1. txn[t] # Nil
      BY <1>5 DEF Abstract!Refund, Abstract!Status
    <2>2. Abstract!Move(txn[t].to, txn[t].from, txn[t].amount)
      BY <1>5 DEF Abstract!Refund
    <2>. QED
      BY <1>3, <2>1, <2>2, MoveConserves
  <1>6. ASSUME NEW t \in Txns,
               \/ Abstract!Ask(t) \/ Abstract!Decline(t) \/ Abstract!Dispute(t)
               \/ Abstract!Dismiss(t) \/ Abstract!Report(t)
        PROVE  [a \in Accounts |-> Settled(a)]' = [a \in Accounts |-> Settled(a)]
    BY <1>6 DEF Abstract!Ask, Abstract!Decline, Abstract!Dispute, Abstract!Dismiss,
                Abstract!Report
  <1>7. CASE UNCHANGED absVars
    BY <1>1, <1>7 DEF absVars
  <1>. QED
    BY <1>1, <1>2, <1>4, <1>5, <1>6, <1>7 DEF Abstract!Next

\* The balances less what is in progress are numbers.
LEMMA SettledNumber ==
    ASSUME SerialInv
    PROVE  \A a \in Accounts : Settled(a) \in Int
  <1>1. /\ \A a \in Accounts : account[a].bal \in Int
        /\ job[Server].amount \in Int
    BY Numbers
  <1>. QED
    BY <1>1 DEF Settled, Moved

\* Served one after the other, without failures, deletions and payments to
\* oneself, the handlers neither make money nor lose any: for any accounts,
\* amounts, limits and number of requests.
THEOREM Conservation == Serially /\ Spec => []MoneyConserved
  <1>. DEFINE Inv == SerialInv /\ MoneyConserved
  <1>1. MoneyConserved <=> Holdings = Opening * Cardinality(Accounts)
    BY DEF MoneyConserved, Holdings, SumFunction
  <1>2. Serially /\ Init => Inv
    <2>. SUFFICES ASSUME Serially, Init PROVE Inv
      OBVIOUS
    <2>1. SerialInv /\ [a \in Accounts |-> Settled(a)] = [a \in Accounts |-> Opening]
      BY InitSerial DEF Abstract!Init
    <2>. DEFINE f == [a \in Accounts |-> Opening]
    <2>2. (\A a \in Accounts : f[a] = Opening) /\ Opening \in Int
      BY StoreAssumption
    <2>3. SumFunctionOnSet(f, Accounts) = Opening * Cardinality(Accounts)
      <3>. HIDE DEF f
      <3>. QED
        BY <2>2, FinitelyManyAccounts, SumConstant
    <2>. QED
      BY <1>1, <2>1, <2>3 DEF Holdings
  <1>3. Inv /\ [Next]_vars => Inv'
    <2>. SUFFICES ASSUME Inv, [Next]_vars PROVE Inv'
      OBVIOUS
    <2>1. SerialInv' /\ [Abstract!Next]_absVars /\ TypeInv
      BY StepSerial, Given
    <2>2. Holdings' = Holdings
      BY <2>1, SettledNumber, PaymentsConserve
    <2>3. MoneyConserved'
      BY <1>1, <2>2 DEF MoneyConserved, Holdings, SumFunction
    <2>. QED
      BY <2>1, <2>3
  <1>. QED
    BY <1>2, <1>3, PTL DEF Spec

-----------------------------------------------------------------------------
(* Nothing is paid twice                                                   *)

\* The request in progress has credited its payee, or repaid its sender, and
\* its transaction does not show it yet.
HasPaid(j, t) == Pays(j) /\ j.pc = "record" /\ j.tx = t

HasRepaid(j, t) ==
    j.op = "approveRefund" /\ j.pc \in {"takeBack", "record"} /\ j.tx = t

\* What is still to be paid has not been paid, and a refund that is to be
\* decided on has been asked for once more than refunds were paid.
Once ==
    \A t \in Txns :
      /\ trail[t].paid <= 1
      /\ /\ txn[t] = Nil \/ txn[t].status = "Pending"
         /\ ~ HasPaid(job[Server], t)
         => trail[t].paid = 0
      /\ trail[t].repaid <= trail[t].disputed
      /\ /\ txn[t] # Nil /\ txn[t].status = "Refunding"
         /\ ~ HasRepaid(job[Server], t)
         => trail[t].repaid < trail[t].disputed

OnceInv == SerialInv /\ Once

\* The counters of a transaction.
LEMMA TrailNumbers ==
    ASSUME TypeInv
    PROVE  \A t \in Txns : /\ trail[t].paid \in Nat /\ trail[t].repaid \in Nat
                           /\ trail[t].disputed \in Nat
  BY DEF TypeInv, TypeOK, TrailEntry

\* A step that neither pays nor saves.
LEMMA OnceStays ==
    ASSUME Once, UNCHANGED txn,
           \A t \in Txns : /\ trail'[t].paid = trail[t].paid
                           /\ trail'[t].repaid = trail[t].repaid
                           /\ trail'[t].disputed = trail[t].disputed
                           /\ HasPaid(job'[Server], t) <=> HasPaid(job[Server], t)
                           /\ HasRepaid(job'[Server], t) <=> HasRepaid(job[Server], t)
    PROVE  Once'
  BY DEF Once, HasPaid, HasRepaid, Pays

\* The credit of a payment.
LEMMA CreditOnce ==
    ASSUME OnceInv, Serve(Server), Credit(Server)
    PROVE  Once'
  <1>. DEFINE i == job[Server]
              j == job'[Server]
  <1>1. SerialInv /\ Once /\ Phases /\ OwnSlot /\ TypeInv
    BY DEF OnceInv, SerialInv, SafetyInv
  <1>2. /\ i.pc = "credit" /\ j.pc = "record" /\ j.op = i.op /\ j.tx = i.tx
        /\ UNCHANGED txn
    BY <1>1, PaySteps, Given DEF Route, Kept, Credit
  <1>3. i.op \in {"sendMoney", "confirmReceive"} /\ i.tx \in Txns
    BY <1>1, <1>2, Given DEF Phases, Paying, JobOK, KnowsRequest
  <1>4. \A t \in Txns : /\ trail'[t].paid = IF t = i.tx THEN trail[t].paid + 1
                                                        ELSE trail[t].paid
                        /\ trail'[t].repaid = trail[t].repaid
                        /\ trail'[t].disputed = trail[t].disputed
    <2>1. i.dst \in Accounts
      BY <1>1, <1>2, Given DEF JobOK, KnowsParties, KnowsRequest
    <2>2. Found(i.dst)
      BY <1>1, <2>1 DEF SerialInv, Orderly
    <2>3. Serve(Server) /\ Counts(Server)
      BY <1>1, Given, Counted
    <2>. QED
      BY <1>2, <2>2, <2>3 DEF Counts, Tick, Moves
  <1>5. txn[i.tx] = Nil \/ txn[i.tx].status = "Pending"
    <2>1. CASE i.op = "sendMoney"
      BY <1>1, <1>2, <2>1, Given, OutcomeFacts DEF OwnSlot, Creates, Paying
    <2>2. CASE i.op = "confirmReceive"
      BY <1>1, <1>2, <2>2, Given DEF Ready, ConfirmReady, Pays, Paying
    <2>. QED
      BY <1>3, <2>1, <2>2
  <1>6. trail[i.tx].paid = 0
    BY <1>1, <1>2, <1>3, <1>5 DEF Once, HasPaid
  <1>7. \A t : /\ HasPaid(j, t) <=> t = i.tx
               /\ ~ HasPaid(i, t) /\ ~ HasRepaid(i, t) /\ ~ HasRepaid(j, t)
    BY <1>2, <1>3 DEF HasPaid, HasRepaid, Pays
  <1>. QED
    BY <1>1, <1>2, <1>4, <1>6, <1>7 DEF Once

\* The two writes of a refund.
LEMMA RefundOnce ==
    ASSUME OnceInv, Serve(Server), GiveBack(Server) \/ TakeBack(Server)
    PROVE  Once'
  <1>. DEFINE i == job[Server]
              j == job'[Server]
  <1>1. SerialInv /\ Once /\ Phases /\ TypeInv
    BY DEF OnceInv, SerialInv, SafetyInv
  <1>2. /\ \/ i.pc = "giveBack" /\ j.pc = "takeBack"
           \/ i.pc = "takeBack" /\ j.pc = "record"
        /\ j.op = i.op /\ j.tx = i.tx /\ UNCHANGED txn
    BY <1>1, RefundSteps, Given DEF Route, Kept, GiveBack, TakeBack
  <1>3. i.op = "approveRefund" /\ i.tx \in Txns
    BY <1>1, <1>2, Given DEF Phases, Refunding, JobOK, KnowsRequest
  <1>4. \A t \in Txns : /\ trail'[t].paid = trail[t].paid
                        /\ trail'[t].repaid =
                             IF t = i.tx /\ i.pc = "giveBack"
                               THEN trail[t].repaid + 1 ELSE trail[t].repaid
                        /\ trail'[t].disputed = trail[t].disputed
    <2>1. i.src \in Accounts
      BY <1>1, <1>2, Given DEF JobOK, KnowsParties, KnowsRequest, Refunding
    <2>2. Found(i.src)
      BY <1>1, <2>1 DEF SerialInv, Orderly
    <2>3. Serve(Server) /\ Counts(Server)
      BY <1>1, Given, Counted
    <2>. QED
      BY <1>2, <2>2, <2>3 DEF Counts, Tick, Moves
  <1>5. txn[i.tx] # Nil /\ txn[i.tx].status = "Refunding"
    BY <1>1, <1>2, <1>3, Given, OutcomeFacts DEF Ready, RefundReady, JobOK, WorksOn, Refunding
  <1>6. i.pc = "giveBack" => trail[i.tx].repaid < trail[i.tx].disputed
    BY <1>1, <1>3, <1>5 DEF Once, HasRepaid
  <1>7. \A t : /\ ~ HasPaid(i, t) /\ ~ HasPaid(j, t)
               /\ HasRepaid(j, t) <=> t = i.tx
               /\ HasRepaid(i, t) <=> t = i.tx /\ i.pc = "takeBack"
    BY <1>2, <1>3 DEF HasPaid, HasRepaid, Pays
  <1>. QED
    BY <1>1, <1>2, <1>4, <1>6, <1>7, TrailNumbers DEF Once

\* The save.
LEMMA RecordOnce ==
    ASSUME OnceInv, Serve(Server), Record(Server)
    PROVE  Once'
  <1>. DEFINE i == job[Server]
              j == job'[Server]
  <1>1. SerialInv /\ Once /\ TypeInv
    BY DEF OnceInv, SerialInv, SafetyInv
  <1>2. /\ i.pc = "record" /\ j.pc = "hookRead" /\ i.op \in Ops /\ i.tx \in Txns
        /\ i.op \notin Creating => txn[i.tx] # Nil
        /\ i.op \in Creating => txn[i.tx] = Nil
    BY <1>1, RecordFacts
  <1>3. \A t \in Txns : /\ trail'[t].paid = trail[t].paid
                        /\ trail'[t].repaid = trail[t].repaid
                        /\ trail'[t].disputed =
                             IF t = i.tx /\ i.op = "requestRefund"
                               THEN trail[t].disputed + 1 ELSE trail[t].disputed
    BY <1>1, <1>2, Given, Counted DEF Counts, Tick, Moves
  <1>4. /\ \A t \in Txns : t # i.tx => txn'[t] = txn[t]
        /\ txn'[i.tx] # Nil /\ txn'[i.tx].status = Outcome[i.op]
    <2>1. /\ \A t \in Txns : t # i.tx => txn'[t] = txn[t]
          /\ i.op \in Creating =>
               txn'[i.tx] = [type |-> TypeOf[i.op], status |-> Outcome[i.op],
                             from |-> i.src, to |-> i.dst, amount |-> i.amount]
          /\ i.op \notin Creating =>
               txn'[i.tx] = [txn[i.tx] EXCEPT !.status = Outcome[i.op]]
      <3>1. /\ i.op \in Creating =>
                 txn' = [txn EXCEPT ![i.tx] =
                           [type |-> TypeOf[i.op], status |-> Outcome[i.op],
                            from |-> i.src, to |-> i.dst, amount |-> i.amount]]
            /\ i.op \notin Creating =>
                 txn' = [txn EXCEPT ![i.tx] =
                           [txn[i.tx] EXCEPT !.status = Outcome[i.op]]]
        BY DEF Record
      <3>2. \A t \in Txns : t # i.tx => txn'[t] = txn[t]
        BY <1>1, <1>2, <3>1, Given
      <3>. QED
        BY <1>1, <1>2, <3>1, <3>2, Given
    <2>2. CASE i.op \in Creating
      <3>1. txn'[i.tx] \in Transaction
        BY <1>1, <1>2, <2>1, <2>2, RecordFacts, OutcomeFacts DEF Transaction
      <3>. QED
        BY <2>1, <2>2, <3>1, TransferAssumption
    <2>3. CASE i.op \notin Creating
      <3>1. txn[i.tx] \in Transaction /\ Outcome[i.op] \in Statuses
        <4>1. txn[i.tx] # Nil /\ txn[i.tx] \in Transaction \cup {Nil}
          BY <1>1, <1>2, <2>3, Given
        <4>2. Outcome[i.op] \in Statuses
          BY <1>2, OutcomeFacts
        <4>. QED
          BY <4>1, <4>2
      <3>2. txn'[i.tx] \in Transaction /\ txn'[i.tx].status = Outcome[i.op]
        BY <2>1, <2>3, <3>1 DEF Transaction
      <3>. QED
        BY <2>1, <3>2, TransferAssumption
    <2>. QED
      BY <2>2, <2>3, <2>1
  <1>5. Outcome[i.op] = "Pending" => i.op = "reqReceiveMoney"
    BY <1>2 DEF Ops, Outcome
  <1>6. Outcome[i.op] = "Refunding" => i.op = "requestRefund"
    BY <1>2 DEF Ops, Outcome
  <1>7. \A t : /\ ~ HasPaid(j, t) /\ ~ HasRepaid(j, t)
               /\ t # i.tx => ~ HasPaid(i, t) /\ ~ HasRepaid(i, t)
    BY <1>2 DEF HasPaid, HasRepaid
  <1>8. ASSUME NEW t \in Txns, t # i.tx
        PROVE  /\ trail'[t].paid <= 1
               /\ txn'[t] = Nil \/ txn'[t].status = "Pending" => trail'[t].paid = 0
               /\ trail'[t].repaid <= trail'[t].disputed
               /\ txn'[t] # Nil /\ txn'[t].status = "Refunding" =>
                    trail'[t].repaid < trail'[t].disputed
    BY <1>1, <1>3, <1>4, <1>7, <1>8 DEF Once
  <1>9. /\ trail'[i.tx].paid <= 1
        /\ txn'[i.tx].status = "Pending" => trail'[i.tx].paid = 0
    <2>1. CASE i.op = "reqReceiveMoney"
      <3>1. txn[i.tx] = Nil /\ ~ HasPaid(i, i.tx)
        BY <1>2, <2>1, OutcomeFacts DEF HasPaid, Pays
      <3>. QED
        BY <1>1, <1>2, <1>3, <3>1 DEF Once
    <2>2. CASE i.op # "reqReceiveMoney"
      BY <1>1, <1>2, <1>3, <1>4, <1>5, <2>2 DEF Once
    <2>. QED
      BY <2>1, <2>2
  <1>10. /\ trail'[i.tx].repaid <= trail'[i.tx].disputed
         /\ txn'[i.tx].status = "Refunding" =>
              trail'[i.tx].repaid < trail'[i.tx].disputed
    <2>1. trail[i.tx].repaid <= trail[i.tx].disputed
      BY <1>1, <1>2 DEF Once
    <2>. QED
      BY <1>1, <1>2, <1>3, <1>4, <1>6, <2>1, TrailNumbers
  <1>. QED
    BY <1>4, <1>7, <1>8, <1>9, <1>10 DEF Once

\* The other steps.
LEMMA OtherOnce ==
    ASSUME OnceInv, Serve(Server), ~ Credit(Server), ~ GiveBack(Server),
           ~ TakeBack(Server), ~ Record(Server)
    PROVE  Once'
  <1>. DEFINE i == job[Server]
              j == job'[Server]
  <1>1. SerialInv /\ Once /\ TypeInv /\ Server \in Handlers
    BY Given DEF OnceInv
  <1>2. UNCHANGED txn
    BY <1>1, TxnSteps
  <1>3. i.pc \notin {"takeBack", "record"}
    <2>1. ~ Abort(Server)
      BY <1>1 DEF Abort, SerialInv, Serially
    <2>. QED
      BY <2>1 DEF Serve, Submit, SendMoney, ReqReceiveMoney, ConfirmReceive, RejectReceive,
           RequestRefund, ApproveRefund, RejectRefund, SuspiciousTransaction,
           ChangeDefault, Load, Accept, Advance, ReadPayer, RefusePayer, FindPayee,
           ReadPayee, Debit, PayeeMissing, ReadTo, ReadFrom, HookRead, HookWrite,
           SetDefaultAcc, At
  <1>4. \/ j.pc \notin {"takeBack", "record"}
        \/ j.op \notin {"sendMoney", "confirmReceive", "approveRefund"}
    <2>1. CASE Submit(Server)
      <3>1. \/ j.pc \in {"findPayee", "setDefault"}
            \/ j.op = "reqReceiveMoney"
            \/ j.op \in Ops \ Creating /\ Loaded(j)
        BY <1>1, <2>1, SubmitSteps
      <3>. QED
        BY <3>1, OutcomeFacts DEF Loaded
    <2>2. CASE ReadPayer(Server) \/ FindPayee(Server) \/ ReadPayee(Server) \/ Debit(Server)
      BY <1>1, <2>2, PaySteps DEF Idle
    <2>3. CASE ReadTo(Server) \/ ReadFrom(Server)
      BY <1>1, <2>3, RefundSteps DEF Idle
    <2>4. CASE \/ HookRead(Server) \/ HookWrite(Server) \/ RefusePayer(Server)
               \/ PayeeMissing(Server) \/ SetDefaultAcc(Server) \/ Abort(Server)
      BY <1>1, <2>4, SaveSteps DEF Idle
    <2>. QED
      BY <2>1, <2>2, <2>3, <2>4 DEF Serve, Advance
  <1>5. ~ Moves(Server, "credit", "record") /\ ~ Moves(Server, "giveBack", "takeBack")
    <2>1. i.pc # "credit" \/ j.pc # "record"
      <3>1. i.pc = "credit" => i.op \in {"sendMoney", "confirmReceive"}
        BY <1>1, Given DEF SerialInv, SafetyInv, Phases, Paying
      <3>2. CASE i.pc = "credit"
        <4>1. PayeeMissing(Server) \/ Abort(Server)
          BY <3>2 DEF Serve, Submit, SendMoney, ReqReceiveMoney, ConfirmReceive,
             RejectReceive, RequestRefund, ApproveRefund, RejectRefund,
             SuspiciousTransaction, ChangeDefault, Load, Accept, Advance, ReadPayer,
             RefusePayer, FindPayee, ReadPayee, Debit, ReadTo, ReadFrom, HookRead,
             HookWrite, SetDefaultAcc, At
        <4>. QED
          BY <1>1, <4>1, SaveSteps DEF Idle
      <3>. QED
        BY <3>2
    <2>2. i.pc # "giveBack" \/ j.pc # "takeBack"
      <3>1. CASE i.pc = "giveBack"
        <4>1. Abort(Server)
          BY <3>1 DEF Serve, Submit, SendMoney, ReqReceiveMoney, ConfirmReceive,
             RejectReceive, RequestRefund, ApproveRefund, RejectRefund,
             SuspiciousTransaction, ChangeDefault, Load, Accept, Advance, ReadPayer,
             RefusePayer, FindPayee, ReadPayee, Debit, PayeeMissing, ReadTo, ReadFrom,
             HookRead, HookWrite, SetDefaultAcc, At
        <4>. QED
          BY <1>1, <4>1, SaveSteps DEF Idle
      <3>. QED
        BY <3>1
    <2>. QED
      BY <2>1, <2>2 DEF Moves
  <1>6. \A t \in Txns : /\ trail'[t].paid = trail[t].paid
                        /\ trail'[t].repaid = trail[t].repaid
                        /\ trail'[t].disputed = trail[t].disputed
    BY <1>1, <1>3, <1>5, Counted DEF Counts, Tick, Moves
  <1>7. \A t : /\ ~ HasPaid(i, t) /\ ~ HasRepaid(i, t)
               /\ ~ HasPaid(j, t) /\ ~ HasRepaid(j, t)
    BY <1>3, <1>4 DEF HasPaid, HasRepaid, Pays
  <1>. QED
    BY <1>1, <1>2, <1>6, <1>7, OnceStays

\* Every step keeps it.
LEMMA StepOnce == OnceInv /\ [Next]_vars => OnceInv'
  <1>. SUFFICES ASSUME OnceInv, [Next]_vars PROVE OnceInv'
    OBVIOUS
  <1>1. SerialInv /\ Once /\ SerialInv'
    BY StepSerial DEF OnceInv
  <1>2. ASSUME NEW h \in Handlers, Serve(h) PROVE Once'
    <2>1. h = Server
      BY <1>1 DEF SerialInv, Serially
    <2>. QED
      BY <1>2, <2>1, CreditOnce, RefundOnce, RecordOnce, OtherOnce
  <1>3. ASSUME UNCHANGED <<txn, job, trail>> PROVE Once'
    BY <1>1, <1>3 DEF Once
  <1>4. ASSUME NEW a \in Accounts, SetLimit(a) \/ Delete(a) PROVE Once'
    <2>1. UNCHANGED <<txn, job, trail>>
      BY <1>4 DEF SetLimit, ChangeLimit, Delete, handlerVars, historyVars
    <2>. QED
      BY <1>3, <2>1
  <1>5. CASE UNCHANGED vars
    <2>1. UNCHANGED <<txn, job, trail>>
      BY <1>5 DEF vars, handlerVars, historyVars
    <2>. QED
      BY <1>1, <1>3, <2>1 DEF OnceInv
  <1>. QED
    BY <1>1, <1>2, <1>4, <1>5 DEF Next, Rest, OnceInv

\* Served one after the other, a payment is made once, and a refund once for
\* each time it was asked for.
THEOREM NothingTwice == Serially /\ Spec => []NoRepetition
  <1>1. Serially /\ Init => OnceInv
    <2>. SUFFICES ASSUME Serially, Init PROVE OnceInv
      OBVIOUS
    <2>1. SerialInv
      BY InitSerial
    <2>2. \A t \in Txns : trail[t] = NoTrail /\ txn[t] = Nil
      BY DEF Init
    <2>. QED
      BY <2>1, <2>2 DEF OnceInv, Once, NoTrail
  <1>2. OnceInv => NoRepetition
    BY DEF OnceInv, Once, NoRepetition
  <1>. QED
    BY <1>1, <1>2, StepOnce, PTL DEF Spec

-----------------------------------------------------------------------------
(* The limit of the only account of a user                                 *)

\* What a payment has taken from the account and the hook has not charged yet.
Owed(j, a) ==
    IF /\ j.op \in {"sendMoney", "confirmReceive"} /\ j.src = a
       /\ j.pc \in {"credit", "record", "hookRead", "hookWrite"}
      THEN j.amount ELSE 0

\* A document, stored or held, shows a limit and a spending that cover it.
Covers(doc, out, owed) == out <= doc.cap /\ out <= doc.spent + owed

HeldCovers(j, a, out) ==
    /\ HoldsPayer(j) /\ j.src = a => Covers(j.payer, out, Owed(j, a))
    /\ HoldsPayee(j) /\ j.dst = a => Covers(j.payee, out, Owed(j, a))
    /\ j.pc \in {"findPayee", "readPayee", "debit"} /\ j.src = a =>
         WithinRemaining(j.payer, j.amount)

\* The hook of a payment charges an account of the user who paid.
ChargesPayer(j, txs) ==
    j.op \in {"sendMoney", "confirmReceive"} /\ j.pc = "hookRead" =>
      Owner[j.src] = Owner[txs[j.tx].from]

LimitOK(a) ==
    /\ Covers(account[a], book[a].out, Owed(job[Server], a))
    /\ HeldCovers(job[Server], a, book[a].out)

LimitInv ==
    /\ SerialInv
    /\ ChargesPayer(job[Server], txn)
    /\ \A a \in Accounts : Sole(a) => LimitOK(a)

\* What is compared are numbers.
LEMMA LimitNumbers ==
    ASSUME SerialInv, NEW a \in Accounts
    PROVE  /\ account[a].cap \in Nat /\ account[a].spent \in Nat
           /\ book[a].out \in Nat
           /\ job[Server].amount \in Nat /\ Owed(job[Server], a) \in Nat
  <1>1. account[a].cap \in Nat /\ account[a].spent \in Nat
    BY Given DEF Doc
  <1>2. book[a].out \in Nat
    BY Given DEF TypeInv, TypeOK, BookEntry
  <1>3. job[Server].amount \in Amounts \cup {0}
    BY Given DEF JobOK, Job
  <1>4. \A n \in Amounts \cup {0} : n \in Nat
    BY TransferAssumption
  <1>. QED
    BY <1>1, <1>2, <1>3, <1>4 DEF Owed

\* Nothing is owed by a handler that rests, and it holds nothing.
LEMMA IdleOwes ==
    \A a, out, txs : /\ Owed(Idle, a) = 0 /\ HeldCovers(Idle, a, out)
                     /\ ChargesPayer(Idle, txs)
  BY DEF Owed, HeldCovers, ChargesPayer, Idle, HoldsPayer, HoldsPayee

\* A handler ends that owes nothing.
LEMMA EndLimit ==
    ASSUME LimitInv, UNCHANGED <<account, book>>, job'[Server] = Idle,
           job[Server].pc \notin {"credit", "record", "hookRead", "hookWrite"}
    PROVE  ChargesPayer(job'[Server], txn') /\ \A a \in Accounts : Sole(a) => LimitOK(a)'
  <1>1. \A a : Owed(job[Server], a) = 0
    BY DEF Owed
  <1>. QED
    BY <1>1, IdleOwes DEF LimitInv, LimitOK

\* A payment reads the account of the payer and judges the copy, and then reads the
\* account of the payee.
LEMMA PayReadsLimit ==
    ASSUME LimitInv,
           \/ ReadPayer(Server) \/ RefusePayer(Server) \/ FindPayee(Server)
           \/ ReadPayee(Server)
    PROVE  ChargesPayer(job'[Server], txn') /\ \A a \in Accounts : Sole(a) => LimitOK(a)'
  <1>. DEFINE i == job[Server]
              j == job'[Server]
  <1>1. UNCHANGED <<account, book, txn>>
    BY DEF ReadPayer, RefusePayer, FindPayee, ReadPayee, storeVars, Unrecorded
  <1>2. /\ SerialInv /\ TypeInv /\ Server \in Handlers
        /\ i.pc \notin {"credit", "record", "hookRead", "hookWrite"}
    BY Given DEF LimitInv, ReadPayer, RefusePayer, FindPayee, ReadPayee, At
  <1>3. CASE j = Idle
    BY <1>1, <1>2, <1>3, EndLimit
  <1>4. CASE j # Idle
    <2>1. /\ j.amount = i.amount /\ j.src = i.src
          /\ \/ /\ i.pc = "readPayer" /\ j.pc = "findPayee" /\ j.payer = account[i.src]
                /\ WithinRemaining(account[i.src], i.amount)
             \/ i.pc = "findPayee" /\ j.pc = "readPayee" /\ j.payer = i.payer
             \/ /\ i.pc = "readPayee" /\ j.pc = "debit" /\ j.payer = i.payer
                /\ j.payee = account[j.dst]
      <3>1. CASE ReadPayer(Server)
        BY <1>2, <3>1, PaySteps DEF Kept, ReadPayer, CanPay
      <3>2. CASE FindPayee(Server)
        BY <1>2, <1>4, <3>2, PaySteps DEF Kept
      <3>3. CASE ReadPayee(Server)
        BY <1>2, <3>3, PaySteps DEF Kept, Route
      <3>4. CASE RefusePayer(Server)
        BY <1>2, <1>4, <3>4, SaveSteps
      <3>. QED
        BY <3>1, <3>2, <3>3, <3>4
    <2>2. \A a : Owed(i, a) = 0 /\ Owed(j, a) = 0
      BY <2>1 DEF Owed
    <2>3. ASSUME NEW a \in Accounts, Sole(a) PROVE LimitOK(a)'
      <3>1. /\ Covers(account[a], book[a].out, 0)
            /\ HeldCovers(i, a, book[a].out)
        BY <2>2, <2>3 DEF LimitInv, LimitOK
      <3>. HIDE DEF i, j
      <3>2. HeldCovers(j, a, book[a].out)
        BY <2>1, <2>2, <3>1 DEF HeldCovers, HoldsPayer, HoldsPayee
      <3>. USE DEF i, j
      <3>. QED
        BY <1>1, <2>2, <3>1, <3>2 DEF LimitOK
    <2>. QED
      BY <2>1, <2>3 DEF ChargesPayer
  <1>. QED
    BY <1>3, <1>4

\* A refund reads both accounts, and owes nothing.
LEMMA RefundReadsLimit ==
    ASSUME LimitInv, ReadTo(Server) \/ ReadFrom(Server)
    PROVE  ChargesPayer(job'[Server], txn') /\ \A a \in Accounts : Sole(a) => LimitOK(a)'
  <1>. DEFINE i == job[Server]
              j == job'[Server]
  <1>1. UNCHANGED <<account, book, txn>>
    BY DEF ReadTo, ReadFrom, storeVars, Unrecorded
  <1>2. /\ SerialInv /\ TypeInv /\ Server \in Handlers
        /\ i.pc \notin {"credit", "record", "hookRead", "hookWrite"}
    BY Given DEF LimitInv, ReadTo, ReadFrom, At
  <1>3. CASE j = Idle
    BY <1>1, <1>2, <1>3, EndLimit
  <1>4. CASE j # Idle
    <2>1. /\ j.src = i.src /\ j.dst = i.dst
          /\ \/ i.pc = "readTo" /\ j.pc = "readFrom" /\ j.payee = account[i.dst]
             \/ /\ i.pc = "readFrom" /\ j.pc = "giveBack"
                /\ j.payer = account[i.src] /\ j.payee = i.payee
      BY <1>2, <1>4, RefundSteps DEF Kept, Route
    <2>2. \A a : Owed(i, a) = 0 /\ Owed(j, a) = 0
      BY <2>1 DEF Owed
    <2>3. ASSUME NEW a \in Accounts, Sole(a) PROVE LimitOK(a)'
      <3>1. /\ Covers(account[a], book[a].out, 0)
            /\ HeldCovers(i, a, book[a].out)
        BY <2>2, <2>3 DEF LimitInv, LimitOK
      <3>. HIDE DEF i, j
      <3>2. HeldCovers(j, a, book[a].out)
        BY <2>1, <2>2, <3>1 DEF HeldCovers, HoldsPayer, HoldsPayee
      <3>. USE DEF i, j
      <3>. QED
        BY <1>1, <2>2, <3>1, <3>2 DEF LimitOK
    <2>. QED
      BY <2>1, <2>3 DEF ChargesPayer
  <1>. QED
    BY <1>3, <1>4

\* A write of the copy of an account: what is held of the other accounts stays
\* held, or is let go.
LEMMA WriteLimit ==
    ASSUME LimitInv, NEW b \in Accounts, NEW doc \in Doc,
           UpdateAccount(b, doc),
           \A a \in Accounts \ {b} : /\ book'[a].out = book[a].out
                                     /\ Owed(job'[Server], a) = Owed(job[Server], a),
           Sole(b) => Covers(doc, book'[b].out, Owed(job'[Server], b)),
           \A a \in Accounts : Sole(a) => HeldCovers(job'[Server], a, book'[a].out)
    PROVE  \A a \in Accounts : Sole(a) => LimitOK(a)'
  <1>. SUFFICES ASSUME NEW a \in Accounts, Sole(a) PROVE LimitOK(a)'
    OBVIOUS
  <1>1. account'[b] = doc /\ \A c \in Accounts : c # b => account'[c] = account[c]
    BY Written DEF LimitInv
  <1>2. CASE a = b
    BY <1>1, <1>2 DEF LimitOK
  <1>3. CASE a # b
    BY <1>1, <1>3 DEF LimitInv, LimitOK
  <1>. QED
    BY <1>2, <1>3

\* What a payment that writes has and holds.
LEMMA PayHolds ==
    ASSUME LimitInv, job[Server].pc \in {"debit", "credit"}
    PROVE  LET i == job[Server]
           IN  /\ i.op \in {"sendMoney", "confirmReceive"}
               /\ i.src \in Accounts /\ i.dst \in Accounts /\ i.src # i.dst
               /\ i.amount \in Amounts /\ i.amount \in Nat
               /\ i.payee \in Doc
               /\ i.pc = "debit" => i.payer \in Doc
  <1>. DEFINE i == job[Server]
  <1>1. /\ SerialInv /\ i \in Job /\ KnowsRequest(i) /\ KnowsParties(i) /\ HasCopies(i)
    BY Given DEF LimitInv, JobOK
  <1>2. /\ i.op \in {"sendMoney", "confirmReceive"}
        /\ i.src \in Accounts /\ i.dst \in Accounts /\ i.amount \in Amounts
    <2>1. Phases
      BY <1>1 DEF SerialInv, SafetyInv
    <2>2. i.pc \in Paying
      BY DEF Paying
    <2>. QED
      BY <1>1, <2>1, <2>2, Given DEF Phases, KnowsRequest, KnowsParties
  <1>3. i.payee # Nil /\ Owner[i.dst] # Owner[i.src]
    BY <1>1, <1>2, Given DEF Ready, PayReady, Pays, Paying
  <1>4. i.payee \in Doc
    BY <1>1, <1>3 DEF Job
  <1>5. i.pc = "debit" => i.payer \in Doc
    BY <1>1 DEF HasCopies, HoldsPayer
  <1>6. \A n \in Amounts : n \in Nat
    BY TransferAssumption
  <1>. QED
    BY <1>2, <1>3, <1>4, <1>5, <1>6

\* The debit: what the copy showed was left of the limit covers it.
LEMMA DebitLimit ==
    ASSUME LimitInv, Debit(Server)
    PROVE  ChargesPayer(job'[Server], txn') /\ \A a \in Accounts : Sole(a) => LimitOK(a)'
  <1>. DEFINE i == job[Server]
              j == job'[Server]
              n == i.amount
              doc == Debited(i.payer, n)
  <1>1. /\ SerialInv /\ TypeInv /\ Server \in Handlers
        /\ i.pc = "debit" /\ j.pc = "credit"
        /\ j.op = i.op /\ j.src = i.src /\ j.dst = i.dst /\ j.amount = n
        /\ j.payee = i.payee
    BY Given, PaySteps DEF LimitInv, Kept, Route
  <1>2. /\ i.op \in {"sendMoney", "confirmReceive"}
        /\ i.src \in Accounts /\ i.dst \in Accounts /\ i.src # i.dst
        /\ n \in Amounts /\ n \in Nat /\ i.payee \in Doc /\ i.payer \in Doc
    BY <1>1, PayHolds
  <1>3. /\ UpdateAccount(i.src, doc) /\ doc \in Doc
        /\ doc.cap = i.payer.cap /\ doc.spent = i.payer.spent
    BY <1>2, DocArithmetic DEF Debit, Debited, Doc
  <1>4. /\ book'[i.src].out = book[i.src].out + n
        /\ \A a \in Accounts \ {i.src} : book'[a].out = book[a].out
        /\ \A a \in Accounts : book[a].out \in Nat
    BY <1>1, <1>2 DEF Debit, Noted, SerialInv, Orderly, TypeInv, TypeOK, BookEntry
  <1>5. \A a : Owed(i, a) = 0 /\ Owed(j, a) = IF a = i.src THEN n ELSE 0
    BY <1>1, <1>2 DEF Owed
  <1>6. Sole(i.src) => Covers(doc, book'[i.src].out, n)
    <2>. SUFFICES ASSUME Sole(i.src) PROVE Covers(doc, book'[i.src].out, n)
      OBVIOUS
    <2>1. HeldCovers(i, i.src, book[i.src].out)
      BY <1>2 DEF LimitInv, LimitOK
    <2>2. /\ book[i.src].out <= i.payer.cap /\ book[i.src].out <= i.payer.spent + 0
          /\ n <= i.payer.cap - i.payer.spent
      BY <1>1, <1>5, <2>1 DEF HeldCovers, HoldsPayer, Covers, WithinRemaining
    <2>3. i.payer.cap \in Nat /\ i.payer.spent \in Nat /\ book[i.src].out \in Nat
      BY <1>2, <1>4 DEF Doc
    <2>. HIDE DEF i, j, doc, n
    <2>. QED
      BY <1>2, <1>3, <1>4, <2>2, <2>3 DEF Covers
  <1>7. ASSUME NEW a \in Accounts, Sole(a) PROVE HeldCovers(j, a, book'[a].out)
    <2>1. HeldCovers(i, a, book[a].out)
      BY <1>7 DEF LimitInv, LimitOK
    <2>. HIDE DEF i, j, doc, n
    <2>. QED
      BY <1>1, <1>2, <1>4, <1>5, <2>1 DEF HeldCovers, HoldsPayer, HoldsPayee
  <1>8. \A a \in Accounts : Sole(a) => LimitOK(a)'
    <2>. HIDE DEF doc, n
    <2>. QED
      BY <1>2, <1>3, <1>4, <1>5, <1>6, <1>7, WriteLimit
  <1>. QED
    BY <1>1, <1>8 DEF ChargesPayer

\* The credit leaves limit and spending of the payee as they are.
LEMMA CreditLimit ==
    ASSUME LimitInv, Credit(Server)
    PROVE  ChargesPayer(job'[Server], txn') /\ \A a \in Accounts : Sole(a) => LimitOK(a)'
  <1>. DEFINE i == job[Server]
              j == job'[Server]
              n == i.amount
              doc == Credited(i.payee, n)
  <1>1. /\ SerialInv /\ TypeInv /\ Server \in Handlers
        /\ i.pc = "credit" /\ j.pc = "record"
        /\ j.op = i.op /\ j.src = i.src /\ j.dst = i.dst /\ j.amount = n
    BY Given, PaySteps DEF LimitInv, Kept, Route
  <1>2. /\ i.op \in {"sendMoney", "confirmReceive"}
        /\ i.src \in Accounts /\ i.dst \in Accounts /\ i.src # i.dst
        /\ n \in Amounts /\ n \in Nat /\ i.payee \in Doc
    BY <1>1, PayHolds
  <1>3. /\ UpdateAccount(i.dst, doc) /\ doc \in Doc
        /\ doc.cap = i.payee.cap /\ doc.spent = i.payee.spent
    BY <1>2, DocArithmetic DEF Credit, Credited, Doc
  <1>4. \A a \in Accounts : book'[a].out = book[a].out
    BY <1>1, <1>2 DEF Credit, Noted, SerialInv, Orderly, TypeInv, TypeOK, BookEntry
  <1>5. \A a : Owed(j, a) = Owed(i, a)
    BY <1>1, <1>2 DEF Owed
  <1>6. Sole(i.dst) => Covers(doc, book'[i.dst].out, Owed(i, i.dst))
    <2>. SUFFICES ASSUME Sole(i.dst) PROVE Covers(doc, book'[i.dst].out, Owed(i, i.dst))
      OBVIOUS
    <2>1. HeldCovers(i, i.dst, book[i.dst].out)
      BY <1>2 DEF LimitInv, LimitOK
    <2>. HIDE DEF i, j, doc, n
    <2>. QED
      BY <1>1, <1>2, <1>3, <1>4, <2>1 DEF HeldCovers, HoldsPayee, Covers
  <1>7. \A a \in Accounts : HeldCovers(j, a, book'[a].out)
    BY <1>1 DEF HeldCovers, HoldsPayer, HoldsPayee
  <1>8. \A a \in Accounts : Sole(a) => LimitOK(a)'
    <2>. HIDE DEF doc, n
    <2>. QED
      BY <1>2, <1>3, <1>4, <1>5, <1>6, <1>7, WriteLimit
  <1>. QED
    BY <1>1, <1>8 DEF ChargesPayer

\* The two writes of a refund leave limits and spendings as they are.
LEMMA RefundLimit ==
    ASSUME LimitInv, GiveBack(Server) \/ TakeBack(Server)
    PROVE  ChargesPayer(job'[Server], txn') /\ \A a \in Accounts : Sole(a) => LimitOK(a)'
  <1>. DEFINE i == job[Server]
              j == job'[Server]
              n == i.amount
  <1>1. /\ SerialInv /\ TypeInv /\ Server \in Handlers
        /\ i.pc \in {"giveBack", "takeBack"}
        /\ JobOK(i, txn) /\ Phases
    BY Given DEF LimitInv, SerialInv, SafetyInv, GiveBack, TakeBack, At
  <1>2. /\ i.op = "approveRefund" /\ n \in Amounts
        /\ i.src \in Accounts /\ i.dst \in Accounts /\ i.payee \in Doc
        /\ i.pc = "giveBack" => i.payer \in Doc
        /\ i.tx \in Txns /\ txn[i.tx] # Nil
    BY <1>1 DEF Phases, Refunding, JobOK, KnowsRequest, KnowsParties, HasCopies,
                HoldsPayer, WorksOn, Creating, TypeOf
  <1>3. i.src # i.dst
    BY <1>1, <1>2, Given DEF Ready, RefundReady, Refunding, Orderly
  <1>4. \A a \in Accounts : book'[a].out = book[a].out
    BY <1>1, <1>2 DEF GiveBack, TakeBack, Noted, TypeInv, TypeOK, BookEntry
  <1>5. j.op = i.op /\ j.src = i.src /\ j.dst = i.dst
    BY <1>1, RefundSteps DEF Kept, Route
  <1>6. \A a : Owed(i, a) = 0 /\ Owed(j, a) = 0
    BY <1>2, <1>5 DEF Owed
  <1>7. CASE GiveBack(Server)
    <2>. DEFINE doc == Credited(i.payer, n)
    <2>1. i.pc = "giveBack" /\ j.pc = "takeBack" /\ j.payee = i.payee
      BY <1>1, <1>7, RefundSteps
    <2>2. /\ UpdateAccount(i.src, doc) /\ doc \in Doc
          /\ doc.cap = i.payer.cap /\ doc.spent = i.payer.spent
      BY <1>2, <1>7, <2>1, DocArithmetic DEF GiveBack, Credited, Doc
    <2>3. ASSUME NEW a \in Accounts, Sole(a)
          PROVE  /\ a = i.src => Covers(doc, book[a].out, 0)
                 /\ HeldCovers(j, a, book[a].out)
      <3>1. HeldCovers(i, a, book[a].out)
        BY <2>3 DEF LimitInv, LimitOK
      <3>. HIDE DEF i, j, doc, n
      <3>. QED
        BY <1>5, <1>6, <2>1, <2>2, <3>1
           DEF HeldCovers, HoldsPayer, HoldsPayee, Covers
    <2>4. \A a \in Accounts : Sole(a) => LimitOK(a)'
      <3>. HIDE DEF doc, n
      <3>. QED
        BY <1>2, <1>4, <1>6, <2>2, <2>3, WriteLimit
    <2>. QED
      BY <2>1, <2>4 DEF ChargesPayer
  <1>8. CASE TakeBack(Server)
    <2>. DEFINE doc == Debited(i.payee, n)
    <2>1. i.pc = "takeBack" /\ j.pc = "record"
      BY <1>1, <1>8, RefundSteps
    <2>2. /\ UpdateAccount(i.dst, doc) /\ doc \in Doc
          /\ doc.cap = i.payee.cap /\ doc.spent = i.payee.spent
      BY <1>2, <1>8, DocArithmetic DEF TakeBack, Debited, Doc
    <2>3. ASSUME NEW a \in Accounts, Sole(a)
          PROVE  /\ a = i.dst => Covers(doc, book[a].out, 0)
                 /\ HeldCovers(j, a, book[a].out)
      <3>1. HeldCovers(i, a, book[a].out)
        BY <2>3 DEF LimitInv, LimitOK
      <3>. HIDE DEF i, j, doc, n
      <3>. QED
        BY <1>5, <1>6, <2>1, <2>2, <3>1
           DEF HeldCovers, HoldsPayer, HoldsPayee, Covers
    <2>4. \A a \in Accounts : Sole(a) => LimitOK(a)'
      <3>. HIDE DEF doc, n
      <3>. QED
        BY <1>2, <1>4, <1>6, <2>2, <2>3, WriteLimit
    <2>. QED
      BY <2>1, <2>4 DEF ChargesPayer
  <1>. QED
    BY <1>7, <1>8

\* The save, whose transaction names an account of the payer.
LEMMA RecordLimit ==
    ASSUME LimitInv, KeepsTerms, Record(Server)
    PROVE  ChargesPayer(job'[Server], txn') /\ \A a \in Accounts : Sole(a) => LimitOK(a)'
  <1>. DEFINE i == job[Server]
              j == job'[Server]
  <1>1. /\ SerialInv /\ TypeInv /\ Server \in Handlers
        /\ i.pc = "record" /\ j.pc = "hookRead"
        /\ j.op = i.op /\ j.tx = i.tx /\ j.src = i.src /\ j.amount = i.amount
        /\ JobOK(i, txn)
    BY Given, SaveSteps DEF LimitInv, Kept, Route
  <1>2. UNCHANGED <<account, book>>
    BY DEF Record, storeVars
  <1>3. \A a : Owed(j, a) = Owed(i, a)
    BY <1>1 DEF Owed
  <1>4. \A a \in Accounts : HeldCovers(j, a, book[a].out)
    BY <1>1 DEF HeldCovers, HoldsPayer, HoldsPayee
  <1>5. \A a \in Accounts : Sole(a) => LimitOK(a)'
    <2>. SUFFICES ASSUME NEW a \in Accounts, Sole(a) PROVE LimitOK(a)'
      OBVIOUS
    <2>1. Covers(account[a], book[a].out, Owed(i, a))
      BY DEF LimitInv, LimitOK
    <2>. QED
      BY <1>2, <1>3, <1>4, <2>1 DEF LimitOK
  <1>6. ASSUME i.op \in {"sendMoney", "confirmReceive"}
        PROVE  Owner[i.src] = Owner[txn'[i.tx].from]
    <2>1. i.tx \in Txns
      BY <1>1 DEF JobOK, KnowsRequest, Saving
    <2>2. CASE i.op = "sendMoney"
      <3>1. txn'[i.tx].from = i.src
        BY <1>1, <2>1, <2>2, Given DEF Record, Creating, TypeOf
      <3>. QED
        BY <3>1
    <2>3. CASE i.op = "confirmReceive"
      <3>1. txn[i.tx] # Nil
        BY <1>1, <2>3 DEF JobOK, WorksOn, Creating, TypeOf
      <3>2. txn'[i.tx].from = txn[i.tx].from
        BY <2>1, <3>1 DEF KeepsTerms
      <3>3. Owner[i.src] = Owner[txn[i.tx].from]
        BY <1>1, <2>3, Given DEF Ready, ConfirmReady, Pays
      <3>. QED
        BY <3>2, <3>3
    <2>. QED
      BY <1>6, <2>2, <2>3
  <1>. QED
    BY <1>1, <1>5, <1>6 DEF ChargesPayer

\* The hook reads the account that the transaction names: for the only account of a
\* user it is the one that paid.
LEMMA HookReadLimit ==
    ASSUME LimitInv, HookRead(Server)
    PROVE  ChargesPayer(job'[Server], txn') /\ \A a \in Accounts : Sole(a) => LimitOK(a)'
  <1>. DEFINE i == job[Server]
              j == job'[Server]
              f == txn[i.tx].from
  <1>1. /\ SerialInv /\ TypeInv /\ Server \in Handlers /\ i.pc = "hookRead"
        /\ JobOK(i, txn)
    BY Given DEF LimitInv, HookRead, At
  <1>2. UNCHANGED <<account, book, txn>>
    BY DEF HookRead, storeVars, Unrecorded
  <1>3. i.tx \in Txns /\ txn[i.tx] # Nil /\ i.src \in Accounts
    BY <1>1 DEF JobOK, KnowsRequest, WorksOn, Saving
  <1>4. f \in Accounts
    BY <1>1, <1>3, Given DEF Transaction
  <1>5. Found(f)
    BY <1>1, <1>4, Given DEF Orderly
  <1>6. /\ j.pc = "hookWrite" /\ j.op = i.op /\ j.amount = i.amount
        /\ j.src = f /\ j.payer = account[f]
    <2>1. job' = [job EXCEPT ![Server].pc = "hookWrite", ![Server].src = f,
                             ![Server].payer = account[f]]
      BY <1>5 DEF HookRead
    <2>. QED
      BY <1>1, <2>1, Given DEF Job
  <1>7. ASSUME NEW a \in Accounts, Sole(a) PROVE Owed(j, a) = Owed(i, a)
    <2>1. ASSUME i.op \in {"sendMoney", "confirmReceive"}
          PROVE  i.src = a <=> f = a
      <3>1. Owner[i.src] = Owner[f]
        BY <1>1, <2>1 DEF LimitInv, ChargesPayer
      <3>. HIDE DEF f
      <3>. QED
        BY <1>3, <1>4, <1>7, <3>1 DEF Sole
    <2>. HIDE DEF f
    <2>. QED
      BY <1>1, <1>6, <2>1 DEF Owed
  <1>8. ASSUME NEW a \in Accounts, Sole(a) PROVE LimitOK(a)'
    <2>1. Covers(account[a], book[a].out, Owed(j, a))
      BY <1>7, <1>8 DEF LimitInv, LimitOK
    <2>2. HeldCovers(j, a, book[a].out)
      <3>. HIDE DEF f, j
      <3>. QED
        BY <1>6, <2>1 DEF HeldCovers, HoldsPayer, HoldsPayee
    <2>. QED
      BY <1>2, <2>1, <2>2 DEF LimitOK
  <1>. QED
    BY <1>6, <1>8 DEF ChargesPayer

\* The hook charges what is owed.
LEMMA HookWriteLimit ==
    ASSUME LimitInv, HookWrite(Server)
    PROVE  ChargesPayer(job'[Server], txn') /\ \A a \in Accounts : Sole(a) => LimitOK(a)'
  <1>. DEFINE i == job[Server]
              j == job'[Server]
              n == i.amount
              doc == Charged(i.payer, n)
  <1>1. /\ SerialInv /\ TypeInv /\ Server \in Handlers /\ i.pc = "hookWrite"
        /\ j = Idle /\ JobOK(i, txn)
    BY Given, SaveSteps DEF LimitInv, HookWrite, At
  <1>2. /\ i.src \in Accounts /\ n \in Amounts /\ i.payer \in Doc
    BY <1>1 DEF JobOK, KnowsRequest, HasCopies, HoldsPayer, Saving
  <1>3. /\ UpdateAccount(i.src, doc) /\ doc \in Doc
        /\ doc.cap = i.payer.cap /\ doc.spent = i.payer.spent + n
    BY <1>2, DocArithmetic DEF HookWrite, Charged, Doc
  <1>4. /\ \A a \in Accounts : book'[a].out = book[a].out
        /\ \A a \in Accounts : book[a].out \in Nat
    BY <1>1, <1>2 DEF HookWrite, Noted, SerialInv, Orderly, TypeInv, TypeOK, BookEntry
  <1>5. n \in Nat /\ Owed(i, i.src) \in {0, n}
    <2>1. \A m \in Amounts : m \in Nat
      BY TransferAssumption
    <2>. QED
      BY <1>2, <2>1 DEF Owed
  <1>6. \A a \in Accounts \ {i.src} : Owed(j, a) = Owed(i, a)
    BY <1>1, IdleOwes DEF Owed
  <1>7. Sole(i.src) => Covers(doc, book'[i.src].out, 0)
    <2>. SUFFICES ASSUME Sole(i.src) PROVE Covers(doc, book'[i.src].out, 0)
      OBVIOUS
    <2>1. HeldCovers(i, i.src, book[i.src].out)
      BY <1>2 DEF LimitInv, LimitOK
    <2>2. /\ book[i.src].out <= i.payer.cap
          /\ book[i.src].out <= i.payer.spent + Owed(i, i.src)
      BY <1>1, <2>1 DEF HeldCovers, HoldsPayer, Covers
    <2>3. i.payer.cap \in Nat /\ i.payer.spent \in Nat /\ book[i.src].out \in Nat
      BY <1>2, <1>4 DEF Doc
    <2>. HIDE DEF i, j, doc, n
    <2>. QED
      BY <1>2, <1>3, <1>4, <1>5, <2>2, <2>3 DEF Covers
  <1>8. \A a \in Accounts : Sole(a) => LimitOK(a)'
    <2>. HIDE DEF doc, n
    <2>. QED
      BY <1>1, <1>2, <1>3, <1>4, <1>6, <1>7, IdleOwes, WriteLimit
  <1>. QED
    BY <1>1, <1>8, IdleOwes

\* A request begins with nothing owed, and a payment with an amount that the copy of
\* the account allows.
LEMMA SubmitLimit ==
    ASSUME LimitInv, Submit(Server)
    PROVE  ChargesPayer(job'[Server], txn') /\ \A a \in Accounts : Sole(a) => LimitOK(a)'
  <1>. DEFINE i == job[Server]
              j == job'[Server]
  <1>1. SerialInv /\ TypeInv /\ Server \in Handlers /\ job \in [Handlers -> Job]
    BY Given DEF LimitInv
  <1>2. UNCHANGED <<account, book, txn>>
    <2>1. UNCHANGED <<storeVars, txn, book, trail>>
      BY <1>1, SubmitSteps
    <2>. QED
      BY <2>1 DEF storeVars
  <1>3. i.pc = "idle"
    BY DEF Submit, SendMoney, ReqReceiveMoney, ConfirmReceive, RejectReceive,
           RequestRefund, ApproveRefund, RejectRefund, SuspiciousTransaction,
           ChangeDefault, Load, Accept
  <1>4. \/ j.pc = "findPayee" /\ WithinRemaining(j.payer, j.amount) /\ j.payer = account[j.src]
        \/ j.pc \in {"record", "setDefault"} /\ j.op \notin {"sendMoney", "confirmReceive"}
        \/ j.pc \in {"readPayer", "readTo"}
    <2>1. CASE SendMoney(Server)
      <3>1. PICK a \in Accounts, v \in Users, n \in Amounts :
              /\ WithinRemaining(account[a], n)
              /\ Start(Server, [Idle EXCEPT !.op = "sendMoney", !.pc = "findPayee",
                                            !.tx = accepted + 1, !.amount = n,
                                            !.peer = v, !.src = a,
                                            !.payer = account[a]])
        BY <2>1 DEF SendMoney
      <3>2. /\ j.pc = "findPayee" /\ j.payer = account[a] /\ j.src = a /\ j.amount = n
        BY <1>1, <3>1 DEF Start, Idle
      <3>. QED
        BY <3>1, <3>2
    <2>2. CASE ~ SendMoney(Server)
      <3>1. j.op # "sendMoney"
        <4>1. ASSUME NEW op \in Ops \ {"sendMoney"}, NEW t, NEW next,
                     Load(Server, op, t, next)
              PROVE  j.op # "sendMoney"
          BY <1>1, <4>1 DEF Load, Start, Idle
        <4>2. CASE ReqReceiveMoney(Server)
          BY <1>1, <4>2 DEF ReqReceiveMoney, Start, Idle
        <4>3. CASE ChangeDefault(Server)
          BY <1>1, <4>3 DEF ChangeDefault, Start, Idle
        <4>. QED
          BY <2>2, <4>1, <4>2, <4>3, OutcomeFacts
             DEF Submit, ConfirmReceive, RejectReceive, RequestRefund, ApproveRefund,
                 RejectRefund, SuspiciousTransaction, Creating, TypeOf
      <3>2. \/ j.op = "reqReceiveMoney" /\ j.pc = "record"
            \/ j.op = "changeDefault" /\ j.pc = "setDefault"
            \/ Loaded(j)
        BY <1>1, <3>1, SubmitSteps
      <3>. QED
        BY <3>1, <3>2 DEF Loaded
    <2>. QED
      BY <2>1, <2>2
  <1>5. \A a : Owed(i, a) = 0 /\ Owed(j, a) = 0
    BY <1>3, <1>4 DEF Owed
  <1>6. ASSUME NEW a \in Accounts, Sole(a) PROVE LimitOK(a)'
    <2>1. Covers(account[a], book[a].out, 0)
      BY <1>5, <1>6 DEF LimitInv, LimitOK
    <2>2. HeldCovers(j, a, book[a].out)
      <3>. HIDE DEF i, j
      <3>. QED
        BY <1>4, <1>5, <2>1 DEF HeldCovers, HoldsPayer, HoldsPayee
    <2>. QED
      BY <1>2, <1>5, <2>1, <2>2 DEF LimitOK
  <1>. QED
    BY <1>4, <1>6 DEF ChargesPayer

\* A new limit starts from zero, and so does what has been paid out since: what a
\* handler holds may be written over it, and covers that.
LEMMA NewLimit ==
    ASSUME LimitInv, NEW b \in Accounts, SetLimit(b)
    PROVE  ChargesPayer(job'[Server], txn') /\ \A a \in Accounts : Sole(a) => LimitOK(a)'
  <1>. DEFINE i == job[Server]
  <1>1. PICK cap \in Caps : ChangeLimit(b, cap)
    BY DEF SetLimit
  <1>2. /\ account' = [account EXCEPT ![b].cap = cap, ![b].spent = 0]
        /\ book' = [book EXCEPT ![b].spent = 0, ![b].out = 0]
        /\ UNCHANGED <<txn, job>>
    BY <1>1 DEF ChangeLimit, UpdateLimit, handlerVars
  <1>3. SerialInv /\ TypeInv /\ Server \in Handlers /\ JobOK(i, txn) /\ cap \in Nat
    BY Given, StoreAssumption DEF LimitInv
  <1>4. /\ \A a \in Accounts \ {b} : account'[a] = account[a] /\ book'[a] = book[a]
        /\ account'[b].cap = cap /\ account'[b].spent = 0 /\ book'[b].out = 0
    <2>1. account[b] \in Doc /\ account \in [Accounts -> Doc]
      BY <1>3, Given
    <2>2. book[b] \in BookEntry /\ book \in [Accounts -> BookEntry]
      BY <1>3 DEF TypeInv, TypeOK
    <2>. QED
      BY <1>2, <2>1, <2>2 DEF Doc, BookEntry
  <1>5. ASSUME NEW a \in Accounts, Sole(a) PROVE LimitOK(a)'
    <2>1. CASE a # b
      BY <1>2, <1>4, <1>5, <2>1 DEF LimitInv, LimitOK
    <2>2. CASE a = b
      <3>1. Owed(i, a) \in Nat
        BY <1>3, LimitNumbers
      <3>2. Covers(account'[a], 0, Owed(i, a))
        BY <1>3, <1>4, <2>2, <3>1 DEF Covers
      <3>3. \A doc \in Doc : Covers(doc, 0, Owed(i, a))
        BY <3>1 DEF Covers, Doc
      <3>4. /\ HoldsPayer(i) => i.payer \in Doc
            /\ HoldsPayee(i) => i.payee \in Doc
        <4>1. i.pc \in {"debit", "credit"} => i.payee \in Doc
          BY PayHolds
        <4>. QED
          BY <1>3, <4>1 DEF JobOK, HasCopies, HoldsPayee
      <3>5. HeldCovers(i, a, 0)
        <4>1. HeldCovers(i, a, book[a].out)
          BY <1>5 DEF LimitInv, LimitOK
        <4>. HIDE DEF i
        <4>. QED
          BY <3>3, <3>4, <4>1 DEF HeldCovers
      <3>. QED
        BY <1>2, <1>4, <2>2, <3>2, <3>5 DEF LimitOK
    <2>. QED
      BY <2>1, <2>2
  <1>. QED
    BY <1>2, <1>5 DEF LimitInv

\* Every step keeps the invariant.
LEMMA StepLimit == LimitInv /\ [Next]_vars => LimitInv'
  <1>. SUFFICES ASSUME LimitInv, [Next]_vars PROVE LimitInv'
    OBVIOUS
  <1>. DEFINE Kept3 == /\ ChargesPayer(job'[Server], txn')
                       /\ \A a \in Accounts : Sole(a) => LimitOK(a)'
  <1>1. SerialInv /\ SerialInv' /\ KeepsTerms
    BY StepSerial, StepSafety DEF LimitInv, SerialInv
  <1>2. Kept3 => LimitInv'
    BY <1>1 DEF LimitInv, Sole
  <1>3. ASSUME NEW h \in Handlers, Serve(h) PROVE Kept3
    <2>1. h = Server
      BY <1>1 DEF SerialInv, Serially
    <2>2. ~ Abort(Server) /\ ~ PayeeMissing(Server)
      BY <1>1, NoPayeeMissing DEF Abort, SerialInv, Serially
    <2>3. CASE SetDefaultAcc(Server)
      <3>1. /\ UNCHANGED <<account, book>> /\ job'[Server] = Idle
            /\ job[Server].pc = "setDefault"
        BY <1>1, <2>3, Given, SaveSteps DEF SetDefaultAcc, Unrecorded, At
      <3>. QED
        BY <3>1, EndLimit
    <2>. HIDE DEF Kept3
    <2>4. CASE Submit(Server)
      BY <2>4, SubmitLimit DEF Kept3
    <2>5. CASE Record(Server)
      BY <1>1, <2>5, RecordLimit DEF Kept3
    <2>6. CASE \/ ReadPayer(Server) \/ RefusePayer(Server) \/ FindPayee(Server)
               \/ ReadPayee(Server)
      BY <2>6, PayReadsLimit DEF Kept3
    <2>7. CASE Debit(Server) \/ Credit(Server)
      BY <2>7, DebitLimit, CreditLimit DEF Kept3
    <2>8. CASE ReadTo(Server) \/ ReadFrom(Server)
      BY <2>8, RefundReadsLimit DEF Kept3
    <2>9. CASE GiveBack(Server) \/ TakeBack(Server)
      BY <2>9, RefundLimit DEF Kept3
    <2>10. CASE HookRead(Server) \/ HookWrite(Server)
      BY <2>10, HookReadLimit, HookWriteLimit DEF Kept3
    <2>. QED
      BY <1>3, <2>1, <2>2, <2>3, <2>4, <2>5, <2>6, <2>7, <2>8, <2>9, <2>10
         DEF Serve, Advance
  <1>4. ASSUME NEW a \in Accounts, SetLimit(a) PROVE Kept3
    BY <1>4, NewLimit
  <1>5. ASSUME NEW a \in Accounts, Delete(a) PROVE FALSE
    BY <1>1, <1>5 DEF Delete, SerialInv, Serially
  <1>6. CASE UNCHANGED vars
    <2>1. UNCHANGED <<account, book, txn, job>>
      BY <1>6 DEF vars, storeVars, handlerVars, historyVars
    <2>. QED
      BY <1>1, <2>1 DEF LimitInv, LimitOK
  <1>. QED
    BY <1>2, <1>3, <1>4, <1>5, <1>6 DEF Next, Rest

\* Served one after the other and without failures, what has been paid out of the
\* only account of a user since its limit was set is within the limit: for any
\* amounts and limits, and whenever the limit is changed.
THEOREM SoleLimitHolds == Serially /\ Spec => []SoleLimitKept
  <1>1. Serially /\ Init => LimitInv
    <2>. SUFFICES ASSUME Serially, Init PROVE LimitInv
      OBVIOUS
    <2>1. SerialInv
      BY InitSerial
    <2>2. job[Server] = Idle
      BY DEF Serially, Init
    <2>3. ASSUME NEW a \in Accounts PROVE LimitOK(a)
      <3>1. book[a].out = 0 /\ account[a].cap \in Nat /\ account[a].spent \in Nat
        BY <2>1, LimitNumbers DEF Init
      <3>. QED
        BY <2>2, <3>1, IdleOwes DEF LimitOK, Covers
    <2>. QED
      BY <2>1, <2>2, <2>3, IdleOwes DEF LimitInv
  <1>2. LimitInv => SoleLimitKept
    BY DEF LimitInv, LimitOK, Covers, SoleLimitKept
  <1>. QED
    BY <1>1, <1>2, StepLimit, PTL DEF Spec
=============================================================================
