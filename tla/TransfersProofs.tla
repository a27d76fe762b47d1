--------------------------- MODULE TransfersProofs ---------------------------
(***************************************************************************)
(* Theorems about Transfers, for any sets of users, accounts and handlers, *)
(* any amounts and any number of requests.                                 *)
(***************************************************************************)
EXTENDS Transfers, TLAPS

Paying == {"readPayer", "findPayee", "readPayee", "debit", "credit"}

Refunding == {"readTo", "readFrom", "giveBack", "takeBack"}

Saving == {"record", "hookRead", "hookWrite"}

\* What a handler knows at each of its steps.
KnowsRequest(j) ==
    j.pc \in Paying \cup Refunding \cup Saving =>
      /\ j.op \in Ops
      /\ j.tx \in Txns
      /\ j.amount \in Amounts
      /\ j.src \in Accounts

KnowsParties(j) ==
    /\ j.pc \in {"readPayer", "findPayee", "setDefault"} => j.peer \in Users
    /\ j.pc \in {"readPayee", "debit", "credit", "record", "setDefault"}
                  \cup Refunding => j.dst \in Accounts

HasCopies(j) ==
    /\ HoldsPayer(j) => j.payer \in Doc
    /\ j.pc \in {"readFrom", "giveBack", "takeBack"} => j.payee \in Doc

\* A handler works on a transaction that exists, except before its creation.
WorksOn(j, docs) ==
    /\ j.pc \in Paying \cup Refunding \cup {"record"} /\ j.op \notin Creating
         => docs[j.tx] # Nil
    /\ j.pc = "hookRead" => docs[j.tx] # Nil

JobOK(j, docs) ==
    /\ j \in Job
    /\ KnowsRequest(j)
    /\ KnowsParties(j)
    /\ HasCopies(j)
    /\ WorksOn(j, docs)

TypeInv ==
    /\ TypeOK
    /\ \A h \in Handlers : JobOK(job[h], txn)

-----------------------------------------------------------------------------
(* The statuses and the handlers that save them                            *)

\* Which handlers create a transaction, and that every status they save is one.
LEMMA OutcomeFacts ==
    /\ \A op \in Ops : Outcome[op] \in Statuses
    /\ Creating \subseteq Ops
    /\ \A op \in Creating : TypeOf[op] \in {"Send", "Receive"}
    /\ {"confirmReceive", "rejectReceive", "requestRefund", "approveRefund",
        "rejectRefund", "suspiciousTransaction"} \subseteq Ops \ Creating
    /\ {"sendMoney", "reqReceiveMoney"} = Creating
    /\ {"changeDefault", "none"} \cap Ops = {}
  BY DEF Ops, Outcome, Creating, TypeOf, Statuses

\* The transactions are among the numbers a job may hold.
LEMMA TxnsFacts == Txns \subseteq 0 .. MaxRequests
  BY DEF Txns

\* A free slot is a job.
LEMMA IdleInJob == Idle \in Job
  BY TransferAssumption DEF Idle, Job, Steps

\* A free slot knows all it needs, whatever transactions there are.
LEMMA IdleOK == \A docs : JobOK(Idle, docs)
  BY IdleInJob DEF JobOK, KnowsRequest, KnowsParties, HasCopies, WorksOn, Idle,
                   HoldsPayer, Paying, Refunding, Saving

\* One handler goes on and no transaction disappears.
LEMMA OneHandler ==
    ASSUME TypeInv,
           NEW h \in Handlers, NEW j,
           job' = [job EXCEPT ![h] = j],
           JobOK(j, txn'),
           \A t \in Txns : txn[t] # Nil => txn'[t] # Nil
    PROVE  /\ job' \in [Handlers -> Job]
           /\ \A g \in Handlers : JobOK(job'[g], txn')
  <1>1. ASSUME NEW g \in Handlers, g # h PROVE JobOK(job'[g], txn')
    <2>1. job'[g] = job[g] /\ JobOK(job[g], txn)
      BY <1>1 DEF TypeInv, TypeOK
    <2>. QED
      BY <2>1 DEF JobOK, KnowsRequest, KnowsParties, HasCopies, HoldsPayer,
                  WorksOn, Paying, Refunding, Saving
  <1>2. job'[h] = j
    BY DEF TypeInv, TypeOK
  <1>3. \A g \in Handlers : JobOK(job'[g], txn')
    BY <1>1, <1>2 DEF JobOK, KnowsRequest, KnowsParties, HasCopies, HoldsPayer,
                      WorksOn
  <1>. QED
    BY <1>3 DEF JobOK, TypeInv, TypeOK

\* A whole document is written, from a copy or over it.
LEMMA StoreWritten ==
    ASSUME TypeInv, NEW a \in Accounts, NEW doc \in Doc, UpdateAccount(a, doc)
    PROVE  account' \in [Accounts -> Doc \cup {Nil}]
  BY DEF TypeInv, TypeOK, StoreTypeOK, UpdateAccount

\* A copy that is computed with stays a document.
LEMMA DocArithmetic ==
    ASSUME NEW doc \in Doc, NEW n \in Amounts
    PROVE  /\ Debited(doc, n) \in Doc
           /\ Credited(doc, n) \in Doc
           /\ Charged(doc, n) \in Doc
  BY TransferAssumption DEF Debited, Credited, Charged, Doc

-----------------------------------------------------------------------------
(* What each request starts with                                           *)

\* An accepted request gives its handler what its first step needs.
LEMMA SubmitType ==
    ASSUME TypeInv, NEW h \in Handlers, Submit(h)
    PROVE  /\ job' \in [Handlers -> Job]
           /\ \A g \in Handlers : JobOK(job'[g], txn')
           /\ accepted' \in 0 .. MaxRequests
           /\ UNCHANGED <<storeVars, txn, book, trail>>
  <1>1. ASSUME NEW op, Accept(h, op)
        PROVE  /\ accepted + 1 \in Txns
               /\ accepted' \in 0 .. MaxRequests
               /\ UNCHANGED <<storeVars, txn, book, trail>>
    BY <1>1, TransferAssumption DEF Accept, TypeInv, TypeOK, Txns
  <1>2. ASSUME NEW j, Start(h, j), JobOK(j, txn), UNCHANGED txn
        PROVE  /\ job' \in [Handlers -> Job]
               /\ \A g \in Handlers : JobOK(job'[g], txn')
    BY <1>2, OneHandler DEF Start
  <1>3. CASE SendMoney(h)
    <2>1. PICK a \in Accounts, v \in Users, n \in Amounts :
            /\ Found(a)
            /\ Start(h, [Idle EXCEPT !.op = "sendMoney", !.pc = "findPayee",
                                     !.tx = accepted + 1, !.amount = n,
                                     !.peer = v, !.src = a,
                                     !.payer = account[a]])
      BY <1>3 DEF SendMoney
    <2>2. PICK j : j = [Idle EXCEPT !.op = "sendMoney", !.pc = "findPayee",
                                    !.tx = accepted + 1, !.amount = n,
                                    !.peer = v, !.src = a,
                                    !.payer = account[a]]
      OBVIOUS
    <2>3. accepted + 1 \in Txns /\ account[a] \in Doc
      BY <1>1, <1>3, <2>1 DEF SendMoney, TypeInv, TypeOK, StoreTypeOK, Found
    <2>4. j \in Job
      BY <2>2, <2>3, TxnsFacts, OutcomeFacts DEF Job, Idle, Steps
    <2>5. /\ j.op = "sendMoney" /\ j.pc = "findPayee" /\ j.tx = accepted + 1
          /\ j.amount = n /\ j.peer = v /\ j.src = a /\ j.payer = account[a]
      BY <2>2 DEF Idle
    <2>6. JobOK(j, txn)
      BY <2>3, <2>4, <2>5, OutcomeFacts
         DEF JobOK, KnowsRequest, KnowsParties, HasCopies, HoldsPayer, WorksOn,
             Paying, Refunding, Saving
    <2>. QED
      BY <1>1, <1>2, <1>3, <2>1, <2>2, <2>6 DEF SendMoney
  <1>4. CASE ReqReceiveMoney(h)
    <2>1. PICK b \in Accounts, u \in Users, n \in Amounts :
            /\ defaultAcc[u] # Nil
            /\ Start(h, [Idle EXCEPT !.op = "reqReceiveMoney", !.pc = "record",
                                     !.tx = accepted + 1, !.amount = n,
                                     !.src = defaultAcc[u], !.dst = b])
      BY <1>4 DEF ReqReceiveMoney
    <2>2. PICK j : j = [Idle EXCEPT !.op = "reqReceiveMoney", !.pc = "record",
                                    !.tx = accepted + 1, !.amount = n,
                                    !.src = defaultAcc[u], !.dst = b]
      OBVIOUS
    <2>3. accepted + 1 \in Txns /\ defaultAcc[u] \in Accounts
      BY <1>1, <1>4, <2>1 DEF ReqReceiveMoney, TypeInv, TypeOK, StoreTypeOK
    <2>4. j \in Job
      BY <2>2, <2>3, TxnsFacts, OutcomeFacts DEF Job, Idle, Steps
    <2>5. /\ j.op = "reqReceiveMoney" /\ j.pc = "record" /\ j.tx = accepted + 1
          /\ j.amount = n /\ j.src = defaultAcc[u] /\ j.dst = b
      BY <2>2 DEF Idle
    <2>6. JobOK(j, txn)
      BY <2>3, <2>4, <2>5, OutcomeFacts
         DEF JobOK, KnowsRequest, KnowsParties, HasCopies, HoldsPayer, WorksOn,
             Paying, Refunding, Saving
    <2>. QED
      BY <1>1, <1>2, <1>4, <2>1, <2>2, <2>6 DEF ReqReceiveMoney
  <1>5. CASE ChangeDefault(h)
    <2>1. PICK a \in Accounts :
            Start(h, [Idle EXCEPT !.op = "changeDefault", !.pc = "setDefault",
                                  !.peer = Owner[a], !.dst = a])
      BY <1>5 DEF ChangeDefault
    <2>2. PICK j : j = [Idle EXCEPT !.op = "changeDefault", !.pc = "setDefault",
                                    !.peer = Owner[a], !.dst = a]
      OBVIOUS
    <2>3. Owner[a] \in Users
      BY StoreAssumption
    <2>4. j \in Job
      BY <2>2, <2>3, IdleInJob DEF Job, Steps
    <2>5. j.pc = "setDefault" /\ j.peer = Owner[a] /\ j.dst = a
      BY <2>2 DEF Idle
    <2>6. JobOK(j, txn)
      BY <2>3, <2>4, <2>5
         DEF JobOK, KnowsRequest, KnowsParties, HasCopies, HoldsPayer, WorksOn,
             Paying, Refunding, Saving
    <2>. QED
      BY <1>1, <1>2, <1>5, <2>1, <2>2, <2>6 DEF ChangeDefault
  <1>6. ASSUME NEW op \in Ops \ Creating, NEW t \in Txns,
               NEW next \in {"readPayer", "record", "readTo"},
               Load(h, op, t, next)
        PROVE  /\ job' \in [Handlers -> Job]
               /\ \A g \in Handlers : JobOK(job'[g], txn')
               /\ accepted' \in 0 .. MaxRequests
               /\ UNCHANGED <<storeVars, txn, book, trail>>
    <2>1. PICK a \in Accounts :
            Start(h, [Idle EXCEPT !.op = op, !.pc = next, !.tx = t,
                                  !.amount = txn[t].amount,
                                  !.peer = Owner[txn[t].to],
                                  !.src = a, !.dst = txn[t].to])
      BY <1>6 DEF Load
    <2>2. PICK j : j = [Idle EXCEPT !.op = op, !.pc = next, !.tx = t,
                                    !.amount = txn[t].amount,
                                    !.peer = Owner[txn[t].to],
                                    !.src = a, !.dst = txn[t].to]
      OBVIOUS
    <2>3. txn[t] # Nil /\ txn[t] \in Transaction
      BY <1>6 DEF Load, TypeInv, TypeOK
    <2>4. /\ txn[t].amount \in Amounts /\ txn[t].to \in Accounts
          /\ Owner[txn[t].to] \in Users
      BY <2>3, StoreAssumption DEF Transaction
    <2>5. j \in Job
      BY <2>2, <2>4, TxnsFacts DEF Job, Idle, Steps
    <2>6. /\ j.op = op /\ j.pc = next /\ j.tx = t /\ j.amount = txn[t].amount
          /\ j.peer = Owner[txn[t].to] /\ j.src = a /\ j.dst = txn[t].to
      BY <2>2 DEF Idle
    <2>7. JobOK(j, txn)
      BY <2>3, <2>4, <2>5, <2>6
         DEF JobOK, KnowsRequest, KnowsParties, HasCopies, HoldsPayer, WorksOn,
             Paying, Refunding, Saving
    <2>. QED
      BY <1>1, <1>2, <1>6, <2>1, <2>2, <2>7 DEF Load
  <1>7. CASE \/ ConfirmReceive(h) \/ RejectReceive(h) \/ RequestRefund(h)
             \/ ApproveRefund(h) \/ RejectRefund(h) \/ SuspiciousTransaction(h)
    BY <1>6, <1>7, OutcomeFacts
       DEF ConfirmReceive, RejectReceive, RequestRefund, ApproveRefund,
           RejectRefund, SuspiciousTransaction
  <1>. QED
    BY <1>3, <1>4, <1>5, <1>7 DEF Submit

-----------------------------------------------------------------------------
(* What each step of a handler leaves it with                              *)

\* A handler that ends is as it was before the request.
LEMMA EndOK ==
    ASSUME TypeInv, NEW h \in Handlers, End(h), UNCHANGED txn
    PROVE  /\ job' \in [Handlers -> Job]
           /\ \A g \in Handlers : JobOK(job'[g], txn')
  <1>1. PICK j : j = Idle
    OBVIOUS
  <1>. QED
    BY <1>1, IdleOK, OneHandler DEF End

\* A step that saves no transaction gives the handler what its next step needs.
LEMMA AdvanceJobs ==
    ASSUME TypeInv, NEW h \in Handlers, Advance(h), ~ Record(h), UNCHANGED txn
    PROVE  /\ job' \in [Handlers -> Job]
           /\ \A g \in Handlers : JobOK(job'[g], txn')
  <1>. DEFINE i == job[h]
  <1>1. /\ JobOK(i, txn)
        /\ job \in [Handlers -> Job]
        /\ \A a \in Accounts : Found(a) => account[a] \in Doc
        /\ \A a \in Accounts : account[a] \in Doc \cup {Nil}
        /\ \A u \in Users : defaultAcc[u] \in Accounts \cup {Nil}
        /\ \A t \in Txns : txn[t] # Nil => txn[t] \in Transaction
    BY DEF TypeInv, TypeOK, StoreTypeOK, Found
  <1>2. ASSUME NEW j, job' = [job EXCEPT ![h] = j], JobOK(j, txn)
        PROVE  /\ job' \in [Handlers -> Job]
               /\ \A g \in Handlers : JobOK(job'[g], txn')
    BY <1>2, OneHandler
  <1>3. CASE ReadPayer(h)
    <2>1. PICK j : j = [i EXCEPT !.pc = "findPayee", !.payer = account[i.src]]
      OBVIOUS
    <2>2. job' = [job EXCEPT ![h] = j]
      BY <1>3, <2>1 DEF ReadPayer
    <2>3. i.pc = "readPayer" /\ account[i.src] \in Doc
      BY <1>1, <1>3 DEF JobOK, KnowsRequest, Paying, Refunding, Saving, At, ReadPayer, CanPay
    <2>4. j \in Job
      BY <1>1, <2>1, <2>3 DEF JobOK, Job, Steps
    <2>5. /\ j.pc = "findPayee" /\ j.payer = account[i.src]
          /\ j.op = i.op /\ j.tx = i.tx /\ j.amount = i.amount /\ j.peer = i.peer /\ j.src = i.src /\ j.dst = i.dst /\ j.payee = i.payee
      BY <1>1, <2>1 DEF JobOK, Job
    <2>6. JobOK(j, txn)
      BY <1>1, <2>3, <2>4, <2>5
         DEF JobOK, KnowsRequest, KnowsParties, HasCopies, HoldsPayer, WorksOn,
             Paying, Refunding, Saving
    <2>. QED
      BY <1>2, <2>2, <2>6
  <1>4. CASE FindPayee(h) /\ defaultAcc[job[h].peer] # Nil
    <2>1. PICK j : j = [i EXCEPT !.pc = "readPayee", !.dst = defaultAcc[i.peer]]
      OBVIOUS
    <2>2. job' = [job EXCEPT ![h] = j]
      BY <1>4, <2>1 DEF FindPayee
    <2>3. i.pc = "findPayee" /\ defaultAcc[i.peer] \in Accounts
      BY <1>1, <1>4 DEF JobOK, KnowsRequest, Paying, Refunding, Saving, At, KnowsParties, FindPayee
    <2>4. j \in Job
      BY <1>1, <2>1, <2>3 DEF JobOK, Job, Steps
    <2>5. /\ j.pc = "readPayee" /\ j.dst = defaultAcc[i.peer]
          /\ j.op = i.op /\ j.tx = i.tx /\ j.amount = i.amount /\ j.peer = i.peer /\ j.src = i.src /\ j.payer = i.payer /\ j.payee = i.payee
      BY <1>1, <2>1 DEF JobOK, Job
    <2>6. JobOK(j, txn)
      BY <1>1, <2>3, <2>4, <2>5
         DEF JobOK, KnowsRequest, KnowsParties, HasCopies, HoldsPayer, WorksOn,
             Paying, Refunding, Saving
    <2>. QED
      BY <1>2, <2>2, <2>6
  <1>5. CASE ReadPayee(h)
    <2>1. PICK j : j = [i EXCEPT !.pc = "debit", !.payee = account[i.dst]]
      OBVIOUS
    <2>2. job' = [job EXCEPT ![h] = j]
      BY <1>5, <2>1 DEF ReadPayee
    <2>3. i.pc = "readPayee" /\ account[i.dst] \in Doc \cup {Nil}
      BY <1>1, <1>5 DEF JobOK, KnowsRequest, Paying, Refunding, Saving, At, KnowsParties, ReadPayee
    <2>4. j \in Job
      BY <1>1, <2>1, <2>3 DEF JobOK, Job, Steps
    <2>5. /\ j.pc = "debit" /\ j.payee = account[i.dst]
          /\ j.op = i.op /\ j.tx = i.tx /\ j.amount = i.amount /\ j.peer = i.peer /\ j.src = i.src /\ j.dst = i.dst /\ j.payer = i.payer
      BY <1>1, <2>1 DEF JobOK, Job
    <2>6. JobOK(j, txn)
      BY <1>1, <2>3, <2>4, <2>5
         DEF JobOK, KnowsRequest, KnowsParties, HasCopies, HoldsPayer, WorksOn,
             Paying, Refunding, Saving
    <2>. QED
      BY <1>2, <2>2, <2>6
  <1>6. CASE Debit(h)
    <2>1. PICK j : j = [i EXCEPT !.pc = "credit", !.payer = Nil]
      OBVIOUS
    <2>2. job' = [job EXCEPT ![h] = j]
      BY <1>6, <2>1 DEF Debit
    <2>3. i.pc = "debit"
      BY <1>1, <1>6 DEF At, Debit
    <2>4. j \in Job
      BY <1>1, <2>1, <2>3 DEF JobOK, Job, Steps
    <2>5. /\ j.pc = "credit" /\ j.payer = Nil
          /\ j.op = i.op /\ j.tx = i.tx /\ j.amount = i.amount /\ j.peer = i.peer /\ j.src = i.src /\ j.dst = i.dst /\ j.payee = i.payee
      BY <1>1, <2>1 DEF JobOK, Job
    <2>6. JobOK(j, txn)
      BY <1>1, <2>3, <2>4, <2>5
         DEF JobOK, KnowsRequest, KnowsParties, HasCopies, HoldsPayer, WorksOn,
             Paying, Refunding, Saving
    <2>. QED
      BY <1>2, <2>2, <2>6
  <1>7. CASE Credit(h)
    <2>1. PICK j : j = [i EXCEPT !.pc = "record", !.payee = Nil]
      OBVIOUS
    <2>2. job' = [job EXCEPT ![h] = j]
      BY <1>7, <2>1 DEF Credit
    <2>3. i.pc = "credit"
      BY <1>1, <1>7 DEF At, Credit
    <2>4. j \in Job
      BY <1>1, <2>1, <2>3 DEF JobOK, Job, Steps
    <2>5. /\ j.pc = "record" /\ j.payee = Nil
          /\ j.op = i.op /\ j.tx = i.tx /\ j.amount = i.amount /\ j.peer = i.peer /\ j.src = i.src /\ j.dst = i.dst /\ j.payer = i.payer
      BY <1>1, <2>1 DEF JobOK, Job
    <2>6. JobOK(j, txn)
      BY <1>1, <2>3, <2>4, <2>5
         DEF JobOK, KnowsRequest, KnowsParties, HasCopies, HoldsPayer, WorksOn,
             Paying, Refunding, Saving
    <2>. QED
      BY <1>2, <2>2, <2>6
  <1>8. CASE ReadTo(h) /\ Found(job[h].dst)
    <2>1. PICK j : j = [i EXCEPT !.pc = "readFrom", !.payee = account[i.dst]]
      OBVIOUS
    <2>2. job' = [job EXCEPT ![h] = j]
      BY <1>8, <2>1 DEF ReadTo
    <2>3. i.pc = "readTo" /\ account[i.dst] \in Doc
      BY <1>1, <1>8 DEF JobOK, KnowsRequest, Paying, Refunding, Saving, At, KnowsParties, ReadTo
    <2>4. j \in Job
      BY <1>1, <2>1, <2>3 DEF JobOK, Job, Steps
    <2>5. /\ j.pc = "readFrom" /\ j.payee = account[i.dst]
          /\ j.op = i.op /\ j.tx = i.tx /\ j.amount = i.amount /\ j.peer = i.peer /\ j.src = i.src /\ j.dst = i.dst /\ j.payer = i.payer
      BY <1>1, <2>1 DEF JobOK, Job
    <2>6. JobOK(j, txn)
      BY <1>1, <2>3, <2>4, <2>5
         DEF JobOK, KnowsRequest, KnowsParties, HasCopies, HoldsPayer, WorksOn,
             Paying, Refunding, Saving
    <2>. QED
      BY <1>2, <2>2, <2>6
  <1>9. CASE ReadFrom(h) /\ Found(job[h].src)
    <2>1. PICK j : j = [i EXCEPT !.pc = "giveBack", !.payer = account[i.src]]
      OBVIOUS
    <2>2. job' = [job EXCEPT ![h] = j]
      BY <1>9, <2>1 DEF ReadFrom
    <2>3. i.pc = "readFrom" /\ account[i.src] \in Doc
      BY <1>1, <1>9 DEF JobOK, KnowsRequest, Paying, Refunding, Saving, At, KnowsParties, ReadFrom
    <2>4. j \in Job
      BY <1>1, <2>1, <2>3 DEF JobOK, Job, Steps
    <2>5. /\ j.pc = "giveBack" /\ j.payer = account[i.src]
          /\ j.op = i.op /\ j.tx = i.tx /\ j.amount = i.amount /\ j.peer = i.peer /\ j.src = i.src /\ j.dst = i.dst /\ j.payee = i.payee
      BY <1>1, <2>1 DEF JobOK, Job
    <2>6. JobOK(j, txn)
      BY <1>1, <2>3, <2>4, <2>5
         DEF JobOK, KnowsRequest, KnowsParties, HasCopies, HoldsPayer, WorksOn,
             Paying, Refunding, Saving
    <2>. QED
      BY <1>2, <2>2, <2>6
  <1>10. CASE GiveBack(h)
    <2>1. PICK j : j = [i EXCEPT !.pc = "takeBack", !.payer = Nil]
      OBVIOUS
    <2>2. job' = [job EXCEPT ![h] = j]
      BY <1>10, <2>1 DEF GiveBack
    <2>3. i.pc = "giveBack"
      BY <1>1, <1>10 DEF At, GiveBack
    <2>4. j \in Job
      BY <1>1, <2>1, <2>3 DEF JobOK, Job, Steps
    <2>5. /\ j.pc = "takeBack" /\ j.payer = Nil
          /\ j.op = i.op /\ j.tx = i.tx /\ j.amount = i.amount /\ j.peer = i.peer /\ j.src = i.src /\ j.dst = i.dst /\ j.payee = i.payee
      BY <1>1, <2>1 DEF JobOK, Job
    <2>6. JobOK(j, txn)
      BY <1>1, <2>3, <2>4, <2>5
         DEF JobOK, KnowsRequest, KnowsParties, HasCopies, HoldsPayer, WorksOn,
             Paying, Refunding, Saving
    <2>. QED
      BY <1>2, <2>2, <2>6
  <1>11. CASE TakeBack(h)
    <2>1. PICK j : j = [i EXCEPT !.pc = "record", !.payee = Nil]
      OBVIOUS
    <2>2. job' = [job EXCEPT ![h] = j]
      BY <1>11, <2>1 DEF TakeBack
    <2>3. i.pc = "takeBack"
      BY <1>1, <1>11 DEF At, TakeBack
    <2>4. j \in Job
      BY <1>1, <2>1, <2>3 DEF JobOK, Job, Steps
    <2>5. /\ j.pc = "record" /\ j.payee = Nil
          /\ j.op = i.op /\ j.tx = i.tx /\ j.amount = i.amount /\ j.peer = i.peer /\ j.src = i.src /\ j.dst = i.dst /\ j.payer = i.payer
      BY <1>1, <2>1 DEF JobOK, Job
    <2>6. JobOK(j, txn)
      BY <1>1, <2>3, <2>4, <2>5
         DEF JobOK, KnowsRequest, KnowsParties, HasCopies, HoldsPayer, WorksOn,
             Paying, Refunding, Saving
    <2>. QED
      BY <1>2, <2>2, <2>6
  <1>12. CASE HookRead(h) /\ Found(txn[job[h].tx].from)
    <2>1. PICK j : j = [i EXCEPT !.pc = "hookWrite", !.src = txn[i.tx].from, !.payer = account[txn[i.tx].from]]
      OBVIOUS
    <2>2. job' = [job EXCEPT ![h] = j]
      BY <1>12, <2>1 DEF HookRead
    <2>3. i.pc = "hookRead" /\ txn[i.tx].from \in Accounts /\ account[txn[i.tx].from] \in Doc
      BY <1>1, <1>12 DEF JobOK, KnowsRequest, Paying, Refunding, Saving, At, HookRead, WorksOn, Transaction
    <2>4. j \in Job
      BY <1>1, <2>1, <2>3 DEF JobOK, Job, Steps
    <2>5. /\ j.pc = "hookWrite" /\ j.src = txn[i.tx].from /\ j.payer = account[txn[i.tx].from]
          /\ j.op = i.op /\ j.tx = i.tx /\ j.amount = i.amount /\ j.peer = i.peer /\ j.dst = i.dst /\ j.payee = i.payee
      BY <1>1, <2>1 DEF JobOK, Job
    <2>6. JobOK(j, txn)
      BY <1>1, <2>3, <2>4, <2>5
         DEF JobOK, KnowsRequest, KnowsParties, HasCopies, HoldsPayer, WorksOn,
             Paying, Refunding, Saving
    <2>. QED
      BY <1>2, <2>2, <2>6
  <1>13. CASE RefusePayer(h) \/ PayeeMissing(h) \/ HookWrite(h) \/ SetDefaultAcc(h)
    <2>1. End(h)
      BY <1>13 DEF RefusePayer, PayeeMissing, HookWrite, SetDefaultAcc
    <2>. QED
      BY <2>1, EndOK
  <1>14. CASE FindPayee(h)
    <2>1. CASE defaultAcc[job[h].peer] # Nil
      BY <1>4, <1>14, <2>1
    <2>2. CASE ~ (defaultAcc[job[h].peer] # Nil)
      <3>1. End(h)
        BY <1>14, <2>2 DEF FindPayee
      <3>. QED
        BY <3>1, EndOK
    <2>. QED
      BY <2>1, <2>2
  <1>15. CASE ReadTo(h)
    <2>1. CASE Found(job[h].dst)
      BY <1>8, <1>15, <2>1
    <2>2. CASE ~ (Found(job[h].dst))
      <3>1. End(h)
        BY <1>15, <2>2 DEF ReadTo
      <3>. QED
        BY <3>1, EndOK
    <2>. QED
      BY <2>1, <2>2
  <1>16. CASE ReadFrom(h)
    <2>1. CASE Found(job[h].src)
      BY <1>9, <1>16, <2>1
    <2>2. CASE ~ (Found(job[h].src))
      <3>1. End(h)
        BY <1>16, <2>2 DEF ReadFrom
      <3>. QED
        BY <3>1, EndOK
    <2>. QED
      BY <2>1, <2>2
  <1>17. CASE HookRead(h)
    <2>1. CASE Found(txn[job[h].tx].from)
      BY <1>12, <1>17, <2>1
    <2>2. CASE ~ (Found(txn[job[h].tx].from))
      <3>1. End(h)
        BY <1>17, <2>2 DEF HookRead
      <3>. QED
        BY <3>1, EndOK
    <2>. QED
      BY <2>1, <2>2
  <1>. QED
    BY <1>3, <1>5, <1>6, <1>7, <1>10, <1>11, <1>13, <1>14, <1>15, <1>16, <1>17
       DEF Advance

\* The one step that changes a transaction: it is saved, and stays known.
LEMMA RecordType ==
    ASSUME TypeInv, NEW h \in Handlers, Record(h)
    PROVE  /\ txn' \in [Txns -> Transaction \cup {Nil}]
           /\ job' \in [Handlers -> Job]
           /\ \A g \in Handlers : JobOK(job'[g], txn')
  <1>. DEFINE i == job[h]
              doc == IF i.op \in Creating
                       THEN [type |-> TypeOf[i.op], status |-> Outcome[i.op],
                             from |-> i.src, to |-> i.dst, amount |-> i.amount]
                       ELSE [txn[i.tx] EXCEPT !.status = Outcome[i.op]]
  <1>1. /\ i.pc = "record" /\ i \in Job
        /\ i.op \in Ops /\ i.tx \in Txns /\ i.amount \in Amounts
        /\ i.src \in Accounts /\ i.dst \in Accounts
        /\ i.op \notin Creating => txn[i.tx] # Nil
    BY DEF Record, At, TypeInv, JobOK, KnowsRequest, KnowsParties, WorksOn, Saving
  <1>2. txn \in [Txns -> Transaction \cup {Nil}]
    BY DEF TypeInv, TypeOK
  <1>3. Outcome[i.op] \in Statuses
    BY <1>1, OutcomeFacts
  <1>4. doc \in Transaction
    <2>1. CASE i.op \in Creating
      <3>1. TypeOf[i.op] \in {"Send", "Receive"}
        BY <2>1, OutcomeFacts
      <3>. QED
        BY <1>1, <1>3, <2>1, <3>1 DEF Transaction
    <2>2. CASE i.op \notin Creating
      <3>1. txn[i.tx] \in Transaction
        BY <1>1, <1>2, <2>2
      <3>. QED
        BY <1>3, <2>2, <3>1 DEF Transaction
    <2>. QED
      BY <2>1, <2>2
  <1>5. txn' = [txn EXCEPT ![i.tx] = doc]
    BY DEF Record
  <1>6. Nil \notin Transaction
    BY TransferAssumption
  <1>7. txn' \in [Txns -> Transaction \cup {Nil}]
    BY <1>2, <1>4, <1>5
  <1>8. \A t \in Txns : txn[t] # Nil => txn'[t] # Nil
    BY <1>1, <1>2, <1>4, <1>5, <1>6
  <1>9. PICK j : j = [i EXCEPT !.pc = "hookRead"]
    OBVIOUS
  <1>10. job' = [job EXCEPT ![h] = j]
    BY <1>9 DEF Record, Goto
  <1>11. j \in Job
    BY <1>1, <1>9 DEF Job, Steps
  <1>12. /\ j.pc = "hookRead" /\ j.op = i.op /\ j.tx = i.tx
         /\ j.amount = i.amount /\ j.src = i.src
    BY <1>1, <1>9 DEF Job
  <1>13. txn'[j.tx] # Nil
    BY <1>1, <1>2, <1>4, <1>5, <1>6, <1>12
  <1>14. JobOK(j, txn')
    BY <1>1, <1>11, <1>12, <1>13
       DEF JobOK, KnowsRequest, KnowsParties, HasCopies, HoldsPayer, WorksOn,
           Paying, Refunding, Saving
  <1>. QED
    BY <1>7, <1>8, <1>10, <1>14, OneHandler

-----------------------------------------------------------------------------
(* What each step stores                                                   *)

\* What a step of a handler writes into accounts and history is of their types.
LEMMA StoreTypes ==
    ASSUME TypeInv, NEW h \in Handlers, Advance(h)
    PROVE  /\ StoreTypeOK'
           /\ book' \in [Accounts -> BookEntry]
           /\ trail' \in [Txns -> TrailEntry]
           /\ accepted' \in 0 .. MaxRequests
  <1>. DEFINE i == job[h]
  <1>1. /\ JobOK(i, txn)
        /\ account \in [Accounts -> Doc \cup {Nil}]
        /\ defaultAcc \in [Users -> Accounts \cup {Nil}]
        /\ book \in [Accounts -> BookEntry]
        /\ trail \in [Txns -> TrailEntry]
        /\ accepted \in 0 .. MaxRequests
        /\ Amounts \subseteq Nat
    BY TransferAssumption DEF TypeInv, TypeOK, StoreTypeOK
  <1>2. ASSUME i.pc \in Paying \cup Refunding \cup Saving
        PROVE  i.tx \in Txns /\ i.amount \in Amounts /\ i.src \in Accounts
    BY <1>1, <1>2 DEF JobOK, KnowsRequest
  <1>3. ASSUME i.pc \in {"credit", "takeBack"} PROVE i.dst \in Accounts
    BY <1>1, <1>3 DEF JobOK, KnowsParties, Refunding
  <1>4. CASE Debit(h)
    <2>1. /\ i.tx \in Txns /\ i.amount \in Amounts /\ i.src \in Accounts
          /\ i.payer \in Doc
      BY <1>1, <1>2, <1>4 DEF Debit, At, Paying, JobOK, HasCopies, HoldsPayer
    <2>2. account' \in [Accounts -> Doc \cup {Nil}]
      BY <1>4, <2>1, DocArithmetic, StoreWritten DEF Debit
    <2>3. book' \in [Accounts -> BookEntry]
      BY <1>1, <1>4, <2>1 DEF Debit, Noted, BookEntry
    <2>4. trail' \in [Txns -> TrailEntry]
      BY <1>1, <1>4, <2>1 DEF Debit, Noted, TrailEntry
    <2>. QED
      BY <1>1, <1>4, <2>2, <2>3, <2>4 DEF Debit, StoreTypeOK
  <1>5. CASE Credit(h)
    <2>1. /\ i.tx \in Txns /\ i.amount \in Amounts /\ i.dst \in Accounts
          /\ i.payee \in Doc
      BY <1>1, <1>2, <1>3, <1>5 DEF Credit, At, Paying, JobOK, Job
    <2>2. account' \in [Accounts -> Doc \cup {Nil}]
      BY <1>5, <2>1, DocArithmetic, StoreWritten DEF Credit
    <2>3. book' \in [Accounts -> BookEntry]
      BY <1>1, <1>5, <2>1 DEF Credit, Noted, BookEntry
    <2>4. trail' \in [Txns -> TrailEntry]
      BY <1>1, <1>5, <2>1 DEF Credit, Noted, TrailEntry
    <2>. QED
      BY <1>1, <1>5, <2>2, <2>3, <2>4 DEF Credit, StoreTypeOK
  <1>6. CASE GiveBack(h)
    <2>1. /\ i.tx \in Txns /\ i.amount \in Amounts /\ i.src \in Accounts
          /\ i.payer \in Doc
      BY <1>1, <1>2, <1>6 DEF GiveBack, At, Refunding, JobOK, HasCopies, HoldsPayer
    <2>2. account' \in [Accounts -> Doc \cup {Nil}]
      BY <1>6, <2>1, DocArithmetic, StoreWritten DEF GiveBack
    <2>3. book' \in [Accounts -> BookEntry]
      BY <1>1, <1>6, <2>1 DEF GiveBack, Noted, BookEntry
    <2>4. trail' \in [Txns -> TrailEntry]
      BY <1>1, <1>6, <2>1 DEF GiveBack, Noted, TrailEntry
    <2>. QED
      BY <1>1, <1>6, <2>2, <2>3, <2>4 DEF GiveBack, StoreTypeOK
  <1>7. CASE TakeBack(h)
    <2>1. /\ i.tx \in Txns /\ i.amount \in Amounts /\ i.dst \in Accounts
          /\ i.payee \in Doc
      BY <1>1, <1>2, <1>3, <1>7 DEF TakeBack, At, Refunding, JobOK, HasCopies
    <2>2. account' \in [Accounts -> Doc \cup {Nil}]
      BY <1>7, <2>1, DocArithmetic, StoreWritten DEF TakeBack
    <2>3. book' \in [Accounts -> BookEntry]
      BY <1>1, <1>7, <2>1 DEF TakeBack, Noted, BookEntry
    <2>4. trail' \in [Txns -> TrailEntry]
      BY <1>1, <1>7, <2>1 DEF TakeBack, Noted, TrailEntry
    <2>. QED
      BY <1>1, <1>7, <2>2, <2>3, <2>4 DEF TakeBack, StoreTypeOK
  <1>8. CASE HookWrite(h)
    <2>1. /\ i.tx \in Txns /\ i.amount \in Amounts /\ i.src \in Accounts
          /\ i.payer \in Doc
      BY <1>1, <1>2, <1>8 DEF HookWrite, At, Saving, JobOK, HasCopies, HoldsPayer
    <2>2. account' \in [Accounts -> Doc \cup {Nil}]
      BY <1>8, <2>1, DocArithmetic, StoreWritten DEF HookWrite
    <2>3. book' \in [Accounts -> BookEntry]
      BY <1>1, <1>8, <2>1 DEF HookWrite, Noted, BookEntry
    <2>4. trail' = trail
      BY <1>8 DEF HookWrite, Noted
    <2>. QED
      BY <1>1, <1>8, <2>2, <2>3, <2>4 DEF HookWrite, StoreTypeOK
  <1>9. CASE Record(h)
    <2>1. i.tx \in Txns
      BY <1>2, <1>9 DEF Record, At, Saving
    <2>. QED
      BY <1>1, <1>9, <2>1 DEF Record, StoreTypeOK, storeVars, TrailEntry
  <1>10. CASE SetDefaultAcc(h)
    <2>1. i.peer \in Users /\ i.dst \in Accounts
      BY <1>1, <1>10 DEF SetDefaultAcc, At, JobOK, KnowsParties
    <2>. QED
      BY <1>1, <1>10, <2>1 DEF SetDefaultAcc, SetDefault, StoreTypeOK, Unrecorded
  <1>11. CASE \/ ReadPayer(h) \/ RefusePayer(h) \/ FindPayee(h) \/ ReadPayee(h)
              \/ PayeeMissing(h) \/ ReadTo(h) \/ ReadFrom(h) \/ HookRead(h)
    <2>1. UNCHANGED <<storeVars, accepted, book, trail>>
      BY <1>11 DEF ReadPayer, RefusePayer, FindPayee, ReadPayee, PayeeMissing,
                   ReadTo, ReadFrom, HookRead, Unrecorded
    <2>. QED
      BY <1>1, <2>1 DEF StoreTypeOK, storeVars
  <1>. QED
    BY <1>4, <1>5, <1>6, <1>7, <1>8, <1>9, <1>10, <1>11 DEF Advance

-----------------------------------------------------------------------------
(* Type correctness                                                        *)

\* The states in which requests are accepted are well typed.
LEMMA InitType == Init => TypeInv
  <1>. SUFFICES ASSUME Init PROVE TypeInv
    OBVIOUS
  <1>1. StoreTypeOK
    BY StoreAssumption DEF Init, StoreInit, StoreTypeOK, Doc
  <1>2. job \in [Handlers -> Job] /\ \A h \in Handlers : JobOK(job[h], txn)
    BY IdleInJob, IdleOK DEF Init
  <1>. QED
    BY <1>1, <1>2, StoreAssumption, TransferAssumption
       DEF Init, TypeInv, TypeOK, NoTrail, BookEntry, TrailEntry

\* A step of a handler keeps the type invariant.
LEMMA ServeType ==
    ASSUME TypeInv, NEW h \in Handlers, Serve(h)
    PROVE  TypeInv'
  <1>. DEFINE Typed == /\ StoreTypeOK'
                       /\ txn' \in [Txns -> Transaction \cup {Nil}]
                       /\ job' \in [Handlers -> Job]
                       /\ \A g \in Handlers : JobOK(job'[g], txn')
                       /\ accepted' \in 0 .. MaxRequests
                       /\ book' \in [Accounts -> BookEntry]
                       /\ trail' \in [Txns -> TrailEntry]
  <1>1. ASSUME Submit(h) PROVE Typed
    BY <1>1, SubmitType DEF TypeInv, TypeOK, StoreTypeOK, storeVars
  <1>2. ASSUME Abort(h) PROVE Typed
    <2>1. End(h) /\ UNCHANGED <<storeVars, txn, accepted, book, trail>>
      BY <1>2 DEF Abort, Unrecorded
    <2>. QED
      BY <2>1, EndOK DEF TypeInv, TypeOK, StoreTypeOK, storeVars
  <1>3. ASSUME Record(h) PROVE Typed
    BY <1>3, RecordType, StoreTypes DEF Advance
  <1>4. ASSUME Advance(h), ~ Record(h) PROVE Typed
    <2>1. UNCHANGED txn
      BY <1>4 DEF Advance, ReadPayer, RefusePayer, FindPayee, ReadPayee, Debit,
                  Credit, PayeeMissing, ReadTo, ReadFrom, GiveBack, TakeBack,
                  HookRead, HookWrite, SetDefaultAcc
    <2>. QED
      BY <1>4, <2>1, AdvanceJobs, StoreTypes DEF TypeInv, TypeOK
  <1>5. Typed
    BY <1>1, <1>2, <1>3, <1>4 DEF Serve
  <1>6. contended' \subseteq Accounts
    BY DEF Serve, Overlap, TypeInv, TypeOK
  <1>. QED
    BY <1>5, <1>6 DEF TypeInv, TypeOK

\* Every step keeps the type invariant.
LEMMA StepType == TypeInv /\ [Next]_vars => TypeInv'
  <1>. SUFFICES ASSUME TypeInv, [Next]_vars PROVE TypeInv'
    OBVIOUS
  <1>1. ASSUME NEW h \in Handlers, Serve(h) PROVE TypeInv'
    BY <1>1, ServeType
  <1>2. ASSUME NEW a \in Accounts, SetLimit(a) PROVE TypeInv'
    <2>1. PICK cap \in Caps : ChangeLimit(a, cap)
      BY <1>2 DEF SetLimit
    <2>2. account[a] \in Doc /\ cap \in Nat
      BY <2>1, StoreAssumption DEF ChangeLimit, UpdateLimit, Found, TypeInv, TypeOK,
                                   StoreTypeOK
    <2>3. account' \in [Accounts -> Doc \cup {Nil}]
      BY <2>1, <2>2 DEF ChangeLimit, UpdateLimit, TypeInv, TypeOK, StoreTypeOK, Doc
    <2>4. book' \in [Accounts -> BookEntry]
      BY <2>1 DEF ChangeLimit, BookEntry, TypeInv, TypeOK
    <2>5. contended' \subseteq Accounts
      BY <1>2 DEF SetLimit, TypeInv, TypeOK
    <2>. QED
      BY <2>1, <2>3, <2>4, <2>5
         DEF ChangeLimit, TypeInv, TypeOK, StoreTypeOK, handlerVars
  <1>3. ASSUME NEW a \in Accounts, Delete(a) PROVE TypeInv'
    BY <1>3 DEF Delete, DeleteAccount, TypeInv, TypeOK, StoreTypeOK, handlerVars,
                historyVars
  <1>4. CASE UNCHANGED vars
    BY <1>4 DEF vars, storeVars, handlerVars, historyVars, TypeInv, TypeOK, StoreTypeOK
  <1>. QED
    BY <1>1, <1>2, <1>3, <1>4 DEF Next, Rest

\* In every behaviour the variables hold what the code can put into them, and
\* each handler knows the accounts and the transaction it works on and holds
\* documents, not empty replies, wherever it computes with a copy.
THEOREM TypeCorrect == Spec => []TypeInv
  BY InitType, StepType, PTL DEF Spec

\* The type invariant the runs check.
THEOREM TypesHold == Spec => []TypeOK
  <1>1. TypeInv => TypeOK
    BY DEF TypeInv
  <1>. QED
    BY <1>1, TypeCorrect, PTL
=============================================================================
