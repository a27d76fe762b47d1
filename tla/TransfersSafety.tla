--------------------------- MODULE TransfersSafety ---------------------------
(***************************************************************************)
(* Safety theorems about Transfers, for all values of its constants.       *)
(***************************************************************************)
EXTENDS TransfersProofs

-----------------------------------------------------------------------------
(* What each action does to the job of its handler, field by field         *)


\* A handler serves one request: its name, transaction and amount stay.
Kept(i, j) == j.op = i.op /\ j.tx = i.tx /\ j.amount = i.amount

Route(i, j) == Kept(i, j) /\ j.src = i.src /\ j.dst = i.dst

\* What a handler slot holds, and how it ends.
LEMMA JobFields ==
    ASSUME TypeInv, NEW h \in Handlers
    PROVE  /\ job[h] \in Job
           /\ job \in [Handlers -> Job]
           /\ End(h) => job'[h] = Idle
  BY DEF TypeInv, TypeOK, End

\* A payment.
LEMMA PaySteps ==
    ASSUME TypeInv, NEW h \in Handlers
    PROVE  LET i == job[h]  j == job'[h]
           IN  /\ ReadPayer(h) =>
                    /\ i.pc = "readPayer" /\ j.pc = "findPayee"
                    /\ Kept(i, j) /\ j.src = i.src /\ j.payer = account[i.src]
               /\ FindPayee(h) =>
                    /\ i.pc = "findPayee"
                    /\ \/ j = Idle
                       \/ /\ j.pc = "readPayee"
                          /\ Kept(i, j) /\ j.src = i.src /\ j.payer = i.payer
               /\ ReadPayee(h) =>
                    /\ i.pc = "readPayee" /\ j.pc = "debit"
                    /\ Route(i, j) /\ j.payer = i.payer
                    /\ j.payee = account[i.dst]
               /\ Debit(h) =>
                    /\ i.pc = "debit" /\ j.pc = "credit"
                    /\ Route(i, j) /\ j.payee = i.payee
               /\ Credit(h) =>
                    i.pc = "credit" /\ j.pc = "record" /\ Route(i, j)
  <1>1. ReadPayer(h) =>
           /\ job[h].pc = "readPayer" /\ job'[h].pc = "findPayee"
           /\ Kept(job[h], job'[h]) /\ job'[h].src = job[h].src
           /\ job'[h].payer = account[job[h].src]
    BY JobFields DEF Job, ReadPayer, At, Kept
  <1>2. FindPayee(h) =>
           /\ job[h].pc = "findPayee"
           /\ \/ job'[h] = Idle
              \/ /\ job'[h].pc = "readPayee"
                 /\ Kept(job[h], job'[h]) /\ job'[h].src = job[h].src
                 /\ job'[h].payer = job[h].payer
    BY JobFields DEF Job, FindPayee, At, Kept
  <1>3. ReadPayee(h) =>
           /\ job[h].pc = "readPayee" /\ job'[h].pc = "debit"
           /\ Route(job[h], job'[h]) /\ job'[h].payer = job[h].payer
           /\ job'[h].payee = account[job[h].dst]
    BY JobFields DEF Job, ReadPayee, At, Kept, Route
  <1>4. Debit(h) =>
           /\ job[h].pc = "debit" /\ job'[h].pc = "credit"
           /\ Route(job[h], job'[h]) /\ job'[h].payee = job[h].payee
    BY JobFields DEF Job, Debit, At, Kept, Route
  <1>5. Credit(h) =>
           job[h].pc = "credit" /\ job'[h].pc = "record" /\ Route(job[h], job'[h])
    BY JobFields DEF Job, Credit, At, Kept, Route
  <1>. QED
    BY <1>1, <1>2, <1>3, <1>4, <1>5

\* A refund.
LEMMA RefundSteps ==
    ASSUME TypeInv, NEW h \in Handlers
    PROVE  LET i == job[h]  j == job'[h]
           IN  /\ ReadTo(h) =>
                    /\ i.pc = "readTo"
                    /\ \/ j = Idle
                       \/ /\ j.pc = "readFrom" /\ Route(i, j)
                          /\ j.payee = account[i.dst]
               /\ ReadFrom(h) =>
                    /\ i.pc = "readFrom"
                    /\ \/ j = Idle
                       \/ /\ j.pc = "giveBack" /\ Route(i, j)
                          /\ j.payer = account[i.src] /\ j.payee = i.payee
               /\ GiveBack(h) =>
                    /\ i.pc = "giveBack" /\ j.pc = "takeBack"
                    /\ Route(i, j) /\ j.payee = i.payee
               /\ TakeBack(h) =>
                    i.pc = "takeBack" /\ j.pc = "record" /\ Route(i, j)
  <1>1. ReadTo(h) =>
           /\ job[h].pc = "readTo"
           /\ \/ job'[h] = Idle
              \/ /\ job'[h].pc = "readFrom" /\ Route(job[h], job'[h])
                 /\ job'[h].payee = account[job[h].dst]
    BY JobFields DEF Job, ReadTo, At, Kept, Route
  <1>2. ReadFrom(h) =>
           /\ job[h].pc = "readFrom"
           /\ \/ job'[h] = Idle
              \/ /\ job'[h].pc = "giveBack" /\ Route(job[h], job'[h])
                 /\ job'[h].payer = account[job[h].src]
                 /\ job'[h].payee = job[h].payee
    BY JobFields DEF Job, ReadFrom, At, Kept, Route
  <1>3. GiveBack(h) =>
           /\ job[h].pc = "giveBack" /\ job'[h].pc = "takeBack"
           /\ Route(job[h], job'[h]) /\ job'[h].payee = job[h].payee
    BY JobFields DEF Job, GiveBack, At, Kept, Route
  <1>4. TakeBack(h) =>
           job[h].pc = "takeBack" /\ job'[h].pc = "record" /\ Route(job[h], job'[h])
    BY JobFields DEF Job, TakeBack, At, Kept, Route
  <1>. QED
    BY <1>1, <1>2, <1>3, <1>4

\* The save, the hook, and the steps that end a handler.
LEMMA SaveSteps ==
    ASSUME TypeInv, NEW h \in Handlers
    PROVE  LET i == job[h]  j == job'[h]
           IN  /\ Record(h) =>
                    i.pc = "record" /\ j.pc = "hookRead" /\ Route(i, j)
               /\ HookRead(h) =>
                    /\ i.pc = "hookRead"
                    /\ \/ j = Idle
                       \/ /\ j.pc = "hookWrite" /\ Kept(i, j)
                          /\ j.src = txn[i.tx].from
                          /\ j.payer = account[txn[i.tx].from]
               /\ HookWrite(h) => i.pc = "hookWrite" /\ j = Idle
               /\ (RefusePayer(h) \/ PayeeMissing(h) \/ SetDefaultAcc(h)
                     \/ Abort(h)) => j = Idle
  <1>1. Record(h) => /\ job[h].pc = "record" /\ job'[h].pc = "hookRead"
                     /\ Route(job[h], job'[h])
    BY JobFields DEF Job, Record, Goto, At, Kept, Route
  <1>2. HookRead(h) =>
           /\ job[h].pc = "hookRead"
           /\ \/ job'[h] = Idle
              \/ /\ job'[h].pc = "hookWrite" /\ Kept(job[h], job'[h])
                 /\ job'[h].src = txn[job[h].tx].from
                 /\ job'[h].payer = account[txn[job[h].tx].from]
    <2>1. CASE Found(txn[job[h].tx].from)
      BY <2>1, JobFields DEF Job, HookRead, At, Kept
    <2>2. CASE ~ Found(txn[job[h].tx].from)
      BY <2>2, JobFields DEF HookRead, At
    <2>. QED
      BY <2>1, <2>2
  <1>3. HookWrite(h) => job[h].pc = "hookWrite" /\ job'[h] = Idle
    BY JobFields DEF HookWrite, At
  <1>4. (RefusePayer(h) \/ PayeeMissing(h) \/ SetDefaultAcc(h) \/ Abort(h))
          => job'[h] = Idle
    BY JobFields DEF RefusePayer, PayeeMissing, SetDefaultAcc, Abort
  <1>. QED
    BY <1>1, <1>2, <1>3, <1>4

\* A request: it creates the next transaction, or works on one that exists.
Creates(j) == j.op \in Creating /\ j.pc \in Paying \cup {"record"}

Loaded(j) ==
    /\ txn[j.tx] # Nil
    /\ j.dst = txn[j.tx].to
    /\ j.peer = Owner[txn[j.tx].to]
    /\ j.amount = txn[j.tx].amount
    /\ Owner[j.src] = Owner[txn[j.tx].from]
    /\ j.op # "confirmReceive" => j.src = txn[j.tx].from
    /\ j.op = "confirmReceive" => j.pc = "readPayer" /\ txn[j.tx].status = "Pending"
    /\ j.op = "approveRefund" => j.pc = "readTo"
    /\ j.op \in {"approveRefund", "rejectRefund"} => txn[j.tx].status = "Refunding"
    /\ j.op \notin {"confirmReceive", "approveRefund"} => j.pc = "record"

\* What the job of a handler is when a request has been accepted.
LEMMA SubmitSteps ==
    ASSUME TypeInv, NEW h \in Handlers, Submit(h)
    PROVE  LET j == job'[h]
           IN  /\ accepted' = accepted + 1 /\ accepted + 1 \in Txns
               /\ UNCHANGED <<storeVars, txn, book, trail>>
               /\ \/ /\ j.op = "sendMoney" /\ j.pc = "findPayee"
                     /\ j.tx = accepted + 1 /\ j.payer = account[j.src]
                     /\ j.amount <= j.payer.bal
                  \/ /\ j.op = "reqReceiveMoney" /\ j.pc = "record"
                     /\ j.tx = accepted + 1
                  \/ /\ j.op = "changeDefault" /\ j.pc = "setDefault" /\ j.tx = 0
                     /\ j.peer = Owner[j.dst]
                  \/ j.op \in Ops \ Creating /\ j.tx \in Txns /\ Loaded(j)
  <1>. DEFINE j == job'[h]
  <1>1. job \in [Handlers -> Job]
    BY DEF TypeInv, TypeOK
  <1>2. ASSUME NEW op, Accept(h, op)
        PROVE  /\ accepted' = accepted + 1 /\ accepted + 1 \in Txns
               /\ UNCHANGED <<storeVars, txn, book, trail>>
    BY <1>2, TransferAssumption DEF Accept, TypeInv, TypeOK, Txns
  <1>3. ASSUME NEW k, Start(h, k) PROVE j = k
    BY <1>1, <1>3 DEF Start
  <1>4. CASE SendMoney(h)
    <2>1. PICK a \in Accounts, v \in Users, n \in Amounts :
            /\ n <= account[a].bal
            /\ j = [Idle EXCEPT !.op = "sendMoney", !.pc = "findPayee",
                                !.tx = accepted + 1, !.amount = n,
                                !.peer = v, !.src = a,
                                !.payer = account[a]]
      BY <1>3, <1>4 DEF SendMoney
    <2>2. /\ j.op = "sendMoney" /\ j.pc = "findPayee" /\ j.src = a
          /\ j.tx = accepted + 1 /\ j.payer = account[a] /\ j.amount = n
      BY <2>1 DEF Idle
    <2>. QED
      BY <1>2, <1>4, <2>1, <2>2 DEF SendMoney
  <1>5. CASE ReqReceiveMoney(h)
    <2>1. PICK b \in Accounts, u \in Users, n \in Amounts :
            j = [Idle EXCEPT !.op = "reqReceiveMoney", !.pc = "record",
                             !.tx = accepted + 1, !.amount = n,
                             !.src = defaultAcc[u], !.dst = b]
      BY <1>3, <1>5 DEF ReqReceiveMoney
    <2>2. j.op = "reqReceiveMoney" /\ j.pc = "record" /\ j.tx = accepted + 1
      BY <2>1 DEF Idle
    <2>. QED
      BY <1>2, <1>5, <2>2 DEF ReqReceiveMoney
  <1>6. CASE ChangeDefault(h)
    <2>1. PICK a \in Accounts :
            j = [Idle EXCEPT !.op = "changeDefault", !.pc = "setDefault",
                             !.peer = Owner[a], !.dst = a]
      BY <1>3, <1>6 DEF ChangeDefault
    <2>2. /\ j.op = "changeDefault" /\ j.pc = "setDefault" /\ j.tx = 0
          /\ j.peer = Owner[j.dst]
      BY <2>1 DEF Idle
    <2>. QED
      BY <1>2, <1>6, <2>2 DEF ChangeDefault
  <1>7. ASSUME NEW op \in Ops \ Creating, NEW t \in Txns, NEW next,
               Load(h, op, t, next),
               op = "confirmReceive" => next = "readPayer" /\ txn[t].status = "Pending",
               op = "approveRefund" => next = "readTo",
               op \in {"approveRefund", "rejectRefund"} => txn[t].status = "Refunding",
               op \notin {"confirmReceive", "approveRefund"} => next = "record"
        PROVE  /\ accepted' = accepted + 1 /\ accepted + 1 \in Txns
               /\ UNCHANGED <<storeVars, txn, book, trail>>
               /\ j.op \in Ops \ Creating /\ j.tx \in Txns /\ Loaded(j)
    <2>1. PICK a \in Accounts :
            /\ op # "confirmReceive" => a = txn[t].from
            /\ Owner[a] = Owner[txn[t].from]
            /\ j = [Idle EXCEPT !.op = op, !.pc = next, !.tx = t,
                                !.amount = txn[t].amount,
                                !.peer = Owner[txn[t].to],
                                !.src = a, !.dst = txn[t].to]
      BY <1>3, <1>7 DEF Load
    <2>2. /\ j.op = op /\ j.pc = next /\ j.tx = t /\ j.src = a
          /\ j.dst = txn[t].to /\ j.amount = txn[t].amount
          /\ j.peer = Owner[txn[t].to]
      BY <2>1 DEF Idle
    <2>3. Loaded(j)
      BY <1>7, <2>1, <2>2 DEF Load, Loaded
    <2>. QED
      BY <1>2, <1>7, <2>2, <2>3 DEF Load
  <1>8. CASE \/ ConfirmReceive(h) \/ RejectReceive(h) \/ RequestRefund(h)
             \/ ApproveRefund(h) \/ RejectRefund(h) \/ SuspiciousTransaction(h)
    <2>1. PICK t \in Txns :
            \/ Load(h, "confirmReceive", t, "readPayer") /\ txn[t].status = "Pending"
            \/ Load(h, "rejectReceive", t, "record")
            \/ Load(h, "requestRefund", t, "record")
            \/ Load(h, "approveRefund", t, "readTo") /\ txn[t].status = "Refunding"
            \/ Load(h, "rejectRefund", t, "record") /\ txn[t].status = "Refunding"
            \/ Load(h, "suspiciousTransaction", t, "record")
      BY <1>8 DEF ConfirmReceive, RejectReceive, RequestRefund, ApproveRefund,
                  RejectRefund, SuspiciousTransaction
    <2>. QED
      BY <1>7, <2>1, OutcomeFacts
  <1>. QED
    BY <1>4, <1>5, <1>6, <1>8 DEF Submit

-----------------------------------------------------------------------------
(* Handlers                                                                *)


\* A step of one handler is none of another.
LEMMA OthersKeepJobs ==
    ASSUME TypeInv, NEW h \in Handlers, Serve(h)
    PROVE  \A g \in Handlers \ {h} : job'[g] = job[g]
  BY DEF TypeInv, TypeOK, Serve, Submit, SendMoney, ReqReceiveMoney, ConfirmReceive,
         RejectReceive, RequestRefund, ApproveRefund, RejectRefund,
         SuspiciousTransaction, ChangeDefault, Load, Start, Advance, ReadPayer,
         RefusePayer, FindPayee, ReadPayee, Debit, Credit, PayeeMissing, ReadTo,
         ReadFrom, GiveBack, TakeBack, Record, HookRead, HookWrite, SetDefaultAcc,
         Abort, End, Goto

-----------------------------------------------------------------------------
(* Which requests take which steps                                         *)

Phases ==
    \A h \in Handlers :
      /\ job[h].pc \in Paying => job[h].op \in {"sendMoney", "confirmReceive"}
      /\ job[h].pc \in Refunding => job[h].op = "approveRefund"

\* The step of a handler keeps it to the steps of its request.
LEMMA PhasesStep ==
    ASSUME TypeInv, Phases, NEW h \in Handlers, Serve(h)
    PROVE  Phases'
  <1>1. \A g \in Handlers \ {h} : job'[g] = job[g]
    BY OthersKeepJobs
  <1>. DEFINE Phase(j) ==
         /\ j.pc \in Paying => j.op \in {"sendMoney", "confirmReceive"}
         /\ j.pc \in Refunding => j.op = "approveRefund"
  <1>. SUFFICES Phase(job'[h])
    BY <1>1 DEF Phases
  <1>2. Phase(job[h]) /\ Phase(Idle)
    BY DEF Phases, Idle, Paying, Refunding
  <1>3. CASE Submit(h)
    <2>1. \/ job'[h].op = "sendMoney" /\ job'[h].pc = "findPayee"
          \/ job'[h].pc = "record"
          \/ job'[h].pc = "setDefault"
          \/ job'[h].op = "confirmReceive" /\ job'[h].pc = "readPayer"
          \/ job'[h].op = "approveRefund" /\ job'[h].pc = "readTo"
      BY <1>3, SubmitSteps DEF Loaded
    <2>. QED
      BY <2>1 DEF Paying, Refunding
  <1>4. CASE ReadPayer(h) \/ FindPayee(h) \/ ReadPayee(h) \/ Debit(h) \/ Credit(h)
    BY <1>2, <1>4, PaySteps DEF Paying, Refunding, Kept, Route
  <1>5. CASE ReadTo(h) \/ ReadFrom(h) \/ GiveBack(h) \/ TakeBack(h)
    BY <1>2, <1>5, RefundSteps DEF Paying, Refunding, Kept, Route
  <1>6. CASE Record(h) \/ HookRead(h)
    BY <1>2, <1>6, SaveSteps DEF Paying, Refunding, Kept, Route
  <1>7. CASE \/ HookWrite(h) \/ RefusePayer(h) \/ PayeeMissing(h)
             \/ SetDefaultAcc(h) \/ Abort(h)
    BY <1>2, <1>7, SaveSteps
  <1>. QED
    BY <1>3, <1>4, <1>5, <1>6, <1>7 DEF Serve, Advance

-----------------------------------------------------------------------------
(* Every transaction is created by one handler, and keeps its terms        *)

OwnSlot ==
    /\ \A t \in Txns : t > accepted => txn[t] = Nil
    /\ \A h \in Handlers :
         Creates(job[h]) => txn[job[h].tx] = Nil /\ job[h].tx <= accepted
    /\ \A g, h \in Handlers :
         g # h /\ Creates(job[g]) /\ Creates(job[h]) => job[g].tx # job[h].tx

\* The parties and the amount of a transaction stay what they were.
KeepsTerms ==
    \A t \in Txns : txn[t] # Nil =>
      /\ txn'[t] # Nil
      /\ txn'[t].type = txn[t].type
      /\ txn'[t].from = txn[t].from
      /\ txn'[t].to = txn[t].to
      /\ txn'[t].amount = txn[t].amount

\* A handler without a request creates nothing.
LEMMA IdleCreatesNothing == ~ Creates(Idle)
  BY OutcomeFacts DEF Creates, Idle

\* A handler that creates a transaction was going to create the same before.
LEMMA AdvanceKeepsSlot ==
    ASSUME TypeInv, Phases, NEW h \in Handlers, Advance(h) \/ Abort(h),
           Creates(job'[h])
    PROVE  Creates(job[h]) /\ job'[h].tx = job[h].tx /\ ~ Record(h)
  <1>1. job'[h] # Idle
    BY IdleCreatesNothing
  <1>2. CASE \/ ReadPayer(h) \/ FindPayee(h) \/ ReadPayee(h) \/ Debit(h) \/ Credit(h)
    BY <1>1, <1>2, PaySteps, SaveSteps DEF Creates, Paying, Kept, Route
  <1>3. CASE ReadTo(h) \/ ReadFrom(h) \/ GiveBack(h) \/ TakeBack(h)
    <2>1. job'[h].op = "approveRefund" \/ job'[h] = Idle
      BY <1>3, RefundSteps DEF Phases, Kept, Route, Refunding
    <2>. QED
      BY <1>1, <2>1, OutcomeFacts DEF Creates
  <1>4. CASE Record(h) \/ HookRead(h)
    BY <1>1, <1>4, SaveSteps DEF Creates, Paying
  <1>5. CASE \/ HookWrite(h) \/ RefusePayer(h) \/ PayeeMissing(h)
             \/ SetDefaultAcc(h) \/ Abort(h)
    BY <1>1, <1>5, SaveSteps
  <1>. QED
    BY <1>2, <1>3, <1>4, <1>5 DEF Advance

\* What a step of a handler does to the transactions.
LEMMA TxnSteps ==
    ASSUME TypeInv, NEW h \in Handlers, Serve(h)
    PROVE  \/ UNCHANGED txn
           \/ /\ Record(h)
              /\ job[h].tx \in Txns
              /\ \A t \in Txns : t # job[h].tx => txn'[t] = txn[t]
              /\ job[h].op \in Creating =>
                   txn'[job[h].tx] =
                     [type |-> TypeOf[job[h].op], status |-> Outcome[job[h].op],
                      from |-> job[h].src, to |-> job[h].dst,
                      amount |-> job[h].amount]
              /\ job[h].op \notin Creating =>
                   /\ txn[job[h].tx] # Nil
                   /\ txn'[job[h].tx] =
                        [txn[job[h].tx] EXCEPT !.status = Outcome[job[h].op]]
  <1>1. CASE Submit(h)
    BY <1>1, SubmitSteps
  <1>2. CASE Abort(h)
    BY <1>2 DEF Abort
  <1>3. CASE Advance(h) /\ ~ Record(h)
    BY <1>3 DEF Advance, ReadPayer, RefusePayer, FindPayee, ReadPayee, Debit,
                Credit, PayeeMissing, ReadTo, ReadFrom, GiveBack, TakeBack,
                HookRead, HookWrite, SetDefaultAcc
  <1>4. CASE Record(h)
    <2>1. /\ job[h].pc = "record" /\ JobOK(job[h], txn)
          /\ txn \in [Txns -> Transaction \cup {Nil}]
      BY <1>4 DEF Record, At, TypeInv, TypeOK
    <2>2. /\ job[h].tx \in Txns
          /\ job[h].op \notin Creating => txn[job[h].tx] # Nil
      BY <2>1 DEF JobOK, KnowsRequest, WorksOn, Saving
    <2>3. /\ job[h].op \in Creating =>
               txn' = [txn EXCEPT ![job[h].tx] =
                        [type |-> TypeOf[job[h].op], status |-> Outcome[job[h].op],
                         from |-> job[h].src, to |-> job[h].dst,
                         amount |-> job[h].amount]]
          /\ job[h].op \notin Creating =>
               txn' = [txn EXCEPT ![job[h].tx] =
                        [txn[job[h].tx] EXCEPT !.status = Outcome[job[h].op]]]
      BY <1>4 DEF Record
    <2>. QED
      BY <1>4, <2>1, <2>2, <2>3
  <1>. QED
    BY <1>1, <1>2, <1>3, <1>4 DEF Serve

\* A step of a handler keeps the terms of every transaction.
LEMMA TermsStep ==
    ASSUME TypeInv, Phases, OwnSlot, NEW h \in Handlers, Serve(h)
    PROVE  KeepsTerms
  <1>1. CASE UNCHANGED txn
    BY <1>1 DEF KeepsTerms
  <1>2. CASE /\ Record(h)
             /\ job[h].op \in Creating
    <2>1. Creates(job[h])
      BY <1>2 DEF Creates, Record, At
    <2>2. txn[job[h].tx] = Nil
      BY <2>1 DEF OwnSlot
    <2>3. \A t \in Txns : t # job[h].tx => txn'[t] = txn[t]
      BY TxnSteps
    <2>. QED
      BY <2>2, <2>3 DEF KeepsTerms
  <1>3. CASE /\ Record(h)
             /\ job[h].op \notin Creating
    <2>1. txn \in [Txns -> Transaction \cup {Nil}] /\ Nil \notin Transaction
      BY TransferAssumption DEF TypeInv, TypeOK
    <2>2. CASE ~ UNCHANGED txn
      <3>1. /\ job[h].tx \in Txns /\ txn[job[h].tx] # Nil
            /\ \A t \in Txns : t # job[h].tx => txn'[t] = txn[t]
            /\ txn'[job[h].tx] =
                 [txn[job[h].tx] EXCEPT !.status = Outcome[job[h].op]]
        BY <1>3, <2>2, TxnSteps
      <3>2. txn[job[h].tx] \in Transaction /\ Outcome[job[h].op] \in Statuses
        BY <1>3, <2>1, <3>1, OutcomeFacts
           DEF Record, At, TypeInv, JobOK, KnowsRequest, Saving
      <3>3. /\ txn'[job[h].tx] \in Transaction
            /\ txn'[job[h].tx].type = txn[job[h].tx].type
            /\ txn'[job[h].tx].from = txn[job[h].tx].from
            /\ txn'[job[h].tx].to = txn[job[h].tx].to
            /\ txn'[job[h].tx].amount = txn[job[h].tx].amount
        BY <3>1, <3>2 DEF Transaction
      <3>. QED
        BY <2>1, <3>1, <3>3 DEF KeepsTerms
    <2>. QED
      BY <1>1, <2>2
  <1>. QED
    BY <1>1, <1>2, <1>3, TxnSteps

\* A step of a handler leaves every transaction to be created by one handler.
LEMMA SlotStep ==
    ASSUME TypeInv, Phases, OwnSlot, NEW h \in Handlers, Serve(h)
    PROVE  OwnSlot'
  <1>. DEFINE i == job[h]
              j == job'[h]
  <1>1. \A g \in Handlers \ {h} : job'[g] = job[g]
    BY OthersKeepJobs
  <1>2. accepted \in Nat /\ Txns \subseteq Nat
    BY TransferAssumption DEF TypeInv, TypeOK, Txns
  <1>3. \A g \in Handlers : Creates(job[g]) => job[g].tx \in Txns
    BY DEF TypeInv, JobOK, KnowsRequest, Creates, Saving
  <1>4. CASE Submit(h)
    <2>1. accepted' = accepted + 1 /\ accepted + 1 \in Txns /\ UNCHANGED txn
      BY <1>4, SubmitSteps
    <2>2. Creates(j) => j.tx = accepted + 1
      BY <1>4, SubmitSteps, OutcomeFacts DEF Creates
    <2>3. txn[accepted + 1] = Nil
      BY <1>2, <2>1 DEF OwnSlot
    <2>4. \A t \in Txns : t > accepted' => txn'[t] = Nil
      BY <1>2, <2>1 DEF OwnSlot
    <2>5. \A g \in Handlers :
            Creates(job'[g]) => txn'[job'[g].tx] = Nil /\ job'[g].tx <= accepted'
      <3>1. ASSUME NEW g \in Handlers, g # h, Creates(job'[g])
            PROVE  txn'[job'[g].tx] = Nil /\ job'[g].tx <= accepted'
        <4>1. job'[g] = job[g] /\ Creates(job[g])
          BY <1>1, <3>1
        <4>2. txn[job[g].tx] = Nil /\ job[g].tx <= accepted
          BY <4>1 DEF OwnSlot
        <4>3. job[g].tx \in Nat
          BY <1>2, <1>3, <4>1
        <4>. QED
          BY <1>2, <2>1, <4>1, <4>2, <4>3
      <3>2. Creates(j) => txn'[j.tx] = Nil /\ j.tx <= accepted'
        BY <1>2, <2>1, <2>2, <2>3
      <3>. QED
        BY <3>1, <3>2
    <2>6. \A g \in Handlers \ {h} :
            Creates(job'[g]) /\ Creates(j) => job'[g].tx # j.tx
      BY <1>1, <1>2, <1>3, <2>2 DEF OwnSlot
    <2>7. \A f, g \in Handlers :
            f # g /\ Creates(job'[f]) /\ Creates(job'[g]) => job'[f].tx # job'[g].tx
      BY <1>1, <2>6 DEF OwnSlot
    <2>. QED
      BY <2>4, <2>5, <2>7 DEF OwnSlot, Creates
  <1>5. CASE Advance(h) \/ Abort(h)
    <2>1. Creates(j) => Creates(i) /\ j.tx = i.tx /\ ~ Record(h)
      BY <1>5, AdvanceKeepsSlot
    <2>2. accepted' = accepted
      BY <1>5 DEF Advance, Abort, ReadPayer, RefusePayer, FindPayee, ReadPayee,
                  Debit, Credit, PayeeMissing, ReadTo, ReadFrom, GiveBack, TakeBack,
                  Record, HookRead, HookWrite, SetDefaultAcc, Unrecorded
    <2>3. \A t \in Txns : txn[t] = Nil /\ txn'[t] # Nil =>
            Record(h) /\ Creates(i) /\ t = i.tx
      <3>1. CASE Record(h) /\ i.op \in Creating
        BY <3>1, TxnSteps DEF Creates, Record, At
      <3>2. CASE ~ (Record(h) /\ i.op \in Creating)
        BY <3>2, TxnSteps
      <3>. QED
        BY <3>1, <3>2
    <2>4. \A t \in Txns : t > accepted' => txn'[t] = Nil
      <3>. SUFFICES ASSUME NEW t \in Txns, t > accepted, txn'[t] # Nil PROVE FALSE
        BY <2>2
      <3>1. txn[t] = Nil /\ Creates(i) /\ t = i.tx
        BY <2>3 DEF OwnSlot
      <3>2. i.tx <= accepted
        BY <3>1 DEF OwnSlot
      <3>. QED
        BY <1>2, <3>1, <3>2
    <2>5. \A f, g \in Handlers :
            f # g /\ Creates(job'[f]) /\ Creates(job'[g]) => job'[f].tx # job'[g].tx
      BY <1>1, <2>1 DEF OwnSlot
    <2>6. ASSUME NEW g \in Handlers, Creates(job'[g])
          PROVE  txn'[job'[g].tx] = Nil /\ job'[g].tx <= accepted'
      <3>1. CASE g = h
        <4>1. Creates(i) /\ j.tx = i.tx /\ ~ Record(h)
          BY <2>1, <2>6, <3>1
        <4>2. txn[i.tx] = Nil /\ i.tx <= accepted
          BY <4>1 DEF OwnSlot
        <4>. QED
          BY <1>3, <2>2, <2>3, <3>1, <4>1, <4>2
      <3>2. CASE g # h
        <4>1. Creates(job[g]) /\ job'[g].tx = job[g].tx
          BY <1>1, <2>6, <3>2
        <4>2. /\ txn[job[g].tx] = Nil /\ job[g].tx <= accepted
              /\ Creates(i) => job[g].tx # i.tx
          BY <3>2, <4>1 DEF OwnSlot
        <4>. QED
          BY <1>3, <2>2, <2>3, <4>1, <4>2
      <3>. QED
        BY <3>1, <3>2
    <2>. QED
      BY <2>4, <2>5, <2>6 DEF OwnSlot, Creates
  <1>. QED
    BY <1>4, <1>5 DEF Serve

-----------------------------------------------------------------------------
(* A balance is negative only where a refund was taken                     *)

\* The copy of the payer's account covers the amount until it is debited; no
\* copy shows a debt that the refunds do not explain; a refund is taken from
\* the account that its transaction names.
SoundCopy(j) ==
    /\ j.pc \in {"findPayee", "readPayee", "debit"} => j.amount <= j.payer.bal
    /\ HoldsPayer(j) /\ j.payer.bal < 0 => Clawed(j.src)
    /\ HoldsPayee(j) /\ j.payee # Nil /\ j.payee.bal < 0 => Clawed(j.dst)
    /\ j.pc \in Refunding => txn[j.tx] # Nil /\ txn[j.tx].to = j.dst

SoundCopies == \A h \in Handlers : SoundCopy(job[h])

\* Refunds that were taken are never untaken, and a takeBack that finds the account
\* counts one.
LEMMA TrailGrows ==
    ASSUME TypeInv, NEW h \in Handlers, Serve(h)
    PROVE  /\ \A t \in Txns : trail'[t].clawed >= trail[t].clawed
           /\ TakeBack(h) /\ Found(job[h].dst) => trail'[job[h].tx].clawed > 0
  <1>1. /\ trail \in [Txns -> TrailEntry] /\ JobOK(job[h], txn)
        /\ \A t \in Txns : trail[t].clawed \in Nat
    BY DEF TypeInv, TypeOK, TrailEntry
  <1>2. CASE TakeBack(h) /\ Found(job[h].dst)
    <2>1. job[h].tx \in Txns
      BY <1>1, <1>2 DEF TakeBack, At, JobOK, KnowsRequest, Refunding
    <2>2. trail' = [trail EXCEPT ![job[h].tx].clawed = @ + 1]
      BY <1>2 DEF TakeBack, Noted
    <2>3. \A t \in Txns : trail'[t].clawed = IF t = job[h].tx THEN trail[t].clawed + 1
                                                             ELSE trail[t].clawed
      BY <1>1, <2>1, <2>2 DEF TrailEntry
    <2>. QED
      BY <1>1, <2>1, <2>3
  <1>3. CASE ~ (TakeBack(h) /\ Found(job[h].dst))
    <2>1. \/ UNCHANGED trail
          \/ trail' = [trail EXCEPT ![job[h].tx].drawn = @ + 1]
          \/ trail' = [trail EXCEPT ![job[h].tx].paid = @ + 1]
          \/ trail' = [trail EXCEPT ![job[h].tx].repaid = @ + 1]
          \/ trail' = [trail EXCEPT ![job[h].tx].disputed = @ + 1]
      <3>1. CASE Submit(h)
        BY <3>1, SubmitSteps
      <3>2. CASE Advance(h) \/ Abort(h)
        BY <1>3, <3>2
           DEF Advance, Abort, ReadPayer, RefusePayer, FindPayee, ReadPayee, Debit,
               Credit, PayeeMissing, ReadTo, ReadFrom, GiveBack, TakeBack, Record,
               HookRead, HookWrite, SetDefaultAcc, Unrecorded, Noted
      <3>. QED
        BY <3>1, <3>2 DEF Serve
    <2>2. \A t \in Txns : trail'[t].clawed = trail[t].clawed
      BY <1>1, <2>1 DEF TrailEntry
    <2>. QED
      BY <1>1, <1>3, <2>2
  <1>. QED
    BY <1>2, <1>3

\* An account that a refund was taken from remains one.
LEMMA ClawedStays ==
    ASSUME TypeInv, KeepsTerms, \A t \in Txns : trail'[t].clawed >= trail[t].clawed,
           TypeInv'
    PROVE  \A a : Clawed(a) => Clawed(a)'
  <1>1. \A t \in Txns : trail[t].clawed \in Nat /\ trail'[t].clawed \in Nat
    BY DEF TypeInv, TypeOK, TrailEntry
  <1>. QED
    BY <1>1 DEF Clawed, KeepsTerms

\* What another handler does leaves a copy as sound as it was.
LEMMA SoundStays ==
    ASSUME NEW j, JobOK(j, txn), KeepsTerms, \A a : Clawed(a) => Clawed(a)',
           SoundCopy(j), NEW k, k = j
    PROVE  /\ k.pc \in {"findPayee", "readPayee", "debit"} => k.amount <= k.payer.bal
           /\ HoldsPayer(k) /\ k.payer.bal < 0 => Clawed(k.src)'
           /\ HoldsPayee(k) /\ k.payee # Nil /\ k.payee.bal < 0 => Clawed(k.dst)'
           /\ k.pc \in Refunding => txn'[k.tx] # Nil /\ txn'[k.tx].to = k.dst
  BY DEF SoundCopy, KeepsTerms, JobOK, KnowsRequest

\* A write keeps the balances sound if the copy that is written is sound.
LEMMA WriteSound ==
    ASSUME TypeInv, NoOverdraft, \A b \in Accounts : Clawed(b) => Clawed(b)',
           NEW a \in Accounts, NEW doc \in Doc, UpdateAccount(a, doc),
           doc.bal < 0 => Clawed(a)'
    PROVE  NoOverdraft'
  <1>1. account \in [Accounts -> Doc \cup {Nil}]
    BY DEF TypeInv, TypeOK, StoreTypeOK
  <1>2. \A b \in Accounts : b # a => account'[b] = account[b]
    BY <1>1 DEF UpdateAccount
  <1>3. account'[a] = doc \/ account'[a] = Nil
    BY <1>1 DEF UpdateAccount
  <1>4. ASSUME NEW b \in Accounts, account'[b] # Nil, account'[b].bal < 0
        PROVE  Clawed(b)'
    <2>1. CASE b = a
      <3>1. account'[a] = doc /\ doc.bal < 0
        BY <1>3, <1>4, <2>1
      <3>2. Clawed(a)'
        BY <3>1
      <3>. QED
        BY <2>1, <3>2 DEF Clawed
    <2>2. CASE b # a
      <3>1. Found(b) /\ account[b].bal < 0
        BY <1>2, <1>4, <2>2 DEF Found
      <3>. QED
        BY <3>1 DEF NoOverdraft
    <2>. QED
      BY <2>1, <2>2
  <1>. QED
    BY <1>4 DEF NoOverdraft, Found

\* What a step of a handler writes into the accounts.
LEMMA Writes ==
    ASSUME TypeInv, NEW h \in Handlers, Serve(h)
    PROVE  LET i == job[h]
           IN  \/ UNCHANGED account
               \/ Debit(h) /\ UpdateAccount(i.src, Debited(i.payer, i.amount))
               \/ Credit(h) /\ UpdateAccount(i.dst, Credited(i.payee, i.amount))
               \/ GiveBack(h) /\ UpdateAccount(i.src, Credited(i.payer, i.amount))
               \/ TakeBack(h) /\ UpdateAccount(i.dst, Debited(i.payee, i.amount))
               \/ HookWrite(h) /\ UpdateAccount(i.src, Charged(i.payer, i.amount))
  <1>1. CASE Submit(h)
    BY <1>1, SubmitSteps DEF storeVars
  <1>2. CASE Debit(h) \/ Credit(h) \/ GiveBack(h) \/ TakeBack(h) \/ HookWrite(h)
    <2>1. CASE Debit(h)
      BY <2>1 DEF Debit
    <2>2. CASE Credit(h)
      BY <2>2 DEF Credit
    <2>3. CASE GiveBack(h)
      BY <2>3 DEF GiveBack
    <2>4. CASE TakeBack(h)
      BY <2>4 DEF TakeBack
    <2>5. CASE HookWrite(h)
      BY <2>5 DEF HookWrite
    <2>. QED
      BY <1>2, <2>1, <2>2, <2>3, <2>4, <2>5
  <1>3. CASE \/ ReadPayer(h) \/ RefusePayer(h) \/ FindPayee(h) \/ ReadPayee(h)
             \/ PayeeMissing(h) \/ ReadTo(h) \/ ReadFrom(h) \/ Record(h)
             \/ HookRead(h) \/ SetDefaultAcc(h) \/ Abort(h)
    BY <1>3 DEF ReadPayer, RefusePayer, FindPayee, ReadPayee, PayeeMissing, ReadTo,
                ReadFrom, Record, HookRead, SetDefaultAcc, Abort, storeVars
  <1>. QED
    BY <1>1, <1>2, <1>3 DEF Serve, Advance

\* A step of a handler makes no balance negative but by a refund.
LEMMA BalanceStep ==
    ASSUME TypeInv, SoundCopies, NoOverdraft, NEW h \in Handlers, Serve(h),
           \A b : Clawed(b) => Clawed(b)', KeepsTerms
    PROVE  NoOverdraft'
  <1>. DEFINE i == job[h]
  <1>1. /\ JobOK(i, txn) /\ SoundCopy(i)
        /\ \A n \in Amounts : n \in Nat \ {0}
    BY TransferAssumption DEF TypeInv, SoundCopies
  <1>2. CASE UNCHANGED account
    BY <1>2 DEF NoOverdraft, Found
  <1>3. CASE Debit(h) /\ UpdateAccount(i.src, Debited(i.payer, i.amount))
    <2>1. i.pc = "debit"
      BY <1>3 DEF Debit, At
    <2>2. /\ i.src \in Accounts /\ i.payer \in Doc /\ i.amount \in Amounts
          /\ i.amount <= i.payer.bal
      BY <1>1, <2>1 DEF JobOK, KnowsRequest, HasCopies, HoldsPayer, Paying, SoundCopy
    <2>3. Debited(i.payer, i.amount) \in Doc /\ ~ (Debited(i.payer, i.amount).bal < 0)
      BY <1>1, <2>2 DEF Debited, Doc
    <2>. QED
      BY <1>3, <2>2, <2>3, WriteSound
  <1>4. CASE Credit(h) /\ UpdateAccount(i.dst, Credited(i.payee, i.amount))
    <2>1. i.pc = "credit" /\ i.payee # Nil
      BY <1>4 DEF Credit, At
    <2>2. /\ i.dst \in Accounts /\ i.payee \in Doc /\ i.amount \in Amounts
          /\ i.payee.bal < 0 => Clawed(i.dst)
      BY <1>1, <2>1 DEF JobOK, KnowsRequest, KnowsParties, Job, HoldsPayee, Paying, SoundCopy
    <2>3. /\ Credited(i.payee, i.amount) \in Doc
          /\ Credited(i.payee, i.amount).bal < 0 => i.payee.bal < 0
      BY <1>1, <2>2 DEF Credited, Doc
    <2>. QED
      BY <1>4, <2>2, <2>3, WriteSound
  <1>5. CASE GiveBack(h) /\ UpdateAccount(i.src, Credited(i.payer, i.amount))
    <2>1. i.pc = "giveBack"
      BY <1>5 DEF GiveBack, At
    <2>2. /\ i.src \in Accounts /\ i.payer \in Doc /\ i.amount \in Amounts
          /\ i.payer.bal < 0 => Clawed(i.src)
      BY <1>1, <2>1 DEF JobOK, KnowsRequest, HasCopies, HoldsPayer, Refunding, SoundCopy
    <2>3. /\ Credited(i.payer, i.amount) \in Doc
          /\ Credited(i.payer, i.amount).bal < 0 => i.payer.bal < 0
      BY <1>1, <2>2 DEF Credited, Doc
    <2>. QED
      BY <1>5, <2>2, <2>3, WriteSound
  <1>6. CASE HookWrite(h) /\ UpdateAccount(i.src, Charged(i.payer, i.amount))
    <2>1. i.pc = "hookWrite"
      BY <1>6 DEF HookWrite, At
    <2>2. /\ i.src \in Accounts /\ i.payer \in Doc /\ i.amount \in Amounts
          /\ i.payer.bal < 0 => Clawed(i.src)
      BY <1>1, <2>1 DEF JobOK, KnowsRequest, HasCopies, HoldsPayer, Saving, SoundCopy
    <2>3. /\ Charged(i.payer, i.amount) \in Doc
          /\ Charged(i.payer, i.amount).bal = i.payer.bal
      BY <1>1, <2>2 DEF Charged, Doc
    <2>. QED
      BY <1>6, <2>2, <2>3, WriteSound
  <1>7. CASE /\ TakeBack(h) /\ Found(i.dst)
             /\ UpdateAccount(i.dst, Debited(i.payee, i.amount))
    <2>1. i.pc = "takeBack" /\ UNCHANGED txn
      BY <1>7 DEF TakeBack, At
    <2>2. /\ i.dst \in Accounts /\ i.payee \in Doc /\ i.amount \in Amounts
          /\ i.tx \in Txns /\ txn[i.tx] # Nil /\ txn[i.tx].to = i.dst
      BY <1>1, <2>1
         DEF JobOK, KnowsRequest, KnowsParties, HasCopies, Refunding, SoundCopy
    <2>3. Debited(i.payee, i.amount) \in Doc
      BY <2>2, DocArithmetic
    <2>4. trail'[i.tx].clawed > 0
      BY <1>7, TrailGrows
    <2>5. PICK b \in Accounts : b = i.dst
      BY <2>2
    <2>6. Clawed(b)'
      BY <2>1, <2>2, <2>4, <2>5 DEF Clawed
    <2>. QED
      BY <1>7, <2>2, <2>3, <2>5, <2>6, WriteSound
  <1>8. CASE UpdateAccount(i.dst, Debited(i.payee, i.amount)) /\ ~ Found(i.dst)
    <2>1. account' = account
      BY <1>8 DEF UpdateAccount, Found, TypeInv, TypeOK, StoreTypeOK
    <2>. QED
      BY <1>2, <2>1
  <1>. QED
    BY <1>2, <1>3, <1>4, <1>5, <1>6, <1>7, <1>8, Writes


\* The copies a handler holds after a step of its own are sound.
LEMMA OwnCopiesStep ==
    ASSUME TypeInv, TypeInv', SoundCopies, NoOverdraft, KeepsTerms,
           \A b : Clawed(b) => Clawed(b)',
           NEW h \in Handlers, Serve(h), NEW k, k = job'[h]
    PROVE  /\ k.pc \in {"findPayee", "readPayee", "debit"} => k.amount <= k.payer.bal
           /\ HoldsPayer(k) /\ k.payer.bal < 0 => Clawed(k.src)'
           /\ HoldsPayee(k) /\ k.payee # Nil /\ k.payee.bal < 0 => Clawed(k.dst)'
           /\ k.pc \in Refunding => txn'[k.tx] # Nil /\ txn'[k.tx].to = k.dst
  <1>. DEFINE i == job[h]
              Sound ==
                /\ k.pc \in {"findPayee", "readPayee", "debit"}
                     => k.amount <= k.payer.bal
                /\ HoldsPayer(k) /\ k.payer.bal < 0 => Clawed(k.src)'
                /\ HoldsPayee(k) /\ k.payee # Nil /\ k.payee.bal < 0
                     => Clawed(k.dst)'
                /\ k.pc \in Refunding => txn'[k.tx] # Nil /\ txn'[k.tx].to = k.dst
  <1>. SUFFICES Sound
    OBVIOUS
  <1>. HIDE DEF Sound
  <1>1. /\ JobOK(i, txn) /\ JobOK(k, txn') /\ SoundCopy(i)
    BY DEF TypeInv, SoundCopies
  <1>2. /\ HoldsPayer(k) => k.payer # Nil /\ k.src \in Accounts
        /\ HoldsPayee(k) => k.dst \in Accounts
        /\ k.pc \in Refunding => k.tx \in Txns
    BY <1>1, StoreAssumption
       DEF JobOK, KnowsRequest, KnowsParties, HasCopies, HoldsPayer, HoldsPayee,
           Paying, Refunding, Saving
  <1>3. \A a \in Accounts : account[a] # Nil /\ account[a].bal < 0 => Clawed(a)'
    <2>1. ASSUME NEW a \in Accounts, account[a] # Nil, account[a].bal < 0
          PROVE  Clawed(a)
      BY <2>1 DEF NoOverdraft, Found
    <2>. QED
      BY <2>1
  <1>4. \A a : Clawed(a) => Clawed(a)'
    OBVIOUS
  <1>5. \A t \in Txns : txn[t] # Nil => txn'[t] # Nil /\ txn'[t].to = txn[t].to
    BY DEF KeepsTerms
  <1>6. k.pc \notin {"findPayee", "readPayee", "debit", "giveBack", "hookWrite",
                     "credit", "readFrom", "takeBack", "readTo"} => Sound
    BY DEF Sound, HoldsPayer, HoldsPayee, Refunding
  <1>7. k = Idle => Sound
    BY <1>6 DEF Idle
  <1>8. CASE Submit(h)
    <2>1. \/ /\ k.pc = "findPayee" /\ k.payer = account[k.src]
             /\ k.amount <= k.payer.bal
          \/ k.pc \in {"record", "setDefault", "readPayer"}
          \/ /\ k.pc = "readTo" /\ txn[k.tx] # Nil /\ txn[k.tx].to = k.dst
      BY <1>8, SubmitSteps DEF Loaded
    <2>2. CASE /\ k.pc = "findPayee" /\ k.payer = account[k.src]
               /\ k.amount <= k.payer.bal
      BY <1>2, <1>3, <2>2 DEF Sound, HoldsPayer, HoldsPayee, Refunding
    <2>3. CASE k.pc = "readTo" /\ txn[k.tx] # Nil /\ txn[k.tx].to = k.dst
      BY <1>2, <1>5, <2>3 DEF Sound, HoldsPayer, HoldsPayee, Refunding
    <2>. QED
      BY <1>6, <2>1, <2>2, <2>3
  <1>9. CASE ReadPayer(h)
    <2>1. /\ k.pc = "findPayee" /\ i.amount = k.amount /\ k.src = i.src
          /\ k.payer = account[i.src]
      BY <1>9, PaySteps DEF Kept
    <2>2. k.amount <= k.payer.bal
      BY <1>9, <2>1 DEF ReadPayer, CanPay
    <2>. QED
      BY <1>2, <1>3, <2>1, <2>2 DEF Sound, HoldsPayer, HoldsPayee, Refunding
  <1>10. CASE FindPayee(h) /\ k # Idle
    <2>1. /\ i.pc = "findPayee" /\ k.pc = "readPayee" /\ i.amount = k.amount
          /\ k.src = i.src /\ k.payer = i.payer
      BY <1>10, PaySteps DEF Kept
    <2>2. /\ i.amount <= i.payer.bal
          /\ i.payer.bal < 0 => Clawed(i.src)
      BY <1>1, <2>1 DEF SoundCopy, HoldsPayer
    <2>. QED
      BY <1>4, <2>1, <2>2 DEF Sound, HoldsPayer, HoldsPayee, Refunding
  <1>11. CASE ReadPayee(h)
    <2>1. /\ i.pc = "readPayee" /\ k.pc = "debit" /\ i.amount = k.amount
          /\ k.src = i.src /\ k.dst = i.dst /\ k.payer = i.payer
          /\ k.payee = account[i.dst]
      BY <1>11, PaySteps DEF Kept, Route
    <2>2. /\ i.amount <= i.payer.bal
          /\ i.payer.bal < 0 => Clawed(i.src)
      BY <1>1, <2>1 DEF SoundCopy, HoldsPayer
    <2>3. HoldsPayer(k) /\ k.payer.bal < 0 => Clawed(k.src)'
      BY <1>4, <2>1, <2>2
    <2>4. HoldsPayee(k) /\ k.payee # Nil /\ k.payee.bal < 0 => Clawed(k.dst)'
      BY <1>2, <1>3, <2>1
    <2>. QED
      BY <2>1, <2>2, <2>3, <2>4 DEF Sound, Refunding
  <1>12. CASE Debit(h) \/ GiveBack(h)
    <2>1. /\ \/ i.pc = "debit" /\ k.pc = "credit"
             \/ i.pc = "giveBack" /\ k.pc = "takeBack"
          /\ k.dst = i.dst /\ k.tx = i.tx /\ k.payee = i.payee
      <3>1. CASE Debit(h)
        BY <3>1, PaySteps DEF Kept, Route
      <3>2. CASE GiveBack(h)
        BY <3>2, RefundSteps DEF Kept, Route
      <3>. QED
        BY <1>12, <3>1, <3>2
    <2>2. /\ i.payee # Nil /\ i.payee.bal < 0 => Clawed(i.dst)
          /\ k.pc = "takeBack" => txn[i.tx] # Nil /\ txn[i.tx].to = i.dst
      BY <1>1, <2>1 DEF SoundCopy, HoldsPayee, Refunding
    <2>3. k.payee # Nil /\ k.payee.bal < 0 => Clawed(k.dst)'
      BY <1>4, <2>1, <2>2
    <2>4. k.pc \in Refunding => txn'[k.tx] # Nil /\ txn'[k.tx].to = k.dst
      BY <1>2, <1>5, <2>1, <2>2 DEF Refunding
    <2>. QED
      BY <2>1, <2>3, <2>4 DEF Sound, HoldsPayer
  <1>13. CASE ReadTo(h) /\ k # Idle
    <2>1. /\ i.pc = "readTo" /\ k.pc = "readFrom" /\ k.dst = i.dst /\ k.tx = i.tx
          /\ k.payee = account[i.dst]
      BY <1>13, RefundSteps DEF Kept, Route
    <2>2. txn[i.tx] # Nil /\ txn[i.tx].to = i.dst
      BY <1>1, <2>1 DEF SoundCopy, Refunding
    <2>3. HoldsPayee(k) /\ k.payee # Nil /\ k.payee.bal < 0 => Clawed(k.dst)'
      BY <1>2, <1>3, <2>1
    <2>4. k.pc \in Refunding => txn'[k.tx] # Nil /\ txn'[k.tx].to = k.dst
      BY <1>2, <1>5, <2>1, <2>2
    <2>. QED
      BY <2>1, <2>3, <2>4 DEF Sound, HoldsPayer
  <1>14. CASE ReadFrom(h) /\ k # Idle
    <2>1. /\ i.pc = "readFrom" /\ k.pc = "giveBack"
          /\ k.src = i.src /\ k.dst = i.dst /\ k.tx = i.tx
          /\ k.payer = account[i.src] /\ k.payee = i.payee
      BY <1>14, RefundSteps DEF Kept, Route
    <2>2. /\ txn[i.tx] # Nil /\ txn[i.tx].to = i.dst
          /\ i.payee # Nil /\ i.payee.bal < 0 => Clawed(i.dst)
      BY <1>1, <2>1 DEF SoundCopy, Refunding, HoldsPayee
    <2>3. k.payee # Nil /\ k.payee.bal < 0 => Clawed(k.dst)'
      BY <1>4, <2>1, <2>2
    <2>4. HoldsPayer(k) /\ k.payer.bal < 0 => Clawed(k.src)'
      BY <1>2, <1>3, <2>1
    <2>5. k.pc \in Refunding => txn'[k.tx] # Nil /\ txn'[k.tx].to = k.dst
      BY <1>2, <1>5, <2>1, <2>2
    <2>. QED
      BY <2>1, <2>3, <2>4, <2>5 DEF Sound
  <1>15. CASE HookRead(h) /\ k # Idle
    <2>1. k.pc = "hookWrite" /\ k.payer = account[k.src]
      BY <1>15, SaveSteps
    <2>. QED
      BY <1>2, <1>3, <2>1 DEF Sound, HoldsPayer, HoldsPayee, Refunding
  <1>16. CASE Credit(h) \/ TakeBack(h) \/ Record(h)
    <2>1. k.pc \in {"record", "hookRead"}
      BY <1>16, PaySteps, RefundSteps, SaveSteps
    <2>. QED
      BY <1>6, <2>1
  <1>17. CASE \/ HookWrite(h) \/ RefusePayer(h) \/ PayeeMissing(h)
              \/ SetDefaultAcc(h) \/ Abort(h)
    BY <1>7, <1>17, SaveSteps
  <1>. QED
    BY <1>7, <1>8, <1>9, <1>10, <1>11, <1>12, <1>13, <1>14, <1>15, <1>16, <1>17
       DEF Serve, Advance


-----------------------------------------------------------------------------
(* The invariant                                                           *)

SafetyInv ==
    /\ TypeInv
    /\ Phases
    /\ OwnSlot
    /\ SoundCopies
    /\ NoOverdraft

\* The first states.
LEMMA InitSafety == Init => SafetyInv
  <1>. SUFFICES ASSUME Init PROVE SafetyInv
    OBVIOUS
  <1>1. TypeInv
    BY InitType
  <1>2. /\ \A h \in Handlers : job[h] = Idle
        /\ \A t \in Txns : txn[t] = Nil
        /\ \A a \in Accounts : account[a].bal = Opening
    BY DEF Init, StoreInit
  <1>3. Phases
    BY <1>2 DEF Phases, Idle, Paying, Refunding
  <1>4. OwnSlot
    BY <1>2, IdleCreatesNothing DEF OwnSlot
  <1>5. SoundCopy(Idle)
    BY DEF SoundCopy, Idle, HoldsPayer, HoldsPayee, Refunding
  <1>6. SoundCopies
    BY <1>2, <1>5 DEF SoundCopies
  <1>7. NoOverdraft
    BY <1>2, StoreAssumption DEF NoOverdraft
  <1>. QED
    BY <1>1, <1>3, <1>4, <1>6, <1>7 DEF SafetyInv

\* A step of a handler.
LEMMA ServeSafety ==
    ASSUME SafetyInv, NEW h \in Handlers, Serve(h)
    PROVE  SafetyInv' /\ KeepsTerms
  <1>1. TypeInv /\ Phases /\ OwnSlot /\ SoundCopies /\ NoOverdraft
    BY DEF SafetyInv
  <1>2. TypeInv'
    BY <1>1, ServeType
  <1>3. Phases'
    BY <1>1, PhasesStep
  <1>4. OwnSlot'
    BY <1>1, SlotStep
  <1>5. KeepsTerms
    BY <1>1, TermsStep
  <1>6. \A t \in Txns : trail'[t].clawed >= trail[t].clawed
    BY <1>1, TrailGrows
  <1>7. \A b : Clawed(b) => Clawed(b)'
    BY <1>1, <1>2, <1>5, <1>6, ClawedStays
  <1>8. NoOverdraft'
    BY <1>1, <1>5, <1>7, BalanceStep
  <1>9. SoundCopies'
    <2>1. ASSUME NEW g \in Handlers, g # h
          PROVE  SoundCopy(job[g])'
      <3>1. PICK k : k = job'[g]
        OBVIOUS
      <3>2. k = job[g] /\ JobOK(job[g], txn) /\ SoundCopy(job[g])
        BY <1>1, <2>1, <3>1, OthersKeepJobs DEF TypeInv, SoundCopies
      <3>3. /\ k.pc \in {"findPayee", "readPayee", "debit"} => k.amount <= k.payer.bal
            /\ HoldsPayer(k) /\ k.payer.bal < 0 => Clawed(k.src)'
            /\ HoldsPayee(k) /\ k.payee # Nil /\ k.payee.bal < 0 => Clawed(k.dst)'
            /\ k.pc \in Refunding => txn'[k.tx] # Nil /\ txn'[k.tx].to = k.dst
        BY <1>5, <1>7, <3>2, SoundStays
      <3>. QED
        BY <3>1, <3>3 DEF SoundCopy, HoldsPayer, HoldsPayee, Clawed
    <2>2. SoundCopy(job[h])'
      <3>1. PICK k : k = job'[h]
        OBVIOUS
      <3>2. /\ k.pc \in {"findPayee", "readPayee", "debit"} => k.amount <= k.payer.bal
            /\ HoldsPayer(k) /\ k.payer.bal < 0 => Clawed(k.src)'
            /\ HoldsPayee(k) /\ k.payee # Nil /\ k.payee.bal < 0 => Clawed(k.dst)'
            /\ k.pc \in Refunding => txn'[k.tx] # Nil /\ txn'[k.tx].to = k.dst
        BY <1>1, <1>2, <1>5, <1>7, <3>1, OwnCopiesStep
      <3>. QED
        BY <3>1, <3>2 DEF SoundCopy, HoldsPayer, HoldsPayee, Clawed
    <2>. QED
      BY <2>1, <2>2 DEF SoundCopies
  <1>. QED
    BY <1>2, <1>3, <1>4, <1>5, <1>8, <1>9 DEF SafetyInv

\* The steps of account-service and the stuttering ones leave the handlers and
\* the transactions alone, and no balance that is still there changes.
LEMMA StoreSafety ==
    ASSUME SafetyInv, TypeInv', UNCHANGED <<txn, job, accepted, trail>>,
           \A a \in Accounts :
             account'[a] # Nil => account[a] # Nil /\ account'[a].bal = account[a].bal
    PROVE  SafetyInv'
  <1>1. Phases /\ OwnSlot /\ SoundCopies /\ NoOverdraft
    BY DEF SafetyInv
  <1>2. Phases' /\ OwnSlot'
    BY <1>1 DEF Phases, OwnSlot, Creates
  <1>3. SoundCopies'
    BY <1>1 DEF SoundCopies, SoundCopy, Clawed, HoldsPayer, HoldsPayee
  <1>4. NoOverdraft'
    BY <1>1 DEF NoOverdraft, Found, Clawed
  <1>. QED
    BY <1>2, <1>3, <1>4 DEF SafetyInv

\* Every step keeps the invariant, and the terms of the transactions.
LEMMA StepSafety == SafetyInv /\ [Next]_vars => SafetyInv' /\ KeepsTerms
  <1>. SUFFICES ASSUME SafetyInv, [Next]_vars PROVE SafetyInv' /\ KeepsTerms
    OBVIOUS
  <1>1. TypeInv /\ TypeInv'
    BY StepType DEF SafetyInv
  <1>2. account \in [Accounts -> Doc \cup {Nil}] /\ Nil \notin Doc
    BY <1>1, StoreAssumption DEF TypeInv, TypeOK, StoreTypeOK
  <1>3. ASSUME NEW h \in Handlers, Serve(h) PROVE SafetyInv' /\ KeepsTerms
    BY <1>3, ServeSafety
  <1>4. UNCHANGED txn => KeepsTerms
    BY DEF KeepsTerms
  <1>5. ASSUME NEW a \in Accounts, SetLimit(a) PROVE SafetyInv' /\ KeepsTerms
    <2>1. PICK cap \in Caps : ChangeLimit(a, cap)
      BY <1>5 DEF SetLimit
    <2>2. UNCHANGED <<txn, job, accepted, trail>>
      BY <2>1 DEF ChangeLimit, handlerVars
    <2>3. account[a] \in Doc
      BY <1>2, <2>1 DEF ChangeLimit, UpdateLimit, Found
    <2>4. account' = [account EXCEPT ![a] = [account[a] EXCEPT !.cap = cap, !.spent = 0]]
      BY <2>1 DEF ChangeLimit, UpdateLimit
    <2>5. account'[a].bal = account[a].bal
      BY <1>2, <2>3, <2>4 DEF Doc
    <2>6. \A b \in Accounts : account'[b] # Nil =>
            account[b] # Nil /\ account'[b].bal = account[b].bal
      BY <1>2, <2>3, <2>4, <2>5
    <2>. QED
      BY <1>1, <1>4, <2>2, <2>6, StoreSafety
  <1>6. ASSUME NEW a \in Accounts, Delete(a) PROVE SafetyInv' /\ KeepsTerms
    <2>1. /\ account' = [account EXCEPT ![a] = Nil]
          /\ UNCHANGED <<txn, job, accepted, trail>>
      BY <1>6 DEF Delete, DeleteAccount, handlerVars, historyVars
    <2>2. \A b \in Accounts : account'[b] # Nil =>
            account[b] # Nil /\ account'[b].bal = account[b].bal
      BY <1>2, <2>1
    <2>. QED
      BY <1>1, <1>4, <2>1, <2>2, StoreSafety
  <1>7. CASE UNCHANGED vars
    <2>1. UNCHANGED <<account, txn, job, accepted, trail>>
      BY <1>7 DEF vars, storeVars, handlerVars, historyVars
    <2>. QED
      BY <1>1, <1>4, <2>1, StoreSafety
  <1>. QED
    BY <1>3, <1>5, <1>6, <1>7 DEF Next, Rest

\* For any number of handlers, accounts and requests, whatever requests overlap
\* and whatever copies they write over each other, and after any crash: a
\* balance is negative only on an account that a refund was taken from.
THEOREM Overdraft == Spec => []NoOverdraft
  <1>1. SafetyInv => NoOverdraft
    BY DEF SafetyInv
  <1>. QED
    BY <1>1, InitSafety, StepSafety, PTL DEF Spec

\* No step changes the parties or the amount of a transaction, or forgets one:
\* two requests never create the same transaction, and the handlers that work
\* on an existing one save its status alone.
THEOREM TermsKept == Spec => [][KeepsTerms]_vars
  BY InitSafety, StepSafety, PTL DEF Spec
=============================================================================
