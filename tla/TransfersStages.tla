--------------------------- MODULE TransfersStages ---------------------------
(***************************************************************************)
(* The steps of a payment come in order, and what a transaction says about *)
(* money did happen: theorems about Transfers, for all values of its       *)
(* constants.                                                              *)
(***************************************************************************)
EXTENDS TransfersSafety, FiniteSets, FiniteSetTheorems

-----------------------------------------------------------------------------
(* From step to step                                                       *)

\* The steps that follow each other within a request.
Follows(i, j) ==
    \/ i.pc = "readPayer" /\ j.pc = "findPayee"
    \/ i.pc = "findPayee" /\ j.pc = "readPayee"
    \/ i.pc = "readPayee" /\ j.pc = "debit"
    \/ i.pc = "debit"     /\ j.pc = "credit"
    \/ i.pc = "credit"    /\ j.pc = "record"
    \/ i.pc = "readTo"    /\ j.pc = "readFrom"
    \/ i.pc = "readFrom"  /\ j.pc = "giveBack"
    \/ i.pc = "giveBack"  /\ j.pc = "takeBack"
    \/ i.pc = "takeBack"  /\ j.pc = "record"
    \/ i.pc = "record"    /\ j.pc = "hookRead"
    \/ i.pc = "hookRead"  /\ j.pc = "hookWrite"

\* A handler that goes on does the next step of its request, or ends.
LEMMA NextStep ==
    ASSUME TypeInv, NEW h \in Handlers, Advance(h) \/ Abort(h)
    PROVE  \/ job'[h] = Idle
           \/ Kept(job[h], job'[h]) /\ Follows(job[h], job'[h])
  <1>1. CASE \/ ReadPayer(h) \/ FindPayee(h) \/ ReadPayee(h) \/ Debit(h) \/ Credit(h)
    BY <1>1, PaySteps DEF Follows, Route
  <1>2. CASE ReadTo(h) \/ ReadFrom(h) \/ GiveBack(h) \/ TakeBack(h)
    BY <1>2, RefundSteps DEF Follows, Route
  <1>3. CASE \/ Record(h) \/ HookRead(h) \/ HookWrite(h) \/ RefusePayer(h)
             \/ PayeeMissing(h) \/ SetDefaultAcc(h) \/ Abort(h)
    BY <1>3, SaveSteps DEF Follows, Route
  <1>. QED
    BY <1>1, <1>2, <1>3 DEF Advance

-----------------------------------------------------------------------------
(* Whose accounts a handler works on                                       *)

\* The accounts and the other party of a request are those its transaction names,
\* or other accounts of the same users.
KnowsOwners(j) ==
    /\ j.op = "confirmReceive" /\ j.pc \in Paying \cup {"record"} =>
         /\ Owner[j.src] = Owner[txn[j.tx].from]
         /\ Owner[j.dst] = Owner[txn[j.tx].to]
         /\ j.peer = Owner[txn[j.tx].to]
    /\ j.op = "approveRefund" /\ j.pc \in Refunding \cup {"record"} =>
         j.src = txn[j.tx].from /\ j.dst = txn[j.tx].to
    /\ j.pc = "setDefault" => Owner[j.dst] = j.peer

\* A default account is one of the user's own accounts.
OwnDefaults ==
    \A u \in Users : defaultAcc[u] # Nil => Owner[defaultAcc[u]] = u

\* The accounts and the party of a handler that goes on stay, but for the payee's
\* account, which is found on the way.
LEMMA PartySteps ==
    ASSUME TypeInv, NEW h \in Handlers, Advance(h) \/ Abort(h), job'[h] # Idle,
           job'[h].pc # "hookWrite"
    PROVE  /\ job'[h].src = job[h].src /\ job'[h].peer = job[h].peer
           /\ \/ job'[h].dst = job[h].dst
              \/ /\ job[h].pc = "findPayee" /\ defaultAcc[job[h].peer] # Nil
                 /\ job'[h].dst = defaultAcc[job[h].peer]
  <1>1. job \in [Handlers -> Job]
    BY DEF TypeInv, TypeOK
  <1>2. CASE \/ ReadPayer(h) \/ FindPayee(h) \/ ReadPayee(h) \/ ReadTo(h) \/ ReadFrom(h)
    BY <1>1, <1>2, JobFields
       DEF Job, ReadPayer, FindPayee, ReadPayee, ReadTo, ReadFrom, At
  <1>3. CASE Debit(h) \/ Credit(h) \/ GiveBack(h) \/ TakeBack(h) \/ Record(h)
    BY <1>1, <1>3 DEF Job, Debit, Credit, GiveBack, TakeBack, Record, Goto
  <1>4. CASE \/ HookRead(h) \/ HookWrite(h) \/ RefusePayer(h) \/ PayeeMissing(h)
             \/ SetDefaultAcc(h) \/ Abort(h)
    BY <1>4, SaveSteps
  <1>. QED
    BY <1>2, <1>3, <1>4 DEF Advance

\* Defaults stay accounts of their users, and handlers keep to their parties.
LEMMA OwnersStep ==
    ASSUME SafetyInv, OwnDefaults, \A g \in Handlers : KnowsOwners(job[g]),
           NEW h \in Handlers, Serve(h), KeepsTerms
    PROVE  OwnDefaults' /\ \A g \in Handlers : KnowsOwners(job[g])'
  <1>. DEFINE i == job[h]
              j == job'[h]
  <1>1. /\ TypeInv /\ KnowsOwners(i) /\ JobOK(i, txn)
        /\ \A g \in Handlers : JobOK(job[g], txn)
        /\ defaultAcc \in [Users -> Accounts \cup {Nil}]
    BY DEF SafetyInv, TypeInv, TypeOK, StoreTypeOK
  <1>2. \A g \in Handlers \ {h} : job'[g] = job[g]
    BY <1>1, OthersKeepJobs
  <1>3. ASSUME NEW k, JobOK(k, txn), KnowsOwners(k) PROVE KnowsOwners(k)'
    <2>1. k.op \in {"confirmReceive", "approveRefund"} /\
          k.pc \in Paying \cup Refunding \cup {"record"} =>
            /\ txn'[k.tx].from = txn[k.tx].from
            /\ txn'[k.tx].to = txn[k.tx].to
      BY <1>3, OutcomeFacts
         DEF KeepsTerms, JobOK, WorksOn, KnowsRequest, Saving, Creating, TypeOf
    <2>. QED
      BY <1>3, <2>1 DEF KnowsOwners
  <1>4. KnowsOwners(job[h])'
    <2>1. CASE Submit(h)
      <3>1. /\ UNCHANGED txn
            /\ \/ j.op = "sendMoney" /\ j.pc = "findPayee"
               \/ j.op = "reqReceiveMoney" /\ j.pc = "record"
               \/ /\ j.op = "changeDefault" /\ j.pc = "setDefault"
                  /\ j.peer = Owner[j.dst]
               \/ j.op \in Ops \ Creating /\ Loaded(j)
        BY <1>1, <2>1, SubmitSteps
      <3>2. CASE j.op \in Ops \ Creating /\ Loaded(j)
        BY <3>1, <3>2 DEF KnowsOwners, Loaded
      <3>. QED
        BY <3>1, <3>2 DEF KnowsOwners, Paying
    <2>2. CASE j = Idle
      BY <2>2 DEF KnowsOwners, Idle
    <2>3. CASE (Advance(h) \/ Abort(h)) /\ j # Idle /\ j.pc = "hookWrite"
      BY <2>3 DEF KnowsOwners, Paying, Refunding
    <2>4. CASE (Advance(h) \/ Abort(h)) /\ j # Idle /\ j.pc # "hookWrite"
      <3>1. /\ j.src = i.src /\ j.peer = i.peer
            /\ \/ j.dst = i.dst
               \/ /\ i.pc = "findPayee" /\ defaultAcc[i.peer] # Nil
                  /\ j.dst = defaultAcc[i.peer]
            /\ Kept(i, j) /\ Follows(i, j)
        BY <1>1, <2>4, PartySteps, NextStep
      <3>2. i.pc = "findPayee" => i.peer \in Users
        BY <1>1 DEF JobOK, KnowsParties
      <3>3. /\ j.pc \in Paying \cup {"record"} /\ j.op = "confirmReceive" =>
                 i.pc \in Paying
            /\ j.pc \in Refunding \cup {"record"} /\ j.op = "approveRefund" =>
                 i.pc \in Refunding
            /\ j.pc # "setDefault" /\ j.op = i.op
            /\ i.pc = "findPayee" => j.pc \notin Refunding \cup {"record"}
        BY <1>1, <3>1 DEF Kept, Follows, Paying, Refunding, SafetyInv, Phases
      <3>4. PICK k : k = i /\ KnowsOwners(k)'
        <4>1. PICK k : k = i
          OBVIOUS
        <4>. QED
          BY <1>1, <1>3, <4>1
      <3>5. i.pc = "findPayee" /\ defaultAcc[i.peer] # Nil =>
              Owner[defaultAcc[i.peer]] = i.peer
        BY <3>2 DEF OwnDefaults
      <3>6. j.op = "confirmReceive" /\ j.pc \in Paying \cup {"record"} =>
              /\ Owner[j.src] = Owner[txn'[j.tx].from]
              /\ Owner[j.dst] = Owner[txn'[j.tx].to]
              /\ j.peer = Owner[txn'[j.tx].to]
        BY <3>1, <3>3, <3>4, <3>5 DEF KnowsOwners, Kept
      <3>7. j.op = "approveRefund" /\ j.pc \in Refunding \cup {"record"} =>
              j.src = txn'[j.tx].from /\ j.dst = txn'[j.tx].to
        BY <3>1, <3>3, <3>4 DEF KnowsOwners, Kept
      <3>. QED
        BY <3>3, <3>6, <3>7 DEF KnowsOwners
    <2>. QED
      BY <2>1, <2>2, <2>3, <2>4 DEF Serve
  <1>5. OwnDefaults'
    <2>1. CASE SetDefaultAcc(h)
      <3>1. /\ i.pc = "setDefault" /\ i.peer \in Users /\ Owner[i.dst] = i.peer
            /\ defaultAcc' = [defaultAcc EXCEPT ![i.peer] = i.dst]
        BY <1>1, <2>1 DEF SetDefaultAcc, SetDefault, At, JobOK, KnowsParties, KnowsOwners
      <3>. QED
        BY <1>1, <3>1 DEF OwnDefaults
    <2>2. CASE Submit(h)
      BY <1>1, <2>2, SubmitSteps DEF OwnDefaults, storeVars
    <2>3. CASE (Advance(h) \/ Abort(h)) /\ ~ SetDefaultAcc(h)
      <3>1. UNCHANGED defaultAcc
        BY <2>3 DEF Advance, Abort, ReadPayer, RefusePayer, FindPayee, ReadPayee, Debit,
                    Credit, PayeeMissing, ReadTo, ReadFrom, GiveBack, TakeBack,
                    Record, HookRead, HookWrite, storeVars
      <3>. QED
        BY <3>1 DEF OwnDefaults
    <2>. QED
      BY <2>1, <2>2, <2>3 DEF Serve
  <1>. QED
    BY <1>1, <1>2, <1>3, <1>4, <1>5

\* An account that is gone stays so.
LEMMA GoneStays ==
    ASSUME TypeInv, NEW h \in Handlers, Serve(h)
    PROVE  /\ \A a \in Accounts : account[a] = Nil => account'[a] = Nil
           /\ \A u : LostAccount(u) => LostAccount(u)'
  <1>1. account \in [Accounts -> Doc \cup {Nil}]
    BY DEF TypeInv, TypeOK, StoreTypeOK
  <1>2. \/ account' = account
        \/ \E b, doc : UpdateAccount(b, doc)
    BY Writes
  <1>3. ASSUME NEW a \in Accounts, account[a] = Nil PROVE account'[a] = Nil
    <2>1. CASE account' = account
      BY <1>3, <2>1
    <2>2. ASSUME NEW b, NEW doc, UpdateAccount(b, doc) PROVE account'[a] = Nil
      BY <1>1, <1>3, <2>2 DEF UpdateAccount, Found
    <2>. QED
      BY <1>2, <2>1, <2>2
  <1>. QED
    BY <1>3 DEF LostAccount, Found

-----------------------------------------------------------------------------
(* What a step counts                                                      *)

Moves(h, from, to) == job[h].pc = from /\ job'[h].pc = to

Tick(n, here) == IF here THEN n + 1 ELSE n

\* What a step of a handler counts: a write that finds its document.
Counts(h) ==
    LET here(t) == t = job[h].tx
        src     == Found(job[h].src)
        dst     == Found(job[h].dst)
    IN  \A t \in Txns :
          /\ trail'[t].drawn =
               Tick(trail[t].drawn, here(t) /\ Moves(h, "debit", "credit") /\ src)
          /\ trail'[t].paid =
               Tick(trail[t].paid, here(t) /\ Moves(h, "credit", "record") /\ dst)
          /\ trail'[t].repaid =
               Tick(trail[t].repaid, here(t) /\ Moves(h, "giveBack", "takeBack") /\ src)
          /\ trail'[t].clawed =
               Tick(trail[t].clawed, here(t) /\ Moves(h, "takeBack", "record") /\ dst)
          /\ trail'[t].disputed =
               Tick(trail[t].disputed, /\ here(t) /\ Moves(h, "record", "hookRead")
                                       /\ job[h].op = "requestRefund")

\* A step of the trail is counted when the handler that took it goes on.
LEMMA Counted ==
    ASSUME TypeInv, NEW h \in Handlers, Serve(h)
    PROVE  Counts(h)
  <1>. DEFINE n == job[h].tx
  <1>1. trail \in [Txns -> TrailEntry] /\ JobOK(job[h], txn)
    BY DEF TypeInv, TypeOK
  <1>2. CASE Debit(h)
    <2>1. Moves(h, "debit", "credit")
      BY <1>2, PaySteps DEF Moves
    <2>2. n \in Txns /\ trail' = IF Found(job[h].src) THEN [trail EXCEPT ![n].drawn = @ + 1]
                                                      ELSE trail
      BY <1>1, <1>2 DEF Debit, Noted, At, JobOK, KnowsRequest, Paying
    <2>. QED
      BY <1>1, <2>1, <2>2 DEF Counts, Tick, Moves, TrailEntry
  <1>3. CASE Credit(h)
    <2>1. Moves(h, "credit", "record")
      BY <1>3, PaySteps DEF Moves
    <2>2. n \in Txns /\ trail' = IF Found(job[h].dst) THEN [trail EXCEPT ![n].paid = @ + 1]
                                                      ELSE trail
      BY <1>1, <1>3 DEF Credit, Noted, At, JobOK, KnowsRequest, Paying
    <2>. QED
      BY <1>1, <2>1, <2>2 DEF Counts, Tick, Moves, TrailEntry
  <1>4. CASE GiveBack(h)
    <2>1. Moves(h, "giveBack", "takeBack")
      BY <1>4, RefundSteps DEF Moves
    <2>2. n \in Txns /\ trail' = IF Found(job[h].src) THEN [trail EXCEPT ![n].repaid = @ + 1]
                                                      ELSE trail
      BY <1>1, <1>4 DEF GiveBack, Noted, At, JobOK, KnowsRequest, Refunding
    <2>. QED
      BY <1>1, <2>1, <2>2 DEF Counts, Tick, Moves, TrailEntry
  <1>5. CASE TakeBack(h)
    <2>1. Moves(h, "takeBack", "record")
      BY <1>5, RefundSteps DEF Moves
    <2>2. n \in Txns /\ trail' = IF Found(job[h].dst) THEN [trail EXCEPT ![n].clawed = @ + 1]
                                                      ELSE trail
      BY <1>1, <1>5 DEF TakeBack, Noted, At, JobOK, KnowsRequest, Refunding
    <2>. QED
      BY <1>1, <2>1, <2>2 DEF Counts, Tick, Moves, TrailEntry
  <1>6. CASE Record(h)
    <2>1. Moves(h, "record", "hookRead")
      BY <1>6, SaveSteps DEF Moves
    <2>2. n \in Txns
      BY <1>1, <1>6 DEF Record, At, JobOK, KnowsRequest, Saving
    <2>3. trail' = IF job[h].op = "requestRefund"
                     THEN [trail EXCEPT ![n].disputed = @ + 1] ELSE trail
      BY <1>6 DEF Record
    <2>. QED
      BY <1>1, <2>1, <2>2, <2>3 DEF Counts, Tick, Moves, TrailEntry
  <1>7. ASSUME UNCHANGED trail, job[h].pc \notin {"debit", "credit", "giveBack",
                  "takeBack", "record"} \/ job'[h] = Idle
        PROVE  Counts(h)
    BY <1>7 DEF Counts, Tick, Moves, Idle
  <1>8. CASE Submit(h)
    <2>1. UNCHANGED trail
      BY <1>8, SubmitSteps
    <2>2. job[h].pc = "idle"
      BY <1>8 DEF Submit, SendMoney, ReqReceiveMoney, ConfirmReceive, RejectReceive,
                  RequestRefund, ApproveRefund, RejectRefund,
                  SuspiciousTransaction, ChangeDefault, Load, Accept
    <2>. QED
      BY <1>7, <2>1, <2>2
  <1>9. CASE ReadPayer(h) \/ FindPayee(h) \/ ReadPayee(h)
    <2>1. UNCHANGED trail
      BY <1>9 DEF ReadPayer, FindPayee, ReadPayee, Unrecorded
    <2>. QED
      BY <1>7, <1>9, <2>1, PaySteps
  <1>10. CASE ReadTo(h) \/ ReadFrom(h)
    <2>1. UNCHANGED trail
      BY <1>10 DEF ReadTo, ReadFrom, Unrecorded
    <2>. QED
      BY <1>7, <1>10, <2>1, RefundSteps
  <1>11. CASE \/ HookRead(h) \/ HookWrite(h) \/ RefusePayer(h)
              \/ PayeeMissing(h) \/ SetDefaultAcc(h) \/ Abort(h)
    <2>1. UNCHANGED trail
      BY <1>11 DEF HookRead, HookWrite, RefusePayer, PayeeMissing, SetDefaultAcc,
                   Abort, Unrecorded, Noted
    <2>. QED
      BY <1>7, <1>11, <2>1, SaveSteps
  <1>. QED
    BY <1>2, <1>3, <1>4, <1>5, <1>6, <1>8, <1>9, <1>10, <1>11 DEF Serve, Advance

-----------------------------------------------------------------------------
(* What was drawn and is not paid yet is on its way                        *)

\* Handlers of t that are about to credit, or to take back: for each of them
\* there is a debit without a credit, or a repayment not taken back, unless the
\* account that should have been written first is gone.
Backed ==
    \A t \in Txns, S \in SUBSET Handlers : IsFiniteSet(S) =>
      /\ (\A g \in S : job[g].pc = "credit" /\ job[g].tx = t) =>
           trail[t].paid + Cardinality(S) <= trail[t].drawn \/ PayerLostAccount(t)
      /\ (\A g \in S : job[g].pc = "takeBack" /\ job[g].tx = t) =>
           \/ trail[t].clawed + Cardinality(S) <= trail[t].repaid
           \/ txn[t] # Nil /\ ~ Found(txn[t].from)

\* The handlers that wait at a step were waiting there before, but for the one
\* that has got there, and with the one that has gone on.
LEMMA WaitingStep ==
    ASSUME TypeInv, NEW h \in Handlers, Serve(h),
           NEW step, NEW prior,
           \/ step = "credit" /\ prior = "debit"
           \/ step = "takeBack" /\ prior = "giveBack",
           NEW t \in Txns, NEW S \in SUBSET Handlers, IsFiniteSet(S),
           \A g \in S : job'[g].pc = step /\ job'[g].tx = t
    PROVE  \E T \in SUBSET Handlers :
             /\ IsFiniteSet(T)
             /\ \A g \in T : job[g].pc = step /\ job[g].tx = t
             /\ Cardinality(S) + (IF t = job[h].tx /\ Moves(h, step, "record")
                                    THEN 1 ELSE 0)
                  <= Cardinality(T) + (IF t = job[h].tx /\ Moves(h, prior, step)
                                         THEN 1 ELSE 0)
  <1>1. \A g \in Handlers \ {h} : job'[g] = job[g]
    BY OthersKeepJobs
  <1>2. Cardinality(S) \in Nat
    BY FS_CardinalityType
  <1>3. CASE h \in S
    <2>1. /\ IsFiniteSet(S \ {h})
          /\ Cardinality(S \ {h}) = Cardinality(S) - 1
      BY <1>3, FS_RemoveElement
    <2>2. job'[h].pc = step /\ job'[h].tx = t
      BY <1>3
    <2>3. Moves(h, prior, step) /\ t = job[h].tx
      <3>1. ~ Submit(h)
        BY <2>2, SubmitSteps DEF Loaded
      <3>2. Kept(job[h], job'[h]) /\ Follows(job[h], job'[h])
        BY <2>2, <3>1, NextStep DEF Serve, Idle
      <3>. QED
        BY <2>2, <3>2 DEF Kept, Follows, Moves
    <2>4. ~ Moves(h, step, "record")
      BY <2>2 DEF Moves
    <2>5. \A g \in S \ {h} : job[g].pc = step /\ job[g].tx = t
      BY <1>1
    <2>. QED
      BY <1>2, <2>1, <2>3, <2>4, <2>5
  <1>4. CASE h \notin S /\ t = job[h].tx /\ Moves(h, step, "record")
    <2>1. /\ IsFiniteSet(S \cup {h})
          /\ Cardinality(S \cup {h}) = Cardinality(S) + 1
      BY <1>4, FS_AddElement
    <2>2. \A g \in S \cup {h} : job[g].pc = step /\ job[g].tx = t
      BY <1>1, <1>4 DEF Moves
    <2>3. ~ Moves(h, prior, step)
      BY <1>4 DEF Moves
    <2>. QED
      BY <1>2, <1>4, <2>1, <2>2, <2>3
  <1>5. CASE h \notin S /\ ~ (t = job[h].tx /\ Moves(h, step, "record"))
    <2>1. \A g \in S : job[g].pc = step /\ job[g].tx = t
      BY <1>1, <1>5
    <2>. QED
      BY <1>2, <1>5, <2>1
  <1>. QED
    BY <1>3, <1>4, <1>5

-----------------------------------------------------------------------------
(* What handlers and documents tell about the trail                        *)

\* What a handler has done, or has been let do.
Traced(j) ==
    /\ j.op = "sendMoney" =>
         /\ j.pc \in {"readPayer", "findPayee", "readPayee", "debit"} =>
              trail[j.tx].drawn = 0 /\ trail[j.tx].paid = 0
         /\ j.pc \in {"credit", "record"} => trail[j.tx].drawn = 1 \/ ~ Found(j.src)
         /\ j.pc = "credit" => trail[j.tx].paid = 0
         /\ j.pc = "record" =>
              trail[j.tx].paid = 1 \/ (trail[j.tx].paid = 0 /\ ~ Found(j.dst))
    /\ j.op = "reqReceiveMoney" /\ j.pc = "record" => trail[j.tx].paid = 0
    /\ j.op = "confirmReceive" =>
         /\ j.pc \in Paying \cup {"record"} => txn[j.tx].type = "Receive"
         /\ j.pc = "record" => trail[j.tx].paid > 0 \/ ~ Found(j.dst)
    /\ j.op \in {"approveRefund", "rejectRefund"} =>
         (j.pc \in Refunding \cup {"record"} => trail[j.tx].disputed > 0)
    /\ j.op = "approveRefund" =>
         /\ j.pc \in {"takeBack", "record"} => trail[j.tx].repaid > 0 \/ ~ Found(j.src)
         /\ j.pc = "record" => trail[j.tx].clawed > 0 \/ ~ Found(j.dst)

\* What the document of a transaction shows.
Shown(t) ==
    /\ t > accepted => trail[t] = NoTrail
    /\ trail[t].repaid > 0 => trail[t].disputed > 0
    /\ txn[t] # Nil =>
         /\ txn[t].type = "Send" =>
              /\ trail[t].drawn = 1 \/ ~ Found(txn[t].from)
              /\ trail[t].paid = 1 \/ ~ Found(txn[t].to)
         /\ txn[t].status = "Pending" => txn[t].type = "Receive"
         /\ txn[t].status = "Refunding" => trail[t].disputed > 0
         /\ txn[t].type = "Receive" /\ txn[t].status = "Success" =>
              \/ trail[t].paid > 0 \/ trail[t].disputed > 0
              \/ LostAccount(Owner[txn[t].to])
         /\ txn[t].status = "Refunded" =>
              /\ trail[t].repaid > 0 \/ ~ Found(txn[t].from)
              /\ trail[t].clawed > 0 \/ ~ Found(txn[t].to)

StagesInv ==
    /\ SafetyInv
    /\ OwnDefaults
    /\ Backed
    /\ \A h \in Handlers : Traced(job[h]) /\ KnowsOwners(job[h])
    /\ \A t \in Txns : Shown(t)

\* The handler that creates a transaction is the only one that pays for it.
LEMMA PaysAlone ==
    ASSUME SafetyInv, NEW g \in Handlers, NEW h \in Handlers, g # h,
           Creates(job[g]), job[h].pc \in {"debit", "credit"}
    PROVE  job[h].tx # job[g].tx
  <1>1. JobOK(job[h], txn) /\ job[h].op \in {"sendMoney", "confirmReceive"}
    BY DEF SafetyInv, TypeInv, Phases, Paying
  <1>2. CASE job[h].op = "sendMoney"
    <2>1. Creates(job[h])
      BY <1>2, OutcomeFacts DEF Creates, Paying
    <2>. QED
      BY <2>1 DEF SafetyInv, OwnSlot
  <1>3. CASE job[h].op = "confirmReceive"
    <2>1. txn[job[h].tx] # Nil
      BY <1>1, <1>3, OutcomeFacts DEF JobOK, WorksOn, Paying
    <2>. QED
      BY <2>1 DEF SafetyInv, OwnSlot
  <1>. QED
    BY <1>1, <1>2, <1>3

\* A step of a handler leaves enough draws for the credits that are to come.
LEMMA CreditsBacked ==
    ASSUME StagesInv, TypeInv', NEW h \in Handlers, Serve(h), KeepsTerms,
           NEW t \in Txns, NEW S \in SUBSET Handlers, IsFiniteSet(S),
           \A g \in S : job'[g].pc = "credit" /\ job'[g].tx = t
    PROVE  trail'[t].paid + Cardinality(S) <= trail'[t].drawn \/ PayerLostAccount(t)'
  <1>. DEFINE i == job[h]
  <1>1. /\ TypeInv /\ SafetyInv /\ OwnSlot /\ Phases /\ Traced(i) /\ KnowsOwners(i)
        /\ JobOK(i, txn) /\ Counts(h)
        /\ trail[t].drawn \in Nat /\ trail[t].paid \in Nat
        /\ Owner \in [Accounts -> Users]
    BY Counted, StoreAssumption DEF StagesInv, SafetyInv, TypeInv, TypeOK, TrailEntry
  <1>2. Cardinality(S) \in Nat
    BY FS_CardinalityType
  <1>3. PICK T \in SUBSET Handlers :
          /\ IsFiniteSet(T)
          /\ \A g \in T : job[g].pc = "credit" /\ job[g].tx = t
          /\ Cardinality(S) + (IF t = i.tx /\ Moves(h, "credit", "record") THEN 1 ELSE 0)
               <= Cardinality(T) + (IF t = i.tx /\ Moves(h, "debit", "credit") THEN 1 ELSE 0)
    BY <1>1, WaitingStep
  <1>4. /\ Cardinality(T) \in Nat
        /\ trail[t].paid + Cardinality(T) <= trail[t].drawn \/ PayerLostAccount(t)
    BY <1>3, FS_CardinalityType DEF StagesInv, Backed
  <1>5. CASE txn[t] = Nil /\ txn'[t] # Nil
    <2>1. /\ Record(h) /\ t = i.tx /\ i.op \in Creating /\ txn'[t].from = i.src
      <3>1. /\ Record(h) /\ t = i.tx
            /\ i.op \in Creating =>
                 txn'[t] = [type |-> TypeOf[i.op], status |-> Outcome[i.op],
                            from |-> i.src, to |-> i.dst, amount |-> i.amount]
            /\ i.op \notin Creating => txn[t] # Nil
        BY <1>1, <1>5, TxnSteps
      <3>. QED
        BY <1>5, <3>1
    <2>2. i.pc = "record" /\ job'[h].pc = "hookRead" /\ i.src \in Accounts
      BY <1>1, <2>1, SaveSteps DEF JobOK, KnowsRequest, Saving
    <2>3. S = {}
      <3>. SUFFICES ASSUME NEW g \in S PROVE FALSE
        OBVIOUS
      <3>1. g # h /\ job'[g] = job[g]
        BY <1>1, <2>2, OthersKeepJobs
      <3>2. Creates(i)
        BY <2>1, <2>2 DEF Creates
      <3>. QED
        BY <1>1, <2>1, <3>1, <3>2, PaysAlone
    <2>4. Cardinality(S) = 0
      BY <2>3, FS_EmptySet
    <2>5. trail'[t].drawn = trail[t].drawn /\ trail'[t].paid = trail[t].paid
      BY <1>1, <2>2 DEF Counts, Tick, Moves
    <2>6. CASE i.op = "reqReceiveMoney"
      BY <1>1, <2>1, <2>2, <2>4, <2>5, <2>6 DEF Traced
    <2>7. CASE i.op = "sendMoney" /\ Found(i.src)
      BY <1>1, <2>1, <2>2, <2>4, <2>5, <2>7 DEF Traced
    <2>8. CASE account[i.src] = Nil
      <3>1. account'[i.src] = Nil /\ Owner[i.src] \in Users
        BY <1>1, <2>2, <2>8, GoneStays
      <3>. QED
        BY <1>5, <2>1, <2>2, <3>1 DEF PayerLostAccount, LostAccount, Found
    <2>. QED
      BY <2>1, <2>6, <2>7, <2>8 DEF Creating, TypeOf, Found
  <1>6. CASE ~ (txn[t] = Nil /\ txn'[t] # Nil)
    <2>1. PayerLostAccount(t) => PayerLostAccount(t)'
      BY <1>1, <1>6, GoneStays DEF PayerLostAccount, KeepsTerms
    <2>2. CASE t = i.tx /\ Moves(h, "debit", "credit") /\ ~ Found(i.src)
      <3>1. /\ i.pc = "debit" /\ i.src \in Accounts
            /\ i.op = "sendMoney" \/ i.op = "confirmReceive"
        BY <1>1, <2>2 DEF Moves, JobOK, KnowsRequest, Phases, Paying
      <3>2. LostAccount(Owner[i.src]) /\ Owner[i.src] \in Users
        BY <1>1, <2>2, <3>1 DEF LostAccount
      <3>3. i.op = "sendMoney" => txn[t] = Nil
        BY <1>1, <2>2, <3>1, OutcomeFacts DEF OwnSlot, Creates, Paying
      <3>4. i.op = "confirmReceive" =>
              txn[t] # Nil /\ Owner[i.src] = Owner[txn[t].from]
        BY <1>1, <2>2, <3>1, OutcomeFacts DEF KnowsOwners, JobOK, WorksOn, Paying
      <3>5. PayerLostAccount(t)
        BY <3>1, <3>2, <3>3, <3>4 DEF PayerLostAccount
      <3>. QED
        BY <2>1, <3>5
    <2>3. CASE ~ (t = i.tx /\ Moves(h, "debit", "credit") /\ ~ Found(i.src))
      <3>. DEFINE out == IF t = i.tx /\ Moves(h, "debit", "credit") THEN 1 ELSE 0
                  in  == IF t = i.tx /\ Moves(h, "credit", "record") THEN 1 ELSE 0
      <3>1. out \in 0 .. 1 /\ in \in 0 .. 1
        OBVIOUS
      <3>2. /\ trail'[t].drawn = trail[t].drawn + out
            /\ trail'[t].paid = trail[t].paid \/ trail'[t].paid = trail[t].paid + in
        BY <1>1, <2>3 DEF Counts, Tick
      <3>3. Cardinality(S) + in <= Cardinality(T) + out
        BY <1>3
      <3>. HIDE DEF out, in
      <3>. QED
        BY <1>1, <1>2, <1>4, <2>1, <3>1, <3>2, <3>3
    <2>. QED
      BY <2>2, <2>3
  <1>. QED
    BY <1>5, <1>6

\* A step of a handler leaves enough repayments for what is to be taken back.
LEMMA TakeBacksBacked ==
    ASSUME StagesInv, NEW h \in Handlers, Serve(h), KeepsTerms,
           NEW t \in Txns, NEW S \in SUBSET Handlers, IsFiniteSet(S),
           \A g \in S : job'[g].pc = "takeBack" /\ job'[g].tx = t
    PROVE  \/ trail'[t].clawed + Cardinality(S) <= trail'[t].repaid
           \/ txn'[t] # Nil /\ account'[txn'[t].from] = Nil
  <1>. DEFINE i == job[h]
  <1>1. /\ TypeInv /\ SafetyInv /\ Phases /\ KnowsOwners(i)
        /\ JobOK(i, txn) /\ Counts(h)
        /\ trail[t].repaid \in Nat /\ trail[t].clawed \in Nat
        /\ txn[t] # Nil => txn[t].from \in Accounts
    BY Counted DEF StagesInv, SafetyInv, TypeInv, TypeOK, TrailEntry, Transaction
  <1>2. Cardinality(S) \in Nat
    BY FS_CardinalityType
  <1>3. PICK T \in SUBSET Handlers :
          /\ IsFiniteSet(T)
          /\ \A g \in T : job[g].pc = "takeBack" /\ job[g].tx = t
          /\ Cardinality(S) + (IF t = i.tx /\ Moves(h, "takeBack", "record") THEN 1 ELSE 0)
               <= Cardinality(T)
                    + (IF t = i.tx /\ Moves(h, "giveBack", "takeBack") THEN 1 ELSE 0)
    BY <1>1, WaitingStep
  <1>4. /\ Cardinality(T) \in Nat
        /\ \/ trail[t].clawed + Cardinality(T) <= trail[t].repaid
           \/ txn[t] # Nil /\ account[txn[t].from] = Nil
    BY <1>3, FS_CardinalityType DEF StagesInv, Backed, Found
  <1>5. txn[t] # Nil /\ account[txn[t].from] = Nil =>
          txn'[t] # Nil /\ account'[txn'[t].from] = Nil
    BY <1>1, GoneStays DEF KeepsTerms
  <1>6. CASE t = i.tx /\ Moves(h, "giveBack", "takeBack") /\ ~ Found(i.src)
    <2>1. i.pc = "giveBack" /\ i.op = "approveRefund"
      BY <1>1, <1>6 DEF Moves, Phases, Refunding
    <2>2. txn[t] # Nil /\ i.src = txn[t].from
      BY <1>1, <1>6, <2>1, OutcomeFacts DEF KnowsOwners, JobOK, WorksOn, Refunding
    <2>. QED
      BY <1>5, <1>6, <2>2 DEF Found
  <1>7. CASE ~ (t = i.tx /\ Moves(h, "giveBack", "takeBack") /\ ~ Found(i.src))
    <2>. DEFINE out == IF t = i.tx /\ Moves(h, "giveBack", "takeBack") THEN 1 ELSE 0
                in  == IF t = i.tx /\ Moves(h, "takeBack", "record") THEN 1 ELSE 0
    <2>1. out \in 0 .. 1 /\ in \in 0 .. 1
      OBVIOUS
    <2>2. /\ trail'[t].repaid = trail[t].repaid + out
          /\ trail'[t].clawed = trail[t].clawed \/ trail'[t].clawed = trail[t].clawed + in
      BY <1>1, <1>7 DEF Counts, Tick
    <2>3. Cardinality(S) + in <= Cardinality(T) + out
      BY <1>3
    <2>. HIDE DEF out, in
    <2>. QED
      BY <1>1, <1>2, <1>4, <1>5, <2>1, <2>2, <2>3
  <1>. QED
    BY <1>6, <1>7

\* What another handler does leaves a handler what it knows.
LEMMA TracedStays ==
    ASSUME StagesInv, NEW h \in Handlers, Serve(h), KeepsTerms,
           NEW g \in Handlers, g # h
    PROVE  Traced(job[g])'
  <1>. DEFINE j == job[g]
  <1>1. TypeInv /\ SafetyInv /\ Traced(j) /\ JobOK(j, txn)
    BY DEF StagesInv, SafetyInv, TypeInv
  <1>2. job'[g] = j
    BY <1>1, OthersKeepJobs
  <1>3. Counts(h)
    BY <1>1, Counted
  <1>. SUFFICES ASSUME j.pc \in Paying \cup Refunding \cup {"record"}
                PROVE  Traced(job[g])'
    BY <1>2 DEF Traced, Paying, Refunding
  <1>4. j.tx \in Txns
    BY <1>1 DEF JobOK, KnowsRequest, Saving
  <1>5. /\ trail[j.tx].drawn \in Nat /\ trail[j.tx].paid \in Nat
        /\ trail[j.tx].disputed \in Nat /\ trail[j.tx].clawed \in Nat
        /\ trail[j.tx].repaid \in Nat
    BY <1>1, <1>4 DEF TypeInv, TypeOK, TrailEntry
  <1>6. /\ trail[j.tx].paid > 0 => trail'[j.tx].paid > 0
        /\ trail[j.tx].disputed > 0 => trail'[j.tx].disputed > 0
        /\ trail[j.tx].repaid > 0 => trail'[j.tx].repaid > 0
        /\ trail[j.tx].clawed > 0 => trail'[j.tx].clawed > 0
    BY <1>3, <1>4, <1>5 DEF Counts, Tick
  <1>7. Creates(j) =>
          trail'[j.tx].drawn = trail[j.tx].drawn /\ trail'[j.tx].paid = trail[j.tx].paid
    <2>. SUFFICES ASSUME Creates(j)
                  PROVE  /\ trail'[j.tx].drawn = trail[j.tx].drawn
                         /\ trail'[j.tx].paid = trail[j.tx].paid
      OBVIOUS
    <2>1. ~ (j.tx = job[h].tx /\ (Moves(h, "debit", "credit") \/ Moves(h, "credit", "record")))
      BY <1>1, PaysAlone DEF Moves
    <2>. QED
      BY <1>3, <1>4, <2>1 DEF Counts, Tick
  <1>8. j.op = "confirmReceive" /\ j.pc \in Paying \cup {"record"} =>
          txn'[j.tx].type = txn[j.tx].type
    BY <1>1, <1>4, OutcomeFacts DEF KeepsTerms, JobOK, WorksOn
  <1>9. /\ j.src \in Accounts
        /\ j.pc \in {"credit", "record"} \cup Refunding => j.dst \in Accounts
    BY <1>1 DEF JobOK, KnowsRequest, KnowsParties, Saving
  <1>10. /\ ~ Found(j.src) => account'[j.src] = Nil
         /\ j.pc \in {"credit", "record"} \cup Refunding /\ ~ Found(j.dst) =>
              account'[j.dst] = Nil
    BY <1>1, <1>9, GoneStays DEF Found
  <1>11. CASE j.op \in Creating
    <2>1. /\ trail'[j.tx].drawn = trail[j.tx].drawn /\ trail'[j.tx].paid = trail[j.tx].paid
          /\ j.op \in {"sendMoney", "reqReceiveMoney"}
      BY <1>1, <1>7, <1>11 DEF Creates, SafetyInv, Phases, Creating, TypeOf, Refunding
    <2>. QED
      BY <1>1, <1>2, <1>10, <2>1 DEF Traced, Found
  <1>12. CASE j.op \notin Creating
    <2>1. j.op # "sendMoney" /\ j.op # "reqReceiveMoney"
      BY <1>12, OutcomeFacts DEF Creating, TypeOf
    <2>. QED
      BY <1>1, <1>2, <1>6, <1>8, <1>10, <2>1 DEF Traced, Found, Refunding
  <1>. QED
    BY <1>11, <1>12

\* A handler that goes on adds what it has done.
LEMMA TracedNext ==
    ASSUME StagesInv, NEW h \in Handlers, Serve(h), KeepsTerms
    PROVE  Traced(job[h])'
  <1>. DEFINE i == job[h]
              j == job'[h]
  <1>1. /\ TypeInv /\ SafetyInv /\ OwnSlot /\ Phases
        /\ Traced(i) /\ KnowsOwners(i) /\ JobOK(i, txn)
        /\ \A t \in Txns : Shown(t)
    BY DEF StagesInv, SafetyInv, TypeInv
  <1>2. CASE Submit(h)
    <2>1. /\ UNCHANGED <<txn, trail>> /\ accepted + 1 \in Txns
          /\ \/ j.op = "sendMoney" /\ j.pc = "findPayee" /\ j.tx = accepted + 1
             \/ j.op = "reqReceiveMoney" /\ j.tx = accepted + 1
             \/ j.op = "changeDefault"
             \/ j.op \in Ops \ Creating /\ j.tx \in Txns /\ Loaded(j)
      BY <1>1, <1>2, SubmitSteps
    <2>2. trail[accepted + 1].drawn = 0 /\ trail[accepted + 1].paid = 0
      <3>1. accepted + 1 > accepted
        BY <1>1, TransferAssumption DEF TypeInv, TypeOK
      <3>. QED
        BY <1>1, <2>1, <3>1 DEF Shown, NoTrail
    <2>3. CASE j.op = "sendMoney" /\ j.pc = "findPayee" /\ j.tx = accepted + 1
      BY <2>1, <2>2, <2>3 DEF Traced
    <2>4. CASE \/ j.op = "reqReceiveMoney" /\ j.tx = accepted + 1
               \/ j.op = "changeDefault"
      BY <2>1, <2>2, <2>4 DEF Traced
    <2>5. CASE j.op \in Ops \ Creating /\ j.tx \in Txns /\ Loaded(j)
      <3>1. /\ txn[j.tx] # Nil /\ Shown(j.tx) /\ j.op # "sendMoney"
            /\ j.op # "reqReceiveMoney"
            /\ j.op = "confirmReceive" => j.pc = "readPayer" /\ txn[j.tx].status = "Pending"
            /\ j.op = "approveRefund" => j.pc = "readTo"
            /\ j.op \in {"approveRefund", "rejectRefund"} => txn[j.tx].status = "Refunding"
        BY <1>1, <2>5, OutcomeFacts DEF Loaded
      <3>. QED
        BY <2>1, <3>1 DEF Traced, Shown
    <2>. QED
      BY <2>1, <2>3, <2>4, <2>5
  <1>3. CASE j = Idle
    BY <1>3 DEF Traced, Idle
  <1>4. CASE Kept(i, j) /\ Follows(i, j)
    <2>1. /\ i.tx \in Txns /\ j.op = i.op /\ j.tx = i.tx
          /\ trail[i.tx].drawn \in Nat /\ trail[i.tx].paid \in Nat
          /\ trail[i.tx].disputed \in Nat /\ trail[i.tx].clawed \in Nat
          /\ trail[i.tx].repaid \in Nat
      BY <1>1, <1>4 DEF Kept, Follows, JobOK, KnowsRequest, Paying, Refunding, Saving,
                        TypeInv, TypeOK, TrailEntry
    <2>2. Counts(h)
      BY <1>1, Counted
    <2>3. i.op = "confirmReceive" /\ i.pc \in Paying =>
            txn'[i.tx].type = txn[i.tx].type
      BY <1>1, <2>1, OutcomeFacts DEF KeepsTerms, JobOK, WorksOn
    <2>4. /\ i.pc \in Paying => i.op \in {"sendMoney", "confirmReceive"}
          /\ i.pc \in Refunding => i.op = "approveRefund"
      BY <1>1 DEF Phases
    <2>5. /\ j.pc \in Paying \cup Refunding \cup {"record"} =>
                 i.pc \in Paying \cup Refunding
          /\ j.pc \in {"credit", "record", "takeBack"} =>
                 j.src = i.src /\ j.dst = i.dst /\ i.src \in Accounts /\ i.dst \in Accounts
      <3>1. j.pc \in Paying \cup Refunding \cup {"record"} =>
              i.pc \in Paying \cup Refunding
        BY <1>4 DEF Follows, Paying, Refunding
      <3>2. ASSUME j.pc \in {"credit", "record", "takeBack"}
            PROVE  /\ j.src = i.src /\ j.dst = i.dst
                   /\ i.src \in Accounts /\ i.dst \in Accounts
        <4>1. i.pc \in {"debit", "credit", "giveBack", "takeBack"}
          BY <1>4, <3>2 DEF Follows
        <4>2. j # Idle /\ j.pc # "hookWrite" /\ (Advance(h) \/ Abort(h))
          <5>1. ~ Submit(h)
            BY <4>1 DEF Submit, SendMoney, ReqReceiveMoney, ConfirmReceive, RejectReceive,
                        RequestRefund, ApproveRefund, RejectRefund,
                        SuspiciousTransaction, ChangeDefault, Load, Accept
          <5>. QED
            BY <3>2, <5>1 DEF Serve, Idle
        <4>. QED
          BY <1>1, <4>1, <4>2, PartySteps
             DEF JobOK, KnowsRequest, KnowsParties, Paying, Refunding
      <3>. QED
        BY <3>1, <3>2
    <2>6. /\ j.pc \in {"credit", "record", "takeBack"} /\ account[i.src] = Nil =>
                 account'[j.src] = Nil
          /\ j.pc \in {"credit", "record", "takeBack"} /\ account[i.dst] = Nil =>
                 account'[j.dst] = Nil
      BY <1>1, <2>5, GoneStays
    <2>7. CASE i.op = "sendMoney"
      <3>1. j.pc \in {"readPayer", "findPayee", "readPayee", "debit"} =>
              trail'[i.tx].drawn = 0 /\ trail'[i.tx].paid = 0
        BY <1>1, <1>4, <2>1, <2>2, <2>7 DEF Traced, Follows, Counts, Tick, Moves
      <3>2. j.pc = "credit" =>
              /\ trail'[i.tx].drawn = 1 \/ account'[j.src] = Nil
              /\ trail'[i.tx].paid = 0
        BY <1>1, <1>4, <2>1, <2>2, <2>6, <2>7
           DEF Traced, Follows, Counts, Tick, Moves, Found
      <3>3. j.pc = "record" => i.pc = "credit"
        BY <1>4, <2>4, <2>7 DEF Follows, Refunding
      <3>4. j.pc = "record" =>
              /\ trail'[i.tx].drawn = 1 \/ account'[j.src] = Nil
              /\ trail'[i.tx].paid = 1 \/ (trail'[i.tx].paid = 0 /\ account'[j.dst] = Nil)
        BY <1>1, <2>1, <2>2, <2>6, <2>7, <3>3
           DEF Traced, Counts, Tick, Moves, Found
      <3>. QED
        BY <2>1, <2>7, <3>1, <3>2, <3>4 DEF Traced, Found
    <2>8. CASE i.op = "confirmReceive"
      <3>1. j.pc \in Paying \cup {"record"} => txn'[i.tx].type = "Receive"
        BY <1>1, <1>4, <2>3, <2>4, <2>5, <2>8 DEF Traced, Follows, Paying, Refunding
      <3>2. j.pc = "record" => trail'[i.tx].paid > 0 \/ account'[j.dst] = Nil
        <4>1. j.pc = "record" => i.pc = "credit"
          BY <1>4, <2>4, <2>8 DEF Follows, Refunding
        <4>. QED
          BY <2>1, <2>2, <2>6, <4>1 DEF Counts, Tick, Moves, Found
      <3>. QED
        BY <2>1, <2>8, <3>1, <3>2 DEF Traced, Found
    <2>9. CASE i.op \notin {"sendMoney", "confirmReceive"}
      <3>1. j.pc \in Refunding \cup {"record"} =>
              i.op = "approveRefund" /\ trail'[i.tx].disputed > 0
        BY <1>1, <1>4, <2>1, <2>2, <2>4, <2>9
           DEF Traced, Follows, Counts, Tick, Moves, Paying, Refunding
      <3>2. j.pc = "takeBack" => trail'[i.tx].repaid > 0 \/ account'[j.src] = Nil
        BY <1>4, <2>1, <2>2, <2>6 DEF Follows, Counts, Tick, Moves, Found
      <3>3. j.pc = "record" => i.pc = "takeBack"
        BY <1>4, <2>4, <2>9 DEF Follows, Paying
      <3>4. j.pc = "record" =>
              /\ trail'[i.tx].repaid > 0 \/ account'[j.src] = Nil
              /\ trail'[i.tx].clawed > 0 \/ account'[j.dst] = Nil
        BY <1>1, <2>1, <2>2, <2>6, <3>1, <3>3
           DEF Traced, Counts, Tick, Moves, Found
      <3>5. j.op = "reqReceiveMoney" => j.pc # "record"
        BY <1>1, <2>1, <3>1
      <3>. QED
        BY <2>1, <2>9, <3>1, <3>2, <3>4, <3>5 DEF Traced, Found
    <2>. QED
      BY <2>7, <2>8, <2>9
  <1>. QED
    BY <1>1, <1>2, <1>3, <1>4, NextStep DEF Serve

\* The trail of a transaction that is to come is untouched: whoever counts
\* works on a transaction that has been begun.
LEMMA BegunBefore ==
    ASSUME SafetyInv, NEW h \in Handlers,
           job[h].pc \in Paying \cup Refunding \cup {"record"}
    PROVE  job[h].tx \in Txns /\ ~ job[h].tx > accepted
  <1>1. JobOK(job[h], txn) /\ job[h].tx \in Txns /\ OwnSlot
    BY DEF SafetyInv, TypeInv, JobOK, KnowsRequest, Saving
  <1>2. accepted \in Nat /\ Txns \subseteq Nat
    BY TransferAssumption DEF SafetyInv, TypeInv, TypeOK, Txns
  <1>3. CASE job[h].op \in Creating
    <2>1. Creates(job[h])
      BY <1>3, OutcomeFacts DEF Creates, SafetyInv, Phases, Refunding
    <2>2. job[h].tx <= accepted /\ job[h].tx \in Nat
      BY <1>1, <1>2, <2>1 DEF OwnSlot
    <2>. QED
      BY <1>1, <1>2, <2>2
  <1>4. CASE job[h].op \notin Creating
    <2>1. txn[job[h].tx] # Nil
      BY <1>1, <1>4 DEF JobOK, WorksOn
    <2>. QED
      BY <1>1, <2>1 DEF OwnSlot
  <1>. QED
    BY <1>3, <1>4

\* A step of a handler leaves every document as true as it was.
LEMMA ShownStep ==
    ASSUME StagesInv, NEW h \in Handlers, Serve(h), KeepsTerms, TypeInv',
           NEW t \in Txns
    PROVE  Shown(t)'
  <1>. DEFINE i == job[h]
  <1>1. /\ TypeInv /\ SafetyInv /\ OwnSlot /\ Phases
        /\ Traced(i) /\ KnowsOwners(i) /\ Shown(t) /\ JobOK(i, txn)
        /\ Owner \in [Accounts -> Users]
    BY StoreAssumption DEF StagesInv, SafetyInv, TypeInv
  <1>2. Counts(h)
    BY <1>1, Counted
  <1>3. /\ trail[t] \in TrailEntry /\ trail'[t] \in TrailEntry
        /\ trail[t].drawn \in Nat /\ trail[t].paid \in Nat /\ trail[t].repaid \in Nat
        /\ trail[t].disputed \in Nat /\ trail[t].clawed \in Nat
    BY <1>1 DEF TypeInv, TypeOK, TrailEntry
  <1>4. /\ trail[t].paid > 0 => trail'[t].paid > 0
        /\ trail[t].disputed > 0 => trail'[t].disputed > 0
        /\ trail[t].repaid > 0 => trail'[t].repaid > 0
        /\ trail[t].clawed > 0 => trail'[t].clawed > 0
    BY <1>2, <1>3 DEF Counts, Tick
  <1>5. (t > accepted => trail[t] = NoTrail)'
    <2>. SUFFICES ASSUME t > accepted' PROVE trail'[t] = NoTrail
      OBVIOUS
    <2>1. t > accepted
      <3>1. accepted' = accepted \/ accepted' = accepted + 1
        <4>1. CASE Submit(h)
          BY <1>1, <4>1, SubmitSteps
        <4>2. CASE Advance(h) \/ Abort(h)
          BY <4>2 DEF Advance, Abort, ReadPayer, RefusePayer, FindPayee, ReadPayee,
                      Debit, Credit, PayeeMissing, ReadTo, ReadFrom, GiveBack,
                      TakeBack, Record, HookRead, HookWrite, SetDefaultAcc, Unrecorded
        <4>. QED
          BY <4>1, <4>2 DEF Serve
      <3>2. accepted \in Nat /\ t \in Nat
        BY <1>1, TransferAssumption DEF TypeInv, TypeOK, Txns
      <3>. QED
        BY <3>1, <3>2
    <2>2. trail[t] = NoTrail
      BY <1>1, <2>1 DEF Shown
    <2>3. ~ (t = i.tx /\ i.pc \in {"debit", "credit", "giveBack", "takeBack", "record"})
      BY <1>1, <2>1, BegunBefore DEF Paying, Refunding
    <2>4. /\ trail'[t].drawn = trail[t].drawn /\ trail'[t].paid = trail[t].paid
          /\ trail'[t].repaid = trail[t].repaid /\ trail'[t].clawed = trail[t].clawed
          /\ trail'[t].disputed = trail[t].disputed
      BY <1>2, <2>3 DEF Counts, Tick, Moves
    <2>5. trail'[t] = trail[t]
      BY <1>3, <2>4 DEF TrailEntry
    <2>. QED
      BY <2>2, <2>5
  <1>6. trail'[t].repaid > 0 => trail'[t].disputed > 0
    <2>1. CASE t = i.tx /\ Moves(h, "giveBack", "takeBack")
      <3>1. i.pc \in Refunding /\ i.op = "approveRefund"
        BY <1>1, <2>1 DEF Moves, Phases, Refunding
      <3>. QED
        BY <1>1, <1>4, <2>1, <3>1 DEF Traced
    <2>2. CASE ~ (t = i.tx /\ Moves(h, "giveBack", "takeBack"))
      <3>1. trail'[t].repaid = trail[t].repaid
        BY <1>2, <2>2 DEF Counts, Tick
      <3>. QED
        BY <1>1, <1>4, <3>1 DEF Shown
    <2>. QED
      BY <2>1, <2>2
  <1>7. txn[t] # Nil /\ txn[t].type = "Send" =>
          trail'[t].drawn = trail[t].drawn /\ trail'[t].paid = trail[t].paid
    <2>. SUFFICES ASSUME txn[t] # Nil, txn[t].type = "Send"
                  PROVE  ~ (t = i.tx /\ i.pc \in {"debit", "credit"})
      BY <1>2 DEF Counts, Tick, Moves
    <2>. SUFFICES ASSUME t = i.tx, i.pc \in {"debit", "credit"} PROVE FALSE
      OBVIOUS
    <2>1. i.op = "sendMoney" \/ i.op = "confirmReceive"
      BY <1>1 DEF Phases, Paying
    <2>2. CASE i.op = "sendMoney"
      BY <1>1, <2>2, OutcomeFacts DEF OwnSlot, Creates, Paying
    <2>3. CASE i.op = "confirmReceive"
      BY <1>1, <2>3 DEF Traced, Paying
    <2>. QED
      BY <2>1, <2>2, <2>3
  <1>10. txn[t] # Nil =>
           /\ txn[t].from \in Accounts /\ txn[t].to \in Accounts
           /\ account[txn[t].from] = Nil => account'[txn[t].from] = Nil
           /\ account[txn[t].to] = Nil => account'[txn[t].to] = Nil
           /\ \A u : LostAccount(u) => LostAccount(u)'
    BY <1>1, GoneStays DEF TypeInv, TypeOK, Transaction
  <1>8. CASE txn'[t] = txn[t]
    <2>1. txn[t] # Nil =>
            /\ txn[t].type = "Send" =>
                 /\ trail'[t].drawn = 1 \/ account'[txn[t].from] = Nil
                 /\ trail'[t].paid = 1 \/ account'[txn[t].to] = Nil
            /\ txn[t].status = "Pending" => txn[t].type = "Receive"
            /\ txn[t].status = "Refunding" => trail'[t].disputed > 0
            /\ txn[t].type = "Receive" /\ txn[t].status = "Success" =>
                 \/ trail'[t].paid > 0 \/ trail'[t].disputed > 0
                 \/ LostAccount(Owner[txn[t].to])'
            /\ txn[t].status = "Refunded" =>
                 /\ trail'[t].repaid > 0 \/ account'[txn[t].from] = Nil
                 /\ trail'[t].clawed > 0 \/ account'[txn[t].to] = Nil
      <3>1. txn[t] # Nil /\ LostAccount(Owner[txn[t].to]) =>
              LostAccount(Owner[txn[t].to])'
        BY <1>8, <1>10
      <3>. QED
        BY <1>1, <1>4, <1>7, <1>10, <3>1 DEF Shown, Found
    <2>. QED
      BY <1>5, <1>6, <1>8, <2>1 DEF Shown, Found
  <1>9. CASE txn'[t] # txn[t]
    <2>1. /\ Record(h) /\ t = i.tx /\ i.pc = "record" /\ job'[h].pc = "hookRead"
          /\ i.op \in Creating =>
               /\ txn'[t].type = TypeOf[i.op]
               /\ txn'[t].status = Outcome[i.op]
               /\ txn'[t].from = i.src /\ txn'[t].to = i.dst
          /\ i.op \notin Creating =>
               txn[t] # Nil /\ txn'[t] = [txn[t] EXCEPT !.status = Outcome[i.op]]
      <3>1. /\ Record(h) /\ t = i.tx
            /\ i.op \in Creating =>
                 txn'[t] = [type |-> TypeOf[i.op], status |-> Outcome[i.op],
                            from |-> i.src, to |-> i.dst, amount |-> i.amount]
            /\ i.op \notin Creating =>
                 txn[t] # Nil /\ txn'[t] = [txn[t] EXCEPT !.status = Outcome[i.op]]
        BY <1>1, <1>9, TxnSteps
      <3>2. i.pc = "record" /\ job'[h].pc = "hookRead"
        BY <1>1, <3>1, SaveSteps
      <3>. QED
        BY <3>1, <3>2
    <2>2. trail'[t].drawn = trail[t].drawn /\ trail'[t].paid = trail[t].paid
      BY <1>2, <2>1 DEF Counts, Tick, Moves
    <2>3. i.op \in Ops /\ i.src \in Accounts /\ i.dst \in Accounts
      BY <1>1, <2>1 DEF JobOK, KnowsRequest, KnowsParties, Saving
    <2>6. /\ account[i.src] = Nil => account'[i.src] = Nil
          /\ account[i.dst] = Nil => account'[i.dst] = Nil
      BY <1>1, <2>3, GoneStays
    <2>4. CASE i.op \in Creating
      <3>1. \/ /\ i.op = "sendMoney"
               /\ txn'[t].type = "Send" /\ txn'[t].status = "Success"
            \/ /\ i.op = "reqReceiveMoney"
               /\ txn'[t].type = "Receive" /\ txn'[t].status = "Pending"
        BY <2>1, <2>4 DEF Creating, TypeOf, Outcome
      <3>2. i.op = "sendMoney" =>
              /\ trail'[t].drawn = 1 \/ account'[txn'[t].from] = Nil
              /\ trail'[t].paid = 1 \/ account'[txn'[t].to] = Nil
        BY <1>1, <2>1, <2>2, <2>4, <2>6 DEF Traced, Found
      <3>. QED
        BY <1>5, <1>6, <3>1, <3>2 DEF Shown, Found
    <2>5. CASE i.op \notin Creating
      <3>1. /\ txn[t] # Nil /\ txn[t] \in Transaction
            /\ txn'[t].type = txn[t].type /\ txn'[t].status = Outcome[i.op]
            /\ txn'[t].from = txn[t].from /\ txn'[t].to = txn[t].to
        BY <1>1, <2>1, <2>5 DEF TypeInv, TypeOK, Transaction
      <3>2. \/ i.op = "confirmReceive" /\ Outcome[i.op] = "Success"
            \/ i.op = "rejectReceive" /\ Outcome[i.op] = "Failed"
            \/ i.op = "requestRefund" /\ Outcome[i.op] = "Refunding"
            \/ i.op = "approveRefund" /\ Outcome[i.op] = "Refunded"
            \/ i.op = "rejectRefund" /\ Outcome[i.op] = "Success"
            \/ i.op = "suspiciousTransaction" /\ Outcome[i.op] = "Suspicious"
        BY <2>3, <2>5 DEF Ops, Outcome, Creating, TypeOf
      <3>3. i.op = "requestRefund" => trail'[t].disputed > 0
        BY <1>2, <1>3, <2>1 DEF Counts, Tick, Moves
      <3>4. txn[t].type = "Send" =>
              /\ trail'[t].drawn = 1 \/ account'[txn[t].from] = Nil
              /\ trail'[t].paid = 1 \/ account'[txn[t].to] = Nil
        BY <1>1, <1>7, <1>10, <3>1 DEF Shown, Found
      <3>5. /\ i.op = "confirmReceive" => trail'[t].paid > 0 \/ account'[i.dst] = Nil
            /\ i.op = "rejectRefund" => trail'[t].disputed > 0
            /\ i.op = "approveRefund" =>
                 /\ trail'[t].repaid > 0 \/ account'[i.src] = Nil
                 /\ trail'[t].clawed > 0 \/ account'[i.dst] = Nil
        BY <1>1, <1>4, <2>1, <2>6 DEF Traced, Found
      <3>6. /\ i.op = "approveRefund" => i.src = txn[t].from /\ i.dst = txn[t].to
            /\ i.op = "confirmReceive" => Owner[i.dst] = Owner[txn[t].to]
        BY <1>1, <2>1 DEF KnowsOwners
      <3>7. /\ txn'[t].type = "Send" =>
                 /\ trail'[t].drawn = 1 \/ account'[txn'[t].from] = Nil
                 /\ trail'[t].paid = 1 \/ account'[txn'[t].to] = Nil
            /\ txn'[t].status = "Refunded" =>
                 /\ trail'[t].repaid > 0 \/ account'[txn'[t].from] = Nil
                 /\ trail'[t].clawed > 0 \/ account'[txn'[t].to] = Nil
            /\ txn'[t].status # "Pending"
            /\ txn'[t].status = "Refunding" => trail'[t].disputed > 0
        BY <3>1, <3>2, <3>3, <3>4, <3>5, <3>6
      <3>8. txn'[t].status = "Success" =>
              \/ trail'[t].paid > 0 \/ trail'[t].disputed > 0
              \/ \E a \in Accounts : Owner[a] = Owner[txn'[t].to] /\ account'[a] = Nil
        BY <2>3, <3>1, <3>2, <3>5, <3>6
      <3>. QED
        BY <1>5, <1>6, <3>7, <3>8 DEF Shown, Found, LostAccount
    <2>. QED
      BY <2>4, <2>5
  <1>. QED
    BY <1>8, <1>9

-----------------------------------------------------------------------------
(* The invariant                                                           *)

\* The invariant holds at the start, when nothing has been asked for.
LEMMA InitStages == Init => StagesInv
  <1>. SUFFICES ASSUME Init PROVE StagesInv
    OBVIOUS
  <1>1. SafetyInv
    BY InitSafety
  <1>2. /\ \A h \in Handlers : job[h] = Idle
        /\ \A t \in Txns : txn[t] = Nil /\ trail[t] = NoTrail
    BY DEF Init
  <1>3. Backed
    <2>. SUFFICES ASSUME NEW t \in Txns, NEW S \in SUBSET Handlers, IsFiniteSet(S),
                         \A g \in S : job[g].pc \in {"credit", "takeBack"}
                  PROVE  /\ trail[t].paid + Cardinality(S) <= trail[t].drawn
                         /\ trail[t].clawed + Cardinality(S) <= trail[t].repaid
      BY DEF Backed
    <2>1. S = {}
      BY <1>2 DEF Idle
    <2>2. Cardinality(S) = 0
      BY <2>1, FS_EmptySet
    <2>. QED
      BY <1>2, <2>2 DEF NoTrail
  <1>4. \A h \in Handlers : Traced(job[h]) /\ KnowsOwners(job[h])
    BY <1>2 DEF Traced, KnowsOwners, Idle
  <1>6. OwnDefaults
    BY StoreAssumption DEF Init, StoreInit, OwnDefaults
  <1>5. \A t \in Txns : Shown(t)
    BY <1>2 DEF Shown, NoTrail
  <1>. QED
    BY <1>1, <1>3, <1>4, <1>5, <1>6 DEF StagesInv

\* Every step keeps the invariant.
LEMMA StepStages == StagesInv /\ [Next]_vars => StagesInv'
  <1>. SUFFICES ASSUME StagesInv, [Next]_vars PROVE StagesInv'
    OBVIOUS
  <1>1. SafetyInv /\ SafetyInv' /\ KeepsTerms /\ TypeInv /\ TypeInv'
    BY StepSafety DEF StagesInv, SafetyInv
  <1>2. ASSUME NEW h \in Handlers, Serve(h) PROVE StagesInv'
    <2>1. Backed'
      <3>1. ASSUME NEW t \in Txns, NEW S \in SUBSET Handlers, IsFiniteSet(S),
                   \A g \in S : job'[g].pc = "credit" /\ job'[g].tx = t
            PROVE  \/ trail'[t].paid + Cardinality(S) <= trail'[t].drawn
                   \/ PayerLostAccount(t)'
        BY <1>1, <1>2, <3>1, CreditsBacked
      <3>2. ASSUME NEW t \in Txns, NEW S \in SUBSET Handlers, IsFiniteSet(S),
                   \A g \in S : job'[g].pc = "takeBack" /\ job'[g].tx = t
            PROVE  \/ trail'[t].clawed + Cardinality(S) <= trail'[t].repaid
                   \/ txn'[t] # Nil /\ account'[txn'[t].from] = Nil
        BY <1>1, <1>2, <3>2, TakeBacksBacked
      <3>. QED
        BY <3>1, <3>2 DEF Backed, Found
    <2>2. ASSUME NEW g \in Handlers PROVE Traced(job[g])'
      <3>1. CASE g = h
        BY <1>1, <1>2, <3>1, TracedNext
      <3>2. CASE g # h
        BY <1>1, <1>2, <3>2, TracedStays
      <3>. QED
        BY <3>1, <3>2
    <2>3. ASSUME NEW t \in Txns PROVE Shown(t)'
      BY <1>1, <1>2, ShownStep
    <2>4. OwnDefaults' /\ \A g \in Handlers : KnowsOwners(job[g])'
      BY <1>1, <1>2, OwnersStep DEF StagesInv
    <2>. QED
      BY <1>1, <2>1, <2>2, <2>3, <2>4 DEF StagesInv
  <1>3. ASSUME UNCHANGED <<txn, job, accepted, trail, defaultAcc>>,
               \A a \in Accounts : account[a] = Nil => account'[a] = Nil
        PROVE  StagesInv'
    <2>1. \A u : LostAccount(u) => LostAccount(u)'
      BY <1>3 DEF LostAccount, Found
    <2>2. ASSUME NEW t \in Txns PROVE PayerLostAccount(t) => PayerLostAccount(t)'
      BY <1>3, <2>1 DEF PayerLostAccount
    <2>3. ASSUME NEW t \in Txns, txn[t] # Nil
          PROVE  /\ account[txn[t].from] = Nil => account'[txn[t].from] = Nil
                 /\ account[txn[t].to] = Nil => account'[txn[t].to] = Nil
      BY <1>1, <1>3, <2>3 DEF TypeInv, TypeOK, Transaction
    <2>4. Backed'
      BY <1>3, <2>2, <2>3 DEF StagesInv, Backed, Found
    <2>5. ASSUME NEW t \in Txns PROVE Shown(t)'
      <3>1. Shown(t) /\ (txn[t] # Nil /\ LostAccount(Owner[txn[t].to]) =>
                           LostAccount(Owner[txn[t].to])')
        BY <1>3, <2>1 DEF StagesInv
      <3>. QED
        BY <1>3, <2>3, <3>1 DEF Shown, Found
    <2>6. ASSUME NEW h \in Handlers PROVE Traced(job[h])' /\ KnowsOwners(job[h])'
      <3>1. /\ Traced(job[h]) /\ KnowsOwners(job[h]) /\ JobOK(job[h], txn)
        BY <1>1 DEF StagesInv, TypeInv
      <3>2. /\ job[h].pc \in {"credit", "takeBack", "record"} =>
                 job[h].src \in Accounts /\ job[h].dst \in Accounts
        BY <3>1 DEF JobOK, KnowsRequest, KnowsParties, Paying, Refunding, Saving
      <3>3. Traced(job[h])'
        BY <1>3, <3>1, <3>2 DEF Traced, Found
      <3>. QED
        BY <1>3, <3>1, <3>3 DEF KnowsOwners
    <2>7. OwnDefaults'
      BY <1>3 DEF StagesInv, OwnDefaults
    <2>. QED
      BY <1>1, <2>4, <2>5, <2>6, <2>7 DEF StagesInv
  <1>4. ASSUME NEW a \in Accounts, SetLimit(a) \/ Delete(a) PROVE StagesInv'
    <2>1. \A b \in Accounts : account[b] = Nil => account'[b] = Nil
      <3>1. account \in [Accounts -> Doc \cup {Nil}]
        BY <1>1 DEF TypeInv, TypeOK, StoreTypeOK
      <3>. QED
        BY <1>4, <3>1 DEF SetLimit, ChangeLimit, UpdateLimit, Delete, DeleteAccount, Found
    <2>. QED
      BY <1>3, <1>4, <2>1 DEF SetLimit, ChangeLimit, Delete, handlerVars, historyVars
  <1>5. CASE UNCHANGED vars
    BY <1>3, <1>5 DEF vars, storeVars, handlerVars, historyVars
  <1>. QED
    BY <1>2, <1>4, <1>5 DEF Next, Rest

\* The stages of a payment and of a refund are in order.
LEMMA StagesFollow == StagesInv => StagesInOrder
  <1>. SUFFICES ASSUME StagesInv, NEW t \in Txns
                PROVE  /\ trail[t].paid > trail[t].drawn => PayerLostAccount(t)
                       /\ trail[t].clawed > trail[t].repaid =>
                            txn[t] # Nil /\ ~ Found(txn[t].from)
                       /\ trail[t].repaid > 0 => trail[t].disputed > 0
    BY DEF StagesInOrder
  <1>1. IsFiniteSet({}) /\ Cardinality({}) = 0
    BY FS_EmptySet
  <1>2. /\ trail[t].paid + 0 <= trail[t].drawn \/ PayerLostAccount(t)
        /\ \/ trail[t].clawed + 0 <= trail[t].repaid
           \/ txn[t] # Nil /\ ~ Found(txn[t].from)
    BY <1>1 DEF StagesInv, Backed
  <1>3. /\ trail[t].paid \in Nat /\ trail[t].drawn \in Nat
        /\ trail[t].clawed \in Nat /\ trail[t].repaid \in Nat
    BY DEF StagesInv, SafetyInv, TypeInv, TypeOK, TrailEntry
  <1>. QED
    BY <1>2, <1>3 DEF StagesInv, Shown

\* In every interleaving and after any crash: more credits than debits of a payment
\* were written only if an account of the payer is gone, more debits than credits of
\* a refund only if the sender's account is, and no refund is paid that was never
\* asked for.
THEOREM InOrder == Spec => []StagesInOrder
  BY StagesFollow, InitStages, StepStages, PTL DEF Spec

\* Whatever overlaps and whatever fails: a payment is on record only once both
\* accounts were written, a request that stands at Success was paid or has been
\* disputed, and a transaction that is Refunded was written back on both, but for
\* accounts that are gone.
THEOREM RecordedIsMoved == Spec => []RecordedMeansMoved
  <1>1. StagesInv => RecordedMeansMoved
    BY DEF StagesInv, Shown, RecordedMeansMoved
  <1>. QED
    BY <1>1, InitStages, StepStages, PTL DEF Spec
=============================================================================
