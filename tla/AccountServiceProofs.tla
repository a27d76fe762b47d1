------------------------ MODULE AccountServiceProofs ------------------------
(***************************************************************************)
(* Theorems about AccountService, for any members, cards and handlers, any *)
(* number of requests and any maximum of tries.                            *)
(***************************************************************************)
EXTENDS AccountService, FiniteSetTheorems, TLAPS

Adding == {"addCard", "addAccount"}

AskingPIN == {"getBalance", "updatePIN", "delete", "pay"}

\* The steps at which a handler works on an account.
OnAccount == Steps \ (Adding \cup {"idle", "writeUser"})

\* What a handler knows at each of its steps.
JobOK(j) ==
    /\ j \in Job
    /\ j.pc # "idle" => j.user \in Members
    /\ j.pc \in Adding => j.card \in Cards /\ j.op = "add"
    /\ j.pc \in OnAccount => j.acc \in Numbers
    /\ j.pc \in {"tries", "pay"} => j.copy \in Document
    /\ j.pc = "tries" => j.op \in AskingPIN

TypeInv ==
    /\ TypeOK
    /\ \A h \in Handlers : JobOK(job[h])

-----------------------------------------------------------------------------
(* What a request starts with                                              *)

\* A request that has just been accepted: what it has read is what is stored.
Fresh(h, j) ==
    /\ JobOK(j)
    /\ job[h].pc = "idle"
    /\ j.pc \in {"addCard", "tries", "pay", "writeUser", "setPIN"}
    /\ j.no = accepted + 1
    /\ j.acc # Nil => Open(j.acc)
    /\ j.copy # Nil => j.acc # Nil /\ j.copy = account[j.acc]
    /\ j.pc = "writeUser" =>
         /\ j.op = "changeDefault"
         /\ j.default # Nil
         /\ Open(j.default)
         /\ account[j.default].userId = j.user
         /\ defaultAcc[j.user] # Nil
    /\ j.pc # "writeUser" => j.default = defaultAcc[j.user]

\* The first number belongs to the account that is there from the start.
LEMMA NumberFacts ==
    /\ Numbers \subseteq Nat
    /\ 0 \in Numbers
    /\ Nil \notin Numbers
    /\ Nil \notin Members
    /\ Nil \notin Cards
    /\ Nil \notin Document
    /\ Nil \notin [user : Members, card : Cards]
  BY AccountServiceAssumption DEF Numbers

\* A free slot is a job that knows all it needs.
LEMMA IdleOK == JobOK(Idle)
  BY NumberFacts DEF JobOK, Idle, Job, Ops, Steps, Adding, OnAccount, AskingPIN

\* What every request takes from the guard.
LEMMA RequestFacts ==
    ASSUME TypeInv, accepted < MaxRequests, NEW u \in Members,
           NEW op \in Ops, NEW pc \in Steps
    PROVE  /\ Request(op, u, pc) \in Job
           /\ Request(op, u, pc).pc = pc
           /\ Request(op, u, pc).op = op
           /\ Request(op, u, pc).user = u
           /\ Request(op, u, pc).no = accepted + 1
           /\ Request(op, u, pc).acc = Nil
           /\ Request(op, u, pc).copy = Nil
           /\ Request(op, u, pc).default = defaultAcc[u]
           /\ accepted + 1 \in Numbers
  <1>1. accepted + 1 \in Numbers
    BY AccountServiceAssumption DEF TypeInv, TypeOK, Numbers
  <1>2. defaultAcc[u] \in Numbers \cup {Nil}
    BY DEF TypeInv, TypeOK
  <1>. QED
    BY <1>1, <1>2, NumberFacts DEF Request, Idle, Job, Steps

\* A request that asks for a PIN starts with the account as it is stored.
LEMMA AskPINFresh ==
    ASSUME TypeInv, NEW h \in Handlers, NEW op \in AskingPIN,
           NEW a \in Numbers, NEW u \in Members, AskPIN(h, op, a, u)
    PROVE  \E j : Fresh(h, j) /\ job' = [job EXCEPT ![h] = j]
  <1>1. PICK right \in BOOLEAN :
          Start(h, [Request(op, u, "tries") EXCEPT
                      !.acc = a, !.copy = account[a], !.right = right])
    BY DEF AskPIN
  <1>2. PICK j : j = [Request(op, u, "tries") EXCEPT
                        !.acc = a, !.copy = account[a], !.right = right]
    OBVIOUS
  <1>3. account[a] \in Document /\ Open(a) /\ accepted < MaxRequests
    BY DEF AskPIN, Accept, Open, TypeInv, TypeOK
  <1>4. op \in Ops /\ "tries" \in Steps
    BY DEF AskingPIN, Ops, Steps
  <1>5. /\ Request(op, u, "tries") \in Job
        /\ Request(op, u, "tries").pc = "tries"
        /\ Request(op, u, "tries").op = op
        /\ Request(op, u, "tries").user = u
        /\ Request(op, u, "tries").no = accepted + 1
        /\ Request(op, u, "tries").default = defaultAcc[u]
    BY <1>3, <1>4, RequestFacts
  <1>6. /\ j \in Job
        /\ j.pc = "tries" /\ j.op = op /\ j.user = u /\ j.no = accepted + 1
        /\ j.default = defaultAcc[u] /\ j.acc = a /\ j.copy = account[a]
    BY <1>2, <1>3, <1>5 DEF Job
  <1>7. Fresh(h, j)
    BY <1>1, <1>3, <1>6, NumberFacts
       DEF Fresh, Start, JobOK, Adding, OnAccount, Steps
  <1>. QED
    BY <1>1, <1>2, <1>7 DEF Start

\* So does every request.
LEMMA SubmitFresh ==
    ASSUME TypeInv, NEW h \in Handlers, Submit(h)
    PROVE  /\ \E j : Fresh(h, j) /\ job' = [job EXCEPT ![h] = j]
           /\ accepted' = accepted + 1
           /\ accepted' \in Numbers
           /\ UNCHANGED <<account, cards, defaultAcc, links, otpTokens,
                          pinTokens, historyVars>>
  <1>1. accepted < MaxRequests /\ accepted' = accepted + 1
    BY DEF Submit, Add, GetBalance, UpdatePIN, Delete, Pay, KeepAccount,
           ChangeDefault, ForgetPIN, AskPIN, Accept
  <1>2. accepted' \in Numbers
    BY <1>1, AccountServiceAssumption DEF TypeInv, TypeOK, Numbers
  <1>3. \A a \in Numbers : Open(a) =>
          account[a] \in Document /\ account[a].userId \in Members
    BY DEF Open, TypeInv, TypeOK, Document
  <1>4. \E j : Fresh(h, j) /\ job' = [job EXCEPT ![h] = j]
    <2>1. CASE Add(h)
      <3>1. PICK u \in Members, c \in Cards \ cards :
              Start(h, [Request("add", u, "addCard") EXCEPT !.card = c])
        BY <2>1 DEF Add
      <3>2. PICK j : j = [Request("add", u, "addCard") EXCEPT !.card = c]
        OBVIOUS
      <3>3. "addCard" \in Steps /\ "add" \in Ops
        BY DEF Ops, Steps
      <3>4. /\ j \in Job /\ j.pc = "addCard" /\ j.user = u
            /\ j.no = accepted + 1 /\ j.default = defaultAcc[u]
            /\ j.acc = Nil /\ j.copy = Nil /\ j.card = c /\ j.op = "add"
        BY <1>1, <3>2, <3>3, RequestFacts DEF Job
      <3>5. Fresh(h, j)
        BY <3>1, <3>4 DEF Fresh, Start, JobOK, Adding, OnAccount, Steps
      <3>. QED
        BY <3>1, <3>2, <3>5 DEF Start
    <2>2. CASE GetBalance(h)
      BY <2>2, AskPINFresh DEF GetBalance, AskingPIN
    <2>3. CASE UpdatePIN(h)
      BY <2>3, <1>3, AskPINFresh DEF UpdatePIN, AskingPIN
    <2>4. CASE Delete(h)
      BY <2>4, AskPINFresh DEF Delete, AskingPIN
    <2>5. CASE Pay(h)
      BY <2>5, <1>3, AskPINFresh DEF Pay, AskingPIN
    <2>6. CASE KeepAccount(h)
      <3>1. PICK a \in Numbers :
              /\ Open(a)
              /\ Start(h, [Request("updateAccount", account[a].userId, "pay")
                             EXCEPT !.acc = a, !.copy = account[a]])
        BY <2>6 DEF KeepAccount
      <3>2. PICK j : j = [Request("updateAccount", account[a].userId, "pay")
                            EXCEPT !.acc = a, !.copy = account[a]]
        OBVIOUS
      <3>3. "pay" \in Steps /\ "updateAccount" \in Ops
        BY DEF Ops, Steps
      <3>4. /\ j \in Job /\ j.pc = "pay" /\ j.user = account[a].userId
            /\ j.no = accepted + 1 /\ j.default = defaultAcc[j.user]
            /\ j.acc = a /\ j.copy = account[a]
        <4>1. /\ Request("updateAccount", account[a].userId, "pay") \in Job
              /\ Request("updateAccount", account[a].userId, "pay").pc = "pay"
              /\ Request("updateAccount", account[a].userId, "pay").user
                   = account[a].userId
              /\ Request("updateAccount", account[a].userId, "pay").no
                   = accepted + 1
              /\ Request("updateAccount", account[a].userId, "pay").default
                   = defaultAcc[account[a].userId]
          BY <1>1, <1>3, <3>1, <3>3, RequestFacts
        <4>. QED
          BY <1>3, <3>1, <3>2, <4>1 DEF Job
      <3>5. Fresh(h, j)
        BY <1>3, <3>1, <3>4, NumberFacts
           DEF Fresh, Start, JobOK, Adding, OnAccount, Steps
      <3>. QED
        BY <3>1, <3>2, <3>5 DEF Start
    <2>7. CASE ChangeDefault(h)
      <3>1. PICK a \in Numbers, u \in Members :
              /\ defaultAcc[u] \notin {Nil, a}
              /\ Open(a)
              /\ account[a].userId = u
              /\ Start(h, [Request("changeDefault", u, "writeUser") EXCEPT
                             !.default = a])
        BY <2>7 DEF ChangeDefault
      <3>2. PICK j : j = [Request("changeDefault", u, "writeUser") EXCEPT
                            !.default = a]
        OBVIOUS
      <3>3. "writeUser" \in Steps /\ "changeDefault" \in Ops
        BY DEF Ops, Steps
      <3>4. /\ j \in Job /\ j.pc = "writeUser" /\ j.user = u
            /\ j.no = accepted + 1 /\ j.op = "changeDefault"
            /\ j.acc = Nil /\ j.copy = Nil /\ j.default = a
        BY <1>1, <3>2, <3>3, RequestFacts DEF Job
      <3>5. Fresh(h, j)
        BY <3>1, <3>4, NumberFacts
           DEF Fresh, Start, JobOK, Adding, OnAccount, Steps
      <3>. QED
        BY <3>1, <3>2, <3>5 DEF Start
    <2>8. CASE ForgetPIN(h)
      <3>1. PICK a \in Numbers :
              /\ Open(a)
              /\ Start(h, [Request("forgetPIN", account[a].userId, "setPIN")
                             EXCEPT !.acc = a])
        BY <2>8 DEF ForgetPIN, TypeInv, TypeOK
      <3>2. PICK j : j = [Request("forgetPIN", account[a].userId, "setPIN")
                            EXCEPT !.acc = a]
        OBVIOUS
      <3>3. "setPIN" \in Steps /\ "forgetPIN" \in Ops
        BY DEF Ops, Steps
      <3>4. /\ j \in Job /\ j.pc = "setPIN" /\ j.user = account[a].userId
            /\ j.no = accepted + 1 /\ j.default = defaultAcc[j.user]
            /\ j.acc = a /\ j.copy = Nil
        BY <1>1, <1>3, <3>1, <3>2, <3>3, RequestFacts DEF Job
      <3>5. Fresh(h, j)
        BY <1>3, <3>1, <3>4 DEF Fresh, Start, JobOK, Adding, OnAccount, Steps
      <3>. QED
        BY <3>1, <3>2, <3>5 DEF Start
    <2>. QED
      BY <2>1, <2>2, <2>3, <2>4, <2>5, <2>6, <2>7, <2>8 DEF Submit
  <1>. QED
    BY <1>1, <1>2, <1>4 DEF Submit

-----------------------------------------------------------------------------
(* Type correctness                                                        *)

\* One handler goes on, the others stay where they are.
LEMMA OneHandler ==
    ASSUME TypeInv, NEW h \in Handlers, NEW j,
           job' = [job EXCEPT ![h] = j], JobOK(j)
    PROVE  /\ job' \in [Handlers -> Job]
           /\ \A g \in Handlers : JobOK(job'[g])
           /\ job'[h] = j
           /\ \A g \in Handlers \ {h} : job'[g] = job[g]
  BY DEF TypeInv, TypeOK, JobOK

\* A handler that is done has a free slot.
LEMMA EndType ==
    ASSUME TypeInv, NEW h \in Handlers, End(h)
    PROVE  /\ job' \in [Handlers -> Job]
           /\ \A g \in Handlers : JobOK(job'[g])
           /\ job'[h] = Idle
           /\ \A g \in Handlers \ {h} : job'[g] = job[g]
  BY IdleOK, OneHandler DEF End

\* A handler that goes on to a step for which it knows enough.
LEMMA GotoType ==
    ASSUME TypeInv, NEW h \in Handlers, NEW step \in Steps, Goto(h, step),
           JobOK([job[h] EXCEPT !.pc = step])
    PROVE  /\ job' \in [Handlers -> Job]
           /\ \A g \in Handlers : JobOK(job'[g])
           /\ job'[h] = [job[h] EXCEPT !.pc = step]
           /\ \A g \in Handlers \ {h} : job'[g] = job[g]
  <1>1. job' = [job EXCEPT ![h] = [job[h] EXCEPT !.pc = step]]
    BY DEF Goto, TypeInv, TypeOK
  <1>. QED
    BY <1>1, OneHandler

\* A user document that is written back holds the number of an account or none.
LEMMA WriteDefaultType ==
    ASSUME TypeInv, NEW u \in Members, NEW a \in Numbers \cup {Nil},
           WriteDefault(u, a)
    PROVE  defaultAcc' \in [Members -> Numbers \cup {Nil}]
  BY DEF WriteDefault, TypeInv, TypeOK

\* The step of a handler that is being served, and what it can be.
LEMMA StepType ==
    ASSUME TypeInv, NEW h \in Handlers
    PROVE  /\ JobOK(job[h])
           /\ job[h] \in Job
           /\ job[h].pc \in Steps
           /\ job[h].no \in Numbers
           /\ job[h].default \in Numbers \cup {Nil}
  BY DEF TypeInv, TypeOK, JobOK, Job

\* Where checkPIN leads to, right or wrong.
LEMMA TriesSteps ==
    ASSUME TypeInv, NEW h \in Handlers, Tries(h)
    PROVE  \/ End(h)
           \/ \E step \in {"lock", "count", "savePIN", "remove", "pay"} :
                /\ Goto(h, step)
                /\ step = "count" => ~ Locked(job[h].copy)
  <1>1. job[h].op \in AskingPIN
    BY DEF Tries, At, TypeInv, JobOK
  <1>2. CASE Locked(job[h].copy)
    BY <1>2 DEF Tries
  <1>3. CASE ~ Locked(job[h].copy) /\ ~ job[h].right
    BY <1>3 DEF Tries
  <1>4. CASE ~ Locked(job[h].copy) /\ job[h].right
    <2>1. AfterPIN(job[h].op) \in {"idle", "savePIN", "remove", "pay"}
      BY <1>1 DEF AfterPIN, AskingPIN
    <2>2. \/ End(h)
          \/ Goto(h, AfterPIN(job[h].op)) /\ AfterPIN(job[h].op) # "idle"
      BY <1>4 DEF Tries
    <2>. QED
      BY <2>1, <2>2
  <1>. QED
    BY <1>2, <1>3, <1>4

\* Every step of a handler leaves every document what it may be.
LEMMA AdvanceType ==
    ASSUME TypeInv, NEW h \in Handlers, Advance(h)
    PROVE  TypeInv'
  <1>. DEFINE j == job[h]
  <1>0. /\ JobOK(j) /\ j \in Job /\ j.pc \in Steps /\ j.no \in Numbers
        /\ j.default \in Numbers \cup {Nil}
    BY StepType
  <1>. USE DEF TypeInv, TypeOK
  <1>1. CASE AddCard(h) /\ UNCHANGED links
    <2>1. j.card \in Cards /\ JobOK([j EXCEPT !.pc = "addAccount"])
      BY <1>0, <1>1 DEF AddCard, At, JobOK, Adding, OnAccount, Job, Steps
    <2>2. job' \in [Handlers -> Job] /\ \A g \in Handlers : JobOK(job'[g])
      <3>1. End(h) \/ Goto(h, "addAccount")
        BY <1>1 DEF AddCard
      <3>. QED
        BY <2>1, <3>1, EndType, GotoType DEF Steps
    <2>3. cards' \subseteq Cards
      BY <1>1, <2>1 DEF AddCard
    <2>. QED
      BY <1>1, <2>2, <2>3 DEF Advance, AddCard, historyVars
  <1>2. CASE AddAccount(h) /\ UNCHANGED links
    <2>1. j.card \in Cards /\ j.user \in Members
      BY <1>0, <1>2 DEF AddAccount, At, JobOK, Adding
    <2>2. JobOK([j EXCEPT !.pc = "writeUser", !.default = j.no])
      BY <1>0, <2>1 DEF JobOK, Adding, OnAccount, Job, Steps
    <2>3. job' \in [Handlers -> Job] /\ \A g \in Handlers : JobOK(job'[g])
      <3>1. CASE End(h)
        BY <3>1, EndType
      <3>2. CASE job' = [job EXCEPT ![h].pc = "writeUser", ![h].default = j.no]
        <4>1. job' = [job EXCEPT ![h] =
                        [j EXCEPT !.pc = "writeUser", !.default = j.no]]
          BY <3>2
        <4>. QED
          BY <2>2, <4>1, OneHandler
      <3>. QED
        BY <1>2, <3>1, <3>2 DEF AddAccount
    <2>4. [userId |-> j.user, card |-> j.card, PIN |-> j.no, wrongPIN |-> 0]
            \in Document
      BY <1>0, <2>1 DEF Document
    <2>5. /\ account' \in [Numbers -> Document \cup {Nil}]
          /\ opened' \in [Numbers -> [user : Members, card : Cards] \cup {Nil}]
          /\ lastPIN' \in [Numbers -> Numbers]
      BY <1>0, <1>2, <2>1, <2>4 DEF AddAccount
    <2>. QED
      BY <1>2, <2>3, <2>5 DEF Advance, AddAccount
  <1>3. CASE WriteUser(h) /\ UNCHANGED links
    <2>1. j.user \in Members
      BY <1>0, <1>3 DEF WriteUser, At, JobOK
    <2>2. defaultAcc' \in [Members -> Numbers \cup {Nil}]
      BY <1>0, <1>3, <2>1, WriteDefaultType DEF WriteUser
    <2>3. job' \in [Handlers -> Job] /\ \A g \in Handlers : JobOK(job'[g])
      BY <1>3, EndType DEF WriteUser
    <2>. QED
      BY <1>3, <2>2, <2>3 DEF Advance, WriteUser, historyVars
  <1>4. CASE Tries(h)
    <2>1. \A step \in {"lock", "count", "savePIN", "remove", "pay"} :
            step \in Steps /\ JobOK([j EXCEPT !.pc = step])
      BY <1>0, <1>4 DEF Tries, At, JobOK, Adding, OnAccount, Job, Steps
    <2>2. job' \in [Handlers -> Job] /\ \A g \in Handlers : JobOK(job'[g])
      BY <1>4, <2>1, TriesSteps, EndType, GotoType
    <2>. QED
      BY <1>4, <2>2 DEF Advance, Tries, historyVars
  <1>5. CASE Lock(h)
    <2>1. j.user \in Members /\ JobOK([j EXCEPT !.pc = "mailLink"])
      BY <1>0, <1>5 DEF Lock, At, JobOK, Adding, OnAccount, Job, Steps
    <2>2. defaultAcc' \in [Members -> Numbers \cup {Nil}]
      BY <1>0, <1>5, <2>1, WriteDefaultType DEF Lock
    <2>3. job' \in [Handlers -> Job] /\ \A g \in Handlers : JobOK(job'[g])
      BY <1>5, <2>1, GotoType DEF Lock, Steps
    <2>. QED
      BY <1>5, <2>2, <2>3 DEF Advance, Lock, historyVars
  <1>6. CASE MailLink(h)
    <2>1. j.user \in Members /\ j.acc \in Numbers
      BY <1>0, <1>6 DEF MailLink, At, JobOK, Adding, OnAccount, Steps
    <2>2. links' \subseteq [acc : Numbers, to : Members]
      BY <1>6, <2>1 DEF MailLink
    <2>3. job' \in [Handlers -> Job] /\ \A g \in Handlers : JobOK(job'[g])
      BY <1>6, EndType DEF MailLink
    <2>. QED
      BY <1>6, <2>2, <2>3 DEF Advance, MailLink, historyVars
  <1>7. CASE Count(h)
    <2>1. j.acc \in Numbers
      BY <1>0, <1>7 DEF Count, At, JobOK, Adding, OnAccount, Steps
    <2>2. /\ account' \in [Numbers -> Document \cup {Nil}]
          /\ wrongs' \in [Numbers -> Nat]
      BY <1>7, <2>1 DEF Count, Open, Document
    <2>3. job' \in [Handlers -> Job] /\ \A g \in Handlers : JobOK(job'[g])
      BY <1>7, EndType DEF Count
    <2>. QED
      BY <1>7, <2>2, <2>3 DEF Advance, Count
  <1>8. CASE SavePIN(h) \/ SetPIN(h)
    <2>1. j.acc \in Numbers
      BY <1>0, <1>8 DEF SavePIN, SetPIN, At, JobOK, Adding, OnAccount, Steps
    <2>2. WritePIN(h)
      BY <1>8 DEF SavePIN, SetPIN
    <2>3. /\ account' \in [Numbers -> Document \cup {Nil}]
          /\ lastPIN' \in [Numbers -> Numbers]
      BY <1>0, <2>1, <2>2 DEF WritePIN, Open, Document
    <2>4. job' \in [Handlers -> Job] /\ \A g \in Handlers : JobOK(job'[g])
      BY <1>8, EndType DEF SavePIN, SetPIN
    <2>. QED
      BY <1>8, <2>3, <2>4 DEF Advance, SavePIN, SetPIN
  <1>9. CASE Remove(h)
    <2>1. JobOK([j EXCEPT !.pc = "writeUser", !.default = Nil])
      BY <1>0, <1>9 DEF Remove, At, JobOK, Adding, OnAccount, Job, Steps
    <2>2. job' \in [Handlers -> Job] /\ \A g \in Handlers : JobOK(job'[g])
      <3>1. CASE End(h)
        BY <3>1, EndType
      <3>2. CASE job' = [job EXCEPT ![h].pc = "writeUser", ![h].default = Nil]
        <4>1. job' = [job EXCEPT ![h] =
                        [j EXCEPT !.pc = "writeUser", !.default = Nil]]
          BY <3>2
        <4>. QED
          BY <2>1, <4>1, OneHandler
      <3>. QED
        BY <1>9, <3>1, <3>2 DEF Remove
    <2>3. account' \in [Numbers -> Document \cup {Nil}]
      BY <1>9 DEF Remove
    <2>. QED
      BY <1>9, <2>2, <2>3 DEF Advance, Remove, historyVars
  <1>10. CASE PutBack(h)
    <2>1. j.acc \in Numbers /\ j.copy \in Document
      BY <1>0, <1>10 DEF PutBack, At, JobOK, Adding, OnAccount, Steps
    <2>2. /\ account' \in [Numbers -> Document \cup {Nil}]
          /\ stale' \subseteq Numbers
      BY <1>10, <2>1 DEF PutBack
    <2>3. job' \in [Handlers -> Job] /\ \A g \in Handlers : JobOK(job'[g])
      BY <1>10, EndType DEF PutBack
    <2>. QED
      BY <1>10, <2>2, <2>3 DEF Advance, PutBack
  <1>. QED
    BY <1>1, <1>2, <1>3, <1>4, <1>5, <1>6, <1>7, <1>8, <1>9, <1>10 DEF Advance

\* The initial documents, requests, answers and faults do so, too.
LEMMA TypeInductive ==
    /\ Init => TypeInv
    /\ TypeInv /\ [Next]_vars => TypeInv'
  <1>1. ASSUME Init PROVE TypeInv
    <2>1. account \in [Numbers -> Document \cup {Nil}]
      BY <1>1, NumberFacts, AccountServiceAssumption DEF Init, Document
    <2>2. job \in [Handlers -> Job] /\ \A h \in Handlers : JobOK(job[h])
      BY <1>1, IdleOK DEF Init, JobOK
    <2>3. opened \in [Numbers -> [user : Members, card : Cards] \cup {Nil}]
      BY <1>1, AccountServiceAssumption DEF Init
    <2>4. /\ defaultAcc \in [Members -> Numbers \cup {Nil}]
          /\ cards \subseteq Cards
          /\ lastPIN \in [Numbers -> Numbers]
          /\ wrongs \in [Numbers -> Nat]
          /\ accepted \in Numbers
      BY <1>1, NumberFacts, AccountServiceAssumption DEF Init
    <2>. QED
      BY <1>1, <2>1, <2>2, <2>3, <2>4 DEF Init, TypeInv, TypeOK
  <1>2. ASSUME TypeInv, [Next]_vars PROVE TypeInv'
    <2>1. ASSUME NEW h \in Handlers, Submit(h) PROVE TypeInv'
      <3>1. PICK j : Fresh(h, j) /\ job' = [job EXCEPT ![h] = j]
        BY <1>2, <2>1, SubmitFresh
      <3>2. job' \in [Handlers -> Job] /\ \A g \in Handlers : JobOK(job'[g])
        BY <1>2, <3>1, OneHandler DEF Fresh
      <3>. QED
        BY <1>2, <2>1, <3>2, SubmitFresh DEF TypeInv, TypeOK, historyVars
    <2>2. ASSUME NEW h \in Handlers, Abort(h) PROVE TypeInv'
      <3>1. job' \in [Handlers -> Job] /\ \A g \in Handlers : JobOK(job'[g])
        BY <1>2, <2>2, EndType DEF Abort
      <3>2. JobOK(job[h])
        BY <1>2 DEF TypeInv
      <3>3. cut' \subseteq Cards \cup Members
        BY <1>2, <2>2, <3>2 DEF Abort, At, TypeInv, TypeOK, JobOK, Adding
      <3>. QED
        BY <1>2, <2>2, <3>1, <3>3 DEF Abort, TypeInv, TypeOK
    <2>3. ASSUME Answer PROVE TypeInv'
      <3>1. accepted' \in Numbers
        BY <1>2, <2>3, AccountServiceAssumption
           DEF Answer, SendOTP, ConfirmOTPForgetPIN, ResetTries, Accept,
               TypeInv, TypeOK, Numbers
      <3>2. otpTokens' \cup pinTokens' \subseteq Numbers
        BY <1>2, <2>3
           DEF Answer, SendOTP, ConfirmOTPForgetPIN, ResetTries, TypeInv, TypeOK
      <3>3. /\ account' \in [Numbers -> Document \cup {Nil}]
            /\ wrongs' \in [Numbers -> Nat]
        <4>1. CASE ResetTries
          <5>1. PICK l \in links :
                  /\ Open(l.acc)
                  /\ account' = [account EXCEPT ![l.acc].wrongPIN = 0]
                  /\ wrongs' = [wrongs EXCEPT ![l.acc] = 0]
            BY <4>1 DEF ResetTries
          <5>2. l.acc \in Numbers
            BY <1>2 DEF TypeInv, TypeOK
          <5>. QED
            BY <1>2, <5>1, <5>2 DEF TypeInv, TypeOK, Open, Document
        <4>. QED
          BY <1>2, <2>3, <4>1
             DEF Answer, SendOTP, ConfirmOTPForgetPIN, TypeInv, TypeOK
      <3>. QED
        BY <1>2, <2>3, <3>1, <3>2, <3>3 DEF Answer, TypeInv, TypeOK
    <2>4. CASE UNCHANGED vars
      BY <1>2, <2>4
         DEF vars, serviceVars, historyVars, TypeInv, TypeOK
    <2>5. ASSUME UpdateUser PROVE TypeInv'
      <3>1. accepted' \in Numbers
        BY <1>2, <2>5, AccountServiceAssumption
           DEF UpdateUser, Accept, TypeInv, TypeOK, Numbers
      <3>2. /\ defaultAcc' \in [Members -> Numbers \cup {Nil}]
            /\ chosen' \subseteq Members
        BY <1>2, <2>5, AccountServiceAssumption DEF UpdateUser, TypeInv, TypeOK
      <3>. QED
        BY <1>2, <2>5, <3>1, <3>2 DEF UpdateUser, TypeInv, TypeOK
    <2>. QED
      BY <1>2, <2>1, <2>2, <2>3, <2>4, <2>5, AdvanceType DEF Next, Rest
  <1>. QED
    BY <1>1, <1>2

\* Every variable holds what it may, whatever is interleaved or cut off: a
\* handler at each of its steps knows the account, the card or the user that
\* the step needs.
THEOREM AccountTypes == Spec => []TypeOK
  <1>1. TypeInv => TypeOK
    BY DEF TypeInv
  <1>. QED
    BY <1>1, TypeInductive, PTL DEF Spec

\* A request that is done at once changes no more than the tries of one
\* account, and those it resets.
LEMMA AnswerEffect ==
    ASSUME TypeInv, Answer
    PROVE  /\ UNCHANGED <<cards, defaultAcc, job, links, opened, lastPIN, stale,
                          cut, chosen>>
           /\ accepted' = accepted + 1
           /\ \/ UNCHANGED <<account, wrongs>>
              \/ \E a \in Numbers :
                   /\ Open(a)
                   /\ account' = [account EXCEPT ![a].wrongPIN = 0]
                   /\ wrongs' = [wrongs EXCEPT ![a] = 0]
  <1>1. ASSUME ResetTries
        PROVE  \E a \in Numbers :
                 /\ Open(a)
                 /\ account' = [account EXCEPT ![a].wrongPIN = 0]
                 /\ wrongs' = [wrongs EXCEPT ![a] = 0]
    BY <1>1 DEF ResetTries, TypeInv, TypeOK
  <1>. QED
    BY <1>1 DEF Answer, SendOTP, ConfirmOTPForgetPIN, ResetTries, Accept

\* A user who writes into his own document changes a default account and no more.
LEMMA UpdateUserEffect ==
    ASSUME TypeInv, UpdateUser
    PROVE  /\ UNCHANGED <<account, cards, job, opened, lastPIN, wrongs, stale, cut>>
           /\ accepted' = accepted + 1
           /\ \E u \in Members, a \in Numbers :
                /\ defaultAcc' = [defaultAcc EXCEPT ![u] = a]
                /\ chosen' = chosen \cup {u}
  BY AccountServiceAssumption DEF UpdateUser, Accept

-----------------------------------------------------------------------------
(* Wrong PINs                                                              *)

\* The handlers that may still count a wrong PIN of an account: all of them
\* have judged, or will judge, a copy at which it was not locked.
Awaited(jobs, a) ==
    {g \in Handlers :
       /\ jobs[g].acc = a
       /\ \/ jobs[g].pc = "count"
          \/ jobs[g].pc = "tries" /\ ~ Locked(jobs[g].copy)}

\* The strengthening: the tries that are counted and those that may still be
\* are together bounded.  When a request reads an account that is not locked,
\* less than MaxTries are counted, and no more can be on their way than there
\* are handlers.
TriesInv ==
    \A a \in Numbers \ stale : Open(a) =>
      account[a].wrongPIN + Cardinality(Awaited(job, a))
        <= MaxTries - 1 + Cardinality(Handlers)

\* There are never more tries on their way than handlers.
LEMMA AwaitedFinite ==
    ASSUME NEW jobs, NEW a
    PROVE  /\ IsFiniteSet(Awaited(jobs, a))
           /\ Cardinality(Awaited(jobs, a)) \in Nat
           /\ Cardinality(Handlers) \in Nat
           /\ Cardinality(Awaited(jobs, a)) <= Cardinality(Handlers)
  <1>1. IsFiniteSet(Handlers) /\ Awaited(jobs, a) \subseteq Handlers
    BY AccountServiceAssumption DEF Awaited
  <1>. QED
    BY <1>1, FS_Subset, FS_CardinalityType

\* A handler that goes on without a new try leaves no more of them.
LEMMA AwaitedShrinks ==
    ASSUME NEW jobs, NEW others, NEW a, NEW h \in Handlers,
           \A g \in Handlers \ {h} : others[g] = jobs[g],
           h \in Awaited(others, a) => h \in Awaited(jobs, a)
    PROVE  Cardinality(Awaited(others, a)) <= Cardinality(Awaited(jobs, a))
  <1>1. Awaited(others, a) \subseteq Awaited(jobs, a)
    BY DEF Awaited
  <1>. QED
    BY <1>1, AwaitedFinite, FS_Subset

\* A handler that counts its try leaves one try less.
LEMMA AwaitedLess ==
    ASSUME NEW jobs, NEW others, NEW a, NEW h \in Handlers,
           \A g \in Handlers \ {h} : others[g] = jobs[g],
           h \in Awaited(jobs, a), h \notin Awaited(others, a)
    PROVE  Cardinality(Awaited(others, a)) = Cardinality(Awaited(jobs, a)) - 1
  <1>1. Awaited(others, a) = Awaited(jobs, a) \ {h}
    BY DEF Awaited
  <1>. QED
    BY <1>1, AwaitedFinite, FS_RemoveElement

\* What keeps the bound of one account: neither its tries nor those on their
\* way become more.
LEMMA RoomKept ==
    ASSUME TypeInv, TypeInv', TriesInv, NEW h \in Handlers,
           NEW a \in Numbers \ stale, Open(a), Open(a)',
           account'[a].wrongPIN <= account[a].wrongPIN,
           \A g \in Handlers \ {h} : job'[g] = job[g],
           h \in Awaited(job', a) => h \in Awaited(job, a)
    PROVE  account'[a].wrongPIN + Cardinality(Awaited(job', a))
             <= MaxTries - 1 + Cardinality(Handlers)
  <1>1. account[a].wrongPIN \in Nat /\ account'[a].wrongPIN \in Nat
    BY DEF TypeInv, TypeOK, Open, Document
  <1>2. Cardinality(Awaited(job', a)) <= Cardinality(Awaited(job, a))
    BY AwaitedShrinks
  <1>3. account[a].wrongPIN + Cardinality(Awaited(job, a))
          <= MaxTries - 1 + Cardinality(Handlers)
    BY DEF TriesInv
  <1>. QED
    BY <1>1, <1>2, <1>3, AwaitedFinite, AccountServiceAssumption

\* The tries of an account that has none counted are bounded.
LEMMA RoomOfNew ==
    ASSUME NEW jobs, NEW a
    PROVE  0 + Cardinality(Awaited(jobs, a))
             <= MaxTries - 1 + Cardinality(Handlers)
  BY AwaitedFinite, AccountServiceAssumption

\* A request that reads an account finds fewer tries than lock it.
LEMMA SubmitTries ==
    ASSUME TypeInv, TriesInv, NEW h \in Handlers, Submit(h), TypeInv'
    PROVE  TriesInv'
  <1>1. PICK j : Fresh(h, j) /\ job' = [job EXCEPT ![h] = j]
    BY SubmitFresh
  <1>2. account' = account /\ stale' = stale
    BY SubmitFresh DEF historyVars
  <1>3. job'[h] = j /\ \A g \in Handlers \ {h} : job'[g] = job[g]
    BY <1>1, OneHandler DEF Fresh
  <1>. SUFFICES ASSUME NEW a \in Numbers \ stale, Open(a)
                PROVE  account[a].wrongPIN + Cardinality(Awaited(job', a))
                         <= MaxTries - 1 + Cardinality(Handlers)
    BY <1>2 DEF TriesInv, Open
  <1>4. account[a].wrongPIN \in Nat
    BY DEF TypeInv, TypeOK, Open, Document
  <1>5. CASE h \in Awaited(job', a)
    <2>1. j.acc = a /\ j.pc = "tries" /\ ~ Locked(j.copy)
      BY <1>1, <1>3, <1>5 DEF Awaited, Fresh
    <2>2. j.copy = account[a]
      <3>1. j.copy \in Document
        BY <1>1, <2>1 DEF Fresh, JobOK
      <3>. QED
        BY <1>1, <2>1, <3>1, NumberFacts DEF Fresh
    <2>3. account[a].wrongPIN <= MaxTries - 1
      BY <1>4, <2>1, <2>2, AccountServiceAssumption DEF Locked
    <2>. QED
      BY <1>4, <2>3, AwaitedFinite, AccountServiceAssumption
  <1>6. CASE h \notin Awaited(job', a)
    BY <1>2, <1>3, <1>4, <1>6, RoomKept DEF Open
  <1>. QED
    BY <1>5, <1>6

\* A step of one handler leaves the others where they are.
LEMMA OthersStay ==
    ASSUME TypeInv, NEW h \in Handlers, Advance(h)
    PROVE  \A g \in Handlers \ {h} : job'[g] = job[g]
  <1>1. CASE Tries(h)
    BY <1>1, TriesSteps DEF End, Goto, TypeInv, TypeOK
  <1>2. CASE ~ Tries(h)
    BY <1>2
       DEF Advance, AddCard, AddAccount, WriteUser, Lock, MailLink, Count,
           SavePIN, SetPIN, Remove, PutBack, End, Goto, TypeInv, TypeOK
  <1>. QED
    BY <1>1, <1>2

\* Every step of a handler keeps the tries bounded.
LEMMA AdvanceTries ==
    ASSUME TypeInv, TypeInv', TriesInv, NEW h \in Handlers, Advance(h)
    PROVE  TriesInv'
  <1>. DEFINE j == job[h]
  <1>0. /\ JobOK(j) /\ j \in Job /\ j.pc \in Steps /\ j.no \in Numbers
    BY StepType
  <1>1. stale \subseteq stale'
    BY DEF Advance, AddCard, AddAccount, WriteUser, Tries, Lock, MailLink,
           Count, SavePIN, SetPIN, Remove, PutBack, historyVars
  <1>2. \A g \in Handlers \ {h} : job'[g] = job[g]
    BY OthersStay
  <1>. SUFFICES ASSUME NEW a \in Numbers \ stale', Open(a)'
                PROVE  account'[a].wrongPIN + Cardinality(Awaited(job', a))
                         <= MaxTries - 1 + Cardinality(Handlers)
    BY DEF TriesInv, Open
  <1>3. a \in Numbers \ stale
    BY <1>1
  <1>4. ASSUME account' = account,
               End(h) \/ \E step \in Steps :
                           /\ Goto(h, step)
                           /\ step \notin {"count", "tries"}
        PROVE  account'[a].wrongPIN + Cardinality(Awaited(job', a))
                 <= MaxTries - 1 + Cardinality(Handlers)
    <2>1. job'[h].pc \notin {"count", "tries"}
      BY <1>4 DEF End, Goto, Idle, TypeInv, TypeOK, Job
    <2>2. h \notin Awaited(job', a)
      BY <2>1 DEF Awaited
    <2>3. account[a].wrongPIN \in Nat /\ Open(a)
      BY <1>4 DEF TypeInv, TypeOK, Open, Document
    <2>. QED
      BY <1>2, <1>3, <1>4, <2>2, <2>3, RoomKept
  <1>5. CASE AddCard(h)
    BY <1>4, <1>5 DEF AddCard, Steps
  <1>6. CASE AddAccount(h)
    <2>1. CASE a = j.no
      <3>1. account'[a].wrongPIN = 0
        BY <1>6, <2>1 DEF AddAccount, TypeInv, TypeOK
      <3>. QED
        BY <3>1, RoomOfNew
    <2>2. CASE a # j.no
      <3>1. account'[a] = account[a]
        BY <1>6, <2>2 DEF AddAccount, TypeInv, TypeOK
      <3>2. h \notin Awaited(job', a)
        BY <1>6 DEF AddAccount, Awaited, End, Idle, TypeInv, TypeOK, Job
      <3>3. account[a].wrongPIN \in Nat /\ Open(a)
        BY <3>1 DEF TypeInv, TypeOK, Open, Document
      <3>. QED
        BY <1>2, <1>3, <3>1, <3>2, <3>3, RoomKept
    <2>. QED
      BY <2>1, <2>2
  <1>7. CASE WriteUser(h)
    BY <1>4, <1>7 DEF WriteUser
  <1>8. CASE Tries(h)
    <2>1. CASE Goto(h, "count") /\ ~ Locked(j.copy)
      <3>1. h \in Awaited(job', a) => h \in Awaited(job, a)
        BY <1>8, <2>1 DEF Tries, At, Goto, Awaited, TypeInv, TypeOK, Job
      <3>2. account' = account
        BY <1>8 DEF Tries
      <3>3. account[a].wrongPIN \in Nat /\ Open(a)
        BY <3>2 DEF TypeInv, TypeOK, Open, Document
      <3>. QED
        BY <1>2, <1>3, <3>1, <3>2, <3>3, RoomKept
    <2>2. CASE \/ End(h)
               \/ \E step \in {"lock", "savePIN", "remove", "pay"} :
                    Goto(h, step)
      <3>1. account' = account
        BY <1>8 DEF Tries
      <3>. QED
        BY <1>4, <2>2, <3>1 DEF Steps
    <2>. QED
      BY <1>8, <2>1, <2>2, TriesSteps
  <1>9. CASE Lock(h)
    BY <1>4, <1>9 DEF Lock, Steps
  <1>10. CASE MailLink(h)
    BY <1>4, <1>10 DEF MailLink
  <1>11. CASE Count(h)
    <2>1. j.pc = "count" /\ j.acc \in Numbers
      BY <1>0, <1>11 DEF Count, At, JobOK, OnAccount, Adding, Steps
    <2>2. h \notin Awaited(job', a)
      BY <1>11 DEF Count, End, Awaited, Idle, TypeInv, TypeOK
    <2>3. CASE a = j.acc /\ Open(a)
      <3>1. account'[a].wrongPIN = account[a].wrongPIN + 1
        BY <1>11, <2>3 DEF Count, TypeInv, TypeOK, Open, Document
      <3>2. h \in Awaited(job, a)
        BY <2>1, <2>3 DEF Awaited
      <3>3. Cardinality(Awaited(job', a)) = Cardinality(Awaited(job, a)) - 1
        BY <1>2, <2>2, <3>2, AwaitedLess
      <3>4. account[a].wrongPIN + Cardinality(Awaited(job, a))
              <= MaxTries - 1 + Cardinality(Handlers)
        BY <1>3, <2>3 DEF TriesInv
      <3>5. account[a].wrongPIN \in Nat
        BY <2>3 DEF TypeInv, TypeOK, Open, Document
      <3>. QED
        BY <3>1, <3>3, <3>4, <3>5, AwaitedFinite, AccountServiceAssumption
    <2>4. CASE ~ (a = j.acc /\ Open(a))
      <3>1. account'[a] = account[a]
        BY <1>11, <2>1, <2>4 DEF Count, TypeInv, TypeOK, Open
      <3>2. account[a].wrongPIN \in Nat /\ Open(a)
        BY <3>1 DEF TypeInv, TypeOK, Open, Document
      <3>. QED
        BY <1>2, <1>3, <2>2, <3>1, <3>2, RoomKept
    <2>. QED
      BY <2>3, <2>4
  <1>12. CASE SavePIN(h) \/ SetPIN(h)
    <2>1. j.acc \in Numbers
      BY <1>0, <1>12 DEF SavePIN, SetPIN, At, JobOK, Adding, OnAccount, Steps
    <2>2. h \notin Awaited(job', a)
      BY <1>12 DEF SavePIN, SetPIN, End, Awaited, Idle, TypeInv, TypeOK
    <2>3. WritePIN(h)
      BY <1>12 DEF SavePIN, SetPIN
    <2>4. Open(a) /\ account'[a].wrongPIN = account[a].wrongPIN
      BY <2>1, <2>3 DEF WritePIN, TypeInv, TypeOK, Open, Document
    <2>5. account[a].wrongPIN \in Nat
      BY <2>4 DEF TypeInv, TypeOK, Open, Document
    <2>. QED
      BY <1>2, <1>3, <2>2, <2>4, <2>5, RoomKept
  <1>13. CASE Remove(h)
    <2>1. h \notin Awaited(job', a)
      BY <1>13 DEF Remove, Awaited, End, Idle, TypeInv, TypeOK, Job
    <2>2. account'[a] = account[a]
      BY <1>13 DEF Remove, TypeInv, TypeOK, Open
    <2>3. account[a].wrongPIN \in Nat /\ Open(a)
      BY <2>2 DEF TypeInv, TypeOK, Open, Document
    <2>. QED
      BY <1>2, <1>3, <2>1, <2>2, <2>3, RoomKept
  <1>14. CASE PutBack(h)
    <2>1. j.acc \in Numbers
      BY <1>0, <1>14 DEF PutBack, At, JobOK, Adding, OnAccount, Steps
    <2>2. h \notin Awaited(job', a)
      BY <1>14 DEF PutBack, End, Awaited, Idle, TypeInv, TypeOK
    <2>3. account'[a] = account[a]
      BY <1>14, <2>1 DEF PutBack, TypeInv, TypeOK, Open
    <2>4. account[a].wrongPIN \in Nat /\ Open(a)
      BY <2>3 DEF TypeInv, TypeOK, Open, Document
    <2>. QED
      BY <1>2, <1>3, <2>2, <2>3, <2>4, RoomKept
  <1>. QED
    BY <1>5, <1>6, <1>7, <1>8, <1>9, <1>10, <1>11, <1>12, <1>13, <1>14
       DEF Advance

\* However often the tries of an account are reset and whatever is served at
\* the same time, no more wrong PINs are counted than the maximum and one for
\* each other request: the tries that have been judged but not yet counted.
THEOREM TriesAreBounded == Spec => []TriesBounded
  <1>1. Init => TriesInv
    <2>. SUFFICES ASSUME Init PROVE TriesInv
      OBVIOUS
    <2>1. \A a \in Numbers : Open(a) => account[a].wrongPIN = 0
      BY NumberFacts DEF Init, Open
    <2>. QED
      BY <2>1, RoomOfNew DEF TriesInv
  <1>2. TypeInv /\ TypeInv' /\ TriesInv /\ [Next]_vars => TriesInv'
    <2>. SUFFICES ASSUME TypeInv, TypeInv', TriesInv, [Next]_vars
                  PROVE  TriesInv'
      OBVIOUS
    <2>1. ASSUME NEW h \in Handlers, Abort(h) PROVE TriesInv'
      <3>1. account' = account /\ stale' = stale
        BY <2>1 DEF Abort
      <3>2. job'[h] = Idle /\ \A g \in Handlers \ {h} : job'[g] = job[g]
        BY <2>1, EndType DEF Abort
      <3>3. \A a \in Numbers \ stale : h \notin Awaited(job', a)
        BY <3>2 DEF Awaited, Idle
      <3>4. \A a \in Numbers : Open(a) => account[a].wrongPIN \in Nat
        BY DEF TypeInv, TypeOK, Open, Document
      <3>5. ASSUME NEW a \in Numbers \ stale, Open(a)
            PROVE  account'[a].wrongPIN + Cardinality(Awaited(job', a))
                     <= MaxTries - 1 + Cardinality(Handlers)
        <4>1. Open(a)'
          BY <3>1, <3>5 DEF Open
        <4>2. account'[a].wrongPIN <= account[a].wrongPIN
          BY <3>1, <3>4, <3>5
        <4>. QED
          BY <3>2, <3>3, <3>5, <4>1, <4>2, RoomKept
      <3>. QED
        BY <3>1, <3>5 DEF TriesInv, Open
    <2>2. CASE Answer
      <3>1. job' = job /\ stale' = stale
        BY <2>2 DEF Answer
      <3>2. ASSUME NEW a \in Numbers \ stale, Open(a)'
            PROVE  account'[a].wrongPIN + Cardinality(Awaited(job, a))
                     <= MaxTries - 1 + Cardinality(Handlers)
        <4>1. \/ account'[a] = account[a]
              \/ account'[a].wrongPIN = 0
          BY <2>2, AnswerEffect DEF TypeInv, TypeOK, Open, Document
        <4>2. CASE account'[a] = account[a]
          BY <3>2, <4>2 DEF TriesInv, Open
        <4>3. CASE account'[a].wrongPIN = 0
          BY <4>3, RoomOfNew
        <4>. QED
          BY <4>1, <4>2, <4>3
      <3>. QED
        BY <3>1, <3>2 DEF TriesInv, Open
    <2>3. CASE UNCHANGED vars
      BY <2>3 DEF vars, serviceVars, historyVars, TriesInv, Open
    <2>4. CASE UpdateUser
      BY <2>4, UpdateUserEffect DEF TriesInv, Open
    <2>. QED
      BY <2>1, <2>2, <2>3, <2>4, SubmitTries, AdvanceTries DEF Next, Rest
  <1>3. TypeInv /\ TriesInv => TriesBounded
    <2>. SUFFICES ASSUME TypeInv, TriesInv, NEW a \in Numbers \ stale, Open(a)
                  PROVE  account[a].wrongPIN < MaxTries + Cardinality(Handlers)
      BY DEF TriesBounded
    <2>1. account[a].wrongPIN + Cardinality(Awaited(job, a))
            <= MaxTries - 1 + Cardinality(Handlers)
      BY DEF TriesInv
    <2>2. account[a].wrongPIN \in Nat
      BY DEF TypeInv, TypeOK, Open, Document
    <2>. QED
      BY <2>1, <2>2, AwaitedFinite, AccountServiceAssumption
  <1>. QED
    BY <1>1, <1>2, <1>3, TypeInductive, PTL DEF Spec

-----------------------------------------------------------------------------
(* Owners and cards                                                        *)

\* An open account still has the holder and the card it was opened with.
HolderKept ==
    \A a \in Numbers : Open(a) =>
      opened[a] = [user |-> account[a].userId, card |-> account[a].card]

\* A number names one account: it is not used before its request has come, and
\* no two requests have the same.
NumberedOnce ==
    /\ \A a \in Numbers : a > accepted => opened[a] = Nil
    /\ \A h \in Handlers : At(h, "addCard") \/ At(h, "addAccount") =>
         /\ job[h].no <= accepted
         /\ opened[job[h].no] = Nil
         /\ \A g \in Handlers \ {h} : At(g, "addCard") \/ At(g, "addAccount")
              => job[g].no # job[h].no

\* The copies a handler holds may be old, but never show another holder, nor a
\* default account of somebody else but of a member who has put that in.
CopiesOwn ==
    \A h \in Handlers :
      /\ job[h].acc # Nil => opened[job[h].acc] # Nil
      /\ job[h].copy # Nil =>
           /\ job[h].acc # Nil
           /\ opened[job[h].acc] = [user |-> job[h].copy.userId,
                                    card |-> job[h].copy.card]
      /\ job[h].default # Nil /\ job[h].user \notin chosen =>
           /\ opened[job[h].default] # Nil
           /\ opened[job[h].default].user = job[h].user

\* A stored card has one account, of an earlier or of a running request.
CardsOnce ==
    /\ \A a \in Numbers : opened[a] # Nil => opened[a].card \in cards
    /\ \A a, b \in Numbers :
         opened[a] # Nil /\ opened[b] # Nil /\ opened[a].card = opened[b].card
           => a = b
    /\ \A h \in Handlers : At(h, "addAccount") =>
         /\ job[h].card \in cards
         /\ \A a \in Numbers : opened[a] # Nil => opened[a].card # job[h].card
         /\ \A g \in Handlers \ {h} : At(g, "addAccount")
              => job[g].card # job[h].card

OwnerInv == HolderKept /\ NumberedOnce /\ CopiesOwn /\ DefaultIsOwn /\ CardsOnce

\* A step that opens no account and stores no card: documents keep their
\* holder, the handler ends or keeps its copies, and a default account is one
\* that its user document or the handler's copy has named.
Quiet(h) ==
    /\ UNCHANGED <<cards, opened, chosen>>
    /\ accepted' >= accepted
    /\ \A g \in Handlers \ {h} : job'[g] = job[g]
    /\ \/ job'[h] \in {Idle, job[h]}
       \/ /\ job'[h].pc \notin Adding
          /\ job'[h].acc = job[h].acc
          /\ job'[h].copy = job[h].copy
          /\ job'[h].user = job[h].user
          /\ job'[h].default \in {job[h].default, Nil}
    /\ \A a \in Numbers : account'[a] # Nil =>
         /\ Open(a)
         /\ account'[a].userId = account[a].userId
         /\ account'[a].card = account[a].card
    /\ \A u \in Members :
         \/ defaultAcc'[u] = defaultAcc[u]
         \/ u = job[h].user /\ defaultAcc'[u] = job[h].default

\* Such a step keeps owners and cards.
LEMMA QuietKeeps ==
    ASSUME TypeInv, TypeInv', OwnerInv, NEW h \in Handlers, Quiet(h)
    PROVE  OwnerInv'
  <1>1. HolderKept'
    BY DEF OwnerInv, HolderKept, Quiet, Open
  <1>2. \A g \in Handlers : job'[g].pc \in Adding => job'[g] = job[g]
    BY DEF Quiet, Idle, Adding
  <1>3. NumberedOnce'
    <2>1. opened' = opened /\ accepted' >= accepted
      BY DEF Quiet
    <2>2. accepted \in Nat /\ accepted' \in Nat /\ Numbers \subseteq Nat
      BY NumberFacts DEF TypeInv, TypeOK
    <2>3. \A g \in Handlers :
            At(g, "addCard")' \/ At(g, "addAccount")'
              => /\ job'[g] = job[g]
                 /\ At(g, "addCard") \/ At(g, "addAccount")
      BY <1>2 DEF At, Adding
    <2>4. \A g \in Handlers : job[g].no \in Nat
      BY <2>2 DEF TypeInv, TypeOK, Job
    <2>5. \A a \in Numbers : a > accepted' => opened'[a] = Nil
      BY <2>1, <2>2 DEF OwnerInv, NumberedOnce
    <2>6. \A g \in Handlers : At(g, "addCard")' \/ At(g, "addAccount")' =>
            /\ job'[g].no <= accepted'
            /\ opened'[job'[g].no] = Nil
            /\ \A f \in Handlers \ {g} : At(f, "addCard")' \/ At(f, "addAccount")'
                 => job'[f].no # job'[g].no
      BY <2>1, <2>2, <2>3, <2>4 DEF OwnerInv, NumberedOnce
    <2>. QED
      BY <2>5, <2>6 DEF NumberedOnce
  <1>4. CopiesOwn'
    <2>1. ASSUME NEW g \in Handlers, g # h
          PROVE  job'[g] = job[g]
      BY <2>1 DEF Quiet
    <2>2. \/ job'[h] = job[h]
          \/ /\ job'[h].acc = Nil
             /\ job'[h].copy = Nil
             /\ job'[h].default = Nil
          \/ /\ job'[h].acc = job[h].acc
             /\ job'[h].copy = job[h].copy
             /\ job'[h].user = job[h].user
             /\ job'[h].default \in {job[h].default, Nil}
      BY DEF Quiet, Idle
    <2>3. opened' = opened /\ chosen' = chosen
      BY DEF Quiet
    <2>4. ASSUME NEW g \in Handlers
          PROVE  /\ job'[g].acc \in {job[g].acc, Nil}
                 /\ job'[g].copy \in {job[g].copy, Nil}
                 /\ job'[g].copy # Nil => job'[g].acc = job[g].acc
                 /\ job'[g].default \in {job[g].default, Nil}
                 /\ job'[g].default # Nil => job'[g].user = job[g].user
      <3>1. CASE g = h
        BY <2>2, <3>1
      <3>2. CASE g # h
        BY <2>1, <3>2
      <3>. QED
        BY <3>1, <3>2
    <2>5. ASSUME NEW g \in Handlers
          PROVE  /\ job'[g].acc # Nil => opened'[job'[g].acc] # Nil
                 /\ job'[g].copy # Nil =>
                      /\ job'[g].acc # Nil
                      /\ opened'[job'[g].acc] = [user |-> job'[g].copy.userId,
                                                card |-> job'[g].copy.card]
      BY <2>3, <2>4 DEF OwnerInv, CopiesOwn
    <2>6. ASSUME NEW g \in Handlers, job'[g].default # Nil,
                 job'[g].user \notin chosen'
          PROVE  /\ opened'[job'[g].default] # Nil
                 /\ opened'[job'[g].default].user = job'[g].user
      <3>1. job'[g].default = job[g].default /\ job'[g].user = job[g].user
        BY <2>4, <2>6
      <3>. QED
        BY <2>3, <2>6, <3>1 DEF OwnerInv, CopiesOwn
    <2>. QED
      BY <2>5, <2>6 DEF CopiesOwn
  <1>5. DefaultIsOwn'
    BY DEF OwnerInv, DefaultIsOwn, CopiesOwn, Quiet
  <1>6. CardsOnce'
    BY <1>2 DEF OwnerInv, CardsOnce, Quiet, At, Adding
  <1>. QED
    BY <1>1, <1>3, <1>4, <1>5, <1>6 DEF OwnerInv

\* A request takes a number of its own and copies of what is stored.
LEMMA SubmitOwner ==
    ASSUME TypeInv, TypeInv', OwnerInv, NEW h \in Handlers, Submit(h)
    PROVE  OwnerInv'
  <1>1. PICK j : Fresh(h, j) /\ job' = [job EXCEPT ![h] = j]
    BY SubmitFresh
  <1>2. UNCHANGED <<account, cards, defaultAcc, opened, chosen>>
    BY SubmitFresh DEF historyVars
  <1>3. job'[h] = j /\ \A g \in Handlers \ {h} : job'[g] = job[g]
    BY <1>1, OneHandler DEF Fresh
  <1>4. accepted' = accepted + 1 /\ accepted \in Nat /\ accepted' \in Numbers
    BY SubmitFresh, NumberFacts DEF TypeInv, TypeOK
  <1>5. HolderKept'
    BY <1>2 DEF OwnerInv, HolderKept, Open
  <1>6. NumberedOnce'
    <2>1. opened[j.no] = Nil /\ j.no = accepted'
      BY <1>1, <1>4, NumberFacts DEF Fresh, OwnerInv, NumberedOnce
    <2>2. \A g \in Handlers : job[g].no \in Nat
      BY NumberFacts DEF TypeInv, TypeOK, Job
    <2>. QED
      BY <1>2, <1>3, <1>4, <2>1, <2>2, NumberFacts
         DEF OwnerInv, NumberedOnce, At
  <1>7. CopiesOwn'
    <2>1. j.acc \in Numbers \cup {Nil} /\ j.default \in Numbers \cup {Nil}
      BY <1>1 DEF Fresh, JobOK, Job
    <2>2. j.user \in Members
      BY <1>1 DEF Fresh, JobOK
    <2>3. \A a \in Numbers : Open(a) => opened[a] # Nil
      BY NumberFacts DEF OwnerInv, HolderKept, TypeInv, TypeOK, Open, Document
    <2>4. j.acc # Nil => opened[j.acc] # Nil
      BY <1>1, <2>1, <2>3 DEF Fresh
    <2>5. j.copy # Nil =>
            /\ j.acc # Nil
            /\ opened[j.acc] = [user |-> j.copy.userId, card |-> j.copy.card]
      BY <1>1, <2>1 DEF Fresh, OwnerInv, HolderKept
    <2>6. j.default # Nil /\ j.user \notin chosen =>
            opened[j.default] # Nil /\ opened[j.default].user = j.user
      <3>1. CASE j.pc = "writeUser"
        <4>1. /\ j.default \in Numbers /\ Open(j.default)
              /\ account[j.default].userId = j.user
          BY <1>1, <2>1, <3>1 DEF Fresh
        <4>2. opened[j.default] = [user |-> account[j.default].userId,
                                   card |-> account[j.default].card]
          BY <4>1 DEF OwnerInv, HolderKept
        <4>. QED
          BY <2>3, <4>1, <4>2
      <3>2. CASE j.pc # "writeUser"
        BY <1>1, <2>2, <3>2 DEF Fresh, OwnerInv, DefaultIsOwn
      <3>. QED
        BY <3>1, <3>2
    <2>. QED
      BY <1>2, <1>3, <2>4, <2>5, <2>6 DEF OwnerInv, CopiesOwn
  <1>8. DefaultIsOwn'
    BY <1>2 DEF OwnerInv, DefaultIsOwn
  <1>9. CardsOnce'
    <2>1. ~ At(h, "addAccount")'
      BY <1>1, <1>3 DEF Fresh, At
    <2>. QED
      BY <1>2, <1>3, <2>1 DEF OwnerInv, CardsOnce, At
  <1>. QED
    BY <1>5, <1>6, <1>7, <1>8, <1>9 DEF OwnerInv

\* The unique index gives a card to one of the requests that want it.
LEMMA AddCardOwner ==
    ASSUME TypeInv, TypeInv', OwnerInv, NEW h \in Handlers, AddCard(h),
           UNCHANGED accepted
    PROVE  OwnerInv'
  <1>1. CASE job[h].card \in cards
    <2>1. Quiet(h)
      BY <1>1, EndType
         DEF AddCard, Quiet, historyVars, TypeInv, TypeOK, Open, Numbers
    <2>. QED
      BY <2>1, QuietKeeps
  <1>2. CASE job[h].card \notin cards
    <2>1. /\ cards' = cards \cup {job[h].card}
          /\ UNCHANGED <<account, defaultAcc, opened, chosen>>
      BY <1>2 DEF AddCard, historyVars
    <2>2. /\ job'[h] = [job[h] EXCEPT !.pc = "addAccount"]
          /\ \A g \in Handlers \ {h} : job'[g] = job[g]
      BY <1>2 DEF AddCard, Goto, TypeInv, TypeOK
    <2>3. job[h] \in Job /\ job[h].pc = "addCard"
      BY DEF TypeInv, TypeOK, AddCard, At
    <2>4. /\ job'[h].no = job[h].no
          /\ job'[h].pc = "addAccount"
          /\ job'[h].card = job[h].card
          /\ job'[h].acc = job[h].acc
          /\ job'[h].copy = job[h].copy
          /\ job'[h].user = job[h].user
          /\ job'[h].default = job[h].default
      BY <2>2, <2>3 DEF Job
    <2>5. HolderKept' /\ DefaultIsOwn'
      BY <2>1 DEF OwnerInv, HolderKept, DefaultIsOwn, Open
    <2>6. \A g \in Handlers :
            /\ At(g, "addCard")' \/ At(g, "addAccount")'
                 => At(g, "addCard") \/ At(g, "addAccount")
            /\ At(g, "addAccount")' => g = h \/ At(g, "addAccount")
            /\ job'[g].no = job[g].no
            /\ job'[g].card = job[g].card
            /\ job'[g].acc = job[g].acc
            /\ job'[g].copy = job[g].copy
            /\ job'[g].user = job[g].user
            /\ job'[g].default = job[g].default
      BY <2>2, <2>3, <2>4 DEF At
    <2>7. NumberedOnce'
      BY <2>1, <2>6 DEF OwnerInv, NumberedOnce
    <2>8. CopiesOwn'
      BY <2>1, <2>6 DEF OwnerInv, CopiesOwn
    <2>9. CardsOnce'
      <3>1. \A a \in Numbers : opened[a] # Nil => opened[a].card # job[h].card
        BY <1>2 DEF OwnerInv, CardsOnce
      <3>2. \A g \in Handlers \ {h} : At(g, "addAccount")'
              => At(g, "addAccount") /\ job[g].card # job[h].card
        BY <1>2, <2>6 DEF OwnerInv, CardsOnce
      <3>3. \A g \in Handlers : At(g, "addAccount")' =>
              /\ job'[g].card \in cards'
              /\ \A a \in Numbers : opened'[a] # Nil
                   => opened'[a].card # job'[g].card
        BY <2>1, <2>6, <3>1 DEF OwnerInv, CardsOnce
      <3>4. \A f, g \in Handlers :
              f # g /\ At(f, "addAccount")' /\ At(g, "addAccount")'
                => job'[g].card # job'[f].card
        BY <2>6, <3>2 DEF OwnerInv, CardsOnce
      <3>. QED
        BY <2>1, <3>3, <3>4 DEF OwnerInv, CardsOnce
    <2>. QED
      BY <2>5, <2>7, <2>8, <2>9 DEF OwnerInv
  <1>. QED
    BY <1>1, <1>2

\* The account that is opened has a number and a card no other has.
LEMMA AddAccountOwner ==
    ASSUME TypeInv, TypeInv', OwnerInv, NEW h \in Handlers, AddAccount(h),
           UNCHANGED accepted
    PROVE  OwnerInv'
  <1>. DEFINE j == job[h]
              new == [user |-> j.user, card |-> j.card]
  <1>1. /\ j \in Job /\ j.pc = "addAccount" /\ j.no \in Numbers
        /\ j.user \in Members /\ j.card \in Cards
    BY StepType DEF AddAccount, At, JobOK, Adding
  <1>2. /\ UNCHANGED <<cards, defaultAcc, chosen>>
        /\ opened' = [opened EXCEPT ![j.no] = new]
        /\ account' = [account EXCEPT ![j.no] =
             [userId |-> j.user, card |-> j.card, PIN |-> j.no, wrongPIN |-> 0]]
    BY DEF AddAccount
  <1>3. /\ opened'[j.no] = new
        /\ new # Nil
        /\ \A a \in Numbers : opened[a] # Nil => a # j.no
        /\ \A a \in Numbers \ {j.no} :
             opened'[a] = opened[a] /\ account'[a] = account[a]
    BY <1>1, <1>2, NumberFacts
       DEF TypeInv, TypeOK, OwnerInv, NumberedOnce, At
  <1>4. \A g \in Handlers \ {h} : job'[g] = job[g]
    BY OthersStay DEF AddAccount, End, TypeInv, TypeOK
  <1>5. \/ job'[h] = Idle
        \/ /\ job'[h].pc = "writeUser"
           /\ job'[h].default = j.no
           /\ job'[h].user = j.user
           /\ job'[h].acc = j.acc
           /\ job'[h].copy = j.copy
    BY <1>1 DEF AddAccount, End, TypeInv, TypeOK, Job
  <1>6. ~ At(h, "addCard")' /\ ~ At(h, "addAccount")'
    BY <1>5 DEF At, Idle
  <1>7. HolderKept'
    BY <1>1, <1>2, <1>3 DEF OwnerInv, HolderKept, Open, TypeInv, TypeOK
  <1>8. NumberedOnce'
    <2>1. j.no <= accepted
      BY <1>1 DEF OwnerInv, NumberedOnce, At
    <2>2. \A a \in Numbers : a > accepted' => opened'[a] = Nil
      BY <1>1, <1>3, <2>1, NumberFacts
         DEF OwnerInv, NumberedOnce, TypeInv, TypeOK
    <2>3. ASSUME NEW g \in Handlers,
                 At(g, "addCard")' \/ At(g, "addAccount")'
          PROVE  /\ g # h /\ job'[g] = job[g]
                 /\ job[g].no # j.no
                 /\ job[g].no <= accepted
                 /\ job[g].no \in Numbers
                 /\ opened'[job[g].no] = Nil
      <3>1. g # h /\ job'[g] = job[g]
        BY <1>4, <1>6, <2>3
      <3>2. At(g, "addCard") \/ At(g, "addAccount")
        BY <2>3, <3>1 DEF At
      <3>3. /\ job[g].no # j.no
            /\ job[g].no <= accepted
            /\ opened[job[g].no] = Nil
            /\ job[g].no \in Numbers
        BY <1>1, <3>1, <3>2, StepType DEF OwnerInv, NumberedOnce, At
      <3>. QED
        BY <1>3, <3>1, <3>3
    <2>4. ASSUME NEW f \in Handlers, NEW g \in Handlers \ {f},
                 At(f, "addCard")' \/ At(f, "addAccount")',
                 At(g, "addCard")' \/ At(g, "addAccount")'
          PROVE  job'[g].no # job'[f].no
      <3>1. job'[f] = job[f] /\ job'[g] = job[g]
        BY <2>3, <2>4
      <3>. QED
        BY <2>4, <3>1 DEF OwnerInv, NumberedOnce, At
    <2>. QED
      BY <2>2, <2>3, <2>4 DEF NumberedOnce
  <1>9. CopiesOwn'
    <2>1. ASSUME NEW g \in Handlers, g # h
          PROVE  /\ job'[g] = job[g]
                 /\ job[g].acc # Nil => opened'[job[g].acc] = opened[job[g].acc]
                 /\ job[g].default # Nil /\ job[g].user \notin chosen =>
                      opened'[job[g].default] = opened[job[g].default]
      <3>1. /\ job[g].acc \in Numbers \cup {Nil}
            /\ job[g].default \in Numbers \cup {Nil}
        BY DEF TypeInv, TypeOK, Job
      <3>. QED
        BY <1>3, <1>4, <2>1, <3>1 DEF OwnerInv, CopiesOwn
    <2>2. /\ j.acc # Nil => opened'[j.acc] = opened[j.acc]
      <3>1. j.acc \in Numbers \cup {Nil}
        BY <1>1 DEF Job
      <3>. QED
        BY <1>3, <3>1 DEF OwnerInv, CopiesOwn
    <2>3. CASE job'[h] = Idle
      BY <1>2, <2>1, <2>3 DEF OwnerInv, CopiesOwn, Idle
    <2>4. CASE /\ job'[h].default = j.no
               /\ job'[h].user = j.user
               /\ job'[h].acc = j.acc
               /\ job'[h].copy = j.copy
      BY <1>2, <1>3, <2>1, <2>2, <2>4 DEF OwnerInv, CopiesOwn
    <2>. QED
      BY <1>5, <2>3, <2>4
  <1>10. DefaultIsOwn'
    BY <1>2, <1>3 DEF OwnerInv, DefaultIsOwn, TypeInv, TypeOK
  <1>11. CardsOnce'
    <2>1. /\ j.card \in cards
          /\ \A a \in Numbers : opened[a] # Nil => opened[a].card # j.card
          /\ \A g \in Handlers \ {h} : At(g, "addAccount")
               => job[g].card # j.card
      BY <1>1 DEF OwnerInv, CardsOnce, At
    <2>2. \A a \in Numbers : opened'[a] # Nil => opened'[a].card \in cards
      BY <1>3, <2>1 DEF OwnerInv, CardsOnce
    <2>3. \A a, b \in Numbers :
            /\ opened'[a] # Nil /\ opened'[b] # Nil
            /\ opened'[a].card = opened'[b].card
            => a = b
      BY <1>3, <2>1 DEF OwnerInv, CardsOnce
    <2>4. \A g \in Handlers : At(g, "addAccount")' =>
            g # h /\ job'[g] = job[g] /\ At(g, "addAccount")
      BY <1>4, <1>6 DEF At
    <2>5. \A g \in Handlers : At(g, "addAccount")' =>
            /\ job'[g].card \in cards
            /\ \A a \in Numbers : opened'[a] # Nil
                 => opened'[a].card # job'[g].card
      BY <1>3, <2>1, <2>4 DEF OwnerInv, CardsOnce
    <2>6. \A f \in Handlers, g \in Handlers :
            f # g /\ At(f, "addAccount")' /\ At(g, "addAccount")'
              => job'[g].card # job'[f].card
      BY <2>4 DEF OwnerInv, CardsOnce
    <2>. QED
      BY <1>2, <2>2, <2>3, <2>5, <2>6 DEF CardsOnce
  <1>. QED
    BY <1>7, <1>8, <1>9, <1>10, <1>11 DEF OwnerInv

\* All other steps of a handler open nothing.
LEMMA AdvanceOwner ==
    ASSUME TypeInv, TypeInv', OwnerInv, NEW h \in Handlers, Advance(h)
    PROVE  OwnerInv'
  <1>. DEFINE j == job[h]
  <1>0. /\ JobOK(j) /\ j \in Job /\ j.pc \in Steps /\ j.no \in Numbers
        /\ j.default \in Numbers \cup {Nil}
    BY StepType
  <1>1. accepted' = accepted /\ accepted' >= accepted
    BY NumberFacts DEF Advance, TypeInv, TypeOK
  <1>2. \A g \in Handlers \ {h} : job'[g] = job[g]
    BY OthersStay
  <1>3. ASSUME NEW step \in Steps \ Adding, Goto(h, step)
        PROVE  /\ job'[h].pc \notin Adding
               /\ job'[h].acc = j.acc
               /\ job'[h].copy = j.copy
               /\ job'[h].user = j.user
               /\ job'[h].default = j.default
    BY <1>0, <1>3 DEF Goto, TypeInv, TypeOK, Job
  <1>4. ASSUME End(h) PROVE job'[h] = Idle
    BY <1>4, EndType
  <1>5. CASE AddCard(h)
    BY <1>1, <1>5, AddCardOwner
  <1>6. CASE AddAccount(h)
    BY <1>1, <1>6, AddAccountOwner
  <1>7. CASE WriteUser(h)
    <2>1. Quiet(h)
      <3>1. \A u \in Members :
              \/ defaultAcc'[u] = defaultAcc[u]
              \/ u = j.user /\ defaultAcc'[u] = j.default
        BY <1>7 DEF WriteUser, WriteDefault, TypeInv, TypeOK
      <3>. QED
        BY <1>1, <1>2, <1>4, <1>7, <3>1 DEF WriteUser, Quiet, historyVars, Open
    <2>. QED
      BY <2>1, QuietKeeps
  <1>8. CASE Tries(h)
    <2>1. Quiet(h)
      <3>1. End(h) \/ \E step \in Steps \ Adding : Goto(h, step)
        BY <1>8, TriesSteps DEF Steps, Adding
      <3>2. UNCHANGED <<account, defaultAcc, cards, opened, chosen>>
        BY <1>8 DEF Tries, historyVars
      <3>. QED
        BY <1>1, <1>2, <1>3, <1>4, <3>1, <3>2 DEF Quiet, Open
    <2>. QED
      BY <2>1, QuietKeeps
  <1>9. CASE Lock(h)
    <2>1. Quiet(h)
      <3>1. \A u \in Members :
              \/ defaultAcc'[u] = defaultAcc[u]
              \/ u = j.user /\ defaultAcc'[u] = j.default
        BY <1>9 DEF Lock, WriteDefault, TypeInv, TypeOK
      <3>2. "mailLink" \in Steps \ Adding /\ Goto(h, "mailLink")
        BY <1>9 DEF Lock, Steps, Adding
      <3>3. UNCHANGED <<account, cards, opened, chosen>>
        BY <1>9 DEF Lock, historyVars
      <3>. QED
        BY <1>1, <1>2, <1>3, <3>1, <3>2, <3>3 DEF Quiet, Open
    <2>. QED
      BY <2>1, QuietKeeps
  <1>10. CASE MailLink(h)
    <2>1. Quiet(h)
      BY <1>1, <1>2, <1>4, <1>10 DEF MailLink, Quiet, historyVars, Open
    <2>. QED
      BY <2>1, QuietKeeps
  <1>11. CASE Count(h)
    <2>1. j.acc \in Numbers
      BY <1>0, <1>11 DEF Count, At, JobOK, Adding, OnAccount, Steps
    <2>2. \A a \in Numbers : account'[a] # Nil =>
            /\ Open(a)
            /\ account'[a].userId = account[a].userId
            /\ account'[a].card = account[a].card
      BY <1>11, <2>1 DEF Count, Open, TypeInv, TypeOK, Document
    <2>3. Quiet(h)
      BY <1>1, <1>2, <1>4, <1>11, <2>2 DEF Count, Quiet
    <2>. QED
      BY <2>3, QuietKeeps
  <1>12. CASE SavePIN(h) \/ SetPIN(h)
    <2>1. j.acc \in Numbers
      BY <1>0, <1>12 DEF SavePIN, SetPIN, At, JobOK, Adding, OnAccount, Steps
    <2>2. WritePIN(h) /\ End(h) /\ UNCHANGED <<cards, defaultAcc, opened, chosen>>
      BY <1>12 DEF SavePIN, SetPIN
    <2>3. \A a \in Numbers : account'[a] # Nil =>
            /\ Open(a)
            /\ account'[a].userId = account[a].userId
            /\ account'[a].card = account[a].card
      BY <2>1, <2>2 DEF WritePIN, Open, TypeInv, TypeOK, Document
    <2>4. Quiet(h)
      BY <1>1, <1>2, <1>4, <2>2, <2>3 DEF Quiet
    <2>. QED
      BY <2>4, QuietKeeps
  <1>13. CASE Remove(h)
    <2>1. j.acc \in Numbers
      BY <1>0, <1>13 DEF Remove, At, JobOK, Adding, OnAccount, Steps
    <2>2. \A a \in Numbers : account'[a] # Nil =>
            Open(a) /\ account'[a] = account[a]
      BY <1>13, <2>1 DEF Remove, Open, TypeInv, TypeOK
    <2>3. \/ job'[h] = Idle
          \/ /\ job'[h].pc = "writeUser"
             /\ job'[h].acc = j.acc
             /\ job'[h].copy = j.copy
             /\ job'[h].user = j.user
             /\ job'[h].default = Nil
      BY <1>0, <1>13 DEF Remove, End, TypeInv, TypeOK, Job
    <2>4. Quiet(h)
      BY <1>1, <1>2, <1>13, <2>2, <2>3
         DEF Remove, Quiet, Adding, historyVars
    <2>. QED
      BY <2>4, QuietKeeps
  <1>14. CASE PutBack(h)
    <2>1. j.acc \in Numbers /\ j.copy \in Document
      BY <1>0, <1>14 DEF PutBack, At, JobOK, Adding, OnAccount, Steps
    <2>2. Open(j.acc) => /\ j.copy.userId = account[j.acc].userId
                         /\ j.copy.card = account[j.acc].card
      <3>1. opened[j.acc] = [user |-> j.copy.userId, card |-> j.copy.card]
        BY <2>1, NumberFacts DEF OwnerInv, CopiesOwn
      <3>2. Open(j.acc) =>
              opened[j.acc] = [user |-> account[j.acc].userId,
                               card |-> account[j.acc].card]
        BY <2>1 DEF OwnerInv, HolderKept
      <3>3. Open(j.acc) =>
              /\ opened[j.acc].user = account[j.acc].userId
              /\ opened[j.acc].card = account[j.acc].card
        BY <3>2
      <3>. QED
        BY <3>1, <3>3
    <2>3. \A a \in Numbers : account'[a] # Nil =>
            /\ Open(a)
            /\ account'[a].userId = account[a].userId
            /\ account'[a].card = account[a].card
      BY <1>14, <2>1, <2>2 DEF PutBack, Open, TypeInv, TypeOK
    <2>4. Quiet(h)
      BY <1>1, <1>2, <1>4, <1>14, <2>3 DEF PutBack, Quiet
    <2>. QED
      BY <2>4, QuietKeeps
  <1>. QED
    BY <1>5, <1>6, <1>7, <1>8, <1>9, <1>10, <1>11, <1>12, <1>13, <1>14
       DEF Advance

\* Owners and cards are kept from the start.
LEMMA OwnerInductive ==
    /\ Init => OwnerInv
    /\ TypeInv /\ TypeInv' /\ OwnerInv /\ [Next]_vars => OwnerInv'
  <1>1. ASSUME Init PROVE OwnerInv
    <2>1. \A a \in Numbers : a # 0 => opened[a] = Nil /\ account[a] = Nil
      BY <1>1 DEF Init
    <2>2. /\ opened[0] = [user |-> Holder, card |-> FirstCard]
          /\ account[0] = [userId |-> Holder, card |-> FirstCard, PIN |-> 0,
                           wrongPIN |-> 0]
          /\ opened[0] # Nil
      BY <1>1, NumberFacts, AccountServiceAssumption DEF Init
    <2>3. \A h \in Handlers : job[h] = Idle
      BY <1>1 DEF Init
    <2>4. HolderKept
      BY <2>1, <2>2 DEF HolderKept, Open
    <2>5. NumberedOnce
      BY <1>1, <2>1, <2>3, NumberFacts DEF Init, NumberedOnce, At, Idle
    <2>6. CopiesOwn
      BY <2>3 DEF CopiesOwn, Idle
    <2>7. DefaultIsOwn
      BY <1>1, <2>2 DEF Init, DefaultIsOwn
    <2>8. CardsOnce
      BY <1>1, <2>1, <2>2, <2>3 DEF Init, CardsOnce, At, Idle
    <2>. QED
      BY <2>4, <2>5, <2>6, <2>7, <2>8 DEF OwnerInv
  <1>2. ASSUME TypeInv, TypeInv', OwnerInv, [Next]_vars PROVE OwnerInv'
    <2>1. ASSUME NEW h \in Handlers, Abort(h) PROVE OwnerInv'
      <3>1. Quiet(h)
        BY <1>2, <2>1, EndType, NumberFacts
           DEF Abort, Quiet, Open, TypeInv, TypeOK
      <3>. QED
        BY <1>2, <3>1, QuietKeeps
    <2>2. CASE Answer \/ UNCHANGED vars
      <3>1. PICK h \in Handlers : TRUE
        BY AccountServiceAssumption
      <3>2. /\ UNCHANGED <<cards, defaultAcc, job, opened, chosen>>
            /\ accepted' >= accepted
        BY <1>2, <2>2, AnswerEffect, NumberFacts
           DEF vars, serviceVars, historyVars, TypeInv, TypeOK
      <3>3. \A a \in Numbers : account'[a] # Nil =>
              /\ Open(a)
              /\ account'[a].userId = account[a].userId
              /\ account'[a].card = account[a].card
        <4>1. CASE UNCHANGED account
          BY <4>1 DEF Open
        <4>2. CASE \E a \in Numbers : /\ Open(a)
                     /\ account' = [account EXCEPT ![a].wrongPIN = 0]
          BY <1>2, <4>2 DEF Open, TypeInv, TypeOK, Document
        <4>. QED
          BY <1>2, <2>2, <4>1, <4>2, AnswerEffect DEF vars, serviceVars
      <3>4. Quiet(h)
        BY <3>2, <3>3 DEF Quiet
      <3>. QED
        BY <1>2, <3>4, QuietKeeps
    <2>3. CASE UpdateUser
      <3>1. /\ UNCHANGED <<account, cards, job, opened>>
            /\ accepted' >= accepted /\ chosen \subseteq chosen'
        BY <1>2, <2>3, UpdateUserEffect, NumberFacts DEF TypeInv, TypeOK
      <3>2. \A u \in Members \ chosen' : defaultAcc'[u] = defaultAcc[u]
        BY <1>2, <2>3, UpdateUserEffect DEF TypeInv, TypeOK
      <3>3. HolderKept' /\ CardsOnce'
        BY <1>2, <3>1 DEF OwnerInv, HolderKept, CardsOnce, Open, At
      <3>4. NumberedOnce'
        BY <1>2, <3>1, NumberFacts
           DEF OwnerInv, NumberedOnce, At, TypeInv, TypeOK, Job, Numbers
      <3>5. CopiesOwn'
        BY <1>2, <3>1 DEF OwnerInv, CopiesOwn
      <3>6. DefaultIsOwn'
        BY <1>2, <3>1, <3>2 DEF OwnerInv, DefaultIsOwn
      <3>. QED
        BY <3>3, <3>4, <3>5, <3>6 DEF OwnerInv
    <2>. QED
      BY <1>2, <2>1, <2>2, <2>3, SubmitOwner, AdvanceOwner DEF Next, Rest
  <1>. QED
    BY <1>1, <1>2

\* A card number that is looked up before it is stored never gets two
\* accounts, whatever requests are served at the same time and wherever they
\* are cut off.
THEOREM CardsAreApart == Spec => []CardsApart
  <1>1. TypeInv /\ OwnerInv => CardsApart
    <2>. SUFFICES ASSUME TypeInv, OwnerInv, NEW a \in Numbers, NEW b \in Numbers,
                         Open(a), Open(b), account[a].card = account[b].card
                  PROVE  a = b
      BY DEF CardsApart
    <2>1. /\ opened[a] = [user |-> account[a].userId, card |-> account[a].card]
          /\ opened[b] = [user |-> account[b].userId, card |-> account[b].card]
      BY DEF OwnerInv, HolderKept
    <2>2. opened[a] # Nil /\ opened[b] # Nil
      BY <2>1, NumberFacts DEF Open, TypeInv, TypeOK, Document
    <2>. QED
      BY <2>1, <2>2 DEF OwnerInv, CardsOnce
  <1>. QED
    BY <1>1, TypeInductive, OwnerInductive, PTL DEF Spec

\* No copy of a user that is written back, by whichever request, ever names an
\* account that another member has opened, unless the user has put it in.
THEOREM DefaultsAreOwn == Spec => []DefaultIsOwn
  <1>1. OwnerInv => DefaultIsOwn
    BY DEF OwnerInv
  <1>. QED
    BY <1>1, TypeInductive, OwnerInductive, PTL DEF Spec

-----------------------------------------------------------------------------
(* PINs                                                                    *)

\* Numbers that no account has yet have no wrong PIN counted.
PINInv ==
    /\ PINAndTriesKept
    /\ \A a \in Numbers : opened[a] = Nil => wrongs[a] = 0

\* Every step of a handler changes the PIN and the tries of a document with
\* what is written down of them, or makes the document a stale one.
LEMMA AdvancePIN ==
    ASSUME TypeInv, OwnerInv, PINInv, NEW h \in Handlers, Advance(h)
    PROVE  PINInv'
  <1>. DEFINE j == job[h]
  <1>0. /\ JobOK(j) /\ j \in Job /\ j.pc \in Steps /\ j.no \in Numbers
    BY StepType
  <1>1. \A a \in Numbers : Open(a) => opened[a] # Nil
    BY NumberFacts DEF OwnerInv, HolderKept, TypeInv, TypeOK, Open, Document
  <1>2. CASE UNCHANGED <<account, opened, lastPIN, wrongs, stale>>
    BY <1>2 DEF PINInv, PINAndTriesKept, Open
  <1>3. CASE AddAccount(h)
    <2>1. opened[j.no] = Nil
      BY <1>3 DEF AddAccount, OwnerInv, NumberedOnce
    <2>2. wrongs[j.no] = 0 /\ wrongs' = wrongs /\ stale' = stale
      BY <1>0, <1>3, <2>1 DEF AddAccount, PINInv
    <2>3. \A a \in Numbers \ {j.no} :
            /\ account'[a] = account[a]
            /\ opened'[a] = opened[a]
            /\ lastPIN'[a] = lastPIN[a]
      BY <1>3 DEF AddAccount, TypeInv, TypeOK
    <2>4. account'[j.no].PIN = j.no /\ account'[j.no].wrongPIN = 0
          /\ lastPIN'[j.no] = j.no
      BY <1>0, <1>3 DEF AddAccount, TypeInv, TypeOK
    <2>. QED
      BY <2>2, <2>3, <2>4 DEF PINInv, PINAndTriesKept, Open
  <1>4. CASE Count(h)
    <2>1. j.acc \in Numbers
      BY <1>0, <1>4 DEF Count, At, JobOK, Adding, OnAccount, Steps
    <2>2. CASE Open(j.acc)
      BY <1>1, <1>4, <2>1, <2>2
         DEF Count, PINInv, PINAndTriesKept, Open, TypeInv, TypeOK, Document
    <2>3. CASE ~ Open(j.acc)
      BY <1>2, <1>4, <2>3 DEF Count
    <2>. QED
      BY <2>2, <2>3
  <1>5. CASE SavePIN(h) \/ SetPIN(h)
    <2>1. j.acc \in Numbers
      BY <1>0, <1>5 DEF SavePIN, SetPIN, At, JobOK, Adding, OnAccount, Steps
    <2>2. WritePIN(h) /\ UNCHANGED <<opened, wrongs, stale>>
      BY <1>5 DEF SavePIN, SetPIN
    <2>. QED
      BY <1>0, <2>1, <2>2
         DEF WritePIN, PINInv, PINAndTriesKept, Open, TypeInv, TypeOK, Document
  <1>6. CASE Remove(h)
    <2>1. \A a \in Numbers : account'[a] # Nil =>
            Open(a) /\ account'[a] = account[a]
      BY <1>6 DEF Remove, Open, TypeInv, TypeOK
    <2>. QED
      BY <1>6, <2>1 DEF Remove, PINInv, PINAndTriesKept, Open, historyVars
  <1>7. CASE PutBack(h)
    <2>1. j.acc \in Numbers
      BY <1>0, <1>7 DEF PutBack, At, JobOK, Adding, OnAccount, Steps
    <2>2. \A a \in Numbers \ stale' : account'[a] = account[a] /\ a \notin stale
      BY <1>7, <2>1 DEF PutBack, TypeInv, TypeOK
    <2>. QED
      BY <1>7, <2>2 DEF PutBack, PINInv, PINAndTriesKept, Open
  <1>. QED
    BY <1>2, <1>3, <1>4, <1>5, <1>6, <1>7
       DEF Advance, AddCard, WriteUser, Tries, Lock, MailLink, historyVars

\* A PIN that is changed and a try that is counted or reset are never undone,
\* but by a payment or a refund that puts an older document back.
THEOREM PINsAndTriesAreKept == Spec => []PINAndTriesKept
  <1>1. Init => PINInv
    BY NumberFacts DEF Init, PINInv, PINAndTriesKept, Open
  <1>2. TypeInv /\ OwnerInv /\ PINInv /\ [Next]_vars => PINInv'
    <2>. SUFFICES ASSUME TypeInv, OwnerInv, PINInv, [Next]_vars PROVE PINInv'
      OBVIOUS
    <2>1. ASSUME UNCHANGED <<account, opened, lastPIN, wrongs, stale>>
          PROVE  PINInv'
      BY <2>1 DEF PINInv, PINAndTriesKept, Open
    <2>2. ASSUME NEW h \in Handlers, Submit(h) PROVE PINInv'
      BY <2>1, <2>2, SubmitFresh DEF historyVars
    <2>3. ASSUME NEW h \in Handlers, Abort(h) PROVE PINInv'
      BY <2>1, <2>3 DEF Abort
    <2>4. CASE Answer
      <3>1. CASE UNCHANGED <<account, wrongs>>
        BY <2>1, <2>4, <3>1, AnswerEffect
      <3>2. CASE \E a \in Numbers :
                   /\ Open(a)
                   /\ account' = [account EXCEPT ![a].wrongPIN = 0]
                   /\ wrongs' = [wrongs EXCEPT ![a] = 0]
        <4>1. PICK a \in Numbers :
                /\ Open(a)
                /\ account' = [account EXCEPT ![a].wrongPIN = 0]
                /\ wrongs' = [wrongs EXCEPT ![a] = 0]
          BY <3>2
        <4>2. /\ account'[a].PIN = account[a].PIN
              /\ account'[a].wrongPIN = 0
              /\ wrongs'[a] = 0
          BY <4>1 DEF Open, TypeInv, TypeOK, Document
        <4>3. \A b \in Numbers \ {a} :
                account'[b] = account[b] /\ wrongs'[b] = wrongs[b]
          BY <4>1 DEF TypeInv, TypeOK
        <4>4. UNCHANGED <<opened, lastPIN, stale>>
          BY <2>4, AnswerEffect
        <4>. QED
          BY <4>1, <4>2, <4>3, <4>4 DEF PINInv, PINAndTriesKept, Open
      <3>. QED
        BY <2>4, <3>1, <3>2, AnswerEffect
    <2>5. CASE UNCHANGED vars
      BY <2>1, <2>5 DEF vars, serviceVars, historyVars
    <2>6. CASE UpdateUser
      BY <2>1, <2>6 DEF UpdateUser
    <2>. QED
      BY <2>2, <2>3, <2>4, <2>5, <2>6, AdvancePIN DEF Next, Rest
  <1>3. PINInv => PINAndTriesKept
    BY DEF PINInv
  <1>. QED
    BY <1>1, <1>2, <1>3, TypeInductive, OwnerInductive, PTL DEF Spec

-----------------------------------------------------------------------------
(* Deleted accounts                                                        *)

\* No step of a handler opens an account that was open once: the only one that
\* opens any has a number that none has had.
LEMMA AdvanceDeleted ==
    ASSUME TypeInv, OwnerInv, NEW h \in Handlers, Advance(h),
           NEW a \in Numbers, opened[a] # Nil, ~ Open(a)
    PROVE  account'[a] = Nil
  <1>1. account[a] = Nil
    BY DEF Open
  <1>2. CASE AddAccount(h)
    <2>1. job[h].no \in Numbers /\ opened[job[h].no] = Nil
      BY <1>2 DEF AddAccount, OwnerInv, NumberedOnce, TypeInv, TypeOK, Job
    <2>2. job[h].no # a
      BY <2>1
    <2>. QED
      BY <1>1, <1>2, <2>1, <2>2 DEF AddAccount, TypeInv, TypeOK
  <1>3. CASE Count(h)
    BY <1>1, <1>3 DEF Count, Open, TypeInv, TypeOK
  <1>4. CASE SavePIN(h) \/ SetPIN(h)
    BY <1>1, <1>4 DEF SavePIN, SetPIN, WritePIN, Open, TypeInv, TypeOK
  <1>5. CASE Remove(h)
    BY <1>1, <1>5 DEF Remove, TypeInv, TypeOK
  <1>6. CASE PutBack(h)
    BY <1>1, <1>6 DEF PutBack, Open, TypeInv, TypeOK
  <1>7. CASE UNCHANGED account
    BY <1>1, <1>7
  <1>. QED
    BY <1>2, <1>3, <1>4, <1>5, <1>6, <1>7
       DEF Advance, AddCard, WriteUser, Tries, Lock, MailLink

\* A deleted account stays deleted, whichever requests still hold a copy of it.
THEOREM DeletedAccountsStay == Spec => DeletedStays
  <1>1. ASSUME TypeInv, OwnerInv, [Next]_vars,
               NEW a \in Numbers, opened[a] # Nil, ~ Open(a)
        PROVE  account'[a] = Nil
    <2>1. CASE UNCHANGED account
      BY <1>1, <2>1 DEF Open
    <2>2. CASE Answer
      BY <1>1, <2>2, AnswerEffect DEF Open, TypeInv, TypeOK
    <2>3. ASSUME NEW h \in Handlers, Advance(h) PROVE account'[a] = Nil
      BY <1>1, <2>3, AdvanceDeleted
    <2>. QED
      BY <1>1, <2>1, <2>2, <2>3
         DEF Next, Submit, Abort, UpdateUser, Rest, vars, serviceVars
  <1>2. TypeInv /\ OwnerInv /\ [Next]_vars =>
          [\A a \in Numbers :
             opened[a] # Nil /\ ~ Open(a) => account'[a] = Nil]_vars
    BY <1>1
  <1>. QED
    BY <1>2, TypeInductive, OwnerInductive, PTL DEF Spec, DeletedStays

-----------------------------------------------------------------------------
(* Default accounts and half-done additions                                *)

\* No step takes a default account away: what is undefined is not sent.
LEMMA DefaultsGrow ==
    ASSUME TypeInv, [Next]_vars, NEW u \in Members, defaultAcc[u] # Nil
    PROVE  defaultAcc'[u] # Nil
  <1>1. ASSUME NEW h \in Handlers, Submit(h) PROVE defaultAcc' = defaultAcc
    BY <1>1 DEF Submit
  <1>2. ASSUME NEW h \in Handlers, Abort(h) PROVE defaultAcc' = defaultAcc
    BY <1>2 DEF Abort
  <1>3. ASSUME NEW h \in Handlers, Advance(h) PROVE defaultAcc'[u] # Nil
    <2>1. CASE WriteUser(h) \/ Lock(h)
      BY <2>1 DEF WriteUser, Lock, WriteDefault, TypeInv, TypeOK
    <2>2. CASE ~ (WriteUser(h) \/ Lock(h))
      BY <1>3, <2>2 DEF Advance, AddCard, AddAccount, Tries, MailLink, Count,
                        SavePIN, SetPIN, Remove, PutBack
    <2>. QED
      BY <2>1, <2>2
  <1>4. ASSUME UpdateUser PROVE defaultAcc'[u] # Nil
    BY <1>4, UpdateUserEffect, NumberFacts DEF TypeInv, TypeOK
  <1>. QED
    BY <1>1, <1>2, <1>3, <1>4 DEF Next, Answer, Rest, vars, serviceVars

\* A request whose copy names a default account, or that writes the user for
\* another reason than a new account, is one of a member who has a default one.
WaitOK(j, defaults) ==
    /\ j.pc \notin {"idle", "writeUser"} /\ j.default # Nil
         => defaults[j.user] # Nil
    /\ j.pc = "writeUser" /\ j.default = Nil => defaults[j.user] # Nil
    /\ j.pc = "writeUser" /\ j.op # "add" => defaults[j.user] # Nil

WholeInv ==
    /\ AddIsWhole
    /\ \A h \in Handlers : WaitOK(job[h], defaultAcc)

\* Of an account that has been opened it stays known by whom.
LEMMA OpenedStays ==
    ASSUME TypeInv, OwnerInv, [Next]_vars, NEW a \in Numbers, opened[a] # Nil
    PROVE  opened'[a] = opened[a]
  <1>1. ASSUME NEW h \in Handlers, AddAccount(h) PROVE opened'[a] = opened[a]
    BY <1>1 DEF AddAccount, OwnerInv, NumberedOnce, TypeInv, TypeOK
  <1>2. ASSUME NEW h \in Handlers, Advance(h), ~ AddAccount(h)
        PROVE  opened' = opened
    BY <1>2 DEF Advance, AddCard, WriteUser, Tries, Lock, MailLink, Count,
                SavePIN, SetPIN, Remove, PutBack, historyVars
  <1>. QED
    BY <1>1, <1>2
       DEF Next, Submit, Abort, Answer, UpdateUser, Rest, vars, historyVars

\* The demands on a handler that is not served now are still met.
LEMMA WaitStays ==
    ASSUME TypeInv, [Next]_vars, NEW g \in Handlers, WaitOK(job[g], defaultAcc),
           job'[g] = job[g]
    PROVE  WaitOK(job'[g], defaultAcc')
  <1>1. job[g].pc # "idle" => job[g].user \in Members
    BY DEF TypeInv, JobOK
  <1>. QED
    BY <1>1, DefaultsGrow DEF WaitOK

\* What keeps additions whole: a step that opens no account and stores no card,
\* and leaves a default account to the member whose document it writes.
LEMMA WholeKept ==
    ASSUME TypeInv, OwnerInv, WholeInv, [Next]_vars, NEW h \in Handlers,
           UNCHANGED <<cards, cut>>,
           \A g \in Handlers \ {h} : job'[g] = job[g],
           ~ At(h, "addAccount"),
           \A a \in Numbers : account'[a] # Nil =>
             Open(a) /\ account'[a].userId = account[a].userId,
           At(h, "writeUser") => defaultAcc'[job[h].user] # Nil,
           WaitOK(job'[h], defaultAcc')
    PROVE  WholeInv'
  <1>1. \A c \in cards \ cut :
          \/ \E a \in Numbers : opened'[a] # Nil /\ opened'[a].card = c
          \/ \E g \in Handlers : At(g, "addAccount")' /\ job'[g].card = c
    BY OpenedStays DEF WholeInv, AddIsWhole, At
  <1>2. ASSUME NEW a \in Numbers, account'[a] # Nil
        PROVE  LET u == account'[a].userId
               IN  \/ defaultAcc'[u] # Nil
                   \/ u \in cut
                   \/ \E g \in Handlers : At(g, "writeUser")' /\ job'[g].user = u
    <2>1. Open(a) /\ account'[a].userId = account[a].userId
      BY <1>2
    <2>2. account[a].userId \in Members
      BY <2>1 DEF TypeInv, TypeOK, Open, Document
    <2>3. CASE defaultAcc[account[a].userId] # Nil
      BY <2>1, <2>2, <2>3, DefaultsGrow
    <2>4. CASE account[a].userId \in cut
      BY <2>1, <2>4
    <2>5. CASE \E g \in Handlers :
                 At(g, "writeUser") /\ job[g].user = account[a].userId
      BY <2>1, <2>5 DEF At
    <2>. QED
      BY <2>1, <2>3, <2>4, <2>5 DEF WholeInv, AddIsWhole
  <1>3. AddIsWhole'
    BY <1>1, <1>2 DEF AddIsWhole, Open
  <1>4. \A g \in Handlers : WaitOK(job'[g], defaultAcc')
    BY WaitStays DEF WholeInv
  <1>. QED
    BY <1>3, <1>4 DEF WholeInv

\* A step that only moves on is one of them.
LEMMA MovedOn ==
    ASSUME TypeInv, WholeInv, [Next]_vars, NEW h \in Handlers,
           \/ End(h)
           \/ /\ \E step \in Steps \ {"idle", "writeUser"} : Goto(h, step)
              /\ job[h].pc \notin {"idle", "writeUser"}
    PROVE  WaitOK(job'[h], defaultAcc')
  <1>1. CASE End(h)
    BY <1>1, EndType DEF WaitOK, Idle
  <1>2. CASE /\ \E step \in Steps \ {"idle", "writeUser"} : Goto(h, step)
             /\ job[h].pc \notin {"idle", "writeUser"}
    <2>1. /\ job'[h].pc \notin {"idle", "writeUser"}
          /\ job'[h].default = job[h].default
          /\ job'[h].user = job[h].user
      BY <1>2 DEF Goto, TypeInv, TypeOK, Job
    <2>2. job[h].default # Nil => defaultAcc[job[h].user] # Nil
      BY <1>2 DEF WholeInv, WaitOK
    <2>3. job[h].user \in Members
      BY <1>2 DEF TypeInv, JobOK
    <2>. QED
      BY <2>1, <2>2, <2>3, DefaultsGrow DEF WaitOK
  <1>. QED
    BY <1>1, <1>2

\* A card that is stored is the one its request will open an account with.
LEMMA AddCardWhole ==
    ASSUME TypeInv, OwnerInv, WholeInv, [Next]_vars, NEW h \in Handlers,
           Advance(h), AddCard(h)
    PROVE  WholeInv'
  <1>1. \A g \in Handlers \ {h} : job'[g] = job[g]
    BY OthersStay
  <1>2. /\ job[h].pc = "addCard"
        /\ End(h) \/ Goto(h, "addAccount")
        /\ UNCHANGED <<account, defaultAcc, opened, cut>>
    BY DEF AddCard, At, historyVars
  <1>3. WaitOK(job'[h], defaultAcc')
    BY <1>2, MovedOn DEF Steps
  <1>4. CASE job[h].card \in cards
    <2>1. cards' = cards
      BY <1>4 DEF AddCard
    <2>. QED
      BY <1>1, <1>2, <1>3, <2>1, WholeKept DEF At, Open
  <1>5. CASE job[h].card \notin cards
    <2>1. cards' = cards \cup {job[h].card}
      BY <1>5 DEF AddCard
    <2>2. job'[h].pc = "addAccount" /\ job'[h].card = job[h].card
      BY <1>5 DEF AddCard, Goto, TypeInv, TypeOK, Job
    <2>3. \A c \in cards' \ cut' :
            \/ \E a \in Numbers : opened'[a] # Nil /\ opened'[a].card = c
            \/ \E g \in Handlers : At(g, "addAccount")' /\ job'[g].card = c
      <3>1. ASSUME NEW c \in cards \ cut
            PROVE  \/ \E a \in Numbers : opened'[a] # Nil /\ opened'[a].card = c
                   \/ \E g \in Handlers : At(g, "addAccount")' /\ job'[g].card = c
        <4>1. CASE \E a \in Numbers : opened[a] # Nil /\ opened[a].card = c
          BY <1>2, <4>1
        <4>2. CASE \E g \in Handlers : At(g, "addAccount") /\ job[g].card = c
          BY <1>1, <1>2, <4>2 DEF At
        <4>. QED
          BY <3>1, <4>1, <4>2 DEF WholeInv, AddIsWhole
      <3>. QED
        BY <1>2, <2>1, <2>2, <3>1 DEF At
    <2>4. \A a \in Numbers : account'[a] # Nil =>
            LET u == account'[a].userId
            IN  \/ defaultAcc'[u] # Nil
                \/ u \in cut'
                \/ \E g \in Handlers : At(g, "writeUser")' /\ job'[g].user = u
      <3>1. \A g \in Handlers : At(g, "writeUser") => job'[g] = job[g]
        BY <1>1, <1>2 DEF At
      <3>. QED
        BY <1>2, <3>1 DEF WholeInv, AddIsWhole, At, Open
    <2>5. AddIsWhole'
      BY <2>3, <2>4 DEF AddIsWhole, Open
    <2>6. \A g \in Handlers : WaitOK(job'[g], defaultAcc')
      BY <1>1, <1>3, WaitStays DEF WholeInv
    <2>. QED
      BY <2>5, <2>6 DEF WholeInv
  <1>. QED
    BY <1>4, <1>5

\* An account that is opened has its card, and a holder who has a default
\* account or is about to get one.
LEMMA AddAccountWhole ==
    ASSUME TypeInv, OwnerInv, WholeInv, [Next]_vars, NEW h \in Handlers,
           Advance(h), AddAccount(h)
    PROVE  WholeInv'
  <1>. DEFINE j == job[h]
  <1>1. \A g \in Handlers \ {h} : job'[g] = job[g]
    BY OthersStay
  <1>2. /\ j \in Job /\ j.pc = "addAccount" /\ j.no \in Numbers
        /\ j.user \in Members /\ j.card \in Cards /\ j.op = "add"
    BY StepType DEF AddAccount, At, JobOK, Adding
  <1>3. /\ UNCHANGED <<cards, defaultAcc, cut>>
        /\ opened'[j.no] = [user |-> j.user, card |-> j.card]
        /\ opened'[j.no] # Nil
        /\ account'[j.no].userId = j.user
        /\ \A a \in Numbers \ {j.no} : account'[a] = account[a]
    BY <1>2, NumberFacts DEF AddAccount, TypeInv, TypeOK
  <1>4. \/ j.default # Nil /\ job'[h] = Idle
        \/ /\ j.default = Nil
           /\ job'[h].pc = "writeUser"
           /\ job'[h].op = "add"
           /\ job'[h].default # Nil
           /\ job'[h].user = j.user
    BY <1>2, NumberFacts DEF AddAccount, End, TypeInv, TypeOK, Job
  <1>5. j.default # Nil => defaultAcc[j.user] # Nil
    BY <1>2 DEF WholeInv, WaitOK
  <1>6. WaitOK(job'[h], defaultAcc')
    BY <1>4 DEF WaitOK, Idle
  <1>7. ASSUME NEW c \in cards \ cut
        PROVE  \/ \E a \in Numbers : opened'[a] # Nil /\ opened'[a].card = c
               \/ \E g \in Handlers : At(g, "addAccount")' /\ job'[g].card = c
    <2>1. CASE \E a \in Numbers : opened[a] # Nil /\ opened[a].card = c
      BY <2>1, OpenedStays
    <2>2. CASE \E g \in Handlers \ {h} : At(g, "addAccount") /\ job[g].card = c
      BY <1>1, <2>2 DEF At
    <2>3. CASE j.card = c
      BY <1>2, <1>3, <2>3
    <2>. QED
      BY <1>7, <2>1, <2>2, <2>3 DEF WholeInv, AddIsWhole
  <1>8. ASSUME NEW a \in Numbers, account'[a] # Nil
        PROVE  LET u == account'[a].userId
               IN  \/ defaultAcc'[u] # Nil
                   \/ u \in cut
                   \/ \E g \in Handlers : At(g, "writeUser")' /\ job'[g].user = u
    <2>1. CASE a = j.no
      BY <1>3, <1>4, <1>5, <2>1 DEF At
    <2>2. CASE a # j.no
      <3>1. \A g \in Handlers : At(g, "writeUser") => job'[g] = job[g]
        BY <1>1, <1>2 DEF At
      <3>. QED
        BY <1>3, <1>8, <2>2, <3>1 DEF WholeInv, AddIsWhole, At, Open
    <2>. QED
      BY <2>1, <2>2
  <1>9. AddIsWhole'
    BY <1>3, <1>7, <1>8 DEF AddIsWhole, Open
  <1>10. \A g \in Handlers : WaitOK(job'[g], defaultAcc')
    BY <1>1, <1>6, WaitStays DEF WholeInv
  <1>. QED
    BY <1>9, <1>10 DEF WholeInv

\* All other steps of a handler open nothing and take no default account away.
LEMMA AdvanceWhole ==
    ASSUME TypeInv, TypeInv', OwnerInv, WholeInv, [Next]_vars,
           NEW h \in Handlers, Advance(h)
    PROVE  WholeInv'
  <1>. DEFINE j == job[h]
  <1>0. /\ JobOK(j) /\ j \in Job /\ j.pc \in Steps
    BY StepType
  <1>1. \A g \in Handlers \ {h} : job'[g] = job[g]
    BY OthersStay
  <1>2. CASE AddCard(h)
    BY <1>2, AddCardWhole
  <1>3. CASE AddAccount(h)
    BY <1>3, AddAccountWhole
  <1>4. CASE WriteUser(h)
    <2>1. /\ j.pc = "writeUser" /\ j.user \in Members
          /\ UNCHANGED <<account, cards, cut>>
      BY <1>0, <1>4 DEF WriteUser, At, JobOK, historyVars
    <2>2. defaultAcc'[j.user] # Nil
      BY <1>4, <2>1
         DEF WriteUser, WriteDefault, WholeInv, WaitOK, TypeInv, TypeOK
    <2>3. WaitOK(job'[h], defaultAcc')
      BY <1>4, MovedOn DEF WriteUser
    <2>. QED
      BY <1>1, <2>1, <2>2, <2>3, WholeKept DEF At, Open
  <1>5. CASE Remove(h)
    <2>1. /\ j.pc = "remove" /\ j.acc \in Numbers /\ j.user \in Members
          /\ UNCHANGED <<defaultAcc, cards, cut>>
      BY <1>0, <1>5 DEF Remove, At, JobOK, Adding, OnAccount, Steps, historyVars
    <2>2. \A a \in Numbers : account'[a] # Nil =>
            Open(a) /\ account'[a] = account[a]
      BY <1>5, <2>1 DEF Remove, Open, TypeInv, TypeOK
    <2>3. WaitOK(job'[h], defaultAcc')
      <3>1. CASE End(h)
        BY <3>1, MovedOn
      <3>2. CASE ~ End(h)
        <4>1. j.default = j.acc /\ job'[h].user = j.user
          BY <1>0, <1>5, <3>2 DEF Remove, TypeInv, TypeOK, Job
        <4>2. defaultAcc[j.user] # Nil
          BY <2>1, <4>1, NumberFacts DEF WholeInv, WaitOK
        <4>. QED
          BY <2>1, <4>1, <4>2 DEF WaitOK
      <3>. QED
        BY <3>1, <3>2
    <2>. QED
      BY <1>1, <2>1, <2>2, <2>3, WholeKept DEF At
  <1>6. CASE \/ Tries(h) \/ Lock(h) \/ MailLink(h) \/ Count(h)
             \/ SavePIN(h) \/ SetPIN(h) \/ PutBack(h)
    <2>1. /\ j.pc \notin {"idle", "writeUser", "addAccount"}
          /\ UNCHANGED <<cards, cut>>
      BY <1>6 DEF Tries, Lock, MailLink, Count, SavePIN, SetPIN, PutBack, At,
                  historyVars
    <2>2. End(h) \/ \E step \in Steps \ {"idle", "writeUser"} : Goto(h, step)
      BY <1>6, TriesSteps
         DEF Lock, MailLink, Count, SavePIN, SetPIN, PutBack, Steps
    <2>3. WaitOK(job'[h], defaultAcc')
      BY <2>1, <2>2, MovedOn
    <2>4. \A a \in Numbers : account'[a] # Nil =>
            Open(a) /\ account'[a].userId = account[a].userId
      <3>1. OwnerInv'
        BY AdvanceOwner
      <3>2. \A a \in Numbers : account'[a] # Nil => Open(a)
        BY <1>0, <1>6
           DEF Tries, Lock, MailLink, Count, SavePIN, SetPIN, PutBack,
               WritePIN, Open, TypeInv, TypeOK, historyVars, At, JobOK,
               OnAccount, Adding, Steps
      <3>3. \A a \in Numbers : account'[a] # Nil =>
              /\ opened'[a] = [user |-> account'[a].userId,
                               card |-> account'[a].card]
              /\ opened[a] = [user |-> account[a].userId,
                              card |-> account[a].card]
        BY <3>1, <3>2 DEF OwnerInv, HolderKept, Open
      <3>4. opened' = opened
        BY <1>6 DEF Tries, Lock, MailLink, Count, SavePIN, SetPIN, PutBack,
                    historyVars
      <3>5. \A a \in Numbers : account'[a] # Nil =>
              /\ opened[a].user = account'[a].userId
              /\ opened[a].user = account[a].userId
        <4>. SUFFICES ASSUME NEW a \in Numbers, account'[a] # Nil
                      PROVE  /\ opened[a].user = account'[a].userId
                             /\ opened[a].user = account[a].userId
          OBVIOUS
        <4>1. opened[a] = [user |-> account'[a].userId,
                           card |-> account'[a].card]
          BY <3>3, <3>4
        <4>2. opened[a] = [user |-> account[a].userId,
                           card |-> account[a].card]
          BY <3>3
        <4>3. opened[a].user = account'[a].userId
          BY <4>1
        <4>4. opened[a].user = account[a].userId
          BY <4>2
        <4>. QED
          BY <4>3, <4>4
      <3>. QED
        BY <3>2, <3>5
    <2>. QED
      BY <1>1, <2>1, <2>3, <2>4, WholeKept DEF At
  <1>. QED
    BY <1>2, <1>3, <1>4, <1>5, <1>6 DEF Advance

\* A request that is cut off leaves word of what it has half done.
LEMMA AbortWhole ==
    ASSUME TypeInv, OwnerInv, WholeInv, [Next]_vars, NEW h \in Handlers,
           Abort(h)
    PROVE  WholeInv'
  <1>. DEFINE j == job[h]
  <1>1. job'[h] = Idle /\ \A g \in Handlers \ {h} : job'[g] = job[g]
    BY EndType DEF Abort
  <1>2. /\ UNCHANGED <<account, cards, defaultAcc, opened>>
        /\ cut \subseteq cut'
        /\ j.pc = "addAccount" => j.card \in cut'
        /\ j.pc = "writeUser" /\ j.op = "add" => j.user \in cut'
    BY DEF Abort, At
  <1>3. ASSUME NEW c \in cards \ cut'
        PROVE  \/ \E a \in Numbers : opened[a] # Nil /\ opened[a].card = c
               \/ \E g \in Handlers : At(g, "addAccount")' /\ job'[g].card = c
    <2>1. CASE \E a \in Numbers : opened[a] # Nil /\ opened[a].card = c
      BY <2>1
    <2>2. CASE \E g \in Handlers : At(g, "addAccount") /\ job[g].card = c
      BY <1>1, <1>2, <1>3, <2>2 DEF At
    <2>. QED
      BY <1>2, <1>3, <2>1, <2>2 DEF WholeInv, AddIsWhole
  <1>4. ASSUME NEW a \in Numbers, account[a] # Nil
        PROVE  LET u == account[a].userId
               IN  \/ defaultAcc[u] # Nil
                   \/ u \in cut'
                   \/ \E g \in Handlers : At(g, "writeUser")' /\ job'[g].user = u
    <2>. DEFINE u == account[a].userId
    <2>1. CASE defaultAcc[u] # Nil \/ u \in cut
      BY <1>2, <2>1
    <2>2. CASE \E g \in Handlers : At(g, "writeUser") /\ job[g].user = u
      <3>1. PICK g \in Handlers : At(g, "writeUser") /\ job[g].user = u
        BY <2>2
      <3>2. CASE g = h
        BY <1>2, <3>1, <3>2 DEF At, WholeInv, WaitOK
      <3>3. CASE g # h
        BY <1>1, <3>1, <3>3 DEF At
      <3>. QED
        BY <3>2, <3>3
    <2>. QED
      BY <1>4, <2>1, <2>2 DEF WholeInv, AddIsWhole, Open
  <1>5. AddIsWhole'
    BY <1>2, <1>3, <1>4 DEF AddIsWhole, Open
  <1>6. \A g \in Handlers : WaitOK(job'[g], defaultAcc')
    BY <1>1, WaitStays DEF WholeInv, WaitOK, Idle
  <1>. QED
    BY <1>5, <1>6 DEF WholeInv

\* Wherever requests are interleaved, a card that is stored and a holder
\* without a default account are only left behind by a request that was cut
\* off in the middle.
THEOREM AddingIsWhole == Spec => []AddIsWhole
  <1>1. Init => WholeInv
    <2>. SUFFICES ASSUME Init PROVE WholeInv
      OBVIOUS
    <2>1. /\ opened[0] # Nil /\ opened[0].card = FirstCard
          /\ cards = {FirstCard}
      BY NumberFacts, AccountServiceAssumption DEF Init
    <2>2. \A a \in Numbers : Open(a) => defaultAcc[account[a].userId] # Nil
      BY NumberFacts, AccountServiceAssumption DEF Init, Open
    <2>3. \A h \in Handlers : WaitOK(job[h], defaultAcc)
      BY DEF Init, WaitOK, Idle
    <2>. QED
      BY <2>1, <2>2, <2>3, NumberFacts DEF WholeInv, AddIsWhole
  <1>2. TypeInv /\ TypeInv' /\ OwnerInv /\ WholeInv /\ [Next]_vars => WholeInv'
    <2>. SUFFICES ASSUME TypeInv, TypeInv', OwnerInv, WholeInv, [Next]_vars
                  PROVE  WholeInv'
      OBVIOUS
    <2>1. ASSUME NEW h \in Handlers, Submit(h) PROVE WholeInv'
      <3>1. PICK j : Fresh(h, j) /\ job' = [job EXCEPT ![h] = j]
        BY <2>1, SubmitFresh
      <3>2. UNCHANGED <<account, cards, cut, defaultAcc>>
        BY <2>1, SubmitFresh DEF historyVars
      <3>3. job'[h] = j /\ \A g \in Handlers \ {h} : job'[g] = job[g]
        BY <3>1, OneHandler DEF Fresh
      <3>4. WaitOK(j, defaultAcc)
        BY <3>1 DEF Fresh, WaitOK
      <3>5. job[h].pc = "idle"
        BY <3>1 DEF Fresh
      <3>. QED
        BY <3>2, <3>3, <3>4, <3>5, WholeKept DEF At, Open
    <2>2. CASE Answer
      <3>1. UNCHANGED <<cards, defaultAcc, job, opened, cut>>
        BY <2>2, AnswerEffect
      <3>2. \A a \in Numbers : account'[a] # Nil =>
              Open(a) /\ account'[a].userId = account[a].userId
        BY <2>2, AnswerEffect DEF Open, TypeInv, TypeOK, Document
      <3>. QED
        BY <3>1, <3>2 DEF WholeInv, AddIsWhole, At, Open
    <2>3. CASE UNCHANGED vars
      BY <2>3 DEF vars, serviceVars, historyVars, WholeInv, AddIsWhole, At, Open
    <2>4. CASE UpdateUser
      <3>1. UNCHANGED <<account, cards, job, opened, cut>>
        BY <2>4, UpdateUserEffect
      <3>2. \A h \in Handlers : WaitOK(job'[h], defaultAcc')
        BY <3>1, WaitStays DEF WholeInv
      <3>3. \A a \in Numbers : Open(a) => account[a].userId \in Members
        BY DEF TypeInv, TypeOK, Open, Document
      <3>4. AddIsWhole'
        BY <3>1, <3>3, DefaultsGrow DEF WholeInv, AddIsWhole, At, Open
      <3>. QED
        BY <3>2, <3>4 DEF WholeInv
    <2>. QED
      BY <2>1, <2>2, <2>3, <2>4, AbortWhole, AdvanceWhole DEF Next, Rest
  <1>3. WholeInv => AddIsWhole
    BY DEF WholeInv
  <1>. QED
    BY <1>1, <1>2, <1>3, TypeInductive, OwnerInductive, PTL DEF Spec
=============================================================================
