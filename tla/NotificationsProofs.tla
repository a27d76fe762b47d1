------------------------- MODULE NotificationsProofs -------------------------
(***************************************************************************)
(* Theorems about Notifications, for any customers, admins and handlers,   *)
(* any number of requests and of connections.                              *)
(***************************************************************************)
EXTENDS Notifications, SequenceTheorems, TLAPS

\* What a handler that serves a request knows, and a call that has recipients.
JobOK(j) ==
    /\ j \in Job
    /\ j.pc # "idle" =>
         j.op \in Ops /\ j.no \in Numbers /\ j.from \in Customers
                      /\ j.to \in Customers

CallOK(c) ==
    c \in Call /\ (c.state \in {"store", "push", "emit"} => c.due # << >>)

\* The calls that tell the news, and of a low balance.
NewsCall(who) == [state |-> "store", kind |-> "news", due |-> who, at |-> Nil]

LowCall(u) == [state |-> "store", kind |-> "low", due |-> <<u>>, at |-> Nil]

TypeInv ==
    /\ TypeOK
    /\ \A h \in Handlers : JobOK(job[h])
    /\ \A n \in Numbers : CallOK(call[n])

-----------------------------------------------------------------------------
(* Type correctness                                                        *)

\* Requests are numbered from one on; admins and customers are members.
LEMMA NumberFacts ==
    /\ Numbers \subseteq 0 .. MaxRequests
    /\ MaxRequests \in Nat
    /\ Nil \notin Members
    /\ Nil \notin Sockets
    /\ Nil \notin Customers
    /\ Customers \subseteq Members
    /\ Admins \subseteq Members
    /\ Parties \subseteq Customers \X Customers
    /\ Named \cup Kept \cup Claimants \subseteq Members
  BY NotificationsAssumption DEF Numbers, Members

\* A free slot and a call that has not been made are what they may be.
LEMMA IdleOK == JobOK(Idle) /\ CallOK(NoCall)
  BY NumberFacts DEF JobOK, CallOK, Idle, NoCall, Job, Call

\* Somebody is told of every request.
LEMMA RecipientsType ==
    ASSUME NEW op \in Ops, NEW u \in Customers, NEW v \in Customers
    PROVE  /\ Recipients(op, u, v) \in Seq(Members)
           /\ Recipients(op, u, v) # << >>
  <1>1. /\ <<u, v>> \in Seq(Members) /\ <<u, v>> # << >>
        /\ <<u>> \in Seq(Members) /\ <<u>> # << >>
        /\ <<v>> \in Seq(Members) /\ <<v>> # << >>
    BY NumberFacts
  <1>2. AdminList \in Seq(Members) /\ AdminList # << >>
    BY NotificationsAssumption, NumberFacts
  <1>3. CASE op \in {"sendMoney", "confirmReceive", "approveRefund"}
    BY <1>1, <1>3 DEF Recipients
  <1>4. CASE op \in {"reqReceiveMoney", "rejectRefund", "exceedLimit", "wrongPIN"}
    BY <1>1, <1>4 DEF Recipients
  <1>5. CASE op = "rejectReceive"
    BY <1>1, <1>5 DEF Recipients
  <1>6. CASE op = "requestRefund"
    BY <1>2, <1>6 DEF Recipients
  <1>. QED
    BY <1>3, <1>4, <1>5, <1>6 DEF Ops, SaveFirst, TellFirst, TellOnly

\* One handler goes on, the others stay where they are.
LEMMA OneHandler ==
    ASSUME TypeInv, NEW h \in Handlers, NEW j,
           job' = [job EXCEPT ![h] = j], JobOK(j)
    PROVE  /\ job' \in [Handlers -> Job]
           /\ \A g \in Handlers : JobOK(job'[g])
           /\ job'[h] = j
           /\ \A g \in Handlers \ {h} : job'[g] = job[g]
  BY DEF TypeInv, TypeOK, JobOK

\* A handler that is done answers its client.
LEMMA EndType ==
    ASSUME TypeInv, NEW h \in Handlers, NEW result \in {"ok", "error"},
           ~ At(h, "idle"), End(h, result)
    PROVE  /\ job' \in [Handlers -> Job]
           /\ \A g \in Handlers : JobOK(job'[g])
           /\ job'[h] = Idle
           /\ \A g \in Handlers \ {h} : job'[g] = job[g]
           /\ answer' \in [Numbers -> {"none", "ok", "error"}]
           /\ answer'[job[h].no] = result
           /\ \A n \in Numbers \ {job[h].no} : answer'[n] = answer[n]
  <1>1. job[h].no \in Numbers
    BY DEF TypeInv, JobOK, At
  <1>. QED
    BY <1>1, IdleOK, OneHandler DEF End, TypeInv, TypeOK

\* A handler that goes on knows as much as before.
LEMMA GotoType ==
    ASSUME TypeInv, NEW h \in Handlers, ~ At(h, "idle"),
           NEW step \in {"tell", "wait", "save", "hook", "waitLow"},
           Goto(h, step)
    PROVE  /\ job' \in [Handlers -> Job]
           /\ \A g \in Handlers : JobOK(job'[g])
           /\ job'[h] = [job[h] EXCEPT !.pc = step]
           /\ job'[h].pc = step
           /\ job'[h].no = job[h].no
           /\ job'[h].op = job[h].op
           /\ job'[h].from = job[h].from
           /\ job'[h].to = job[h].to
           /\ \A g \in Handlers \ {h} : job'[g] = job[g]
  <1>1. job' = [job EXCEPT ![h] = [job[h] EXCEPT !.pc = step]]
    BY DEF Goto, TypeInv, TypeOK
  <1>2. JobOK([job[h] EXCEPT !.pc = step])
    BY DEF TypeInv, JobOK, Job, At
  <1>3. job[h] \in Job
    BY DEF TypeInv, TypeOK
  <1>. QED
    BY <1>1, <1>2, <1>3, OneHandler DEF Job

\* A handler on its way is at one of its steps, and its request has a number.
LEMMA StepType ==
    ASSUME TypeInv, NEW h \in Handlers, ~ At(h, "idle")
    PROVE  /\ job[h] \in Job
           /\ job[h].op \in Ops
           /\ job[h].no \in Numbers
           /\ job[h].from \in Customers
           /\ job[h].to \in Customers
           /\ call[job[h].no] \in Call
  BY DEF TypeInv, TypeOK, JobOK, CallOK, At

\* A call that is made has recipients.
LEMMA CallType ==
    ASSUME TypeInv, NEW n \in Numbers, NEW c, call' = [call EXCEPT ![n] = c],
           CallOK(c)
    PROVE  /\ call' \in [Numbers -> Call]
           /\ \A m \in Numbers : CallOK(call'[m])
           /\ call'[n] = c
           /\ \A m \in Numbers \ {n} : call'[m] = call[m]
  BY DEF TypeInv, TypeOK, CallOK

\* The end of a save leads to the end of the request or to telling.
LEMMA AfterHookType ==
    ASSUME TypeInv, NEW h \in Handlers, ~ At(h, "idle"), AfterHook(h)
    PROVE  /\ job' \in [Handlers -> Job]
           /\ \A g \in Handlers : JobOK(job'[g])
           /\ answer' \in [Numbers -> {"none", "ok", "error"}]
  BY EndType, GotoType DEF AfterHook, TypeInv, TypeOK

\* Every step of a handler keeps the types.
LEMMA ProceedType ==
    ASSUME TypeInv, NEW h \in Handlers, Resume(h)
    PROVE  TypeInv'
  <1>0. UNCHANGED <<notes, read, accepted, historyVars, socketVars>>
    BY DEF Resume, Proceed
  <1>1. CASE Tell(h)
    <2>1. ~ At(h, "idle")
      BY <1>1 DEF Tell, At
    <2>2. CASE End(h, "error") /\ UNCHANGED call
      BY <1>0, <1>1, <2>1, <2>2, EndType
         DEF Tell, TypeInv, TypeOK, historyVars, socketVars
    <2>3. CASE ~ (End(h, "error") /\ UNCHANGED call)
      <3>. DEFINE c == NewsCall(Recipients(job[h].op, job[h].from, job[h].to))
      <3>1. /\ call' = [call EXCEPT ![job[h].no] = c]
            /\ Goto(h, "wait")
            /\ UNCHANGED <<answer, saved>>
        BY <1>1, <2>3 DEF Tell, NewsCall, NoCall
      <3>2. CallOK(c)
        BY <2>1, StepType, RecipientsType DEF CallOK, Call, NewsCall
      <3>3. /\ call' \in [Numbers -> Call]
            /\ \A m \in Numbers : CallOK(call'[m])
        BY <2>1, <3>1, <3>2, StepType, CallType
      <3>. QED
        BY <1>0, <2>1, <3>1, <3>3, GotoType
           DEF TypeInv, TypeOK, historyVars, socketVars
    <2>. QED
      BY <2>2, <2>3
  <1>2. CASE Told(h)
    <2>1. ~ At(h, "idle")
      BY <1>2 DEF Told, At
    <2>2. \/ Goto(h, "save") /\ UNCHANGED answer
          \/ \E result \in {"ok", "error"} : End(h, result)
      BY <1>2 DEF Told
    <2>. QED
      BY <1>0, <1>2, <2>1, <2>2, EndType, GotoType
         DEF Told, TypeInv, TypeOK, historyVars, socketVars
  <1>3. CASE Save(h)
    <2>1. ~ At(h, "idle")
      BY <1>3 DEF Save, At
    <2>. QED
      BY <1>0, <1>3, <2>1, StepType, GotoType
         DEF Save, TypeInv, TypeOK, historyVars, socketVars
  <1>4. CASE Hook(h)
    <2>1. ~ At(h, "idle")
      BY <1>4 DEF Hook, At
    <2>2. CASE AfterHook(h) /\ UNCHANGED call
      BY <1>0, <1>4, <2>1, <2>2, AfterHookType
         DEF Hook, TypeInv, TypeOK, historyVars, socketVars
    <2>3. CASE ~ (AfterHook(h) /\ UNCHANGED call)
      <3>. DEFINE c == LowCall(job[h].from)
      <3>1. /\ call' = [call EXCEPT ![job[h].no] = c]
            /\ Goto(h, "waitLow")
            /\ UNCHANGED <<answer, saved>>
        BY <1>4, <2>3 DEF Hook, LowCall, NoCall
      <3>2. CallOK(c)
        <4>1. job[h].from \in Members
          BY <2>1, StepType, NumberFacts
        <4>. QED
          BY <4>1 DEF CallOK, Call, LowCall
      <3>3. /\ call' \in [Numbers -> Call]
            /\ \A m \in Numbers : CallOK(call'[m])
        BY <2>1, <3>1, <3>2, StepType, CallType
      <3>. QED
        BY <1>0, <2>1, <3>1, <3>3, GotoType
           DEF TypeInv, TypeOK, historyVars, socketVars
    <2>. QED
      BY <2>2, <2>3
  <1>5. CASE ToldLow(h)
    <2>1. ~ At(h, "idle")
      BY <1>5 DEF ToldLow, At
    <2>. QED
      BY <1>0, <1>5, <2>1, AfterHookType
         DEF ToldLow, TypeInv, TypeOK, historyVars, socketVars
  <1>6. CASE CallFailed(h)
    <2>1. ~ At(h, "idle")
      BY <1>6 DEF CallFailed, At
    <2>. QED
      BY <1>0, <1>6, <2>1, EndType
         DEF CallFailed, TypeInv, TypeOK, historyVars, socketVars
  <1>. QED
    BY <1>1, <1>2, <1>3, <1>4, <1>5, <1>6 DEF Resume, Proceed

\* What the read of the recipient changes in a call.
LEMMA ReadCall ==
    ASSUME TypeInv, NEW n \in Numbers, ReadRecipient(n)
    PROVE  /\ call[n].due \in Seq(Members)
           /\ call[n].due # << >>
           /\ Head(call[n].due) \in Members
           /\ CallOK(call'[n])
           /\ call' = [call EXCEPT ![n] = call'[n]]
           /\ call'[n].due = call[n].due
           /\ call'[n].kind = call[n].kind
           /\ call'[n].state = "emit"
           /\ call'[n].at = socketId[Head(call[n].due)]
  <1>1. /\ call[n] \in Call /\ call[n].due \in Seq(Members)
        /\ call[n].due # << >>
    BY DEF ReadRecipient, TypeInv, TypeOK, CallOK, Call
  <1>2. call'[n] = [call[n] EXCEPT !.state = "emit",
                                   !.at = socketId[Head(call[n].due)]]
    BY DEF ReadRecipient, Target, TypeInv, TypeOK
  <1>3. Head(call[n].due) \in Members
    BY <1>1, HeadTailProperties
  <1>4. socketId[Head(call[n].due)] \in Sockets \cup {Nil}
    BY <1>3 DEF TypeInv, TypeOK
  <1>5. /\ call'[n].due = call[n].due
        /\ call'[n].kind = call[n].kind
        /\ call'[n].state = "emit"
        /\ call'[n].at = socketId[Head(call[n].due)]
        /\ call'[n] \in Call
    BY <1>1, <1>2, <1>4 DEF Call
  <1>6. call' = [call EXCEPT ![n] = call'[n]]
    BY DEF ReadRecipient, TypeInv, TypeOK
  <1>. QED
    BY <1>1, <1>3, <1>5, <1>6 DEF CallOK

\* What an emit leaves of a call.
LEMMA EmittedCall ==
    ASSUME TypeInv, NEW n \in Numbers, Emit(n)
    PROVE  /\ call[n].due \in Seq(Members)
           /\ call[n].due # << >>
           /\ Head(call[n].due) \in Members
           /\ CallOK(call'[n])
           /\ call' = [call EXCEPT ![n] = call'[n]]
           /\ call'[n].due = Tail(call[n].due)
           /\ call'[n].kind = call[n].kind
           /\ call'[n].state \in {"store", "done"}
           /\ call'[n].state = "done" <=> Tail(call[n].due) = << >>
  <1>1. /\ call[n] \in Call /\ call[n].due \in Seq(Members)
        /\ call[n].due # << >>
    BY DEF Emit, TypeInv, TypeOK, CallOK, Call
  <1>2. call'[n] = [call[n] EXCEPT
          !.due = Tail(@),
          !.at = Nil,
          !.state = IF Len(call[n].due) = 1 THEN "done" ELSE "store"]
    BY DEF Emit, TypeInv, TypeOK
  <1>3. /\ Tail(call[n].due) \in Seq(Members)
        /\ Head(call[n].due) \in Members
        /\ Len(call[n].due) = 1 <=> Tail(call[n].due) = << >>
    <2>1. /\ Tail(call[n].due) \in Seq(Members)
          /\ Head(call[n].due) \in Members
          /\ Len(Tail(call[n].due)) = Len(call[n].due) - 1
      BY <1>1, HeadTailProperties
    <2>2. Len(call[n].due) \in Nat
      BY <1>1
    <2>3. Tail(call[n].due) = << >> <=> Len(Tail(call[n].due)) = 0
      BY <2>1, EmptySeq
    <2>. QED
      BY <2>1, <2>2, <2>3
  <1>4. /\ call'[n].due = Tail(call[n].due)
        /\ call'[n].kind = call[n].kind
        /\ call'[n].state = IF Len(call[n].due) = 1 THEN "done" ELSE "store"
        /\ call'[n] \in Call
    BY <1>1, <1>2, <1>3 DEF Call
  <1>5. call' = [call EXCEPT ![n] = call'[n]]
    BY DEF Emit, TypeInv, TypeOK
  <1>. QED
    BY <1>1, <1>3, <1>4, <1>5 DEF CallOK

\* So does every step of notification-service.
LEMMA WorkType ==
    ASSUME TypeInv, NEW n \in Numbers, Serve(n)
    PROVE  TypeInv'
  <1>0. UNCHANGED <<saved, read, job, answer, accepted, asked, disordered,
                    claimed, socketVars>>
    BY DEF Serve, Work
  <1>1. CASE StoreNote(n)
    <2>1. call[n] \in Call /\ call[n].due # << >> /\ call[n].due \in Seq(Members)
      BY <1>1 DEF StoreNote, TypeInv, TypeOK, CallOK, Call
    <2>2. Head(call[n].due) \in Members
      BY <2>1
    <2>3. notes' \subseteq Note /\ notes \subseteq notes'
      BY <1>1, <2>1, <2>2 DEF StoreNote, Note, Call, TypeInv, TypeOK
    <2>4. call' = [call EXCEPT ![n] = [call[n] EXCEPT !.state = "push"]]
      BY <1>1 DEF StoreNote, TypeInv, TypeOK
    <2>5. CallOK([call[n] EXCEPT !.state = "push"])
      BY <2>1 DEF CallOK, Call
    <2>6. call' \in [Numbers -> Call] /\ \A m \in Numbers : CallOK(call'[m])
      BY <2>4, <2>5, CallType
    <2>. QED
      BY <1>0, <1>1, <2>3, <2>6 DEF StoreNote, TypeInv, TypeOK, socketVars
  <1>2. CASE ReadRecipient(n)
    <2>1. call' \in [Numbers -> Call] /\ \A m \in Numbers : CallOK(call'[m])
      BY <1>2, ReadCall, CallType
    <2>2. UNCHANGED <<notes, pushed, missed>>
      BY <1>2 DEF ReadRecipient
    <2>. QED
      BY <1>0, <2>1, <2>2 DEF TypeInv, TypeOK, socketVars
  <1>3. CASE Emit(n)
    <2>1. call' \in [Numbers -> Call] /\ \A m \in Numbers : CallOK(call'[m])
      BY <1>3, EmittedCall, CallType
    <2>2. /\ pushed' \subseteq [to : Members, named : Members]
          /\ missed' \subseteq Members
      <3>. DEFINE u == Head(call[n].due)
                  s == call[n].at
      <3>1. u \in Members /\ s \in Sockets \cup {Nil}
        BY <1>3, EmittedCall DEF TypeInv, TypeOK, Call
      <3>2. /\ \/ pushed' = pushed
               \/ /\ s \in Sockets /\ socket[s] # Nil
                  /\ pushed' = pushed \cup {[to |-> u, named |-> socket[s].named]}
            /\ missed' \subseteq missed \cup {u}
        BY <1>3, <3>1 DEF Emit
      <3>3. ASSUME s \in Sockets, socket[s] # Nil PROVE socket[s].named \in Members
        BY <3>3 DEF TypeInv, TypeOK, Connection
      <3>. QED
        BY <3>1, <3>2, <3>3 DEF TypeInv, TypeOK
    <2>3. notes' = notes
      BY <1>3 DEF Emit
    <2>. QED
      BY <1>0, <2>1, <2>2, <2>3 DEF TypeInv, TypeOK, socketVars
  <1>. QED
    BY <1>1, <1>2, <1>3 DEF Serve, Work

\* So do connections, and what becomes of the socket id in a user document.
LEMMA RealtimeType ==
    ASSUME TypeInv, Realtime
    PROVE  TypeInv'
  <1>0. UNCHANGED <<serviceVars, asked, pushed, missed>>
    BY DEF Realtime
  <1>. SUFFICES /\ socket' \in [Sockets -> Connection \cup {Nil}]
                /\ socketId' \in [Members -> Sockets \cup {Nil}]
                /\ kept' \in [Members -> Sockets \cup {Nil}]
                /\ disordered' \cup claimed' \subseteq Members
    BY <1>0 DEF TypeInv, TypeOK, serviceVars
  <1>1. ASSUME NEW u \in Named, Connect(u)
        PROVE  /\ socket' \in [Sockets -> Connection \cup {Nil}]
               /\ UNCHANGED <<socketId, kept, disordered, claimed>>
    BY <1>1, NumberFacts DEF Connect, Connection, TypeInv, TypeOK
  <1>2. ASSUME NEW u \in Kept, KeepUser(u)
        PROVE  /\ kept' \in [Members -> Sockets \cup {Nil}]
               /\ UNCHANGED <<socket, socketId, disordered, claimed>>
    BY <1>2, NumberFacts DEF KeepUser, TypeInv, TypeOK
  <1>3. ASSUME NEW u \in Kept, PutUserBack(u)
        PROVE  /\ socketId' \in [Members -> Sockets \cup {Nil}]
               /\ kept' \in [Members -> Sockets \cup {Nil}]
               /\ disordered' \subseteq Members
               /\ UNCHANGED <<socket, claimed>>
    BY <1>3, NumberFacts DEF PutUserBack, Write, TypeInv, TypeOK
  <1>4. ASSUME NEW s \in Sockets, UpdateSocketId(s)
        PROVE  /\ socket' \in [Sockets -> Connection \cup {Nil}]
               /\ socketId' \in [Members -> Sockets \cup {Nil}]
               /\ disordered' \subseteq Members
               /\ UNCHANGED <<kept, claimed>>
    <2>1. socket[s] \in Connection /\ socket[s].named \in Members
      BY <1>4 DEF UpdateSocketId, TypeInv, TypeOK, Connection
    <2>. QED
      BY <1>4, <2>1 DEF UpdateSocketId, Write, TypeInv, TypeOK, Connection
  <1>5. ASSUME NEW s \in Sockets, Disconnect(s)
        PROVE  /\ socket' \in [Sockets -> Connection \cup {Nil}]
               /\ UNCHANGED <<socketId, kept, disordered, claimed>>
    BY <1>5 DEF Disconnect, TypeInv, TypeOK, Connection
  <1>6. ASSUME NEW u \in Claimants, UpdateUser(u)
        PROVE  /\ socketId' \in [Members -> Sockets \cup {Nil}]
               /\ disordered' \cup claimed' \subseteq Members
               /\ UNCHANGED <<socket, kept>>
    BY <1>6, NumberFacts DEF UpdateUser, Write, TypeInv, TypeOK
  <1>. QED
    BY <1>1, <1>2, <1>3, <1>4, <1>5, <1>6 DEF Realtime, TypeInv, TypeOK

\* An accepted request.
LEMMA SubmitType ==
    ASSUME TypeInv, NEW h \in Handlers, Submit(h)
    PROVE  \E j :
             /\ JobOK(j) /\ j.op \in Ops /\ j.pc = FirstStep(j.op)
             /\ j.no = accepted + 1 /\ j.no \in Numbers
             /\ j.from \in Customers /\ j.to \in Customers
             /\ job' = [job EXCEPT ![h] = j]
             /\ asked' = [asked EXCEPT ![j.no] = j]
             /\ accepted' = j.no
  <1>0. PICK op \in Requests \cap Ops, p \in Parties :
          LET j == [op |-> op, pc |-> FirstStep(op), no |-> accepted + 1,
                    from |-> p[1], to |-> p[2]]
          IN  /\ job' = [job EXCEPT ![h] = j]
              /\ asked' = [asked EXCEPT ![accepted + 1] = j]
    BY DEF Submit
  <1>. DEFINE u == p[1]
              v == p[2]
  <1>1. LET j == [op |-> op, pc |-> FirstStep(op), no |-> accepted + 1,
                  from |-> u, to |-> v]
        IN  /\ job' = [job EXCEPT ![h] = j]
            /\ asked' = [asked EXCEPT ![accepted + 1] = j]
    BY <1>0
  <1>7. u \in Customers /\ v \in Customers
    BY NumberFacts
  <1>. HIDE DEF u, v
  <1>2. accepted + 1 \in Numbers /\ accepted' = accepted + 1
    BY NotificationsAssumption DEF Submit, TypeInv, TypeOK, Numbers
  <1>3. JobOK([op |-> op, pc |-> FirstStep(op), no |-> accepted + 1,
               from |-> u, to |-> v])
    BY <1>2, <1>7, NumberFacts DEF JobOK, Job, FirstStep
  <1>4. PICK j : j = [op |-> op, pc |-> FirstStep(op), no |-> accepted + 1,
                      from |-> u, to |-> v]
    OBVIOUS
  <1>5. /\ JobOK(j) /\ j.op \in Ops /\ j.pc = FirstStep(j.op)
        /\ j.no = accepted + 1 /\ j.from \in Customers /\ j.to \in Customers
    BY <1>3, <1>4, <1>7
  <1>6. /\ job' = [job EXCEPT ![h] = j]
        /\ asked' = [asked EXCEPT ![j.no] = j]
    BY <1>1, <1>4
  <1>. QED
    BY <1>2, <1>5, <1>6

\* All steps keep the types, from the start.
LEMMA TypeInductive ==
    /\ Init => TypeInv
    /\ TypeInv /\ [Next]_vars => TypeInv'
  <1>1. ASSUME Init PROVE TypeInv
    <2>1. Idle \in Job /\ NoCall \in Call /\ JobOK(Idle) /\ CallOK(NoCall)
      BY IdleOK DEF JobOK, CallOK
    <2>. QED
      BY <1>1, <2>1, NotificationsAssumption DEF Init, TypeInv, TypeOK
  <1>2. ASSUME TypeInv, [Next]_vars PROVE TypeInv'
    <2>1. ASSUME NEW h \in Handlers, Submit(h), UNCHANGED socketVars
          PROVE  TypeInv'
      <3>1. PICK j :
              /\ JobOK(j) /\ j.no \in Numbers
              /\ job' = [job EXCEPT ![h] = j]
              /\ asked' = [asked EXCEPT ![j.no] = j]
              /\ accepted' = j.no
        BY <1>2, <2>1, SubmitType
      <3>2. job' \in [Handlers -> Job] /\ \A g \in Handlers : JobOK(job'[g])
        BY <1>2, <3>1, OneHandler
      <3>3. asked' \in [Numbers -> Job] /\ accepted' \in 0 .. MaxRequests
        BY <1>2, <3>1, NumberFacts DEF TypeInv, TypeOK, JobOK
      <3>. QED
        BY <1>2, <2>1, <3>2, <3>3 DEF Submit, TypeInv, TypeOK, socketVars
    <2>2. ASSUME NEW h \in Handlers, Abort(h), UNCHANGED socketVars
          PROVE  TypeInv'
      BY <1>2, <2>2, EndType
         DEF Abort, TypeInv, TypeOK, historyVars, socketVars
    <2>3. ASSUME NEW n \in Numbers, Fail(n), UNCHANGED socketVars
          PROVE  TypeInv'
      <3>1. call' = [call EXCEPT ![n] = [call[n] EXCEPT !.state = "failed"]]
        BY <1>2, <2>3 DEF Fail, TypeInv, TypeOK
      <3>2. CallOK([call[n] EXCEPT !.state = "failed"])
        BY <1>2 DEF TypeInv, TypeOK, CallOK, Call
      <3>3. call' \in [Numbers -> Call] /\ \A m \in Numbers : CallOK(call'[m])
        BY <1>2, <3>1, <3>2, CallType
      <3>. QED
        BY <1>2, <2>3, <3>3 DEF Fail, TypeInv, TypeOK, historyVars, socketVars
    <2>4. CASE MarkAsRead /\ UNCHANGED socketVars
      BY <1>2, <2>4 DEF MarkAsRead, TypeInv, TypeOK, historyVars, socketVars
    <2>5. CASE UNCHANGED vars
      BY <1>2, <2>5
         DEF vars, serviceVars, socketVars, historyVars, TypeInv, TypeOK
    <2>. QED
      BY <1>2, <2>1, <2>2, <2>3, <2>4, <2>5, ProceedType, WorkType, RealtimeType
         DEF Next, Rest
  <1>. QED
    BY <1>1, <1>2

\* Every variable holds what it may, whoever fails: a call that still has to
\* store or to push a note has a recipient to do it for.
THEOREM NotificationTypes == Spec => []TypeOK
  <1>1. TypeInv => TypeOK
    BY DEF TypeInv
  <1>. QED
    BY <1>1, TypeInductive, PTL DEF Spec

-----------------------------------------------------------------------------
(* Connections                                                             *)

\* A connection made in the name of a user, unless he has claimed one himself.
Own(u, s) == socket[s] # Nil /\ (socket[s].named = u \/ u \in claimed)

\* A socket id in a user document, in a copy of it, or read by a hook, is one
\* of its user.
IdsOwn ==
    /\ \A u \in Members, s \in Sockets : s \in {socketId[u], kept[u]} => Own(u, s)
    /\ \A n \in Numbers, s \in Sockets :
         call[n].state = "emit" /\ call[n].at = s => Own(Head(call[n].due), s)

\* Unless an older id has taken its place, the id in the user document is that
\* of the last connection, once user-service has been told of it ...
LatestKnown ==
    \A u \in Members \ (disordered \cup claimed), s \in Sockets :
      IsLatest(s, u) /\ socket[s].registered => socketId[u] = s

\* ... and so is the id that a hook has read and not yet emitted to.
ReadKnown ==
    \A n \in Numbers :
      /\ call[n].state = "emit"
      /\ Head(call[n].due) \notin disordered \cup claimed
      => call[n].at = socketId[Head(call[n].due)]

SocketInv ==
    /\ IdsOwn
    /\ LatestKnown
    /\ ReadKnown
    /\ PushesArePersonal
    /\ ConnectedIsReached

\* A step of the services that reads and emits nothing keeps all of this.
LEMMA OtherSocket ==
    ASSUME TypeInv, SocketInv,
           UNCHANGED <<socketVars, pushed, missed, disordered, claimed>>,
           \A n \in Numbers : call'[n].state = "emit" => call'[n] = call[n]
    PROVE  SocketInv'
  <1>1. IdsOwn'
    BY DEF SocketInv, IdsOwn, Own, socketVars
  <1>2. LatestKnown'
    BY DEF SocketInv, LatestKnown, IsLatest, socketVars
  <1>3. ReadKnown'
    BY DEF SocketInv, ReadKnown, socketVars
  <1>4. PushesArePersonal' /\ ConnectedIsReached'
    BY DEF SocketInv, PushesArePersonal, ConnectedIsReached
  <1>. QED
    BY <1>1, <1>2, <1>3, <1>4 DEF SocketInv

\* A hook reads the id that the user document has.
LEMMA ReadSocket ==
    ASSUME TypeInv, SocketInv, NEW n \in Numbers, ReadRecipient(n),
           UNCHANGED <<socketVars, disordered, claimed>>
    PROVE  SocketInv'
  <1>. DEFINE u == Head(call[n].due)
  <1>1. /\ u \in Members
        /\ call' = [call EXCEPT ![n] = call'[n]]
        /\ call'[n].due = call[n].due
        /\ call'[n].at = socketId[u]
    BY ReadCall
  <1>2. \A m \in Numbers \ {n} : call'[m] = call[m]
    BY <1>1 DEF TypeInv, TypeOK
  <1>3. UNCHANGED <<socket, socketId, kept, disordered, claimed, pushed, missed>>
    BY DEF ReadRecipient, socketVars
  <1>4. IdsOwn'
    <2>1. \A v \in Members, s \in Sockets :
            s \in {socketId[v], kept[v]} => Own(v, s)'
      BY <1>3 DEF SocketInv, IdsOwn, Own
    <2>2. ASSUME NEW m \in Numbers, NEW s \in Sockets,
                 call'[m].state = "emit", call'[m].at = s
          PROVE  Own(Head(call[m].due), s)'
      <3>1. CASE m = n
        BY <1>1, <1>3, <2>2, <3>1 DEF SocketInv, IdsOwn, Own
      <3>2. CASE m # n
        BY <1>2, <1>3, <2>2, <3>2 DEF SocketInv, IdsOwn, Own
      <3>. QED
        BY <3>1, <3>2
    <2>. QED
      BY <1>3, <2>1, <2>2 DEF IdsOwn
  <1>5. LatestKnown'
    BY <1>3 DEF SocketInv, LatestKnown, IsLatest
  <1>6. ReadKnown'
    <2>1. ASSUME NEW m \in Numbers, call'[m].state = "emit",
                 Head(call'[m].due) \notin disordered \cup claimed
          PROVE  call'[m].at = socketId[Head(call'[m].due)]
      <3>1. CASE m = n
        BY <1>1, <3>1
      <3>2. CASE m # n
        BY <1>2, <2>1, <3>2 DEF SocketInv, ReadKnown
      <3>. QED
        BY <3>1, <3>2
    <2>. QED
      BY <1>3, <2>1 DEF ReadKnown
  <1>7. PushesArePersonal' /\ ConnectedIsReached'
    BY <1>3 DEF SocketInv, PushesArePersonal, ConnectedIsReached
  <1>. QED
    BY <1>4, <1>5, <1>6, <1>7 DEF SocketInv

\* An emit arrives at a connection of its recipient, and misses nobody whose
\* last connection is known.
LEMMA EmitSocket ==
    ASSUME TypeInv, SocketInv, NEW n \in Numbers, Emit(n),
           UNCHANGED <<socketVars, disordered, claimed>>
    PROVE  SocketInv'
  <1>. DEFINE u == Head(call[n].due)
              s == call[n].at
              arrives == s # Nil /\ socket[s] # Nil /\ socket[s].open
  <1>1. /\ u \in Members
        /\ s \in Sockets \cup {Nil}
        /\ call[n].state = "emit"
    BY EmittedCall DEF Emit, TypeInv, TypeOK, Call
  <1>2. \A m \in Numbers : call'[m].state = "emit" => call'[m] = call[m]
    <2>1. call' = [call EXCEPT ![n] = call'[n]] /\ call'[n].state # "emit"
      BY EmittedCall
    <2>. QED
      BY <2>1 DEF TypeInv, TypeOK
  <1>3. UNCHANGED <<socket, socketId, kept, disordered, claimed>>
    BY DEF socketVars
  <1>4. IdsOwn'
    BY <1>2, <1>3 DEF SocketInv, IdsOwn, Own
  <1>5. LatestKnown'
    BY <1>3 DEF SocketInv, LatestKnown, IsLatest
  <1>6. ReadKnown'
    BY <1>2, <1>3 DEF SocketInv, ReadKnown
  <1>7. PushesArePersonal'
    <2>1. \/ pushed' = pushed
          \/ arrives /\ pushed' = pushed \cup {[to |-> u, named |-> socket[s].named]}
      BY DEF Emit
    <2>2. ASSUME arrives PROVE socket[s].named = u \/ u \in claimed
      BY <1>1, <2>2 DEF SocketInv, IdsOwn, Own
    <2>3. \A p \in pushed : p.named = p.to \/ p.to \in claimed
      BY DEF SocketInv, PushesArePersonal
    <2>4. \A p \in pushed' : p.named = p.to \/ p.to \in claimed
      BY <2>1, <2>2, <2>3
    <2>. QED
      BY <1>3, <2>4 DEF PushesArePersonal
  <1>8. ConnectedIsReached'
    <2>1. \/ missed' = missed
          \/ /\ missed' = missed \cup {u}
             /\ Connected(u)
             /\ ~ (arrives /\ IsLatest(s, u))
      BY DEF Emit
    <2>2. ASSUME Connected(u), ~ (arrives /\ IsLatest(s, u))
          PROVE  u \in disordered \cup claimed
      <3>1. PICK t \in Sockets :
              IsLatest(t, u) /\ socket[t].open /\ socket[t].registered
        BY <2>2 DEF Connected
      <3>2. CASE u \notin disordered \cup claimed
        <4>1. socketId[u] = t
          BY <1>1, <3>1, <3>2 DEF SocketInv, LatestKnown
        <4>2. s = socketId[u]
          BY <1>1, <3>2 DEF SocketInv, ReadKnown
        <4>3. arrives
          BY <3>1, <4>1, <4>2, NumberFacts DEF IsLatest
        <4>. QED
          BY <2>2, <3>1, <4>1, <4>2, <4>3
      <3>. QED
        BY <3>2
    <2>3. missed \subseteq disordered \cup claimed
      BY DEF SocketInv, ConnectedIsReached
    <2>. QED
      BY <1>3, <2>1, <2>2, <2>3 DEF ConnectedIsReached
  <1>. QED
    BY <1>4, <1>5, <1>6, <1>7, <1>8 DEF SocketInv

\* A connection that is made is not known yet.
LEMMA ConnectSocket ==
    ASSUME TypeInv, SocketInv, NEW u \in Named, Connect(u),
           UNCHANGED <<call, pushed, missed>>
    PROVE  SocketInv'
  <1>1. PICK s \in Sockets :
          /\ socket[s] = Nil
          /\ socket' = [socket EXCEPT ![s] =
               [named |-> u, open |-> TRUE, registered |-> FALSE]]
    BY DEF Connect
  <1>2. /\ socket'[s] = [named |-> u, open |-> TRUE, registered |-> FALSE]
        /\ \A t \in Sockets \ {s} : socket'[t] = socket[t]
        /\ UNCHANGED <<socketId, kept, disordered, claimed>>
    BY <1>1 DEF Connect, TypeInv, TypeOK
  <1>3. IdsOwn'
    <2>1. \A v, t : t \in Sockets /\ Own(v, t) => Own(v, t)'
      BY <1>1, <1>2 DEF Own
    <2>. QED
      BY <1>2, <2>1 DEF SocketInv, IdsOwn
  <1>4. LatestKnown'
    <2>1. ASSUME NEW v \in Members, NEW t \in Sockets, IsLatest(t, v)',
                 socket'[t].registered
          PROVE  IsLatest(t, v) /\ socket[t].registered
      <3>1. t # s
        BY <1>2, <2>1
      <3>. QED
        BY <1>1, <1>2, <2>1, <3>1 DEF IsLatest
    <2>. QED
      BY <1>2, <2>1 DEF SocketInv, LatestKnown
  <1>5. ReadKnown'
    BY <1>2 DEF SocketInv, ReadKnown
  <1>6. PushesArePersonal' /\ ConnectedIsReached'
    BY <1>2 DEF SocketInv, PushesArePersonal, ConnectedIsReached
  <1>. QED
    BY <1>3, <1>4, <1>5, <1>6 DEF SocketInv

\* The id in the document of a user is written: it is one of his, or he has put
\* it in, and who is not disordered by it had no hook emitting to him.
LEMMA WrittenSocket ==
    ASSUME TypeInv, SocketInv, NEW u \in Members, NEW s \in Sockets,
           NEW newer \in BOOLEAN, Write(u, s, newer),
           socketId'[u] = s, \A v \in Members \ {u} : socketId'[v] = socketId[v],
           call' = call, claimed \subseteq claimed'
    PROVE  ReadKnown'
  <1>1. ASSUME NEW n \in Numbers, call[n].state = "emit",
               Head(call[n].due) \notin disordered' \cup claimed'
        PROVE  call[n].at = socketId'[Head(call[n].due)]
    <2>. DEFINE v == Head(call[n].due)
    <2>1. v \in Members
      BY <1>1, HeadTailProperties DEF TypeInv, TypeOK, CallOK, Call
    <2>2. v \notin disordered \cup claimed
      BY <1>1 DEF Write
    <2>3. call[n].at = socketId[v]
      BY <1>1, <2>2 DEF SocketInv, ReadKnown
    <2>4. CASE v = u
      <3>1. Emitting(u)
        BY <1>1, <2>4 DEF Emitting
      <3>2. s = socketId[u]
        BY <1>1, <2>4, <3>1 DEF Write
      <3>. QED
        BY <2>3, <2>4, <3>2
    <2>5. CASE v # u
      BY <2>1, <2>3, <2>5
    <2>. QED
      BY <2>4, <2>5
  <1>. QED
    BY <1>1 DEF ReadKnown

\* user-service is told of the last connection, or the user is disordered.
LEMMA UpdateSocket ==
    ASSUME TypeInv, SocketInv, NEW s \in Sockets, UpdateSocketId(s),
           UNCHANGED <<call, pushed, missed>>
    PROVE  SocketInv'
  <1>. DEFINE u == socket[s].named
  <1>1. socket[s] # Nil /\ socket[s] \in Connection /\ u \in Members
    BY DEF UpdateSocketId, TypeInv, TypeOK, Connection
  <1>2. /\ socket'[s] = [socket[s] EXCEPT !.registered = TRUE]
        /\ \A t \in Sockets \ {s} : socket'[t] = socket[t]
        /\ socketId'[u] = s
        /\ \A v \in Members \ {u} : socketId'[v] = socketId[v]
        /\ kept' = kept /\ claimed' = claimed
        /\ disordered \subseteq disordered'
        /\ IsLatest(s, u) \/ s = socketId[u] \/ u \in disordered'
    BY <1>1 DEF UpdateSocketId, Write, TypeInv, TypeOK
  <1>3. \A t \in Sockets : /\ socket'[t] # Nil <=> socket[t] # Nil
                           /\ socket[t] # Nil => socket'[t].named = socket[t].named
    <2>1. socket'[s].named = u /\ socket'[s] \in Connection
      BY <1>1, <1>2 DEF Connection
    <2>2. socket'[s] # Nil
      BY <2>1, NotificationsAssumption
    <2>. QED
      BY <1>1, <1>2, <2>1, <2>2
  <1>4. IdsOwn'
    <2>1. \A v, t : t \in Sockets /\ Own(v, t) => Own(v, t)'
      BY <1>2, <1>3 DEF Own
    <2>2. Own(u, s)
      BY <1>1 DEF Own
    <2>. QED
      BY <1>1, <1>2, <2>1, <2>2 DEF SocketInv, IdsOwn
  <1>5. LatestKnown'
    <2>1. \A t \in Sockets, v \in Members : IsLatest(t, v)' <=> IsLatest(t, v)
      BY <1>3 DEF IsLatest
    <2>2. \A t \in Sockets : IsLatest(t, u) /\ IsLatest(s, u) => t = s
      BY NotificationsAssumption DEF IsLatest, Sockets
    <2>3. ASSUME NEW v \in Members \ (disordered' \cup claimed'),
                 NEW t \in Sockets, IsLatest(t, v)', socket'[t].registered
          PROVE  socketId'[v] = t
      <3>1. IsLatest(t, v) /\ v \in Members \ (disordered \cup claimed)
        BY <1>2, <2>1, <2>3
      <3>2. CASE t = s
        <4>1. v = u
          BY <1>1, <3>1, <3>2 DEF IsLatest
        <4>. QED
          BY <1>2, <3>2, <4>1
      <3>3. CASE t # s
        <4>1. socket[t].registered /\ socketId[v] = t
          BY <1>2, <2>3, <3>1, <3>3 DEF SocketInv, LatestKnown
        <4>2. v # u
          BY <1>2, <2>2, <2>3, <3>1, <3>3, <4>1
        <4>. QED
          BY <1>2, <4>1, <4>2
      <3>. QED
        BY <3>2, <3>3
    <2>. QED
      BY <2>3 DEF LatestKnown
  <1>6. ReadKnown'
    <2>1. PICK newer \in BOOLEAN : Write(u, s, newer)
      BY DEF UpdateSocketId, Write
    <2>2. PICK v \in Members : v = u
      BY <1>1
    <2>. HIDE DEF u
    <2>. QED
      BY <1>2, <2>1, <2>2, WrittenSocket
  <1>7. PushesArePersonal' /\ ConnectedIsReached'
    BY <1>2 DEF SocketInv, PushesArePersonal, ConnectedIsReached
  <1>. QED
    BY <1>4, <1>5, <1>6, <1>7 DEF SocketInv

\* A client that goes leaves its connection to its user.
LEMMA DisconnectSocket ==
    ASSUME TypeInv, SocketInv, NEW s \in Sockets, Disconnect(s),
           UNCHANGED <<call, pushed, missed>>
    PROVE  SocketInv'
  <1>1. socket[s] # Nil /\ socket[s] \in Connection
    BY DEF Disconnect, TypeInv, TypeOK
  <1>2. /\ socket'[s] = [socket[s] EXCEPT !.open = FALSE]
        /\ \A t \in Sockets \ {s} : socket'[t] = socket[t]
        /\ UNCHANGED <<socketId, kept, disordered, claimed>>
    BY DEF Disconnect, TypeInv, TypeOK
  <1>3. /\ socket'[s].named = socket[s].named
        /\ socket'[s].registered = socket[s].registered
        /\ socket'[s] \in Connection
    BY <1>1, <1>2 DEF Connection
  <1>4. socket'[s] # Nil
    BY <1>3, NotificationsAssumption
  <1>5. \A t \in Sockets : /\ socket'[t] # Nil <=> socket[t] # Nil
                           /\ socket'[t] # Nil =>
                                /\ socket'[t].named = socket[t].named
                                /\ socket'[t].registered = socket[t].registered
    BY <1>1, <1>2, <1>3, <1>4
  <1>6. \A t \in Sockets, v \in Members : IsLatest(t, v)' <=> IsLatest(t, v)
    BY <1>5 DEF IsLatest
  <1>7. IdsOwn'
    <2>1. \A v, t : t \in Sockets /\ Own(v, t) => Own(v, t)'
      BY <1>2, <1>5 DEF Own
    <2>. QED
      BY <1>2, <2>1 DEF SocketInv, IdsOwn
  <1>8. LatestKnown'
    BY <1>2, <1>5, <1>6 DEF SocketInv, LatestKnown, IsLatest
  <1>9. ReadKnown'
    BY <1>2 DEF SocketInv, ReadKnown
  <1>10. PushesArePersonal' /\ ConnectedIsReached'
    BY <1>2 DEF SocketInv, PushesArePersonal, ConnectedIsReached
  <1>. QED
    BY <1>7, <1>8, <1>9, <1>10 DEF SocketInv

\* A user document that is put back has an id of its own user, and an older one
\* only of a user who is counted as disordered.
LEMMA PutBackSocket ==
    ASSUME TypeInv, SocketInv, NEW u \in Kept,
           KeepUser(u) \/ PutUserBack(u), UNCHANGED <<call, pushed, missed>>
    PROVE  SocketInv'
  <1>1. u \in Members /\ socket' = socket /\ claimed' = claimed
    BY NumberFacts DEF KeepUser, PutUserBack
  <1>2. \A v \in Members : /\ socketId'[v] \in {socketId[v], kept[v]}
                           /\ kept'[v] \in {socketId[v], kept[v], Nil}
                           /\ \/ socketId'[v] = socketId[v]
                              \/ v \in disordered'
    BY <1>1 DEF KeepUser, PutUserBack, Write, TypeInv, TypeOK
  <1>3. disordered \subseteq disordered'
    BY DEF KeepUser, PutUserBack, Write
  <1>4. IdsOwn'
    BY <1>1, <1>2, NumberFacts DEF SocketInv, IdsOwn, Own
  <1>5. LatestKnown'
    BY <1>1, <1>2, <1>3 DEF SocketInv, LatestKnown, IsLatest
  <1>6. ReadKnown'
    <2>1. CASE KeepUser(u)
      BY <2>1 DEF KeepUser, SocketInv, ReadKnown
    <2>2. CASE PutUserBack(u)
      <3>1. /\ kept[u] \in Sockets
            /\ Write(u, kept[u], FALSE)
            /\ socketId'[u] = kept[u]
            /\ \A v \in Members \ {u} : socketId'[v] = socketId[v]
        BY <1>1, <2>2 DEF PutUserBack, Write, TypeInv, TypeOK
      <3>. QED
        BY <1>1, <3>1, WrittenSocket
    <2>. QED
      BY <2>1, <2>2
  <1>7. PushesArePersonal' /\ ConnectedIsReached'
    BY <1>1, <1>3 DEF SocketInv, PushesArePersonal, ConnectedIsReached
  <1>. QED
    BY <1>4, <1>5, <1>6, <1>7 DEF SocketInv

\* A user who puts an id in himself has claimed it, whosever it is.
LEMMA ClaimSocket ==
    ASSUME TypeInv, SocketInv, NEW u \in Claimants, UpdateUser(u),
           UNCHANGED <<call, pushed, missed>>
    PROVE  SocketInv'
  <1>1. u \in Members /\ UNCHANGED <<socket, kept>> /\ claimed' = claimed \cup {u}
    BY NumberFacts DEF UpdateUser
  <1>2. PICK s \in Sockets : socket[s] # Nil /\ Write(u, s, TRUE)
    BY DEF UpdateUser
  <1>3. /\ socketId'[u] = s
        /\ \A v \in Members \ {u} : socketId'[v] = socketId[v]
        /\ disordered \subseteq disordered'
    BY <1>1, <1>2 DEF Write, TypeInv, TypeOK
  <1>4. IdsOwn'
    <2>1. \A v, t : t \in Sockets /\ Own(v, t) => Own(v, t)'
      BY <1>1 DEF Own
    <2>2. Own(u, s)'
      BY <1>1, <1>2 DEF Own
    <2>. QED
      BY <1>1, <1>3, <2>1, <2>2 DEF SocketInv, IdsOwn
  <1>5. LatestKnown'
    BY <1>1, <1>3 DEF SocketInv, LatestKnown, IsLatest
  <1>6. ReadKnown'
    BY <1>1, <1>2, <1>3, WrittenSocket
  <1>7. PushesArePersonal' /\ ConnectedIsReached'
    BY <1>1, <1>3 DEF SocketInv, PushesArePersonal, ConnectedIsReached
  <1>. QED
    BY <1>4, <1>5, <1>6, <1>7 DEF SocketInv

\* No handler and no failure makes a hook read or emit.
LEMMA HandlersDoNotEmit ==
    ASSUME TypeInv, [Next]_vars, ~ Realtime, \A n \in Numbers : ~ Serve(n)
    PROVE  /\ UNCHANGED <<socketVars, pushed, missed, disordered, claimed>>
           /\ \A n \in Numbers : call'[n].state = "emit" => call'[n] = call[n]
  <1>1. UNCHANGED <<socketVars, pushed, missed, disordered, claimed>>
    BY DEF Next, Submit, Abort, Resume, Proceed, Fail, MarkAsRead, Rest, vars,
           historyVars, socketVars
  <1>2. ASSUME NEW h \in Handlers, Resume(h), ~ (call' = call)
        PROVE  \E c : c.state = "store" /\ call' = [call EXCEPT ![job[h].no] = c]
    <2>1. CASE Tell(h)
      <3>. DEFINE c == NewsCall(Recipients(job[h].op, job[h].from, job[h].to))
      <3>1. call' = [call EXCEPT ![job[h].no] = c]
        BY <1>2, <2>1 DEF Tell, NewsCall, NoCall
      <3>2. c.state = "store"
        BY DEF NewsCall
      <3>. QED
        BY <3>1, <3>2
    <2>2. CASE Hook(h)
      <3>. DEFINE c == LowCall(job[h].from)
      <3>1. call' = [call EXCEPT ![job[h].no] = c]
        BY <1>2, <2>2 DEF Hook, LowCall, NoCall
      <3>2. c.state = "store"
        BY DEF LowCall
      <3>. QED
        BY <3>1, <3>2
    <2>. QED
      BY <1>2, <2>1, <2>2
         DEF Resume, Proceed, Told, Save, ToldLow, CallFailed
  <1>3. ASSUME NEW n \in Numbers, Fail(n)
        PROVE  \A m \in Numbers : call'[m].state = "emit" => call'[m] = call[m]
    <2>1. /\ call[n] \in Call
          /\ call' = [call EXCEPT ![n] = [call[n] EXCEPT !.state = "failed"]]
      BY <1>3 DEF Fail, TypeInv, TypeOK
    <2>2. [call[n] EXCEPT !.state = "failed"].state # "emit"
      BY <2>1 DEF Call
    <2>. QED
      BY <2>1, <2>2 DEF TypeInv, TypeOK
  <1>4. ASSUME NEW h \in Handlers, Resume(h)
        PROVE  \A n \in Numbers : call'[n].state = "emit" => call'[n] = call[n]
    BY <1>2, <1>4 DEF TypeInv, TypeOK
  <1>5. call' = call \/ (\E h \in Handlers : Resume(h)) \/ \E n \in Numbers : Fail(n)
    BY DEF Next, Submit, Abort, MarkAsRead, Rest, vars, serviceVars
  <1>. QED
    BY <1>1, <1>3, <1>4, <1>5

\* All steps keep the connections and their users.
LEMMA SocketInductive ==
    /\ Init => SocketInv
    /\ TypeInv /\ SocketInv /\ [Next]_vars => SocketInv'
  <1>1. ASSUME Init PROVE SocketInv
    <2>1. \A n \in Numbers : call[n].state = "none"
      BY <1>1 DEF Init, NoCall
    <2>2. IdsOwn
      BY <1>1, <2>1, NumberFacts DEF Init, IdsOwn
    <2>3. LatestKnown
      BY <1>1 DEF Init, LatestKnown, IsLatest
    <2>4. ReadKnown
      BY <2>1 DEF ReadKnown
    <2>. QED
      BY <1>1, <2>2, <2>3, <2>4
         DEF Init, SocketInv, PushesArePersonal, ConnectedIsReached
  <1>2. ASSUME TypeInv, SocketInv, [Next]_vars PROVE SocketInv'
    <2>1. CASE ~ Realtime /\ \A n \in Numbers : ~ Serve(n)
      <3>1. /\ UNCHANGED <<socketVars, pushed, missed, disordered, claimed>>
            /\ \A n \in Numbers : call'[n].state = "emit" => call'[n] = call[n]
        BY <1>2, <2>1, HandlersDoNotEmit
      <3>. QED
        BY <1>2, <3>1, OtherSocket
    <2>2. ASSUME NEW n \in Numbers, Serve(n) PROVE SocketInv'
      <3>1. UNCHANGED socketVars /\ UNCHANGED <<disordered, claimed>>
        BY <2>2 DEF Serve, Work
      <3>2. CASE StoreNote(n)
        <4>1. \A m \in Numbers : call'[m].state = "emit" => call'[m] = call[m]
          <5>1. /\ call[n] \in Call
                /\ call' = [call EXCEPT ![n] = [call[n] EXCEPT !.state = "push"]]
            BY <1>2, <3>2 DEF StoreNote, TypeInv, TypeOK
          <5>2. [call[n] EXCEPT !.state = "push"].state # "emit"
            BY <5>1 DEF Call
          <5>. QED
            BY <1>2, <5>1, <5>2 DEF TypeInv, TypeOK
        <4>2. UNCHANGED <<pushed, missed>>
          BY <3>2 DEF StoreNote
        <4>. QED
          BY <1>2, <3>1, <4>1, <4>2, OtherSocket
      <3>3. CASE ReadRecipient(n)
        BY <1>2, <3>1, <3>3, ReadSocket
      <3>4. CASE Emit(n)
        BY <1>2, <3>1, <3>4, EmitSocket
      <3>. QED
        BY <2>2, <3>2, <3>3, <3>4 DEF Serve, Work
    <2>3. CASE Realtime
      <3>1. UNCHANGED <<call, pushed, missed>>
        BY <2>3 DEF Realtime, serviceVars
      <3>. QED
        BY <1>2, <2>3, <3>1, ConnectSocket, UpdateSocket, DisconnectSocket,
           PutBackSocket, ClaimSocket DEF Realtime
    <2>. QED
      BY <2>1, <2>2, <2>3
  <1>. QED
    BY <1>1, <1>2

\* A note is pushed to connections opened in the name of its recipient alone,
\* unless he has put another id into his document: all else that moves socket
\* ids moves them between that document, its copies and the hooks.
THEOREM PushesStayPersonal == Spec => []PushesArePersonal
  <1>1. SocketInv => PushesArePersonal
    BY DEF SocketInv
  <1>. QED
    BY <1>1, TypeInductive, SocketInductive, PTL DEF Spec

\* Who is connected is reached, unless his id was written after the hook had read
\* it, an older one has taken its place, or he has put in one of his own:
\* handleDisconnect need not do anything for that.
THEOREM ConnectedAreReached == Spec => []ConnectedIsReached
  <1>1. SocketInv => ConnectedIsReached
    BY DEF SocketInv
  <1>. QED
    BY <1>1, TypeInductive, SocketInductive, PTL DEF Spec

-----------------------------------------------------------------------------
(* News and answers                                                        *)

NewsTo(n, u) == [no |-> n, kind |-> "news", to |-> u]

\* A number that no request has yet has left no trace.
Untouched(n) ==
    /\ call[n].state = "none"
    /\ answer[n] = "none"
    /\ n \notin saved
    /\ \A note \in notes : note.no # n

\* What is done of a request when its handler gets to a step.
ServingOK(h) ==
    LET j == job[h]
        n == job[h].no
    IN  /\ n <= accepted
        /\ asked[n].op = j.op
        /\ asked[n].from = j.from
        /\ asked[n].to = j.to
        /\ j.op \in TellOnly => j.pc \in {"tell", "wait"}
        /\ j.op \in SaveFirst /\ j.pc # "save" => n \in saved
        /\ j.op \in TellFirst /\ j.pc \in {"save", "hook", "waitLow"} => Noted(n)
        /\ j.pc \in {"hook", "waitLow"} => n \in saved
        /\ j.pc = "wait" => call[n].kind = "news" /\ call[n].state # "none"

\* A call c for request n, which is j: it has told everyone but those who are
\* left.
Progress(n, j, c, ns, done) ==
    LET who == Recipients(j.op, j.from, j.to)
    IN  /\ j.op \in SaveFirst /\ c.state # "none" => n \in done
        /\ c.state = "done" => c.due = << >>
        /\ c.kind = "news" =>
             /\ c.state \in {"store", "push", "emit", "done"} =>
                  \A i \in DOMAIN who :
                    \/ NewsTo(n, who[i]) \in ns
                    \/ \E k \in 1 .. Len(c.due) : c.due[k] = who[i]
             /\ c.state \in {"push", "emit"} => NewsTo(n, Head(c.due)) \in ns

CallProgress(n) == Progress(n, asked[n], call[n], notes, saved)

NewsInv ==
    /\ \A n \in Numbers : n > accepted => Untouched(n)
    /\ \A h \in Handlers : ~ At(h, "idle") =>
         /\ ServingOK(h)
         /\ \A g \in Handlers \ {h} : ~ At(g, "idle") => job[g].no # job[h].no
    /\ \A n \in Numbers : CallProgress(n)
    /\ OkMeansDone
    /\ NewsInOrder

\* A call that is done has told everyone.
LEMMA DoneIsNoted ==
    ASSUME NewsInv, NEW n \in Numbers, call[n].kind = "news",
           call[n].state = "done"
    PROVE  Noted(n)
  <1>1. call[n].due = << >>
    BY DEF NewsInv, CallProgress, Progress
  <1>2. \A k \in 1 .. Len(call[n].due) : FALSE
    BY <1>1
  <1>. QED
    BY <1>2 DEF NewsInv, CallProgress, Progress, Noted, NewsTo

\* Notes and what is saved stay.
LEMMA ProgressStays ==
    ASSUME NEW n, NEW j, NEW c, NEW ns, NEW done, NEW more, NEW others,
           Progress(n, j, c, ns, done), ns \subseteq more, done \subseteq others
    PROVE  Progress(n, j, c, more, others)
  BY DEF Progress

\* Notes stay, so that what has been told stays told.
LEMMA NotedStays ==
    ASSUME NEW n \in Numbers, Noted(n), notes \subseteq notes',
           asked'[n] = asked[n]
    PROVE  Noted(n)'
  BY DEF Noted

\* One handler goes on to a step it is ready for, or is done; its call is its
\* own, and others are not touched.
LEMMA NewsKept ==
    ASSUME TypeInv, NewsInv, NEW h \in Handlers, ~ At(h, "idle"),
           UNCHANGED <<accepted, asked, notes>>,
           NEW n \in Numbers, n = job[h].no,
           \A g \in Handlers \ {h} : job'[g] = job[g],
           job'[h].pc # "idle" => job'[h].no = n /\ ServingOK(h)',
           \A m \in Numbers \ {n} : call'[m] = call[m] /\ answer'[m] = answer[m],
           CallProgress(n)',
           saved \subseteq saved',
           saved' \subseteq saved \cup {n},
           answer'[n] = "ok" => /\ asked[n].op \notin TellOnly => n \in saved'
                                /\ Noted(n)',
           n \in saved' /\ asked[n].op \in TellFirst => Noted(n)'
    PROVE  NewsInv'
  <1>1. /\ n <= accepted /\ accepted \in Nat
        /\ \A g \in Handlers \ {h} : ~ At(g, "idle") => job[g].no # n
    BY NumberFacts DEF NewsInv, ServingOK, TypeInv, TypeOK
  <1>2. \A m \in Numbers : Noted(m) <=> Noted(m)'
    BY DEF Noted
  <1>3. \A m \in Numbers : m > accepted' => Untouched(m)'
    BY <1>1, NumberFacts DEF NewsInv, Untouched, Numbers
  <1>4. ASSUME NEW g \in Handlers, ~ At(g, "idle")'
        PROVE  ServingOK(g)'
    <2>1. CASE g = h
      BY <1>4, <2>1 DEF At
    <2>2. CASE g # h
      <3>1. job'[g] = job[g] /\ ~ At(g, "idle")
        BY <1>4, <2>2 DEF At
      <3>2. /\ ServingOK(g) /\ job[g].no # n /\ job[g].no \in Numbers
        BY <1>1, <2>2, <3>1, StepType DEF NewsInv
      <3>3. call'[job[g].no] = call[job[g].no]
        BY <3>2
      <3>. QED
        BY <1>2, <3>1, <3>2, <3>3 DEF ServingOK
    <2>. QED
      BY <2>1, <2>2
  <1>5. ASSUME NEW f \in Handlers, NEW g \in Handlers \ {f},
               ~ At(f, "idle")', ~ At(g, "idle")'
        PROVE  job'[g].no # job'[f].no
    <2>1. \A e \in Handlers : ~ At(e, "idle")' =>
            ~ At(e, "idle") /\ job'[e].no = job[e].no
      BY DEF At
    <2>. QED
      BY <1>5, <2>1 DEF NewsInv
  <1>6. ASSUME NEW m \in Numbers PROVE CallProgress(m)'
    <2>1. CASE m = n
      BY <2>1
    <2>2. CASE m # n
      <3>1. call'[m] = call[m] /\ asked'[m] = asked[m] /\ notes' = notes
        BY <2>2
      <3>. QED
        BY <3>1, ProgressStays DEF NewsInv, CallProgress
    <2>. QED
      BY <2>1, <2>2
  <1>7. OkMeansDone'
    BY <1>2 DEF NewsInv, OkMeansDone
  <1>8. NewsInOrder'
    BY <1>2 DEF NewsInv, NewsInOrder
  <1>. QED
    BY <1>3, <1>4, <1>5, <1>6, <1>7, <1>8 DEF NewsInv

\* A handler that ends with an error promises nothing.
LEMMA ErrorNews ==
    ASSUME TypeInv, NewsInv, NEW h \in Handlers, ~ At(h, "idle"),
           End(h, "error"), UNCHANGED <<accepted, asked, notes, call, saved>>
    PROVE  NewsInv'
  <1>1. PICK n \in Numbers : n = job[h].no
    BY StepType
  <1>2. CallProgress(n)'
    BY <1>1 DEF NewsInv, CallProgress
  <1>3. n \in saved /\ asked[n].op \in TellFirst => Noted(n)'
    BY <1>1 DEF NewsInv, NewsInOrder, Noted
  <1>. QED
    BY <1>1, <1>2, <1>3, EndType, NewsKept DEF Idle

\* After the hook a handler still has to tell, or has told and saved.
LEMMA AfterHookNews ==
    ASSUME TypeInv, NewsInv, NEW h \in Handlers,
           job[h].pc \in {"hook", "waitLow"},
           AfterHook(h), UNCHANGED <<accepted, asked, notes, call, saved>>
    PROVE  NewsInv'
  <1>0. PICK n \in Numbers :
          n = job[h].no /\ ~ At(h, "idle") /\ job[h].op \in Ops
    BY StepType DEF At
  <1>5. ServingOK(h) /\ n \in saved
    BY <1>0 DEF NewsInv, ServingOK
  <1>1. CallProgress(n)'
    BY <1>0 DEF NewsInv, CallProgress
  <1>2. asked[n].op \in TellFirst => Noted(n)'
    BY <1>0, <1>5 DEF NewsInv, NewsInOrder, Noted
  <1>3. CASE job[h].op \in SaveFirst
    <2>1. Goto(h, "tell") /\ UNCHANGED answer
      BY <1>3 DEF AfterHook
    <2>2. /\ job'[h].pc = "tell" /\ job'[h].no = n /\ job'[h].op = job[h].op
          /\ job'[h].from = job[h].from /\ job'[h].to = job[h].to
          /\ \A g \in Handlers \ {h} : job'[g] = job[g]
      BY <1>0, <2>1, GotoType
    <2>3. ServingOK(h)'
      BY <1>0, <1>3, <1>5, <2>2 DEF ServingOK, SaveFirst, TellFirst, TellOnly
    <2>4. answer[n] = "ok" => /\ asked[n].op \notin TellOnly => n \in saved'
                              /\ Noted(n)'
      BY <1>0 DEF NewsInv, OkMeansDone, Noted
    <2>. QED
      BY <1>0, <1>1, <1>2, <2>1, <2>2, <2>3, <2>4, NewsKept
  <1>4. CASE job[h].op \notin SaveFirst
    <2>1. End(h, "ok")
      BY <1>4 DEF AfterHook
    <2>2. job[h].op \in TellFirst
      BY <1>0, <1>4, <1>5 DEF Ops, ServingOK, TellOnly
    <2>3. asked[n].op \in TellFirst
      BY <1>0, <1>5, <2>2 DEF ServingOK
    <2>. QED
      BY <1>0, <1>1, <1>2, <1>5, <2>1, <2>3, EndType, NewsKept DEF Idle
  <1>. QED
    BY <1>3, <1>4

\* The steps of a calling handler: it tells after what it saves, or saves after
\* what it tells, and answers when both are done.
LEMMA ProceedNews ==
    ASSUME TypeInv, NewsInv, NEW h \in Handlers, Resume(h)
    PROVE  NewsInv'
  <1>0. UNCHANGED <<accepted, asked, notes>>
    BY DEF Resume, Proceed, historyVars
  <1>1. CASE Tell(h)
    <2>1. ~ At(h, "idle") /\ job[h].pc = "tell" /\ UNCHANGED saved
      BY <1>1 DEF Tell, At
    <2>2. PICK n \in Numbers : n = job[h].no
      BY <2>1, StepType
    <2>3. ServingOK(h) /\ job[h] \in Job
      BY <2>1, StepType DEF NewsInv
    <2>4. CASE End(h, "error") /\ UNCHANGED call
      BY <1>0, <2>1, <2>4, ErrorNews
    <2>5. CASE ~ (End(h, "error") /\ UNCHANGED call)
      <3>. DEFINE who == Recipients(job[h].op, job[h].from, job[h].to)
                  c == NewsCall(who)
      <3>1. /\ call' = [call EXCEPT ![n] = c]
            /\ Goto(h, "wait")
            /\ UNCHANGED answer
        BY <1>1, <2>2, <2>5 DEF Tell, NewsCall, NoCall
      <3>2. /\ call'[n] = c
            /\ \A m \in Numbers \ {n} : call'[m] = call[m]
        BY <3>1 DEF TypeInv, TypeOK
      <3>3. /\ job'[h].pc = "wait" /\ job'[h].no = n /\ job'[h].op = job[h].op
            /\ job'[h].from = job[h].from /\ job'[h].to = job[h].to
            /\ \A g \in Handlers \ {h} : job'[g] = job[g]
        BY <2>1, <2>2, <3>1, GotoType
      <3>4. ServingOK(h)'
        BY <1>0, <2>1, <2>2, <2>3, <3>2, <3>3 DEF ServingOK, NewsCall
      <3>5. CallProgress(n)'
        <4>1. asked[n].op \in SaveFirst => n \in saved
          BY <2>1, <2>2, <2>3 DEF ServingOK
        <4>2. Recipients(asked[n].op, asked[n].from, asked[n].to) = who
          BY <2>2, <2>3 DEF ServingOK
        <4>3. DOMAIN who = 1 .. Len(who)
          <5>1. who \in Seq(Members)
            BY <2>1, StepType, RecipientsType
          <5>. QED
            BY <5>1
        <4>4. Progress(n, asked[n], c, notes, saved)
          BY <4>1, <4>2, <4>3 DEF Progress, NewsCall
        <4>. QED
          BY <1>0, <2>1, <3>2, <4>4 DEF CallProgress
      <3>6. /\ answer[n] = "ok" => /\ asked[n].op \notin TellOnly => n \in saved
                                   /\ Noted(n)'
            /\ n \in saved /\ asked[n].op \in TellFirst => Noted(n)'
        BY <1>0 DEF NewsInv, OkMeansDone, NewsInOrder, Noted
      <3>. QED
        BY <1>0, <2>1, <2>2, <3>1, <3>2, <3>3, <3>4, <3>5, <3>6, NewsKept
    <2>. QED
      BY <2>4, <2>5
  <1>2. CASE Told(h)
    <2>1. ~ At(h, "idle") /\ job[h].pc = "wait" /\ UNCHANGED <<saved, call>>
      BY <1>2 DEF Told, At
    <2>2. PICK n \in Numbers : n = job[h].no
      BY <2>1, StepType
    <2>3. ServingOK(h) /\ job[h] \in Job /\ job[h].op \in Ops
      BY <2>1, StepType DEF NewsInv
    <2>4. Noted(n)
      BY <1>2, <2>1, <2>2, <2>3, DoneIsNoted DEF Told, ServingOK
    <2>5. Noted(n)' /\ CallProgress(n)'
      BY <1>0, <2>1, <2>4, NotedStays DEF NewsInv, CallProgress
    <2>6. CASE Goto(h, "save") /\ UNCHANGED answer /\ job[h].op \in TellFirst
      <3>1. /\ job'[h].pc = "save" /\ job'[h].no = n /\ job'[h].op = job[h].op
            /\ job'[h].from = job[h].from /\ job'[h].to = job[h].to
            /\ \A g \in Handlers \ {h} : job'[g] = job[g]
        BY <2>1, <2>2, <2>6, GotoType
      <3>2. ServingOK(h)'
        BY <1>0, <2>1, <2>2, <2>3, <2>5, <2>6, <3>1
           DEF ServingOK, SaveFirst, TellFirst, TellOnly
      <3>3. answer[n] = "ok" => (asked[n].op \notin TellOnly => n \in saved)
        BY DEF NewsInv, OkMeansDone
      <3>. QED
        BY <1>0, <2>1, <2>2, <2>5, <2>6, <3>1, <3>2, <3>3, NewsKept
    <2>7. CASE End(h, "error")
      BY <1>0, <2>1, <2>7, ErrorNews
    <2>8. \/ Goto(h, "save") /\ UNCHANGED answer /\ job[h].op \in TellFirst
          \/ End(h, "error")
          \/ End(h, "ok") /\ job[h].op \notin TellFirst
      BY <1>2 DEF Told, TellFirst
    <2>9. CASE End(h, "ok") /\ job[h].op \notin TellFirst
      <3>1. asked[n].op \notin TellOnly => n \in saved
        BY <2>1, <2>2, <2>3, <2>9 DEF ServingOK, Ops
      <3>. QED
        BY <1>0, <2>1, <2>2, <2>5, <2>9, <3>1, EndType, NewsKept DEF Idle
    <2>. QED
      BY <2>6, <2>7, <2>8, <2>9
  <1>3. CASE Save(h)
    <2>1. /\ ~ At(h, "idle") /\ job[h].pc = "save"
          /\ Goto(h, "hook") /\ UNCHANGED <<call, answer>>
      BY <1>3 DEF Save, At
    <2>2. PICK n \in Numbers : n = job[h].no
      BY <2>1, StepType
    <2>3. ServingOK(h) /\ job[h] \in Job /\ saved' = saved \cup {n}
      BY <1>3, <2>1, <2>2, StepType DEF NewsInv, Save
    <2>4. /\ job'[h].pc = "hook" /\ job'[h].no = n /\ job'[h].op = job[h].op
          /\ job'[h].from = job[h].from /\ job'[h].to = job[h].to
          /\ \A g \in Handlers \ {h} : job'[g] = job[g]
      BY <2>1, <2>2, GotoType
    <2>5. Noted(n) <=> Noted(n)'
      BY <1>0 DEF Noted
    <2>6. ServingOK(h)'
      BY <1>0, <2>1, <2>2, <2>3, <2>4, <2>5 DEF ServingOK, TellFirst, TellOnly
    <2>7. asked[n].op \in TellFirst => Noted(n)'
      BY <2>1, <2>2, <2>3, <2>5 DEF ServingOK
    <2>8. CallProgress(n)'
      <3>1. Progress(n, asked[n], call[n], notes, saved')
        BY <2>3, ProgressStays DEF NewsInv, CallProgress
      <3>. QED
        BY <1>0, <2>1, <3>1 DEF CallProgress
    <2>9. answer[n] = "ok" => Noted(n)'
      BY <2>5 DEF NewsInv, OkMeansDone
    <2>. QED
      BY <1>0, <2>1, <2>2, <2>3, <2>4, <2>6, <2>7, <2>8, <2>9, NewsKept
  <1>4. CASE Hook(h)
    <2>1. ~ At(h, "idle") /\ job[h].pc = "hook" /\ UNCHANGED saved
      BY <1>4 DEF Hook, At
    <2>2. CASE AfterHook(h) /\ UNCHANGED call
      BY <1>0, <2>1, <2>2, AfterHookNews
    <2>3. CASE ~ (AfterHook(h) /\ UNCHANGED call)
      <3>1. PICK n \in Numbers : n = job[h].no
        BY <2>1, StepType
      <3>2. ServingOK(h) /\ job[h] \in Job
        BY <2>1, StepType DEF NewsInv
      <3>. DEFINE c == LowCall(job[h].from)
      <3>3. /\ call' = [call EXCEPT ![n] = c]
            /\ Goto(h, "waitLow")
            /\ UNCHANGED answer
        BY <1>4, <2>3, <3>1 DEF Hook, LowCall, NoCall
      <3>4. /\ call'[n] = c
            /\ \A m \in Numbers \ {n} : call'[m] = call[m]
        BY <3>3 DEF TypeInv, TypeOK
      <3>5. /\ job'[h].pc = "waitLow" /\ job'[h].no = n
            /\ job'[h].op = job[h].op
            /\ job'[h].from = job[h].from /\ job'[h].to = job[h].to
            /\ \A g \in Handlers \ {h} : job'[g] = job[g]
        BY <2>1, <3>1, <3>3, GotoType
      <3>6. Noted(n) <=> Noted(n)'
        BY <1>0 DEF Noted
      <3>7. ServingOK(h)'
        BY <1>0, <2>1, <3>1, <3>2, <3>5, <3>6 DEF ServingOK, TellOnly
      <3>8. CallProgress(n)'
        <4>1. Progress(n, asked[n], c, notes, saved)
          BY <2>1, <3>1, <3>2 DEF Progress, ServingOK, LowCall
        <4>. QED
          BY <1>0, <2>1, <3>4, <4>1 DEF CallProgress
      <3>9. /\ answer[n] = "ok" => /\ asked[n].op \notin TellOnly => n \in saved
                                   /\ Noted(n)'
            /\ n \in saved /\ asked[n].op \in TellFirst => Noted(n)'
        BY <3>6 DEF NewsInv, OkMeansDone, NewsInOrder
      <3>. QED
        BY <1>0, <2>1, <3>1, <3>3, <3>4, <3>5, <3>7, <3>8, <3>9, NewsKept
    <2>. QED
      BY <2>2, <2>3
  <1>5. CASE ToldLow(h)
    BY <1>0, <1>5, AfterHookNews DEF ToldLow, At
  <1>6. CASE CallFailed(h)
    BY <1>0, <1>6, ErrorNews DEF CallFailed, At
  <1>. QED
    BY <1>1, <1>2, <1>3, <1>4, <1>5, <1>6 DEF Resume, Proceed

\* A note that is stored, or a call that goes on to its next recipient, keeps
\* what handlers rely on.
LEMMA CallNews ==
    ASSUME TypeInv, NewsInv, NEW n \in Numbers,
           UNCHANGED <<saved, job, answer, accepted, asked>>,
           notes \subseteq notes',
           \A note \in notes' \ notes : note.no = n,
           call[n].state # "none", call'[n].state # "none",
           call'[n].kind = call[n].kind,
           \A m \in Numbers \ {n} : call'[m] = call[m],
           CallProgress(n)'
    PROVE  NewsInv'
  <1>1. n <= accepted
    BY NumberFacts DEF NewsInv, Untouched, TypeInv, TypeOK, Numbers
  <1>2. \A m \in Numbers : Noted(m) => Noted(m)'
    BY DEF Noted
  <1>3. \A m \in Numbers : m > accepted' => Untouched(m)'
    BY <1>1, NumberFacts DEF NewsInv, Untouched, TypeInv, TypeOK, Numbers
  <1>4. \A h \in Handlers : ~ At(h, "idle")' => ServingOK(h)'
    <2>. SUFFICES ASSUME NEW h \in Handlers, ~ At(h, "idle")
                  PROVE  ServingOK(h)'
      BY DEF At
    <2>1. PICK m \in Numbers : m = job[h].no
      BY StepType
    <2>2. ServingOK(h)
      BY DEF NewsInv
    <2>3. /\ call'[m].kind = call[m].kind
          /\ call[m].state # "none" => call'[m].state # "none"
      OBVIOUS
    <2>. QED
      BY <1>2, <2>1, <2>2, <2>3 DEF ServingOK
  <1>5. \A m \in Numbers : CallProgress(m)'
    <2>1. ASSUME NEW m \in Numbers, m # n PROVE CallProgress(m)'
      <3>1. call'[m] = call[m]
        BY <2>1
      <3>2. Progress(m, asked[m], call[m], notes', saved)
        BY ProgressStays DEF NewsInv, CallProgress
      <3>. QED
        BY <3>1, <3>2 DEF CallProgress
    <2>. QED
      BY <2>1
  <1>6. OkMeansDone'
    BY <1>2 DEF NewsInv, OkMeansDone
  <1>7. NewsInOrder'
    <2>1. asked[n].op \in SaveFirst => n \in saved
      BY DEF NewsInv, CallProgress, Progress
    <2>. QED
      BY <1>2, <2>1 DEF NewsInv, NewsInOrder
  <1>8. \A f \in Handlers : \A g \in Handlers \ {f} :
          ~ At(f, "idle")' /\ ~ At(g, "idle")' => job'[g].no # job'[f].no
    BY DEF NewsInv, At
  <1>. QED
    BY <1>3, <1>4, <1>5, <1>6, <1>7, <1>8 DEF NewsInv

\* The steps of notification-service: a recipient leaves the call only after
\* the note has been stored.
LEMMA WorkNews ==
    ASSUME TypeInv, NewsInv, NEW n \in Numbers, Serve(n)
    PROVE  NewsInv'
  <1>0. UNCHANGED <<saved, job, answer, accepted, asked>>
    BY DEF Serve, Work
  <1>. DEFINE c == call[n]
              who == Recipients(asked[n].op, asked[n].from, asked[n].to)
  <1>1. Progress(n, asked[n], c, notes, saved)
    BY DEF NewsInv, CallProgress
  <1>2. CASE StoreNote(n)
    <2>1. c.state = "store" /\ c \in Call
      BY <1>2 DEF StoreNote, TypeInv, TypeOK
    <2>2. /\ call'[n] = [c EXCEPT !.state = "push"]
          /\ \A m \in Numbers \ {n} : call'[m] = call[m]
      BY <1>2 DEF StoreNote, TypeInv, TypeOK
    <2>3. /\ call'[n].state = "push"
          /\ call'[n].kind = c.kind
          /\ call'[n].due = c.due
      BY <2>1, <2>2 DEF Call
    <2>4. notes' = notes \cup {[no |-> n, kind |-> c.kind, to |-> Head(c.due)]}
      BY <1>2 DEF StoreNote
    <2>5. Progress(n, asked[n], call'[n], notes', saved)
      <3>1. notes \subseteq notes'
            /\ (c.kind = "news" => NewsTo(n, Head(c.due)) \in notes')
        BY <2>4 DEF NewsTo
      <3>. QED
        BY <1>1, <2>1, <2>3, <3>1 DEF Progress
    <2>6. CallProgress(n)'
      BY <1>0, <2>5 DEF CallProgress
    <2>7. \A note \in notes' \ notes : note.no = n
      BY <2>4
    <2>. QED
      BY <1>0, <2>1, <2>2, <2>3, <2>4, <2>6, <2>7, CallNews
  <1>3. CASE ReadRecipient(n)
    <2>1. c.state = "push" /\ notes' = notes
      BY <1>3 DEF ReadRecipient
    <2>2. /\ call'[n].state = "emit"
          /\ call'[n].due = c.due
          /\ call'[n].kind = c.kind
          /\ call' = [call EXCEPT ![n] = call'[n]]
      BY <1>3, ReadCall
    <2>3. \A m \in Numbers \ {n} : call'[m] = call[m]
      BY <2>2 DEF TypeInv, TypeOK
    <2>4. Progress(n, asked[n], call'[n], notes', saved)
      BY <1>1, <2>1, <2>2 DEF Progress
    <2>5. CallProgress(n)'
      BY <1>0, <2>4 DEF CallProgress
    <2>. QED
      BY <1>0, <2>1, <2>2, <2>3, <2>5, CallNews
  <1>4. CASE Emit(n)
    <2>1. c.state = "emit" /\ notes' = notes
      BY <1>4 DEF Emit
    <2>2. /\ c.due \in Seq(Members)
          /\ c.due # << >>
          /\ call'[n].due = Tail(c.due)
          /\ call'[n].kind = c.kind
          /\ call'[n].state \in {"store", "done"}
          /\ call'[n].state = "done" <=> Tail(c.due) = << >>
          /\ call' = [call EXCEPT ![n] = call'[n]]
      BY <1>4, EmittedCall
    <2>3. \A m \in Numbers \ {n} : call'[m] = call[m]
      BY <2>2 DEF TypeInv, TypeOK
    <2>4. /\ Len(Tail(c.due)) = Len(c.due) - 1
          /\ Len(c.due) \in Nat
          /\ \A k \in 1 .. Len(Tail(c.due)) : Tail(c.due)[k] = c.due[k + 1]
          /\ Head(c.due) = c.due[1]
      BY <2>2, HeadTailProperties
    <2>5. ASSUME NEW k \in 1 .. Len(c.due), k # 1
          PROVE  \E i \in 1 .. Len(Tail(c.due)) : Tail(c.due)[i] = c.due[k]
      <3>1. k - 1 \in 1 .. Len(Tail(c.due)) /\ (k - 1) + 1 = k
        BY <2>4, <2>5
      <3>. QED
        BY <2>4, <3>1
    <2>6. ASSUME c.kind = "news", NEW i \in DOMAIN who
          PROVE  \/ NewsTo(n, who[i]) \in notes
                 \/ \E k \in 1 .. Len(Tail(c.due)) : Tail(c.due)[k] = who[i]
      <3>1. CASE NewsTo(n, who[i]) \in notes
        BY <3>1
      <3>2. CASE NewsTo(n, who[i]) \notin notes
        <4>1. PICK k \in 1 .. Len(c.due) : c.due[k] = who[i]
          BY <1>1, <2>1, <2>6, <3>2 DEF Progress
        <4>2. k # 1
          BY <1>1, <2>1, <2>4, <2>6, <3>2, <4>1 DEF Progress
        <4>. QED
          BY <2>5, <4>1, <4>2
      <3>. QED
        BY <3>1, <3>2
    <2>7. Progress(n, asked[n], call'[n], notes', saved)
      <3>1. asked[n].op \in SaveFirst => n \in saved
        BY <1>1, <2>1 DEF Progress
      <3>. QED
        BY <2>1, <2>2, <2>6, <3>1 DEF Progress
    <2>8. CallProgress(n)'
      BY <1>0, <2>7 DEF CallProgress
    <2>. QED
      BY <1>0, <2>1, <2>2, <2>3, <2>8, CallNews
  <1>. QED
    BY <1>2, <1>3, <1>4 DEF Serve, Work

\* A new request has left no trace yet.
LEMMA SubmitNews ==
    ASSUME TypeInv, NewsInv, NEW h \in Handlers, Submit(h)
    PROVE  NewsInv'
  <1>1. PICK j :
          /\ JobOK(j) /\ j.op \in Ops /\ j.pc = FirstStep(j.op)
          /\ j.no = accepted + 1 /\ j.no \in Numbers
          /\ j.from \in Customers /\ j.to \in Customers
          /\ job' = [job EXCEPT ![h] = j]
          /\ asked' = [asked EXCEPT ![j.no] = j]
          /\ accepted' = j.no
    BY SubmitType
  <1>2. PICK n \in Numbers : n = j.no
    BY <1>1
  <1>3. /\ UNCHANGED <<saved, notes, call, answer>>
        /\ accepted \in Nat /\ n > accepted
    BY <1>1, <1>2, NumberFacts DEF Submit, TypeInv, TypeOK
  <1>4. /\ asked'[n] = j
        /\ \A m \in Numbers \ {n} : asked'[m] = asked[m]
        /\ job'[h] = j
        /\ \A g \in Handlers \ {h} : job'[g] = job[g]
    BY <1>1, <1>2 DEF TypeInv, TypeOK
  <1>5. Untouched(n)
    BY <1>3 DEF NewsInv
  <1>6. \A m \in Numbers \ {n} : Noted(m) <=> Noted(m)'
    BY <1>3, <1>4 DEF Noted
  <1>7. \A m \in Numbers : m > accepted' => Untouched(m)'
    BY <1>1, <1>3, NumberFacts DEF NewsInv, Untouched, Numbers
  <1>8. \A g \in Handlers \ {h} : ~ At(g, "idle")' =>
          /\ ~ At(g, "idle")
          /\ job'[g] = job[g]
          /\ job[g].no \in Numbers \ {n}
          /\ job[g].no <= accepted
    <2>. SUFFICES ASSUME NEW g \in Handlers \ {h}, ~ At(g, "idle")'
                  PROVE  /\ ~ At(g, "idle")
                         /\ job'[g] = job[g]
                         /\ job[g].no \in Numbers \ {n}
                         /\ job[g].no <= accepted
      OBVIOUS
    <2>1. ~ At(g, "idle") /\ job'[g] = job[g]
      BY <1>4 DEF At
    <2>2. job[g].no \in Numbers /\ job[g].no <= accepted
      BY <2>1, StepType DEF NewsInv, ServingOK
    <2>. QED
      BY <1>3, <2>1, <2>2 DEF Numbers
  <1>9. \A g \in Handlers : ~ At(g, "idle")' => ServingOK(g)'
    <2>1. ASSUME NEW g \in Handlers \ {h}, ~ At(g, "idle")' PROVE ServingOK(g)'
      <3>1. PICK m \in Numbers \ {n} : m = job[g].no
        BY <1>8, <2>1
      <3>2. ServingOK(g) /\ job'[g] = job[g]
        BY <1>8, <2>1 DEF NewsInv
      <3>3. m <= accepted'
        BY <1>1, <1>3, <1>8, <2>1, <3>1 DEF Numbers
      <3>. QED
        BY <1>3, <1>4, <1>6, <3>1, <3>2, <3>3 DEF ServingOK
    <2>2. ServingOK(h)'
      <3>1. /\ j.op \in SaveFirst => j.pc = "save"
            /\ j.op \notin SaveFirst => j.pc = "tell"
            /\ j.op \in SaveFirst => j.op \notin TellFirst \cup TellOnly
        BY <1>1 DEF FirstStep, SaveFirst, TellFirst, TellOnly
      <3>2. n <= accepted'
        BY <1>1, <1>2 DEF Numbers
      <3>. QED
        BY <1>2, <1>4, <3>1, <3>2 DEF ServingOK
    <2>. QED
      BY <2>1, <2>2
  <1>10. \A f \in Handlers : \A g \in Handlers \ {f} :
           ~ At(f, "idle")' /\ ~ At(g, "idle")' => job'[g].no # job'[f].no
    BY <1>2, <1>4, <1>8 DEF NewsInv
  <1>11. \A m \in Numbers : CallProgress(m)'
    <2>1. ASSUME NEW m \in Numbers \ {n} PROVE CallProgress(m)'
      BY <1>3, <1>4 DEF NewsInv, CallProgress
    <2>2. CallProgress(n)'
      BY <1>3, <1>5 DEF CallProgress, Progress, Untouched
    <2>. QED
      BY <2>1, <2>2
  <1>12. OkMeansDone' /\ NewsInOrder'
    BY <1>3, <1>4, <1>5, <1>6 DEF NewsInv, OkMeansDone, NewsInOrder, Untouched
  <1>. QED
    BY <1>7, <1>9, <1>10, <1>11, <1>12 DEF NewsInv

\* All steps keep news and answers in order.
LEMMA NewsInductive ==
    /\ Init => NewsInv
    /\ TypeInv /\ NewsInv /\ [Next]_vars => NewsInv'
  <1>1. ASSUME Init PROVE NewsInv
    <2>1. \A n \in Numbers :
            /\ call[n] = NoCall /\ answer[n] = "none" /\ asked[n] = Idle
            /\ n \notin saved
      BY <1>1 DEF Init
    <2>2. \A n \in Numbers : Untouched(n)
      BY <1>1, <2>1 DEF Init, Untouched, NoCall
    <2>3. \A n \in Numbers : CallProgress(n)
      BY <2>1 DEF CallProgress, Progress, NoCall
    <2>4. OkMeansDone /\ NewsInOrder
      BY <1>1, <2>1 DEF Init, OkMeansDone, NewsInOrder
    <2>5. \A h \in Handlers : At(h, "idle")
      BY <1>1 DEF Init, At, Idle
    <2>. QED
      BY <2>2, <2>3, <2>4, <2>5 DEF NewsInv
  <1>2. ASSUME TypeInv, NewsInv, [Next]_vars PROVE NewsInv'
    <2>1. ASSUME UNCHANGED <<saved, notes, job, call, answer, accepted, asked>>
          PROVE  NewsInv'
      <3>1. \A n \in Numbers : CallProgress(n)' /\ Untouched(n)' = Untouched(n)
        BY <1>2, <2>1 DEF NewsInv, CallProgress, Untouched
      <3>2. \A n \in Numbers : Noted(n)' = Noted(n)
        BY <2>1 DEF Noted
      <3>3. \A h \in Handlers : ServingOK(h)' = ServingOK(h)
        BY <2>1 DEF ServingOK, Noted
      <3>4. OkMeansDone' /\ NewsInOrder'
        BY <1>2, <2>1, <3>2 DEF NewsInv, OkMeansDone, NewsInOrder
      <3>. QED
        BY <1>2, <2>1, <3>1, <3>3, <3>4 DEF NewsInv, At
    <2>2. ASSUME NEW h \in Handlers, Abort(h) PROVE NewsInv'
      BY <1>2, <2>2, ErrorNews DEF Abort, historyVars
    <2>3. ASSUME NEW n \in Numbers, Fail(n) PROVE NewsInv'
      <3>1. /\ UNCHANGED <<saved, job, answer, accepted, asked, notes>>
            /\ call[n].state \in {"store", "push", "emit"}
        BY <2>3 DEF Fail, historyVars
      <3>2. /\ call'[n] = [call[n] EXCEPT !.state = "failed"]
            /\ \A m \in Numbers \ {n} : call'[m] = call[m]
            /\ call[n] \in Call
        BY <1>2, <2>3 DEF Fail, TypeInv, TypeOK
      <3>3. call'[n].state = "failed" /\ call'[n].kind = call[n].kind
        BY <3>2 DEF Call
      <3>4. Progress(n, asked[n], call[n], notes, saved)
        BY <1>2 DEF NewsInv, CallProgress
      <3>5. Progress(n, asked[n], call'[n], notes, saved)
        BY <3>1, <3>3, <3>4 DEF Progress
      <3>6. CallProgress(n)'
        BY <3>1, <3>5 DEF CallProgress
      <3>. QED
        BY <1>2, <3>1, <3>2, <3>3, <3>6, CallNews
    <2>4. CASE MarkAsRead \/ Realtime \/ UNCHANGED vars
      BY <2>1, <2>4
         DEF MarkAsRead, Realtime, vars, serviceVars, historyVars
    <2>. QED
      BY <1>2, <2>2, <2>3, <2>4, SubmitNews, ProceedNews, WorkNews
         DEF Next, Rest
  <1>. QED
    BY <1>1, <1>2

\* A client that is told that all went well finds the change stored and a note
\* with everyone it concerns, whatever fails and whoever dies.
THEOREM AnswersHold == Spec => []OkMeansDone
  <1>1. NewsInv => OkMeansDone
    BY DEF NewsInv
  <1>. QED
    BY <1>1, TypeInductive, NewsInductive, PTL DEF Spec

\* Nobody hears of a payment before it is stored, and no refund is stored in
\* any state before all have heard of it.
THEOREM NewsIsInOrder == Spec => []NewsInOrder
  <1>1. NewsInv => NewsInOrder
    BY DEF NewsInv
  <1>. QED
    BY <1>1, TypeInductive, NewsInductive, PTL DEF Spec

-----------------------------------------------------------------------------
(* The refinement of Deliveries                                            *)

\* A call c for request n, which is j, has told all who come before the ones
\* that are left; those are the last of the recipients.
InTurn(n, j, c, ns) ==
    LET who    == Recipients(j.op, j.from, j.to)
        before == Len(who) - Len(c.due)
    IN  c.kind = "news" /\ c.state \in {"store", "push", "emit"} =>
          /\ before \in Nat
          /\ \A k \in 1 .. Len(c.due) : c.due[k] = who[k + before]
          /\ \A k \in 1 .. before : NewsTo(n, who[k]) \in ns

Turn(n) == InTurn(n, asked[n], call[n], notes)

\* Requests up to the last one are known, and their parties.
Known(n) ==
    IF n <= accepted
      THEN asked[n].op \in Ops /\ asked[n].from \in Customers /\ asked[n].to \in Customers
      ELSE asked[n].op = "none"

TurnInv ==
    /\ \A n \in Numbers : Known(n) /\ Turn(n)
    /\ \A h \in Handlers : ~ At(h, "idle") => answer[job[h].no] = "none"

\* What a handler does to request n: it makes a call for it, saves it, or
\* answers it and is done.
Serves(h, n) ==
    /\ UNCHANGED <<notes, accepted, asked>>
    /\ \A g \in Handlers \ {h} : job'[g] = job[g]
    /\ job'[h].pc # "idle" => job'[h].no = n
    /\ \A m \in Numbers \ {n} : call'[m] = call[m]
    /\ \/ call'[n] = call[n]
       \/ call'[n].kind = "low"
       \/ call'[n].due = Recipients(asked[n].op, asked[n].from, asked[n].to)
    /\ \/ UNCHANGED <<answer, saved>>
       \/ /\ asked[n].op \notin TellOnly
          /\ saved' = saved \cup {n}
          /\ UNCHANGED answer
       \/ /\ job'[h].pc = "idle"
          /\ answer' = [answer EXCEPT ![n] = answer'[n]]
          /\ answer'[n] \in {"ok", "error"}
          /\ UNCHANGED saved

\* The end of a handler.
LEMMA EndServes ==
    ASSUME TypeInv, NEW h \in Handlers, NEW result \in {"ok", "error"},
           ~ At(h, "idle"), End(h, result),
           UNCHANGED <<notes, accepted, asked, saved, call>>
    PROVE  Serves(h, job[h].no)
  <1>1. PICK n \in Numbers : n = job[h].no
    BY StepType
  <1>2. /\ job'[h] = Idle /\ answer'[n] = result
        /\ \A g \in Handlers \ {h} : job'[g] = job[g]
    BY <1>1, EndType
  <1>3. answer' = [answer EXCEPT ![n] = answer'[n]]
    BY <1>1, <1>2 DEF End
  <1>. QED
    BY <1>1, <1>2, <1>3 DEF Serves, Idle

\* A handler that goes on.
LEMMA GotoServes ==
    ASSUME TypeInv, NEW h \in Handlers, ~ At(h, "idle"),
           NEW step \in {"tell", "wait", "save", "hook", "waitLow"},
           Goto(h, step), NEW n \in Numbers, n = job[h].no,
           UNCHANGED <<notes, accepted, asked, answer>>,
           \/ saved' = saved
           \/ saved' = saved \cup {n} /\ asked[n].op \notin TellOnly,
           \A m \in Numbers \ {n} : call'[m] = call[m],
           \/ call'[n] = call[n]
           \/ call'[n].kind = "low"
           \/ call'[n].due = Recipients(asked[n].op, asked[n].from, asked[n].to)
    PROVE  Serves(h, n)
  <1>1. job'[h].no = n /\ \A g \in Handlers \ {h} : job'[g] = job[g]
    BY GotoType
  <1>. QED
    BY <1>1 DEF Serves

\* The steps after a hook.
LEMMA AfterHookServes ==
    ASSUME TypeInv, NEW h \in Handlers, ~ At(h, "idle"), AfterHook(h),
           UNCHANGED <<notes, accepted, asked, saved, call>>
    PROVE  Serves(h, job[h].no)
  <1>1. PICK n \in Numbers : n = job[h].no
    BY StepType
  <1>2. CASE job[h].op \in SaveFirst
    BY <1>1, <1>2, GotoServes DEF AfterHook
  <1>3. CASE job[h].op \notin SaveFirst
    BY <1>3, EndServes DEF AfterHook
  <1>. QED
    BY <1>2, <1>3

\* Every step of a handler is one of these.
LEMMA ProceedServes ==
    ASSUME TypeInv, NewsInv, NEW h \in Handlers, Resume(h)
    PROVE  ~ At(h, "idle") /\ Serves(h, job[h].no)
  <1>0. UNCHANGED <<accepted, asked, notes>>
    BY DEF Resume, Proceed, historyVars
  <1>1. ~ At(h, "idle")
    BY DEF Resume, Proceed, Tell, Told, Save, Hook, ToldLow, CallFailed, At
  <1>2. PICK n \in Numbers : n = job[h].no
    BY <1>1, StepType
  <1>3. ServingOK(h)
    BY <1>1 DEF NewsInv
  <1>4. CASE Tell(h)
    <2>1. UNCHANGED saved
      BY <1>4 DEF Tell
    <2>2. CASE End(h, "error") /\ UNCHANGED call
      BY <1>0, <1>1, <2>1, <2>2, EndServes
    <2>3. CASE ~ (End(h, "error") /\ UNCHANGED call)
      <3>. DEFINE c == NewsCall(Recipients(job[h].op, job[h].from, job[h].to))
      <3>1. /\ call' = [call EXCEPT ![n] = c]
            /\ Goto(h, "wait")
            /\ UNCHANGED answer
        BY <1>2, <1>4, <2>3 DEF Tell, NewsCall, NoCall
      <3>2. /\ call'[n] = c
            /\ \A m \in Numbers \ {n} : call'[m] = call[m]
        BY <3>1 DEF TypeInv, TypeOK
      <3>3. c.due = Recipients(asked[n].op, asked[n].from, asked[n].to)
        BY <1>2, <1>3 DEF ServingOK, NewsCall
      <3>. QED
        BY <1>0, <1>1, <1>2, <2>1, <3>1, <3>2, <3>3, GotoServes
    <2>. QED
      BY <2>2, <2>3
  <1>5. CASE Told(h)
    <2>1. UNCHANGED <<saved, call>>
      BY <1>5 DEF Told
    <2>2. CASE Goto(h, "save") /\ UNCHANGED answer
      BY <1>0, <1>1, <1>2, <2>1, <2>2, GotoServes
    <2>3. CASE End(h, "error") \/ End(h, "ok")
      BY <1>0, <1>1, <2>1, <2>3, EndServes
    <2>. QED
      BY <1>5, <2>2, <2>3 DEF Told
  <1>6. CASE Save(h)
    <2>1. /\ saved' = saved \cup {n} /\ UNCHANGED <<call, answer>>
          /\ Goto(h, "hook")
      BY <1>2, <1>6 DEF Save
    <2>2. asked[n].op \notin TellOnly
      BY <1>2, <1>3, <1>6 DEF ServingOK, Save, At
    <2>. QED
      BY <1>0, <1>1, <1>2, <2>1, <2>2, GotoServes
  <1>7. CASE Hook(h)
    <2>1. UNCHANGED saved
      BY <1>7 DEF Hook
    <2>2. CASE AfterHook(h) /\ UNCHANGED call
      BY <1>0, <1>1, <2>1, <2>2, AfterHookServes
    <2>3. CASE ~ (AfterHook(h) /\ UNCHANGED call)
      <3>. DEFINE c == LowCall(job[h].from)
      <3>1. /\ call' = [call EXCEPT ![n] = c]
            /\ Goto(h, "waitLow")
            /\ UNCHANGED answer
        BY <1>2, <1>7, <2>3 DEF Hook, LowCall, NoCall
      <3>2. /\ call'[n] = c
            /\ \A m \in Numbers \ {n} : call'[m] = call[m]
        BY <3>1 DEF TypeInv, TypeOK
      <3>. QED
        BY <1>0, <1>1, <1>2, <2>1, <3>1, <3>2, GotoServes DEF LowCall
    <2>. QED
      BY <2>2, <2>3
  <1>8. CASE ToldLow(h)
    BY <1>0, <1>1, <1>8, AfterHookServes DEF ToldLow
  <1>9. CASE CallFailed(h)
    BY <1>0, <1>1, <1>9, EndServes DEF CallFailed
  <1>. QED
    BY <1>1, <1>4, <1>5, <1>6, <1>7, <1>8, <1>9 DEF Resume, Proceed

\* So is the end of a handler that dies.
LEMMA AbortServes ==
    ASSUME TypeInv, NEW h \in Handlers, Abort(h)
    PROVE  ~ At(h, "idle") /\ Serves(h, job[h].no)
  BY EndServes DEF Abort, historyVars

\* What is known of a request: a sequence of recipients, or none.
LEMMA KnownWho ==
    ASSUME TurnInv, NEW n \in Numbers
    PROVE  Recipients(asked[n].op, asked[n].from, asked[n].to) \in Seq(Members)
  <1>1. CASE asked[n].op \in Ops /\ asked[n].from \in Customers
             /\ asked[n].to \in Customers
    BY <1>1, RecipientsType
  <1>2. CASE asked[n].op = "none"
    BY <1>2 DEF Recipients
  <1>. QED
    BY <1>1, <1>2 DEF TurnInv, Known

\* A call that begins has told nobody.
LEMMA BeginsInTurn ==
    ASSUME NEW n, NEW j, NEW c, NEW ns, c.due = Recipients(j.op, j.from, j.to),
           Recipients(j.op, j.from, j.to) \in Seq(Members)
    PROVE  InTurn(n, j, c, ns)
  <1>. DEFINE who == Recipients(j.op, j.from, j.to)
  <1>1. Len(c.due) = Len(who) /\ Len(who) \in Nat
    OBVIOUS
  <1>2. Len(who) - Len(c.due) = 0
    BY <1>1
  <1>3. \A k \in 1 .. Len(c.due) : c.due[k] = who[k + 0]
    OBVIOUS
  <1>. HIDE DEF who
  <1>. QED
    BY <1>2, <1>3 DEF InTurn, who

\* A handler keeps its request unanswered until it is done, and makes its calls
\* for everyone.
LEMMA ServesTurn ==
    ASSUME TypeInv, NewsInv, TurnInv, NEW h \in Handlers, ~ At(h, "idle"),
           Serves(h, job[h].no)
    PROVE  TurnInv'
  <1>1. PICK n \in Numbers : n = job[h].no
    BY StepType
  <1>2. Serves(h, n)
    BY <1>1
  <1>3. \A m \in Numbers : Known(m)'
    BY <1>2 DEF Serves, TurnInv, Known
  <1>4. \A m \in Numbers \ {n} : Turn(m)'
    BY <1>2 DEF Serves, TurnInv, Turn
  <1>5. Turn(n)'
    <2>1. CASE call'[n] = call[n]
      BY <1>2, <2>1 DEF Serves, TurnInv, Turn
    <2>2. CASE call'[n].kind = "low"
      BY <2>2 DEF Turn, InTurn
    <2>3. CASE call'[n].due = Recipients(asked[n].op, asked[n].from, asked[n].to)
      <3>1. PICK c : c = call'[n]
        OBVIOUS
      <3>2. InTurn(n, asked[n], c, notes)
        BY <2>3, <3>1, KnownWho, BeginsInTurn
      <3>3. InTurn(n, asked[n], call'[n], notes)
        BY <3>1, <3>2
      <3>. QED
        BY <1>2, <3>3 DEF Turn, Serves
    <2>. QED
      BY <1>2, <2>1, <2>2, <2>3 DEF Serves
  <1>6. ASSUME NEW g \in Handlers, ~ At(g, "idle")'
        PROVE  answer'[job'[g].no] = "none"
    <2>1. CASE g = h
      <3>1. job'[h].pc # "idle"
        BY <1>6, <2>1 DEF At
      <3>2. job'[h].no = n /\ answer' = answer
        BY <1>2, <3>1 DEF Serves
      <3>. QED
        BY <1>1, <2>1, <3>2 DEF TurnInv
    <2>2. CASE g # h
      <3>1. job'[g] = job[g] /\ ~ At(g, "idle")
        BY <1>2, <1>6, <2>2 DEF Serves, At
      <3>2. job[g].no # n /\ job[g].no \in Numbers
        BY <1>1, <2>2, <3>1, StepType DEF NewsInv
      <3>3. answer'[job[g].no] = answer[job[g].no]
        BY <1>2, <3>2 DEF Serves, TypeInv, TypeOK
      <3>. QED
        BY <3>1, <3>3 DEF TurnInv
    <2>. QED
      BY <2>1, <2>2
  <1>. QED
    BY <1>3, <1>4, <1>5, <1>6 DEF TurnInv

\* The steps of notification-service take one recipient after the other.
LEMMA WorkTurn ==
    ASSUME TypeInv, NewsInv, TurnInv, NEW n \in Numbers, Serve(n)
    PROVE  TurnInv'
  <1>. DEFINE c == call[n]
              who == Recipients(asked[n].op, asked[n].from, asked[n].to)
              before == Len(who) - Len(c.due)
  <1>0. UNCHANGED <<job, answer, accepted, asked>>
    BY DEF Serve, Work
  <1>1. \A m \in Numbers : Known(m)'
    BY <1>0 DEF TurnInv, Known
  <1>2. \A g \in Handlers : ~ At(g, "idle")' => answer'[job'[g].no] = "none"
    BY <1>0 DEF TurnInv, At
  <1>3. c \in Call /\ c.due \in Seq(Members) /\ Len(c.due) \in Nat
        /\ who \in Seq(Members) /\ Len(who) \in Nat
    BY KnownWho DEF TypeInv, TypeOK, Call
  <1>4. InTurn(n, asked[n], c, notes)
    BY DEF TurnInv, Turn
  <1>5. CASE StoreNote(n)
    <2>1. /\ c.state = "store" /\ notes \subseteq notes'
          /\ call' = [call EXCEPT ![n].state = "push"]
      BY <1>5 DEF StoreNote
    <2>2. /\ call'[n].kind = c.kind /\ call'[n].due = c.due
          /\ \A m \in Numbers \ {n} : call'[m] = call[m]
      BY <1>3, <2>1 DEF Call, TypeInv, TypeOK
    <2>3. ASSUME NEW m \in Numbers \ {n} PROVE Turn(m)'
      <3>. DEFINE d == call[m]
      <3>1. InTurn(m, asked[m], d, notes)
        BY DEF TurnInv, Turn
      <3>. HIDE DEF d
      <3>2. InTurn(m, asked[m], d, notes')
        BY <2>1, <3>1 DEF InTurn
      <3>. QED
        BY <1>0, <2>2, <3>2 DEF Turn, d
    <2>4. InTurn(n, asked[n], call'[n], notes')
      <3>. DEFINE d == call'[n]
      <3>1. d.kind = c.kind /\ d.due = c.due
        BY <2>2
      <3>. HIDE DEF d
      <3>2. InTurn(n, asked[n], d, notes')
        BY <1>4, <2>1, <3>1 DEF InTurn
      <3>. QED
        BY <3>2 DEF d
    <2>5. Turn(n)'
      BY <1>0, <2>4 DEF Turn
    <2>. QED
      BY <1>1, <1>2, <2>3, <2>5 DEF TurnInv
  <1>6. CASE ReadRecipient(n)
    <2>1. c.state = "push" /\ notes' = notes
      BY <1>6 DEF ReadRecipient
    <2>2. /\ call'[n].due = c.due
          /\ call'[n].kind = c.kind
          /\ call' = [call EXCEPT ![n] = call'[n]]
      BY <1>6, ReadCall
    <2>3. \A m \in Numbers \ {n} : call'[m] = call[m]
      BY <2>2 DEF TypeInv, TypeOK
    <2>4. \A m \in Numbers \ {n} : Turn(m)'
      BY <1>0, <2>1, <2>3 DEF TurnInv, Turn
    <2>5. InTurn(n, asked[n], call'[n], notes)
      <3>. DEFINE d == call'[n]
      <3>1. d.kind = c.kind /\ d.due = c.due
        BY <2>2
      <3>. HIDE DEF d
      <3>2. InTurn(n, asked[n], d, notes)
        BY <1>4, <2>1, <3>1 DEF InTurn
      <3>. QED
        BY <3>2 DEF d
    <2>6. Turn(n)'
      BY <1>0, <2>1, <2>5 DEF Turn
    <2>. QED
      BY <1>1, <1>2, <2>4, <2>6 DEF TurnInv
  <1>7. CASE Emit(n)
    <2>1. c.state = "emit" /\ notes' = notes
      BY <1>7 DEF Emit
    <2>2. /\ c.due # << >>
          /\ call'[n].due = Tail(c.due)
          /\ call'[n].kind = c.kind
          /\ call' = [call EXCEPT ![n] = call'[n]]
      BY <1>7, EmittedCall
    <2>3. \A m \in Numbers \ {n} : call'[m] = call[m]
      BY <2>2 DEF TypeInv, TypeOK
    <2>4. \A m \in Numbers \ {n} : Turn(m)'
      BY <1>0, <2>1, <2>3 DEF TurnInv, Turn
    <2>5. /\ Len(Tail(c.due)) = Len(c.due) - 1
          /\ Len(c.due) >= 1
          /\ \A k \in 1 .. Len(Tail(c.due)) : Tail(c.due)[k] = c.due[k + 1]
          /\ Head(c.due) = c.due[1]
      BY <1>3, <2>2, HeadTailProperties
    <2>6. ASSUME c.kind = "news"
          PROVE  /\ before + 1 \in Nat
                 /\ Len(who) - Len(Tail(c.due)) = before + 1
                 /\ \A k \in 1 .. Len(Tail(c.due)) :
                      Tail(c.due)[k] = who[k + (before + 1)]
                 /\ \A k \in 1 .. before + 1 : NewsTo(n, who[k]) \in notes
      <3>1. /\ before \in Nat
            /\ \A k \in 1 .. Len(c.due) : c.due[k] = who[k + before]
            /\ \A k \in 1 .. before : NewsTo(n, who[k]) \in notes
        BY <1>4, <2>1, <2>6 DEF InTurn
      <3>2. NewsTo(n, c.due[1]) \in notes
        BY <2>1, <2>5, <2>6 DEF NewsInv, CallProgress, Progress
      <3>. DEFINE len == Len(c.due)
                  all == Len(who)
      <3>3. c.due[1] = who[1 + before]
        <4>1. 1 \in 1 .. len
          <5>1. len \in Nat /\ len >= 1
            BY <1>3, <2>5
          <5>. HIDE DEF len
          <5>. QED
            BY <5>1
        <4>. HIDE DEF before
        <4>. QED
          BY <3>1, <4>1
      <3>4. Len(who) - Len(Tail(c.due)) = before + 1 /\ before + 1 \in Nat
        <4>1. Len(Tail(c.due)) = len - 1 /\ len \in Nat /\ all \in Nat
              /\ before = all - len /\ before \in Nat
          BY <1>3, <2>5, <3>1
        <4>. HIDE DEF len, all, before
        <4>2. all - (len - 1) = before + 1 /\ before + 1 \in Nat
          BY <4>1
        <4>. QED
          BY <4>1, <4>2 DEF all
      <3>5. ASSUME NEW k \in 1 .. Len(Tail(c.due))
            PROVE  Tail(c.due)[k] = who[k + (before + 1)]
        <4>1. k + 1 \in 1 .. len /\ Tail(c.due)[k] = c.due[k + 1]
          <5>1. len \in Nat /\ k \in 1 .. len - 1
            BY <1>3, <2>5
          <5>2. Tail(c.due)[k] = c.due[k + 1]
            BY <2>5
          <5>. HIDE DEF len
          <5>. QED
            BY <5>1, <5>2
        <4>2. c.due[k + 1] = who[(k + 1) + before]
          BY <3>1, <4>1
        <4>3. (k + 1) + before = k + (before + 1)
          <5>1. before \in Nat /\ k \in Nat
            BY <3>1
          <5>. HIDE DEF before
          <5>. QED
            BY <5>1
        <4>. QED
          BY <4>1, <4>2, <4>3
      <3>6. ASSUME NEW k \in 1 .. before + 1 PROVE NewsTo(n, who[k]) \in notes
        <4>1. k \in 1 .. before \/ k = 1 + before
          <5>1. before \in Nat /\ k \in 1 .. before + 1
            BY <3>1
          <5>. HIDE DEF before
          <5>. QED
            BY <5>1
        <4>. QED
          BY <3>1, <3>2, <3>3, <4>1
      <3>. QED
        BY <3>4, <3>5, <3>6
    <2>7. InTurn(n, asked[n], call'[n], notes)
      <3>. HIDE DEF before
      <3>. QED
        BY <2>2, <2>6 DEF InTurn
    <2>8. Turn(n)'
      BY <1>0, <2>1, <2>7 DEF Turn
    <2>. QED
      BY <1>1, <1>2, <2>4, <2>8 DEF TurnInv
  <1>. QED
    BY <1>5, <1>6, <1>7 DEF Serve, Work

\* A new request has an answer to come, and nobody has been told.
LEMMA SubmitTurn ==
    ASSUME TypeInv, NewsInv, TurnInv, NEW h \in Handlers, Submit(h)
    PROVE  TurnInv'
  <1>1. PICK j :
          /\ JobOK(j) /\ j.op \in Ops
          /\ j.no = accepted + 1 /\ j.no \in Numbers
          /\ j.from \in Customers /\ j.to \in Customers
          /\ job' = [job EXCEPT ![h] = j]
          /\ asked' = [asked EXCEPT ![j.no] = j]
          /\ accepted' = j.no
    BY SubmitType
  <1>2. PICK n \in Numbers : n = j.no
    BY <1>1
  <1>3. UNCHANGED <<notes, call, answer>> /\ accepted \in Nat /\ n > accepted
    BY <1>1, <1>2, NumberFacts DEF Submit, TypeInv, TypeOK
  <1>4. Untouched(n)
    BY <1>3 DEF NewsInv
  <1>5. /\ asked'[n] = j /\ \A m \in Numbers \ {n} : asked'[m] = asked[m]
        /\ job'[h] = j /\ \A g \in Handlers \ {h} : job'[g] = job[g]
    BY <1>1, <1>2 DEF TypeInv, TypeOK
  <1>6. \A m \in Numbers : Known(m)'
    <2>1. Known(n)'
      BY <1>1, <1>2, <1>5 DEF Known, Numbers
    <2>2. ASSUME NEW m \in Numbers \ {n} PROVE Known(m)'
      <3>1. m <= accepted' <=> m <= accepted
        BY <1>1, <1>2, <1>3, <2>2 DEF Numbers
      <3>. QED
        BY <1>5, <3>1 DEF TurnInv, Known
    <2>. QED
      BY <2>1, <2>2
  <1>7. \A m \in Numbers : Turn(m)'
    <2>1. Turn(n)'
      BY <1>3, <1>4 DEF Turn, InTurn, Untouched
    <2>2. \A m \in Numbers \ {n} : Turn(m)'
      BY <1>3, <1>5 DEF TurnInv, Turn
    <2>. QED
      BY <2>1, <2>2
  <1>8. \A g \in Handlers : ~ At(g, "idle")' => answer'[job'[g].no] = "none"
    BY <1>2, <1>3, <1>4, <1>5 DEF TurnInv, At, Untouched
  <1>. QED
    BY <1>6, <1>7, <1>8 DEF TurnInv

\* The invariant of the refinement holds in every state.
LEMMA TurnInductive ==
    /\ Init => TurnInv
    /\ TypeInv /\ NewsInv /\ TurnInv /\ [Next]_vars => TurnInv'
  <1>1. ASSUME Init PROVE TurnInv
    <2>1. \A n \in Numbers : asked[n] = Idle /\ call[n] = NoCall /\ accepted = 0
      BY <1>1 DEF Init
    <2>2. \A n \in Numbers : Known(n) /\ Turn(n)
      <3>1. \A n \in Numbers : ~ (n <= accepted)
        BY <2>1 DEF Numbers
      <3>2. \A n \in Numbers : asked[n].op = "none" /\ call[n].state = "none"
        BY <2>1 DEF Idle, NoCall
      <3>. QED
        BY <3>1, <3>2 DEF Known, Turn, InTurn
    <2>3. \A h \in Handlers : At(h, "idle")
      BY <1>1 DEF Init, At, Idle
    <2>. QED
      BY <2>2, <2>3 DEF TurnInv
  <1>2. ASSUME TypeInv, NewsInv, TurnInv, [Next]_vars PROVE TurnInv'
    <2>1. ASSUME UNCHANGED <<notes, job, call, answer, accepted, asked>>
          PROVE  TurnInv'
      BY <1>2, <2>1 DEF TurnInv, Known, Turn, InTurn, At
    <2>2. ASSUME NEW h \in Handlers, Submit(h) PROVE TurnInv'
      BY <1>2, <2>2, SubmitTurn
    <2>3. ASSUME NEW h \in Handlers, Resume(h) \/ Abort(h) PROVE TurnInv'
      BY <1>2, <2>3, ProceedServes, AbortServes, ServesTurn
    <2>4. ASSUME NEW n \in Numbers, Fail(n) PROVE TurnInv'
      <3>1. UNCHANGED <<job, answer, accepted, asked, notes>>
        BY <2>4 DEF Fail, historyVars
      <3>2. /\ call'[n].state = "failed"
            /\ \A m \in Numbers \ {n} : call'[m] = call[m]
        BY <1>2, <2>4 DEF Fail, TypeInv, TypeOK, Call
      <3>3. \A m \in Numbers : Known(m)'
        BY <1>2, <3>1 DEF TurnInv, Known
      <3>4. \A m \in Numbers \ {n} : Turn(m)'
        BY <1>2, <3>1, <3>2 DEF TurnInv, Turn
      <3>5. Turn(n)'
        BY <3>2 DEF Turn, InTurn
      <3>. QED
        BY <1>2, <3>1, <3>3, <3>4, <3>5 DEF TurnInv, At
    <2>5. CASE MarkAsRead \/ Realtime \/ UNCHANGED vars
      BY <2>1, <2>5
         DEF MarkAsRead, Realtime, vars, serviceVars, historyVars
    <2>. QED
      BY <1>2, <2>2, <2>3, <2>4, <2>5, WorkTurn DEF Next, Rest
  <1>. QED
    BY <1>1, <1>2

\* What Deliveries sees.
absVars == <<[n \in Numbers |-> Delivery(asked[n])], saved,
             [n \in Numbers |-> Heard(n)], answer>>

\* Everyone is told in the sense of Deliveries when everyone has a note.
LEMMA ToldIsNoted ==
    ASSUME TurnInv, NEW n \in Numbers
    PROVE  /\ Noted(n) <=> Abstract!AllTold(n)
           /\ \A u \in Members : u \in Heard(n) <=> NewsTo(n, u) \in notes
  <1>. DEFINE who == Recipients(asked[n].op, asked[n].from, asked[n].to)
  <1>1. who \in Seq(Members)
    BY KnownWho
  <1>2. \A u \in Members : u \in Heard(n) <=> NewsTo(n, u) \in notes
    BY DEF Heard, NewsTo
  <1>3. \A i \in DOMAIN who : who[i] \in Members
    BY <1>1
  <1>4. Noted(n) <=> \A i \in DOMAIN who : who[i] \in Heard(n)
    BY <1>2, <1>3 DEF Noted, NewsTo
  <1>5. Delivery(asked[n]).who = who
    BY DEF Delivery
  <1>. QED
    BY <1>2, <1>4, <1>5 DEF Abstract!AllTold

\* What has been asked is a request to Deliveries.
LEMMA WayFacts ==
    ASSUME NEW j, j.op \in Ops \cup {"none"}
    PROVE  /\ Delivery(j).way \in Abstract!Ways \cup {"none"}
           /\ Delivery(j).way = "none" <=> j.op = "none"
           /\ Delivery(j).way = "saveFirst" <=> j.op \in SaveFirst
           /\ Delivery(j).way = "tellFirst" <=> j.op \in TellFirst
           /\ Delivery(j).way = "tellOnly" <=> j.op \in TellOnly
  BY DEF Delivery, WayOf, Abstract!Ways, Ops, SaveFirst, TellFirst, TellOnly

\* A new request is asked.
LEMMA SubmitAsks ==
    ASSUME TypeInv, NewsInv, TurnInv, NEW h \in Handlers, Submit(h)
    PROVE  [Abstract!Next]_absVars
  <1>1. PICK j :
          /\ JobOK(j) /\ j.op \in Ops
          /\ j.no = accepted + 1 /\ j.no \in Numbers
          /\ j.from \in Customers /\ j.to \in Customers
          /\ asked' = [asked EXCEPT ![j.no] = j]
    BY SubmitType
  <1>2. PICK n \in Numbers : n = j.no
    BY <1>1
  <1>3. UNCHANGED <<saved, notes, answer>> /\ accepted \in Nat /\ n > accepted
    BY <1>1, <1>2, NumberFacts DEF Submit, TypeInv, TypeOK
  <1>4. asked[n].op = "none"
    BY <1>3 DEF TurnInv, Known, Numbers
  <1>5. ~ Abstract!Made(n)
    BY <1>4 DEF Abstract!Made, Delivery, WayOf, SaveFirst, TellFirst, TellOnly
  <1>6. asked'[n] = j /\ \A m \in Numbers \ {n} : asked'[m] = asked[m]
    BY <1>1, <1>2 DEF TypeInv, TypeOK
  <1>. DEFINE way == Delivery(j).way
              who == Delivery(j).who
  <1>7. /\ way \in Abstract!Ways
        /\ who \in Audiences
    <2>1. j.op # "none"
      BY <1>1 DEF Ops, SaveFirst, TellFirst, TellOnly
    <2>. QED
      BY <1>1, <2>1, WayFacts DEF Delivery, Audiences
  <1>8. Delivery(j) = [way |-> way, who |-> who]
    BY DEF Delivery
  <1>. HIDE DEF way, who
  <1>9. [m \in Numbers |-> Delivery(asked[m])]' =
          [[m \in Numbers |-> Delivery(asked[m])] EXCEPT
             ![n] = [way |-> way, who |-> who]]
    BY <1>6, <1>8
  <1>10. [m \in Numbers |-> Heard(m)]' = [m \in Numbers |-> Heard(m)]
    BY <1>3 DEF Heard
  <1>11. Abstract!Ask(n)
    <2>1. \E w \in Abstract!Ways,
             a \in Audiences :
            [m \in Numbers |-> Delivery(asked[m])]' =
              [[m \in Numbers |-> Delivery(asked[m])] EXCEPT
                 ![n] = [way |-> w, who |-> a]]
      BY <1>7, <1>9, Zenon
    <2>. QED
      BY <1>3, <1>5, <1>10, <2>1, Zenon DEF Abstract!Ask
  <1>. QED
    BY <1>11 DEF Abstract!Next

\* A handler stores the change or answers, and does nothing else that shows.
LEMMA ServesDelivers ==
    ASSUME TypeInv, NewsInv, TurnInv, NewsInv', TurnInv', NEW h \in Handlers,
           ~ At(h, "idle"), Serves(h, job[h].no)
    PROVE  [Abstract!Next]_absVars
  <1>1. PICK n \in Numbers : n = job[h].no
    BY StepType
  <1>2. Serves(h, n) /\ answer[n] = "none" /\ asked[n].op \in Ops
    <2>1. ServingOK(h) /\ job[h].op \in Ops
      BY StepType DEF NewsInv
    <2>. QED
      BY <1>1, <2>1 DEF TurnInv, ServingOK
  <1>3. /\ [m \in Numbers |-> Delivery(asked[m])]' =
             [m \in Numbers |-> Delivery(asked[m])]
        /\ [m \in Numbers |-> Heard(m)]' = [m \in Numbers |-> Heard(m)]
        /\ asked' = asked
        /\ Noted(n)' <=> Noted(n)
    BY <1>2 DEF Serves, Heard, Noted
  <1>4. /\ Delivery(asked[n]).way # "none"
        /\ Delivery(asked[n]).way = "tellFirst" <=> asked[n].op \in TellFirst
        /\ Delivery(asked[n]).way = "tellOnly" <=> asked[n].op \in TellOnly
    BY <1>2, WayFacts DEF Ops, SaveFirst, TellFirst, TellOnly
  <1>5. Abstract!Made(n)
    BY <1>4 DEF Abstract!Made
  <1>6. CASE UNCHANGED <<answer, saved>>
    BY <1>3, <1>6 DEF absVars
  <1>7. CASE /\ asked[n].op \notin TellOnly
             /\ saved' = saved \cup {n}
             /\ UNCHANGED answer
    <2>1. asked[n].op \in TellFirst => Noted(n)
      BY <1>3, <1>7 DEF NewsInv, NewsInOrder
    <2>2. asked[n].op \in TellFirst => Abstract!AllTold(n)
      BY <2>1, ToldIsNoted
    <2>3. Abstract!Store(n)
      BY <1>2, <1>3, <1>4, <1>5, <1>7, <2>2 DEF Abstract!Store
    <2>. QED
      BY <2>3 DEF Abstract!Next
  <1>8. CASE /\ answer' = [answer EXCEPT ![n] = answer'[n]]
             /\ answer'[n] \in {"ok", "error"}
             /\ UNCHANGED saved
    <2>1. answer'[n] = "ok" => /\ asked[n].op \notin TellOnly => n \in saved
                               /\ Noted(n)
      BY <1>3, <1>8 DEF NewsInv, OkMeansDone
    <2>2. answer'[n] = "ok" =>
            /\ Delivery(asked[n]).way # "tellOnly" => n \in saved
            /\ Abstract!AllTold(n)
      BY <1>4, <2>1, ToldIsNoted
    <2>3. PICK result \in {"ok", "error"} : result = answer'[n]
      BY <1>8
    <2>4. Abstract!Answer(n)
      BY <1>2, <1>3, <1>5, <1>8, <2>2, <2>3 DEF Abstract!Answer
    <2>. QED
      BY <2>4 DEF Abstract!Next
  <1>. QED
    BY <1>2, <1>6, <1>7, <1>8 DEF Serves

\* A note that is stored tells the next one.
LEMMA WorkTells ==
    ASSUME TypeInv, NewsInv, TurnInv, NEW n \in Numbers, Serve(n)
    PROVE  [Abstract!Next]_absVars
  <1>. DEFINE c == call[n]
              who == Recipients(asked[n].op, asked[n].from, asked[n].to)
              before == Len(who) - Len(c.due)
  <1>0. UNCHANGED <<saved, answer, asked>>
    BY DEF Serve, Work
  <1>1. [m \in Numbers |-> Delivery(asked[m])]' =
          [m \in Numbers |-> Delivery(asked[m])]
    BY <1>0
  <1>2. CASE notes' = notes
    <2>1. [m \in Numbers |-> Heard(m)]' = [m \in Numbers |-> Heard(m)]
      BY <1>2 DEF Heard
    <2>. QED
      BY <1>0, <1>1, <2>1 DEF absVars
  <1>3. CASE StoreNote(n)
    <2>1. /\ c.state = "store" /\ c \in Call
          /\ notes' = notes \cup
               {[no |-> n, kind |-> c.kind, to |-> Head(c.due)]}
      BY <1>3 DEF StoreNote, TypeInv, TypeOK
    <2>2. CASE c.kind = "low"
      <3>1. \A m \in Numbers, u \in Members :
              NewsTo(m, u) \in notes' <=> NewsTo(m, u) \in notes
        BY <2>1, <2>2 DEF NewsTo
      <3>2. [m \in Numbers |-> Heard(m)]' = [m \in Numbers |-> Heard(m)]
        BY <3>1 DEF Heard, NewsTo
      <3>. QED
        BY <1>0, <1>1, <3>2 DEF absVars
    <2>3. CASE c.kind = "news"
      <3>1. /\ c.due \in Seq(Members) /\ c.due # << >>
            /\ who \in Seq(Members)
        BY <2>1, KnownWho DEF TypeInv, CallOK, Call
      <3>. DEFINE len == Len(c.due)
                  all == Len(who)
      <3>2. len \in Nat /\ len >= 1 /\ all \in Nat /\ Head(c.due) = c.due[1]
        BY <3>1
      <3>3. /\ before \in Nat
            /\ \A k \in 1 .. len : c.due[k] = who[k + before]
            /\ \A k \in 1 .. before : NewsTo(n, who[k]) \in notes
        BY <2>1, <2>3 DEF TurnInv, Turn, InTurn
      <3>4. before = all - len /\ DOMAIN who = 1 .. all
        BY <3>1
      <3>. HIDE DEF before, len, all
      <3>5. PICK i \in 1 .. all : i = 1 + before
        BY <3>2, <3>3, <3>4
      <3>6. c.due[1] = who[i] /\ who[i] \in Members
        <4>1. c.due[1] = who[1 + before]
          <5>1. 1 \in 1 .. len
            BY <3>2
          <5>. HIDE DEF who
          <5>. QED
            BY <3>3, <5>1
        <4>2. i \in DOMAIN who /\ \A k \in DOMAIN who : who[k] \in Members
          <5>1. \A k \in DOMAIN who : who[k] \in Members
            BY <3>1
          <5>2. i \in DOMAIN who
            BY <3>4, Zenon
          <5>. QED
            BY <5>1, <5>2
        <4>. HIDE DEF who
        <4>. QED
          BY <3>5, <4>1, <4>2
      <3>7. \A k \in DOMAIN who : k < i => who[k] \in Heard(n)
        <4>1. ASSUME NEW k \in DOMAIN who, k < i PROVE who[k] \in Heard(n)
          <5>1. k \in 1 .. before
            BY <3>2, <3>3, <3>4, <3>5, <4>1
          <5>2. who[k] \in Members
            BY <3>1
          <5>. QED
            BY <3>3, <5>1, <5>2, ToldIsNoted
        <4>. QED
          BY <4>1
      <3>8. notes' = notes \cup {NewsTo(n, who[i])}
        BY <2>1, <2>3, <3>2, <3>6 DEF NewsTo
      <3>9. /\ Heard(n)' = Heard(n) \cup {who[i]}
            /\ \A m \in Numbers \ {n} : Heard(m)' = Heard(m)
        BY <3>6, <3>8 DEF Heard, NewsTo
      <3>10. [m \in Numbers |-> Heard(m)]' =
               [[m \in Numbers |-> Heard(m)] EXCEPT ![n] = @ \cup {who[i]}]
        BY <3>9
      <3>11. asked[n].op \in Ops /\ (asked[n].op \in SaveFirst => n \in saved)
        <4>1. ~ (n > accepted)
          BY <2>1 DEF NewsInv, Untouched
        <4>2. n <= accepted
          BY <4>1 DEF Numbers, TypeInv, TypeOK
        <4>. QED
          BY <2>1, <4>2
             DEF TurnInv, Known, NewsInv, CallProgress, Progress
      <3>12. /\ Delivery(asked[n]).way # "none"
             /\ Delivery(asked[n]).way = "saveFirst" => n \in saved
             /\ Delivery(asked[n]).who = who
        <4>1. asked[n].op # "none"
          BY <3>11 DEF Ops, SaveFirst, TellFirst, TellOnly
        <4>. QED
          BY <3>11, <4>1, WayFacts DEF Delivery
      <3>13. Abstract!Made(n)
        BY <3>12 DEF Abstract!Made
      <3>. HIDE DEF who
      <3>14. Abstract!Tell(n)
        BY <1>0, <1>1, <3>4, <3>5, <3>7, <3>10, <3>12, <3>13 DEF Abstract!Tell
      <3>. QED
        BY <3>14 DEF Abstract!Next
    <2>. QED
      BY <2>1, <2>2, <2>3 DEF Call
  <1>. QED
    BY <1>2, <1>3 DEF Serve, Work, ReadRecipient, Emit

\* Every step is one that Deliveries allows, or does not show.
LEMMA StepDelivers ==
    ASSUME TypeInv, NewsInv, TurnInv, NewsInv', TurnInv', [Next]_vars
    PROVE  [Abstract!Next]_absVars
  <1>1. ASSUME UNCHANGED <<saved, notes, answer, asked>>
        PROVE  [Abstract!Next]_absVars
    <2>1. [m \in Numbers |-> Delivery(asked[m])]' =
            [m \in Numbers |-> Delivery(asked[m])]
      BY <1>1
    <2>2. [m \in Numbers |-> Heard(m)]' = [m \in Numbers |-> Heard(m)]
      BY <1>1 DEF Heard
    <2>. QED
      BY <1>1, <2>1, <2>2 DEF absVars
  <1>2. ASSUME NEW h \in Handlers, Resume(h) \/ Abort(h)
        PROVE  [Abstract!Next]_absVars
    BY <1>2, ProceedServes, AbortServes, ServesDelivers
  <1>3. ASSUME NEW n \in Numbers, Fail(n) PROVE [Abstract!Next]_absVars
    BY <1>1, <1>3 DEF Fail, historyVars
  <1>4. CASE MarkAsRead \/ Realtime \/ UNCHANGED vars
    BY <1>1, <1>4 DEF MarkAsRead, Realtime, vars, serviceVars, historyVars
  <1>. QED
    BY <1>2, <1>3, <1>4, SubmitAsks, WorkTells DEF Next, Rest

\* The services do what Deliveries promises, whatever fails on either side of a
\* call: a change is stored before the answer or never, those whom it concerns
\* are told in their order, and a client is answered once.
THEOREM Delivers == Spec => ImplementsDeliveries
  <1>1. Init => Abstract!Init
    <2>. SUFFICES ASSUME Init PROVE Abstract!Init
      OBVIOUS
    <2>1. [n \in Numbers |-> Delivery(asked[n])] =
            [n \in Numbers |-> Abstract!NoRequest]
      BY DEF Init, Idle, Delivery, WayOf, Recipients, Abstract!NoRequest,
             SaveFirst, TellFirst, TellOnly
    <2>2. [n \in Numbers |-> Heard(n)] = [n \in Numbers |-> {}]
      BY DEF Init, Heard
    <2>. QED
      BY <2>1, <2>2 DEF Init, Abstract!Init
  <1>2. TypeInv /\ NewsInv /\ TurnInv /\ NewsInv' /\ TurnInv' /\ [Next]_vars
          => [Abstract!Next]_Abstract!vars
    BY StepDelivers DEF absVars, Abstract!vars
  <1>. QED
    BY <1>1, <1>2, TypeInductive, NewsInductive, TurnInductive, PTL
       DEF Spec, ImplementsDeliveries, Abstract!Spec
=============================================================================
