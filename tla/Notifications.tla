---------------------------- MODULE Notifications ----------------------------
(***************************************************************************)
(* How users hear of what happens to their money: the requests of          *)
(* transaction-service and account-service that notify, the documents that *)
(* notification-service stores, and the web sockets it pushes them to.     *)
(*                                                                         *)
(* A request either saves its transaction and then calls notification-     *)
(* service, or the other way round.  The call stores one document after    *)
(* the other; a hook on each reads the recipient's user document, and then *)
(* emits to the socket that it names.  Caller and callee fail              *)
(* independently: a caller that dies does not stop the call it has made.   *)
(*                                                                         *)
(* A client names a user when it connects, and nothing checks who it is.   *)
(***************************************************************************)
EXTENDS Integers, Sequences

CONSTANTS
    Customers,      \* users that have accounts
    AdminList,      \* the admins, in the order user-service finds them; when
                    \* it finds none, requestRefund is refused
    Handlers,       \* slots for requests that are served at the same time
    Requests,       \* names of the requests clients make
    MaxRequests,    \* bound: requests accepted in one behaviour
    Parties,        \* bound: who makes a request, and whom it is about
    Named,          \* bound: users whom clients name when they connect
    Kept,           \* bound: users whose documents other services put back
    Claimants,      \* bound: users who write their socketId themselves, once
    Readers,        \* bound: users who mark their notes as read
    MaxSockets,     \* bound: connections made in one behaviour
    Faults,         \* may a call fail, or a process crash?
    Nil             \* null and undefined

VARIABLES
    saved,          \* requests whose change of state is stored
    notes,          \* the notification documents
    read,           \* those with isRead
    job,            \* what each handler of a calling service is doing
    call,           \* what notification-service does for each request
    answer,         \* what the client of each request was told
    accepted,       \* requests accepted so far
    socket,         \* the connections, Nil until made
    socketId,       \* user.socketId
    kept            \* the socketId in a user document another service holds

\* History variables.  No guard reads them.
VARIABLES
    asked,          \* what each request was
    pushed,         \* recipients of notes, and whom the clients that got the
                    \* notes had named
    missed,         \* users who were connected and not reached
    disordered,     \* users whose socketId was replaced by an older one, or
                    \* written after a hook had read it that has yet to emit
    claimed         \* users who have put a socketId in by PATCH /user

serviceVars == <<saved, notes, read, job, call, answer, accepted>>
socketVars == <<socket, socketId, kept>>
historyVars == <<asked, pushed, missed, disordered, claimed>>
vars == <<serviceVars, socketVars, historyVars>>

-----------------------------------------------------------------------------
(* Data                                                                    *)

Numbers == 1 .. MaxRequests
Sockets == 1 .. MaxSockets

Admins == {AdminList[i] : i \in DOMAIN AdminList}
Members == Customers \cup Admins

\* Saved first, then told; told first, then saved; nothing to save.
SaveFirst == {"sendMoney", "reqReceiveMoney", "confirmReceive", "rejectReceive"}
TellFirst == {"requestRefund", "approveRefund", "rejectRefund"}
TellOnly  == {"exceedLimit", "wrongPIN"}
Ops == SaveFirst \cup TellFirst \cup TellOnly

Note == [no : Numbers, kind : {"news", "low"}, to : Members]

Idle == [op |-> "none", pc |-> "idle", no |-> 0, from |-> Nil, to |-> Nil]

Job == [op : Ops \cup {"none"}, no : 0 .. MaxRequests,
        pc : {"idle", "tell", "wait", "save", "hook", "waitLow"},
        from : Customers \cup {Nil}, to : Customers \cup {Nil}]

\* A call: the recipients that are left, whether the note of the first one has
\* been stored, and the socketId that its hook has read.
NoCall == [state |-> "none", kind |-> "news", due |-> << >>, at |-> Nil]

Call == [state : {"none", "store", "push", "emit", "done", "failed"},
         kind : {"news", "low"}, due : Seq(Members), at : Sockets \cup {Nil}]

\* named: the user in the handshake.
Connection == [named : Members, open : BOOLEAN, registered : BOOLEAN]

ASSUME NotificationsAssumption ==
    /\ AdminList \in Seq(Admins) \ {<< >>}
    /\ MaxRequests \in Nat
    /\ Parties \subseteq Customers \X Customers
    /\ Named \cup Kept \cup Claimants \subseteq Members
    /\ MaxSockets \in Nat
    /\ Faults \in BOOLEAN
    /\ Nil \notin Members \cup Sockets \cup Connection

\* Who is told, in the order of the code.
Recipients(op, from, to) ==
    CASE op \in {"sendMoney", "confirmReceive", "approveRefund"} -> <<from, to>>
      [] op \in {"reqReceiveMoney", "rejectRefund", "exceedLimit", "wrongPIN"} ->
           <<from>>
      [] op = "rejectReceive" -> <<to>>
      [] op = "requestRefund" -> AdminList
      [] OTHER -> << >>

Init ==
    /\ saved = {}
    /\ notes = {}
    /\ read = {}
    /\ job = [h \in Handlers |-> Idle]
    /\ call = [n \in Numbers |-> NoCall]
    /\ answer = [n \in Numbers |-> "none"]
    /\ accepted = 0
    /\ socket = [s \in Sockets |-> Nil]
    /\ socketId = [u \in Members |-> Nil]
    /\ kept = [u \in Members |-> Nil]
    /\ asked = [n \in Numbers |-> Idle]
    /\ pushed = {}
    /\ missed = {}
    /\ disordered = {}
    /\ claimed = {}

-----------------------------------------------------------------------------
(* The calling handlers                                                    *)

At(h, step) == job[h].pc = step

Goto(h, step) == job' = [job EXCEPT ![h].pc = step]

End(h, result) ==
    /\ job' = [job EXCEPT ![h] = Idle]
    /\ answer' = [answer EXCEPT ![job[h].no] = result]

\* Slip: everyone is told before anything is saved.
TellingFirst(op) == "tell"

FirstStep(op) == IF op \in SaveFirst THEN "save" ELSE "tell"

\* A request has been checked and is about to save or to tell.
Submit(h) ==
    /\ At(h, "idle")
    /\ accepted < MaxRequests
    /\ accepted' = accepted + 1
    /\ \E op \in Requests \cap Ops, p \in Parties :
         LET j == [op |-> op, pc |-> FirstStep(op), no |-> accepted + 1,
                   from |-> p[1], to |-> p[2]]
         IN  /\ job' = [job EXCEPT ![h] = j]
             /\ asked' = [asked EXCEPT ![accepted + 1] = j]
    /\ UNCHANGED <<saved, notes, read, call, answer, pushed, missed, disordered,
                   claimed>>

\* The call to notification-service; it refuses a payment to oneself.
Tell(h) ==
    /\ At(h, "tell")
    /\ LET j == job[h]
       IN  IF j.op \in {"sendMoney", "confirmReceive"} /\ j.from = j.to
             THEN End(h, "error") /\ UNCHANGED call
             ELSE /\ call' = [call EXCEPT ![j.no] =
                       [NoCall EXCEPT !.state = "store",
                                      !.due = Recipients(j.op, j.from, j.to)]]
                  /\ Goto(h, "wait")
                  /\ UNCHANGED answer
    /\ UNCHANGED saved

\* The notes are made: on to the save, or the request is done.  After wrongPIN,
\* checkPIN goes on and may fail.
Told(h) ==
    /\ At(h, "wait")
    /\ call[job[h].no].state = "done"
    /\ CASE job[h].op \in TellFirst -> Goto(h, "save") /\ UNCHANGED answer
         [] job[h].op = "exceedLimit" -> End(h, "error")
         [] job[h].op = "wrongPIN" -> End(h, "ok") \/ End(h, "error")
         [] OTHER -> End(h, "ok")
    /\ UNCHANGED <<saved, call>>

\* The transaction is created or its status saved.
Save(h) ==
    /\ At(h, "save")
    /\ saved' = saved \cup {job[h].no}
    /\ Goto(h, "hook")
    /\ UNCHANGED <<call, answer>>

\* Slip: a handler is done once its transaction is saved.
AfterHookDone(h) == End(h, "ok")

\* After the hook of a save, a handler that has told everyone is done.
AfterHook(h) ==
    IF job[h].op \in SaveFirst
      THEN Goto(h, "tell") /\ UNCHANGED answer
      ELSE End(h, "ok")

\* The post('save') hook of the transaction tells the sender of a low balance.
Hook(h) ==
    /\ At(h, "hook")
    /\ \/ AfterHook(h) /\ UNCHANGED call
       \/ /\ call' = [call EXCEPT ![job[h].no] =
                [NoCall EXCEPT !.state = "store", !.kind = "low",
                               !.due = <<job[h].from>>]]
          /\ Goto(h, "waitLow")
          /\ UNCHANGED answer
    /\ UNCHANGED saved

ToldLow(h) ==
    /\ At(h, "waitLow")
    /\ call[job[h].no].state = "done"
    /\ AfterHook(h)
    /\ UNCHANGED <<saved, call>>

\* Slip: an error of notification-service is swallowed.
CallFailedQuietly(h) ==
    /\ job[h].pc \in {"wait", "waitLow"}
    /\ call[job[h].no].state = "failed"
    /\ End(h, "ok")
    /\ UNCHANGED <<saved, call>>

\* An error of notification-service is the error of the request.
CallFailed(h) ==
    /\ job[h].pc \in {"wait", "waitLow"}
    /\ call[job[h].no].state = "failed"
    /\ End(h, "error")
    /\ UNCHANGED <<saved, call>>

Proceed(h) ==
    /\ \/ Tell(h)
       \/ Told(h)
       \/ Save(h)
       \/ Hook(h)
       \/ ToldLow(h)
       \/ CallFailed(h)
    /\ UNCHANGED <<notes, read, accepted, historyVars>>

\* The handler dies, or its database does not answer.
Abort(h) ==
    /\ Faults
    /\ ~ At(h, "idle")
    /\ End(h, "error")
    /\ UNCHANGED <<saved, notes, read, call, accepted, historyVars>>

-----------------------------------------------------------------------------
(* notification-service                                                    *)

\* Slip: the documents are made in no order, as by a loop that does not await.
StoreAnyNote(n) ==
    /\ call[n].state = "store"
    /\ LET due == call[n].due
       IN  \E i \in DOMAIN due :
             /\ notes' = notes \cup
                  {[no |-> n, kind |-> call[n].kind, to |-> due[i]]}
             /\ call' = [call EXCEPT ![n].state = "push",
                  ![n].due = [due EXCEPT ![1] = due[i], ![i] = due[1]]]
    /\ UNCHANGED <<pushed, missed>>

\* create: the document is stored, then its hook runs.
StoreNote(n) ==
    /\ call[n].state = "store"
    /\ notes' = notes \cup
         {[no |-> n, kind |-> call[n].kind, to |-> Head(call[n].due)]}
    /\ call' = [call EXCEPT ![n].state = "push"]
    /\ UNCHANGED <<pushed, missed>>

\* The last connection for which a user was named.
IsLatest(s, u) ==
    /\ socket[s] # Nil
    /\ socket[s].named = u
    /\ \A t \in Sockets : socket[t] # Nil /\ socket[t].named = u => t <= s

\* A user whose last connection is open, and has been told to user-service.
Connected(u) ==
    \E s \in Sockets : IsLatest(s, u) /\ socket[s].open /\ socket[s].registered

\* Slip: the id that the gateway has kept, that of the last client of all.
ClientId(u) ==
    IF \E s \in Sockets : socket[s] # Nil
      THEN CHOOSE s \in Sockets :
             /\ socket[s] # Nil
             /\ \A t \in Sockets : socket[t] # Nil => t <= s
      ELSE Nil

\* The socket that the hook emits to: the id in the user document.
Target(u) == socketId[u]

\* The post('save') hook of the notification reads the recipient's document ...
ReadRecipient(n) ==
    /\ call[n].state = "push"
    /\ call' = [call EXCEPT ![n].state = "emit",
                            ![n].at = Target(Head(call[n].due))]
    /\ UNCHANGED <<notes, pushed, missed>>

\* ... and emits later; emit drops what no open socket takes.
Emit(n) ==
    /\ call[n].state = "emit"
    /\ LET u == Head(call[n].due)
           s == call[n].at
           arrives == s # Nil /\ socket[s] # Nil /\ socket[s].open
       IN  /\ pushed' = IF arrives
                          THEN pushed \cup {[to |-> u, named |-> socket[s].named]}
                          ELSE pushed
           /\ missed' = IF /\ Connected(u)
                           /\ ~ (arrives /\ IsLatest(s, u))
                          THEN missed \cup {u} ELSE missed
    /\ call' = [call EXCEPT
         ![n].due = Tail(@),
         ![n].at = Nil,
         ![n].state = IF Len(call[n].due) = 1 THEN "done" ELSE "store"]
    /\ UNCHANGED notes

Work(n) ==
    /\ StoreNote(n) \/ ReadRecipient(n) \/ Emit(n)
    /\ UNCHANGED <<saved, read, job, answer, accepted, asked, disordered, claimed>>

\* A create or a hook fails: what has been stored stays, the rest is not made.
Fail(n) ==
    /\ Faults
    /\ call[n].state \in {"store", "push", "emit"}
    /\ call' = [call EXCEPT ![n].state = "failed"]
    /\ UNCHANGED <<saved, notes, read, job, answer, accepted, historyVars>>

\* PATCH /notification/markAsRead/:id
MarkAsRead ==
    /\ \E note \in notes \ read :
         note.to \in Readers /\ read' = read \cup {note}
    /\ UNCHANGED <<saved, notes, job, call, answer, accepted, historyVars>>

-----------------------------------------------------------------------------
(* The realtime gateway, and socketId in the user document                 *)

\* A hook has read the id of a user and is about to emit to it.
Emitting(u) == \E n \in Numbers : call[n].state = "emit" /\ Head(call[n].due) = u

\* The id in a user document is written, by a newer connection or not.
Write(u, s, newer) ==
    /\ socketId' = [socketId EXCEPT ![u] = s]
    /\ disordered' = IF s = socketId[u] \/ (newer /\ ~ Emitting(u))
                       THEN disordered ELSE disordered \cup {u}

\* handleConnection, for whichever user the client names: user-service is told of
\* the new id later.
Connect(u) ==
    /\ \E s \in Sockets :
         /\ socket[s] = Nil
         /\ \A t \in Sockets : t < s => socket[t] # Nil
         /\ socket' = [socket EXCEPT ![s] =
              [named |-> u, open |-> TRUE, registered |-> FALSE]]
    /\ UNCHANGED <<socketId, kept, disordered, claimed>>

\* Slip: the two strings that updateSocketId takes are swapped.
UpdateSocketIdSwapped(s) ==
    /\ socket[s] # Nil
    /\ ~ socket[s].registered
    /\ LET u == socket[s].named
       IN  Write(u, u, IsLatest(s, u))
    /\ socket' = [socket EXCEPT ![s].registered = TRUE]
    /\ UNCHANGED <<kept, claimed>>

\* updateSocketId: the calls of two connections may arrive in any order.
UpdateSocketId(s) ==
    /\ socket[s] # Nil
    /\ ~ socket[s].registered
    /\ LET u == socket[s].named
       IN  Write(u, s, IsLatest(s, u))
    /\ socket' = [socket EXCEPT ![s].registered = TRUE]
    /\ UNCHANGED <<kept, claimed>>

\* Slip: a client that goes takes the socketId of its user along.
DisconnectClearing(s) ==
    /\ socket[s] # Nil
    /\ socket[s].open
    /\ socket' = [socket EXCEPT ![s].open = FALSE]
    /\ socketId' = [socketId EXCEPT ![socket[s].named] = Nil]
    /\ UNCHANGED <<kept, disordered, claimed>>

\* handleDisconnect: nothing but the socket itself goes.
Disconnect(s) ==
    /\ socket[s] # Nil
    /\ socket[s].open
    /\ socket' = [socket EXCEPT ![s].open = FALSE]
    /\ UNCHANGED <<socketId, kept, disordered, claimed>>

\* Another service reads a user document, and puts all of it back later.
KeepUser(u) ==
    /\ kept[u] = Nil
    /\ socketId[u] # Nil
    /\ kept' = [kept EXCEPT ![u] = socketId[u]]
    /\ UNCHANGED <<socket, socketId, disordered, claimed>>

PutUserBack(u) ==
    /\ kept[u] # Nil
    /\ Write(u, kept[u], FALSE)
    /\ kept' = [kept EXCEPT ![u] = Nil]
    /\ UNCHANGED <<socket, claimed>>

\* PATCH /user, of whose body nothing is stripped, with the id of a connection.
UpdateUser(u) ==
    /\ u \notin claimed
    /\ \E s \in Sockets : socket[s] # Nil /\ Write(u, s, TRUE)
    /\ claimed' = claimed \cup {u}
    /\ UNCHANGED <<socket, kept>>

Realtime ==
    /\ \/ \E u \in Named : Connect(u)
       \/ \E u \in Claimants : UpdateUser(u)
       \/ \E u \in Kept : KeepUser(u) \/ PutUserBack(u)
       \/ \E s \in Sockets : UpdateSocketId(s) \/ Disconnect(s)
    /\ UNCHANGED <<serviceVars, asked, pushed, missed>>

-----------------------------------------------------------------------------
Resume(h) == Proceed(h) /\ UNCHANGED socketVars

Serve(n) == Work(n) /\ UNCHANGED socketVars

\* No request is being served, and clients may have none to make.
Rest ==
    /\ \A h \in Handlers : At(h, "idle")
    /\ UNCHANGED vars

Next ==
    \/ \E h \in Handlers : (Submit(h) \/ Abort(h)) /\ UNCHANGED socketVars
    \/ \E h \in Handlers : Resume(h)
    \/ \E n \in Numbers : Serve(n)
    \/ \E n \in Numbers : Fail(n) /\ UNCHANGED socketVars
    \/ MarkAsRead /\ UNCHANGED socketVars
    \/ Realtime
    \/ Rest

Spec == Init /\ [][Next]_vars

\* Node resumes a handler once its call is answered, in each service.  Nothing
\* obliges a call to fail, or a client to connect.
FairSpec ==
    /\ Spec
    /\ \A h \in Handlers : WF_vars(Resume(h))
    /\ \A n \in Numbers : WF_vars(Serve(n))

-----------------------------------------------------------------------------
(* Properties                                                              *)

\* Every variable holds what the code can put into it.
TypeOK ==
    /\ saved \subseteq Numbers
    /\ read \subseteq notes
    /\ notes \subseteq Note
    /\ job \in [Handlers -> Job]
    /\ call \in [Numbers -> Call]
    /\ answer \in [Numbers -> {"none", "ok", "error"}]
    /\ accepted \in 0 .. MaxRequests
    /\ socket \in [Sockets -> Connection \cup {Nil}]
    /\ socketId \in [Members -> Sockets \cup {Nil}]
    /\ kept \in [Members -> Sockets \cup {Nil}]
    /\ asked \in [Numbers -> Job]
    /\ pushed \subseteq [to : Members, named : Members]
    /\ missed \cup disordered \cup claimed \subseteq Members

\* Everyone whom a request concerns has a note of it.
Noted(n) ==
    LET who == Recipients(asked[n].op, asked[n].from, asked[n].to)
    IN  \A i \in DOMAIN who : [no |-> n, kind |-> "news", to |-> who[i]] \in notes

\* "Done, check you notification section": a client who is told that all went
\* well finds the change stored and a note with everyone it concerns,
\* whatever fails on the way and whichever of the two came first.
OkMeansDone ==
    \A n \in Numbers : answer[n] = "ok" =>
      /\ asked[n].op \notin TellOnly => n \in saved
      /\ Noted(n)

\* Of a payment, a request or a rejection nobody hears before it is stored;
\* a refund is not stored in any state before all have heard of it.
NewsInOrder ==
    \A n \in Numbers :
      /\ asked[n].op \in SaveFirst =>
           \A note \in notes : note.no = n => n \in saved
      /\ asked[n].op \in TellFirst /\ n \in saved => Noted(n)

\* What a request is to Deliveries.
WayOf(op) ==
    CASE op \in SaveFirst -> "saveFirst"
      [] op \in TellFirst -> "tellFirst"
      [] op \in TellOnly  -> "tellOnly"
      [] OTHER -> "none"

Delivery(j) == [way |-> WayOf(j.op), who |-> Recipients(j.op, j.from, j.to)]

\* Who has a note of a request.
Heard(n) == {u \in Members : [no |-> n, kind |-> "news", to |-> u] \in notes}

Audiences == {Recipients(op, u, v) : op \in Ops, u, v \in Customers}

Abstract == INSTANCE Deliveries WITH
    request <- [n \in Numbers |-> Delivery(asked[n])],
    stored <- saved,
    told <- [n \in Numbers |-> Heard(n)]

\* The services, with their calls, failures and notes of a low balance, do what
\* Deliveries promises: a change is stored before the answer or never, those
\* whom it concerns are told in their order, also when the request has failed,
\* and a client is answered once.
ImplementsDeliveries == Abstract!Spec

\* A note goes to a connection that was opened in the name of its recipient, or
\* whose id the recipient has put into his document, whatever connects, goes and
\* is written back between the two halves of the hook.  Whether the client that
\* gave the name is that user, the gateway does not ask.
PushesArePersonal ==
    \A p \in pushed : p.named = p.to \/ p.to \in claimed

\* Whose last connection is open and registered is reached on it, but for three
\* ways to miss him: his id was written after the hook had read it; an older one
\* has taken its place, by two connections whose updates arrive the other way
\* round or by a user document put back; or he has put in one of his own.
ConnectedIsReached == missed \subseteq disordered \cup claimed

\* Whoever pays or is paid hears of it: once a payment is stored, both get
\* their note, or the client gets an error.
StoredIsTold ==
    \A n \in Numbers :
      n \in saved ~> answer[n] = "error" \/ Noted(n)
=============================================================================
