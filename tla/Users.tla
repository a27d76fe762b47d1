-------------------------------- MODULE Users --------------------------------
(***************************************************************************)
(* The user documents of user-service, and the requests of auth.service    *)
(* and user.service that read and write them.                              *)
(*                                                                         *)
(* Most handlers load a document, change fields of the loaded object and   *)
(* save it.  Mongoose then writes the changed fields only: what a handler  *)
(* will write is its patch (job[h].patch), computed when it reads, applied *)
(* when it saves.  Other services keep the whole document that their guard *)
(* read, and put all of it back (updateUserMicroservice).                  *)
(*                                                                         *)
(* A request is numbered, and its number names the code it mails or the    *)
(* password it sets.  A code is mailed before it is saved.                 *)
(***************************************************************************)
EXTENDS Integers, Sequences

CONSTANTS
    Members,        \* user ids
    Joined,         \* the members who have signed up when the model starts
    Emails,
    Mobiles,
    HomeEmail,      \* email and mobile number of the members who have joined
    HomeMobile,
    Handlers,       \* slots for requests that are served at the same time
    Requests,       \* names of the requests clients make
    Bodies,         \* bound: what clients put into the body of PATCH /user, and
                    \* into the one of a signup besides what belongs there
    MaxRequests,    \* bound: requests accepted in one behaviour
    MaxTime,        \* bound: last value of the clock
    Validity,       \* how long a code is valid: the ten minutes of the code
    Faults,         \* may a call fail, or the process crash?
    Nil             \* null and undefined

VARIABLES
    user,           \* the user documents, Nil until signup
    job,            \* what each handler is doing
    tokens,         \* the JWTs handed out; none of them expires
    clock,
    accepted        \* requests accepted so far

\* History variables.  No guard reads them.
VARIABLES
    mailed,         \* for whom, for what and to which address each code was mailed
    reached,        \* addresses from which a member has entered a code
    banned,         \* members whose ban has been saved
    crossed,        \* members whose ban was saved while another request that
                    \* writes their status had already checked it
    stale,          \* members whose document was replaced by an older copy
    relisted,       \* members who have put an authTypes of their own in it
    named,          \* members and the addresses they have put in it themselves
    spent,          \* codes that a finished request was let through for
    reused,         \* codes that were spent again, and the requests that did
    shared,         \* codes that two requests had checked before one saved
    unproven,       \* what members were let through for without any code
    rivals          \* members who had looked up a mobile number when another
                    \* member got it, or who shared one from the start

serviceVars == <<user, job, tokens, clock, accepted>>
historyVars ==
    <<mailed, reached, banned, crossed, stale, relisted, named, spent, reused,
      shared, unproven, rivals>>
vars == <<serviceVars, historyVars>>

-----------------------------------------------------------------------------
(* Data                                                                    *)

Numbers == 1 .. MaxRequests

Statuses == {"Online", "Offline", "Suspended"}

Purposes == {"SIGNUP", "PRE_LOGIN", "CHANGE_EMAIL", "FORGET_PASSWORD"}

\* A code that nobody was mailed: a member has put its hash in by PATCH /user.
Own == -1

\* A password that was stored as it is, so that compareSync never accepts it.
Unhashed == -1

\* An element of authTypes; value is 0 once it is unset, and where it is no code
\* (INVALID_PIN, which transaction-service adds).  An element that a positional
\* write creates is for "nothing", one that it skips is "null".
Item == [authFor : Purposes \cup {"INVALID_PIN", "nothing", "null"},
         value : {Own} \cup 0 .. MaxRequests, expireAt : Nat]

Document == [status : Statuses, confirmEmail : BOOLEAN, email : Emails,
             mobileNumber : Mobiles, password : {Unhashed} \cup 0 .. MaxRequests,
             authTypes : Seq(Item)]

\* The body of a request, of which nothing is stripped; Nil for what it leaves
\* out.  A password may be the text of a hash already.
Body == [status : {Nil} \cup Statuses, confirmEmail : {Nil} \cup BOOLEAN,
         email : {Nil} \cup Emails, mobileNumber : {Nil} \cup Mobiles,
         password : {Nil, "plain", "hashed"},
         authTypes : {Nil} \cup Seq({i \in Item : i.value \in {Own, 0}})]

NoBody == [status |-> Nil, confirmEmail |-> Nil, email |-> Nil,
           mobileNumber |-> Nil, password |-> Nil, authTypes |-> Nil]

Token == [kind : Purposes \cup {"CONFIRM_OTP_FORGET", "LOGIN"},
          user : Members, email : Emails \cup {Nil}]

ASSUME UsersAssumption ==
    /\ Joined \subseteq Members
    /\ HomeEmail \in [Joined -> Emails]
    /\ \A u, v \in Joined : HomeEmail[u] = HomeEmail[v] => u = v
    /\ HomeMobile \in [Joined -> Mobiles]
    /\ MaxRequests \in Nat
    /\ MaxTime \in Nat
    /\ Validity \in Nat \ {0}
    /\ Bodies \subseteq Body
    /\ Faults \in BOOLEAN
    /\ Nil \notin Members \cup Emails \cup Mobiles \cup Statuses \cup Document
    /\ Nil \notin [user : Members, for : Purposes, to : Emails]

\* What a handler does to authTypes: push an element, or set or unset the
\* value of the element at a position of the array it has read.
Edit == [kind : {"none", "push", "set", "clear"}, at : Nat, item : Item]

NoItem == [authFor |-> "nothing", value |-> 0, expireAt |-> 0]
NoEdit == [kind |-> "none", at |-> 0, item |-> NoItem]

\* The fields that a save writes; Nil and NoEdit stand for "not modified".
Patch == [edit : Edit, status : Statuses \cup {Nil}, email : Emails \cup {Nil},
          confirms : BOOLEAN]

NoPatch == [edit |-> NoEdit, status |-> Nil, email |-> Nil, confirms |-> FALSE]

Ops == {"none", "signup", "verifyEmail", "resendOTP", "preLogin", "login",
        "changeMail", "confirmUpdateMail", "sendForgetPassOTP", "updateUser",
        "updatePassword", "logout", "bannedUser", "updateUserMicroservice"}

Steps == {"idle", "findMobile", "findEmail", "create", "save", "updateOne",
          "checkPassword", "setPassword", "writeBack"}

Idle == [op |-> "none", pc |-> "idle", no |-> 0, user |-> Nil,
         patch |-> NoPatch, email |-> Nil, mobile |-> Nil, code |-> 0,
         password |-> 0, copy |-> Nil, body |-> NoBody]

Job == [op : Ops, pc : Steps, no : 0 .. MaxRequests,
        user : Members \cup {Nil}, patch : Patch,
        email : Emails \cup {Nil}, mobile : Mobiles \cup {Nil},
        code : {Own} \cup 0 .. MaxRequests,
        password : {Unhashed} \cup 0 .. MaxRequests,
        copy : Document \cup {Nil}, body : Body]

-----------------------------------------------------------------------------
(* The elements of authTypes                                               *)

\* The first element for p, as find and the loops take it; 0 if there is none.
Position(doc, p) ==
    LET S == {i \in DOMAIN doc.authTypes : doc.authTypes[i].authFor = p}
    IN  IF S = {} THEN 0 ELSE CHOOSE i \in S : \A k \in S : i <= k

\* A null element ends the search for p with a TypeError.
Readable(doc, p) ==
    \A i \in DOMAIN doc.authTypes :
      doc.authTypes[i].authFor = "null" =>
        Position(doc, p) # 0 /\ Position(doc, p) < i

\* Slip: the minutes are taken off the time of day.
FreshPast(p, code) ==
    [authFor |-> p, value |-> code, expireAt |-> clock - Validity]

Fresh(p, code) ==
    [authFor |-> p, value |-> code, expireAt |-> clock + Validity]

\* A new code takes the place of the first element for p, or is pushed.
Renew(doc, p, code) ==
    [kind |-> IF Position(doc, p) = 0 THEN "push" ELSE "set",
     at |-> Position(doc, p), item |-> Fresh(p, code)]

Clear(doc, p) ==
    IF Position(doc, p) = 0
      THEN NoEdit
      ELSE [kind |-> "clear", at |-> Position(doc, p), item |-> NoItem]

\* The code is right and in time.  Without an element for p there is nothing
\* to compare with, and every code is.
Passes(doc, p, code) ==
    /\ Readable(doc, p)
    /\ Position(doc, p) # 0 =>
         LET item == doc.authTypes[Position(doc, p)]
         IN  item.value # 0 /\ item.value = code /\ clock <= item.expireAt

\* $set of value and expireAt at a position that may be past the end by now.
SetAt(items, i, item) ==
    IF i \in DOMAIN items
      THEN [items EXCEPT ![i].value = item.value, ![i].expireAt = item.expireAt]
      ELSE [k \in 1 .. i |->
              CASE k <= Len(items) -> items[k]
                [] k = i -> [item EXCEPT !.authFor = "nothing"]
                [] OTHER -> [NoItem EXCEPT !.authFor = "null"]]

\* Slip: the value of a code that has been entered is not unset.
EditedUncleared(items, e) ==
    CASE e.kind = "push" -> Append(items, e.item)
      [] e.kind = "set"  -> SetAt(items, e.at, e.item)
      [] OTHER           -> items

\* Slip: the element that is pushed gets lost.
EditedUnpushed(items, e) ==
    CASE e.kind = "set" -> SetAt(items, e.at, e.item)
      [] e.kind = "clear" /\ e.at \in DOMAIN items ->
           [items EXCEPT ![e.at].value = 0]
      [] OTHER -> items

Edited(items, e) ==
    CASE e.kind = "push" -> Append(items, e.item)
      [] e.kind = "set"  -> SetAt(items, e.at, e.item)
      [] e.kind = "clear" /\ e.at \in DOMAIN items ->
           [items EXCEPT ![e.at].value = 0]
      [] OTHER -> items

\* The update a save sends to MongoDB, applied to the stored document.
Patched(doc, p) ==
    [doc EXCEPT !.authTypes = Edited(@, p.edit),
                !.status = IF p.status = Nil THEN @ ELSE p.status,
                !.email = IF p.email = Nil THEN @ ELSE p.email,
                !.confirmEmail = @ \/ p.confirms]

Given(x, old) == IF x = Nil THEN old ELSE x

\* updateOne with a body: a $set of everything in it.
BodySet(doc, b, no) ==
    [doc EXCEPT !.status = Given(b.status, @),
                !.confirmEmail = Given(b.confirmEmail, @),
                !.email = Given(b.email, @),
                !.mobileNumber = Given(b.mobileNumber, @),
                !.authTypes = Given(b.authTypes, @),
                !.password = CASE b.password = "plain"  -> Unhashed
                               [] b.password = "hashed" -> no
                               [] OTHER                 -> @]

-----------------------------------------------------------------------------
Init ==
    /\ user = [u \in Members |->
                 IF u \in Joined
                   THEN [status |-> "Offline", confirmEmail |-> TRUE,
                         email |-> HomeEmail[u],
                         mobileNumber |-> HomeMobile[u], password |-> 0,
                         authTypes |-> << >>]
                   ELSE Nil]
    /\ job = [h \in Handlers |-> Idle]
    /\ tokens = {}
    /\ clock = 0
    /\ accepted = 0
    /\ mailed = [c \in Numbers |-> Nil]
    /\ reached = {<<u, HomeEmail[u]>> : u \in Joined}
    /\ banned = {}
    /\ crossed = {}
    /\ stale = {}
    /\ relisted = {}
    /\ named = {}
    /\ spent = {}
    /\ reused = {}
    /\ shared = {}
    /\ unproven = {}
    /\ rivals = {u \in Joined :
                   \E v \in Joined \ {u} : HomeMobile[v] = HomeMobile[u]}

-----------------------------------------------------------------------------
(* Requests: what a handler does up to the await after its first read      *)

Accept(op) ==
    /\ op \in Requests
    /\ accepted < MaxRequests
    /\ accepted' = accepted + 1

Start(h, j) ==
    /\ job[h].pc = "idle"
    /\ job' = [job EXCEPT ![h] = j]

Request(h, op, u, pc) == [Idle EXCEPT !.op = op, !.pc = pc, !.user = u,
                                      !.no = accepted + 1]

\* The code of a request goes out to an address before anything is saved.
Mail(no, u, p, to) ==
    mailed' = [mailed EXCEPT ![no] = [user |-> u, for |-> p, to |-> to]]

NoMail == UNCHANGED mailed

Stored(u) == user[u] # Nil

HasToken(kind, u) == \E t \in tokens : t.kind = kind /\ t.user = u

\* The guards of all services: a login token, and a document that is neither
\* Offline nor Suspended when they read it.
Guarded(u) == Stored(u) /\ HasToken("LOGIN", u) /\ user[u].status = "Online"

EmailTaken(e) == \E v \in Members : Stored(v) /\ user[v].email = e
MobileTaken(m) == \E v \in Members : Stored(v) /\ user[v].mobileNumber = m

\* What a client may enter as a code.
Codes == {Own} \cup 0 .. accepted

\* The code that is compared: none, where there is no element for p.
Compared(doc, p, c) == IF Position(doc, p) = 0 THEN 0 ELSE c

\* checkForSendOTPDuration: the last code has not expired.
CodeRunning(doc, p) ==
    Position(doc, p) # 0 /\ clock < doc.authTypes[Position(doc, p)].expireAt

\* preLogin asks this only of users who are Offline.
MustWait(doc) == doc.status = "Offline" /\ CodeRunning(doc, "PRE_LOGIN")

\* POST /auth/signup: the email is looked up, then the mobile number.
Signup(h) ==
    /\ Accept("signup")
    /\ \E u \in Members, e \in Emails, m \in Mobiles :
         /\ ~ Stored(u)
         /\ \A g \in Handlers : job[g].user # u
         /\ ~ EmailTaken(e)
         /\ Start(h, [Request(h, "signup", u, "findMobile") EXCEPT
                        !.email = e, !.mobile = m])
    /\ NoMail

\* POST /auth/verifyEmail.
VerifyEmail(h) ==
    /\ Accept("verifyEmail")
    /\ \E u \in Members, c \in Codes :
         /\ HasToken("SIGNUP", u)
         /\ ~ user[u].confirmEmail
         /\ Passes(user[u], "SIGNUP", c)
         /\ Start(h, [Request(h, "verifyEmail", u, "save") EXCEPT
                        !.code = Compared(user[u], "SIGNUP", c),
                        !.patch.edit = Clear(user[u], "SIGNUP"),
                        !.patch.confirms = TRUE])
    /\ NoMail

\* POST /auth/resendOTP: always to the address of the document.
ResendOTP(h) ==
    /\ Accept("resendOTP")
    /\ \E u \in Members, p \in Purposes :
         /\ HasToken(p, u)
         /\ ~ (p = "SIGNUP" /\ user[u].confirmEmail)
         /\ Readable(user[u], p)
         /\ Position(user[u], p) # 0
         /\ Mail(accepted + 1, u, p, user[u].email)
         /\ Start(h, [Request(h, "resendOTP", u, "save") EXCEPT
                        !.patch.edit = Renew(user[u], p, accepted + 1)])

\* POST /auth/preLogin, with the right password.
PreLogin(h) ==
    /\ Accept("preLogin")
    /\ \E u \in Members :
         /\ Stored(u)
         /\ user[u].password # Unhashed
         /\ user[u].confirmEmail
         /\ user[u].status # "Suspended"
         /\ Readable(user[u], "PRE_LOGIN")
         /\ ~ MustWait(user[u])
         /\ Mail(accepted + 1, u, "PRE_LOGIN", user[u].email)
         /\ Start(h, [Request(h, "preLogin", u, "save") EXCEPT
                        !.patch.edit = Renew(user[u], "PRE_LOGIN", accepted + 1)])

\* Slip: a suspended member may log in.
LoginAny(h) ==
    /\ Accept("login")
    /\ \E u \in Members, c \in Codes :
         /\ HasToken("PRE_LOGIN", u)
         /\ Passes(user[u], "PRE_LOGIN", c)
         /\ Start(h, [Request(h, "login", u, "save") EXCEPT
                        !.code = Compared(user[u], "PRE_LOGIN", c),
                        !.patch.edit = Clear(user[u], "PRE_LOGIN"),
                        !.patch.status = "Online"])
    /\ NoMail

\* POST /auth/login: Online is written unless the copy says so already.
Login(h) ==
    /\ Accept("login")
    /\ \E u \in Members, c \in Codes :
         /\ HasToken("PRE_LOGIN", u)
         /\ user[u].status # "Suspended"
         /\ Passes(user[u], "PRE_LOGIN", c)
         /\ Start(h, [Request(h, "login", u, "save") EXCEPT
                        !.code = Compared(user[u], "PRE_LOGIN", c),
                        !.patch.edit = Clear(user[u], "PRE_LOGIN"),
                        !.patch.status = IF user[u].status = "Online"
                                           THEN Nil ELSE "Online"])
    /\ NoMail

\* POST /user/changeEmail, or /auth/changeEmail with a token of an earlier
\* change.  The new address is looked up next.
ChangeMail(h) ==
    /\ Accept("changeMail")
    /\ \E u \in Members, e \in Emails :
         /\ Guarded(u) \/ HasToken("CHANGE_EMAIL", u)
         /\ Readable(user[u], "CHANGE_EMAIL")
         /\ Start(h, [Request(h, "changeMail", u, "findEmail") EXCEPT
                        !.email = e,
                        !.patch.edit = Renew(user[u], "CHANGE_EMAIL", accepted + 1)])
    /\ NoMail

\* PATCH /auth/confirmChangeEmail: the address is the one in the token.
ConfirmUpdateMail(h) ==
    /\ Accept("confirmUpdateMail")
    /\ \E t \in tokens, c \in Codes :
         /\ t.kind = "CHANGE_EMAIL"
         /\ Passes(user[t.user], "CHANGE_EMAIL", c)
         /\ Start(h, [Request(h, "confirmUpdateMail", t.user, "save") EXCEPT
                        !.code = Compared(user[t.user], "CHANGE_EMAIL", c),
                        !.patch.edit = Clear(user[t.user], "CHANGE_EMAIL"),
                        !.patch.email = t.email,
                        !.patch.confirms = TRUE])
    /\ NoMail

\* POST /auth/send-forget-password-mail.
SendForgetPassOTP(h) ==
    /\ Accept("sendForgetPassOTP")
    /\ \E u \in Members :
         /\ Stored(u)
         /\ Readable(user[u], "FORGET_PASSWORD")
         /\ ~ CodeRunning(user[u], "FORGET_PASSWORD")
         /\ Mail(accepted + 1, u, "FORGET_PASSWORD", user[u].email)
         /\ Start(h, [Request(h, "sendForgetPassOTP", u, "save") EXCEPT
                        !.patch.edit = Renew(user[u], "FORGET_PASSWORD", accepted + 1)])

\* POST /auth/confirm-otp-forget: what it clears it never saves.
ConfirmOTPPassword ==
    /\ Accept("confirmOTPPassword")
    /\ \E u \in Members, c \in Codes :
         /\ HasToken("FORGET_PASSWORD", u)
         /\ Passes(user[u], "FORGET_PASSWORD", c)
         /\ tokens' = tokens \cup {[kind |-> "CONFIRM_OTP_FORGET",
                                    user |-> u, email |-> Nil]}
         /\ LET op == "confirmOTPPassword"
            IN  IF Position(user[u], "FORGET_PASSWORD") # 0 /\ c > 0
                  THEN /\ spent' = spent \cup {c}
                       /\ reused' = reused \cup (({c} \cap spent) \X {op})
                       /\ UNCHANGED unproven
                  ELSE /\ unproven' = unproven \cup {<<op, u>>}
                       /\ UNCHANGED <<spent, reused>>

\* POST /auth/forget-password.
ForgetPass ==
    /\ Accept("forgetPass")
    /\ \E u \in Members :
         /\ HasToken("CONFIRM_OTP_FORGET", u)
         /\ user' = [user EXCEPT ![u].password = accepted + 1]

\* PATCH /user.  Only a mobile number that is not the one in the copy of the guard
\* is looked up; then all of the body is written.
UpdateUser(h) ==
    /\ Accept("updateUser")
    /\ \E u \in Members, b \in Bodies :
         /\ Guarded(u)
         /\ LET known == b.mobileNumber \in {Nil, user[u].mobileNumber}
                step  == IF known THEN "updateOne" ELSE "findMobile"
            IN  Start(h, [Request(h, "updateUser", u, step) EXCEPT
                            !.mobile = b.mobileNumber, !.body = b])
    /\ NoMail

\* PATCH /user/updatePassword by a user who knows the password of now.
UpdatePassword(h) ==
    /\ Accept("updatePassword")
    /\ \E u \in Members :
         /\ Guarded(u)
         /\ Start(h, [Request(h, "updatePassword", u, "checkPassword") EXCEPT
                        !.password = user[u].password])
    /\ NoMail

\* POST /user/logout.
Logout(h) ==
    /\ Accept("logout")
    /\ \E u \in Members :
         /\ Guarded(u)
         /\ Start(h, [Request(h, "logout", u, "save") EXCEPT
                        !.patch.status = "Offline"])
    /\ NoMail

\* POST /user/admin/banned, by an admin; the members here are no admins.
BannedUser(h) ==
    /\ Accept("bannedUser")
    /\ \E u \in Members :
         /\ Stored(u)
         /\ user[u].status # "Suspended"
         /\ Start(h, [Request(h, "bannedUser", u, "save") EXCEPT
                        !.patch.status = "Suspended"])
    /\ NoMail

\* A request to another service that ends in updateUserMicroservice: its guard
\* keeps the document that user-service answers with.
KeepUser(h) ==
    /\ Accept("updateUserMicroservice")
    /\ \E u \in Members :
         /\ Guarded(u)
         /\ Start(h, [Request(h, "updateUserMicroservice", u, "writeBack") EXCEPT
                        !.copy = user[u]])
    /\ NoMail

\* The requests that go on after their first read ...
Submit(h) ==
    /\ \/ Signup(h)
       \/ VerifyEmail(h)
       \/ ResendOTP(h)
       \/ PreLogin(h)
       \/ Login(h)
       \/ ChangeMail(h)
       \/ ConfirmUpdateMail(h)
       \/ SendForgetPassOTP(h)
       \/ UpdateUser(h)
       \/ UpdatePassword(h)
       \/ Logout(h)
       \/ BannedUser(h)
       \/ KeepUser(h)
    /\ UNCHANGED <<user, tokens, clock, reached, banned, crossed, stale, relisted,
                   named, spent, reused, shared, unproven, rivals>>

\* ... and those that are done with it.
Answer ==
    /\ \/ ConfirmOTPPassword /\ UNCHANGED user
       \/ ForgetPass /\ UNCHANGED <<tokens, spent, reused, unproven>>
    /\ UNCHANGED <<job, clock, mailed, reached, banned, crossed, stale, relisted,
                   named, shared, rivals>>

-----------------------------------------------------------------------------
(* The rest of a handler, one await at a time                              *)

At(h, step) == job[h].pc = step

Goto(h, step) == job' = [job EXCEPT ![h].pc = step]

End(h) == job' = [job EXCEPT ![h] = Idle]

Quiet == UNCHANGED <<clock, accepted>>

\* Slip: only signup looks the number up.
FindMobileSignup(h) ==
    /\ At(h, "findMobile")
    /\ LET j == job[h]
       IN  CASE j.op = "signup" /\ MobileTaken(j.mobile) -> End(h) /\ NoMail
             [] j.op = "signup" /\ ~ MobileTaken(j.mobile) ->
                  Goto(h, "create") /\ Mail(j.no, j.user, "SIGNUP", j.email)
             [] OTHER -> Goto(h, "updateOne") /\ NoMail
    /\ Quiet
    /\ UNCHANGED <<user, tokens, reached, banned, crossed, stale, relisted, named,
                   spent, reused, shared, unproven, rivals>>

\* The mobile number is looked up; signup mails its code then.
FindMobile(h) ==
    /\ At(h, "findMobile")
    /\ LET j == job[h]
       IN  CASE MobileTaken(j.mobile) -> End(h) /\ NoMail
             [] j.op = "signup" /\ ~ MobileTaken(j.mobile) ->
                  Goto(h, "create") /\ Mail(j.no, j.user, "SIGNUP", j.email)
             [] OTHER -> Goto(h, "updateOne") /\ NoMail
    /\ Quiet
    /\ UNCHANGED <<user, tokens, reached, banned, crossed, stale, relisted, named,
                   spent, reused, shared, unproven, rivals>>

\* Slip: the code is mailed to the address of now.
FindEmailMailOld(h) ==
    /\ At(h, "findEmail")
    /\ LET j == job[h]
       IN  IF EmailTaken(j.email)
             THEN End(h) /\ NoMail
             ELSE Goto(h, "save") /\ Mail(j.no, j.user, "CHANGE_EMAIL", user[j.user].email)
    /\ Quiet
    /\ UNCHANGED <<user, tokens, reached, banned, crossed, stale, relisted, named,
                   spent, reused, shared, unproven, rivals>>

\* The new address is looked up, and the code is mailed to it.
FindEmail(h) ==
    /\ At(h, "findEmail")
    /\ LET j == job[h]
       IN  IF EmailTaken(j.email)
             THEN End(h) /\ NoMail
             ELSE Goto(h, "save") /\ Mail(j.no, j.user, "CHANGE_EMAIL", j.email)
    /\ Quiet
    /\ UNCHANGED <<user, tokens, reached, banned, crossed, stale, relisted, named,
                   spent, reused, shared, unproven, rivals>>

\* A member gets the mobile number it has looked up, which another request may
\* be about to write for another member.
Takes(h) ==
    LET j == job[h]
    IN  rivals' = rivals \cup
          {u \in Members \ {j.user} :
             \E g \in Handlers :
               /\ job[g].user = u
               /\ job[g].mobile = j.mobile /\ j.mobile # Nil
               /\ job[g].pc \in {"create", "updateOne"}}

\* The email index refuses a second document with the address.  Of the body only
\* password and authTypes are set here: status and confirmEmail are what the client
\* has sent, or the defaults of the schema.
Create(h) ==
    /\ At(h, "create")
    /\ LET j == job[h]
       IN  IF EmailTaken(j.email)
             THEN UNCHANGED <<user, tokens, rivals>>
             ELSE /\ \E b \in Bodies \cup {NoBody} :
                       user' = [user EXCEPT ![j.user] =
                         [status |-> Given(b.status, "Offline"),
                          confirmEmail |-> Given(b.confirmEmail, FALSE),
                          email |-> j.email, mobileNumber |-> j.mobile,
                          password |-> j.no,
                          authTypes |-> <<Fresh("SIGNUP", j.no)>>]]
                  /\ tokens' = tokens \cup
                       {[kind |-> "SIGNUP", user |-> j.user, email |-> Nil]}
                  /\ Takes(h)
    /\ End(h)
    /\ Quiet
    /\ UNCHANGED <<mailed, reached, banned, crossed, stale, relisted, named, spent,
                   reused, shared, unproven>>

\* The token in the answer to a request.
Granted(j) ==
    LET Sign(kind, e) == {[kind |-> kind, user |-> j.user, email |-> e]}
    IN  CASE j.op = "preLogin"          -> Sign("PRE_LOGIN", Nil)
          [] j.op = "login"             -> Sign("LOGIN", Nil)
          [] j.op = "changeMail"        -> Sign("CHANGE_EMAIL", j.email)
          [] j.op = "sendForgetPassOTP" -> Sign("FORGET_PASSWORD", Nil)
          [] OTHER                      -> {}

\* Another member has the address by now: the index refuses the update.
Clash(u, e) == \E v \in Members \ {u} : Stored(v) /\ user[v].email = e

\* A request that writes the status and has checked it already.
WritesStatus(j) ==
    \/ j.patch.status # Nil
    \/ j.body.status # Nil
    \/ j.pc \in {"checkPassword", "setPassword"}

\* The requests that save what a code was asked for.
CodeOps == {"verifyEmail", "login", "confirmUpdateMail"}

\* What a finished save tells about bans and codes.
Witness(h) ==
    LET j == job[h]
        others == Handlers \ {h}
        spends == j.code > 0 /\ j.patch.edit.kind = "clear"
    IN  /\ banned' = IF j.op = "bannedUser" THEN banned \cup {j.user} ELSE banned
        /\ crossed' =
             IF /\ j.op = "bannedUser"
                /\ \E g \in others : job[g].user = j.user /\ WritesStatus(job[g])
               THEN crossed \cup {j.user} ELSE crossed
        /\ spent' = IF spends THEN spent \cup {j.code} ELSE spent
        /\ reused' = IF spends
                      THEN reused \cup (({j.code} \cap spent) \X {j.op})
                      ELSE reused
        /\ shared' =
             IF spends /\ \E g \in others : job[g].code = j.code
               THEN shared \cup {j.code} ELSE shared
        /\ unproven' = IF j.op \in CodeOps /\ ~ spends
                         THEN unproven \cup {<<j.op, j.user>>} ELSE unproven
        /\ reached' = IF spends
                        THEN reached \cup {<<j.user, mailed[j.code].to>>}
                        ELSE reached

Save(h) ==
    /\ At(h, "save")
    /\ LET j == job[h]
       IN  IF Clash(j.user, j.patch.email)
             THEN UNCHANGED <<user, tokens, historyVars>>
             ELSE /\ user' = [user EXCEPT ![j.user] = Patched(@, j.patch)]
                  /\ tokens' = tokens \cup Granted(j)
                  /\ Witness(h)
                  /\ UNCHANGED <<mailed, stale, relisted, named, rivals>>
    /\ End(h)
    /\ Quiet

\* updateOne with the body; the email index may refuse it.
UpdateOne(h) ==
    /\ At(h, "updateOne")
    /\ LET j == job[h]
       IN  IF Clash(j.user, j.body.email)
             THEN UNCHANGED <<user, relisted, named, rivals>>
             ELSE /\ user' = [user EXCEPT ![j.user] = BodySet(@, j.body, j.no)]
                  /\ Takes(h)
                  /\ relisted' = IF j.body.authTypes = Nil
                                   THEN relisted ELSE relisted \cup {j.user}
                  /\ named' = IF j.body.email = Nil
                                THEN named ELSE named \cup {<<j.user, j.body.email>>}
    /\ End(h)
    /\ Quiet
    /\ UNCHANGED <<tokens, mailed, reached, banned, crossed, stale, spent, reused,
                   shared, unproven>>

\* updatePassword: the stored password is compared with the old one ...
CheckPassword(h) ==
    /\ At(h, "checkPassword")
    /\ IF user[job[h].user].password = job[h].password /\ job[h].password # Unhashed
         THEN Goto(h, "setPassword")
         ELSE End(h)
    /\ Quiet
    /\ UNCHANGED <<user, tokens, historyVars>>

\* ... and then replaced, and the user logged out.
SetPassword(h) ==
    /\ At(h, "setPassword")
    /\ user' = [user EXCEPT ![job[h].user].password = job[h].no,
                            ![job[h].user].status = "Offline"]
    /\ End(h)
    /\ Quiet
    /\ UNCHANGED <<tokens, historyVars>>

\* What other services put back: the copy, or the copy with the element in which
\* transaction-service notes that the account is locked, new or prolonged.
PutBack(doc) ==
    {doc} \cup
    IF Readable(doc, "INVALID_PIN") /\ ~ CodeRunning(doc, "INVALID_PIN")
      THEN {[doc EXCEPT !.authTypes = Edited(@, Renew(doc, "INVALID_PIN", 0))]}
      ELSE {}

\* updateUserData: every field of the copy is written.
WriteBack(h) ==
    /\ At(h, "writeBack")
    /\ LET j == job[h]
       IN  IF Clash(j.user, j.copy.email)
             THEN UNCHANGED <<user, stale>>
             ELSE /\ \E doc \in PutBack(j.copy) : user' = [user EXCEPT ![j.user] = doc]
                  /\ stale' = IF user[j.user] = j.copy
                                THEN stale ELSE stale \cup {j.user}
    /\ End(h)
    /\ Quiet
    /\ UNCHANGED <<tokens, mailed, reached, banned, crossed, relisted, named, spent,
                   reused, shared, unproven, rivals>>

Advance(h) ==
    \/ FindMobile(h)
    \/ FindEmail(h)
    \/ Create(h)
    \/ Save(h)
    \/ UpdateOne(h)
    \/ CheckPassword(h)
    \/ SetPassword(h)
    \/ WriteBack(h)

\* A call of the handler fails, or the process dies.
Abort(h) ==
    /\ Faults
    /\ ~ At(h, "idle")
    /\ End(h)
    /\ Quiet
    /\ UNCHANGED <<user, tokens, historyVars>>

Tick ==
    /\ clock < MaxTime
    /\ clock' = clock + 1
    /\ UNCHANGED <<user, job, tokens, accepted, historyVars>>

\* No request is being served, and clients may have none to make.
Rest ==
    /\ \A h \in Handlers : At(h, "idle")
    /\ UNCHANGED vars

Next ==
    \/ \E h \in Handlers : Submit(h) \/ Advance(h) \/ Abort(h)
    \/ Answer
    \/ Tick
    \/ Rest

Spec == Init /\ [][Next]_vars

-----------------------------------------------------------------------------
(* Properties                                                              *)

\* Every variable holds what the code can put into it.
TypeOK ==
    /\ user \in [Members -> Document \cup {Nil}]
    /\ job \in [Handlers -> Job]
    /\ tokens \subseteq Token
    /\ clock \in Nat
    /\ accepted \in 0 .. MaxRequests
    /\ mailed \in [Numbers ->
                     [user : Members, for : Purposes, to : Emails] \cup {Nil}]
    /\ reached \cup named \subseteq Members \X Emails
    /\ banned \cup crossed \cup stale \cup relisted \cup rivals \subseteq Members
    /\ unproven \subseteq (CodeOps \cup {"confirmOTPPassword"}) \X Members
    /\ spent \cup shared \subseteq Numbers
    /\ reused \subseteq Numbers \X (CodeOps \cup {"confirmOTPPassword"})

\* A ban lasts: no request that begins after it makes the member Online or
\* Offline again.  Only a request that had checked the status before the ban
\* was saved can, or another service that puts an older document back.
BanLasts ==
    \A u \in banned \ (crossed \cup stale) : user[u].status = "Suspended"

\* A code lets one request through, but for confirmOTPPassword: what that unsets it
\* never saves, and the code for a forgotten password passes again.  Any other code
\* is accepted a second time only by a check that came before the first request was
\* saved, after an older document was put back, or after the member has replaced
\* the elements by PATCH /user.
CodesAreOneTime ==
    \A x \in reused :
      \/ x[2] = "confirmOTPPassword" /\ mailed[x[1]].for = "FORGET_PASSWORD"
      \/ x[1] \in shared
      \/ mailed[x[1]].user \in stale \cup relisted

\* The loops that compare a code let everyone pass when they find no element
\* to compare with, and PATCH /user can take elements away or put some in.  Only
\* for those who have done that nobody asks for a mailed code at login or signup,
\* whatever requests overlap; a change of email or of a forgotten password gets
\* through without one also after another service has put an older document back.
LoginNeedsCode ==
    \A x \in unproven :
      \/ x[2] \in relisted
      \/ x[1] \in {"confirmUpdateMail", "confirmOTPPassword"} /\ x[2] \in stale

\* No index keeps mobile numbers apart ("uniqe" is none); signup and updateUser
\* look a number up and write it later.  So two members have one number only if
\* one of them had looked it up when the other got it, or if another service has
\* put an older document back.
MobilesApart ==
    \A u \in Members : \A v \in Members \ {u} :
      Stored(u) /\ Stored(v) /\ user[u].mobileNumber = user[v].mobileNumber =>
        {u, v} \cap (rivals \cup stale) # {}

\* In a document whose email is confirmed, the address is one to which a code for
\* signup or for a change of address was mailed, for its owner and nobody else, or
\* one that the member has put in by PATCH /user, which mails nothing and leaves
\* confirmEmail as it is: after changes of address that overlap, newcomers who take
\* an address, and documents put back.
ConfirmedWasMailed ==
    \A u \in Members : Stored(u) /\ user[u].confirmEmail =>
      \/ u \in Joined /\ user[u].email = HomeEmail[u]
      \/ <<u, user[u].email>> \in named
      \/ \E c \in Numbers : /\ mailed[c] # Nil
                             /\ mailed[c].user = u /\ mailed[c].to = user[u].email
                             /\ mailed[c].for \in {"SIGNUP", "CHANGE_EMAIL"}

\* What verifyEmail and confirmUpdateMail are for, and resendOTP breaks: a
\* confirmed address is one from which its owner has entered a code.
ConfirmedMeansReached ==
    \A u \in Members : Stored(u) /\ user[u].confirmEmail =>
      <<u, user[u].email>> \in reached
=============================================================================
