------------------------------ MODULE UsersProofs ------------------------------
(***************************************************************************)
(* Theorems about Users, for any members, addresses and handlers, any      *)
(* number of requests and any validity of codes.                           *)
(***************************************************************************)
EXTENDS Users, FiniteSetTheorems, SequenceTheorems, TLAPS

-----------------------------------------------------------------------------
(* The elements of authTypes                                               *)

\* Constants and the empty patch.
LEMMA NumberFacts ==
    /\ MaxRequests \in Nat
    /\ Numbers \subseteq Nat
    /\ 0 \notin Numbers
    /\ 0 \in 0 .. MaxRequests
    /\ Numbers \subseteq 0 .. MaxRequests
    /\ Nil \notin Members /\ Nil \notin Emails /\ Nil \notin Mobiles
    /\ Nil \notin Statuses /\ Nil \notin Document
    /\ Nil \notin [user : Members, for : Purposes, to : Emails]
    /\ Bodies \subseteq Body
    /\ Own \notin Numbers /\ Own # 0
  BY UsersAssumption DEF Numbers, Own

\* The body of a request that sends none.
LEMMA EmptyBody ==
    /\ NoBody \in Body
    /\ NoBody.status = Nil /\ NoBody.email = Nil /\ NoBody.mobileNumber = Nil
    /\ NoBody.authTypes = Nil
  BY DEF NoBody, Body

\* A patch of a request that has changed nothing yet.
LEMMA EmptyPatch ==
    /\ NoPatch \in Patch
    /\ NoEdit \in Edit /\ NoItem \in Item
    /\ NoPatch.edit = NoEdit /\ NoEdit.kind = "none"
    /\ NoPatch.status = Nil /\ NoPatch.email = Nil
  BY NumberFacts DEF NoPatch, NoEdit, NoItem, Patch, Edit, Item

\* Every set of numbers has a least one: the shortest interval up to one of
\* them.
LEMMA LeastNumber ==
    ASSUME NEW S, S \subseteq Nat, S # {}
    PROVE  \E i \in S : \A k \in S : i <= k
  <1>. DEFINE T == {0 .. i : i \in S}
  <1>1. T \subseteq FiniteSubsetsOf(Nat) /\ T # {}
    <2>1. \A i \in S : IsFiniteSet(0 .. i) /\ 0 .. i \subseteq Nat
      BY FS_Interval
    <2>. QED
      BY <2>1 DEF FiniteSubsetsOf
  <1>2. IsWellFoundedOn(StrictSubsetOrdering(Nat), FiniteSubsetsOf(Nat))
    BY FS_StrictSubsetOrderingWellFounded
  <1>3. PICK I \in T : \A K \in T : ~ (<<K, I>> \in StrictSubsetOrdering(Nat))
    <2>. HIDE DEF T
    <2>. QED
      BY <1>1, <1>2, WFMin
  <1>4. PICK i \in S : I = 0 .. i
    BY <1>3
  <1>5. ASSUME NEW k \in S PROVE i <= k
    <2>1. 0 .. k \in T /\ 0 .. k \subseteq Nat /\ 0 .. i \subseteq Nat
      OBVIOUS
    <2>2. ~ (0 .. k \subseteq 0 .. i /\ 0 .. k # 0 .. i)
      BY <1>3, <1>4, <2>1 DEF StrictSubsetOrdering
    <2>3. k < i => 0 .. k \subseteq 0 .. i /\ i \in 0 .. i /\ i \notin 0 .. k
      OBVIOUS
    <2>. QED
      BY <2>2, <2>3
  <1>. QED
    BY <1>5

\* The document has an element for p.
Has(doc, p) == \E i \in DOMAIN doc.authTypes : doc.authTypes[i].authFor = p

\* Position is where such an element is, and 0 where there is none.
LEMMA PositionFacts ==
    ASSUME NEW doc \in Document, NEW p
    PROVE  /\ Position(doc, p) \in Nat
           /\ Has(doc, p) =>
                /\ Position(doc, p) \in DOMAIN doc.authTypes
                /\ Position(doc, p) # 0
                /\ doc.authTypes[Position(doc, p)].authFor = p
           /\ ~ Has(doc, p) => Position(doc, p) = 0
  <1>. DEFINE S == {i \in DOMAIN doc.authTypes : doc.authTypes[i].authFor = p}
  <1>1. doc.authTypes \in Seq(Item)
    BY DEF Document
  <1>2. S \subseteq Nat /\ 0 \notin S
    BY <1>1
  <1>3. S # {} => \E i \in S : \A k \in S : i <= k
    BY <1>2, LeastNumber
  <1>. QED
    BY <1>2, <1>3 DEF Position, Has

\* What a request that mails a code does to the elements it has read.
LEMMA RenewFacts ==
    ASSUME NEW doc \in Document, NEW p \in Purposes \cup {"INVALID_PIN"},
           NEW c \in 0 .. MaxRequests, clock \in Nat
    PROVE  /\ Renew(doc, p, c) \in Edit
           /\ Renew(doc, p, c).item.value = c
           /\ Renew(doc, p, c).item.authFor = p
           /\ Renew(doc, p, c).kind \in {"push", "set"}
           /\ Renew(doc, p, c).kind = "set" =>
                /\ Renew(doc, p, c).at \in DOMAIN doc.authTypes
                /\ Renew(doc, p, c).at \in Nat \ {0}
                /\ doc.authTypes[Renew(doc, p, c).at].authFor = p
  <1>1. Fresh(p, c) \in Item
    BY UsersAssumption DEF Fresh, Item
  <1>2. Fresh(p, c).value = c /\ Fresh(p, c).authFor = p
    BY DEF Fresh
  <1>. HIDE DEF Fresh
  <1>. QED
    BY <1>1, <1>2, PositionFacts DEF Renew, Edit

\* What a request that was let through by a code does to them.
LEMMA ClearFacts ==
    ASSUME NEW doc \in Document, NEW p, NEW c, Passes(doc, p, c)
    PROVE  /\ Clear(doc, p) \in Edit
           /\ Clear(doc, p).kind \in {"none", "clear"}
           /\ Clear(doc, p).kind = "none" => ~ Has(doc, p)
           /\ Clear(doc, p).kind = "clear" =>
                /\ Clear(doc, p).at \in DOMAIN doc.authTypes
                /\ doc.authTypes[Clear(doc, p).at].value = c
                /\ doc.authTypes[Clear(doc, p).at].authFor = p
                /\ Has(doc, p)
                /\ c # 0
  <1>1. NoItem \in Item /\ NoEdit \in Edit
    BY UsersAssumption DEF NoEdit, NoItem, Edit, Item
  <1>2. NoEdit.kind = "none"
    BY DEF NoEdit
  <1>. HIDE DEF NoEdit, NoItem
  <1>. QED
    BY <1>1, <1>2, PositionFacts DEF Clear, Edit, Passes

\* Where a new code ends up.
Spot(items, e) == IF e.kind = "push" THEN Len(items) + 1 ELSE e.at

\* An edit keeps the elements for what they are for, adds no code but its own,
\* and takes away what it clears.
LEMMA EditedFacts ==
    ASSUME NEW items \in Seq(Item), NEW e \in Edit, e.kind = "set" => e.at # 0
    PROVE  /\ Edited(items, e) \in Seq(Item)
           /\ DOMAIN items \subseteq DOMAIN Edited(items, e)
           /\ \A i \in DOMAIN items : Edited(items, e)[i].authFor = items[i].authFor
           /\ e.kind = "push" =>
                /\ Len(items) + 1 \in DOMAIN Edited(items, e)
                /\ Edited(items, e)[Len(items) + 1].authFor = e.item.authFor
           /\ \A i \in DOMAIN Edited(items, e) :
                \/ Edited(items, e)[i].value = 0
                \/ i \in DOMAIN items /\ Edited(items, e)[i].value = items[i].value
                \/ /\ e.kind \in {"push", "set"}
                   /\ i = Spot(items, e)
                   /\ Edited(items, e)[i].value = e.item.value
           /\ e.kind = "clear" /\ e.at \in DOMAIN items =>
                Edited(items, e)[e.at].value = 0
  <1>0. /\ Len(items) \in Nat /\ DOMAIN items = 1 .. Len(items)
        /\ \A i \in DOMAIN items : items[i] \in Item
        /\ e.item \in Item /\ e.at \in Nat /\ NoItem \in Item
    BY EmptyPatch, LenProperties DEF Edit
  <1>1. CASE e.kind = "push"
    <2>1. Edited(items, e) = Append(items, e.item)
      BY <1>1 DEF Edited
    <2>2. /\ Append(items, e.item) \in Seq(Item)
          /\ DOMAIN Append(items, e.item) = 1 .. Len(items) + 1
          /\ \A i \in DOMAIN items : Append(items, e.item)[i] = items[i]
          /\ Append(items, e.item)[Len(items) + 1] = e.item
      <3>1. DOMAIN Append(items, e.item) = 1 .. Len(Append(items, e.item))
        BY <1>0, AppendProperties, LenProperties
      <3>. QED
        BY <1>0, <3>1, AppendProperties
    <2>. QED
      BY <1>0, <1>1, <2>1, <2>2 DEF Spot
  <1>2. CASE e.kind = "set" /\ e.at \in DOMAIN items
    <2>. DEFINE new == [items[e.at] EXCEPT !.value = e.item.value,
                                           !.expireAt = e.item.expireAt]
    <2>1. Edited(items, e) = [items EXCEPT ![e.at] = new]
      BY <1>0, <1>2 DEF Edited, SetAt
    <2>2. /\ new \in Item /\ new.authFor = items[e.at].authFor
          /\ new.value = e.item.value
      BY <1>0, <1>2 DEF Item
    <2>. HIDE DEF new
    <2>. QED
      BY <1>0, <1>2, <2>1, <2>2, ExceptSeq DEF Spot
  <1>3. CASE e.kind = "set" /\ e.at \notin DOMAIN items
    <2>. DEFINE new == [e.item EXCEPT !.authFor = "nothing"]
                null == [NoItem EXCEPT !.authFor = "null"]
                f == [k \in 1 .. e.at |->
                        IF k <= Len(items) THEN items[k]
                        ELSE IF k = e.at THEN new ELSE null]
    <2>1. new \in Item /\ null \in Item /\ new.value = e.item.value /\ null.value = 0
      BY <1>0 DEF Item, NoItem
    <2>2. Edited(items, e) = f
      <3>1. Edited(items, e) =
              [k \in 1 .. e.at |-> CASE k <= Len(items) -> items[k]
                                     [] k = e.at -> new
                                     [] OTHER -> null]
        BY <1>3 DEF Edited, SetAt
      <3>2. \A k \in 1 .. e.at :
              (CASE k <= Len(items) -> items[k] [] k = e.at -> new [] OTHER -> null)
                = IF k <= Len(items) THEN items[k]
                  ELSE IF k = e.at THEN new ELSE null
        <4>. HIDE DEF new, null
        <4>. QED
          BY <1>0, <1>3
      <3>. QED
        BY <3>1, <3>2
    <2>. HIDE DEF new, null
    <2>3. e.at > Len(items)
      BY <1>0, <1>3
    <2>4. f \in [1 .. e.at -> Item]
      BY <1>0, <2>1, <2>3
    <2>5. f \in Seq(Item) /\ DOMAIN f = 1 .. e.at
      BY <1>0, <2>4, SeqDef
    <2>. QED
      BY <1>0, <1>3, <2>1, <2>2, <2>3, <2>5 DEF Spot
  <1>4. CASE e.kind = "clear" /\ e.at \in DOMAIN items
    <2>. DEFINE new == [items[e.at] EXCEPT !.value = 0]
    <2>1. Edited(items, e) = [items EXCEPT ![e.at] = new]
      BY <1>0, <1>4 DEF Edited
    <2>2. new \in Item /\ new.authFor = items[e.at].authFor /\ new.value = 0
      <3>1. items[e.at] \in Item /\ 0 \in {Own} \cup 0 .. MaxRequests
        BY <1>0, <1>4, UsersAssumption
      <3>. QED
        BY <3>1 DEF Item
    <2>. HIDE DEF new
    <2>. QED
      BY <1>0, <1>4, <2>1, <2>2, ExceptSeq
  <1>5. CASE ~ (e.kind \in {"push", "set"})
             /\ ~ (e.kind = "clear" /\ e.at \in DOMAIN items)
    <2>1. Edited(items, e) = items
      BY <1>5 DEF Edited
    <2>. QED
      BY <1>0, <1>5, <2>1
  <1>. QED
    BY <1>1, <1>2, <1>3, <1>4, <1>5

\* Elements of which none is taken away, and none gets a code.
Within(new, old) ==
    /\ DOMAIN old.authTypes \subseteq DOMAIN new.authTypes
    /\ \A i \in DOMAIN old.authTypes :
         new.authTypes[i].authFor = old.authTypes[i].authFor
    /\ \A i \in DOMAIN new.authTypes :
         \/ new.authTypes[i].value = 0
         \/ /\ i \in DOMAIN old.authTypes
            /\ new.authTypes[i].value = old.authTypes[i].value

\* Such elements are for whatever the old ones are for.
LEMMA WithinHas ==
    ASSUME NEW new, NEW old, Within(new, old), NEW p, Has(old, p)
    PROVE  Has(new, p)
  BY DEF Within, Has

\* What other services put back is their copy, with an element for INVALID_PIN.
LEMMA PutBackFacts ==
    ASSUME NEW doc \in Document, NEW D \in PutBack(doc), clock \in Nat
    PROVE  /\ D \in Document
           /\ D.status = doc.status /\ D.email = doc.email
           /\ D.mobileNumber = doc.mobileNumber
           /\ Within(D, doc)
  <1>. DEFINE items == doc.authTypes
              e == Renew(doc, "INVALID_PIN", 0)
              d == [doc EXCEPT !.authTypes = Edited(items, e)]
  <1>1. D = doc \/ D = d
    BY DEF PutBack
  <1>2. /\ items \in Seq(Item) /\ e \in Edit /\ e.item.value = 0
        /\ e.kind = "set" => e.at # 0
    <2>1. items \in Seq(Item)
      BY DEF Document
    <2>2. 0 \in 0 .. MaxRequests
      BY NumberFacts
    <2>3. e \in Edit /\ e.item.value = 0 /\ (e.kind = "set" => e.at \in Nat \ {0})
      BY <2>2, RenewFacts
    <2>. QED
      BY <2>1, <2>3
  <1>. HIDE DEF e
  <1>3. /\ Edited(items, e) \in Seq(Item)
        /\ DOMAIN items \subseteq DOMAIN Edited(items, e)
        /\ \A i \in DOMAIN items : Edited(items, e)[i].authFor = items[i].authFor
        /\ \A i \in DOMAIN Edited(items, e) :
             \/ Edited(items, e)[i].value = 0
             \/ i \in DOMAIN items /\ Edited(items, e)[i].value = items[i].value
    BY <1>2, EditedFacts
  <1>4. /\ d \in Document /\ d.status = doc.status /\ d.email = doc.email
        /\ d.mobileNumber = doc.mobileNumber /\ d.authTypes = Edited(items, e)
    BY <1>3 DEF Document
  <1>5. Within(d, doc)
    <2>. HIDE DEF d
    <2>. QED
      BY <1>3, <1>4 DEF Within
  <1>. QED
    BY <1>1, <1>4, <1>5 DEF Within

\* What PATCH /user makes of a document.
LEMMA BodyFacts ==
    ASSUME NEW doc \in Document, NEW b \in Body, NEW no \in 0 .. MaxRequests
    PROVE  /\ BodySet(doc, b, no) \in Document
           /\ BodySet(doc, b, no).status =
                IF b.status = Nil THEN doc.status ELSE b.status
           /\ BodySet(doc, b, no).email = IF b.email = Nil THEN doc.email ELSE b.email
           /\ BodySet(doc, b, no).mobileNumber =
                IF b.mobileNumber = Nil THEN doc.mobileNumber ELSE b.mobileNumber
           /\ \/ b.authTypes = Nil
                /\ BodySet(doc, b, no).authTypes = doc.authTypes
              \/ /\ b.authTypes # Nil
                 /\ \A i \in DOMAIN BodySet(doc, b, no).authTypes :
                      BodySet(doc, b, no).authTypes[i].value \notin Numbers
  <1>. DEFINE st == Given(b.status, doc.status)
              co == Given(b.confirmEmail, doc.confirmEmail)
              em == Given(b.email, doc.email)
              mo == Given(b.mobileNumber, doc.mobileNumber)
              au == Given(b.authTypes, doc.authTypes)
              pw == CASE b.password = "plain"  -> Unhashed
                      [] b.password = "hashed" -> no
                      [] OTHER                 -> doc.password
              Few == {i \in Item : i.value \in {Own, 0}}
  <1>1. st \in Statuses /\ co \in BOOLEAN /\ em \in Emails /\ mo \in Mobiles
    BY DEF Given, Document, Body
  <1>2. pw \in {Unhashed} \cup 0 .. MaxRequests
    BY DEF Document
  <1>3. b.authTypes # Nil => b.authTypes \in Seq(Few)
    BY DEF Body
  <1>4. Few \subseteq Item /\ \A i \in Few : i.value \notin Numbers
    BY NumberFacts
  <1>. HIDE DEF Few
  <1>5. b.authTypes # Nil =>
          /\ b.authTypes \in Seq(Item)
          /\ \A i \in DOMAIN b.authTypes : b.authTypes[i].value \notin Numbers
    BY <1>3, <1>4
  <1>6. au \in Seq(Item)
    BY <1>5 DEF Given, Document
  <1>7. BodySet(doc, b, no) =
          [doc EXCEPT !.status = st, !.confirmEmail = co, !.email = em,
                      !.mobileNumber = mo, !.authTypes = au, !.password = pw]
    BY DEF BodySet
  <1>8. au = IF b.authTypes = Nil THEN doc.authTypes ELSE b.authTypes
    BY DEF Given
  <1>9. /\ st = IF b.status = Nil THEN doc.status ELSE b.status
        /\ em = IF b.email = Nil THEN doc.email ELSE b.email
        /\ mo = IF b.mobileNumber = Nil THEN doc.mobileNumber ELSE b.mobileNumber
    BY DEF Given
  <1>. DEFINE D == BodySet(doc, b, no)
  <1>. HIDE DEF st, co, em, mo, au, pw
  <1>10. /\ D \in Document /\ D.status = st /\ D.email = em
         /\ D.mobileNumber = mo /\ D.authTypes = au
    BY <1>1, <1>2, <1>6, <1>7 DEF Document
  <1>. HIDE DEF D
  <1>11. \/ b.authTypes = Nil /\ D.authTypes = doc.authTypes
         \/ /\ b.authTypes # Nil
            /\ \A i \in DOMAIN D.authTypes : D.authTypes[i].value \notin Numbers
    BY <1>5, <1>8, <1>10
  <1>. QED
    BY <1>9, <1>10, <1>11 DEF D

-----------------------------------------------------------------------------
(* What a handler knows                                                    *)

\* The requests that mail a code ...
Mailers == {"resendOTP", "preLogin", "changeMail", "sendForgetPassOTP"}

\* ... and what the code of a request is for.
Purpose(op) ==
    CASE op = "verifyEmail" -> "SIGNUP"
      [] op \in {"preLogin", "login"} -> "PRE_LOGIN"
      [] op \in {"changeMail", "confirmUpdateMail"} -> "CHANGE_EMAIL"
      [] OTHER -> "FORGET_PASSWORD"

\* The edit of authTypes is that of the request.
EditOK(j) ==
    LET e == j.patch.edit
    IN  /\ e.kind \in {"push", "set"} <=> j.op \in Mailers
        /\ e.kind = "set" => e.at # 0
        /\ j.op \in Mailers => e.item.value = j.no /\ e.item.authFor \in Purposes
        /\ j.op \in Mailers \ {"resendOTP"} => e.item.authFor = Purpose(j.op)
        /\ e.kind = "clear" => j.op \in CodeOps /\ j.code # 0

JobOK(j) ==
    /\ j \in Job
    /\ j.pc = "idle" => j = Idle
    /\ j.pc # "idle" => j.user \in Members /\ j.no \in Numbers
    /\ j.op = "signup" => j.pc \in {"findMobile", "create"} /\ j.email \in Emails
    /\ j.pc = "create" => j.op = "signup"
    /\ j.pc \in {"findMobile", "create"} => j.mobile \in Mobiles
    /\ j.pc = "findMobile" => j.op \in {"signup", "updateUser"}
    /\ j.pc = "updateOne" => j.op = "updateUser"
    /\ j.op = "updateUser" =>
         j.pc \in {"findMobile", "updateOne"} /\ j.mobile = j.body.mobileNumber
    /\ j.op # "updateUser" => j.body = NoBody
    /\ j.pc = "findEmail" => j.op = "changeMail"
    /\ j.op = "changeMail" => j.pc \in {"findEmail", "save"} /\ j.email \in Emails
    /\ j.op \in (Mailers \ {"changeMail"}) \cup CodeOps => j.pc = "save"
    /\ j.pc = "writeBack" => j.copy \in Document
    /\ j.op = "bannedUser" => j.pc = "save" /\ j.patch.status = "Suspended"
    /\ EditOK(j)

\* Who has signed up.  A signup is the only request of a newcomer, and requests
\* have their own numbers.
PlacesOK ==
    /\ \A t \in tokens :
         Stored(t.user) /\ (t.kind = "CHANGE_EMAIL" => t.email \in Emails)
    /\ \A h \in Handlers : job[h].pc # "idle" =>
         /\ job[h].no <= accepted
         /\ job[h].op = "signup" <=> ~ Stored(job[h].user)
         /\ \A g \in Handlers \ {h} :
              /\ job[g].no # job[h].no
              /\ job[h].op = "signup" => job[g].user # job[h].user

\* Code c was mailed for u: m is what was mailed.
MailedFor(m, c, u) ==
    /\ c \in Numbers
    /\ m[c] \in [user : Members, for : Purposes, to : Emails]
    /\ m[c].user = u

\* The codes in a document of u were.
CodesOf(m, u, doc) ==
    \A i \in DOMAIN doc.authTypes :
      doc.authTypes[i].value \in Numbers =>
        MailedFor(m, doc.authTypes[i].value, u)

\* A code is mailed before it is saved, and once.
MailsOK ==
    /\ \A c \in Numbers : c > accepted => mailed[c] = Nil
    /\ \A u \in Members : Stored(u) => CodesOf(mailed, u, user[u])
    /\ \A h \in Handlers :
         LET j == job[h]
         IN  /\ j.pc \in {"findMobile", "findEmail"} => mailed[j.no] = Nil
             /\ j.pc = "create" \/ (j.pc = "save" /\ j.op \in Mailers) =>
                  MailedFor(mailed, j.no, j.user)
             /\ j.patch.edit.kind = "clear" /\ j.code \in Numbers =>
                  MailedFor(mailed, j.code, j.user)
             /\ j.pc = "writeBack" => CodesOf(mailed, j.user, j.copy)

TypeInv ==
    /\ TypeOK
    /\ \A h \in Handlers : JobOK(job[h])
    /\ PlacesOK
    /\ MailsOK

-----------------------------------------------------------------------------
(* What a request starts with                                              *)

\* A request that has just been accepted, and what it has read.
Begun(h, j) ==
    /\ job[h].pc = "idle"
    /\ JobOK(j)
    /\ j.pc \notin {"idle", "create", "setPassword"}
    /\ j.pc = "updateOne" => j.mobile \in {Nil, user[j.user].mobileNumber}
    /\ j.no = accepted + 1
    /\ j.op = "signup" <=> ~ Stored(j.user)
    /\ j.op = "signup" => \A g \in Handlers : job[g].user # j.user
    /\ j.op \in CodeOps => HasToken(Purpose(j.op), j.user)
    /\ j.patch.email # Nil =>
         [kind |-> "CHANGE_EMAIL", user |-> j.user, email |-> j.patch.email]
           \in tokens
    /\ j.pc = "writeBack" =>
         j.copy = user[j.user] /\ HasToken("LOGIN", j.user)
    /\ WritesStatus(j) => user[j.user].status # "Suspended"
    /\ j.op = "changeMail" => j.pc = "findEmail"

\* Its edit is about the elements that are stored.
Reads(j) ==
    LET items == user[j.user].authTypes
        e     == j.patch.edit
    IN  /\ e.kind = "set" =>
             e.at \in DOMAIN items /\ items[e.at].authFor = e.item.authFor
        /\ e.kind = "clear" =>
             /\ e.at \in DOMAIN items /\ items[e.at].value = j.code
             /\ items[e.at].authFor = Purpose(j.op)
        /\ j.op \in CodeOps /\ e.kind # "clear" => ~ Has(user[j.user], Purpose(j.op))

\* The mail that goes out with it.
Mails(j) ==
    IF j.pc = "save" /\ j.op \in Mailers
      THEN mailed' = [mailed EXCEPT ![j.no] =
                        [user |-> j.user, for |-> j.patch.edit.item.authFor,
                         to |-> user[j.user].email]]
      ELSE mailed' = mailed

Begins(h) ==
    \E j : Begun(h, j) /\ Reads(j) /\ Mails(j) /\ job' = [job EXCEPT ![h] = j]

\* A free slot is a job that knows all it needs.
LEMMA IdleOK == JobOK(Idle)
  <1>1. Idle \in Job
    <2>. HIDE DEF NoBody, NoPatch
    <2>. QED
      BY EmptyPatch, EmptyBody, NumberFacts DEF Idle, Job, Ops, Steps
  <1>2. /\ Idle.pc = "idle" /\ Idle.op = "none" /\ Idle.patch = NoPatch
        /\ Idle.body = NoBody
    BY DEF Idle
  <1>. QED
    BY <1>1, <1>2, EmptyPatch DEF JobOK, EditOK, Mailers, CodeOps

\* The record a request starts with.
LEMMA RequestFacts ==
    ASSUME TypeInv, NEW h, NEW u \in Members, NEW op \in Ops, NEW pc \in Steps,
           accepted < MaxRequests
    PROVE  /\ Request(h, op, u, pc) \in Job
           /\ Request(h, op, u, pc).op = op
           /\ Request(h, op, u, pc).pc = pc
           /\ Request(h, op, u, pc).no = accepted + 1
           /\ Request(h, op, u, pc).user = u
           /\ Request(h, op, u, pc).patch = NoPatch
           /\ Request(h, op, u, pc).body = NoBody
           /\ accepted + 1 \in Numbers
  <1>1. accepted + 1 \in Numbers
    BY NumberFacts DEF TypeInv, TypeOK, Numbers
  <1>2. Idle \in Job /\ Idle.patch = NoPatch /\ Idle.body = NoBody
    BY IdleOK DEF JobOK, Idle
  <1>. QED
    BY <1>1, <1>2, NumberFacts DEF Request, Job

\* Whoever has a document has one of the right form.
LEMMA StoredFacts ==
    ASSUME TypeInv, NEW u \in Members, Stored(u)
    PROVE  /\ user[u] \in Document
           /\ user[u].status \in Statuses
           /\ user[u].email \in Emails
           /\ user[u].password \in {Unhashed} \cup 0 .. MaxRequests
           /\ user[u].mobileNumber \in Mobiles
           /\ user[u].authTypes \in Seq(Item)
  BY DEF TypeInv, TypeOK, Stored, Document

\* Whoever has a token has signed up.
LEMMA TokenFacts ==
    ASSUME TypeInv, NEW u, NEW p, HasToken(p, u)
    PROVE  u \in Members /\ Stored(u)
  BY DEF TypeInv, TypeOK, PlacesOK, HasToken, Token

\* A request that mails a code.
LEMMA MailerBegins ==
    ASSUME TypeInv, NEW h \in Handlers, job[h].pc = "idle",
           accepted + 1 \in Numbers,
           NEW u \in Members, Stored(u), NEW p \in Purposes, NEW j \in Job,
           j.op \in Mailers, j.op # "resendOTP" => p = Purpose(j.op),
           j.pc = IF j.op = "changeMail" THEN "findEmail" ELSE "save",
           j.op = "changeMail" => j.email \in Emails,
           j.no = accepted + 1, j.user = u, j.body = NoBody,
           j.patch.edit = Renew(user[u], p, accepted + 1),
           j.patch.status = Nil, j.patch.email = Nil
    PROVE  Begun(h, j) /\ Reads(j) /\ j.patch.edit.item.authFor = p
  <1>1. user[u] \in Document /\ clock \in Nat /\ accepted + 1 \in 0 .. MaxRequests
    BY StoredFacts, NumberFacts DEF TypeInv, TypeOK
  <1>. DEFINE e == j.patch.edit
  <1>2. /\ e.item.value = accepted + 1 /\ e.item.authFor = p
        /\ e.kind \in {"push", "set"}
        /\ e.kind = "set" => /\ e.at \in DOMAIN user[u].authTypes
                             /\ e.at \in Nat \ {0}
                             /\ user[u].authTypes[e.at].authFor = p
    BY <1>1, RenewFacts
  <1>. HIDE DEF e
  <1>3. EditOK(j)
    BY <1>2 DEF EditOK, Mailers, CodeOps, e
  <1>4. JobOK(j)
    BY <1>3 DEF JobOK, Mailers, CodeOps
  <1>5. Begun(h, j)
    BY <1>4, EmptyBody DEF Begun, Mailers, CodeOps, WritesStatus
  <1>6. Reads(j)
    BY <1>2 DEF Reads, Mailers, CodeOps, e
  <1>. QED
    BY <1>2, <1>5, <1>6 DEF e

\* A request that a code has let through.
LEMMA CoderBegins ==
    ASSUME TypeInv, NEW h \in Handlers, job[h].pc = "idle",
           accepted + 1 \in Numbers,
           NEW u \in Members, NEW j \in Job, j.op \in CodeOps, j.pc = "save",
           HasToken(Purpose(j.op), u),
           NEW c, Passes(user[u], Purpose(j.op), c),
           j.code = Compared(user[u], Purpose(j.op), c),
           j.no = accepted + 1, j.user = u, j.body = NoBody,
           j.patch.edit = Clear(user[u], Purpose(j.op)),
           j.patch.status # Nil => user[u].status # "Suspended",
           j.patch.email # Nil =>
             [kind |-> "CHANGE_EMAIL", user |-> u, email |-> j.patch.email]
               \in tokens
    PROVE  Begun(h, j) /\ Reads(j)
  <1>1. Stored(u) /\ user[u] \in Document
    BY TokenFacts, StoredFacts
  <1>. DEFINE e == j.patch.edit
              p == Purpose(j.op)
  <1>2. /\ e.kind \in {"none", "clear"}
        /\ e.kind = "none" => ~ Has(user[u], p)
        /\ e.kind = "clear" => /\ e.at \in DOMAIN user[u].authTypes
                               /\ user[u].authTypes[e.at].value = j.code
                               /\ user[u].authTypes[e.at].authFor = p
                               /\ j.code # 0
    <2>1. Has(user[u], p) => j.code = c
      BY <1>1, PositionFacts DEF Compared
    <2>. QED
      BY <1>1, <2>1, ClearFacts
  <1>. HIDE DEF e, p
  <1>3. EditOK(j)
    BY <1>2 DEF EditOK, Mailers, CodeOps, e
  <1>4. JobOK(j)
    BY <1>3 DEF JobOK, Mailers, CodeOps
  <1>5. Begun(h, j)
    BY <1>1, <1>4, EmptyBody DEF Begun, Mailers, CodeOps, WritesStatus
  <1>6. Reads(j)
    BY <1>2 DEF Reads, Mailers, CodeOps, e, p
  <1>. QED
    BY <1>5, <1>6

\* A request that leaves the codes alone.
LEMMA OtherBegins ==
    ASSUME TypeInv, NEW h \in Handlers, job[h].pc = "idle",
           accepted + 1 \in Numbers,
           NEW u \in Members, NEW j \in Job,
           j.op \notin Mailers \cup CodeOps, j.no = accepted + 1, j.user = u,
           j.patch.edit = NoEdit, j.patch.email = Nil,
           j.op # "updateUser" => j.body = NoBody,
           \/ /\ j.op = "signup" /\ j.pc = "findMobile"
              /\ j.email \in Emails /\ j.mobile \in Mobiles
              /\ ~ Stored(u) /\ \A g \in Handlers : job[g].user # u
              /\ j.patch.status = Nil
           \/ /\ Stored(u)
              /\ j.op \notin {"signup", "bannedUser"}
              /\ \/ /\ j.op = "updateUser" /\ j.mobile = j.body.mobileNumber
                    /\ \/ j.pc = "findMobile" /\ j.mobile \in Mobiles
                       \/ /\ j.pc = "updateOne"
                          /\ j.mobile \in {Nil, user[u].mobileNumber}
                    /\ j.patch.status = Nil /\ user[u].status # "Suspended"
                 \/ /\ j.op # "updateUser"
                    /\ j.pc = "checkPassword" \/ j.pc = "save"
                    /\ user[u].status # "Suspended"
                 \/ /\ j.op # "updateUser"
                    /\ j.pc = "writeBack" /\ j.copy = user[u]
                    /\ HasToken("LOGIN", u) /\ j.patch.status = Nil
           \/ /\ Stored(u) /\ j.op = "bannedUser" /\ j.pc = "save"
              /\ j.patch.status = "Suspended" /\ user[u].status # "Suspended"
    PROVE  Begun(h, j) /\ Reads(j)
  <1>1. Stored(u) => user[u] \in Document
    BY StoredFacts
  <1>2. j.patch.edit.kind = "none"
    BY EmptyPatch
  <1>3. EditOK(j)
    BY <1>2 DEF EditOK, Mailers, CodeOps
  <1>4. JobOK(j)
    BY <1>1, <1>3 DEF JobOK, Mailers, CodeOps
  <1>5. Begun(h, j)
    BY <1>1, <1>4, EmptyBody DEF Begun, Mailers, CodeOps, WritesStatus
  <1>6. Reads(j)
    BY <1>2 DEF Reads, Mailers, CodeOps
  <1>. QED
    BY <1>5, <1>6

\* Every request begins with what is stored.
LEMMA SubmitBegins ==
    ASSUME TypeInv, NEW h \in Handlers, Submit(h)
    PROVE  /\ Begins(h)
           /\ accepted' = accepted + 1
           /\ accepted' \in Numbers
           /\ UNCHANGED <<user, tokens, clock, reached, banned, crossed, stale,
                          relisted, named, spent, reused, shared, unproven, rivals>>
  <1>1. accepted < MaxRequests /\ accepted' = accepted + 1
    BY DEF Submit, Accept, Signup, VerifyEmail, ResendOTP, PreLogin, Login,
           ChangeMail, ConfirmUpdateMail, SendForgetPassOTP, UpdateUser,
           UpdatePassword, Logout, BannedUser, KeepUser
  <1>2. accepted + 1 \in Numbers /\ accepted + 1 \in 0 .. MaxRequests
    BY <1>1, NumberFacts DEF TypeInv, TypeOK, Numbers
  <1>3. \A c \in Codes : \A doc, p : Compared(doc, p, c) \in {Own} \cup 0 .. MaxRequests
    BY <1>1, NumberFacts DEF TypeInv, TypeOK, Codes, Compared
  <1>4. \A op \in Ops, pc \in {"save", "findMobile", "findEmail", "updateOne",
                               "checkPassword", "writeBack"}, u \in Members :
          /\ Request(h, op, u, pc) \in Job
          /\ Request(h, op, u, pc).op = op
          /\ Request(h, op, u, pc).pc = pc
          /\ Request(h, op, u, pc).no = accepted + 1
          /\ Request(h, op, u, pc).user = u
          /\ Request(h, op, u, pc).patch = NoPatch
          /\ Request(h, op, u, pc).body = NoBody
    BY <1>1, RequestFacts DEF Steps
  <1>5. /\ NoPatch \in Patch /\ NoPatch.edit = NoEdit /\ NoPatch.status = Nil
        /\ NoPatch.email = Nil
    BY EmptyPatch
  <1>6. \A u \in Members : Guarded(u) =>
          Stored(u) /\ HasToken("LOGIN", u) /\ user[u].status # "Suspended"
    BY DEF Guarded
  <1>7. \A u \in Members : Stored(u) =>
          /\ user[u] \in Document /\ clock \in Nat
          /\ user[u].password \in {Unhashed} \cup 0 .. MaxRequests
    BY StoredFacts DEF TypeInv, TypeOK
  <1>8. \A u, p : HasToken(p, u) => Stored(u)
    BY TokenFacts
  <1>9. Begins(h)
    <2>1. CASE Signup(h)
      <3>1. PICK u \in Members, a \in Emails, m \in Mobiles :
              /\ ~ Stored(u)
              /\ \A g \in Handlers : job[g].user # u
              /\ Start(h, [Request(h, "signup", u, "findMobile") EXCEPT
                             !.email = a,
                             !.mobile = m])
        BY <2>1 DEF Signup
      <3>. DEFINE r == Request(h, "signup", u, "findMobile")
                  j == [r EXCEPT !.email = a,
                                 !.mobile = m]
      <3>2. /\ "signup" \in Ops /\ u \in Members
        BY <3>1 DEF Ops, Purpose
      <3>3. a \in Emails /\ m \in Mobiles
        BY <1>2, <1>6, <1>7, <3>1, NumberFacts DEF Statuses
      <3>4. /\ r \in Job /\ r.op = "signup" /\ r.pc = "findMobile" /\ r.user = u
            /\ r.no = accepted + 1 /\ r.patch = NoPatch /\ r.body = NoBody
        BY <1>4, <3>2
      <3>5. job' = [job EXCEPT ![h] = j] /\ job[h].pc = "idle"
        BY <3>1 DEF Start
      <3>. HIDE DEF r
      <3>6. /\ j \in Job /\ j.op = "signup" /\ j.pc = "findMobile" /\ j.user = u
            /\ j.no = accepted + 1 /\ j.body = NoBody
            /\ j.email = a /\ j.mobile = m /\ j.patch = NoPatch
        BY <1>3, <1>5, <3>1, <3>2, <3>3, <3>4 DEF Job, Patch
      <3>. HIDE DEF j
      <3>7. Begun(h, j) /\ Reads(j)
        BY <1>2, <1>5, <1>6, <1>7, <1>8, <3>1, <3>2, <3>3, <3>5, <3>6, OtherBegins
           DEF Mailers, CodeOps, Statuses
      <3>8. Mails(j)
        BY <2>1, <3>1, <3>6 DEF Signup, NoMail, Mails, Mailers
      <3>. QED
        BY <3>5, <3>7, <3>8 DEF Begins
    <2>2. CASE VerifyEmail(h)
      <3>1. PICK u \in Members, c \in Codes :
              /\ HasToken("SIGNUP", u)
              /\ Passes(user[u], "SIGNUP", c)
              /\ Start(h, [Request(h, "verifyEmail", u, "save") EXCEPT
                             !.code = Compared(user[u], "SIGNUP", c),
                             !.patch.edit = Clear(user[u], "SIGNUP"),
                             !.patch.confirms = TRUE])
        BY <2>2 DEF VerifyEmail
      <3>. DEFINE r == Request(h, "verifyEmail", u, "save")
                  k == Compared(user[u], "SIGNUP", c)
                  e == Clear(user[u], "SIGNUP")
                  j == [r EXCEPT !.code = k,
                                 !.patch.edit = e,
                                 !.patch.confirms = TRUE]
      <3>2. /\ "verifyEmail" \in Ops /\ u \in Members
           /\ Purpose("verifyEmail") = "SIGNUP"
        BY <3>1 DEF Ops, Purpose
      <3>3. e \in Edit /\ k \in {Own} \cup 0 .. MaxRequests
        BY <1>2, <1>3, <1>6, <1>7, <1>8, <3>1, <3>2, ClearFacts
      <3>4. /\ r \in Job /\ r.op = "verifyEmail" /\ r.pc = "save" /\ r.user = u
            /\ r.no = accepted + 1 /\ r.patch = NoPatch /\ r.body = NoBody
        BY <1>4, <3>2
      <3>5. job' = [job EXCEPT ![h] = j] /\ job[h].pc = "idle"
        BY <3>1 DEF Start
      <3>. HIDE DEF r, e, k
      <3>6. /\ j \in Job /\ j.op = "verifyEmail" /\ j.pc = "save" /\ j.user = u
            /\ j.no = accepted + 1
            /\ j.patch.edit = e
            /\ j.code = k /\ j.body = NoBody
            /\ j.patch.status = Nil /\ j.patch.email = Nil
        BY <1>3, <1>5, <3>1, <3>2, <3>3, <3>4 DEF Job, Patch
      <3>. HIDE DEF j
      <3>7. Begun(h, j) /\ Reads(j)
        BY <1>2, <1>5, <1>6, <1>7, <1>8, <3>1, <3>2, <3>3, <3>5, <3>6, CoderBegins
           DEF Mailers, CodeOps, Statuses, e, k
      <3>8. Mails(j)
        BY <2>2, <3>1, <3>6 DEF VerifyEmail, NoMail, Mails, Mailers
      <3>. QED
        BY <3>5, <3>7, <3>8 DEF Begins
    <2>3. CASE ResendOTP(h)
      <3>1. PICK u \in Members, p \in Purposes :
              /\ HasToken(p, u)
              /\ Mail(accepted + 1, u, p, user[u].email)
              /\ Start(h, [Request(h, "resendOTP", u, "save") EXCEPT
                             !.patch.edit = Renew(user[u], p, accepted + 1)])
        BY <2>3 DEF ResendOTP
      <3>. DEFINE r == Request(h, "resendOTP", u, "save")
                  e == Renew(user[u], p, accepted + 1)
                  j == [r EXCEPT !.patch.edit = e]
      <3>2. /\ "resendOTP" \in Ops /\ u \in Members
            /\ p \in Purposes
        BY <3>1 DEF Ops, Purpose, Purposes
      <3>3. e \in Edit
        BY <1>2, <1>6, <1>7, <1>8, <3>1, <3>2, RenewFacts
      <3>4. /\ r \in Job /\ r.op = "resendOTP" /\ r.pc = "save" /\ r.user = u
            /\ r.no = accepted + 1 /\ r.patch = NoPatch /\ r.body = NoBody
        BY <1>4, <3>2
      <3>5. job' = [job EXCEPT ![h] = j] /\ job[h].pc = "idle"
        BY <3>1 DEF Start
      <3>. HIDE DEF r, e
      <3>6. /\ j \in Job /\ j.op = "resendOTP" /\ j.pc = "save" /\ j.user = u
            /\ j.no = accepted + 1 /\ j.body = NoBody
            /\ j.patch.edit = e
            /\ j.patch.status = Nil /\ j.patch.email = Nil
        BY <1>3, <1>5, <3>1, <3>2, <3>3, <3>4 DEF Job, Patch
      <3>. HIDE DEF j
      <3>7. Begun(h, j) /\ Reads(j) /\ j.patch.edit.item.authFor = p
        BY <1>2, <1>5, <1>6, <1>7, <1>8, <3>1, <3>2, <3>3, <3>5, <3>6, MailerBegins
           DEF Mailers, CodeOps, Statuses, e
      <3>8. Mails(j)
        BY <3>1, <3>6, <3>7 DEF Mail, Mails, Mailers
      <3>. QED
        BY <3>5, <3>7, <3>8 DEF Begins
    <2>4. CASE PreLogin(h)
      <3>1. PICK u \in Members :
              /\ Stored(u)
              /\ Mail(accepted + 1, u, "PRE_LOGIN", user[u].email)
              /\ Start(h, [Request(h, "preLogin", u, "save") EXCEPT
                             !.patch.edit = Renew(user[u], "PRE_LOGIN", accepted + 1)])
        BY <2>4 DEF PreLogin
      <3>. DEFINE r == Request(h, "preLogin", u, "save")
                  e == Renew(user[u], "PRE_LOGIN", accepted + 1)
                  j == [r EXCEPT !.patch.edit = e]
      <3>2. /\ "preLogin" \in Ops /\ u \in Members
           /\ Purpose("preLogin") = "PRE_LOGIN"
            /\ "PRE_LOGIN" \in Purposes
        BY <3>1 DEF Ops, Purpose, Purposes
      <3>3. e \in Edit
        BY <1>2, <1>6, <1>7, <1>8, <3>1, <3>2, RenewFacts
      <3>4. /\ r \in Job /\ r.op = "preLogin" /\ r.pc = "save" /\ r.user = u
            /\ r.no = accepted + 1 /\ r.patch = NoPatch /\ r.body = NoBody
        BY <1>4, <3>2
      <3>5. job' = [job EXCEPT ![h] = j] /\ job[h].pc = "idle"
        BY <3>1 DEF Start
      <3>. HIDE DEF r, e
      <3>6. /\ j \in Job /\ j.op = "preLogin" /\ j.pc = "save" /\ j.user = u
            /\ j.no = accepted + 1 /\ j.body = NoBody
            /\ j.patch.edit = e
            /\ j.patch.status = Nil /\ j.patch.email = Nil
        BY <1>3, <1>5, <3>1, <3>2, <3>3, <3>4 DEF Job, Patch
      <3>. HIDE DEF j
      <3>7. Begun(h, j) /\ Reads(j) /\ j.patch.edit.item.authFor = "PRE_LOGIN"
        BY <1>2, <1>5, <1>6, <1>7, <1>8, <3>1, <3>2, <3>3, <3>5, <3>6, MailerBegins
           DEF Mailers, CodeOps, Statuses, e
      <3>8. Mails(j)
        BY <3>1, <3>6, <3>7 DEF Mail, Mails, Mailers
      <3>. QED
        BY <3>5, <3>7, <3>8 DEF Begins
    <2>5. CASE Login(h)
      <3>1. PICK u \in Members, c \in Codes :
              /\ HasToken("PRE_LOGIN", u)
              /\ user[u].status # "Suspended"
              /\ Passes(user[u], "PRE_LOGIN", c)
              /\ Start(h, [Request(h, "login", u, "save") EXCEPT
                             !.code = Compared(user[u], "PRE_LOGIN", c),
                             !.patch.edit = Clear(user[u], "PRE_LOGIN"),
                             !.patch.status = IF user[u].status = "Online"
                                               THEN Nil ELSE "Online"])
        BY <2>5 DEF Login
      <3>. DEFINE r == Request(h, "login", u, "save")
                  k == Compared(user[u], "PRE_LOGIN", c)
                  e == Clear(user[u], "PRE_LOGIN")
                  j == [r EXCEPT !.code = k,
                                 !.patch.edit = e,
                                 !.patch.status = IF user[u].status = "Online"
                                               THEN Nil ELSE "Online"]
      <3>2. /\ "login" \in Ops /\ u \in Members
           /\ Purpose("login") = "PRE_LOGIN"
            /\ "Online" \in Statuses
        BY <3>1 DEF Ops, Purpose, Statuses
      <3>3. e \in Edit /\ k \in {Own} \cup 0 .. MaxRequests
        BY <1>2, <1>3, <1>6, <1>7, <1>8, <3>1, <3>2, ClearFacts
      <3>4. /\ r \in Job /\ r.op = "login" /\ r.pc = "save" /\ r.user = u
            /\ r.no = accepted + 1 /\ r.patch = NoPatch /\ r.body = NoBody
        BY <1>4, <3>2
      <3>5. job' = [job EXCEPT ![h] = j] /\ job[h].pc = "idle"
        BY <3>1 DEF Start
      <3>. HIDE DEF r, e, k
      <3>6. /\ j \in Job /\ j.op = "login" /\ j.pc = "save" /\ j.user = u
            /\ j.no = accepted + 1
            /\ j.patch.edit = e
            /\ j.code = k /\ j.body = NoBody
            /\ j.patch.email = Nil
        BY <1>3, <1>5, <3>1, <3>2, <3>3, <3>4 DEF Job, Patch
      <3>. HIDE DEF j
      <3>7. Begun(h, j) /\ Reads(j)
        BY <1>2, <1>5, <1>6, <1>7, <1>8, <3>1, <3>2, <3>3, <3>5, <3>6, CoderBegins
           DEF Mailers, CodeOps, Statuses, e, k
      <3>8. Mails(j)
        BY <2>5, <3>1, <3>6 DEF Login, NoMail, Mails, Mailers
      <3>. QED
        BY <3>5, <3>7, <3>8 DEF Begins
    <2>6. CASE ChangeMail(h)
      <3>1. PICK u \in Members, a \in Emails :
              /\ Guarded(u) \/ HasToken("CHANGE_EMAIL", u)
              /\ Start(h, [Request(h, "changeMail", u, "findEmail") EXCEPT
                             !.email = a,
                             !.patch.edit = Renew(user[u], "CHANGE_EMAIL", accepted + 1)])
        BY <2>6 DEF ChangeMail
      <3>. DEFINE r == Request(h, "changeMail", u, "findEmail")
                  e == Renew(user[u], "CHANGE_EMAIL", accepted + 1)
                  j == [r EXCEPT !.email = a,
                                 !.patch.edit = e]
      <3>2. /\ "changeMail" \in Ops /\ u \in Members
           /\ Purpose("changeMail") = "CHANGE_EMAIL"
            /\ "CHANGE_EMAIL" \in Purposes
        BY <3>1 DEF Ops, Purpose, Purposes
      <3>3. e \in Edit
        BY <1>2, <1>6, <1>7, <1>8, <3>1, <3>2, RenewFacts
      <3>4. /\ r \in Job /\ r.op = "changeMail" /\ r.pc = "findEmail" /\ r.user = u
            /\ r.no = accepted + 1 /\ r.patch = NoPatch /\ r.body = NoBody
        BY <1>4, <3>2
      <3>5. job' = [job EXCEPT ![h] = j] /\ job[h].pc = "idle"
        BY <3>1 DEF Start
      <3>. HIDE DEF r, e
      <3>6. /\ j \in Job /\ j.op = "changeMail" /\ j.pc = "findEmail" /\ j.user = u
            /\ j.no = accepted + 1 /\ j.body = NoBody
            /\ j.patch.edit = e
            /\ j.email = a
            /\ j.patch.status = Nil /\ j.patch.email = Nil
        BY <1>3, <1>5, <3>1, <3>2, <3>3, <3>4 DEF Job, Patch
      <3>. HIDE DEF j
      <3>7. Begun(h, j) /\ Reads(j) /\ j.patch.edit.item.authFor = "CHANGE_EMAIL"
        BY <1>2, <1>5, <1>6, <1>7, <1>8, <3>1, <3>2, <3>3, <3>5, <3>6, MailerBegins
           DEF Mailers, CodeOps, Statuses, e
      <3>8. Mails(j)
        BY <2>6, <3>1, <3>6 DEF ChangeMail, NoMail, Mails, Mailers
      <3>. QED
        BY <3>5, <3>7, <3>8 DEF Begins
    <2>7. CASE ConfirmUpdateMail(h)
      <3>1. PICK t \in tokens, c \in Codes :
              /\ t.kind = "CHANGE_EMAIL"
              /\ Passes(user[t.user], "CHANGE_EMAIL", c)
              /\ Start(h, [Request(h, "confirmUpdateMail", t.user, "save") EXCEPT
                             !.code = Compared(user[t.user], "CHANGE_EMAIL", c),
                             !.patch.edit = Clear(user[t.user], "CHANGE_EMAIL"),
                             !.patch.email = t.email,
                             !.patch.confirms = TRUE])
        BY <2>7 DEF ConfirmUpdateMail
      <3>. DEFINE r == Request(h, "confirmUpdateMail", t.user, "save")
                  k == Compared(user[t.user], "CHANGE_EMAIL", c)
                  e == Clear(user[t.user], "CHANGE_EMAIL")
                  j == [r EXCEPT !.code = k,
                                 !.patch.edit = e,
                                 !.patch.email = t.email,
                                 !.patch.confirms = TRUE]
      <3>2. /\ "confirmUpdateMail" \in Ops /\ t.user \in Members
           /\ Purpose("confirmUpdateMail") = "CHANGE_EMAIL"
            /\ HasToken("CHANGE_EMAIL", t.user)
            /\ t.email \in Emails \cup {Nil}
            /\ t = [kind |-> "CHANGE_EMAIL", user |-> t.user, email |-> t.email]
        BY <3>1 DEF Ops, Purpose, TypeInv, TypeOK, Token, HasToken
      <3>3. e \in Edit /\ k \in {Own} \cup 0 .. MaxRequests
        BY <1>2, <1>3, <1>6, <1>7, <1>8, <3>1, <3>2, ClearFacts
      <3>4. /\ r \in Job /\ r.op = "confirmUpdateMail"
           /\ r.pc = "save" /\ r.user = t.user
            /\ r.no = accepted + 1 /\ r.patch = NoPatch /\ r.body = NoBody
        BY <1>4, <3>2
      <3>5. job' = [job EXCEPT ![h] = j] /\ job[h].pc = "idle"
        BY <3>1 DEF Start
      <3>. HIDE DEF r, e, k
      <3>6. /\ j \in Job /\ j.op = "confirmUpdateMail"
           /\ j.pc = "save" /\ j.user = t.user
            /\ j.no = accepted + 1
            /\ j.patch.edit = e
            /\ j.code = k /\ j.body = NoBody
            /\ j.patch.status = Nil /\ j.patch.email = t.email
        BY <1>3, <1>5, <3>1, <3>2, <3>3, <3>4 DEF Job, Patch, Token
      <3>. HIDE DEF j
      <3>9. [kind |-> "CHANGE_EMAIL", user |-> j.user, email |-> j.patch.email]
              \in tokens
        BY <3>1, <3>2, <3>6
      <3>10. /\ j.op \in CodeOps /\ j.pc = "save" /\ HasToken(Purpose(j.op), t.user)
             /\ Passes(user[t.user], Purpose(j.op), c)
             /\ j.code = Compared(user[t.user], Purpose(j.op), c)
             /\ j.patch.edit = Clear(user[t.user], Purpose(j.op))
        BY <3>1, <3>2, <3>6 DEF CodeOps, e, k
      <3>7. Begun(h, j) /\ Reads(j)
        BY <1>2, <3>2, <3>5, <3>6, <3>9, <3>10, CoderBegins
      <3>8. Mails(j)
        BY <2>7, <3>1, <3>6 DEF ConfirmUpdateMail, NoMail, Mails, Mailers
      <3>. QED
        BY <3>5, <3>7, <3>8 DEF Begins
    <2>8. CASE SendForgetPassOTP(h)
      <3>1. PICK u \in Members :
              /\ Stored(u)
              /\ Mail(accepted + 1, u, "FORGET_PASSWORD", user[u].email)
              /\ Start(h, [Request(h, "sendForgetPassOTP", u, "save") EXCEPT
                             !.patch.edit = Renew(user[u], "FORGET_PASSWORD", accepted + 1)])
        BY <2>8 DEF SendForgetPassOTP
      <3>. DEFINE r == Request(h, "sendForgetPassOTP", u, "save")
                  e == Renew(user[u], "FORGET_PASSWORD", accepted + 1)
                  j == [r EXCEPT !.patch.edit = e]
      <3>2. /\ "sendForgetPassOTP" \in Ops /\ u \in Members
           /\ Purpose("sendForgetPassOTP") = "FORGET_PASSWORD"
            /\ "FORGET_PASSWORD" \in Purposes
        BY <3>1 DEF Ops, Purpose, Purposes
      <3>3. e \in Edit
        BY <1>2, <1>6, <1>7, <1>8, <3>1, <3>2, RenewFacts
      <3>4. /\ r \in Job /\ r.op = "sendForgetPassOTP" /\ r.pc = "save" /\ r.user = u
            /\ r.no = accepted + 1 /\ r.patch = NoPatch /\ r.body = NoBody
        BY <1>4, <3>2
      <3>5. job' = [job EXCEPT ![h] = j] /\ job[h].pc = "idle"
        BY <3>1 DEF Start
      <3>. HIDE DEF r, e
      <3>6. /\ j \in Job /\ j.op = "sendForgetPassOTP" /\ j.pc = "save" /\ j.user = u
            /\ j.no = accepted + 1 /\ j.body = NoBody
            /\ j.patch.edit = e
            /\ j.patch.status = Nil /\ j.patch.email = Nil
        BY <1>3, <1>5, <3>1, <3>2, <3>3, <3>4 DEF Job, Patch
      <3>. HIDE DEF j
      <3>7. Begun(h, j) /\ Reads(j) /\ j.patch.edit.item.authFor = "FORGET_PASSWORD"
        BY <1>2, <1>5, <1>6, <1>7, <1>8, <3>1, <3>2, <3>3, <3>5, <3>6, MailerBegins
           DEF Mailers, CodeOps, Statuses, e
      <3>8. Mails(j)
        BY <3>1, <3>6, <3>7 DEF Mail, Mails, Mailers
      <3>. QED
        BY <3>5, <3>7, <3>8 DEF Begins
    <2>9. CASE UpdateUser(h)
      <3>1. PICK u \in Members, b \in Bodies :
              /\ Guarded(u)
              /\ Start(h, [Request(h, "updateUser", u,
                                   IF b.mobileNumber \in {Nil, user[u].mobileNumber}
                                     THEN "updateOne" ELSE "findMobile") EXCEPT
                             !.mobile = b.mobileNumber, !.body = b])
        BY <2>9 DEF UpdateUser
      <3>. DEFINE pc == IF b.mobileNumber \in {Nil, user[u].mobileNumber}
                          THEN "updateOne" ELSE "findMobile"
                  r == Request(h, "updateUser", u, pc)
                  j == [r EXCEPT !.mobile = b.mobileNumber, !.body = b]
      <3>2. /\ "updateUser" \in Ops /\ u \in Members
            /\ pc \in {"updateOne", "findMobile"}
            /\ pc = "updateOne" => b.mobileNumber \in {Nil, user[u].mobileNumber}
            /\ pc = "findMobile" => b.mobileNumber # Nil
        BY <3>1 DEF Ops
      <3>3. b \in Body /\ b.mobileNumber \in {Nil} \cup Mobiles
        BY <3>1, NumberFacts DEF Body
      <3>5. job' = [job EXCEPT ![h] = j] /\ job[h].pc = "idle"
        BY <3>1 DEF Start
      <3>. HIDE DEF pc
      <3>4. /\ r \in Job /\ r.op = "updateUser" /\ r.pc = pc /\ r.user = u
            /\ r.no = accepted + 1 /\ r.patch = NoPatch
        BY <1>4, <3>2
      <3>. HIDE DEF r
      <3>6. /\ j \in Job /\ j.op = "updateUser" /\ j.pc = pc /\ j.user = u
            /\ j.no = accepted + 1
            /\ j.mobile = b.mobileNumber /\ j.body = b /\ j.patch = NoPatch
        <4>. HIDE DEF NoPatch
        <4>. QED
          BY <1>5, <3>3, <3>4 DEF Job
      <3>. HIDE DEF j
      <3>7. Begun(h, j) /\ Reads(j)
        BY <1>2, <1>5, <1>6, <1>7, <3>1, <3>2, <3>3, <3>5, <3>6, OtherBegins
           DEF Mailers, CodeOps
      <3>8. Mails(j)
        BY <2>9, <3>2, <3>6 DEF UpdateUser, NoMail, Mails, Mailers
      <3>. QED
        BY <3>5, <3>7, <3>8 DEF Begins
    <2>10. CASE UpdatePassword(h)
      <3>1. PICK u \in Members :
              /\ Guarded(u)
              /\ Start(h, [Request(h, "updatePassword", u, "checkPassword") EXCEPT
                             !.password = user[u].password])
        BY <2>10 DEF UpdatePassword
      <3>. DEFINE r == Request(h, "updatePassword", u, "checkPassword")
                  j == [r EXCEPT !.password = user[u].password]
      <3>2. /\ "updatePassword" \in Ops /\ u \in Members
        BY <3>1 DEF Ops, Purpose
      <3>3. user[u].password \in {Unhashed} \cup 0 .. MaxRequests
        BY <1>2, <1>6, <1>7, <3>1, NumberFacts DEF Statuses
      <3>4. /\ r \in Job /\ r.op = "updatePassword"
           /\ r.pc = "checkPassword" /\ r.user = u
            /\ r.no = accepted + 1 /\ r.patch = NoPatch /\ r.body = NoBody
        BY <1>4, <3>2
      <3>5. job' = [job EXCEPT ![h] = j] /\ job[h].pc = "idle"
        BY <3>1 DEF Start
      <3>. HIDE DEF r
      <3>6. /\ j \in Job /\ j.op = "updatePassword"
           /\ j.pc = "checkPassword" /\ j.user = u
            /\ j.no = accepted + 1 /\ j.body = NoBody
            /\ j.patch = NoPatch
        BY <1>3, <1>5, <3>1, <3>2, <3>3, <3>4 DEF Job, Patch
      <3>. HIDE DEF j
      <3>7. Begun(h, j) /\ Reads(j)
        BY <1>2, <1>5, <1>6, <1>7, <1>8, <3>1, <3>2, <3>3, <3>5, <3>6, OtherBegins
           DEF Mailers, CodeOps, Statuses
      <3>8. Mails(j)
        BY <2>10, <3>1, <3>6 DEF UpdatePassword, NoMail, Mails, Mailers
      <3>. QED
        BY <3>5, <3>7, <3>8 DEF Begins
    <2>11. CASE Logout(h)
      <3>1. PICK u \in Members :
              /\ Guarded(u)
              /\ Start(h, [Request(h, "logout", u, "save") EXCEPT
                             !.patch.status = "Offline"])
        BY <2>11 DEF Logout
      <3>. DEFINE r == Request(h, "logout", u, "save")
                  j == [r EXCEPT !.patch.status = "Offline"]
      <3>2. /\ "logout" \in Ops /\ u \in Members
        BY <3>1 DEF Ops, Purpose
      <3>3. "Offline" \in Statuses
        BY <1>2, <1>6, <1>7, <3>1, NumberFacts DEF Statuses
      <3>4. /\ r \in Job /\ r.op = "logout" /\ r.pc = "save" /\ r.user = u
            /\ r.no = accepted + 1 /\ r.patch = NoPatch /\ r.body = NoBody
        BY <1>4, <3>2
      <3>5. job' = [job EXCEPT ![h] = j] /\ job[h].pc = "idle"
        BY <3>1 DEF Start
      <3>. HIDE DEF r
      <3>6. /\ j \in Job /\ j.op = "logout" /\ j.pc = "save" /\ j.user = u
            /\ j.no = accepted + 1 /\ j.body = NoBody
            /\ j.patch.edit = NoEdit /\ j.patch.email = Nil
        BY <1>3, <1>5, <3>1, <3>2, <3>3, <3>4 DEF Job, Patch
      <3>. HIDE DEF j
      <3>7. Begun(h, j) /\ Reads(j)
        BY <1>2, <1>5, <1>6, <1>7, <1>8, <3>1, <3>2, <3>3, <3>5, <3>6, OtherBegins
           DEF Mailers, CodeOps, Statuses
      <3>8. Mails(j)
        BY <2>11, <3>1, <3>6 DEF Logout, NoMail, Mails, Mailers
      <3>. QED
        BY <3>5, <3>7, <3>8 DEF Begins
    <2>12. CASE BannedUser(h)
      <3>1. PICK u \in Members :
              /\ Stored(u)
              /\ user[u].status # "Suspended"
              /\ Start(h, [Request(h, "bannedUser", u, "save") EXCEPT
                             !.patch.status = "Suspended"])
        BY <2>12 DEF BannedUser
      <3>. DEFINE r == Request(h, "bannedUser", u, "save")
                  j == [r EXCEPT !.patch.status = "Suspended"]
      <3>2. /\ "bannedUser" \in Ops /\ u \in Members
        BY <3>1 DEF Ops, Purpose
      <3>3. "Suspended" \in Statuses
        BY <1>2, <1>6, <1>7, <3>1, NumberFacts DEF Statuses
      <3>4. /\ r \in Job /\ r.op = "bannedUser" /\ r.pc = "save" /\ r.user = u
            /\ r.no = accepted + 1 /\ r.patch = NoPatch /\ r.body = NoBody
        BY <1>4, <3>2
      <3>5. job' = [job EXCEPT ![h] = j] /\ job[h].pc = "idle"
        BY <3>1 DEF Start
      <3>. HIDE DEF r
      <3>6. /\ j \in Job /\ j.op = "bannedUser" /\ j.pc = "save" /\ j.user = u
            /\ j.no = accepted + 1 /\ j.body = NoBody
            /\ j.patch.edit = NoEdit /\ j.patch.email = Nil
            /\ j.patch.status = "Suspended"
        BY <1>3, <1>5, <3>1, <3>2, <3>3, <3>4 DEF Job, Patch
      <3>. HIDE DEF j
      <3>7. Begun(h, j) /\ Reads(j)
        BY <1>2, <1>5, <1>6, <1>7, <1>8, <3>1, <3>2, <3>3, <3>5, <3>6, OtherBegins
           DEF Mailers, CodeOps, Statuses
      <3>8. Mails(j)
        BY <2>12, <3>1, <3>6 DEF BannedUser, NoMail, Mails, Mailers
      <3>. QED
        BY <3>5, <3>7, <3>8 DEF Begins
    <2>13. CASE KeepUser(h)
      <3>1. PICK u \in Members :
              /\ Guarded(u)
              /\ Start(h, [Request(h, "updateUserMicroservice", u, "writeBack") EXCEPT
                             !.copy = user[u]])
        BY <2>13 DEF KeepUser
      <3>. DEFINE r == Request(h, "updateUserMicroservice", u, "writeBack")
                  j == [r EXCEPT !.copy = user[u]]
      <3>2. /\ "updateUserMicroservice" \in Ops /\ u \in Members
        BY <3>1 DEF Ops, Purpose
      <3>3. user[u] \in Document
        BY <1>2, <1>6, <1>7, <3>1, NumberFacts DEF Statuses
      <3>4. /\ r \in Job /\ r.op = "updateUserMicroservice"
           /\ r.pc = "writeBack" /\ r.user = u
            /\ r.no = accepted + 1 /\ r.patch = NoPatch /\ r.body = NoBody
        BY <1>4, <3>2
      <3>5. job' = [job EXCEPT ![h] = j] /\ job[h].pc = "idle"
        BY <3>1 DEF Start
      <3>. HIDE DEF r
      <3>6. /\ j \in Job /\ j.op = "updateUserMicroservice"
           /\ j.pc = "writeBack" /\ j.user = u
            /\ j.no = accepted + 1 /\ j.body = NoBody
            /\ j.copy = user[u] /\ j.patch = NoPatch
        BY <1>3, <1>5, <3>1, <3>2, <3>3, <3>4 DEF Job, Patch
      <3>. HIDE DEF j
      <3>7. Begun(h, j) /\ Reads(j)
        BY <1>2, <1>5, <1>6, <1>7, <1>8, <3>1, <3>2, <3>3, <3>5, <3>6, OtherBegins
           DEF Mailers, CodeOps, Statuses
      <3>8. Mails(j)
        BY <2>13, <3>1, <3>6 DEF KeepUser, NoMail, Mails, Mailers
      <3>. QED
        BY <3>5, <3>7, <3>8 DEF Begins
    <2>. QED
      BY <2>1, <2>2, <2>3, <2>4, <2>5, <2>6, <2>7, <2>8, <2>9, <2>10, <2>11,
         <2>12, <2>13 DEF Submit
  <1>. QED
    BY <1>1, <1>2, <1>9 DEF Submit

-----------------------------------------------------------------------------
(* Type correctness                                                        *)

\* One handler goes on, the others stay where they are.
LEMMA OneHandler ==
    ASSUME TypeInv, NEW h \in Handlers, NEW j, job' = [job EXCEPT ![h] = j],
           JobOK(j)
    PROVE  /\ job' \in [Handlers -> Job]
           /\ \A g \in Handlers : JobOK(job'[g])
           /\ job'[h] = j
           /\ \A g \in Handlers \ {h} : job'[g] = job[g]
  BY DEF TypeInv, TypeOK, JobOK

\* A handler that ends leaves a free slot.
LEMMA EndType ==
    ASSUME TypeInv, NEW h \in Handlers, End(h)
    PROVE  /\ job' \in [Handlers -> Job]
           /\ \A g \in Handlers : JobOK(job'[g])
           /\ job'[h] = Idle
           /\ \A g \in Handlers \ {h} : job'[g] = job[g]
  BY IdleOK, OneHandler DEF End

\* A handler that goes on is the same job at another step.
LEMMA GotoType ==
    ASSUME TypeInv, NEW h \in Handlers, NEW step \in Steps, Goto(h, step),
           JobOK([job[h] EXCEPT !.pc = step])
    PROVE  /\ job' \in [Handlers -> Job]
           /\ \A g \in Handlers : JobOK(job'[g])
           /\ job'[h] = [job[h] EXCEPT !.pc = step]
           /\ \A g \in Handlers \ {h} : job'[g] = job[g]
  <1>1. job' = [job EXCEPT ![h] = [job[h] EXCEPT !.pc = step]]
    BY DEF Goto, TypeInv, TypeOK
  <1>. QED
    BY <1>1, OneHandler

\* What a free slot says, which is nothing.
LEMMA IdleFacts ==
    /\ Idle.pc = "idle" /\ Idle.op = "none" /\ Idle.user = Nil /\ Idle.no = 0
    /\ Idle.patch.edit.kind = "none" /\ Idle.patch.status = Nil
    /\ Idle.patch.email = Nil /\ Idle.body = NoBody
    /\ Idle.op \notin Mailers \cup CodeOps
    /\ ~ WritesStatus(Idle)
  <1>1. /\ Idle.pc = "idle" /\ Idle.op = "none" /\ Idle.user = Nil /\ Idle.no = 0
        /\ Idle.patch = NoPatch /\ Idle.body = NoBody
    BY DEF Idle
  <1>. QED
    BY <1>1, EmptyPatch, EmptyBody DEF Mailers, CodeOps, WritesStatus

\* A handler at work is at work for a member, on a number of its own.
LEMMA WorkFacts ==
    ASSUME TypeInv, NEW h \in Handlers, job[h].pc # "idle"
    PROVE  /\ JobOK(job[h]) /\ job[h] \in Job
           /\ job[h].user \in Members /\ job[h].no \in Numbers
           /\ job[h].no \in 0 .. MaxRequests
           /\ job[h].op # "signup" =>
                /\ Stored(job[h].user)
                /\ user[job[h].user] \in Document
  BY StoredFacts, NumberFacts DEF TypeInv, TypeOK, JobOK, PlacesOK

\* What a save makes of the stored document.
LEMMA PatchedFacts ==
    ASSUME NEW doc \in Document, NEW p \in Patch, p.edit.kind = "set" => p.edit.at # 0
    PROVE  /\ Patched(doc, p) \in Document
           /\ Patched(doc, p).status = IF p.status = Nil THEN doc.status ELSE p.status
           /\ Patched(doc, p).email = IF p.email = Nil THEN doc.email ELSE p.email
           /\ Patched(doc, p).authTypes = Edited(doc.authTypes, p.edit)
           /\ Patched(doc, p).mobileNumber = doc.mobileNumber
  <1>1. Edited(doc.authTypes, p.edit) \in Seq(Item)
    BY EditedFacts DEF Document, Patch
  <1>. QED
    BY <1>1 DEF Patched, Document, Patch

\* A save that the email index refuses changes nothing, any other the document
\* of its user.
LEMMA SaveFacts ==
    ASSUME TypeInv, NEW h \in Handlers, Save(h)
    PROVE  LET j == job[h]
               u == j.user
               D == Patched(user[u], j.patch)
           IN  /\ j.pc = "save" /\ j.op # "signup"
               /\ u \in Members /\ Stored(u) /\ user[u] \in Document
               /\ j.patch \in Patch
               /\ D \in Document
               /\ D.status = IF j.patch.status = Nil THEN user[u].status
                                                     ELSE j.patch.status
               /\ D.email = IF j.patch.email = Nil THEN user[u].email
                                                   ELSE j.patch.email
               /\ D.authTypes = Edited(user[u].authTypes, j.patch.edit)
               /\ D.mobileNumber = user[u].mobileNumber
               /\ End(h) /\ UNCHANGED <<clock, accepted, mailed, stale, relisted, named,
                                          rivals>>
               /\ \/ UNCHANGED <<user, tokens, historyVars>>
                  \/ /\ user' = [user EXCEPT ![u] = D]
                     /\ tokens' = tokens \cup Granted(j)
                     /\ Witness(h)
  <1>. DEFINE j == job[h]
              u == j.user
  <1>1. j.pc = "save"
    BY DEF Save, At
  <1>2. /\ JobOK(j) /\ j \in Job /\ u \in Members
        /\ j.op # "signup" /\ Stored(u) /\ user[u] \in Document
    BY <1>1, WorkFacts DEF JobOK
  <1>3. j.patch \in Patch /\ (j.patch.edit.kind = "set" => j.patch.edit.at # 0)
    BY <1>2 DEF Job, JobOK, EditOK
  <1>4. /\ End(h) /\ UNCHANGED <<clock, accepted, mailed, stale, relisted, named,
                                          rivals>>
        /\ \/ UNCHANGED <<user, tokens, historyVars>>
           \/ /\ user' = [user EXCEPT ![u] = Patched(user[u], j.patch)]
              /\ tokens' = tokens \cup Granted(j)
              /\ Witness(h)
    <2>1. user \in [Members -> Document \cup {Nil}]
      BY DEF TypeInv, TypeOK
    <2>. QED
      BY <1>2, <2>1 DEF Save, Quiet, historyVars
  <1>. HIDE DEF j, u
  <1>. QED
    BY <1>1, <1>2, <1>3, <1>4, PatchedFacts DEF j, u

\* A code that was mailed stays so.
Grows == \A c \in Numbers : mailed[c] # Nil => mailed'[c] = mailed[c]

\* So do the codes of documents and requests.
LEMMA GrowsFacts ==
    ASSUME Grows
    PROVE  /\ \A c, u : MailedFor(mailed, c, u) => MailedFor(mailed', c, u)
           /\ \A u, doc : CodesOf(mailed, u, doc) => CodesOf(mailed', u, doc)
  <1>1. \A c, u : MailedFor(mailed, c, u) => MailedFor(mailed', c, u)
    BY NumberFacts DEF Grows, MailedFor
  <1>. QED
    BY <1>1 DEF CodesOf

\* The handler ends, or goes on with the same request.
Same(h) ==
    \/ job'[h] = Idle
    \/ /\ job[h].pc # "idle"
       /\ job'[h].op = job[h].op /\ job'[h].no = job[h].no
       /\ job'[h].user = job[h].user /\ job'[h].patch = job[h].patch
       /\ job'[h].code = job[h].code /\ job'[h].email = job[h].email
       /\ job'[h].mobile = job[h].mobile /\ job'[h].body = job[h].body
       /\ job'[h].pc \notin {"idle", "writeBack"}

\* A step of a handler that is at work leaves everyone in his place.
LEMMA PlacesStay ==
    ASSUME TypeInv, NEW h \in Handlers, Same(h), UNCHANGED accepted,
           \A g \in Handlers \ {h} : job'[g] = job[g],
           \A u \in Members : Stored(u) => user'[u] # Nil,
           \A u \in Members : user'[u] # Nil /\ ~ Stored(u) =>
             job[h].op = "signup" /\ job[h].user = u /\ job'[h] = Idle,
           tokens' \subseteq Token,
           \A t \in tokens' :
             \/ t \in tokens
             \/ /\ t.user \in Members /\ user'[t.user] # Nil
                /\ t.kind = "CHANGE_EMAIL" => t.email \in Emails
    PROVE  PlacesOK'
  <1>1. ASSUME NEW t \in tokens'
        PROVE  user'[t.user] # Nil /\ (t.kind = "CHANGE_EMAIL" => t.email \in Emails)
    BY <1>1 DEF TypeInv, TypeOK, Token, PlacesOK
  <1>2. ASSUME NEW g \in Handlers, job'[g].pc # "idle"
        PROVE  /\ job'[g].no <= accepted'
               /\ job'[g].op = "signup" <=> user'[job'[g].user] = Nil
               /\ \A k \in Handlers \ {g} :
                    /\ job'[k].no # job'[g].no
                    /\ job'[g].op = "signup" => job'[k].user # job'[g].user
    <2>1. /\ job[g].pc # "idle"
          /\ job'[g].op = job[g].op /\ job'[g].no = job[g].no
          /\ job'[g].user = job[g].user
          /\ g = h => job'[h] # Idle
      BY <1>2, IdleFacts DEF Same
    <2>2. job[g].user \in Members /\ job[g].no \in Numbers
      BY <2>1, WorkFacts
    <2>3. \A k \in Handlers \ {g} :
            job'[k].no \in {0, job[k].no} /\ job'[k].user \in {Nil, job[k].user}
      BY IdleFacts DEF Same
    <2>4. job'[g].op = "signup" <=> user'[job'[g].user] = Nil
      BY <2>1, <2>2, IdleFacts DEF TypeInv, PlacesOK, Stored
    <2>. QED
      BY <2>1, <2>2, <2>3, <2>4, NumberFacts DEF TypeInv, PlacesOK
  <1>. QED
    BY <1>1, <1>2 DEF PlacesOK, Stored

\* The codes in documents and jobs stay mailed.
LEMMA MailsStay ==
    ASSUME TypeInv, NEW h \in Handlers, Same(h), Grows, UNCHANGED accepted,
           \A g \in Handlers \ {h} : job'[g] = job[g],
           \A c \in Numbers : mailed'[c] # mailed[c] =>
             c = job[h].no /\ job[h].pc \in {"findMobile", "findEmail"},
           job'[h].pc \notin {"findMobile", "findEmail"},
           job'[h].pc = "create" \/ (job'[h].pc = "save" /\ job'[h].op \in Mailers) =>
             MailedFor(mailed', job[h].no, job[h].user),
           \A u \in Members : user'[u] # Nil =>
             user'[u] = user[u] \/ CodesOf(mailed', u, user'[u])
    PROVE  MailsOK'
  <1>1. ASSUME NEW c \in Numbers, c > accepted' PROVE mailed'[c] = Nil
    <2>1. mailed[c] = Nil
      BY <1>1 DEF TypeInv, MailsOK
    <2>2. job[h].pc # "idle" => job[h].no <= accepted
      BY DEF TypeInv, PlacesOK
    <2>3. accepted \in Nat /\ c \in Nat
      BY NumberFacts DEF TypeInv, TypeOK
    <2>. QED
      BY <1>1, <2>1, <2>2, <2>3, WorkFacts, NumberFacts
  <1>2. ASSUME NEW u \in Members, user'[u] # Nil PROVE CodesOf(mailed', u, user'[u])
    BY <1>2, GrowsFacts DEF Stored, TypeInv, MailsOK
  <1>3. ASSUME NEW g \in Handlers
        PROVE  /\ job'[g].pc \in {"findMobile", "findEmail"} => mailed'[job'[g].no] = Nil
               /\ job'[g].pc = "create" \/ (job'[g].pc = "save" /\ job'[g].op \in Mailers) =>
                    MailedFor(mailed', job'[g].no, job'[g].user)
               /\ job'[g].patch.edit.kind = "clear" /\ job'[g].code \in Numbers =>
                    MailedFor(mailed', job'[g].code, job'[g].user)
               /\ job'[g].pc = "writeBack" => CodesOf(mailed', job'[g].user, job'[g].copy)
    <2>1. CASE g = h
      BY <2>1, IdleFacts, GrowsFacts DEF Same, TypeInv, MailsOK
    <2>2. CASE g # h
      <3>1. job'[g] = job[g]
        BY <2>2
      <3>2. ASSUME job[g].pc \in {"findMobile", "findEmail"}
            PROVE  mailed'[job[g].no] = Nil
        <4>1. mailed[job[g].no] = Nil /\ job[g].no \in Numbers
          BY <3>2, WorkFacts DEF TypeInv, MailsOK
        <4>2. job[g].no # job[h].no
          BY <2>2, <3>2 DEF TypeInv, PlacesOK
        <4>. QED
          BY <4>1, <4>2
      <3>. QED
        BY <3>1, <3>2, GrowsFacts DEF TypeInv, MailsOK
    <2>. QED
      BY <2>1, <2>2
  <1>. QED
    BY <1>1, <1>2, <1>3 DEF MailsOK, Stored

\* A code goes out once, and to somebody.
LEMMA MailGrows ==
    ASSUME TypeInv, NEW no \in Numbers, NEW u \in Members, NEW p \in Purposes,
           NEW to \in Emails, Mail(no, u, p, to), mailed[no] = Nil
    PROVE  /\ Grows
           /\ mailed' \in [Numbers ->
                 [user : Members, for : Purposes, to : Emails] \cup {Nil}]
           /\ mailed'[no] = [user |-> u, for |-> p, to |-> to]
           /\ MailedFor(mailed', no, u)
           /\ \A c \in Numbers \ {no} : mailed'[c] = mailed[c]
  BY DEF Mail, Grows, MailedFor, TypeInv, TypeOK

\* Nothing is lost where nothing is mailed.
LEMMA NoMailGrows == UNCHANGED mailed => Grows
  BY DEF Grows

\* A lookup of a mobile number or of an address.
LEMMA FindFacts ==
    ASSUME TypeInv, NEW h \in Handlers, FindMobile(h) \/ FindEmail(h)
    PROVE  LET j == job[h]
           IN  /\ j.pc \in {"findMobile", "findEmail"}
               /\ UNCHANGED <<user, tokens, clock, accepted, reached, banned,
                              crossed, stale, relisted, named, spent, reused,
                              shared, unproven, rivals>>
               /\ \/ End(h) /\ UNCHANGED mailed
                  \/ /\ Goto(h, "updateOne") /\ UNCHANGED mailed
                     /\ j.op = "updateUser" /\ ~ MobileTaken(j.mobile)
                  \/ /\ Goto(h, "create") /\ j.op = "signup"
                     /\ j.email \in Emails /\ ~ MobileTaken(j.mobile)
                     /\ Mail(j.no, j.user, "SIGNUP", j.email)
                  \/ /\ Goto(h, "save") /\ j.op = "changeMail"
                     /\ j.email \in Emails
                     /\ Mail(j.no, j.user, "CHANGE_EMAIL", j.email)
  <1>. DEFINE j == job[h]
  <1>1. JobOK(j) /\ j.pc \in {"findMobile", "findEmail"}
    BY DEF FindMobile, FindEmail, At, TypeInv
  <1>2. CASE FindMobile(h)
    <2>1. j.op \in {"signup", "updateUser"}
      BY <1>1, <1>2 DEF FindMobile, At, JobOK
    <2>2. j.op = "signup" => j.email \in Emails
      BY <1>1 DEF JobOK
    <2>. QED
      BY <1>1, <1>2, <2>1, <2>2 DEF FindMobile, Quiet, NoMail
  <1>3. CASE FindEmail(h)
    <2>1. j.op = "changeMail" /\ j.email \in Emails
      BY <1>1, <1>3 DEF FindEmail, At, JobOK
    <2>. QED
      BY <1>1, <1>3, <2>1 DEF FindEmail, Quiet, NoMail
  <1>. QED
    BY <1>2, <1>3

\* A lookup keeps the types.
LEMMA FindType ==
    ASSUME TypeInv, NEW h \in Handlers, FindMobile(h) \/ FindEmail(h)
    PROVE  TypeInv' /\ Grows /\ Same(h)
           /\ \A g \in Handlers \ {h} : job'[g] = job[g]
  <1>. DEFINE j == job[h]
  <1>1. /\ j.pc \in {"findMobile", "findEmail"}
        /\ UNCHANGED <<user, tokens, clock, accepted, reached, banned,
                       crossed, stale, relisted, named, spent, reused, shared,
                       unproven, rivals>>
    BY FindFacts
  <1>2. /\ JobOK(j) /\ j \in Job /\ j.user \in Members /\ j.no \in Numbers
        /\ mailed[j.no] = Nil
    BY <1>1, WorkFacts DEF TypeInv, MailsOK
  <1>3. ASSUME NEW pc \in {"updateOne", "create", "save"}, Goto(h, pc),
               pc = "updateOne" => j.op = "updateUser" /\ UNCHANGED mailed,
               pc = "create" => j.op = "signup",
               pc = "save" => j.op = "changeMail",
               NEW p \in Purposes,
               pc # "updateOne" => j.email \in Emails /\ Mail(j.no, j.user, p, j.email)
        PROVE  TypeInv' /\ Grows /\ Same(h)
               /\ \A g \in Handlers \ {h} : job'[g] = job[g]
    <2>1. JobOK([j EXCEPT !.pc = pc])
      <3>1. [j EXCEPT !.pc = pc] \in Job
        BY <1>2 DEF Job, Steps
      <3>2. j.pc = "findMobile" => j.mobile \in Mobiles
        BY <1>2 DEF JobOK
      <3>3. pc \in {"create", "updateOne"} => j.pc = "findMobile"
        BY <1>1, <1>2, <1>3 DEF JobOK
      <3>. QED
        BY <1>2, <1>3, <3>1, <3>2, <3>3 DEF JobOK, EditOK, Job, Mailers, CodeOps
    <2>2. /\ job' \in [Handlers -> Job] /\ \A g \in Handlers : JobOK(job'[g])
          /\ job'[h] = [j EXCEPT !.pc = pc]
          /\ \A g \in Handlers \ {h} : job'[g] = job[g]
      BY <1>3, <2>1, GotoType DEF Steps
    <2>3. /\ job'[h].pc = pc /\ job'[h].op = j.op /\ job'[h].no = j.no
          /\ job'[h].user = j.user /\ job'[h].patch = j.patch
          /\ job'[h].code = j.code /\ job'[h].email = j.email
          /\ job'[h].mobile = j.mobile /\ job'[h].body = j.body
      BY <1>2, <2>2 DEF Job
    <2>4. Same(h)
      BY <1>1, <1>3, <2>3 DEF Same
    <2>5. /\ Grows
          /\ mailed' \in [Numbers ->
                [user : Members, for : Purposes, to : Emails] \cup {Nil}]
          /\ \A c \in Numbers \ {j.no} : mailed'[c] = mailed[c]
          /\ pc # "updateOne" => MailedFor(mailed', j.no, j.user)
      <3>1. CASE pc = "updateOne"
        BY <1>3, <3>1, NoMailGrows DEF TypeInv, TypeOK
      <3>2. CASE pc # "updateOne"
        BY <1>2, <1>3, <3>2, MailGrows
      <3>. QED
        BY <3>1, <3>2
    <2>6. PlacesOK'
      BY <1>1, <2>2, <2>4, PlacesStay DEF Stored, TypeInv, TypeOK
    <2>7. MailsOK'
      BY <1>1, <1>3, <2>2, <2>3, <2>4, <2>5, MailsStay
    <2>. QED
      BY <1>1, <2>2, <2>4, <2>5, <2>6, <2>7 DEF TypeInv, TypeOK
  <1>4. CASE End(h) /\ UNCHANGED mailed
    <2>1. /\ job' \in [Handlers -> Job] /\ \A g \in Handlers : JobOK(job'[g])
          /\ job'[h] = Idle /\ \A g \in Handlers \ {h} : job'[g] = job[g]
      BY <1>4, EndType
    <2>2. Same(h) /\ Grows
      BY <1>4, <2>1, NoMailGrows DEF Same
    <2>3. PlacesOK'
      BY <1>1, <2>1, <2>2, PlacesStay DEF Stored, TypeInv, TypeOK
    <2>4. MailsOK'
      BY <1>1, <1>4, <2>1, <2>2, MailsStay, IdleFacts
    <2>. QED
      BY <1>1, <1>4, <2>1, <2>2, <2>3, <2>4 DEF TypeInv, TypeOK
  <1>5. "SIGNUP" \in Purposes /\ "CHANGE_EMAIL" \in Purposes
    BY DEF Purposes
  <1>. QED
    BY <1>3, <1>4, <1>5, FindFacts

\* A request that ends and changes one document at most.
LEMMA EndWrites ==
    ASSUME TypeInv, NEW h \in Handlers, job[h].pc # "idle", End(h),
           UNCHANGED <<clock, accepted, mailed>>,
           NEW D \in Document,
           user' = user \/ user' = [user EXCEPT ![job[h].user] = D],
           Stored(job[h].user) \/ job[h].op = "signup",
           CodesOf(mailed, job[h].user, D),
           tokens' \subseteq Token,
           \A t \in tokens' :
             \/ t \in tokens
             \/ /\ t.user = job[h].user
                /\ user' # user \/ Stored(job[h].user)
                /\ t.kind = "CHANGE_EMAIL" => t.email \in Emails,
           reached' \cup named' \subseteq Members \X Emails,
           banned' \cup crossed' \cup stale' \cup relisted' \cup rivals'
             \subseteq Members,
           unproven' \subseteq (CodeOps \cup {"confirmOTPPassword"}) \X Members,
           spent' \cup shared' \subseteq Numbers,
           reused' \subseteq Numbers \X (CodeOps \cup {"confirmOTPPassword"})
    PROVE  TypeInv'
  <1>1. job[h].user \in Members /\ D # Nil
    BY WorkFacts, NumberFacts
  <1>2. /\ job' \in [Handlers -> Job] /\ \A g \in Handlers : JobOK(job'[g])
        /\ job'[h] = Idle /\ \A g \in Handlers \ {h} : job'[g] = job[g]
    BY EndType
  <1>3. Same(h) /\ Grows
    BY <1>2, NoMailGrows DEF Same
  <1>4. /\ user' \in [Members -> Document \cup {Nil}]
        /\ \A u \in Members : user'[u] = user[u] \/ (u = job[h].user /\ user'[u] = D)
        /\ user' # user => user'[job[h].user] = D
    BY <1>1 DEF TypeInv, TypeOK
  <1>5. PlacesOK'
    <2>1. \A t \in tokens' : t \in tokens \/
            /\ t.user \in Members /\ user'[t.user] # Nil
            /\ t.kind = "CHANGE_EMAIL" => t.email \in Emails
      BY <1>1, <1>4 DEF Stored
    <2>. QED
      BY <1>1, <1>2, <1>3, <1>4, <2>1, PlacesStay DEF Stored
  <1>6. MailsOK'
    BY <1>2, <1>3, <1>4, MailsStay, IdleFacts
  <1>. QED
    BY <1>2, <1>4, <1>5, <1>6 DEF TypeInv, TypeOK

\* The token that answers a request is for its user.
LEMMA GrantedFacts ==
    ASSUME NEW j, JobOK(j), j.user \in Members, NEW t \in Granted(j)
    PROVE  /\ t \in Token /\ t.user = j.user
           /\ t.kind = "CHANGE_EMAIL" => t.email \in Emails /\ t.email = j.email
           /\ \/ t.kind = "LOGIN" /\ j.op = "login"
              \/ /\ t.kind = Purpose(j.op) /\ t.kind \in Purposes
                 /\ j.op \in Mailers \ {"resendOTP"}
           /\ t.kind = "CHANGE_EMAIL" => j.op = "changeMail"
  BY DEF Granted, JobOK, Token, Purposes, Purpose, Mailers

\* A number that is taken makes rivals of the members it was about to be
\* written for.
LEMMA TakesFacts ==
    ASSUME TypeInv, NEW h \in Handlers, Takes(h)
    PROVE  /\ rivals \subseteq rivals' /\ rivals' \subseteq Members
           /\ \A g \in Handlers :
                /\ job[g].pc \in {"create", "updateOne"}
                /\ job[g].mobile = job[h].mobile /\ job[g].mobile # Nil
                /\ job[g].user \in Members \ {job[h].user}
                => job[g].user \in rivals'
           /\ job[h].mobile = Nil => rivals' = rivals
  BY DEF Takes, TypeInv, TypeOK

\* A new document has the one code that was mailed for it.
LEMMA CreateFacts ==
    ASSUME TypeInv, NEW h \in Handlers, Create(h)
    PROVE  LET j == job[h]
               D == user'[j.user]
           IN  /\ j.pc = "create" /\ j.op = "signup" /\ ~ Stored(j.user)
               /\ j.user \in Members /\ MailedFor(mailed, j.no, j.user)
               /\ End(h)
               /\ UNCHANGED <<clock, accepted, mailed, reached, banned, crossed,
                              stale, relisted, named, spent, reused, shared,
                              unproven>>
               /\ \/ UNCHANGED <<user, tokens, rivals>>
                  \/ /\ user' = [user EXCEPT ![j.user] = D] /\ Takes(h)
                     /\ D \in Document /\ D.email = j.email
                     /\ D.mobileNumber = j.mobile
                     /\ Has(D, "SIGNUP")
                     /\ DOMAIN D.authTypes = {1}
                     /\ D.authTypes[1].value = j.no
                     /\ D.authTypes[1].authFor = "SIGNUP"
                     /\ tokens' = tokens \cup
                          {[kind |-> "SIGNUP", user |-> j.user, email |-> Nil]}
  <1>. DEFINE j == job[h]
              item == Fresh("SIGNUP", j.no)
              new(b) == [status |-> Given(b.status, "Offline"),
                         confirmEmail |-> Given(b.confirmEmail, FALSE),
                         email |-> j.email, mobileNumber |-> j.mobile,
                         password |-> j.no, authTypes |-> <<item>>]
  <1>1. j.pc = "create"
    BY DEF Create, At
  <1>2. /\ JobOK(j) /\ j.user \in Members /\ j.no \in Numbers
        /\ j.no \in 0 .. MaxRequests /\ clock \in Nat
        /\ user \in [Members -> Document \cup {Nil}]
    BY <1>1, WorkFacts DEF TypeInv, TypeOK
  <1>3. j.op = "signup" /\ ~ Stored(j.user) /\ MailedFor(mailed, j.no, j.user)
    BY <1>1, <1>2 DEF JobOK, TypeInv, PlacesOK, MailsOK
  <1>4. j.email \in Emails /\ j.mobile \in Mobiles
    BY <1>1, <1>2 DEF JobOK
  <1>5. item \in Item /\ item.value = j.no /\ item.authFor = "SIGNUP"
    BY <1>2, UsersAssumption DEF Fresh, Item, Purposes
  <1>. HIDE DEF item
  <1>6. /\ <<item>> \in Seq(Item) /\ DOMAIN <<item>> = {1}
        /\ <<item>>[1] = item
    BY <1>5
  <1>7. ASSUME NEW b \in Body
        PROVE  /\ new(b) \in Document /\ new(b).email = j.email
               /\ new(b).mobileNumber = j.mobile
               /\ new(b).authTypes = <<item>>
    <2>1. /\ Given(b.status, "Offline") \in Statuses
          /\ Given(b.confirmEmail, FALSE) \in BOOLEAN
      BY DEF Given, Body, Statuses
    <2>. DEFINE st == Given(b.status, "Offline")
                co == Given(b.confirmEmail, FALSE)
    <2>2. new(b) = [status |-> st, confirmEmail |-> co, email |-> j.email,
                    mobileNumber |-> j.mobile, password |-> j.no,
                    authTypes |-> <<item>>]
      OBVIOUS
    <2>. HIDE DEF st, co
    <2>3. st \in Statuses /\ co \in BOOLEAN
      BY <2>1 DEF st, co
    <2>. HIDE DEF new
    <2>. QED
      BY <1>2, <1>4, <1>6, <2>2, <2>3 DEF Document
  <1>8. Bodies \cup {NoBody} \subseteq Body
    BY NumberFacts, EmptyBody
  <1>. HIDE DEF new
  <1>9. /\ End(h)
        /\ UNCHANGED <<clock, accepted, mailed, reached, banned, crossed,
                       stale, relisted, named, spent, reused, shared, unproven>>
        /\ \/ UNCHANGED <<user, tokens, rivals>>
           \/ /\ \E b \in Bodies \cup {NoBody} :
                   user' = [user EXCEPT ![j.user] = new(b)]
              /\ Takes(h)
              /\ tokens' = tokens \cup
                   {[kind |-> "SIGNUP", user |-> j.user, email |-> Nil]}
    BY DEF Create, Quiet, item, new
  <1>10. CASE UNCHANGED <<user, tokens, rivals>>
    BY <1>1, <1>2, <1>3, <1>9, <1>10
  <1>11. CASE /\ \E b \in Bodies \cup {NoBody} :
                   user' = [user EXCEPT ![j.user] = new(b)]
              /\ Takes(h)
              /\ tokens' = tokens \cup
                   {[kind |-> "SIGNUP", user |-> j.user, email |-> Nil]}
    <2>1. PICK b \in Body : user' = [user EXCEPT ![j.user] = new(b)]
      BY <1>8, <1>11
    <2>. DEFINE D == new(b)
    <2>2. /\ D \in Document /\ D.email = j.email /\ D.mobileNumber = j.mobile
          /\ D.authTypes = <<item>>
      BY <1>7
    <2>. HIDE DEF D
    <2>3. user' = [user EXCEPT ![j.user] = D] /\ user'[j.user] = D
      BY <1>2, <2>1 DEF D
    <2>4. Has(D, "SIGNUP")
      BY <1>5, <1>6, <2>2 DEF Has
    <2>. QED
      BY <1>1, <1>2, <1>3, <1>5, <1>6, <1>9, <1>11, <2>2, <2>3, <2>4
  <1>. QED
    BY <1>9, <1>10, <1>11

\* A new document keeps the types.
LEMMA CreateType ==
    ASSUME TypeInv, NEW h \in Handlers, Create(h)
    PROVE  TypeInv'
  <1>. DEFINE j == job[h]
              D == user'[j.user]
              t == [kind |-> "SIGNUP", user |-> j.user, email |-> Nil]
  <1>1. /\ j.pc = "create" /\ j.op = "signup" /\ j.user \in Members
        /\ MailedFor(mailed, j.no, j.user)
        /\ End(h) /\ UNCHANGED <<clock, accepted, mailed>>
        /\ UNCHANGED <<reached, banned, crossed, stale, unproven>>
        /\ UNCHANGED <<relisted, named, spent, reused, shared>>
        /\ rivals' \subseteq Members
    <2>1. rivals' = rivals \/ Takes(h)
      BY CreateFacts
    <2>2. rivals' \subseteq Members
      BY <2>1, TakesFacts DEF TypeInv, TypeOK
    <2>. QED
      BY <2>2, CreateFacts
  <1>2. CASE UNCHANGED <<user, tokens>>
    <2>1. PICK d \in Document : CodesOf(mailed, j.user, d)
      <3>. DEFINE d == [status |-> "Offline", confirmEmail |-> FALSE,
                        email |-> j.email, mobileNumber |-> j.mobile,
                        password |-> 0, authTypes |-> << >>]
      <3>1. j.email \in Emails /\ j.mobile \in Mobiles
        BY <1>1 DEF TypeInv, JobOK
      <3>2. d \in Document /\ DOMAIN d.authTypes = {}
        BY <3>1, NumberFacts DEF Document, Statuses
      <3>. QED
        BY <3>2 DEF CodesOf
    <2>. QED
      BY <1>1, <1>2, <2>1, EndWrites DEF TypeInv, TypeOK
  <1>3. CASE /\ user' = [user EXCEPT ![j.user] = D]
             /\ D \in Document /\ DOMAIN D.authTypes = {1}
             /\ D.authTypes[1].value = j.no
             /\ tokens' = tokens \cup {t}
    <2>1. CodesOf(mailed, j.user, D)
      BY <1>1, <1>3 DEF CodesOf
    <2>2. t \in Token /\ t.user = j.user /\ t.kind = "SIGNUP"
      BY <1>1 DEF Token, Purposes
    <2>3. user' # user
      <3>1. ~ Stored(j.user) /\ user'[j.user] # Nil
        BY <1>3, CreateFacts, NumberFacts
      <3>. QED
        BY <3>1 DEF Stored
    <2>. HIDE DEF t, D
    <2>. QED
      BY <1>1, <1>3, <2>1, <2>2, <2>3, EndWrites DEF TypeInv, TypeOK
  <1>. QED
    BY <1>2, <1>3, CreateFacts

\* What is compared is a code that was mailed, one of the member's own, or none.
LEMMA CodeNumber ==
    ASSUME NEW j, JobOK(j)
    PROVE  j.code > 0 <=> j.code \in Numbers
  BY NumberFacts DEF JobOK, Job, Own, Numbers

\* A save keeps the types.
LEMMA SaveType ==
    ASSUME TypeInv, NEW h \in Handlers, Save(h)
    PROVE  TypeInv'
  <1>. DEFINE j == job[h]
              u == j.user
              e == j.patch.edit
              D == Patched(user[u], j.patch)
  <1>1. /\ j.pc = "save" /\ j.op # "signup"
        /\ u \in Members /\ Stored(u) /\ user[u] \in Document
        /\ j.patch \in Patch /\ D \in Document
        /\ D.authTypes = Edited(user[u].authTypes, e)
        /\ End(h) /\ UNCHANGED <<clock, accepted, mailed, stale, relisted, named,
                                          rivals>>
    BY SaveFacts
  <1>2. /\ JobOK(j) /\ EditOK(j)
        /\ e \in Edit /\ user[u].authTypes \in Seq(Item)
    BY <1>1 DEF TypeInv, JobOK, Patch, Document
  <1>3. CodesOf(mailed, u, D)
    <2>1. CodesOf(mailed, u, user[u])
      BY <1>1 DEF TypeInv, MailsOK
    <2>2. e.kind \in {"push", "set"} =>
            e.item.value = j.no /\ MailedFor(mailed, j.no, u)
      BY <1>1, <1>2 DEF EditOK, TypeInv, MailsOK
    <2>3. e.kind = "set" => e.at # 0
      BY <1>2 DEF EditOK
    <2>. DEFINE items == user[u].authTypes
    <2>. HIDE DEF e, D, items
    <2>4. \A i \in DOMAIN Edited(items, e) :
            \/ Edited(items, e)[i].value \notin Numbers
            \/ i \in DOMAIN items /\ Edited(items, e)[i].value = items[i].value
            \/ /\ e.kind \in {"push", "set"}
               /\ Edited(items, e)[i].value = e.item.value
      BY <1>2, <2>3, EditedFacts, NumberFacts DEF items
    <2>. QED
      BY <1>1, <2>1, <2>2, <2>4 DEF CodesOf, items
  <1>4. CASE UNCHANGED <<user, tokens, historyVars>>
    BY <1>1, <1>3, <1>4, EndWrites DEF historyVars, TypeInv, TypeOK
  <1>5. CASE /\ user' = [user EXCEPT ![u] = D]
             /\ tokens' = tokens \cup Granted(j)
             /\ Witness(h)
    <2>1. \A t \in Granted(j) :
            /\ t \in Token /\ t.user = u
            /\ t.kind = "CHANGE_EMAIL" => t.email \in Emails
      BY <1>1, <1>2, GrantedFacts
    <2>2. e.kind = "clear" /\ j.code > 0 =>
            /\ j.code \in Numbers /\ mailed[j.code].to \in Emails
            /\ j.op \in CodeOps
      <3>1. j.code > 0 => j.code \in Numbers
        BY <1>2, CodeNumber
      <3>. QED
        BY <1>2, <3>1 DEF TypeInv, MailsOK, MailedFor, EditOK
    <2>3. /\ reached' \subseteq Members \X Emails
          /\ banned' \cup crossed' \subseteq Members
          /\ unproven' \subseteq (CodeOps \cup {"confirmOTPPassword"}) \X Members
          /\ spent' \cup shared' \subseteq Numbers
          /\ reused' \subseteq Numbers \X (CodeOps \cup {"confirmOTPPassword"})
      BY <1>1, <1>5, <2>2 DEF Witness, TypeInv, TypeOK
    <2>. HIDE DEF e, D
    <2>. QED
      BY <1>1, <1>3, <1>5, <2>1, <2>3, EndWrites DEF TypeInv, TypeOK
  <1>. QED
    BY <1>4, <1>5, SaveFacts

\* The other writes: a body, a password, a copy.
LEMMA WriteFacts ==
    ASSUME TypeInv, NEW h \in Handlers,
           UpdateOne(h) \/ SetPassword(h) \/ WriteBack(h)
    PROVE  LET j == job[h]
               D == user'[j.user]
           IN  /\ j.pc \in {"updateOne", "setPassword", "writeBack"}
               /\ j.user \in Members /\ Stored(j.user) /\ user[j.user] \in Document
               /\ End(h)
               /\ UNCHANGED <<tokens, clock, accepted, mailed, reached, banned,
                              crossed, spent, reused, shared, unproven>>
               /\ D \in Document
               /\ user' = [user EXCEPT ![j.user] = D]
               /\ \/ UNCHANGED <<user, stale, relisted, named, rivals>>
                  \/ /\ j.pc = "updateOne" /\ UNCHANGED stale /\ Takes(h)
                     /\ D.mobileNumber = IF j.mobile = Nil
                                           THEN user[j.user].mobileNumber
                                           ELSE j.mobile
                     /\ \/ D.status = user[j.user].status
                        \/ WritesStatus(j)
                     /\ named \subseteq named' /\ named' \subseteq Members \X Emails
                     /\ \/ D.email = user[j.user].email
                        \/ <<j.user, D.email>> \in named'
                     /\ \/ UNCHANGED relisted
                           /\ D.authTypes = user[j.user].authTypes
                        \/ /\ relisted' = relisted \cup {j.user}
                           /\ \A i \in DOMAIN D.authTypes :
                                D.authTypes[i].value \notin Numbers
                  \/ /\ j.pc = "setPassword"
                     /\ UNCHANGED <<stale, relisted, named, rivals>>
                     /\ WritesStatus(j)
                     /\ D.mobileNumber = user[j.user].mobileNumber
                     /\ D.email = user[j.user].email
                     /\ D.authTypes = user[j.user].authTypes
                  \/ /\ j.pc = "writeBack" /\ UNCHANGED <<relisted, named, rivals>>
                     /\ j.copy \in Document
                     /\ D.status = j.copy.status /\ D.email = j.copy.email
                     /\ D.mobileNumber = j.copy.mobileNumber
                     /\ Within(D, j.copy)
                     /\ \/ UNCHANGED stale /\ user[j.user] = j.copy
                        \/ stale' = stale \cup {j.user}
  <1>. DEFINE j == job[h]
              u == j.user
              D == user'[u]
  <1>1. j.pc \in {"updateOne", "setPassword", "writeBack"}
    BY DEF UpdateOne, SetPassword, WriteBack, At
  <1>2. /\ JobOK(j) /\ j \in Job /\ u \in Members
        /\ Stored(u) /\ user[u] \in Document
        /\ j.no \in 0 .. MaxRequests /\ clock \in Nat
        /\ user \in [Members -> Document \cup {Nil}]
    <2>1. JobOK(j)
      BY DEF TypeInv
    <2>2. j.op # "signup"
      BY <1>1, <2>1 DEF JobOK
    <2>. QED
      BY <1>1, <2>1, <2>2, WorkFacts DEF TypeInv, TypeOK
  <1>3. End(h) /\ UNCHANGED <<tokens, clock, accepted, mailed, reached, banned,
                              crossed, spent, reused, shared, unproven>>
    BY DEF UpdateOne, SetPassword, WriteBack, Quiet, historyVars
  <1>0. CASE UNCHANGED <<user, stale, relisted, named, rivals>>
    BY <1>0, <1>1, <1>2, <1>3
  <1>4. CASE /\ UpdateOne(h)
             /\ ~ UNCHANGED <<user, stale, relisted, named, rivals>>
    <2>. DEFINE b == j.body
                d == BodySet(user[u], b, j.no)
    <2>1. /\ j.pc = "updateOne" /\ b \in Body /\ j.mobile = b.mobileNumber
      BY <1>2, <1>4 DEF UpdateOne, At, JobOK, Job
    <2>2. /\ d \in Document
          /\ d.status = IF b.status = Nil THEN user[u].status ELSE b.status
          /\ d.email = IF b.email = Nil THEN user[u].email ELSE b.email
          /\ d.mobileNumber = IF b.mobileNumber = Nil THEN user[u].mobileNumber
                                                      ELSE b.mobileNumber
          /\ \/ b.authTypes = Nil /\ d.authTypes = user[u].authTypes
             \/ /\ b.authTypes # Nil
                /\ \A i \in DOMAIN d.authTypes : d.authTypes[i].value \notin Numbers
      BY <1>2, <2>1, BodyFacts
    <2>3. /\ user' = [user EXCEPT ![u] = d] /\ UNCHANGED stale /\ Takes(h)
          /\ relisted' = IF b.authTypes = Nil THEN relisted ELSE relisted \cup {u}
          /\ named' = IF b.email = Nil THEN named ELSE named \cup {<<u, b.email>>}
      BY <1>2, <1>4 DEF UpdateOne
    <2>. HIDE DEF d
    <2>4. D = d /\ user' = [user EXCEPT ![u] = D]
      BY <1>2, <2>3
    <2>5. /\ named \subseteq named' /\ named' \subseteq Members \X Emails
          /\ D.email = user[u].email \/ <<u, D.email>> \in named'
      <3>1. b.email = Nil \/ b.email \in Emails
        BY <2>1 DEF Body
      <3>2. named \subseteq Members \X Emails
        BY DEF TypeInv, TypeOK
      <3>. QED
        BY <1>2, <2>2, <2>3, <2>4, <3>1, <3>2
    <2>6. D.status = user[u].status \/ WritesStatus(j)
      BY <2>2, <2>4 DEF WritesStatus
    <2>7. \/ UNCHANGED relisted /\ D.authTypes = user[u].authTypes
          \/ /\ relisted' = relisted \cup {u}
             /\ \A i \in DOMAIN D.authTypes : D.authTypes[i].value \notin Numbers
      BY <2>2, <2>3, <2>4
    <2>8. D.mobileNumber = IF j.mobile = Nil THEN user[u].mobileNumber ELSE j.mobile
      BY <2>1, <2>2, <2>4
    <2>. HIDE DEF D, b
    <2>. QED
      BY <1>1, <1>2, <1>3, <2>1, <2>2, <2>3, <2>4, <2>5, <2>6, <2>7, <2>8 DEF D
  <1>5. CASE SetPassword(h)
    <2>. DEFINE d == [user[u] EXCEPT !.password = j.no, !.status = "Offline"]
    <2>1. /\ d \in Document
          /\ d.email = user[u].email /\ d.authTypes = user[u].authTypes
          /\ d.mobileNumber = user[u].mobileNumber
      BY <1>2 DEF Document, Statuses
    <2>2. /\ user' = [user EXCEPT ![u] = d] /\ D = d
          /\ UNCHANGED <<stale, relisted, named, rivals>>
      BY <1>2, <1>5 DEF SetPassword, historyVars
    <2>3. WritesStatus(j) /\ j.pc = "setPassword"
      BY <1>5 DEF SetPassword, At, WritesStatus
    <2>. HIDE DEF d
    <2>. QED
      BY <1>1, <1>2, <1>3, <2>1, <2>2, <2>3
  <1>6. CASE /\ WriteBack(h)
             /\ ~ UNCHANGED <<user, stale, relisted, named, rivals>>
    <2>1. /\ j.copy \in Document /\ j.pc = "writeBack"
          /\ UNCHANGED <<relisted, named, rivals>>
      BY <1>2, <1>6 DEF WriteBack, At, JobOK
    <2>2. PICK d \in PutBack(j.copy) :
            /\ user' = [user EXCEPT ![u] = d]
            /\ stale' = IF user[u] = j.copy THEN stale ELSE stale \cup {u}
      BY <1>2, <1>6 DEF WriteBack
    <2>3. D = d /\ user' = [user EXCEPT ![u] = D]
      BY <1>2, <2>2
    <2>4. /\ D \in Document /\ D.status = j.copy.status /\ D.email = j.copy.email
          /\ D.mobileNumber = j.copy.mobileNumber /\ Within(D, j.copy)
      BY <1>2, <2>1, <2>3, PutBackFacts
    <2>. HIDE DEF D
    <2>. QED
      BY <1>1, <1>2, <1>3, <2>1, <2>2, <2>3, <2>4 DEF D
  <1>. QED
    BY <1>0, <1>4, <1>5, <1>6

\* The other writes keep the types.
LEMMA WriteType ==
    ASSUME TypeInv, NEW h \in Handlers,
           UpdateOne(h) \/ SetPassword(h) \/ WriteBack(h)
    PROVE  TypeInv'
  <1>. DEFINE j == job[h]
              D == user'[j.user]
  <1>1. /\ j.pc \in {"updateOne", "setPassword", "writeBack"}
        /\ j.user \in Members /\ Stored(j.user) /\ user[j.user] \in Document
        /\ End(h)
        /\ UNCHANGED <<tokens, clock, accepted, mailed, reached, banned,
                       crossed, spent, reused, shared, unproven>>
        /\ D \in Document
        /\ user' = [user EXCEPT ![j.user] = D]
    BY WriteFacts
  <1>2. /\ stale' \cup relisted' \cup rivals' \subseteq Members
        /\ named' \subseteq Members \X Emails
    <2>1. /\ rivals' = rivals \/ Takes(h)
          /\ stale' = stale \/ stale' = stale \cup {j.user}
          /\ relisted' = relisted \/ relisted' = relisted \cup {j.user}
          /\ named' = named \/ named' \subseteq Members \X Emails
      BY WriteFacts
    <2>2. rivals' \subseteq Members
      BY <2>1, TakesFacts DEF TypeInv, TypeOK
    <2>. QED
      BY <1>1, <2>1, <2>2 DEF TypeInv, TypeOK
  <1>3. CodesOf(mailed, j.user, D)
    <2>1. CodesOf(mailed, j.user, user[j.user])
      BY <1>1 DEF TypeInv, MailsOK
    <2>2. j.pc = "writeBack" => CodesOf(mailed, j.user, j.copy)
      BY DEF TypeInv, MailsOK
    <2>3. \/ D.authTypes = user[j.user].authTypes
          \/ \A i \in DOMAIN D.authTypes : D.authTypes[i].value \notin Numbers
          \/ j.pc = "writeBack" /\ Within(D, j.copy)
      BY WriteFacts
    <2>4. 0 \notin Numbers
      BY NumberFacts
    <2>. HIDE DEF D
    <2>. QED
      BY <2>1, <2>2, <2>3, <2>4 DEF CodesOf, Within
  <1>. HIDE DEF D
  <1>. QED
    BY <1>1, <1>2, <1>3, EndWrites DEF TypeInv, TypeOK

\* A request that is accepted: it knows what is stored, and may mail a code.
LEMMA SubmitFacts ==
    ASSUME TypeInv, NEW h \in Handlers, NEW j, Begun(h, j), Reads(j), Mails(j),
           accepted' = accepted + 1, accepted' \in Numbers
    PROVE  /\ j.user \in Members
           /\ j.op # "signup" => Stored(j.user) /\ user[j.user] \in Document
           /\ Grows
           /\ mailed' \in [Numbers ->
                 [user : Members, for : Purposes, to : Emails] \cup {Nil}]
           /\ mailed[j.no] = Nil
           /\ \A c \in Numbers \ {j.no} : mailed'[c] = mailed[c]
           /\ j.pc \in {"findMobile", "findEmail"} => mailed'[j.no] = Nil
           /\ j.pc = "save" /\ j.op \in Mailers =>
                /\ mailed'[j.no] = [user |-> j.user, for |-> j.patch.edit.item.authFor,
                                    to |-> user[j.user].email]
                /\ MailedFor(mailed', j.no, j.user)
  <1>1. j.user \in Members /\ j.no = accepted' /\ j.no > accepted
    BY NumberFacts DEF Begun, JobOK, TypeInv, TypeOK
  <1>2. mailed[j.no] = Nil
    BY <1>1 DEF TypeInv, MailsOK
  <1>3. j.op # "signup" => Stored(j.user) /\ user[j.user] \in Document
    BY <1>1, StoredFacts DEF Begun
  <1>4. j.op \in Mailers => user[j.user].email \in Emails
    BY <1>3 DEF Mailers, Document
  <1>5. CASE j.pc = "save" /\ j.op \in Mailers
    <2>. DEFINE p == j.patch.edit.item.authFor
    <2>1. p \in Purposes
      BY <1>5 DEF Begun, JobOK, EditOK
    <2>2. Mail(j.no, j.user, p, user[j.user].email)
      BY <1>5 DEF Mails, Mail
    <2>. HIDE DEF p
    <2>3. j.no \in Numbers /\ user[j.user].email \in Emails
      BY <1>1, <1>4, <1>5
    <2>4. /\ Grows
          /\ mailed' \in [Numbers ->
                [user : Members, for : Purposes, to : Emails] \cup {Nil}]
          /\ mailed'[j.no] = [user |-> j.user, for |-> p, to |-> user[j.user].email]
          /\ MailedFor(mailed', j.no, j.user)
          /\ \A c \in Numbers \ {j.no} : mailed'[c] = mailed[c]
      BY <1>1, <1>2, <2>1, <2>2, <2>3, MailGrows
    <2>. QED
      BY <1>1, <1>2, <1>3, <1>5, <2>4 DEF p
  <1>6. CASE ~ (j.pc = "save" /\ j.op \in Mailers)
    BY <1>1, <1>2, <1>3, <1>6, NoMailGrows DEF Mails, TypeInv, TypeOK
  <1>. QED
    BY <1>5, <1>6

\* A new request keeps the types.
LEMMA SubmitType ==
    ASSUME TypeInv, NEW h \in Handlers, Submit(h)
    PROVE  TypeInv'
  <1>1. /\ accepted' = accepted + 1 /\ accepted' \in Numbers
        /\ UNCHANGED <<user, tokens, clock, reached, banned, crossed, stale,
                       relisted, named, spent, reused, shared, unproven, rivals>>
    BY SubmitBegins
  <1>2. PICK j : Begun(h, j) /\ Reads(j) /\ Mails(j) /\ job' = [job EXCEPT ![h] = j]
    BY SubmitBegins DEF Begins
  <1>3. /\ JobOK(j) /\ j.pc # "idle" /\ j.no = accepted + 1 /\ job[h].pc = "idle"
        /\ j.user \in Members
    BY <1>2 DEF Begun, JobOK
  <1>4. /\ job' \in [Handlers -> Job] /\ \A g \in Handlers : JobOK(job'[g])
        /\ job'[h] = j /\ \A g \in Handlers \ {h} : job'[g] = job[g]
    BY <1>2, <1>3, OneHandler
  <1>5. /\ Grows
        /\ mailed' \in [Numbers ->
              [user : Members, for : Purposes, to : Emails] \cup {Nil}]
        /\ \A c \in Numbers \ {j.no} : mailed'[c] = mailed[c]
        /\ j.pc \in {"findMobile", "findEmail"} => mailed'[j.no] = Nil
        /\ j.pc = "save" /\ j.op \in Mailers => MailedFor(mailed', j.no, j.user)
    BY <1>1, <1>2, SubmitFacts
  <1>6. accepted \in Nat
    BY NumberFacts DEF TypeInv, TypeOK
  <1>7. job[h] = Idle
    BY <1>3 DEF TypeInv, JobOK
  <1>8. \A g \in Handlers : job[g].no # j.no /\ job[g].no <= accepted
    <2>1. \A g \in Handlers : job[g].pc = "idle" => job[g].no = 0
      BY IdleFacts DEF TypeInv, JobOK
    <2>2. \A g \in Handlers : job[g].no <= accepted
      BY <1>6, <2>1 DEF TypeInv, PlacesOK
    <2>3. \A g \in Handlers : job[g].no \in Nat
      BY NumberFacts DEF TypeInv, JobOK, Job
    <2>. QED
      BY <1>3, <1>6, <2>2, <2>3
  <1>9. PlacesOK'
    <2>1. ASSUME NEW g \in Handlers, job'[g].pc # "idle"
          PROVE  /\ job'[g].no <= accepted'
                 /\ job'[g].op = "signup" <=> user[job'[g].user] = Nil
                 /\ \A k \in Handlers \ {g} :
                      /\ job'[k].no # job'[g].no
                      /\ job'[g].op = "signup" => job'[k].user # job'[g].user
      <3>1. CASE g = h
        BY <1>1, <1>2, <1>3, <1>4, <1>6, <1>8, <3>1 DEF Begun, Stored
      <3>2. CASE g # h
        <4>1. job'[g] = job[g] /\ job[g].user \in Members
          BY <1>4, <2>1, <3>2, WorkFacts
        <4>2. job[g].op = "signup" <=> user[job[g].user] = Nil
          BY <2>1, <4>1 DEF TypeInv, PlacesOK, Stored
        <4>3. job'[h].no # job[g].no
          BY <1>4, <1>8
        <4>4. job[g].op = "signup" => job'[h].user # job[g].user
          <5>1. j.op = "signup" => job[g].user # j.user
            BY <1>2 DEF Begun
          <5>2. j.op # "signup" => user[j.user] # Nil
            BY <1>2 DEF Begun, Stored
          <5>. QED
            BY <1>4, <4>2, <5>1, <5>2
        <4>5. job'[g].no <= accepted'
          <5>1. job[g].no \in Nat
            BY NumberFacts DEF TypeInv, JobOK, Job
          <5>. QED
            BY <1>1, <1>6, <1>8, <4>1, <5>1
        <4>. QED
          BY <1>4, <2>1, <3>2, <4>1, <4>2, <4>3, <4>4, <4>5 DEF TypeInv, PlacesOK
      <3>. QED
        BY <3>1, <3>2
    <2>. QED
      BY <1>1, <2>1 DEF PlacesOK, Stored, TypeInv
  <1>10. MailsOK'
    <2>1. \A c \in Numbers : c > accepted' => mailed'[c] = Nil
      BY <1>1, <1>3, <1>5, <1>6, NumberFacts DEF TypeInv, MailsOK
    <2>2. \A u \in Members : user[u] # Nil => CodesOf(mailed', u, user[u])
      BY <1>5, GrowsFacts DEF TypeInv, MailsOK, Stored
    <2>3. ASSUME NEW g \in Handlers \ {h}
          PROVE  job[g].pc \in {"findMobile", "findEmail"} => mailed'[job[g].no] = Nil
      BY <1>5, <1>8, WorkFacts DEF TypeInv, MailsOK
    <2>4. j.patch.edit.kind = "clear" /\ j.code \in Numbers =>
            MailedFor(mailed', j.code, j.user)
      <3>1. CASE j.patch.edit.kind = "clear" /\ j.code \in Numbers
        <4>1. j.op \in CodeOps /\ j.code # 0
          BY <1>3, <3>1 DEF JobOK, EditOK
        <4>2. Stored(j.user) /\ user[j.user] \in Document
          BY <1>1, <1>2, <4>1, SubmitFacts DEF CodeOps
        <4>3. MailedFor(mailed, j.code, j.user)
          BY <1>2, <1>3, <3>1, <4>1, <4>2 DEF Reads, TypeInv, MailsOK, CodesOf
        <4>. QED
          BY <1>5, <4>3, GrowsFacts
      <3>. QED
        BY <3>1
    <2>5. j.pc = "writeBack" => CodesOf(mailed', j.user, j.copy)
      <3>1. CASE j.pc = "writeBack"
        <4>1. j.copy = user[j.user] /\ j.op # "signup"
          BY <1>2, <1>3, <3>1 DEF Begun, JobOK
        <4>2. user[j.user] # Nil
          BY <1>2, <4>1 DEF Begun, Stored
        <4>. QED
          BY <1>3, <2>2, <4>1, <4>2
      <3>. QED
        BY <3>1
    <2>6. j.pc # "create"
      BY <1>2 DEF Begun
    <2>7. ASSUME NEW g \in Handlers
          PROVE  /\ job'[g].pc \in {"findMobile", "findEmail"} => mailed'[job'[g].no] = Nil
                 /\ job'[g].pc = "create" \/ (job'[g].pc = "save" /\ job'[g].op \in Mailers) =>
                      MailedFor(mailed', job'[g].no, job'[g].user)
                 /\ job'[g].patch.edit.kind = "clear" /\ job'[g].code \in Numbers =>
                      MailedFor(mailed', job'[g].code, job'[g].user)
                 /\ job'[g].pc = "writeBack" =>
                      CodesOf(mailed', job'[g].user, job'[g].copy)
      <3>1. CASE g = h
        BY <1>4, <1>5, <2>4, <2>5, <2>6, <3>1
      <3>2. CASE g # h
        BY <1>4, <1>5, <2>3, <3>2, GrowsFacts DEF TypeInv, MailsOK
      <3>. QED
        BY <3>1, <3>2
    <2>. QED
      BY <1>1, <2>1, <2>2, <2>7 DEF MailsOK, Stored
  <1>. QED
    BY <1>1, <1>4, <1>5, <1>9, <1>10, NumberFacts DEF TypeInv, TypeOK

\* The password that is judged, and the request that goes on or not.
LEMMA CheckFacts ==
    ASSUME TypeInv, NEW h \in Handlers, CheckPassword(h) \/ Abort(h)
    PROVE  /\ job[h].pc # "idle"
           /\ UNCHANGED <<user, tokens, clock, accepted, historyVars>>
           /\ job' \in [Handlers -> Job] /\ \A g \in Handlers : JobOK(job'[g])
           /\ Same(h)
           /\ job'[h] = Idle \/ (job'[h].pc = "setPassword" /\ WritesStatus(job[h]))
           /\ \A g \in Handlers \ {h} : job'[g] = job[g]
  <1>. DEFINE j == job[h]
  <1>1. /\ j.pc # "idle"
        /\ UNCHANGED <<user, tokens, clock, accepted, historyVars>>
        /\ End(h) \/ (Goto(h, "setPassword") /\ j.pc = "checkPassword")
    BY DEF CheckPassword, Abort, At, Quiet
  <1>2. CASE End(h)
    BY <1>1, <1>2, EndType DEF Same
  <1>3. CASE Goto(h, "setPassword") /\ j.pc = "checkPassword"
    <2>1. JobOK(j) /\ j \in Job
      BY DEF TypeInv, JobOK
    <2>2. JobOK([j EXCEPT !.pc = "setPassword"])
      <3>1. [j EXCEPT !.pc = "setPassword"] \in Job
        BY <2>1 DEF Job, Steps
      <3>2. /\ j.op \notin {"signup", "changeMail", "bannedUser"}
            /\ j.op \notin Mailers \cup CodeOps
        BY <1>3, <2>1 DEF JobOK, Mailers
      <3>. QED
        BY <1>3, <2>1, <3>1, <3>2 DEF JobOK, EditOK, Job
    <2>3. /\ job' \in [Handlers -> Job] /\ \A g \in Handlers : JobOK(job'[g])
          /\ job'[h] = [j EXCEPT !.pc = "setPassword"]
          /\ \A g \in Handlers \ {h} : job'[g] = job[g]
      BY <1>3, <2>2, GotoType DEF Steps
    <2>. QED
      BY <1>1, <1>3, <2>1, <2>3 DEF Same, Job, WritesStatus
  <1>. QED
    BY <1>1, <1>2, <1>3

\* A password that is judged, and a call that fails, keep the types.
LEMMA CheckType ==
    ASSUME TypeInv, NEW h \in Handlers, CheckPassword(h) \/ Abort(h)
    PROVE  TypeInv'
  <1>1. /\ job[h].pc # "idle"
        /\ UNCHANGED <<user, tokens, clock, accepted, historyVars>>
        /\ job' \in [Handlers -> Job] /\ \A g \in Handlers : JobOK(job'[g])
        /\ Same(h) /\ job'[h].pc \in {"idle", "setPassword"}
        /\ \A g \in Handlers \ {h} : job'[g] = job[g]
    BY CheckFacts, IdleFacts
  <1>2. PlacesOK'
    BY <1>1, PlacesStay DEF Stored, TypeInv, TypeOK
  <1>3. MailsOK'
    BY <1>1, MailsStay, NoMailGrows DEF historyVars
  <1>. QED
    BY <1>1, <1>2, <1>3 DEF TypeInv, TypeOK, historyVars

\* A document has c as the code for p.
HoldsFor(doc, p, c) ==
    \E i \in DOMAIN doc.authTypes :
      doc.authTypes[i].authFor = p /\ doc.authTypes[i].value = c

\* Requests that are done with their first step.
LEMMA AnswerFacts ==
    ASSUME TypeInv, Answer
    PROVE  /\ UNCHANGED <<job, clock, mailed, reached, banned, crossed, stale,
                          relisted, named, shared, rivals>>
           /\ accepted' = accepted + 1 /\ accepted' \in Numbers
           /\ \/ /\ UNCHANGED user
                 /\ \E u \in Members :
                      /\ HasToken("FORGET_PASSWORD", u) /\ Stored(u)
                      /\ tokens' = tokens \cup {[kind |-> "CONFIRM_OTP_FORGET",
                                                 user |-> u, email |-> Nil]}
                      /\ \/ /\ UNCHANGED <<spent, reused>>
                            /\ \/ ~ Has(user[u], "FORGET_PASSWORD")
                               \/ HoldsFor(user[u], "FORGET_PASSWORD", Own)
                            /\ unproven' = unproven \cup {<<"confirmOTPPassword", u>>}
                         \/ /\ UNCHANGED unproven
                            /\ \E c \in Numbers :
                                 /\ HoldsFor(user[u], "FORGET_PASSWORD", c)
                                 /\ spent' = spent \cup {c}
                                 /\ reused' = reused \cup
                                      (({c} \cap spent) \X {"confirmOTPPassword"})
              \/ /\ UNCHANGED <<tokens, spent, reused, unproven>>
                 /\ \E u \in Members :
                      /\ Stored(u) /\ user'[u] \in Document
                      /\ user' = [user EXCEPT ![u] = user'[u]]
                      /\ user'[u].status = user[u].status
                      /\ user'[u].email = user[u].email
                      /\ user'[u].authTypes = user[u].authTypes
                      /\ user'[u].mobileNumber = user[u].mobileNumber
  <1>1. /\ UNCHANGED <<job, clock, mailed, reached, banned, crossed, stale,
                       relisted, named, shared, rivals>>
        /\ accepted < MaxRequests /\ accepted' = accepted + 1
    BY DEF Answer, ConfirmOTPPassword, ForgetPass, Accept
  <1>2. accepted' \in Numbers
    BY <1>1, NumberFacts DEF TypeInv, TypeOK, Numbers
  <1>3. CASE ConfirmOTPPassword /\ UNCHANGED user
    <2>. DEFINE p == "FORGET_PASSWORD"
    <2>1. PICK u \in Members, c \in Codes :
            /\ HasToken(p, u) /\ Passes(user[u], p, c)
            /\ tokens' = tokens \cup {[kind |-> "CONFIRM_OTP_FORGET",
                                       user |-> u, email |-> Nil]}
            /\ IF Position(user[u], p) # 0 /\ c > 0
                 THEN /\ spent' = spent \cup {c}
                      /\ reused' = reused \cup
                           (({c} \cap spent) \X {"confirmOTPPassword"})
                      /\ UNCHANGED unproven
                 ELSE /\ unproven' = unproven \cup {<<"confirmOTPPassword", u>>}
                      /\ UNCHANGED <<spent, reused>>
      BY <1>3 DEF ConfirmOTPPassword
    <2>2. Stored(u) /\ user[u] \in Document
      BY <2>1, TokenFacts, StoredFacts
    <2>3. c \in {Own} \cup 0 .. MaxRequests
      BY <1>1, NumberFacts DEF Codes, TypeInv, TypeOK
    <2>4. Position(user[u], p) # 0 => c # 0 /\ HoldsFor(user[u], p, c)
      BY <2>1, <2>2, PositionFacts DEF Passes, HoldsFor
    <2>5. Position(user[u], p) = 0 => ~ Has(user[u], p)
      BY <2>2, PositionFacts
    <2>6. /\ c \in Numbers \/ c = Own \/ c = 0
          /\ c > 0 <=> c \in Numbers
      BY <1>1, <2>3, NumberFacts DEF Own, Numbers, TypeInv, TypeOK
    <2>7. CASE Position(user[u], p) # 0
      BY <1>1, <1>2, <1>3, <2>1, <2>2, <2>4, <2>6, <2>7
    <2>8. CASE Position(user[u], p) = 0
      BY <1>1, <1>2, <1>3, <2>1, <2>2, <2>5, <2>6, <2>8
    <2>. QED
      BY <2>7, <2>8
  <1>4. CASE ForgetPass /\ UNCHANGED <<tokens, spent, reused, unproven>>
    <2>1. PICK u \in Members :
            /\ HasToken("CONFIRM_OTP_FORGET", u)
            /\ user' = [user EXCEPT ![u].password = accepted + 1]
      BY <1>4 DEF ForgetPass
    <2>2. Stored(u) /\ user[u] \in Document
      BY <2>1, TokenFacts, StoredFacts
    <2>. DEFINE d == [user[u] EXCEPT !.password = accepted + 1]
    <2>3. /\ d \in Document /\ d.status = user[u].status
          /\ d.email = user[u].email /\ d.authTypes = user[u].authTypes
          /\ d.mobileNumber = user[u].mobileNumber
      BY <1>1, <1>2, <2>2, NumberFacts DEF Document
    <2>4. user' = [user EXCEPT ![u] = d] /\ user'[u] = d
      BY <2>1 DEF TypeInv, TypeOK
    <2>. QED
      BY <1>1, <1>2, <1>4, <2>2, <2>3, <2>4
  <1>. QED
    BY <1>3, <1>4 DEF Answer

\* The requests of one step keep the types.
LEMMA AnswerType ==
    ASSUME TypeInv, Answer
    PROVE  TypeInv'
  <1>1. /\ UNCHANGED <<job, clock, mailed, reached, banned, crossed, stale,
                       relisted, named, shared, rivals>>
        /\ accepted' = accepted + 1 /\ accepted' \in Numbers
        /\ accepted \in Nat
    BY AnswerFacts, NumberFacts DEF TypeInv, TypeOK
  <1>2. /\ user' \in [Members -> Document \cup {Nil}]
        /\ \A u \in Members : (user'[u] = Nil) <=> (user[u] = Nil)
        /\ \A u \in Members : user[u] # Nil => user'[u].authTypes = user[u].authTypes
    BY AnswerFacts, NumberFacts DEF TypeInv, TypeOK, Stored
  <1>3. /\ tokens' \subseteq Token
        /\ \A t \in tokens' : t \in tokens \/
             (t.user \in Members /\ Stored(t.user) /\ t.kind # "CHANGE_EMAIL")
        /\ unproven' \subseteq (CodeOps \cup {"confirmOTPPassword"}) \X Members
        /\ spent' \subseteq Numbers
        /\ reused' \subseteq Numbers \X (CodeOps \cup {"confirmOTPPassword"})
    BY AnswerFacts DEF TypeInv, TypeOK, Token
  <1>4. PlacesOK'
    <2>1. \A t \in tokens' : user'[t.user] # Nil /\ (t.kind = "CHANGE_EMAIL" => t.email \in Emails)
      BY <1>2, <1>3 DEF TypeInv, TypeOK, Token, PlacesOK, Stored
    <2>2. \A h \in Handlers : job[h].pc # "idle" => job[h].user \in Members
      BY WorkFacts
    <2>3. \A h \in Handlers : job[h].pc # "idle" => job[h].no <= accepted + 1
      <3>1. \A h \in Handlers : job[h].no \in Nat
        BY NumberFacts DEF TypeInv, JobOK, Job
      <3>. QED
        BY <1>1, <3>1 DEF TypeInv, PlacesOK
    <2>. QED
      BY <1>1, <1>2, <2>1, <2>2, <2>3 DEF TypeInv, PlacesOK, Stored
  <1>5. MailsOK'
    <2>1. \A c \in Numbers : c > accepted' => c > accepted
      BY <1>1, NumberFacts
    <2>. QED
      BY <1>1, <1>2, <2>1 DEF TypeInv, MailsOK, CodesOf, Stored
  <1>. QED
    BY <1>1, <1>2, <1>3, <1>4, <1>5, NumberFacts DEF TypeInv, TypeOK

\* In the first states the members who have joined are Offline, with no codes.
LEMMA InitType == Init => TypeInv
  <1>. SUFFICES ASSUME Init PROVE TypeInv
    OBVIOUS
  <1>1. /\ job \in [Handlers -> Job] /\ \A h \in Handlers : job[h] = Idle
    BY IdleOK DEF Init, JobOK
  <1>2. \A u \in Members :
          \/ user[u] = Nil
          \/ user[u] \in Document /\ DOMAIN user[u].authTypes = {}
    <2>1. ASSUME NEW u \in Joined
          PROVE  user[u] \in Document /\ DOMAIN user[u].authTypes = {}
      <3>1. HomeEmail[u] \in Emails /\ HomeMobile[u] \in Mobiles /\ u \in Members
        BY UsersAssumption
      <3>. QED
        BY <3>1, NumberFacts DEF Init, Document, Statuses
    <2>. QED
      BY <2>1 DEF Init
  <1>3. user \in [Members -> Document \cup {Nil}]
    BY <1>2 DEF Init
  <1>4. TypeOK
    <2>1. reached \subseteq Members \X Emails
      BY UsersAssumption DEF Init
    <2>2. rivals \subseteq Members
      BY UsersAssumption DEF Init
    <2>. QED
      BY <1>1, <1>3, <2>1, <2>2, NumberFacts DEF Init, TypeOK
  <1>5. PlacesOK
    BY <1>1, IdleFacts DEF Init, PlacesOK
  <1>6. MailsOK
    BY <1>1, <1>2, IdleFacts DEF Init, MailsOK, CodesOf, Stored
  <1>. QED
    BY <1>1, <1>4, <1>5, <1>6, IdleOK DEF TypeInv

\* Every step keeps the types.
LEMMA StepType == TypeInv /\ [Next]_vars => TypeInv'
  <1>. SUFFICES ASSUME TypeInv, [Next]_vars PROVE TypeInv'
    OBVIOUS
  <1>1. ASSUME NEW h \in Handlers, Submit(h) \/ Advance(h) \/ Abort(h)
        PROVE  TypeInv'
    BY <1>1, SubmitType, FindType, CreateType, SaveType, WriteType, CheckType
       DEF Advance
  <1>2. CASE Answer
    BY <1>2, AnswerType
  <1>3. CASE Tick
    <2>1. clock' \in Nat
      BY <1>3 DEF Tick, TypeInv, TypeOK
    <2>. QED
      BY <1>3, <2>1 DEF Tick, historyVars, TypeInv, TypeOK, PlacesOK, MailsOK, Stored
  <1>4. CASE UNCHANGED vars
    BY <1>4 DEF vars, serviceVars, historyVars, TypeInv, TypeOK, PlacesOK, MailsOK,
                Stored
  <1>. QED
    BY <1>1, <1>2, <1>3, <1>4 DEF Next, Rest

\* The types hold in every behaviour.
LEMMA TypesHold == Spec => []TypeInv
  BY InitType, StepType, PTL DEF Spec

\* Documents, tokens, requests, codes and what is recorded of them have the
\* forms the code gives them, for any number of members and requests.
THEOREM UserTypes == Spec => []TypeOK
  <1>1. TypeInv => TypeOK
    BY DEF TypeInv
  <1>. QED
    BY <1>1, TypesHold, PTL

-----------------------------------------------------------------------------
(* Bans                                                                    *)

\* A request that writes the status of a banned member is one that had checked
\* it before the ban was saved, and the ban has noted it.
BanInv ==
    \A u \in banned \ (crossed \cup stale) :
      /\ Stored(u)
      /\ user[u].status = "Suspended"
      /\ \A h \in Handlers : job[h].user = u => ~ WritesStatus(job[h])

\* A step that bans nobody, and writes a status only where a request was
\* about to.
LEMMA BanStays ==
    ASSUME TypeInv, BanInv, NEW h \in Handlers,
           UNCHANGED <<banned, crossed>>, stale \subseteq stale',
           \A g \in Handlers \ {h} : job'[g] = job[g],
           job'[h].user \in Members /\ WritesStatus(job'[h]) =>
             /\ job'[h].user = job[h].user
             /\ WritesStatus(job[h]),
           \A u \in Members : Stored(u) =>
             \/ user'[u] # Nil /\ user'[u].status = user[u].status
             \/ u = job[h].user /\ WritesStatus(job[h])
             \/ u \in stale'
    PROVE  BanInv'
  <1>. SUFFICES ASSUME NEW u \in banned' \ (crossed' \cup stale')
                PROVE  /\ user'[u] # Nil
                       /\ user'[u].status = "Suspended"
                       /\ \A g \in Handlers : job'[g].user = u =>
                            ~ WritesStatus(job'[g])
    BY DEF BanInv, Stored
  <1>1. /\ u \in banned \ (crossed \cup stale) /\ u \in Members
        /\ u \notin stale'
    BY DEF TypeInv, TypeOK
  <1>2. /\ Stored(u) /\ user[u].status = "Suspended"
        /\ \A g \in Handlers : job[g].user = u => ~ WritesStatus(job[g])
    BY <1>1 DEF BanInv
  <1>3. user'[u] # Nil /\ user'[u].status = "Suspended"
    BY <1>1, <1>2
  <1>4. ASSUME NEW g \in Handlers, job'[g].user = u PROVE ~ WritesStatus(job'[g])
    BY <1>1, <1>2, <1>4
  <1>. QED
    BY <1>3, <1>4

\* A save: of the ban itself, of a request that the ban has noted, or of one that
\* writes no status.
LEMMA BanSave ==
    ASSUME TypeInv, BanInv, NEW h \in Handlers, Save(h)
    PROVE  BanInv'
  <1>. DEFINE j == job[h]
              u == j.user
              D == Patched(user[u], j.patch)
  <1>1. /\ j.pc = "save" /\ u \in Members /\ Stored(u) /\ D \in Document
        /\ D.status = IF j.patch.status = Nil THEN user[u].status
                                              ELSE j.patch.status
        /\ End(h) /\ UNCHANGED stale
    BY SaveFacts
  <1>2. job'[h] = Idle /\ \A g \in Handlers \ {h} : job'[g] = job[g]
    BY <1>1, EndType
  <1>3. /\ ~ WritesStatus(job'[h])
        /\ j.op = "bannedUser" => j.patch.status = "Suspended"
        /\ WritesStatus(j) <=> j.patch.status # Nil
    BY <1>1, <1>2, IdleFacts, EmptyBody DEF WritesStatus, TypeInv, JobOK
  <1>4. user' = user \/ (user' = [user EXCEPT ![u] = D] /\ D # Nil)
    BY <1>1, SaveFacts, NumberFacts
  <1>. HIDE DEF D
  <1>5. \A v \in Members : Stored(v) =>
          \/ user'[v] # Nil /\ user'[v].status = user[v].status
          \/ v = u /\ WritesStatus(j)
    BY <1>1, <1>3, <1>4 DEF TypeInv, TypeOK, Stored
  <1>6. CASE UNCHANGED <<banned, crossed>>
    BY <1>1, <1>2, <1>3, <1>5, <1>6, BanStays
  <1>7. CASE ~ UNCHANGED <<banned, crossed>>
    <2>1. /\ user' = [user EXCEPT ![u] = D] /\ Witness(h)
      BY <1>7, SaveFacts DEF historyVars, D
    <2>2. j.op = "bannedUser"
      BY <1>7, <2>1 DEF Witness
    <2>3. /\ banned' = banned \cup {u}
          /\ crossed' = IF \E g \in Handlers \ {h} :
                             job[g].user = u /\ WritesStatus(job[g])
                          THEN crossed \cup {u} ELSE crossed
      BY <2>1, <2>2 DEF Witness
    <2>4. ASSUME NEW v \in banned' \ (crossed' \cup stale')
          PROVE  /\ user'[v] # Nil
                 /\ user'[v].status = "Suspended"
                 /\ \A g \in Handlers : job'[g].user = v => ~ WritesStatus(job'[g])
      <3>1. CASE v = u
        <4>1. \A g \in Handlers \ {h} : job[g].user = u => ~ WritesStatus(job[g])
          BY <2>3, <2>4, <3>1
        <4>2. user'[u] # Nil /\ user'[u].status = "Suspended"
          <5>1. user'[u] = D
            BY <1>1, <2>1 DEF TypeInv, TypeOK
          <5>2. "Suspended" # Nil
            BY NumberFacts DEF Statuses
          <5>3. D # Nil
            BY <1>1, NumberFacts
          <5>4. j.patch.status = "Suspended"
            BY <1>3, <2>2
          <5>5. D.status = "Suspended"
            BY <1>1, <5>2, <5>4
          <5>. QED
            BY <5>1, <5>3, <5>5
        <4>. QED
          BY <1>2, <1>3, <3>1, <4>1, <4>2
      <3>2. CASE v # u
        <4>1. v \in banned \ (crossed \cup stale) /\ v \in Members
          BY <1>1, <2>3, <2>4, <3>2 DEF TypeInv, TypeOK
        <4>. QED
          BY <1>2, <1>3, <1>5, <3>2, <4>1 DEF BanInv
      <3>. QED
        BY <3>1, <3>2
    <2>. QED
      BY <2>4 DEF BanInv, Stored
  <1>. QED
    BY <1>6, <1>7

\* A new request that would write the status finds the member suspended.
LEMMA BanSubmit ==
    ASSUME TypeInv, BanInv, NEW h \in Handlers, Submit(h)
    PROVE  BanInv'
  <1>1. UNCHANGED <<user, banned, crossed, stale>>
    BY SubmitBegins
  <1>2. PICK j : Begun(h, j) /\ job' = [job EXCEPT ![h] = j]
    BY SubmitBegins DEF Begins
  <1>3. job'[h] = j /\ \A g \in Handlers \ {h} : job'[g] = job[g]
    BY <1>2, OneHandler DEF Begun
  <1>4. WritesStatus(j) => user[j.user].status # "Suspended"
    BY <1>2 DEF Begun
  <1>. QED
    BY <1>1, <1>3, <1>4 DEF BanInv, Stored

\* Every step keeps the bans.
LEMMA BanStep == TypeInv /\ BanInv /\ [Next]_vars => BanInv'
  <1>. SUFFICES ASSUME TypeInv, BanInv, [Next]_vars PROVE BanInv'
    OBVIOUS
  <1>1. ASSUME NEW h \in Handlers, FindMobile(h) \/ FindEmail(h)
        PROVE  BanInv'
    <2>1. /\ UNCHANGED <<user, banned, crossed, stale>>
          /\ job[h].pc \in {"findMobile", "findEmail"}
      BY <1>1, FindFacts
    <2>2. Same(h) /\ \A g \in Handlers \ {h} : job'[g] = job[g]
      BY <1>1, FindType
    <2>3. WritesStatus(job'[h]) => WritesStatus(job[h]) /\ job'[h].user = job[h].user
      <3>1. \/ job'[h] = Idle
            \/ job'[h].pc \in {"updateOne", "create", "save"}
        <4>1. job[h] \in Job /\ job \in [Handlers -> Job]
          BY DEF TypeInv, TypeOK
        <4>. QED
          BY <1>1, <4>1, FindFacts DEF End, Goto, Job
      <3>. QED
        BY <2>2, <3>1, IdleFacts DEF Same, WritesStatus
    <2>. QED
      BY <2>1, <2>2, <2>3, BanStays DEF Stored
  <1>2. ASSUME NEW h \in Handlers, Create(h) PROVE BanInv'
    <2>1. /\ End(h) /\ UNCHANGED <<banned, crossed, stale>>
          /\ job[h].user \in Members /\ ~ Stored(job[h].user)
      BY <1>2, CreateFacts
    <2>2. job'[h] = Idle /\ \A g \in Handlers \ {h} : job'[g] = job[g]
      BY <2>1, EndType
    <2>3. \A u \in Members : Stored(u) => user'[u] = user[u]
      BY <1>2, <2>1, CreateFacts DEF TypeInv, TypeOK
    <2>. QED
      BY <2>1, <2>2, <2>3, IdleFacts, BanStays DEF Stored
  <1>3. ASSUME NEW h \in Handlers, UpdateOne(h) \/ SetPassword(h) \/ WriteBack(h)
        PROVE  BanInv'
    <2>1. /\ End(h) /\ UNCHANGED <<banned, crossed>> /\ stale \subseteq stale'
          /\ job[h].user \in Members
      BY <1>3, WriteFacts
    <2>2. job'[h] = Idle /\ \A g \in Handlers \ {h} : job'[g] = job[g]
      BY <2>1, EndType
    <2>3. \A u \in Members : Stored(u) =>
            \/ user'[u] # Nil /\ user'[u].status = user[u].status
            \/ u = job[h].user /\ WritesStatus(job[h])
            \/ u \in stale'
      <3>1. \A u \in Members \ {job[h].user} : user'[u] = user[u]
        BY <1>3, <2>1, WriteFacts DEF TypeInv, TypeOK
      <3>2. \/ user'[job[h].user] # Nil
                 /\ user'[job[h].user].status = user[job[h].user].status
            \/ WritesStatus(job[h])
            \/ job[h].user \in stale'
        BY <1>3, WriteFacts, NumberFacts
      <3>. QED
        BY <3>1, <3>2 DEF Stored
    <2>. QED
      BY <2>1, <2>2, <2>3, IdleFacts, BanStays
  <1>4. ASSUME NEW h \in Handlers, CheckPassword(h) \/ Abort(h) PROVE BanInv'
    <2>1. /\ UNCHANGED <<user, banned, crossed, stale>> /\ Same(h)
          /\ job'[h] = Idle \/ WritesStatus(job[h])
          /\ \A g \in Handlers \ {h} : job'[g] = job[g]
      BY <1>4, CheckFacts DEF historyVars
    <2>. QED
      BY <2>1, IdleFacts, BanStays DEF Same, Stored
  <1>5. CASE Answer
    <2>1. UNCHANGED <<job, banned, crossed, stale>>
      BY <1>5, AnswerFacts
    <2>2. \A u \in Members : Stored(u) =>
            user'[u] # Nil /\ user'[u].status = user[u].status
      BY <1>5, AnswerFacts, NumberFacts DEF TypeInv, TypeOK, Stored
    <2>. QED
      BY <2>1, <2>2 DEF BanInv, Stored, TypeInv, TypeOK
  <1>6. CASE UNCHANGED vars \/ Tick
    BY <1>6 DEF vars, serviceVars, historyVars, Tick, BanInv, Stored
  <1>. QED
    BY <1>1, <1>2, <1>3, <1>4, <1>5, <1>6, BanSubmit, BanSave
       DEF Next, Rest, Advance

\* A ban lasts, whatever logins, logouts, changes of password, bodies of PATCH
\* /user and documents that are put back overlap with it, but for those that began
\* before it.
THEOREM BansLast == Spec => []BanLasts
  <1>1. Init => BanInv
    BY DEF Init, BanInv
  <1>2. BanInv => BanLasts
    BY DEF BanInv, BanLasts
  <1>. QED
    BY <1>1, <1>2, BanStep, TypesHold, PTL DEF Spec

-----------------------------------------------------------------------------
(* Addresses                                                               *)

\* The address is that with which u joined, one that u has put in by PATCH /user,
\* or one to which a code for it was mailed: m is what was mailed, n what was put in.
OwnBy(m, n, u, e) ==
    \/ u \in Joined /\ e = HomeEmail[u]
    \/ <<u, e>> \in n
    \/ \E c \in Numbers : /\ m[c] # Nil
                           /\ m[c].user = u /\ m[c].to = e
                           /\ m[c].for \in {"SIGNUP", "CHANGE_EMAIL"}

\* Documents, tokens of a change of address and requests hold the addresses of
\* the member they are about, once the lookup of the address is done.
AddressInv ==
    /\ \A u \in Members : Stored(u) => OwnBy(mailed, named, u, user[u].email)
    /\ \A t \in tokens : t.kind = "CHANGE_EMAIL" => OwnBy(mailed, named, t.user, t.email)
    /\ \A h \in Handlers :
         LET j == job[h]
         IN  /\ j.pc = "writeBack" => OwnBy(mailed, named, j.user, j.copy.email)
             /\ j.patch.email # Nil => OwnBy(mailed, named, j.user, j.patch.email)
             /\ j.pc = "create" \/ (j.pc = "save" /\ j.op = "changeMail") =>
                  OwnBy(mailed, named, j.user, j.email)

\* An address of a member stays one.
LEMMA OwnGrows ==
    ASSUME Grows, named \subseteq named'
    PROVE  \A u \in Members, e \in Emails :
             OwnBy(mailed, named, u, e) => OwnBy(mailed', named', u, e)
  BY DEF OwnBy, Grows

\* A step of a handler that is at work, and puts an address of its member into
\* whatever it changes.
LEMMA AddressStays ==
    ASSUME TypeInv, AddressInv, NEW h \in Handlers, Same(h), Grows,
           named \subseteq named',
           \A g \in Handlers \ {h} : job'[g] = job[g],
           \A u \in Members : user'[u] # Nil =>
             \/ Stored(u) /\ user'[u].email = user[u].email
             \/ OwnBy(mailed', named', u, user'[u].email),
           \A t \in tokens' : t.kind = "CHANGE_EMAIL" =>
             t \in tokens \/ OwnBy(mailed', named', t.user, t.email),
           job'[h].pc = "create" \/ (job'[h].pc = "save" /\ job'[h].op = "changeMail") =>
             OwnBy(mailed', named', job[h].user, job[h].email)
    PROVE  AddressInv'
  <1>1. \A u \in Members, e \in Emails :
          OwnBy(mailed, named, u, e) => OwnBy(mailed', named', u, e)
    BY OwnGrows
  <1>2. \A u \in Members : user'[u] # Nil => OwnBy(mailed', named', u, user'[u].email)
    BY <1>1, StoredFacts DEF AddressInv
  <1>3. \A t \in tokens' : t.kind = "CHANGE_EMAIL" => OwnBy(mailed', named', t.user, t.email)
    <2>1. \A t \in tokens : t.kind = "CHANGE_EMAIL" =>
            t.user \in Members /\ t.email \in Emails
      BY DEF TypeInv, TypeOK, PlacesOK, Token
    <2>. QED
      BY <1>1, <2>1 DEF AddressInv
  <1>4. ASSUME NEW g \in Handlers, job[g].pc # "idle"
        PROVE  LET j == job[g]
               IN  /\ j.pc = "writeBack" => OwnBy(mailed', named', j.user, j.copy.email)
                   /\ j.patch.email # Nil => OwnBy(mailed', named', j.user, j.patch.email)
                   /\ j.pc = "create" \/ (j.pc = "save" /\ j.op = "changeMail") =>
                        OwnBy(mailed', named', j.user, j.email)
    <2>1. /\ JobOK(job[g]) /\ job[g] \in Job /\ job[g].user \in Members
          /\ job[g].patch \in Patch
      BY <1>4, WorkFacts DEF Job
    <2>2. /\ job[g].pc = "writeBack" => job[g].copy.email \in Emails
          /\ job[g].patch.email # Nil => job[g].patch.email \in Emails
          /\ job[g].pc = "create" \/ (job[g].pc = "save" /\ job[g].op = "changeMail") =>
               job[g].email \in Emails
      BY <2>1 DEF JobOK, Document, Patch
    <2>. QED
      BY <1>1, <2>1, <2>2 DEF AddressInv
  <1>5. ASSUME NEW g \in Handlers
        PROVE  LET j == job'[g]
               IN  /\ j.pc = "writeBack" => OwnBy(mailed', named', j.user, j.copy.email)
                   /\ j.patch.email # Nil => OwnBy(mailed', named', j.user, j.patch.email)
                   /\ j.pc = "create" \/ (j.pc = "save" /\ j.op = "changeMail") =>
                        OwnBy(mailed', named', j.user, j.email)
    <2>1. CASE job'[g] = Idle
      BY <2>1, IdleFacts
    <2>2. CASE g = h /\ job'[h] # Idle
      BY <1>4, <2>2 DEF Same
    <2>3. CASE g # h /\ job'[g] # Idle
      <3>1. job'[g] = job[g] /\ job[g].pc # "idle"
        BY <2>3 DEF TypeInv, JobOK
      <3>. QED
        BY <1>4, <3>1
    <2>. QED
      BY <2>1, <2>2, <2>3
  <1>. QED
    BY <1>2, <1>3, <1>5 DEF AddressInv, Stored

\* A new request takes its addresses from a document or a token.
LEMMA AddressSubmit ==
    ASSUME TypeInv, AddressInv, NEW h \in Handlers, Submit(h)
    PROVE  AddressInv'
  <1>1. /\ UNCHANGED <<user, tokens, named>>
        /\ accepted' = accepted + 1 /\ accepted' \in Numbers
    BY SubmitBegins
  <1>2. PICK j : Begun(h, j) /\ Reads(j) /\ Mails(j) /\ job' = [job EXCEPT ![h] = j]
    BY SubmitBegins DEF Begins
  <1>3. job'[h] = j /\ \A g \in Handlers \ {h} : job'[g] = job[g]
    BY <1>2, OneHandler DEF Begun
  <1>4. Grows /\ j.user \in Members
    BY <1>1, <1>2, SubmitFacts
  <1>5. \A u \in Members, e \in Emails :
          OwnBy(mailed, named, u, e) => OwnBy(mailed', named', u, e)
    BY <1>1, <1>4, OwnGrows
  <1>6. \A u \in Members : Stored(u) => OwnBy(mailed', named', u, user[u].email)
    BY <1>5, StoredFacts DEF AddressInv
  <1>7. \A t \in tokens : t.kind = "CHANGE_EMAIL" => OwnBy(mailed', named', t.user, t.email)
    <2>1. \A t \in tokens : t.kind = "CHANGE_EMAIL" =>
            t.user \in Members /\ t.email \in Emails
      BY DEF TypeInv, TypeOK, PlacesOK, Token
    <2>. QED
      BY <1>5, <2>1 DEF AddressInv
  <1>8. /\ j.pc = "writeBack" => OwnBy(mailed', named', j.user, j.copy.email)
        /\ j.patch.email # Nil => OwnBy(mailed', named', j.user, j.patch.email)
        /\ ~ (j.pc = "create" \/ (j.pc = "save" /\ j.op = "changeMail"))
    <2>1. j.pc = "writeBack" => j.copy = user[j.user] /\ Stored(j.user)
      BY <1>2 DEF Begun, JobOK
    <2>2. j.patch.email # Nil => OwnBy(mailed', named', j.user, j.patch.email)
      <3>. DEFINE t == [kind |-> "CHANGE_EMAIL", user |-> j.user, email |-> j.patch.email]
      <3>1. j.patch.email # Nil => t \in tokens
        BY <1>2 DEF Begun
      <3>2. t.kind = "CHANGE_EMAIL" /\ t.user = j.user /\ t.email = j.patch.email
        OBVIOUS
      <3>. HIDE DEF t
      <3>. QED
        BY <1>7, <3>1, <3>2
    <2>. QED
      BY <1>2, <1>4, <1>6, <2>1, <2>2 DEF Begun
  <1>9. ASSUME NEW g \in Handlers \ {h}
        PROVE  LET i == job[g]
               IN  /\ i.pc = "writeBack" => OwnBy(mailed', named', i.user, i.copy.email)
                   /\ i.patch.email # Nil => OwnBy(mailed', named', i.user, i.patch.email)
                   /\ i.pc = "create" \/ (i.pc = "save" /\ i.op = "changeMail") =>
                        OwnBy(mailed', named', i.user, i.email)
    <2>1. CASE job[g].pc = "idle"
      <3>1. job[g] = Idle
        BY <2>1 DEF TypeInv, JobOK
      <3>. QED
        BY <3>1, IdleFacts
    <2>2. CASE job[g].pc # "idle"
      <3>1. /\ JobOK(job[g]) /\ job[g] \in Job /\ job[g].user \in Members
            /\ job[g].patch \in Patch
        BY <2>2, WorkFacts DEF Job
      <3>2. /\ job[g].pc = "writeBack" => job[g].copy.email \in Emails
            /\ job[g].patch.email # Nil => job[g].patch.email \in Emails
            /\ job[g].pc = "create" \/ (job[g].pc = "save" /\ job[g].op = "changeMail") =>
                 job[g].email \in Emails
        BY <3>1 DEF JobOK, Document, Patch
      <3>. QED
        BY <1>5, <3>1, <3>2 DEF AddressInv
    <2>. QED
      BY <2>1, <2>2
  <1>. QED
    BY <1>1, <1>3, <1>6, <1>7, <1>8, <1>9 DEF AddressInv, Stored

\* A save writes the address of its patch, and hands out a token with the new one.
LEMMA AddressSave ==
    ASSUME TypeInv, AddressInv, NEW h \in Handlers, Save(h)
    PROVE  AddressInv'
  <1>. DEFINE j == job[h]
              u == j.user
              D == Patched(user[u], j.patch)
  <1>1. /\ j.pc = "save" /\ u \in Members /\ Stored(u)
        /\ D.email = IF j.patch.email = Nil THEN user[u].email ELSE j.patch.email
        /\ End(h) /\ UNCHANGED <<mailed, named>>
    BY SaveFacts
  <1>2. \/ UNCHANGED <<user, tokens>>
        \/ user' = [user EXCEPT ![u] = D] /\ tokens' = tokens \cup Granted(j)
    BY SaveFacts
  <1>. HIDE DEF D
  <1>3. /\ job'[h] = Idle /\ \A g \in Handlers \ {h} : job'[g] = job[g]
        /\ Same(h) /\ Grows /\ JobOK(j)
    BY <1>1, EndType, NoMailGrows DEF Same, TypeInv
  <1>4. \A v \in Members : user'[v] # Nil =>
          \/ Stored(v) /\ user'[v].email = user[v].email
          \/ OwnBy(mailed', named', v, user'[v].email)
    <2>1. \A v \in Members : user'[v] = user[v] \/ (v = u /\ user'[v] = D)
      BY <1>1, <1>2 DEF TypeInv, TypeOK
    <2>2. D.email = user[u].email \/ OwnBy(mailed', named', u, D.email)
      BY <1>1 DEF AddressInv
    <2>. QED
      BY <1>1, <2>1, <2>2 DEF Stored
  <1>5. \A t \in tokens' : t.kind = "CHANGE_EMAIL" =>
          t \in tokens \/ OwnBy(mailed', named', t.user, t.email)
    <2>1. \A t \in Granted(j) : t.kind = "CHANGE_EMAIL" =>
            j.op = "changeMail" /\ t.user = u /\ t.email = j.email
      BY <1>1, <1>3, GrantedFacts
    <2>. QED
      BY <1>1, <1>2, <2>1 DEF AddressInv
  <1>. QED
    BY <1>1, <1>3, <1>4, <1>5, IdleFacts, AddressStays

\* Every step keeps the addresses.
LEMMA AddressStep == TypeInv /\ AddressInv /\ [Next]_vars => AddressInv'
  <1>. SUFFICES ASSUME TypeInv, AddressInv, [Next]_vars PROVE AddressInv'
    OBVIOUS
  <1>1. ASSUME NEW h \in Handlers, FindMobile(h) \/ FindEmail(h)
        PROVE  AddressInv'
    <2>1. /\ UNCHANGED <<user, tokens, named>>
          /\ job[h].pc \in {"findMobile", "findEmail"}
      BY <1>1, FindFacts
    <2>2. Grows /\ Same(h) /\ \A g \in Handlers \ {h} : job'[g] = job[g]
      BY <1>1, FindType
    <2>3. job'[h].pc = "create" \/ job'[h].pc = "save" =>
            OwnBy(mailed', named', job[h].user, job[h].email)
      <3>1. /\ job[h] \in Job /\ job \in [Handlers -> Job]
            /\ job[h].user \in Members /\ job[h].no \in Numbers
            /\ mailed[job[h].no] = Nil
        BY <2>1, WorkFacts DEF TypeInv, TypeOK, MailsOK
      <3>2. \/ job'[h] = Idle
            \/ job'[h].pc = "updateOne"
            \/ /\ job[h].email \in Emails
               /\ \E p \in {"SIGNUP", "CHANGE_EMAIL"} :
                    Mail(job[h].no, job[h].user, p, job[h].email)
        BY <1>1, <3>1, FindFacts DEF End, Goto, Job
      <3>3. ASSUME job[h].email \in Emails, NEW p \in {"SIGNUP", "CHANGE_EMAIL"},
                   Mail(job[h].no, job[h].user, p, job[h].email)
            PROVE  OwnBy(mailed', named', job[h].user, job[h].email)
        <4>1. mailed'[job[h].no] = [user |-> job[h].user, for |-> p, to |-> job[h].email]
          BY <3>1, <3>3, MailGrows DEF Purposes
        <4>2. mailed'[job[h].no] # Nil
          BY <3>1, <3>3, <4>1, NumberFacts DEF Purposes
        <4>. QED
          BY <3>1, <4>1, <4>2 DEF OwnBy
      <3>. QED
        BY <3>2, <3>3, IdleFacts
    <2>. QED
      BY <2>1, <2>2, <2>3, AddressStays DEF Stored
  <1>2. ASSUME NEW h \in Handlers, Create(h) PROVE AddressInv'
    <2>1. /\ End(h) /\ UNCHANGED <<mailed, named>> /\ job[h].pc = "create"
          /\ job[h].user \in Members
      BY <1>2, CreateFacts
    <2>2. /\ job'[h] = Idle /\ \A g \in Handlers \ {h} : job'[g] = job[g]
          /\ Same(h) /\ Grows
      BY <2>1, EndType, NoMailGrows DEF Same
    <2>3. \A u \in Members : user'[u] # Nil =>
            \/ Stored(u) /\ user'[u].email = user[u].email
            \/ OwnBy(mailed', named', u, user'[u].email)
      <3>1. \A u \in Members :
              user'[u] = user[u] \/ (u = job[h].user /\ user'[u].email = job[h].email)
        BY <1>2, <2>1, CreateFacts DEF TypeInv, TypeOK
      <3>. QED
        BY <2>1, <3>1 DEF AddressInv, Stored
    <2>4. \A t \in tokens' : t.kind = "CHANGE_EMAIL" => t \in tokens
      BY <1>2, CreateFacts
    <2>. QED
      BY <2>1, <2>2, <2>3, <2>4, IdleFacts, AddressStays
  <1>3. ASSUME NEW h \in Handlers, UpdateOne(h) \/ SetPassword(h) \/ WriteBack(h)
        PROVE  AddressInv'
    <2>1. /\ End(h) /\ UNCHANGED <<tokens, mailed>> /\ named \subseteq named'
          /\ job[h].user \in Members /\ Stored(job[h].user)
      BY <1>3, WriteFacts
    <2>2. /\ job'[h] = Idle /\ \A g \in Handlers \ {h} : job'[g] = job[g]
          /\ Same(h) /\ Grows
      BY <2>1, EndType, NoMailGrows DEF Same
    <2>3. \A u \in Members : user'[u] # Nil =>
            \/ Stored(u) /\ user'[u].email = user[u].email
            \/ OwnBy(mailed', named', u, user'[u].email)
      <3>1. \A u \in Members \ {job[h].user} : user'[u] = user[u]
        BY <1>3, <2>1, WriteFacts DEF TypeInv, TypeOK
      <3>2. \/ user'[job[h].user].email = user[job[h].user].email
            \/ <<job[h].user, user'[job[h].user].email>> \in named'
            \/ /\ job[h].pc = "writeBack" /\ job[h].copy \in Document
               /\ user'[job[h].user].email = job[h].copy.email
        BY <1>3, WriteFacts
      <3>3. job[h].pc = "writeBack" /\ job[h].copy \in Document =>
              OwnBy(mailed', named', job[h].user, job[h].copy.email)
        BY <2>1, <2>2, OwnGrows DEF AddressInv, Document
      <3>. QED
        BY <2>1, <3>1, <3>2, <3>3 DEF OwnBy, Stored
    <2>. QED
      BY <2>1, <2>2, <2>3, IdleFacts, AddressStays
  <1>4. ASSUME NEW h \in Handlers, CheckPassword(h) \/ Abort(h) PROVE AddressInv'
    <2>1. /\ UNCHANGED <<user, tokens, mailed, named>> /\ Same(h)
          /\ job'[h] = Idle \/ job'[h].pc = "setPassword"
          /\ \A g \in Handlers \ {h} : job'[g] = job[g]
      BY <1>4, CheckFacts DEF historyVars
    <2>. QED
      BY <2>1, IdleFacts, NoMailGrows, AddressStays DEF Stored
  <1>5. CASE Answer
    <2>1. UNCHANGED <<job, mailed, named>>
      BY <1>5, AnswerFacts
    <2>2. \A u \in Members : user'[u] # Nil =>
            Stored(u) /\ user'[u].email = user[u].email
      BY <1>5, AnswerFacts DEF TypeInv, TypeOK, Stored
    <2>3. \A t \in tokens' : t.kind = "CHANGE_EMAIL" => t \in tokens
      BY <1>5, AnswerFacts
    <2>. QED
      BY <2>1, <2>2, <2>3 DEF AddressInv, Stored
  <1>6. CASE UNCHANGED vars \/ Tick
    BY <1>6 DEF vars, serviceVars, historyVars, Tick, AddressInv, Stored
  <1>. QED
    BY <1>1, <1>2, <1>3, <1>4, <1>5, <1>6, AddressSubmit, AddressSave
       DEF Next, Rest, Advance

\* The address in a document whose email is confirmed is one to which a code for it
\* was mailed, or one that its owner has put in by PATCH /user, after any changes of
\* address, newcomers who take an address, and documents that other services put
\* back.
THEOREM ConfirmedIsMailed == Spec => []ConfirmedWasMailed
  <1>1. Init => AddressInv
    BY IdleFacts, NumberFacts DEF Init, AddressInv, OwnBy, Stored
  <1>2. AddressInv => ConfirmedWasMailed
    BY DEF AddressInv, ConfirmedWasMailed, OwnBy
  <1>. QED
    BY <1>1, <1>2, AddressStep, TypesHold, PTL DEF Spec

-----------------------------------------------------------------------------
(* The elements that codes are compared with                               *)

\* A document with no code that its member has put in.
NoOwn(doc) == \A i \in DOMAIN doc.authTypes : doc.authTypes[i].value # Own

\* Only those who have put an authTypes of their own in their document have codes
\* in it, or enter codes, that they were not mailed.
OwnInv ==
    /\ \A u \in Members \ relisted : Stored(u) => NoOwn(user[u])
    /\ \A h \in Handlers : job[h].user \in Members \ relisted =>
         /\ job[h].pc = "writeBack" => NoOwn(job[h].copy)
         /\ job[h].patch.edit.kind = "clear" => job[h].code \in Numbers

\* A code that is not the member's own was mailed.
LEMMA CodeMailed ==
    ASSUME NEW j, JobOK(j), j.patch.edit.kind = "clear", j.code # Own
    PROVE  j.code \in Numbers
  BY NumberFacts DEF JobOK, EditOK, Job, Numbers

\* A step of a handler that is at work, and puts no such codes in.
LEMMA OwnStays ==
    ASSUME TypeInv, OwnInv, relisted \subseteq relisted',
           NEW h \in Handlers, Same(h),
           \A g \in Handlers \ {h} : job'[g] = job[g],
           \A u \in Members \ relisted' : user'[u] # Nil =>
             \/ Stored(u) /\ user'[u].authTypes = user[u].authTypes
             \/ NoOwn(user'[u])
    PROVE  OwnInv'
  <1>1. \A u \in Members \ relisted' : user'[u] # Nil => NoOwn(user'[u])
    BY DEF OwnInv, NoOwn
  <1>2. ASSUME NEW g \in Handlers, job'[g].user \in Members \ relisted'
        PROVE  /\ job'[g].pc = "writeBack" => NoOwn(job'[g].copy)
               /\ job'[g].patch.edit.kind = "clear" => job'[g].code \in Numbers
    <2>1. CASE g = h
      BY <1>2, <2>1, IdleFacts DEF Same, OwnInv
    <2>2. CASE g # h
      BY <1>2, <2>2 DEF OwnInv
    <2>. QED
      BY <2>1, <2>2
  <1>. QED
    BY <1>1, <1>2 DEF OwnInv, Stored

\* A new request has read what is stored.
LEMMA OwnSubmit ==
    ASSUME TypeInv, OwnInv, NEW h \in Handlers, Submit(h)
    PROVE  OwnInv'
  <1>1. UNCHANGED <<user, relisted>>
    BY SubmitBegins
  <1>2. PICK j : Begun(h, j) /\ Reads(j) /\ job' = [job EXCEPT ![h] = j]
    BY SubmitBegins DEF Begins
  <1>3. job'[h] = j /\ \A g \in Handlers \ {h} : job'[g] = job[g]
    BY <1>2, OneHandler DEF Begun
  <1>4. ASSUME j.user \in Members \ relisted
        PROVE  /\ j.pc = "writeBack" => NoOwn(j.copy)
               /\ j.patch.edit.kind = "clear" => j.code \in Numbers
    <2>1. j.op # "signup" => NoOwn(user[j.user])
      BY <1>2, <1>4 DEF OwnInv, Begun
    <2>2. /\ j.pc = "writeBack" => j.op # "signup"
          /\ j.patch.edit.kind = "clear" => j.op # "signup"
      BY <1>2 DEF Begun, JobOK, EditOK, CodeOps
    <2>3. j.patch.edit.kind = "clear" => j.code # Own
      BY <1>2, <2>1, <2>2 DEF Reads, NoOwn
    <2>. QED
      BY <1>2, <2>1, <2>2, <2>3, CodeMailed DEF Begun
  <1>. QED
    BY <1>1, <1>3, <1>4 DEF OwnInv, Stored

\* Every step keeps such codes away.
LEMMA OwnStep == TypeInv /\ OwnInv /\ [Next]_vars => OwnInv'
  <1>. SUFFICES ASSUME TypeInv, OwnInv, [Next]_vars PROVE OwnInv'
    OBVIOUS
  <1>1. ASSUME NEW h \in Handlers, FindMobile(h) \/ FindEmail(h)
        PROVE  OwnInv'
    <2>1. UNCHANGED <<user, relisted>>
      BY <1>1, FindFacts
    <2>2. Same(h) /\ \A g \in Handlers \ {h} : job'[g] = job[g]
      BY <1>1, FindType
    <2>. QED
      BY <2>1, <2>2, OwnStays DEF Stored
  <1>2. ASSUME NEW h \in Handlers, Create(h) PROVE OwnInv'
    <2>. DEFINE j == job[h]
    <2>1. /\ End(h) /\ UNCHANGED relisted /\ j.pc = "create" /\ j.user \in Members
      BY <1>2, CreateFacts
    <2>2. Same(h) /\ \A g \in Handlers \ {h} : job'[g] = job[g]
      BY <2>1, EndType DEF Same
    <2>3. \A u \in Members : user'[u] = user[u] \/ (u = j.user /\ NoOwn(user'[u]))
      <3>1. j.no # Own
        BY <2>1, WorkFacts, NumberFacts
      <3>. QED
        BY <1>2, <2>1, <3>1, CreateFacts DEF NoOwn, TypeInv, TypeOK
    <2>. QED
      BY <2>1, <2>2, <2>3, OwnStays DEF Stored
  <1>3. ASSUME NEW h \in Handlers, Save(h) PROVE OwnInv'
    <2>. DEFINE j == job[h]
                u == j.user
                e == j.patch.edit
                D == Patched(user[u], j.patch)
    <2>1. /\ j.pc = "save" /\ u \in Members /\ Stored(u) /\ user[u] \in Document
          /\ D.authTypes = Edited(user[u].authTypes, e)
          /\ End(h) /\ UNCHANGED relisted
          /\ user' = user \/ user' = [user EXCEPT ![u] = D]
      BY <1>3, SaveFacts
    <2>. HIDE DEF D
    <2>2. Same(h) /\ JobOK(j) /\ \A g \in Handlers \ {h} : job'[g] = job[g]
      BY <2>1, EndType DEF Same, TypeInv
    <2>3. /\ e \in Edit /\ (e.kind = "set" => e.at # 0)
          /\ e.kind \in {"push", "set"} => e.item.value # Own
          /\ user[u].authTypes \in Seq(Item)
      <3>1. j.no # Own
        BY <2>1, WorkFacts, NumberFacts
      <3>. QED
        BY <2>1, <2>2, <3>1, StoredFacts DEF JobOK, EditOK, Job, Patch
    <2>. HIDE DEF e
    <2>4. NoOwn(user[u]) => NoOwn(D)
      <3>. DEFINE items == user[u].authTypes
      <3>1. \A i \in DOMAIN Edited(items, e) :
              \/ Edited(items, e)[i].value = 0
              \/ i \in DOMAIN items /\ Edited(items, e)[i].value = items[i].value
              \/ /\ e.kind \in {"push", "set"}
                 /\ Edited(items, e)[i].value = e.item.value
        BY <2>3, EditedFacts
      <3>. QED
        BY <2>1, <2>3, <3>1, NumberFacts DEF NoOwn
    <2>5. \A v \in Members : user'[v] = user[v] \/ (v = u /\ user'[v] = D)
      BY <2>1 DEF TypeInv, TypeOK
    <2>6. \A v \in Members \ relisted' : user'[v] # Nil =>
            \/ Stored(v) /\ user'[v].authTypes = user[v].authTypes
            \/ NoOwn(user'[v])
      BY <2>1, <2>4, <2>5 DEF OwnInv, Stored
    <2>. QED
      BY <2>1, <2>2, <2>6, OwnStays
  <1>4. ASSUME NEW h \in Handlers, UpdateOne(h) \/ SetPassword(h) \/ WriteBack(h)
        PROVE  OwnInv'
    <2>. DEFINE u == job[h].user
                D == user'[u]
    <2>1. /\ End(h) /\ u \in Members /\ Stored(u) /\ relisted \subseteq relisted'
          /\ user' = [user EXCEPT ![u] = D]
          /\ \/ D.authTypes = user[u].authTypes
             \/ u \in relisted'
             \/ job[h].pc = "writeBack" /\ Within(D, job[h].copy)
      BY <1>4, WriteFacts
    <2>2. Same(h) /\ \A g \in Handlers \ {h} : job'[g] = job[g]
      BY <2>1, EndType DEF Same
    <2>3. ASSUME u \notin relisted', job[h].pc = "writeBack", Within(D, job[h].copy)
          PROVE  NoOwn(D)
      <3>1. NoOwn(job[h].copy)
        BY <2>1, <2>3 DEF OwnInv
      <3>. HIDE DEF D
      <3>. QED
        BY <2>3, <3>1, NumberFacts DEF NoOwn, Within
    <2>4. \A v \in Members \ {u} : user'[v] = user[v]
      BY <2>1 DEF TypeInv, TypeOK
    <2>5. \A v \in Members \ relisted' : user'[v] # Nil =>
            \/ Stored(v) /\ user'[v].authTypes = user[v].authTypes
            \/ NoOwn(user'[v])
      BY <2>1, <2>3, <2>4 DEF Stored
    <2>. HIDE DEF D
    <2>. QED
      BY <2>1, <2>2, <2>5, OwnStays
  <1>5. ASSUME NEW h \in Handlers, CheckPassword(h) \/ Abort(h) PROVE OwnInv'
    <2>1. /\ UNCHANGED <<user, relisted>> /\ Same(h)
          /\ \A g \in Handlers \ {h} : job'[g] = job[g]
      BY <1>5, CheckFacts DEF historyVars
    <2>. QED
      BY <2>1, OwnStays DEF Stored
  <1>6. CASE Answer
    <2>1. UNCHANGED <<job, relisted>>
      BY <1>6, AnswerFacts
    <2>2. \A u \in Members : user'[u] # Nil =>
            Stored(u) /\ user'[u].authTypes = user[u].authTypes
      BY <1>6, AnswerFacts DEF TypeInv, TypeOK, Stored
    <2>. QED
      BY <2>1, <2>2 DEF OwnInv, NoOwn, Stored
  <1>7. CASE UNCHANGED vars \/ Tick
    BY <1>7 DEF vars, serviceVars, historyVars, Tick, OwnInv, Stored
  <1>. QED
    BY <1>1, <1>2, <1>3, <1>4, <1>5, <1>6, <1>7, OwnSubmit
       DEF Next, Rest, Advance

\* An older document that is put back (s holds those members) may lack the
\* element for p, unless it is for a signup or a login: whoever made the request
\* that kept the document had one of these already.  Members who have put an
\* authTypes of their own in (l holds those) may have no elements at all.
Lasting(s, l, u, p) ==
    u \notin l /\ (u \notin s \/ p \in {"SIGNUP", "PRE_LOGIN"})

\* Whoever has a token with which a code may be entered has the element that the
\* code is compared with.  A login token stands for the element of its login.
TokenElements ==
    \A t \in tokens :
      /\ t.kind \in Purposes /\ Lasting(stale, relisted, t.user, t.kind) =>
           Has(user[t.user], t.kind)
      /\ t.kind = "LOGIN" /\ t.user \notin relisted =>
           Has(user[t.user], "PRE_LOGIN")

\* What handlers hold of them.
HeldElements(j) ==
    LET p == Purpose(j.op)
    IN  /\ j.pc = "writeBack" /\ j.user \notin relisted =>
             /\ Has(j.copy, "PRE_LOGIN")
             /\ HasToken("SIGNUP", j.user) => Has(j.copy, "SIGNUP")
        /\ /\ j.op \in Mailers \ {"resendOTP"}
           /\ j.patch.edit.kind = "set"
           /\ Lasting(stale, relisted, j.user, p)
           => Has(user[j.user], p)
        /\ j.op \in CodeOps => HasToken(p, j.user)
        /\ j.op \in CodeOps /\ Lasting(stale, relisted, j.user, p) =>
             j.patch.edit.kind = "clear"

ElementInv ==
    /\ OwnInv
    /\ TokenElements
    /\ \A h \in Handlers : HeldElements(job[h])
    /\ LoginNeedsCode

\* The elements of the documents stay, but for those that an older document
\* lacks.
Keeps ==
    \A u \in Members, p \in Purposes :
      /\ Stored(u) /\ Has(user[u], p) /\ Lasting(stale', relisted', u, p)
      /\ p = "SIGNUP" => HasToken(p, u)
      => Has(user'[u], p)

\* What the codes of requests are for.
LEMMA PurposeFacts ==
    /\ \A op \in Mailers \ {"resendOTP"} :
         Purpose(op) \in Purposes \ {"SIGNUP"}
    /\ \A op \in CodeOps : Purpose(op) \in Purposes
    /\ Purpose("login") = "PRE_LOGIN"
    /\ \A op \in CodeOps : op # "confirmUpdateMail" =>
         Purpose(op) \in {"SIGNUP", "PRE_LOGIN"}
  BY DEF Mailers, CodeOps, Purposes, Purpose

\* A step that keeps the elements, hands out tokens to those who have the
\* element, and leaves what handlers have read alone.
LEMMA ElementsStay ==
    ASSUME TypeInv, ElementInv, OwnInv', Keeps, stale \subseteq stale', relisted \subseteq relisted',
           tokens \subseteq tokens',
           NEW h \in Handlers, Same(h),
           \A g \in Handlers \ {h} : job'[g] = job[g],
           \A t \in tokens' :
             \/ t \in tokens
             \/ /\ t.kind \in Purposes /\ Lasting(stale', relisted', t.user, t.kind) =>
                     Has(user'[t.user], t.kind)
                /\ t.kind = "LOGIN" /\ t.user \notin relisted' =>
                     Has(user'[t.user], "PRE_LOGIN")
                /\ t.kind = "SIGNUP" => ~ Stored(t.user),
           \A x \in unproven' :
             \/ x \in unproven
             \/ x[2] \in relisted'
             \/ /\ x[1] \in {"confirmUpdateMail", "confirmOTPPassword"}
                /\ x[2] \in stale'
    PROVE  ElementInv'
  <1>1. \A u, p : Lasting(stale', relisted', u, p) => Lasting(stale, relisted, u, p)
    BY DEF Lasting
  <1>2. \A p, u : HasToken(p, u) => \E t \in tokens' : t.kind = p /\ t.user = u
    BY DEF HasToken
  <1>3. ASSUME NEW t \in tokens'
        PROVE  /\ t.kind \in Purposes /\ Lasting(stale', relisted', t.user, t.kind) =>
                    Has(user'[t.user], t.kind)
               /\ t.kind = "LOGIN" /\ t.user \notin relisted' =>
                    Has(user'[t.user], "PRE_LOGIN")
    <2>1. CASE t \in tokens
      <3>1. t.user \in Members /\ Stored(t.user) /\ HasToken(t.kind, t.user)
        BY <2>1 DEF TypeInv, TypeOK, PlacesOK, Token, HasToken
      <3>2. /\ t.user \notin relisted' => Lasting(stale', relisted', t.user, "PRE_LOGIN")
            /\ "PRE_LOGIN" \in Purposes
        BY DEF Lasting, Purposes
      <3>. QED
        BY <1>1, <2>1, <3>1, <3>2 DEF ElementInv, TokenElements, Keeps
    <2>. QED
      BY <2>1
  <1>4. ASSUME NEW g \in Handlers, job[g].pc # "idle"
        PROVE  LET j == job[g]
                   p == Purpose(j.op)
               IN  /\ j.pc = "writeBack" /\ j.user \notin relisted' =>
                        /\ Has(j.copy, "PRE_LOGIN")
                        /\ (\E t \in tokens' : t.kind = "SIGNUP" /\ t.user = j.user) =>
                             Has(j.copy, "SIGNUP")
                   /\ /\ j.op \in Mailers \ {"resendOTP"}
                      /\ j.patch.edit.kind = "set"
                      /\ Lasting(stale', relisted', j.user, p)
                      => Has(user'[j.user], p)
                   /\ j.op \in CodeOps =>
                        \E t \in tokens' : t.kind = p /\ t.user = j.user
                   /\ j.op \in CodeOps /\ Lasting(stale', relisted', j.user, p) =>
                        j.patch.edit.kind = "clear"
    <2>. DEFINE j == job[g]
                p == Purpose(j.op)
    <2>1. /\ j.user \in Members /\ HeldElements(j)
          /\ j.op # "signup" => Stored(j.user)
          /\ j.pc = "writeBack" => j.op # "signup"
      BY <1>4, WorkFacts DEF ElementInv, JobOK
    <2>2. j.pc = "writeBack" /\ j.user \notin relisted' =>
            /\ Has(j.copy, "PRE_LOGIN")
            /\ (\E t \in tokens' : t.kind = "SIGNUP" /\ t.user = j.user) =>
                 Has(j.copy, "SIGNUP")
      BY <2>1 DEF HeldElements, HasToken
    <2>3. /\ j.op \in Mailers \ {"resendOTP"} /\ j.patch.edit.kind = "set"
          /\ Lasting(stale', relisted', j.user, p)
          => Has(user'[j.user], p)
      <3>1. j.op \in Mailers \ {"resendOTP"} =>
              p \in Purposes \ {"SIGNUP"} /\ j.op # "signup"
        BY PurposeFacts DEF Mailers
      <3>. QED
        BY <1>1, <2>1, <3>1 DEF HeldElements, Keeps
    <2>4. j.op \in CodeOps => \E t \in tokens' : t.kind = p /\ t.user = j.user
      BY <1>2, <2>1 DEF HeldElements
    <2>5. j.op \in CodeOps /\ Lasting(stale', relisted', j.user, p) => j.patch.edit.kind = "clear"
      BY <1>1, <2>1 DEF HeldElements
    <2>. QED
      BY <2>2, <2>3, <2>4, <2>5
  <1>5. ASSUME NEW g \in Handlers
        PROVE  LET j == job'[g]
                   p == Purpose(j.op)
               IN  /\ j.pc = "writeBack" /\ j.user \notin relisted' =>
                        /\ Has(j.copy, "PRE_LOGIN")
                        /\ (\E t \in tokens' : t.kind = "SIGNUP" /\ t.user = j.user) =>
                             Has(j.copy, "SIGNUP")
                   /\ /\ j.op \in Mailers \ {"resendOTP"}
                      /\ j.patch.edit.kind = "set"
                      /\ Lasting(stale', relisted', j.user, p)
                      => Has(user'[j.user], p)
                   /\ j.op \in CodeOps =>
                        \E t \in tokens' : t.kind = p /\ t.user = j.user
                   /\ j.op \in CodeOps /\ Lasting(stale', relisted', j.user, p) =>
                        j.patch.edit.kind = "clear"
    <2>1. CASE job'[g] = Idle
      BY <2>1, IdleFacts
    <2>2. CASE g = h /\ job'[h] # Idle
      BY <1>4, <2>2 DEF Same
    <2>3. CASE g # h /\ job'[g] # Idle
      <3>1. job'[g] = job[g] /\ job[g].pc # "idle"
        BY <2>3 DEF TypeInv, JobOK
      <3>. QED
        BY <1>4, <3>1
    <2>. QED
      BY <2>1, <2>2, <2>3
  <1>6. LoginNeedsCode'
    BY DEF LoginNeedsCode, ElementInv
  <1>. QED
    BY <1>3, <1>5, <1>6 DEF ElementInv, TokenElements, HeldElements, HasToken

\* A new request has read what is stored, and shown a token.
LEMMA ElementSubmit ==
    ASSUME TypeInv, ElementInv, NEW h \in Handlers, Submit(h)
    PROVE  ElementInv'
  <1>1. UNCHANGED <<user, tokens, stale, relisted, unproven>>
    BY SubmitBegins
  <1>2. PICK j : Begun(h, j) /\ Reads(j) /\ job' = [job EXCEPT ![h] = j]
    BY SubmitBegins DEF Begins
  <1>3. job'[h] = j /\ \A g \in Handlers \ {h} : job'[g] = job[g]
    BY <1>2, OneHandler DEF Begun
  <1>. DEFINE p == Purpose(j.op)
  <1>4. \A k : HasToken(k, j.user) =>
          /\ k \in Purposes /\ Lasting(stale, relisted, j.user, k) => Has(user[j.user], k)
          /\ k = "LOGIN" /\ j.user \notin relisted => Has(user[j.user], "PRE_LOGIN")
    BY DEF ElementInv, TokenElements, HasToken
  <1>5. HeldElements(j)
    <2>1. j.pc = "writeBack" /\ j.user \notin relisted =>
            /\ Has(j.copy, "PRE_LOGIN")
            /\ HasToken("SIGNUP", j.user) => Has(j.copy, "SIGNUP")
      <3>1. /\ "SIGNUP" \in Purposes
            /\ j.user \notin relisted => Lasting(stale, relisted, j.user, "SIGNUP")
        BY DEF Purposes, Lasting
      <3>. QED
        BY <1>2, <1>4, <3>1 DEF Begun
    <2>2. j.op \in Mailers \ {"resendOTP"} /\ j.patch.edit.kind = "set" =>
            Has(user[j.user], p)
      <3>1. j.op \in Mailers \ {"resendOTP"} => j.patch.edit.item.authFor = p
        BY <1>2 DEF Begun, JobOK, EditOK
      <3>. HIDE DEF p
      <3>. QED
        BY <1>2, <3>1 DEF Reads, Has
    <2>3. j.op \in CodeOps => HasToken(p, j.user)
      BY <1>2 DEF Begun
    <2>4. j.op \in CodeOps /\ Lasting(stale, relisted, j.user, p) => j.patch.edit.kind = "clear"
      BY <1>2, <1>4, <2>3, PurposeFacts DEF Reads
    <2>. QED
      BY <2>1, <2>2, <2>3, <2>4 DEF HeldElements
  <1>6. \A i : HeldElements(i) =>
          LET q == Purpose(i.op)
          IN  /\ i.pc = "writeBack" /\ i.user \notin relisted =>
                   /\ Has(i.copy, "PRE_LOGIN")
                   /\ HasToken("SIGNUP", i.user) => Has(i.copy, "SIGNUP")
              /\ /\ i.op \in Mailers \ {"resendOTP"}
                 /\ i.patch.edit.kind = "set"
                 /\ Lasting(stale, relisted, i.user, q)
                 => Has(user[i.user], q)
              /\ i.op \in CodeOps => HasToken(q, i.user)
              /\ i.op \in CodeOps /\ Lasting(stale, relisted, i.user, q) =>
                   i.patch.edit.kind = "clear"
    BY DEF HeldElements
  <1>7. \A g \in Handlers : \E i : job'[g] = i /\ HeldElements(i)
    BY <1>3, <1>5 DEF ElementInv
  <1>. QED
    BY <1>1, <1>6, <1>7, OwnSubmit DEF ElementInv, TokenElements, HeldElements, HasToken,
                            LoginNeedsCode

\* A save keeps the elements, and its token is for one that it has written.
LEMMA ElementSave ==
    ASSUME TypeInv, ElementInv, NEW h \in Handlers, Save(h)
    PROVE  ElementInv'
  <1>. DEFINE j == job[h]
              u == j.user
              e == j.patch.edit
              p == Purpose(j.op)
              D == Patched(user[u], j.patch)
  <1>1. /\ j.pc = "save" /\ u \in Members /\ Stored(u) /\ user[u] \in Document
        /\ D.authTypes = Edited(user[u].authTypes, e)
        /\ End(h) /\ UNCHANGED <<stale, relisted>>
    BY SaveFacts
  <1>2. \/ UNCHANGED <<user, tokens, historyVars>>
        \/ /\ user' = [user EXCEPT ![u] = D] /\ tokens' = tokens \cup Granted(j)
           /\ Witness(h)
    BY SaveFacts
  <1>. HIDE DEF D
  <1>3. /\ job'[h] = Idle /\ \A g \in Handlers \ {h} : job'[g] = job[g]
        /\ Same(h) /\ JobOK(j) /\ HeldElements(j) /\ OwnInv'
    BY <1>1, EndType, OwnStep DEF Same, TypeInv, ElementInv, Next, Advance
  <1>4. /\ e \in Edit /\ (e.kind = "set" => e.at # 0)
        /\ e.kind = "clear" /\ u \notin relisted => j.code > 0
    BY <1>1, <1>3, NumberFacts, CodeNumber
       DEF JobOK, EditOK, Job, Patch, ElementInv, OwnInv
  <1>5. user[u].authTypes \in Seq(Item)
    BY <1>1, StoredFacts
  <1>. HIDE DEF e
  <1>6. /\ \A q : Has(user[u], q) => Has(D, q)
        /\ e.kind = "push" => Has(D, e.item.authFor)
    <2>1. /\ DOMAIN user[u].authTypes \subseteq DOMAIN D.authTypes
          /\ \A i \in DOMAIN user[u].authTypes :
               D.authTypes[i].authFor = user[u].authTypes[i].authFor
          /\ e.kind = "push" =>
               \E i \in DOMAIN D.authTypes : D.authTypes[i].authFor = e.item.authFor
      <3>. DEFINE items == user[u].authTypes
      <3>1. /\ DOMAIN items \subseteq DOMAIN Edited(items, e)
            /\ \A i \in DOMAIN items : Edited(items, e)[i].authFor = items[i].authFor
            /\ e.kind = "push" =>
                 /\ Len(items) + 1 \in DOMAIN Edited(items, e)
                 /\ Edited(items, e)[Len(items) + 1].authFor = e.item.authFor
        BY <1>4, <1>5, EditedFacts
      <3>. QED
        BY <1>1, <3>1
    <2>. QED
      BY <2>1 DEF Has
  <1>7. CASE UNCHANGED <<user, tokens, historyVars>>
    <2>1. Keeps
      BY <1>7 DEF Keeps
    <2>. QED
      BY <1>1, <1>3, <1>7, <2>1, ElementsStay DEF historyVars
  <1>8. CASE /\ user' = [user EXCEPT ![u] = D] /\ tokens' = tokens \cup Granted(j)
             /\ Witness(h)
    <2>1. user'[u] = D /\ \A v \in Members \ {u} : user'[v] = user[v]
      BY <1>1, <1>8 DEF TypeInv, TypeOK
    <2>2. Keeps
      BY <1>6, <2>1 DEF Keeps
    <2>3. ASSUME NEW t \in Granted(j)
          PROVE  /\ t.kind \in Purposes /\ Lasting(stale', relisted', t.user, t.kind) =>
                      Has(user'[t.user], t.kind)
                 /\ t.kind = "LOGIN" /\ t.user \notin relisted' =>
                      Has(user'[t.user], "PRE_LOGIN")
                 /\ t.kind # "SIGNUP"
      <3>1. t.user = u
        BY <1>1, <1>3, GrantedFacts
      <3>2. CASE t.kind = "LOGIN" /\ j.op = "login"
        <4>1. HasToken("PRE_LOGIN", u)
          BY <1>3, <3>2, PurposeFacts DEF HeldElements, CodeOps
        <4>2. u \notin relisted => Has(user[u], "PRE_LOGIN")
          BY <4>1 DEF ElementInv, TokenElements, HasToken, Lasting, Purposes
        <4>. QED
          BY <1>1, <1>6, <2>1, <3>1, <3>2, <4>2 DEF Purposes
      <3>3. CASE t.kind = p /\ j.op \in Mailers \ {"resendOTP"}
        <4>1. /\ e.kind \in {"push", "set"} /\ e.item.authFor = p
              /\ p \in Purposes \ {"SIGNUP"}
          BY <1>3, <3>3, PurposeFacts DEF JobOK, EditOK, e
        <4>2. e.kind = "set" /\ Lasting(stale, relisted, u, p) => Has(user[u], p)
          BY <1>3, <3>3 DEF HeldElements, e
        <4>. QED
          BY <1>1, <1>6, <2>1, <3>1, <3>3, <4>1, <4>2 DEF Purposes
      <3>. QED
        BY <1>1, <1>3, <3>2, <3>3, GrantedFacts
    <2>4. \A x \in unproven' :
            \/ x \in unproven
            \/ x[2] \in relisted'
            \/ /\ x[1] \in {"confirmUpdateMail", "confirmOTPPassword"}
               /\ x[2] \in stale'
      <3>1. CASE j.op \in CodeOps /\ ~ (j.code > 0 /\ e.kind = "clear")
        <4>1. ~ Lasting(stale, relisted, u, p)
          BY <1>3, <1>4, <3>1 DEF HeldElements, Lasting, e
        <4>2. u \in relisted \/ (u \in stale /\ j.op = "confirmUpdateMail")
          BY <3>1, <4>1, PurposeFacts DEF Lasting
        <4>3. unproven' = unproven \cup {<<j.op, u>>}
          BY <1>8, <3>1 DEF Witness, e
        <4>. QED
          BY <1>1, <4>2, <4>3
      <3>2. CASE ~ (j.op \in CodeOps /\ ~ (j.code > 0 /\ e.kind = "clear"))
        BY <1>8, <3>2 DEF Witness, e
      <3>. QED
        BY <3>1, <3>2
    <2>5. \A t \in tokens' :
             \/ t \in tokens
             \/ /\ t.kind \in Purposes /\ Lasting(stale', relisted', t.user, t.kind) =>
                     Has(user'[t.user], t.kind)
                /\ t.kind = "LOGIN" /\ t.user \notin relisted' =>
                     Has(user'[t.user], "PRE_LOGIN")
                /\ t.kind = "SIGNUP" => ~ Stored(t.user)
      BY <1>8, <2>3
    <2>. QED
      BY <1>1, <1>3, <1>8, <2>2, <2>4, <2>5, ElementsStay
  <1>. QED
    BY <1>2, <1>7, <1>8

\* Every step keeps the elements.
LEMMA ElementStep == TypeInv /\ ElementInv /\ [Next]_vars => ElementInv'
  <1>. SUFFICES ASSUME TypeInv, ElementInv, [Next]_vars PROVE ElementInv'
    OBVIOUS
  <1>0. OwnInv'
    BY OwnStep DEF ElementInv
  <1>1. ASSUME NEW h \in Handlers, FindMobile(h) \/ FindEmail(h)
        PROVE  ElementInv'
    <2>1. UNCHANGED <<user, tokens, stale, relisted, unproven>>
      BY <1>1, FindFacts
    <2>2. Same(h) /\ \A g \in Handlers \ {h} : job'[g] = job[g]
      BY <1>1, FindType
    <2>. QED
      BY <1>0, <2>1, <2>2, ElementsStay DEF Keeps
  <1>2. ASSUME NEW h \in Handlers, Create(h) PROVE ElementInv'
    <2>1. /\ End(h) /\ UNCHANGED <<stale, relisted, unproven>>
          /\ job[h].user \in Members /\ ~ Stored(job[h].user)
      BY <1>2, CreateFacts
    <2>2. Same(h) /\ \A g \in Handlers \ {h} : job'[g] = job[g]
      BY <2>1, EndType DEF Same
    <2>3. Keeps
      <3>1. \A u \in Members : Stored(u) => user'[u] = user[u]
        BY <1>2, <2>1, CreateFacts DEF TypeInv, TypeOK
      <3>. QED
        BY <3>1 DEF Keeps
    <2>4. \A t \in tokens' :
             \/ t \in tokens
             \/ /\ t.kind = "SIGNUP" /\ Has(user'[t.user], "SIGNUP")
                /\ ~ Stored(t.user)
      BY <1>2, <2>1, CreateFacts
    <2>5. tokens \subseteq tokens'
      BY <1>2, CreateFacts
    <2>. QED
      BY <1>0, <2>1, <2>2, <2>3, <2>4, <2>5, ElementsStay
  <1>3. ASSUME NEW h \in Handlers, UpdateOne(h) \/ SetPassword(h) \/ WriteBack(h)
        PROVE  ElementInv'
    <2>1. /\ End(h) /\ UNCHANGED <<tokens, unproven>> /\ stale \subseteq stale'
          /\ relisted \subseteq relisted'
          /\ job[h].user \in Members /\ Stored(job[h].user)
      BY <1>3, WriteFacts
    <2>2. Same(h) /\ \A g \in Handlers \ {h} : job'[g] = job[g]
      BY <2>1, EndType DEF Same
    <2>3. Keeps
      <3>1. \A u \in Members \ {job[h].user} : user'[u] = user[u]
        BY <1>3, <2>1, WriteFacts DEF TypeInv, TypeOK
      <3>. DEFINE D == user'[job[h].user]
      <3>2. \/ D.authTypes = user[job[h].user].authTypes
            \/ job[h].user \in relisted'
            \/ /\ job[h].pc = "writeBack" /\ Within(D, job[h].copy)
               /\ user[job[h].user] = job[h].copy \/ job[h].user \in stale'
        BY <1>3, WriteFacts
      <3>3. \A p : Has(job[h].copy, p) /\ Within(D, job[h].copy) => Has(D, p)
        BY WithinHas
      <3>. HIDE DEF D
      <3>4. ASSUME NEW p \in Purposes, Stored(job[h].user), Has(user[job[h].user], p),
                   Lasting(stale', relisted', job[h].user, p),
                   p = "SIGNUP" => HasToken(p, job[h].user)
            PROVE  Has(D, p)
        <4>1. CASE D.authTypes = user[job[h].user].authTypes
          BY <3>4, <4>1 DEF Has
        <4>2. CASE user[job[h].user] = job[h].copy /\ Within(D, job[h].copy)
          BY <3>3, <3>4, <4>2
        <4>3. CASE /\ job[h].pc = "writeBack" /\ Within(D, job[h].copy)
                   /\ job[h].user \in stale'
          <5>1. HeldElements(job[h]) /\ job[h].user \notin relisted
            BY <2>1, <3>4 DEF ElementInv, Lasting
          <5>2. Has(job[h].copy, p)
            BY <3>4, <4>3, <5>1 DEF HeldElements, Lasting
          <5>. QED
            BY <3>3, <4>3, <5>2
        <4>. QED
          BY <3>2, <3>4, <4>1, <4>2, <4>3 DEF Lasting
      <3>. QED
        BY <3>1, <3>4 DEF Keeps, D
    <2>. QED
      BY <1>0, <2>1, <2>2, <2>3, ElementsStay
  <1>4. ASSUME NEW h \in Handlers, CheckPassword(h) \/ Abort(h) PROVE ElementInv'
    <2>1. /\ UNCHANGED <<user, tokens, stale, relisted, unproven>> /\ Same(h)
          /\ \A g \in Handlers \ {h} : job'[g] = job[g]
      BY <1>4, CheckFacts DEF historyVars
    <2>. QED
      BY <1>0, <2>1, ElementsStay DEF Keeps
  <1>5. CASE Answer
    <2>1. UNCHANGED <<job, stale, relisted>>
      BY <1>5, AnswerFacts
    <2>2. \A u \in Members : Stored(u) => user'[u].authTypes = user[u].authTypes
      BY <1>5, AnswerFacts DEF TypeInv, TypeOK
    <2>3. \A u \in Members : Stored(u) =>
            \A p : Has(user[u], p) <=> Has(user'[u], p)
      BY <2>2 DEF Has
    <2>4. /\ tokens \subseteq tokens'
          /\ \A t \in tokens' : t \in tokens \/ t.kind = "CONFIRM_OTP_FORGET"
      BY <1>5, AnswerFacts
    <2>5. TokenElements'
      <3>1. \A t \in tokens : t.user \in Members /\ Stored(t.user)
        BY DEF TypeInv, TypeOK, PlacesOK, Token
      <3>. QED
        BY <2>1, <2>3, <2>4, <3>1 DEF ElementInv, TokenElements, Purposes
    <2>6. ASSUME NEW h \in Handlers PROVE HeldElements(job[h])'
      <3>1. CASE job[h].pc = "idle"
        <4>1. job'[h] = Idle
          BY <2>1, <3>1 DEF TypeInv, JobOK
        <4>. QED
          BY <4>1, IdleFacts DEF HeldElements
      <3>2. CASE job[h].pc # "idle"
        <4>1. /\ job[h].user \in Members /\ job'[h] = job[h]
              /\ job[h].op # "signup" => Stored(job[h].user)
          BY <2>1, <3>2, WorkFacts
        <4>2. job[h].op \in Mailers => job[h].op # "signup"
          BY DEF Mailers
        <4>3. /\ HasToken("SIGNUP", job[h].user)' => HasToken("SIGNUP", job[h].user)
              /\ \A k : HasToken(k, job[h].user) => HasToken(k, job[h].user)'
          BY <2>1, <2>4 DEF HasToken
        <4>4. HeldElements(job[h])
          BY DEF ElementInv
        <4>. QED
          BY <2>1, <2>3, <4>1, <4>2, <4>3, <4>4 DEF HeldElements
      <3>. QED
        BY <3>1, <3>2
    <2>7. LoginNeedsCode'
      <3>1. \A u : HasToken("FORGET_PASSWORD", u) /\ ~ Has(user[u], "FORGET_PASSWORD")
              => u \in stale \cup relisted
        BY DEF ElementInv, TokenElements, HasToken, Lasting, Purposes
      <3>2. \A u \in Members : Stored(u) /\ HoldsFor(user[u], "FORGET_PASSWORD", Own)
              => u \in relisted
        BY DEF ElementInv, OwnInv, NoOwn, HoldsFor
      <3>3. \A x \in unproven' : x \in unproven \/
              \E u \in stale \cup relisted : x = <<"confirmOTPPassword", u>>
        BY <1>5, <3>1, <3>2, AnswerFacts
      <3>. QED
        BY <2>1, <3>3 DEF LoginNeedsCode, ElementInv
    <2>. QED
      BY <1>0, <2>5, <2>6, <2>7 DEF ElementInv
  <1>6. CASE UNCHANGED vars \/ Tick
    BY <1>0, <1>6 DEF vars, serviceVars, historyVars, Tick, ElementInv, TokenElements,
                HeldElements, HasToken, LoginNeedsCode
  <1>. QED
    BY <1>1, <1>2, <1>3, <1>4, <1>5, <1>6, ElementSubmit, ElementSave
       DEF Next, Rest, Advance

\* Nobody logs in or confirms a signup without a code that was mailed, although the
\* loops that compare codes let everyone pass when they find nothing to compare with,
\* but for those who have put an authTypes of their own in their document.
THEOREM LoginsNeedCodes == Spec => []LoginNeedsCode
  <1>1. Init => ElementInv
    <2>1. Init => OwnInv
      BY IdleFacts DEF Init, OwnInv, NoOwn, Stored
    <2>. QED
      BY <2>1, IdleFacts DEF Init, ElementInv, TokenElements, HeldElements,
                             LoginNeedsCode
  <1>2. ElementInv => LoginNeedsCode
    BY DEF ElementInv
  <1>. QED
    BY <1>1, <1>2, ElementStep, TypesHold, PTL DEF Spec

-----------------------------------------------------------------------------
(* Codes that are spent                                                    *)

Holds(doc, c) == \E i \in DOMAIN doc.authTypes : doc.authTypes[i].value = c

\* Members whose elements were changed by more than the requests about codes: an
\* older document put back, or PATCH /user.
Lapsed == stale \cup relisted

\* No code is in two places.
Apart(doc) ==
    \A i, k \in DOMAIN doc.authTypes :
      /\ doc.authTypes[i].value = doc.authTypes[k].value
      /\ doc.authTypes[i].value \in Numbers
      => i = k

ApartInv ==
    /\ \A u \in Members : Stored(u) => Apart(user[u])
    /\ \A h \in Handlers : job[h].pc = "writeBack" => Apart(job[h].copy)

Clears(j) == j.patch.edit.kind = "clear"

\* The code of a request at work is in no document yet, and nobody has entered it.
FreshInv ==
    \A h \in Handlers : job[h].pc # "idle" =>
      /\ \A u \in Members : Stored(u) => ~ Holds(user[u], job[h].no)
      /\ job[h].no \notin spent
      /\ \A g \in Handlers :
           /\ job[g].pc = "writeBack" => ~ Holds(job[g].copy, job[h].no)
           /\ Clears(job[g]) => job[g].code # job[h].no

\* A request that a code has let through clears the place where the code is.
PlaceInv ==
    \A h \in Handlers :
      LET j     == job[h]
          items == user[j.user].authTypes
      IN  Clears(j) /\ j.code \in Numbers /\ j.user \notin Lapsed =>
            /\ j.patch.edit.at \in DOMAIN items
            /\ \A i \in DOMAIN items : items[i].value = j.code => i = j.patch.edit.at

\* The codes of a document are in the elements they were mailed for.
ForOf(m, doc) ==
    \A i \in DOMAIN doc.authTypes :
      doc.authTypes[i].value \in Numbers =>
        m[doc.authTypes[i].value].for = doc.authTypes[i].authFor

\* They get there and are entered for nothing else.
ForInv ==
    /\ \A u \in Members \ Lapsed : Stored(u) => ForOf(mailed, user[u])
    /\ \A h \in Handlers :
         LET j     == job[h]
             e     == j.patch.edit
             items == user[j.user].authTypes
         IN  /\ j.pc = "create" => mailed[j.no].for = "SIGNUP"
             /\ j.pc = "save" /\ j.op \in Mailers =>
                  mailed[j.no].for = e.item.authFor
             /\ e.kind = "set" /\ j.user \notin Lapsed =>
                  e.at \in DOMAIN items /\ items[e.at].authFor = e.item.authFor
             /\ Clears(j) /\ j.code \in Numbers /\ j.user \notin Lapsed =>
                  mailed[j.code].for = Purpose(j.op)

\* A code that is spent is gone from its document, but for that of a forgotten
\* password, and from all requests, unless another request had checked it too.
SpentInv ==
    /\ \A c \in spent : mailed[c] # Nil
    /\ \A x \in reused : x[1] \in spent
    /\ \A c \in spent \ shared : mailed[c].user \notin Lapsed =>
         /\ Stored(mailed[c].user) /\ mailed[c].for # "FORGET_PASSWORD" =>
              ~ Holds(user[mailed[c].user], c)
         /\ \A h \in Handlers : Clears(job[h]) => job[h].code # c
    /\ CodesAreOneTime

OneTimeInv == ApartInv /\ FreshInv /\ PlaceInv /\ ForInv /\ SpentInv

\* Elements of which some have been cleared, and none has got a code.
LEMMA WithinCodes ==
    ASSUME NEW new, NEW old, Within(new, old)
    PROVE  /\ Apart(old) => Apart(new)
           /\ \A c \in Numbers : Holds(new, c) => Holds(old, c)
           /\ \A m : ForOf(m, old) => ForOf(m, new)
  <1>1. /\ DOMAIN old.authTypes \subseteq DOMAIN new.authTypes
        /\ \A i \in DOMAIN old.authTypes :
             new.authTypes[i].authFor = old.authTypes[i].authFor
        /\ \A i \in DOMAIN new.authTypes : new.authTypes[i].value \in Numbers =>
             /\ i \in DOMAIN old.authTypes
             /\ new.authTypes[i].value = old.authTypes[i].value
    BY NumberFacts DEF Within
  <1>2. Apart(old) => Apart(new)
    BY <1>1 DEF Apart
  <1>3. \A c \in Numbers : Holds(new, c) => Holds(old, c)
    BY <1>1 DEF Holds
  <1>4. \A m : ForOf(m, old) => ForOf(m, new)
    BY <1>1 DEF ForOf
  <1>. QED
    BY <1>2, <1>3, <1>4

\* An edit of elements that are apart, with a code that is not among them.
LEMMA ApartFacts ==
    ASSUME NEW items \in Seq(Item), NEW e \in Edit, e.kind = "set" => e.at # 0,
           NEW old, old.authTypes = items, Apart(old),
           e.kind \in {"push", "set"} => ~ Holds(old, e.item.value),
           NEW doc, doc.authTypes = Edited(items, e)
    PROVE  /\ Apart(doc)
           /\ DOMAIN items \subseteq DOMAIN doc.authTypes
           /\ \A i \in DOMAIN items : doc.authTypes[i].authFor = items[i].authFor
           /\ \A i \in DOMAIN doc.authTypes :
                \/ doc.authTypes[i].value = 0
                \/ i \in DOMAIN items /\ doc.authTypes[i].value = items[i].value
                \/ /\ e.kind \in {"push", "set"}
                   /\ i = Spot(items, e)
                   /\ doc.authTypes[i].value = e.item.value
  <1>. DEFINE new == doc.authTypes
              s == Spot(items, e)
  <1>1. /\ DOMAIN items \subseteq DOMAIN new
        /\ \A i \in DOMAIN items : new[i].authFor = items[i].authFor
        /\ \A i \in DOMAIN new :
             \/ new[i].value = 0
             \/ i \in DOMAIN items /\ new[i].value = items[i].value
             \/ e.kind \in {"push", "set"} /\ i = s /\ new[i].value = e.item.value
    BY EditedFacts
  <1>2. \A i, k \in DOMAIN items :
          items[i].value = items[k].value /\ items[i].value \in Numbers => i = k
    BY DEF Apart
  <1>3. e.kind \in {"push", "set"} => \A i \in DOMAIN items : items[i].value # e.item.value
    BY DEF Holds
  <1>4. 0 \notin Numbers
    BY NumberFacts
  <1>. HIDE DEF new, s
  <1>5. \A i, k \in DOMAIN new :
          new[i].value = new[k].value /\ new[i].value \in Numbers => i = k
    BY <1>1, <1>2, <1>3, <1>4
  <1>. QED
    BY <1>1, <1>5 DEF Apart, new, s

\* What a handler at work does to documents: it takes no element away and adds no
\* code, makes a document with its own, edits the elements, puts an older copy
\* back, or writes a body with elements in it.
Edits(h) ==
    \A u \in Members : user'[u] # Nil =>
      \/ Stored(u) /\ Within(user'[u], user[u])
      \/ /\ u = job[h].user
         /\ \/ /\ job[h].pc = "writeBack" /\ u \in stale'
               /\ Within(user'[u], job[h].copy)
            \/ /\ u \in relisted'
               /\ \A i \in DOMAIN user'[u].authTypes :
                    user'[u].authTypes[i].value \notin Numbers
            \/ /\ job[h].pc = "create" /\ job'[h] = Idle
               /\ DOMAIN user'[u].authTypes = {1}
               /\ user'[u].authTypes[1].value = job[h].no
               /\ user'[u].authTypes[1].authFor = "SIGNUP"
            \/ /\ job[h].pc = "save" /\ job'[h] = Idle /\ Stored(u)
               /\ user'[u].authTypes = Edited(user[u].authTypes, job[h].patch.edit)

\* The edit of a handler at work.
LEMMA EditKnown ==
    ASSUME TypeInv, NEW h \in Handlers, job[h].pc # "idle"
    PROVE  LET j == job[h]
               e == j.patch.edit
           IN  /\ JobOK(j) /\ j \in Job /\ j.user \in Members /\ j.no \in Numbers
               /\ e \in Edit /\ (e.kind = "set" => e.at # 0)
               /\ e.kind \in {"push", "set"} => e.item.value = j.no /\ j.op \in Mailers
               /\ Clears(j) => j.pc = "save" /\ j.op \in CodeOps
  BY WorkFacts DEF JobOK, EditOK, Job, Patch, Clears

\* What comes of it for the codes.
LEMMA EditsFacts ==
    ASSUME TypeInv, ApartInv, FreshInv, NEW h \in Handlers,
           job[h].pc # "idle", Edits(h), NEW u \in Members, user'[u] # Nil
    PROVE  /\ Apart(user'[u])
           /\ \A c \in Numbers : Holds(user'[u], c) =>
                \/ Stored(u) /\ Holds(user[u], c)
                \/ c = job[h].no /\ job'[h] = Idle
                \/ job[h].pc = "writeBack" /\ Holds(job[h].copy, c) /\ u \in stale'
           /\ Stored(u) /\ u \notin Lapsed' =>
                /\ DOMAIN user[u].authTypes \subseteq DOMAIN user'[u].authTypes
                /\ \A i \in DOMAIN user[u].authTypes :
                     user'[u].authTypes[i].authFor = user[u].authTypes[i].authFor
                /\ \A i \in DOMAIN user'[u].authTypes :
                     \/ user'[u].authTypes[i].value \in {0, job[h].no}
                     \/ /\ i \in DOMAIN user[u].authTypes
                        /\ user'[u].authTypes[i].value = user[u].authTypes[i].value
  <1>. DEFINE j == job[h]
              e == j.patch.edit
              D == user'[u]
  <1>1. /\ JobOK(j) /\ j \in Job /\ j.user \in Members /\ j.no \in Numbers
        /\ e \in Edit /\ (e.kind = "set" => e.at # 0)
        /\ e.kind \in {"push", "set"} => e.item.value = j.no
        /\ 0 \notin Numbers
    BY EditKnown, NumberFacts
  <1>2. Stored(u) => /\ user[u].authTypes \in Seq(Item) /\ Apart(user[u])
                     /\ ~ Holds(user[u], j.no)
    BY StoredFacts DEF ApartInv, FreshInv
  <1>3. CASE Stored(u) /\ Within(D, user[u])
    <2>1. Apart(D) /\ \A c \in Numbers : Holds(D, c) => Holds(user[u], c)
      BY <1>2, <1>3, WithinCodes
    <2>. HIDE DEF D
    <2>2. /\ DOMAIN user[u].authTypes \subseteq DOMAIN D.authTypes
          /\ \A i \in DOMAIN user[u].authTypes :
               D.authTypes[i].authFor = user[u].authTypes[i].authFor
          /\ \A i \in DOMAIN D.authTypes :
               \/ D.authTypes[i].value = 0
               \/ /\ i \in DOMAIN user[u].authTypes
                  /\ D.authTypes[i].value = user[u].authTypes[i].value
      BY <1>3 DEF Within
    <2>. QED
      BY <1>3, <2>1, <2>2 DEF D
  <1>4. CASE u = j.user /\ j.pc = "writeBack" /\ Within(D, j.copy) /\ u \in stale'
    <2>1. Apart(j.copy)
      BY <1>4 DEF ApartInv
    <2>2. Apart(D) /\ \A c \in Numbers : Holds(D, c) => Holds(j.copy, c)
      BY <1>4, <2>1, WithinCodes
    <2>. QED
      BY <1>4, <2>2 DEF Lapsed
  <1>5. CASE /\ u \in relisted'
             /\ \A i \in DOMAIN D.authTypes : D.authTypes[i].value \notin Numbers
    BY <1>5 DEF Apart, Holds, Lapsed
  <1>6. CASE /\ u = j.user /\ j.pc = "create" /\ job'[h] = Idle
             /\ DOMAIN D.authTypes = {1} /\ D.authTypes[1].value = j.no
    <2>1. ~ Stored(u)
      BY <1>1, <1>6 DEF TypeInv, PlacesOK, JobOK
    <2>. QED
      BY <1>6, <2>1 DEF Apart, Holds
  <1>7. CASE /\ u = j.user /\ j.pc = "save" /\ job'[h] = Idle /\ Stored(u)
             /\ D.authTypes = Edited(user[u].authTypes, e)
    <2>. DEFINE items == user[u].authTypes
    <2>1. /\ Apart(D)
          /\ DOMAIN items \subseteq DOMAIN D.authTypes
          /\ \A i \in DOMAIN items : D.authTypes[i].authFor = items[i].authFor
          /\ \A i \in DOMAIN D.authTypes :
               \/ D.authTypes[i].value = 0
               \/ i \in DOMAIN items /\ D.authTypes[i].value = items[i].value
               \/ D.authTypes[i].value = j.no
      <3>. HIDE DEF e, D
      <3>1. e.kind \in {"push", "set"} => ~ Holds(user[u], e.item.value)
        BY <1>1, <1>2, <1>7
      <3>. QED
        BY <1>1, <1>2, <1>7, <3>1, ApartFacts
    <2>2. \A c \in Numbers : Holds(D, c) => Holds(user[u], c) \/ c = j.no
      BY <1>1, <2>1 DEF Holds
    <2>. QED
      BY <1>7, <2>1, <2>2
  <1>. QED
    BY <1>3, <1>4, <1>5, <1>6, <1>7 DEF Edits

\* The code of a save is gone.
LEMMA ClearedIsGone ==
    ASSUME TypeInv, PlaceInv, NEW h \in Handlers, job[h].pc # "idle",
           Clears(job[h]), job[h].code \in Numbers, job[h].user \notin Lapsed,
           Stored(job[h].user), NEW D,
           D.authTypes = Edited(user[job[h].user].authTypes, job[h].patch.edit)
    PROVE  ~ Holds(D, job[h].code)
  <1>. DEFINE e == job[h].patch.edit
              items == user[job[h].user].authTypes
              c == job[h].code
  <1>1. /\ e \in Edit /\ e.kind = "clear" /\ items \in Seq(Item) /\ c # 0
    BY EditKnown, StoredFacts, NumberFacts DEF Clears
  <1>2. /\ e.at \in DOMAIN items
        /\ \A i \in DOMAIN items : items[i].value = c => i = e.at
    BY DEF PlaceInv
  <1>. HIDE DEF e, items, c
  <1>3. /\ Edited(items, e)[e.at].value = 0
        /\ \A i \in DOMAIN Edited(items, e) :
             \/ Edited(items, e)[i].value = 0
             \/ i \in DOMAIN items /\ Edited(items, e)[i].value = items[i].value
    BY <1>1, <1>2, EditedFacts
  <1>4. \A i \in DOMAIN Edited(items, e) : Edited(items, e)[i].value # c
    BY <1>1, <1>2, <1>3
  <1>. QED
    BY <1>4 DEF Holds, e, items, c

\* A step of a handler that is at work, and the codes in documents and requests.
\* No code is spent but one that it clears.
LEMMA CodesStay ==
    ASSUME TypeInv, ApartInv, FreshInv, PlaceInv, NEW h \in Handlers,
           job[h].pc # "idle", Same(h), Edits(h), Lapsed \subseteq Lapsed',
           \A g \in Handlers \ {h} : job'[g] = job[g],
           \A u \in Members : Stored(u) => user'[u] # Nil,
           \A c \in spent' : c \in spent \/ (Clears(job[h]) /\ c = job[h].code)
    PROVE  ApartInv' /\ FreshInv' /\ PlaceInv'
  <1>1. /\ JobOK(job[h]) /\ job[h].user \in Members /\ job[h].no \in Numbers
    BY WorkFacts
  <1>2. \A g \in Handlers : job'[g].pc # "idle" =>
          /\ job[g].pc # "idle" /\ job'[g].no = job[g].no /\ job'[g].no \in Numbers
          /\ job'[g].user = job[g].user /\ job'[g].patch = job[g].patch
          /\ job'[g].code = job[g].code /\ job[g].user \in Members
          /\ job'[g].pc = "writeBack" => job'[g].copy = job[g].copy /\ job[g].pc = "writeBack"
          /\ g = h => job'[h] # Idle
    BY WorkFacts, IdleFacts DEF Same
  <1>3. \A g \in Handlers : Clears(job'[g]) => job'[g].pc # "idle" /\ Clears(job[g])
    <2>1. ~ Clears(Idle)
      BY IdleFacts DEF Clears
    <2>2. \A g \in Handlers : job[g].pc = "idle" => job[g] = Idle
      BY DEF TypeInv, JobOK
    <2>3. ASSUME NEW g \in Handlers, Clears(job'[g])
          PROVE  job'[g].pc # "idle" /\ Clears(job[g])
      <3>1. CASE g # h
        BY <2>1, <2>2, <2>3, <3>1
      <3>2. CASE g = h
        <4>1. job'[h].patch = job[h].patch /\ job'[h] # Idle
          BY <2>1, <2>3, <3>2 DEF Same
        <4>2. job'[h].pc # "idle"
          BY <4>1 DEF Same
        <4>. QED
          BY <2>3, <3>2, <4>1, <4>2 DEF Clears
      <3>. QED
        BY <3>1, <3>2
    <2>. QED
      BY <2>3
  <1>4. ApartInv'
    <2>1. \A u \in Members : user'[u] # Nil => Apart(user'[u])
      BY EditsFacts
    <2>2. \A g \in Handlers : job'[g].pc = "writeBack" => Apart(job'[g].copy)
      BY <1>2 DEF ApartInv
    <2>. QED
      BY <2>1, <2>2 DEF ApartInv, Stored, Apart
  <1>5. FreshInv'
    <2>1. ASSUME NEW g \in Handlers, job'[g].pc # "idle"
          PROVE  /\ \A u \in Members : user'[u] # Nil => ~ Holds(user'[u], job'[g].no)
                 /\ job'[g].no \notin spent'
                 /\ \A i \in Handlers :
                      /\ job'[i].pc = "writeBack" => ~ Holds(job'[i].copy, job'[g].no)
                      /\ Clears(job'[i]) => job'[i].code # job'[g].no
      <3>. DEFINE c == job[g].no
      <3>1. /\ job[g].pc # "idle" /\ job'[g].no = c /\ c \in Numbers
            /\ c = job[h].no => job'[h] # Idle
        <4>1. g # h => c # job[h].no
          BY <1>2, <2>1 DEF TypeInv, PlacesOK
        <4>. QED
          BY <1>2, <2>1, <4>1
      <3>2. /\ \A u \in Members : Stored(u) => ~ Holds(user[u], c)
            /\ c \notin spent
            /\ \A i \in Handlers :
                 /\ job[i].pc = "writeBack" => ~ Holds(job[i].copy, c)
                 /\ Clears(job[i]) => job[i].code # c
        BY <3>1 DEF FreshInv
      <3>. HIDE DEF c
      <3>3. \A u \in Members : user'[u] # Nil => ~ Holds(user'[u], c)
        BY <3>1, <3>2, EditsFacts
      <3>4. c \notin spent'
        BY <3>2
      <3>5. \A i \in Handlers :
              /\ job'[i].pc = "writeBack" => ~ Holds(job'[i].copy, c)
              /\ Clears(job'[i]) => job'[i].code # c
        BY <1>2, <1>3, <3>2
      <3>. QED
        BY <3>1, <3>3, <3>4, <3>5
    <2>. QED
      BY <2>1 DEF FreshInv, Stored, Holds, Clears
  <1>6. PlaceInv'
    <2>1. ASSUME NEW g \in Handlers, Clears(job'[g]), job'[g].code \in Numbers,
                 job'[g].user \notin Lapsed'
          PROVE  LET items == user'[job'[g].user].authTypes
                 IN  /\ job'[g].patch.edit.at \in DOMAIN items
                     /\ \A i \in DOMAIN items :
                          items[i].value = job'[g].code => i = job'[g].patch.edit.at
      <3>. DEFINE u     == job[g].user
                  at    == job[g].patch.edit.at
                  items == user[u].authTypes
                  new   == user'[u].authTypes
      <3>1. /\ job[g].pc # "idle" /\ Clears(job[g]) /\ u \in Members
            /\ job'[g].user = u /\ job'[g].patch = job[g].patch
            /\ job'[g].code = job[g].code /\ u \notin Lapsed /\ u \notin Lapsed'
            /\ job[g].code \in Numbers
        BY <1>2, <1>3, <2>1
      <3>2. /\ JobOK(job[g]) /\ Stored(u) /\ job[g].code # 0
        <4>1. JobOK(job[g]) /\ (job[g].op # "signup" => Stored(u))
          BY <3>1, WorkFacts
        <4>2. job[g].op \in CodeOps /\ job[g].code # 0
          BY <3>1, <4>1 DEF JobOK, EditOK, Clears
        <4>. QED
          BY <4>1, <4>2 DEF CodeOps
      <3>3. job[g].code # job[h].no
        BY <3>1 DEF FreshInv
      <3>4. at \in DOMAIN items /\ \A i \in DOMAIN items : items[i].value = job[g].code => i = at
        BY <3>1 DEF PlaceInv
      <3>5. user'[u] # Nil
        BY <3>1, <3>2
      <3>6. /\ DOMAIN items \subseteq DOMAIN new
            /\ \A i \in DOMAIN new :
                 \/ new[i].value \in {0, job[h].no}
                 \/ i \in DOMAIN items /\ new[i].value = items[i].value
        BY <3>1, <3>2, <3>5, EditsFacts
      <3>. HIDE DEF items, new
      <3>7. at \in DOMAIN new /\ \A i \in DOMAIN new : new[i].value = job[g].code => i = at
        BY <3>2, <3>3, <3>4, <3>6
      <3>. QED
        BY <3>1, <3>7 DEF new
    <2>. QED
      BY <2>1 DEF PlaceInv, Clears
  <1>. QED
    BY <1>4, <1>5, <1>6

\* An edit puts its code into the element that it is for.
LEMMA EditFor ==
    ASSUME TypeInv, ForInv, NEW h \in Handlers, job[h].pc = "save",
           job[h].user \in Members \ Lapsed, Stored(job[h].user),
           NEW D, D.authTypes = Edited(user[job[h].user].authTypes, job[h].patch.edit)
    PROVE  ForOf(mailed, D)
  <1>. DEFINE j == job[h]
              e == j.patch.edit
              items == user[j.user].authTypes
  <1>1. /\ e \in Edit /\ (e.kind = "set" => e.at # 0) /\ items \in Seq(Item)
        /\ e.kind \in {"push", "set"} => e.item.value = j.no /\ j.op \in Mailers
    BY EditKnown, StoredFacts
  <1>2. /\ \A i \in DOMAIN items : items[i].value \in Numbers =>
             mailed[items[i].value].for = items[i].authFor
        /\ e.kind \in {"push", "set"} => mailed[j.no].for = e.item.authFor
        /\ e.kind = "set" => e.at \in DOMAIN items /\ items[e.at].authFor = e.item.authFor
    BY <1>1 DEF ForInv, ForOf
  <1>. DEFINE new == Edited(items, e)
  <1>. HIDE DEF e, items, j
  <1>3. /\ DOMAIN items \subseteq DOMAIN new
        /\ \A i \in DOMAIN items : new[i].authFor = items[i].authFor
        /\ e.kind = "push" => /\ Spot(items, e) \in DOMAIN new
                             /\ new[Spot(items, e)].authFor = e.item.authFor
        /\ \A i \in DOMAIN new :
             \/ new[i].value = 0
             \/ i \in DOMAIN items /\ new[i].value = items[i].value
             \/ /\ e.kind \in {"push", "set"} /\ i = Spot(items, e)
                /\ new[i].value = e.item.value
    BY <1>1, EditedFacts DEF Spot
  <1>4. e.kind = "set" => Spot(items, e) = e.at
    BY DEF Spot
  <1>. HIDE DEF new
  <1>5. \A i \in DOMAIN new : new[i].value \in Numbers =>
          mailed[new[i].value].for = new[i].authFor
    BY <1>1, <1>2, <1>3, <1>4, NumberFacts
  <1>. QED
    BY <1>5 DEF ForOf, new, items, e, j

\* The codes stay with what they were mailed for.
LEMMA ForStays ==
    ASSUME TypeInv, ApartInv, FreshInv, ForInv, NEW h \in Handlers,
           job[h].pc # "idle", Same(h), Edits(h), Grows, Lapsed \subseteq Lapsed',
           \A g \in Handlers \ {h} : job'[g] = job[g],
           \A u \in Members : Stored(u) => user'[u] # Nil,
           job'[h].pc = "create" => mailed'[job[h].no].for = "SIGNUP",
           job'[h].pc = "save" /\ job[h].op \in Mailers =>
             mailed'[job[h].no].for = job[h].patch.edit.item.authFor
    PROVE  ForInv'
  <1>1. \A c, u : MailedFor(mailed, c, u) => mailed'[c] = mailed[c]
    BY NumberFacts DEF Grows, MailedFor
  <1>2. \A u, doc : CodesOf(mailed, u, doc) /\ ForOf(mailed, doc) => ForOf(mailed', doc)
    BY <1>1 DEF CodesOf, ForOf
  <1>3. \A u \in Members \ Lapsed : Stored(u) => ForOf(mailed', user[u])
    BY <1>2 DEF ForInv, TypeInv, MailsOK
  <1>4. ASSUME NEW u \in Members \ Lapsed', user'[u] # Nil PROVE ForOf(mailed', user'[u])
    <2>1. /\ u \notin stale' /\ u \notin relisted' /\ u \notin Lapsed
      BY <1>4 DEF Lapsed
    <2>2. CASE Stored(u) /\ Within(user'[u], user[u])
      BY <1>3, <2>1, <2>2, WithinCodes
    <2>3. CASE /\ u = job[h].user /\ job[h].pc = "create"
               /\ DOMAIN user'[u].authTypes = {1}
               /\ user'[u].authTypes[1].value = job[h].no
               /\ user'[u].authTypes[1].authFor = "SIGNUP"
      <3>1. mailed[job[h].no].for = "SIGNUP" /\ MailedFor(mailed, job[h].no, job[h].user)
        BY <2>3 DEF ForInv, TypeInv, MailsOK
      <3>2. mailed'[job[h].no].for = "SIGNUP"
        BY <1>1, <3>1
      <3>. QED
        BY <2>3, <3>2 DEF ForOf
    <2>4. CASE /\ u = job[h].user /\ job[h].pc = "save" /\ Stored(u)
               /\ user'[u].authTypes = Edited(user[u].authTypes, job[h].patch.edit)
      <3>1. ForOf(mailed, user'[u])
        BY <2>1, <2>4, EditFor
      <3>2. \A i \in DOMAIN user'[u].authTypes : user'[u].authTypes[i].value \in Numbers =>
              mailed'[user'[u].authTypes[i].value] = mailed[user'[u].authTypes[i].value]
        <4>. DEFINE D == user'[u]
        <4>1. \A c \in Numbers : Holds(D, c) => Holds(user[u], c) \/ c = job[h].no
          BY <1>4, <2>1, EditsFacts
        <4>2. \A c \in Numbers : Holds(user[u], c) => mailed'[c] = mailed[c]
          BY <1>1, <2>4 DEF TypeInv, MailsOK, CodesOf, Holds
        <4>3. mailed[job[h].no] # Nil => mailed'[job[h].no] = mailed[job[h].no]
          BY EditKnown DEF Grows
        <4>4. job[h].op \in Mailers => mailed'[job[h].no] = mailed[job[h].no]
          BY <1>1, <2>4 DEF TypeInv, MailsOK
        <4>5. job[h].op \notin Mailers => \A c \in Numbers : Holds(D, c) => Holds(user[u], c)
          <5>. DEFINE e == job[h].patch.edit
                      items == user[u].authTypes
          <5>1. e \in Edit /\ (e.kind = "set" => e.at # 0) /\ items \in Seq(Item)
            BY <2>4, EditKnown, StoredFacts
          <5>2. job[h].op \notin Mailers => e.kind \notin {"push", "set"}
            BY EditKnown
          <5>3. D.authTypes = Edited(items, e)
            BY <2>4
          <5>. HIDE DEF e, items, D
          <5>4. job[h].op \notin Mailers => \A i \in DOMAIN Edited(items, e) :
                  \/ Edited(items, e)[i].value = 0
                  \/ i \in DOMAIN items /\ Edited(items, e)[i].value = items[i].value
            BY <5>1, <5>2, EditedFacts
          <5>. QED
            BY <5>3, <5>4, NumberFacts DEF Holds, items
        <4>6. \A c \in Numbers : Holds(D, c) => mailed'[c] = mailed[c]
          BY <4>1, <4>2, <4>4, <4>5
        <4>. QED
          BY <4>6 DEF Holds
      <3>. QED
        BY <3>1, <3>2 DEF ForOf
    <2>. QED
      BY <1>4, <2>1, <2>2, <2>3, <2>4 DEF Edits
  <1>5. ASSUME NEW g \in Handlers, job[g].pc # "idle"
        PROVE  LET j     == job[g]
                   e     == j.patch.edit
                   items == user'[j.user].authTypes
               IN  /\ g # h /\ j.pc = "create" => mailed'[j.no].for = "SIGNUP"
                   /\ g # h /\ j.pc = "save" /\ j.op \in Mailers =>
                        mailed'[j.no].for = e.item.authFor
                   /\ e.kind = "set" /\ j.user \notin Lapsed' =>
                        e.at \in DOMAIN items /\ items[e.at].authFor = e.item.authFor
                   /\ Clears(j) /\ j.code \in Numbers /\ j.user \notin Lapsed' =>
                        mailed'[j.code].for = Purpose(j.op)
    <2>. DEFINE j == job[g]
                e == j.patch.edit
    <2>1. /\ j.pc = "create" => mailed'[j.no].for = "SIGNUP"
          /\ j.pc = "save" /\ j.op \in Mailers => mailed'[j.no].for = e.item.authFor
      BY <1>1 DEF ForInv, TypeInv, MailsOK
    <2>2. ASSUME e.kind = "set", j.user \notin Lapsed'
          PROVE  /\ e.at \in DOMAIN user'[j.user].authTypes
                 /\ user'[j.user].authTypes[e.at].authFor = e.item.authFor
      <3>1. j.user \in Members /\ j.op \in Mailers
        BY <1>5, <2>2, EditKnown
      <3>2. Stored(j.user)
        BY <1>5, <3>1, WorkFacts DEF Mailers
      <3>3. /\ e.at \in DOMAIN user[j.user].authTypes
            /\ user[j.user].authTypes[e.at].authFor = e.item.authFor
        BY <2>2 DEF ForInv
      <3>4. /\ DOMAIN user[j.user].authTypes \subseteq DOMAIN user'[j.user].authTypes
            /\ \A i \in DOMAIN user[j.user].authTypes :
                 user'[j.user].authTypes[i].authFor = user[j.user].authTypes[i].authFor
        BY <2>2, <3>1, <3>2, EditsFacts
      <3>. QED
        BY <3>3, <3>4
    <2>3. Clears(j) /\ j.code \in Numbers /\ j.user \notin Lapsed' =>
            mailed'[j.code].for = Purpose(j.op)
      BY <1>1 DEF ForInv, TypeInv, MailsOK, Clears
    <2>. QED
      BY <2>1, <2>2, <2>3
  <1>6. ASSUME NEW g \in Handlers
        PROVE  LET j     == job'[g]
                   e     == j.patch.edit
                   items == user'[j.user].authTypes
               IN  /\ j.pc = "create" => mailed'[j.no].for = "SIGNUP"
                   /\ j.pc = "save" /\ j.op \in Mailers =>
                        mailed'[j.no].for = e.item.authFor
                   /\ e.kind = "set" /\ j.user \notin Lapsed' =>
                        e.at \in DOMAIN items /\ items[e.at].authFor = e.item.authFor
                   /\ Clears(j) /\ j.code \in Numbers /\ j.user \notin Lapsed' =>
                        mailed'[j.code].for = Purpose(j.op)
    <2>1. CASE job'[g] = Idle
      BY <2>1, IdleFacts DEF Clears
    <2>2. CASE g = h /\ job'[h] # Idle
      BY <1>5, <2>2 DEF Same, Clears
    <2>3. CASE g # h /\ job'[g] # Idle
      <3>1. job'[g] = job[g] /\ job[g].pc # "idle"
        BY <2>3 DEF TypeInv, JobOK
      <3>. QED
        BY <1>5, <2>3, <3>1
    <2>. QED
      BY <2>1, <2>2, <2>3
  <1>. QED
    BY <1>4, <1>6 DEF ForInv, Stored, Clears

\* The codes that were spent before stay gone.
LEMMA SpentKept ==
    ASSUME TypeInv, OneTimeInv, NEW h \in Handlers,
           job[h].pc # "idle", Same(h), Edits(h), Grows, Lapsed \subseteq Lapsed',
           \A g \in Handlers \ {h} : job'[g] = job[g]
    PROVE  /\ \A c \in spent : c \in Numbers /\ mailed'[c] = mailed[c]
           /\ \A c \in spent \ shared : mailed[c].user \notin Lapsed' =>
                /\ user'[mailed[c].user] # Nil /\ mailed[c].for # "FORGET_PASSWORD" =>
                     ~ Holds(user'[mailed[c].user], c)
                /\ \A g \in Handlers : Clears(job'[g]) => job'[g].code # c
  <1>1. \A c \in spent : c \in Numbers /\ mailed[c] # Nil /\ mailed'[c] = mailed[c]
    BY DEF TypeInv, TypeOK, OneTimeInv, SpentInv, Grows
  <1>2. ASSUME NEW c \in spent \ shared, mailed[c].user \notin Lapsed',
               user'[mailed[c].user] # Nil, mailed[c].for # "FORGET_PASSWORD"
        PROVE  ~ Holds(user'[mailed[c].user], c)
    <2>1. mailed[c].user \in Members /\ c \in Numbers
      BY <1>1 DEF TypeInv, TypeOK
    <2>2. c # job[h].no
      BY DEF OneTimeInv, FreshInv
    <2>3. Stored(mailed[c].user) => ~ Holds(user[mailed[c].user], c)
      BY <1>2 DEF OneTimeInv, SpentInv
    <2>4. mailed[c].user \notin stale'
      BY <1>2 DEF Lapsed
    <2>. QED
      BY <1>2, <2>1, <2>2, <2>3, <2>4, EditsFacts DEF OneTimeInv
  <1>3. ASSUME NEW c \in spent \ shared, mailed[c].user \notin Lapsed',
               NEW g \in Handlers, Clears(job'[g])
        PROVE  job'[g].code # c
    <2>1. \A i \in Handlers : Clears(job[i]) => job[i].code # c
      BY <1>3 DEF OneTimeInv, SpentInv
    <2>2. Clears(job[g]) /\ job'[g].code = job[g].code
      <3>1. CASE g # h
        BY <1>3, <3>1
      <3>2. CASE g = h
        <4>1. job'[h] # Idle
          BY <1>3, <3>2, IdleFacts DEF Clears
        <4>. QED
          BY <1>3, <3>2, <4>1 DEF Same, Clears
      <3>. QED
        BY <3>1, <3>2
    <2>. QED
      BY <2>1, <2>2
  <1>. QED
    BY <1>1, <1>2, <1>3

\* A step that spends nothing.
LEMMA OneTimeStays ==
    ASSUME TypeInv, OneTimeInv, NEW h \in Handlers,
           job[h].pc # "idle", Same(h), Edits(h), Grows, Lapsed \subseteq Lapsed',
           \A g \in Handlers \ {h} : job'[g] = job[g],
           \A u \in Members : Stored(u) => user'[u] # Nil,
           job'[h].pc = "create" => mailed'[job[h].no].for = "SIGNUP",
           job'[h].pc = "save" /\ job[h].op \in Mailers =>
             mailed'[job[h].no].for = job[h].patch.edit.item.authFor,
           UNCHANGED <<spent, reused, shared>>
    PROVE  OneTimeInv'
  <1>1. ApartInv' /\ FreshInv' /\ PlaceInv' /\ ForInv'
    BY CodesStay, ForStays DEF OneTimeInv
  <1>2. SpentInv'
    <2>1. /\ \A c \in spent : mailed'[c] = mailed[c]
          /\ \A c \in spent \ shared : mailed[c].user \notin Lapsed' =>
               /\ user'[mailed[c].user] # Nil /\ mailed[c].for # "FORGET_PASSWORD" =>
                    ~ Holds(user'[mailed[c].user], c)
               /\ \A g \in Handlers : Clears(job'[g]) => job'[g].code # c
      BY SpentKept
    <2>2. SpentInv
      BY DEF OneTimeInv
    <2>3. CodesAreOneTime'
      BY <2>1, <2>2 DEF SpentInv, CodesAreOneTime, Lapsed
    <2>4. \A c \in spent' \ shared' : mailed'[c].user \notin Lapsed' =>
            /\ user'[mailed'[c].user] # Nil /\ mailed'[c].for # "FORGET_PASSWORD" =>
                 ~ Holds(user'[mailed'[c].user], c)
            /\ \A g \in Handlers : Clears(job'[g]) => job'[g].code # c
      BY <2>1
    <2>5. (\A c \in spent' : mailed'[c] # Nil) /\ (\A y \in reused' : y[1] \in spent')
      BY <2>1, <2>2 DEF SpentInv
    <2>. QED
      BY <2>3, <2>4, <2>5 DEF SpentInv, Stored, Holds, Clears
  <1>. QED
    BY <1>1, <1>2 DEF OneTimeInv

\* A save: the code that let the request through is spent now, and gone.
LEMMA OneTimeSave ==
    ASSUME TypeInv, OneTimeInv, NEW h \in Handlers, Save(h)
    PROVE  OneTimeInv'
  <1>. DEFINE j == job[h]
              u == j.user
              D == Patched(user[u], j.patch)
              c == j.code
  <1>1. /\ j.pc = "save" /\ u \in Members /\ Stored(u) /\ D \in Document
        /\ D.authTypes = Edited(user[u].authTypes, j.patch.edit)
        /\ End(h) /\ UNCHANGED <<mailed, stale, relisted>>
    BY SaveFacts
  <1>2. \/ UNCHANGED <<user, tokens, historyVars>>
        \/ user' = [user EXCEPT ![u] = D] /\ Witness(h)
    BY SaveFacts
  <1>. HIDE DEF D
  <1>3. /\ job'[h] = Idle /\ \A g \in Handlers \ {h} : job'[g] = job[g]
        /\ Same(h) /\ Grows /\ JobOK(j) /\ D # Nil
    BY <1>1, EndType, NoMailGrows, NumberFacts DEF Same, TypeInv
  <1>4. Edits(h)
    <2>1. \A v \in Members : user'[v] = user[v] \/ (v = u /\ user'[v] = D)
      BY <1>1, <1>2 DEF TypeInv, TypeOK
    <2>. QED
      BY <1>1, <1>3, <2>1 DEF Edits, Stored, Within
  <1>5. \A v \in Members : Stored(v) => user'[v] # Nil
    BY <1>1, <1>2, <1>3 DEF TypeInv, TypeOK, Stored
  <1>0. Lapsed' = Lapsed /\ job'[h].pc = "idle"
    BY <1>1, <1>3, IdleFacts DEF Lapsed
  <1>6. CASE UNCHANGED <<spent, reused, shared>>
    BY <1>0, <1>1, <1>3, <1>4, <1>5, <1>6, OneTimeStays
  <1>7. CASE ~ UNCHANGED <<spent, reused, shared>>
    <2>1. user' = [user EXCEPT ![u] = D] /\ Witness(h)
      BY <1>2, <1>7 DEF historyVars
    <2>2. c \in Numbers /\ Clears(j) /\ j.op # "confirmOTPPassword"
      BY <1>3, <1>7, <2>1, CodeNumber DEF Witness, Clears, JobOK, Job, Ops
    <2>3. /\ spent' = spent \cup {c}
          /\ reused' = reused \cup (({c} \cap spent) \X {j.op})
          /\ shared' = IF \E g \in Handlers \ {h} : job[g].code = c
                         THEN shared \cup {c} ELSE shared
      BY <1>3, <2>1, <2>2, CodeNumber DEF Witness, Clears
    <2>4. ApartInv' /\ FreshInv' /\ PlaceInv' /\ ForInv'
      BY <1>0, <1>1, <1>3, <1>4, <1>5, <2>2, <2>3, CodesStay, ForStays DEF OneTimeInv
    <2>5. MailedFor(mailed, c, u)
      BY <2>2 DEF TypeInv, MailsOK, Clears
    <2>6. mailed[c] # Nil /\ mailed[c].user = u
      BY <2>5, NumberFacts DEF MailedFor
    <2>7. /\ SpentInv
          /\ \A d \in spent \ shared : mailed[d].user \notin Lapsed' =>
               /\ user'[mailed[d].user] # Nil /\ mailed[d].for # "FORGET_PASSWORD" =>
                    ~ Holds(user'[mailed[d].user], d)
               /\ \A g \in Handlers : Clears(job'[g]) => job'[g].code # d
      BY <1>0, <1>1, <1>3, <1>4, SpentKept DEF OneTimeInv
    <2>8. u \notin Lapsed' => ~ Holds(user'[u], c)
      <3>1. user'[u] = D
        BY <1>1, <2>1 DEF TypeInv, TypeOK
      <3>. QED
        BY <1>0, <1>1, <2>2, <3>1, ClearedIsGone DEF OneTimeInv
    <2>9. c \notin shared' => \A g \in Handlers : Clears(job'[g]) => job'[g].code # c
      BY <1>3, <2>3, IdleFacts DEF Clears
    <2>10. \A d \in spent' \ shared' : mailed'[d].user \notin Lapsed' =>
             /\ user'[mailed'[d].user] # Nil /\ mailed'[d].for # "FORGET_PASSWORD" =>
                  ~ Holds(user'[mailed'[d].user], d)
             /\ \A g \in Handlers : Clears(job'[g]) => job'[g].code # d
      <3>1. shared \subseteq shared'
        BY <2>3
      <3>2. \A d \in spent' \ shared' : d = c \/ d \in spent \ shared
        BY <2>3, <3>1
      <3>. QED
        BY <1>1, <2>6, <2>7, <2>8, <2>9, <3>2
    <2>11. CodesAreOneTime'
      <3>1. c \in spent => c \in shared \/ u \in Lapsed
        BY <2>2, <2>6, <2>7 DEF SpentInv
      <3>2. shared \subseteq shared'
        BY <2>3
      <3>3. \A y \in reused' : y \in reused \/ (y[1] = c /\ c \in spent)
        BY <2>3
      <3>. QED
        BY <1>1, <2>6, <2>7, <3>1, <3>2, <3>3 DEF SpentInv, CodesAreOneTime, Lapsed
    <2>12. /\ \A d \in spent' : mailed'[d] # Nil
           /\ \A y \in reused' : y[1] \in spent'
      BY <1>1, <2>3, <2>6, <2>7 DEF SpentInv
    <2>13. SpentInv'
      BY <2>10, <2>11, <2>12 DEF SpentInv, Stored, Holds, Clears
    <2>. QED
      BY <2>4, <2>13 DEF OneTimeInv
  <1>. QED
    BY <1>6, <1>7

\* A new request: its number is nowhere yet, and the code it was let through by is
\* not one that is spent.
LEMMA OneTimeSubmit ==
    ASSUME TypeInv, OneTimeInv, NEW h \in Handlers, Submit(h)
    PROVE  OneTimeInv'
  <1>1. /\ UNCHANGED <<user, stale, relisted, spent, reused, shared>>
        /\ accepted' = accepted + 1 /\ accepted' \in Numbers
        /\ Lapsed' = Lapsed
    BY SubmitBegins DEF Lapsed
  <1>2. PICK j : Begun(h, j) /\ Reads(j) /\ Mails(j) /\ job' = [job EXCEPT ![h] = j]
    BY SubmitBegins DEF Begins
  <1>. DEFINE n == accepted + 1
  <1>3. /\ job'[h] = j /\ \A g \in Handlers \ {h} : job'[g] = job[g]
        /\ job[h].pc = "idle" /\ JobOK(j) /\ j.no = n /\ j.pc # "idle"
    BY <1>2, OneHandler DEF Begun
  <1>4. /\ Grows /\ j.user \in Members
        /\ j.op # "signup" => Stored(j.user) /\ user[j.user] \in Document
        /\ n \in Numbers /\ mailed[n] = Nil
    <2>1. /\ Grows /\ j.user \in Members
          /\ j.op # "signup" => Stored(j.user) /\ user[j.user] \in Document
          /\ mailed[j.no] = Nil
      BY <1>1, <1>2, SubmitFacts
    <2>. QED
      BY <1>1, <1>3, <2>1
  <1>5. /\ j.pc = "writeBack" => j.copy = user[j.user] /\ Stored(j.user)
        /\ Clears(j) =>
             /\ Stored(j.user) /\ j.code # 0
             /\ j.patch.edit.at \in DOMAIN user[j.user].authTypes
             /\ user[j.user].authTypes[j.patch.edit.at].value = j.code
             /\ user[j.user].authTypes[j.patch.edit.at].authFor = Purpose(j.op)
             /\ j.op \in CodeOps
    <2>1. Clears(j) => j.op \in CodeOps /\ j.code # 0
      BY <1>3 DEF JobOK, EditOK, Clears
    <2>2. j.op \in CodeOps => Stored(j.user)
      BY <1>4 DEF CodeOps
    <2>3. j.pc = "writeBack" => Stored(j.user)
      BY <1>3, <1>4 DEF JobOK
    <2>. QED
      BY <1>2, <2>1, <2>2, <2>3 DEF Begun, Reads, Clears
  <1>6. /\ \A c, u : MailedFor(mailed, c, u) => c # n /\ mailed[c] # Nil
        /\ 0 \notin Numbers
    BY <1>4, NumberFacts DEF MailedFor
  \* The new number is nowhere yet.
  <1>7. /\ \A u, doc : CodesOf(mailed, u, doc) => ~ Holds(doc, n)
        /\ \A u, doc : \A c \in Numbers : CodesOf(mailed, u, doc) /\ Holds(doc, c) =>
             MailedFor(mailed, c, u)
    BY <1>4, <1>6 DEF CodesOf, Holds
  <1>8. \A u \in Members : Stored(u) => CodesOf(mailed, u, user[u])
    BY DEF TypeInv, MailsOK
  <1>9. /\ Clears(j) => Holds(user[j.user], j.code)
        /\ Clears(j) /\ j.code \in Numbers => MailedFor(mailed, j.code, j.user)
    BY <1>4, <1>5, <1>7, <1>8 DEF Holds
  <1>10. ApartInv'
    <2>1. j.pc = "writeBack" => Apart(j.copy)
      BY <1>4, <1>5 DEF OneTimeInv, ApartInv
    <2>. QED
      BY <1>1, <1>3, <2>1 DEF OneTimeInv, ApartInv, Stored
  <1>11. FreshInv'
    <2>1. ASSUME NEW g \in Handlers, job'[g].pc # "idle"
          PROVE  /\ \A u \in Members : Stored(u) => ~ Holds(user[u], job'[g].no)
                 /\ job'[g].no \notin spent
                 /\ \A i \in Handlers :
                      /\ job'[i].pc = "writeBack" => ~ Holds(job'[i].copy, job'[g].no)
                      /\ Clears(job'[i]) => job'[i].code # job'[g].no
      <3>1. CASE g = h
        <4>1. \A u \in Members : Stored(u) => ~ Holds(user[u], n)
          BY <1>7, <1>8
        <4>2. n \notin spent
          BY <1>4 DEF OneTimeInv, SpentInv
        <4>3. \A i \in Handlers \ {h} :
                /\ job[i].pc = "writeBack" => ~ Holds(job[i].copy, n)
                /\ Clears(job[i]) => job[i].code # n
          <5>1. ASSUME NEW i \in Handlers
                PROVE  /\ job[i].pc = "writeBack" =>
                            CodesOf(mailed, job[i].user, job[i].copy)
                       /\ Clears(job[i]) /\ job[i].code \in Numbers =>
                            MailedFor(mailed, job[i].code, job[i].user)
            BY DEF TypeInv, MailsOK, Clears
          <5>. QED
            BY <1>4, <1>6, <1>7, <5>1
        <4>4. /\ j.pc = "writeBack" => ~ Holds(j.copy, n)
              /\ Clears(j) => j.code # n
          BY <1>4, <1>5, <1>6, <1>9, <4>1
        <4>. QED
          BY <1>3, <3>1, <4>1, <4>2, <4>3, <4>4
      <3>2. CASE g # h
        <4>. DEFINE c == job[g].no
        <4>1. /\ \A u \in Members : Stored(u) => ~ Holds(user[u], c)
              /\ c \notin spent
              /\ \A i \in Handlers :
                   /\ job[i].pc = "writeBack" => ~ Holds(job[i].copy, c)
                   /\ Clears(job[i]) => job[i].code # c
          BY <1>3, <2>1, <3>2 DEF OneTimeInv, FreshInv
        <4>2. /\ j.pc = "writeBack" => ~ Holds(j.copy, c)
              /\ Clears(j) => j.code # c
          BY <1>4, <1>5, <1>9, <4>1
        <4>. QED
          BY <1>3, <3>2, <4>1, <4>2
      <3>. QED
        BY <3>1, <3>2
    <2>. QED
      BY <1>1, <2>1 DEF FreshInv, Stored, Holds, Clears
  <1>12. PlaceInv'
    <2>1. ASSUME Clears(j), j.code \in Numbers
          PROVE  \A i \in DOMAIN user[j.user].authTypes :
                   user[j.user].authTypes[i].value = j.code => i = j.patch.edit.at
      BY <1>4, <1>5, <2>1 DEF OneTimeInv, ApartInv, Apart
    <2>. QED
      BY <1>1, <1>3, <1>5, <2>1 DEF OneTimeInv, PlaceInv, Clears
  <1>13. ForInv'
    <2>1. \A c, u : MailedFor(mailed, c, u) => mailed'[c] = mailed[c]
      BY <1>4, <1>6 DEF Grows, MailedFor
    <2>2. \A u \in Members \ Lapsed : Stored(u) => ForOf(mailed', user[u])
      BY <1>8, <2>1 DEF OneTimeInv, ForInv, CodesOf, ForOf
    <2>3. /\ j.pc # "create"
          /\ j.pc = "save" /\ j.op \in Mailers =>
               mailed'[j.no].for = j.patch.edit.item.authFor
          /\ j.patch.edit.kind = "set" =>
               /\ j.patch.edit.at \in DOMAIN user[j.user].authTypes
               /\ user[j.user].authTypes[j.patch.edit.at].authFor = j.patch.edit.item.authFor
      <3>1. j.pc = "save" /\ j.op \in Mailers =>
              mailed'[j.no] = [user |-> j.user, for |-> j.patch.edit.item.authFor,
                               to |-> user[j.user].email]
        BY <1>1, <1>2, SubmitFacts
      <3>. QED
        BY <1>2, <3>1 DEF Begun, Reads
    <2>4. Clears(j) /\ j.code \in Numbers /\ j.user \notin Lapsed =>
            mailed'[j.code].for = Purpose(j.op)
      BY <1>4, <1>5, <1>9, <2>1, <2>2 DEF ForOf
    <2>5. ASSUME NEW g \in Handlers
          PROVE  LET i     == job'[g]
                     e     == i.patch.edit
                     items == user[i.user].authTypes
                 IN  /\ i.pc = "create" => mailed'[i.no].for = "SIGNUP"
                     /\ i.pc = "save" /\ i.op \in Mailers =>
                          mailed'[i.no].for = e.item.authFor
                     /\ e.kind = "set" /\ i.user \notin Lapsed =>
                          e.at \in DOMAIN items /\ items[e.at].authFor = e.item.authFor
                     /\ Clears(i) /\ i.code \in Numbers /\ i.user \notin Lapsed =>
                          mailed'[i.code].for = Purpose(i.op)
      <3>1. CASE g = h
        BY <1>3, <2>3, <2>4, <3>1
      <3>2. CASE g # h
        <4>1. /\ job[g].pc = "create" => MailedFor(mailed, job[g].no, job[g].user)
              /\ job[g].pc = "save" /\ job[g].op \in Mailers =>
                   MailedFor(mailed, job[g].no, job[g].user)
              /\ Clears(job[g]) /\ job[g].code \in Numbers =>
                   MailedFor(mailed, job[g].code, job[g].user)
          BY DEF TypeInv, MailsOK, Clears
        <4>. QED
          BY <1>3, <2>1, <3>2, <4>1 DEF OneTimeInv, ForInv
      <3>. QED
        BY <3>1, <3>2
    <2>. QED
      BY <1>1, <2>2, <2>5 DEF ForInv, Stored, Clears
  <1>14. SpentInv'
    <2>1. SpentInv /\ spent \subseteq Numbers
      BY DEF OneTimeInv, TypeInv, TypeOK
    <2>2. \A c \in spent : mailed[c] # Nil /\ mailed'[c] = mailed[c]
      BY <1>4, <2>1 DEF SpentInv, Grows
    <2>3. \A c \in spent \ shared : mailed[c].user \notin Lapsed =>
            /\ Stored(mailed[c].user) /\ mailed[c].for # "FORGET_PASSWORD" =>
                 ~ Holds(user[mailed[c].user], c)
            /\ \A g \in Handlers : Clears(job'[g]) => job'[g].code # c
      <3>1. ASSUME NEW c \in spent \ shared, mailed[c].user \notin Lapsed, Clears(j),
                   j.code = c
            PROVE  FALSE
        <4>1. c \in Numbers /\ mailed[c].user = j.user /\ Holds(user[j.user], c)
          BY <1>9, <2>1, <3>1 DEF MailedFor
        <4>2. mailed[c].for = "FORGET_PASSWORD"
          BY <1>5, <2>1, <3>1, <4>1 DEF SpentInv
        <4>3. mailed'[c].for = Purpose(j.op)
          BY <1>1, <1>3, <1>13, <3>1, <4>1 DEF ForInv, Clears
        <4>4. Purpose(j.op) # "FORGET_PASSWORD"
          BY <1>5, <3>1 DEF CodeOps, Purpose
        <4>. QED
          BY <2>2, <3>1, <4>2, <4>3, <4>4
      <3>. QED
        BY <1>3, <2>1, <3>1 DEF SpentInv
    <2>4. \A c \in spent' \ shared' : mailed'[c].user \notin Lapsed' =>
            /\ user'[mailed'[c].user] # Nil /\ mailed'[c].for # "FORGET_PASSWORD" =>
                 ~ Holds(user'[mailed'[c].user], c)
            /\ \A g \in Handlers : Clears(job'[g]) => job'[g].code # c
      BY <1>1, <2>2, <2>3 DEF Stored
    <2>5. (\A c \in spent' : mailed'[c] # Nil) /\ (\A y \in reused' : y[1] \in spent')
      BY <1>1, <2>1, <2>2 DEF SpentInv
    <2>6. CodesAreOneTime'
      BY <1>1, <2>1, <2>2 DEF SpentInv, CodesAreOneTime, Lapsed
    <2>. QED
      BY <2>4, <2>5, <2>6 DEF SpentInv, Stored, Holds, Clears
  <1>. QED
    BY <1>10, <1>11, <1>12, <1>13, <1>14 DEF OneTimeInv

\* Every step keeps the codes apart and the spent ones gone.
LEMMA OneTimeStep == TypeInv /\ OneTimeInv /\ [Next]_vars => OneTimeInv'
  <1>. SUFFICES ASSUME TypeInv, OneTimeInv, [Next]_vars PROVE OneTimeInv'
    OBVIOUS
  <1>0. \A u \in Members : Stored(u) => Within(user[u], user[u])
    BY DEF Within
  <1>1. ASSUME NEW h \in Handlers, FindMobile(h) \/ FindEmail(h)
        PROVE  OneTimeInv'
    <2>. DEFINE j == job[h]
    <2>1. /\ UNCHANGED <<user, stale, relisted, spent, reused, shared>>
          /\ j.pc \in {"findMobile", "findEmail"}
          /\ \/ End(h)
             \/ Goto(h, "updateOne")
             \/ Goto(h, "create") /\ Mail(j.no, j.user, "SIGNUP", j.email)
             \/ /\ Goto(h, "save") /\ j.op = "changeMail"
                /\ Mail(j.no, j.user, "CHANGE_EMAIL", j.email)
      BY <1>1, FindFacts
    <2>2. Grows /\ Same(h) /\ \A g \in Handlers \ {h} : job'[g] = job[g]
      BY <1>1, FindType
    <2>3. /\ j.no \in Numbers /\ job \in [Handlers -> Job] /\ JobOK(j) /\ j \in Job
          /\ mailed \in [Numbers -> [user : Members, for : Purposes, to : Emails]
                                      \cup {Nil}]
      BY <2>1, WorkFacts DEF TypeInv, TypeOK
    <2>4. \A p, to : Mail(j.no, j.user, p, to) => mailed'[j.no].for = p
      BY <2>3 DEF Mail
    <2>5. job'[h].pc = "create" => mailed'[j.no].for = "SIGNUP"
      BY <2>1, <2>3, <2>4, IdleFacts DEF End, Goto, Job
    <2>6. job'[h].pc = "save" /\ j.op \in Mailers =>
            mailed'[j.no].for = j.patch.edit.item.authFor
      <3>1. j.op = "changeMail" => j.patch.edit.item.authFor = "CHANGE_EMAIL"
        BY <2>3 DEF JobOK, EditOK, Mailers, Purpose
      <3>. QED
        BY <2>1, <2>3, <2>4, <3>1, IdleFacts DEF End, Goto, Job
    <2>7. Edits(h) /\ Lapsed \subseteq Lapsed'
      BY <1>0, <2>1 DEF Edits, Stored, Lapsed
    <2>. QED
      BY <2>1, <2>2, <2>5, <2>6, <2>7, OneTimeStays DEF Stored
  <1>2. ASSUME NEW h \in Handlers, Create(h) PROVE OneTimeInv'
    <2>1. /\ End(h) /\ UNCHANGED <<mailed, stale, relisted, spent, reused, shared>>
          /\ job[h].pc = "create" /\ job[h].user \in Members
      BY <1>2, CreateFacts
    <2>2. /\ job'[h] = Idle /\ \A g \in Handlers \ {h} : job'[g] = job[g]
          /\ Same(h) /\ Grows /\ Lapsed \subseteq Lapsed' /\ job'[h].pc = "idle"
      BY <2>1, EndType, NoMailGrows, IdleFacts DEF Same, Lapsed
    <2>3. Edits(h) /\ \A u \in Members : Stored(u) => user'[u] # Nil
      <3>1. \/ UNCHANGED user
            \/ /\ user' = [user EXCEPT ![job[h].user] = user'[job[h].user]]
               /\ DOMAIN user'[job[h].user].authTypes = {1}
               /\ user'[job[h].user].authTypes[1].value = job[h].no
               /\ user'[job[h].user].authTypes[1].authFor = "SIGNUP"
               /\ ~ Stored(job[h].user)
        BY <1>2, CreateFacts
      <3>2. \A u \in Members :
              \/ user'[u] = user[u]
              \/ /\ u = job[h].user /\ ~ Stored(u)
                 /\ DOMAIN user'[u].authTypes = {1}
                 /\ user'[u].authTypes[1].value = job[h].no
                 /\ user'[u].authTypes[1].authFor = "SIGNUP"
        BY <2>1, <3>1 DEF TypeInv, TypeOK
      <3>. QED
        BY <1>0, <2>1, <2>2, <3>2 DEF Edits, Stored
    <2>. QED
      BY <2>1, <2>2, <2>3, OneTimeStays
  <1>3. ASSUME NEW h \in Handlers, UpdateOne(h) \/ SetPassword(h) \/ WriteBack(h)
        PROVE  OneTimeInv'
    <2>. DEFINE u == job[h].user
                D == user'[u]
    <2>1. /\ End(h) /\ UNCHANGED <<mailed, spent, reused, shared>>
          /\ job[h].pc # "idle"
          /\ u \in Members /\ Stored(u) /\ D \in Document
          /\ user' = [user EXCEPT ![u] = D]
      BY <1>3, WriteFacts
    <2>2. /\ stale \subseteq stale' /\ relisted \subseteq relisted'
          /\ \/ D.authTypes = user[u].authTypes
             \/ /\ u \in relisted'
                /\ \A i \in DOMAIN D.authTypes : D.authTypes[i].value \notin Numbers
             \/ job[h].pc = "writeBack" /\ u \in stale' /\ Within(D, job[h].copy)
             \/ Within(D, user[u])
      <3>. DEFINE j == job[h]
      <3>1. \/ UNCHANGED <<user, stale, relisted, named, rivals>>
            \/ /\ UNCHANGED stale
               /\ \/ UNCHANGED relisted /\ D.authTypes = user[u].authTypes
                  \/ /\ relisted' = relisted \cup {u}
                     /\ \A i \in DOMAIN D.authTypes : D.authTypes[i].value \notin Numbers
            \/ UNCHANGED <<stale, relisted>> /\ D.authTypes = user[u].authTypes
            \/ /\ j.pc = "writeBack" /\ UNCHANGED relisted /\ Within(D, j.copy)
               /\ \/ UNCHANGED stale /\ user[u] = j.copy
                  \/ stale' = stale \cup {u}
        BY <1>3, WriteFacts
      <3>. QED
        BY <3>1
    <2>3. /\ job'[h] = Idle /\ \A g \in Handlers \ {h} : job'[g] = job[g]
          /\ Same(h) /\ Grows /\ Lapsed \subseteq Lapsed' /\ job'[h].pc = "idle"
      BY <2>1, <2>2, EndType, NoMailGrows, IdleFacts DEF Same, Lapsed
    <2>4. \A v \in Members \ {u} : user'[v] = user[v]
      BY <2>1 DEF TypeInv, TypeOK
    <2>5. D.authTypes = user[u].authTypes => Within(D, user[u])
      BY DEF Within
    <2>6. D # Nil
      BY <2>1, NumberFacts
    <2>. HIDE DEF u, D
    <2>7. Edits(h) /\ \A v \in Members : Stored(v) => user'[v] # Nil
      BY <1>0, <2>1, <2>2, <2>4, <2>5, <2>6 DEF Edits, Stored, u, D
    <2>. QED
      BY <2>1, <2>3, <2>7, OneTimeStays
  <1>4. ASSUME NEW h \in Handlers, CheckPassword(h) \/ Abort(h) PROVE OneTimeInv'
    <2>1. /\ UNCHANGED <<user, mailed, stale, relisted, spent, reused, shared>> /\ Same(h)
          /\ job[h].pc # "idle"
          /\ job'[h] = Idle \/ job'[h].pc = "setPassword"
          /\ \A g \in Handlers \ {h} : job'[g] = job[g]
      BY <1>4, CheckFacts DEF historyVars
    <2>2. /\ Edits(h) /\ Lapsed \subseteq Lapsed'
          /\ job'[h].pc \notin {"create", "save"}
      BY <1>0, <2>1, IdleFacts DEF Edits, Stored, Lapsed
    <2>. QED
      BY <2>1, <2>2, NoMailGrows, OneTimeStays DEF Stored
  <1>5. CASE Answer
    <2>1. UNCHANGED <<job, mailed, stale, relisted, shared>>
      BY <1>5, AnswerFacts
    <2>2. \A u \in Members : /\ Stored(u) <=> user'[u] # Nil
                             /\ Stored(u) => user'[u].authTypes = user[u].authTypes
      BY <1>5, AnswerFacts, NumberFacts DEF TypeInv, TypeOK, Stored
    <2>3. ApartInv' /\ PlaceInv' /\ ForInv'
      <3>1. \A h \in Handlers : Clears(job[h]) \/ job[h].patch.edit.kind = "set" =>
              job[h].user \in Members /\ Stored(job[h].user)
        <4>1. \A h \in Handlers :
                Clears(job[h]) \/ job[h].patch.edit.kind = "set" => job[h].pc # "idle"
          BY IdleFacts DEF TypeInv, JobOK, Clears
        <4>2. \A h \in Handlers : Clears(job[h]) \/ job[h].patch.edit.kind = "set" =>
                job[h].op \in CodeOps \cup Mailers
          BY DEF TypeInv, JobOK, EditOK, Clears
        <4>. QED
          BY <4>1, <4>2, WorkFacts DEF CodeOps, Mailers
      <3>2. ApartInv'
        BY <2>1, <2>2 DEF OneTimeInv, ApartInv, Apart, Stored
      <3>3. PlaceInv'
        BY <2>1, <2>2, <3>1 DEF OneTimeInv, PlaceInv, Clears, Lapsed
      <3>4. Lapsed' = Lapsed
        BY <2>1 DEF Lapsed
      <3>5. \A u \in Members \ Lapsed : user'[u] # Nil => ForOf(mailed, user'[u])
        BY <2>2 DEF OneTimeInv, ForInv, ForOf
      <3>6. \A h \in Handlers : job[h].patch.edit.kind = "set" =>
              user'[job[h].user].authTypes = user[job[h].user].authTypes
        BY <2>2, <3>1
      <3>7. ForInv'
        BY <2>1, <3>4, <3>5, <3>6 DEF OneTimeInv, ForInv, Clears, Stored
      <3>. QED
        BY <3>2, <3>3, <3>7
    <2>4. CASE UNCHANGED <<spent, reused>>
      <3>1. FreshInv'
        BY <2>1, <2>2, <2>4 DEF OneTimeInv, FreshInv, Holds, Stored, Clears
      <3>2. SpentInv'
        <4>1. \A c \in spent : mailed[c].user \in Members
          BY DEF OneTimeInv, SpentInv, TypeInv, TypeOK
        <4>. QED
          BY <2>1, <2>2, <2>4, <4>1 DEF OneTimeInv, SpentInv, CodesAreOneTime, Holds,
                                Stored, Clears, Lapsed
      <3>. QED
        BY <2>3, <3>1, <3>2 DEF OneTimeInv
    \* A code for a forgotten password is entered: it stays where it is.
    <2>5. ASSUME NEW u \in Members, NEW c \in Numbers, Stored(u), UNCHANGED user,
                 HoldsFor(user[u], "FORGET_PASSWORD", c), spent' = spent \cup {c},
                 reused' = reused \cup (({c} \cap spent) \X {"confirmOTPPassword"})
          PROVE  OneTimeInv'
      <3>1. Holds(user[u], c)
        BY <2>5 DEF HoldsFor, Holds
      <3>2. MailedFor(mailed, c, u)
        BY <2>5, <3>1 DEF TypeInv, MailsOK, CodesOf, Holds
      <3>3. mailed[c] # Nil /\ mailed[c].user = u
        BY <3>2, NumberFacts DEF MailedFor
      <3>4. u \notin Lapsed => mailed[c].for = "FORGET_PASSWORD"
        BY <2>5 DEF OneTimeInv, ForInv, ForOf, HoldsFor
      <3>5. ASSUME NEW h \in Handlers, Clears(job[h]), job[h].code = c, u \notin Lapsed
            PROVE  FALSE
        <4>1. MailedFor(mailed, c, job[h].user)
          BY <3>5 DEF TypeInv, MailsOK, Clears
        <4>2. job[h].user = u
          BY <3>3, <4>1 DEF MailedFor
        <4>3. mailed[c].for = Purpose(job[h].op)
          BY <3>5, <4>2 DEF OneTimeInv, ForInv
        <4>4. job[h].op \in CodeOps
          BY <3>5 DEF TypeInv, JobOK, EditOK, Clears
        <4>. QED
          BY <3>4, <3>5, <4>3, <4>4 DEF CodeOps, Purpose
      <3>6. FreshInv'
        <4>1. \A h \in Handlers : job[h].pc # "idle" => job[h].no # c
          BY <2>5, <3>1 DEF OneTimeInv, FreshInv
        <4>. QED
          BY <2>1, <2>5, <4>1 DEF OneTimeInv, FreshInv, Stored, Clears
      <3>7. SpentInv'
        <4>1. SpentInv /\ UNCHANGED <<mailed, job, user, shared>> /\ Lapsed' = Lapsed
          BY <2>1, <2>5 DEF OneTimeInv, Lapsed
        <4>2. \A d \in spent' \ shared : mailed[d].user \notin Lapsed =>
                /\ Stored(mailed[d].user) /\ mailed[d].for # "FORGET_PASSWORD" =>
                     ~ Holds(user[mailed[d].user], d)
                /\ \A h \in Handlers : Clears(job[h]) => job[h].code # d
          BY <2>5, <3>3, <3>4, <3>5, <4>1 DEF SpentInv
        <4>3. \A d \in spent' : mailed[d] # Nil
          BY <2>5, <3>3, <4>1 DEF SpentInv
        <4>4. \A x \in reused' : x \in reused \/ (x[1] = c /\ x[2] = "confirmOTPPassword")
          BY <2>5
        <4>5. \A x \in reused' : x[1] \in spent'
          BY <2>5, <4>1, <4>4 DEF SpentInv
        <4>6. CodesAreOneTime'
          BY <2>1, <3>3, <3>4, <4>1, <4>4 DEF SpentInv, CodesAreOneTime, Lapsed
        <4>. QED
          BY <4>1, <4>2, <4>3, <4>5, <4>6 DEF SpentInv, Stored, Clears
      <3>. QED
        BY <2>3, <3>6, <3>7 DEF OneTimeInv
    <2>6. \/ UNCHANGED <<spent, reused>>
          \/ /\ UNCHANGED user
             /\ \E u \in Members, c \in Numbers :
                  /\ Stored(u) /\ HoldsFor(user[u], "FORGET_PASSWORD", c)
                  /\ spent' = spent \cup {c}
                  /\ reused' = reused \cup (({c} \cap spent) \X {"confirmOTPPassword"})
      BY <1>5, AnswerFacts
    <2>. QED
      BY <2>4, <2>5, <2>6
  <1>6. CASE UNCHANGED vars \/ Tick
    <2>1. UNCHANGED <<user, job, mailed, stale, relisted, spent, reused, shared>>
      BY <1>6 DEF vars, serviceVars, historyVars, Tick
    <2>2. ApartInv'
      BY <2>1 DEF OneTimeInv, ApartInv, Stored
    <2>3. FreshInv'
      BY <2>1 DEF OneTimeInv, FreshInv, Stored, Clears
    <2>4. PlaceInv'
      BY <2>1 DEF OneTimeInv, PlaceInv, Clears, Lapsed
    <2>5. SpentInv'
      BY <2>1 DEF OneTimeInv, SpentInv, CodesAreOneTime, Stored, Clears, Lapsed
    <2>6. ForInv'
      BY <2>1 DEF OneTimeInv, ForInv, Stored, Clears, Lapsed
    <2>. QED
      BY <2>2, <2>3, <2>4, <2>5, <2>6 DEF OneTimeInv
  <1>. QED
    BY <1>1, <1>2, <1>3, <1>4, <1>5, <1>6, OneTimeSubmit, OneTimeSave
       DEF Next, Rest, Advance

\* A code lets one request through, but for confirmOTPPassword and its code for a
\* forgotten password, and unless two had checked it before one of them saved, or
\* the elements were replaced, by an older document or by PATCH /user.
THEOREM CodesHoldOnce == Spec => []CodesAreOneTime
  <1>1. ASSUME Init PROVE OneTimeInv
    <2>1. /\ \A h \in Handlers : job[h] = Idle
          /\ spent = {} /\ reused = {}
          /\ \A u \in Members : Stored(u) => user[u].authTypes = << >>
      BY <1>1 DEF Init, Stored
    <2>2. ApartInv
      BY <2>1, IdleFacts DEF ApartInv, Apart
    <2>3. FreshInv /\ PlaceInv
      BY <2>1, IdleFacts DEF FreshInv, PlaceInv, Clears
    <2>4. SpentInv
      BY <2>1 DEF SpentInv, CodesAreOneTime
    <2>5. ForInv
      BY <2>1, IdleFacts DEF ForInv, ForOf, Clears
    <2>. QED
      BY <2>2, <2>3, <2>4, <2>5 DEF OneTimeInv
  <1>2. OneTimeInv => CodesAreOneTime
    BY DEF OneTimeInv, SpentInv
  <1>. QED
    BY <1>1, <1>2, OneTimeStep, TypesHold, PTL DEF Spec

-----------------------------------------------------------------------------
(* Mobile numbers                                                          *)

\* A request that has looked its number up or has had it before, and another
\* member who has it: one of the two is a rival, or his document was put back.
MobileInv ==
    /\ MobilesApart
    /\ \A h \in Handlers : \A v \in Members \ {job[h].user} :
         /\ job[h].pc \in {"create", "updateOne"} /\ job[h].mobile # Nil
         /\ Stored(v)
         /\ user[v].mobileNumber = job[h].mobile
         => {job[h].user, v} \cap (rivals \cup stale) # {}

\* A step that gives nobody a number but by putting a document back, and after
\* which no request holds a number that it did not hold before and another has.
LEMMA MobileStays ==
    ASSUME TypeInv, MobileInv, UNCHANGED rivals, stale \subseteq stale',
           \A v \in Members :
             \/ v \in stale'
             \/ user'[v] = Nil
             \/ Stored(v) /\ user'[v].mobileNumber = user[v].mobileNumber,
           \A g \in Handlers :
             \/ job'[g] = job[g]
             \/ job'[g].pc \notin {"create", "updateOne"} \/ job'[g].mobile = Nil
             \/ \A v \in Members \ {job'[g].user} :
                  ~ (Stored(v) /\ user[v].mobileNumber = job'[g].mobile)
             \/ /\ job'[g].user \in Members /\ Stored(job'[g].user)
                /\ user[job'[g].user].mobileNumber = job'[g].mobile
    PROVE  MobileInv'
  <1>1. ASSUME NEW u \in Members, NEW v \in Members \ {u},
               user'[u] # Nil, user'[v] # Nil,
               user'[u].mobileNumber = user'[v].mobileNumber
        PROVE  {u, v} \cap (rivals' \cup stale') # {}
    <2>1. CASE u \in stale' \/ v \in stale'
      BY <2>1
    <2>2. CASE u \notin stale' /\ v \notin stale'
      <3>1. /\ Stored(u) /\ Stored(v)
            /\ user[u].mobileNumber = user[v].mobileNumber
        BY <1>1, <2>2
      <3>2. {u, v} \cap (rivals \cup stale) # {}
        BY <3>1 DEF MobileInv, MobilesApart
      <3>. QED
        BY <3>2
    <2>. QED
      BY <2>1, <2>2
  <1>2. ASSUME NEW g \in Handlers, NEW v \in Members \ {job'[g].user},
               job'[g].pc \in {"create", "updateOne"}, job'[g].mobile # Nil,
               user'[v] # Nil, user'[v].mobileNumber = job'[g].mobile
        PROVE  {job'[g].user, v} \cap (rivals' \cup stale') # {}
    <2>1. CASE v \notin stale'
      <3>1. Stored(v) /\ user[v].mobileNumber = job'[g].mobile
        BY <1>2, <2>1
      <3>2. CASE job'[g] = job[g]
        BY <1>2, <3>1, <3>2 DEF MobileInv
      <3>3. CASE /\ job'[g].user \in Members /\ Stored(job'[g].user)
                 /\ user[job'[g].user].mobileNumber = job'[g].mobile
        BY <1>2, <3>1, <3>3 DEF MobileInv, MobilesApart
      <3>. QED
        BY <1>2, <3>1, <3>2, <3>3
    <2>2. CASE v \in stale'
      BY <2>2
    <2>. QED
      BY <2>1, <2>2
  <1>. QED
    BY <1>1, <1>2 DEF MobileInv, MobilesApart, Stored

\* A member gets the number of its request: who has it already is noted, and
\* who waits for it becomes a rival.
LEMMA MobileTakes ==
    ASSUME TypeInv, MobileInv, NEW h \in Handlers, Takes(h), End(h),
           UNCHANGED stale,
           job[h].pc \in {"create", "updateOne"}, job[h].user \in Members,
           job[h].mobile # Nil,
           user'[job[h].user].mobileNumber = job[h].mobile,
           \A v \in Members \ {job[h].user} : user'[v] = user[v]
    PROVE  MobileInv'
  <1>. DEFINE j == job[h]
              u == j.user
  <1>1. job'[h] = Idle /\ \A g \in Handlers \ {h} : job'[g] = job[g]
    BY EndType
  <1>2. /\ rivals \subseteq rivals'
        /\ \A g \in Handlers :
             /\ job[g].pc \in {"create", "updateOne"}
             /\ job[g].mobile = j.mobile
             /\ job[g].user \in Members \ {u}
             => job[g].user \in rivals'
    BY TakesFacts
  <1>3. ASSUME NEW v \in Members \ {u}, user[v] # Nil,
               user[v].mobileNumber = j.mobile
        PROVE  {u, v} \cap (rivals' \cup stale') # {}
    BY <1>2, <1>3 DEF MobileInv, Stored
  <1>4. ASSUME NEW v \in Members, NEW w \in Members \ {v},
               user'[v] # Nil, user'[w] # Nil,
               user'[v].mobileNumber = user'[w].mobileNumber
        PROVE  {v, w} \cap (rivals' \cup stale') # {}
    <2>1. CASE v = u
      <3>1. user[w] # Nil /\ user[w].mobileNumber = j.mobile
        BY <1>4, <2>1
      <3>. QED
        BY <1>3, <1>4, <2>1, <3>1
    <2>2. CASE w = u
      <3>1. user[v] # Nil /\ user[v].mobileNumber = j.mobile
        BY <1>4, <2>2
      <3>. QED
        BY <1>3, <1>4, <2>2, <3>1
    <2>3. CASE v # u /\ w # u
      <3>1. {v, w} \cap (rivals \cup stale) # {}
        BY <1>4, <2>3 DEF MobileInv, MobilesApart, Stored
      <3>. QED
        BY <1>2, <3>1
    <2>. QED
      BY <2>1, <2>2, <2>3
  <1>5. ASSUME NEW g \in Handlers, NEW v \in Members \ {job'[g].user},
               job'[g].pc \in {"create", "updateOne"}, job'[g].mobile # Nil,
               user'[v] # Nil, user'[v].mobileNumber = job'[g].mobile
        PROVE  {job'[g].user, v} \cap (rivals' \cup stale') # {}
    <2>1. g # h /\ job'[g] = job[g] /\ job[g].user \in Members
      <3>1. g # h
        BY <1>1, <1>5, IdleFacts
      <3>. QED
        BY <1>1, <1>5, <3>1, WorkFacts
    <2>2. CASE v = u
      BY <1>2, <1>5, <2>1, <2>2
    <2>3. CASE v # u
      BY <1>2, <1>5, <2>1, <2>3 DEF MobileInv, Stored
    <2>. QED
      BY <2>2, <2>3
  <1>. QED
    BY <1>4, <1>5 DEF MobileInv, MobilesApart, Stored

\* Every step keeps the mobile numbers apart.
LEMMA MobileStep == TypeInv /\ MobileInv /\ [Next]_vars => MobileInv'
  <1>. SUFFICES ASSUME TypeInv, MobileInv, [Next]_vars PROVE MobileInv'
    OBVIOUS
  <1>. user \in [Members -> Document \cup {Nil}]
    BY DEF TypeInv, TypeOK
  <1>1. ASSUME NEW h \in Handlers, Submit(h) PROVE MobileInv'
    <2>1. UNCHANGED <<user, stale, rivals>>
      BY <1>1, SubmitBegins
    <2>2. PICK j : Begun(h, j) /\ job' = [job EXCEPT ![h] = j]
      BY <1>1, SubmitBegins DEF Begins
    <2>3. job'[h] = j /\ \A g \in Handlers \ {h} : job'[g] = job[g]
      BY <2>2, OneHandler DEF Begun
    <2>4. \/ j.pc \notin {"create", "updateOne"} \/ j.mobile = Nil
          \/ /\ j.user \in Members /\ Stored(j.user)
             /\ user[j.user].mobileNumber = j.mobile
      BY <2>2 DEF Begun, JobOK
    <2>. QED
      BY <2>1, <2>3, <2>4, MobileStays DEF Stored
  <1>2. ASSUME NEW h \in Handlers, FindMobile(h) \/ FindEmail(h)
        PROVE  MobileInv'
    <2>1. UNCHANGED <<user, stale, rivals>>
      BY <1>2, FindFacts
    <2>2. Same(h) /\ \A g \in Handlers \ {h} : job'[g] = job[g]
      BY <1>2, FindType
    <2>3. \/ job'[h].pc \notin {"create", "updateOne"}
          \/ job'[h].mobile = job[h].mobile /\ ~ MobileTaken(job[h].mobile)
      <3>1. job[h] \in Job /\ job \in [Handlers -> Job]
        BY DEF TypeInv, TypeOK
      <3>. QED
        BY <1>2, <3>1, FindFacts, IdleFacts DEF End, Goto, Job
    <2>4. \/ job'[h].pc \notin {"create", "updateOne"}
          \/ \A v \in Members :
               ~ (Stored(v) /\ user[v].mobileNumber = job'[h].mobile)
      BY <2>3 DEF MobileTaken
    <2>. QED
      BY <2>1, <2>2, <2>4, MobileStays DEF Stored
  <1>3. ASSUME NEW h \in Handlers, Create(h) PROVE MobileInv'
    <2>. DEFINE u == job[h].user
    <2>1. /\ End(h) /\ UNCHANGED stale /\ u \in Members
          /\ job[h].pc = "create"
      BY <1>3, CreateFacts
    <2>2. /\ job'[h] = Idle /\ \A g \in Handlers \ {h} : job'[g] = job[g]
          /\ job[h].mobile # Nil
      BY <2>1, EndType, NumberFacts DEF TypeInv, JobOK
    <2>3. CASE UNCHANGED <<user, rivals>>
      BY <2>1, <2>2, <2>3, IdleFacts, MobileStays DEF Stored
    <2>4. CASE /\ user' = [user EXCEPT ![u] = user'[u]] /\ Takes(h)
               /\ user'[u].mobileNumber = job[h].mobile
      <3>1. \A v \in Members \ {u} : user'[v] = user[v]
        BY <2>1, <2>4
      <3>. QED
        BY <2>1, <2>2, <2>4, <3>1, MobileTakes
    <2>. QED
      BY <1>3, <2>3, <2>4, CreateFacts
  <1>4. ASSUME NEW h \in Handlers, Save(h) PROVE MobileInv'
    <2>. DEFINE u == job[h].user
                D == Patched(user[u], job[h].patch)
    <2>1. /\ End(h) /\ UNCHANGED <<stale, rivals>> /\ u \in Members /\ Stored(u)
          /\ D.mobileNumber = user[u].mobileNumber
          /\ user' = user \/ user' = [user EXCEPT ![u] = D]
      BY <1>4, SaveFacts
    <2>2. job'[h] = Idle /\ \A g \in Handlers \ {h} : job'[g] = job[g]
      BY <2>1, EndType
    <2>. HIDE DEF D
    <2>3. \A v \in Members :
            \/ user'[v] = Nil
            \/ Stored(v) /\ user'[v].mobileNumber = user[v].mobileNumber
      BY <2>1 DEF Stored
    <2>. QED
      BY <2>1, <2>2, <2>3, IdleFacts, MobileStays
  <1>5. ASSUME NEW h \in Handlers, UpdateOne(h) \/ SetPassword(h) \/ WriteBack(h)
        PROVE  MobileInv'
    <2>. DEFINE u == job[h].user
                D == user'[u]
    <2>1. /\ End(h) /\ u \in Members /\ Stored(u) /\ stale \subseteq stale'
          /\ user' = [user EXCEPT ![u] = D]
      BY <1>5, WriteFacts
    <2>2. job'[h] = Idle /\ \A g \in Handlers \ {h} : job'[g] = job[g]
      BY <2>1, EndType
    <2>3. \A v \in Members \ {u} : user'[v] = user[v]
      BY <2>1
    <2>4. CASE /\ job[h].pc = "updateOne" /\ UNCHANGED stale /\ Takes(h)
               /\ job[h].mobile # Nil /\ D.mobileNumber = job[h].mobile
      BY <2>1, <2>3, <2>4, MobileTakes
    <2>5. CASE /\ UNCHANGED rivals
               /\ u \in stale' \/ D.mobileNumber = user[u].mobileNumber
      <3>1. \A v \in Members :
              \/ v \in stale'
              \/ user'[v] = Nil
              \/ Stored(v) /\ user'[v].mobileNumber = user[v].mobileNumber
        BY <2>1, <2>3, <2>5 DEF Stored
      <3>. QED
        BY <2>1, <2>2, <2>5, <3>1, IdleFacts, MobileStays
    <2>6. \/ /\ job[h].pc = "updateOne" /\ UNCHANGED stale /\ Takes(h)
             /\ D.mobileNumber = IF job[h].mobile = Nil
                                   THEN user[u].mobileNumber ELSE job[h].mobile
          \/ UNCHANGED rivals /\ (u \in stale' \/ D.mobileNumber = user[u].mobileNumber)
      <3>. DEFINE j == job[h]
      <3>1. \/ UNCHANGED <<user, stale, relisted, named, rivals>>
            \/ /\ j.pc = "updateOne" /\ UNCHANGED stale /\ Takes(h)
               /\ D.mobileNumber = IF j.mobile = Nil
                                     THEN user[u].mobileNumber ELSE j.mobile
            \/ UNCHANGED rivals /\ D.mobileNumber = user[u].mobileNumber
            \/ /\ UNCHANGED rivals /\ D.mobileNumber = j.copy.mobileNumber
               /\ user[u] = j.copy \/ stale' = stale \cup {u}
        BY <1>5, WriteFacts
      <3>2. user' = user => D.mobileNumber = user[u].mobileNumber
        OBVIOUS
      <3>. HIDE DEF D
      <3>. QED
        BY <3>1, <3>2
    <2>7. job[h].mobile = Nil /\ Takes(h) => UNCHANGED rivals
      BY TakesFacts
    <2>. HIDE DEF u, D
    <2>. QED
      BY <2>4, <2>5, <2>6, <2>7 DEF u, D
  <1>6. ASSUME NEW h \in Handlers, CheckPassword(h) \/ Abort(h) PROVE MobileInv'
    <2>1. /\ UNCHANGED <<user, stale, rivals>>
          /\ job'[h].pc \in {"idle", "setPassword"}
          /\ \A g \in Handlers \ {h} : job'[g] = job[g]
      BY <1>6, CheckFacts, IdleFacts DEF historyVars
    <2>. QED
      BY <2>1, MobileStays DEF Stored
  <1>7. CASE Answer
    <2>1. UNCHANGED <<job, stale, rivals>>
      BY <1>7, AnswerFacts
    <2>2. \A v \in Members :
            \/ user'[v] = Nil
            \/ Stored(v) /\ user'[v].mobileNumber = user[v].mobileNumber
      BY <1>7, AnswerFacts DEF Stored
    <2>. QED
      BY <2>1, <2>2, MobileStays
  <1>8. CASE UNCHANGED vars \/ Tick
    BY <1>8, MobileStays DEF vars, serviceVars, historyVars, Tick, Stored
  <1>. QED
    BY <1>1, <1>2, <1>3, <1>4, <1>5, <1>6, <1>7, <1>8 DEF Next, Rest, Advance

\* Two members have one mobile number only where one had looked it up before the
\* other got it, or a document was put back: the lookup of signup and updateUser
\* keeps them apart otherwise, for any number of requests at a time.
THEOREM MobilesStayApart == Spec => []MobilesApart
  <1>1. Init => MobileInv
    <2>. SUFFICES ASSUME Init PROVE MobileInv
      OBVIOUS
    <2>1. \A h \in Handlers : job[h].pc = "idle"
      BY IdleFacts DEF Init
    <2>2. ASSUME NEW u \in Members, NEW v \in Members \ {u},
                 Stored(u), Stored(v),
                 user[u].mobileNumber = user[v].mobileNumber
          PROVE  u \in rivals
      <3>1. u \in Joined /\ v \in Joined
        BY <2>2 DEF Init, Stored
      <3>2. HomeMobile[u] = HomeMobile[v]
        BY <2>2, <3>1 DEF Init
      <3>. QED
        BY <3>1, <3>2 DEF Init
    <2>. QED
      BY <2>1, <2>2 DEF MobileInv, MobilesApart
  <1>2. MobileInv => MobilesApart
    BY DEF MobileInv
  <1>. QED
    BY <1>1, <1>2, MobileStep, TypesHold, PTL DEF Spec
=============================================================================
