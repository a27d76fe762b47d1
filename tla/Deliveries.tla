------------------------------ MODULE Deliveries ------------------------------
(***************************************************************************)
(* What the services promise to a client and to those whom a request       *)
(* concerns.  A request changes what is stored before it is answered, once *)
(* or never; those whom it concerns are told in their order, before the    *)
(* change or after it; and the answer is that all went well only if all of *)
(* it is done.  After an error the change is not made any more, but who is *)
(* being told may still be told.                                           *)
(***************************************************************************)
EXTENDS Integers, Sequences

CONSTANTS
    Numbers,        \* the requests
    Audiences       \* sequences of those whom a request may concern

VARIABLES
    request,        \* what each request is
    stored,         \* requests whose change is stored
    told,           \* who has been told of each request
    answer          \* what its client was told

vars == <<request, stored, told, answer>>

Ways == {"saveFirst", "tellFirst", "tellOnly"}

NoRequest == [way |-> "none", who |-> << >>]

Init ==
    /\ request = [n \in Numbers |-> NoRequest]
    /\ stored = {}
    /\ told = [n \in Numbers |-> {}]
    /\ answer = [n \in Numbers |-> "none"]

Made(n) == request[n].way # "none"

AllTold(n) == \A i \in DOMAIN request[n].who : request[n].who[i] \in told[n]

Ask(n) ==
    /\ ~ Made(n)
    /\ \E way \in Ways, who \in Audiences :
         request' = [request EXCEPT ![n] = [way |-> way, who |-> who]]
    /\ UNCHANGED <<stored, told, answer>>

\* The change is stored while the client waits.
Store(n) ==
    /\ Made(n)
    /\ answer[n] = "none"
    /\ request[n].way # "tellOnly"
    /\ request[n].way = "tellFirst" => AllTold(n)
    /\ stored' = stored \cup {n}
    /\ UNCHANGED <<request, told, answer>>

\* The next one is told, when all before have been.
Tell(n) ==
    /\ Made(n)
    /\ request[n].way = "saveFirst" => n \in stored
    /\ \E i \in DOMAIN request[n].who :
         /\ \A k \in DOMAIN request[n].who :
              k < i => request[n].who[k] \in told[n]
         /\ told' = [told EXCEPT ![n] = @ \cup {request[n].who[i]}]
    /\ UNCHANGED <<request, stored, answer>>

\* A client is answered once.
Answer(n) ==
    /\ Made(n)
    /\ answer[n] = "none"
    /\ \E result \in {"ok", "error"} :
         /\ result = "ok" => /\ request[n].way # "tellOnly" => n \in stored
                             /\ AllTold(n)
         /\ answer' = [answer EXCEPT ![n] = result]
    /\ UNCHANGED <<request, stored, told>>

Next == \E n \in Numbers : Ask(n) \/ Store(n) \/ Tell(n) \/ Answer(n)

Spec == Init /\ [][Next]_vars
=============================================================================
