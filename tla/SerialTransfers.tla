--------------------------- MODULE SerialTransfers ---------------------------
(***************************************************************************)
(* Requests that are served one after the other, none of which names its   *)
(* own sender as the other party, while no call fails and no account is    *)
(* deleted.  There the handlers keep what Payments promises.               *)
(***************************************************************************)
EXTENDS Transfers

\* The one handler.
Server == CHOOSE h \in Handlers : TRUE

\* What the request in progress has moved into or out of an account.  Its
\* transaction is not saved yet, so Payments has not seen it.
Moved(a) ==
    LET j      == job[Server]
        pays   == j.op \in {"sendMoney", "confirmReceive"}
        out    == \/ pays /\ j.pc \in {"credit", "record"} /\ j.src = a
                  \/ ~ pays /\ j.op = "approveRefund" /\ j.pc = "record" /\ j.dst = a
        into   == \/ pays /\ j.pc = "record" /\ j.dst = a
                  \/ j.op = "approveRefund" /\ j.pc \in {"takeBack", "record"} /\ j.src = a
    IN  (IF into THEN j.amount ELSE 0) - (IF out THEN j.amount ELSE 0)

\* The balance without what is in progress.
Settled(a) == account[a].bal - Moved(a)

\* The handlers implement the promise: a payment or a refund takes effect when
\* its status is saved.
Abstract == INSTANCE Payments WITH
    balance <- [a \in Accounts |-> Settled(a)],
    payment <- txn

ImplementsPayments == Abstract!Spec

\* Money is neither made nor lost: at every moment the balances, less what the
\* request in progress has moved, add up to what there was at the start.
MoneyConserved ==
    SumFunction([a \in Accounts |-> Settled(a)]) = Opening * Cardinality(Accounts)

\* A payment is made once, and a refund once for each time it was asked for.
NoRepetition ==
    \A t \in Txns :
      /\ trail[t].paid <= 1
      /\ trail[t].repaid <= trail[t].disputed

\* The only account of its user.
Sole(a) == \A b \in Accounts : Owner[b] = Owner[a] => b = a

\* checkLimit judges limit.spent of the copy that is going to be written, and the
\* hook charges it after the payment is saved, on the account the transaction
\* names.  Where that can be no other than the paying one, what has been paid out
\* of an account since its limit was set is within the limit, also when the limit
\* is changed in the middle of a payment.
SoleLimitKept ==
    \A a \in Accounts :
      Found(a) /\ Sole(a) => book[a].out <= account[a].cap

\* confirmReceive refuses a transaction that is no longer pending
\* ("Transaction already Success"): no transaction is paid twice.
PaidOnce == \A t \in Txns : trail[t].paid <= 1

\* checkLimit refuses a payment that would "exceed the limit": what has been
\* paid out of an account since its limit was set is within the limit.
WithinLimit ==
    \A a \in Accounts : Found(a) => book[a].out <= account[a].cap

\* Once the payer is debited, the payee is credited and the payment recorded.
DebitSettles ==
    \A t \in Txns :
      trail[t].drawn > 0 ~> /\ trail[t].paid > 0
                            /\ txn[t] # Nil
                            /\ txn[t].status # "Pending"
=============================================================================
