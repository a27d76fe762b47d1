------------------------------ MODULE Payments ------------------------------
(***************************************************************************)
(* What transaction-service promises its users: every operation on a       *)
(* transaction happens at once, or not at all.  A payment takes the amount *)
(* from one account and gives the same amount to another in the very step  *)
(* that shows it as successful, and a refund does the opposite in the step *)
(* that shows it as refunded.                                              *)
(***************************************************************************)
EXTENDS Integers

CONSTANTS Accounts, Owner, Opening, Txns, Amounts, Nil

VARIABLES
    balance,        \* the money on each account
    payment         \* what is known of each transaction, Nil before it exists

Init ==
    /\ balance = [a \in Accounts |-> Opening]
    /\ payment = [t \in Txns |-> Nil]

Move(a, b, n) ==
    /\ a # b
    /\ balance' = [balance EXCEPT ![a] = @ - n, ![b] = @ + n]

Status(t) == IF payment[t] = Nil THEN "None" ELSE payment[t].status

Create(t, type, status, a, b, n) ==
    payment' = [payment EXCEPT ![t] = [type |-> type, status |-> status,
                                       from |-> a, to |-> b, amount |-> n]]

Become(t, status) == payment' = [payment EXCEPT ![t].status = status]

\* The sender pays at once, out of money that is there.
Send(t) ==
    /\ payment[t] = Nil
    /\ \E a, b \in Accounts, n \in Amounts :
         /\ Create(t, "Send", "Success", a, b, n)
         /\ n <= balance[a]
         /\ Move(a, b, n)

\* Somebody asks another user for money.
Ask(t) ==
    /\ payment[t] = Nil
    /\ \E a, b \in Accounts, n \in Amounts :
         Create(t, "Receive", "Pending", a, b, n)
    /\ UNCHANGED balance

\* The user who was asked pays, from any of its accounts, to an account of the
\* user who asked.
Settle(t) ==
    /\ Status(t) = "Pending"
    /\ \E a, b \in Accounts :
         /\ Owner[a] = Owner[payment[t].from]
         /\ Owner[b] = Owner[payment[t].to]
         /\ payment[t].amount <= balance[a]
         /\ Move(a, b, payment[t].amount)
    /\ Become(t, "Success")

Decline(t) ==
    /\ Status(t) = "Pending"
    /\ Become(t, "Failed")
    /\ UNCHANGED balance

Dispute(t) ==
    /\ Status(t) \notin {"None", "Refunding", "Refunded"}
    /\ Become(t, "Refunding")
    /\ UNCHANGED balance

\* An admin decides on a refund: it is paid by the receiver, or dismissed.
Refund(t) ==
    /\ Status(t) = "Refunding"
    /\ Move(payment[t].to, payment[t].from, payment[t].amount)
    /\ Become(t, "Refunded")

Dismiss(t) ==
    /\ Status(t) = "Refunding"
    /\ Become(t, "Success")
    /\ UNCHANGED balance

Report(t) ==
    /\ Status(t) \notin {"None", "Suspicious"}
    /\ Become(t, "Suspicious")
    /\ UNCHANGED balance

Next ==
    \E t \in Txns :
      \/ Send(t)
      \/ Ask(t)
      \/ Settle(t)
      \/ Decline(t)
      \/ Dispute(t)
      \/ Refund(t)
      \/ Dismiss(t)
      \/ Report(t)

Spec == Init /\ [][Next]_<<balance, payment>>
=============================================================================
