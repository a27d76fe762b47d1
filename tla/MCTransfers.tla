----------------------------- MODULE MCTransfers -----------------------------
(***************************************************************************)
(* Values of the constants of Transfers for TLC.  An amount of 1 stands    *)
(* for a share of the balance: only comparisons and sums of amounts matter *)
(* to the handlers.                                                        *)
(***************************************************************************)
EXTENDS SerialTransfers, TLC

CONSTANTS alice, bob, a1, a2, b1, h1, h2

\* alice may own two accounts, bob owns one.
MCOwner == [a \in Accounts |-> IF a = b1 THEN bob ELSE alice]

\* The slots of requests are interchangeable.
Slots == Permutations(Handlers)
=============================================================================
