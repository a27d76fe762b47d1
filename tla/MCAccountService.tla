-------------------------- MODULE MCAccountService --------------------------
(***************************************************************************)
(* Values of the constants of AccountService for TLC.                      *)
(***************************************************************************)
EXTENDS AccountService, TLC

CONSTANTS ann, bob, c1, c2, c3, h1, h2

\* The slots of requests are interchangeable, and so are two of the cards.
Slots == Permutations(Handlers) \cup Permutations({c2, c3})
=============================================================================
