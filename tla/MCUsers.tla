------------------------------- MODULE MCUsers -------------------------------
(***************************************************************************)
(* Values of the constants of Users for TLC.  ann has signed up, new has   *)
(* not.                                                                    *)
(***************************************************************************)
EXTENDS Users, TLC

CONSTANTS ann, new, e1, e2, m1, m2, h1, h2

MCHomeEmail == [u \in Joined |-> e1]
MCHomeMobile == [u \in Joined |-> m1]

\* An element with a code of the member's own.
OwnCode == [authFor |-> "PRE_LOGIN", value |-> Own, expireAt |-> 1]

\* Bodies: a mobile number, and fields that nobody means to offer.
MCBodies ==
    {[NoBody EXCEPT !.mobileNumber = m2],
     [NoBody EXCEPT !.email = e2, !.status = "Online", !.confirmEmail = TRUE,
                    !.authTypes = <<OwnCode>>]}

\* The slots of requests are interchangeable.
Slots == Permutations(Handlers)
=============================================================================
