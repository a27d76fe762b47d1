--------------------------- MODULE MCNotifications ---------------------------
(***************************************************************************)
(* Values of the constants of Notifications for TLC.                       *)
(***************************************************************************)
EXTENDS Notifications, TLC

CONSTANTS ann, bob, root, chief, h1

MCAdminList == <<root, chief>>

\* A payment to oneself, and one of which the first to be told never connects.
MCParties == {<<ann, ann>>, <<bob, ann>>}
=============================================================================
