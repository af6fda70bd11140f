---------------------------- MODULE MCNotifications ----------------------------
(***************************************************************************)
(* A small instance of Notifications: one tab, whose user owns one of two  *)
(* follows.                                                                *)
(***************************************************************************)
EXTENDS Notifications, TLC

CONSTANTS f1, f2, owner, stranger

OneEach == (f1 :> owner @@ f2 :> stranger)
AllOwners == [c \in Clients |-> owner]
=============================================================================
