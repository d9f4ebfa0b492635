----------------------------- MODULE MCManager -----------------------------
(* Manager with two of everything that can change. *)
EXTENDS Manager

MCFirst == [version |-> 1, value |-> 1, type |-> "stock"]
AllKinds == DOMAIN ScreenOf
=============================================================================
