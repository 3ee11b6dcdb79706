---------------------------- MODULE MCActionCenter --------------------------
(* The action center with two actions, two users and two request handlers. *)
EXTENDS ActionCenter
=============================================================================
