------------------------ MODULE MCConnectionManager -------------------------
(* One broker id; two heartbeats at a time are one that is replaced and one *)
(* that replaces it, or one that survived its own reconnect and a new one. *)
EXTENDS ConnectionManager
=============================================================================
