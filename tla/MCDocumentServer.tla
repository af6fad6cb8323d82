-------------------------- MODULE MCDocumentServer --------------------------
(* One document served, removed and added again, with two sockets at a time. *)
EXTENDS DocumentServer
=============================================================================
