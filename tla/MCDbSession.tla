------------------------------- MODULE MCDbSession -------------------------------
(* Three requests over two connections, two writes each.                      *)
EXTENDS DbSession
================================================================================
