------------------------------- MODULE MCTaskQueue -------------------------------
(* Two workers over two messages.                                             *)
EXTENDS TaskQueue
================================================================================
