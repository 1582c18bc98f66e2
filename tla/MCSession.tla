------------------------------ MODULE MCSession ------------------------------
(* Small instances of SessionStore for TLC.                                 *)
EXTENDS SessionStore

(* Anything may fail, the process and the power included.                   *)
Everything == {"write", "sync", "crash", "power"}
=============================================================================
