------------------------------- MODULE MCLogger -------------------------------
(* Logger for two threads, two mod names, and a few calls and faults.         *)
EXTENDS Logger
=============================================================================
