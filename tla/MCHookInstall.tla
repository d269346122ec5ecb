---------------------------- MODULE MCHookInstall ----------------------------
(* HookInstall with two threads that call it and two addresses a client can   *)
(* be allocated at.                                                           *)
EXTENDS HookInstall

CONSTANTS t1, t2, c1, c2

MCCallers == {t1, t2}
MCClients == {c1, c2}
=============================================================================
