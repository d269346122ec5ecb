---------------------------- MODULE MCReceiveHook ----------------------------
(* ReceiveHook with two polling threads and four packets, one of them empty.  *)
EXTENDS ReceiveHook

CONSTANTS t1, t2, p1, p2, p3, p4

MCThreads == {t1, t2}
MCPackets == {p1, p2, p3, p4}
MCMalformed == {p3}
=============================================================================
