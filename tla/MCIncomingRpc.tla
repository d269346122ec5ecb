---------------------------- MODULE MCIncomingRpc ----------------------------
(* IncomingRpc with two threads: an RPC of every form from two players, data  *)
(* that is no whole number of bytes, and callbacks that cut or extend it.     *)
EXTENDS IncomingRpc, TLC

CONSTANTS t1, t2, server, other

MCThreads == {t1, t2}
MCRpcs == {"empty", "noHeader", "short", "chat", "ping"}
MCForm == [r \in MCRpcs |-> IF r \in {"chat", "ping"} THEN "fine" ELSE r]
MCBits == [r \in MCRpcs |-> IF r \in {"chat", "short"} THEN 11 ELSE 0]
MCSender == [r \in MCRpcs |->
                IF r = "empty" THEN NoPlayer
                ELSE IF r = "ping" THEN other ELSE server]
MCLengths == {0, 20}

Symmetry == Permutations(MCThreads)
=============================================================================
