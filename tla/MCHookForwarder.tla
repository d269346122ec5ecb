--------------------------- MODULE MCHookForwarder ---------------------------
(* HookForwarder on two threads and one vector, of RpcCallbacks.  (Vectors of *)
(* several types are independent but for the mutex; the proofs have them all. *)
(* Six registrations are what it takes for one not to move the elements.)     *)
EXTENDS HookForwarder

CONSTANTS t1, t2

MCThreads == {t1, t2}
MCRpcHooks == {"OutgoingRpc"}
MCPacketHooks == {}
=============================================================================
