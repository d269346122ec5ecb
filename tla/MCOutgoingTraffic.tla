-------------------------- MODULE MCOutgoingTraffic --------------------------
(* OutgoingTraffic with a stream and bytes sent through the facade, bytes that *)
(* the hook copies, and a message without data.                                *)
EXTENDS OutgoingTraffic

MCMessages == {"packet", "bytes", "rpcBytes", "nothing"}
MCOverload == [packet |-> "Send_BitStream", bytes |-> "RPC_CharPtr",
               rpcBytes |-> "RPC_CharPtr", nothing |-> "RPC_Extended"]
MCViaFacade == {"packet", "bytes"}
MCEmpty == {"nothing"}
=============================================================================
