--------------------------- MODULE MCChatCommands ---------------------------
(* ChatCommands with two threads, and a command written in two ways. *)
EXTENDS ChatCommands

CONSTANTS t1, t2

MCThreads == {t1, t2}
MCCommands == {"help", "HELP"}
MCLower == [c \in MCCommands |-> IF c = "HELP" THEN "help" ELSE c]
=============================================================================
