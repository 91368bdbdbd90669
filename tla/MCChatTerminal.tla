--------------------------- MODULE MCChatTerminal ---------------------------
(* Instances of ChatTerminal for TLC.                                       *)
EXTENDS ChatTerminal, TLC
=============================================================================
