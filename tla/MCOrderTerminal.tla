-------------------------- MODULE MCOrderTerminal ---------------------------
(***************************************************************************)
(* OrderTerminal, with its history, for few products and requests.         *)
(***************************************************************************)
EXTENDS OrderTerminalHistory, TLC

CONSTANTS p, q, o1, o2
=============================================================================
