------------------------------ MODULE MCTransfers ------------------------------
(***************************************************************************)
(* Two transfers at a time, of two blocks or of one, in two rounds of      *)
(* sendfile each.                                                          *)
(***************************************************************************)
EXTENDS Transfers
===============================================================================
