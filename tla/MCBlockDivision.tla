---------------------------- MODULE MCBlockDivision ----------------------------
(***************************************************************************)
(* BlockDivision for TLC: one, two, three and seven repositories, and two  *)
(* whose ids are not in order.                                             *)
(***************************************************************************)
EXTENDS BlockDivision

MCLists == {<<1>>, <<1, 2>>, <<3, 1>>, <<1, 2, 3>>, <<1, 2, 3, 4, 5, 6, 7>>}
MCSizes == 0..31

===============================================================================
