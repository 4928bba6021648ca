---------------------------- MODULE MCTargetOrder ----------------------------
(***************************************************************************)
(* Three targets with up to two dependencies each.                         *)
(***************************************************************************)
EXTENDS TargetOrder

MCTargetSeq == <<"a", "b", "c">>
=============================================================================
