---------------------------- MODULE MCBgpSession ----------------------------
(* Instance of BgpSession for TLC.                                         *)
EXTENDS BgpSession, TLC

CONSTANTS p1, a1

Routes == {[ToUpdate |-> {a1}, ToRemove |-> {}]}
=============================================================================
