---------------------------- MODULE MCUthernet2 ----------------------------
(* Small instances of the Uthernet II card.                                *)
EXTENDS Uthernet2
=============================================================================
