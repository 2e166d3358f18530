---------------------------- MODULE MCVncSession ----------------------------
(* Small instances of VncSession for TLC. *)
EXTENDS VncSessionInv

MCOne   == {<<1, 1>>}
MCSizes == {<<1, 1>>, <<2, 1>>}
==============================================================================
