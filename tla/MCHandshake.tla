------------------------------ MODULE MCHandshake ------------------------------
(* Versions below, between and above those the viewer knows; every type it     *)
(* supports, alone and beside a preferred one, and one it does not support.    *)
EXTENDS Handshake

MCBanners == {<<3, 3>>, <<3, 5>>, <<3, 7>>, <<3, 8>>, <<3, 889>>, <<4, 1>>}
MCOffers  == {{}, {1}, {2}, {1, 2}, {5}, {6, 5}, {1, 129}, {130}, {16}}
MCSaved   == {NoPassword, "right", "wrong", "long"}
===============================================================================
