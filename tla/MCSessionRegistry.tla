------------------------- MODULE MCSessionRegistry -------------------------
(***************************************************************************)
(* Small instances of SessionRegistry.                                     *)
(***************************************************************************)
EXTENDS SessionRegistry

CONSTANTS s1, s2, h1, h2, w1, w2
=============================================================================
