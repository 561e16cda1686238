----------------------------- MODULE MCSuperpeer -----------------------------
(* Superpeer with two peers and room for one, so that the list is full after  *)
(* the first JOIN and its only node may be the promoted one, the child or the *)
(* one a LEAVE removes; a child may miss one pong, a PROMOTE lives one sweep. *)
EXTENDS Superpeer
=============================================================================
