----------------------------- MODULE MCBootstrap -----------------------------
(* Bootstrap with three clients, so that the list has a first, a middle and a *)
(* last node, and LISTs of two addresses (ADDR_TOSEND).                        *)
EXTENDS Bootstrap
=============================================================================
