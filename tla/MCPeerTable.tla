----------------------------- MODULE MCPeerTable -----------------------------
(* PeerTable with four peers and room for three: a sweep meets a first, a     *)
(* middle and a last node.                                                    *)
EXTENDS PeerTable
=============================================================================
