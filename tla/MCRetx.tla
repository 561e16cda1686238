------------------------------- MODULE MCRetx -------------------------------
(* Retx with the code's MAX_RETX, two packets and two indexes: they may share *)
(* an index, and an answer to one may find the other.                         *)
EXTENDS Retx
=============================================================================
