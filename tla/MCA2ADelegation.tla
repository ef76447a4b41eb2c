--------------------------- MODULE MCA2ADelegation ---------------------------
(* Instances of A2ADelegation for TLC. *)
EXTENDS A2ADelegation
=============================================================================
