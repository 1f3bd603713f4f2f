--------------------------- MODULE MCEmailDispatch ---------------------------
(* A process with the e-mail consumer and one other, and its invitations. *)
EXTENDS EmailDispatch

CONSTANTS r1, r2
=============================================================================
