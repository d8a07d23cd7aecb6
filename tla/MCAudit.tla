------------------------------ MODULE MCAudit ------------------------------
(* A seed whose first solution returns after a checkpoint without one, and a  *)
(* seed with a single checkpoint.                                             *)
EXTENDS Audit

MCTexts == {"A", "B", Blank}

MCSolutions == << <<"A", Blank, "A">>, <<"B">> >>

=============================================================================
