----------------------------- MODULE MCSessions -----------------------------
(* Small instances of Sessions for TLC.  Accounts and keys are model values *)
(* that only equality tells apart.                                          *)
EXTENDS Sessions

=============================================================================
