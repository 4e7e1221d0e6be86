--------------------------- MODULE MCPasswordReset ---------------------------
(* PasswordReset with model values for TLC: two sources that share an account      *)
(* (ResetCrash, ResetOrphan), two accounts of one source (ResetLiveness).          *)
EXTENDS PasswordResetProps
=============================================================================
