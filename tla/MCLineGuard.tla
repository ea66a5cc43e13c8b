---------------------------- MODULE MCLineGuard ----------------------------
(* Small instances of LineGuard, in units of one minute: Floor and Ceiling  *)
(* are the 180 s and the 600 s of the code.                                 *)
EXTENDS LineGuard
=============================================================================
