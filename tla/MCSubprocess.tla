---------------------------- MODULE MCSubprocess ----------------------------
(* The instances of Subprocess need no definitions of their own.           *)
EXTENDS Subprocess
=============================================================================
