---------------------------- MODULE MCDeployment ----------------------------
(* Instances of Deployment for TLC.                                        *)
EXTENDS Deployment

CONSTANTS w1, w2
=============================================================================
