------------------------------ MODULE MCJobPool ------------------------------
(* Instance of JobPool for TLC; the values are in the configuration.        *)
EXTENDS JobPool
=============================================================================
