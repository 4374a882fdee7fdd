--------------------------------- MODULE MCAuth ---------------------------------
(* Two calls of a service, the second of an outdated build.                *)
EXTENDS Auth

CONSTANTS c1, c2
=============================================================================
