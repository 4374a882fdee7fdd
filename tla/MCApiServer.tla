------------------------------ MODULE MCApiServer ------------------------------
(* Four transfers, and pages of two.                                       *)
EXTENDS ApiServer

CONSTANTS a, b, c, d
=============================================================================
