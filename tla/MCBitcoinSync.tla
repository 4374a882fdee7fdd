----------------------------- MODULE MCBitcoinSync -----------------------------
(* Four heights, two reorganisations of up to two blocks, two requests at a *)
(* time and one failure.                                                    *)
EXTENDS BitcoinSync
=============================================================================
