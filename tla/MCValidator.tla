------------------------------ MODULE MCValidator ------------------------------
(* Three blocks of three, two and one transfers.  In the first, t2 cannot   *)
(* be decoded and t3's sender has its balance on a second page; t4 has a    *)
(* receiver without an entry, and with a negative balance, t5 no address;   *)
(* t6, alone in its block, cannot be decoded.                               *)
EXTENDS Validator

CONSTANTS t1, t2, t3, t4, t5, t6, a, b, c, d

All == {t1, t2, t3, t4, t5, t6}
ThreeBlocks == <<<<t1, t2, t3>>, <<t4, t5>>, <<t6>>>>
Senders   == [t \in All |-> CASE t = t3 -> b [] t = t4 -> c [] OTHER -> a]
Receivers == [t \in All |-> CASE t = t4 -> d [] t = t1 -> b [] OTHER -> c]
Entries   == [p \in {a, b, c, d} |-> CASE p = b -> 2 [] p = d -> 0 [] OTHER -> 1]
Amounts   == [t \in All |-> CASE t = t1 -> 150 [] t = t3 -> 5 [] OTHER -> 100]
WithoutAddress == {t5}
NotDecodable   == {t2, t6}
Negatives      == {d}
=============================================================================
