-------------------------------- MODULE Lists --------------------------------
(* Sequences made of the pieces of a sequence, without an operator as a       *)
(* parameter.                                                                 *)
EXTENDS Naturals, Sequences

(* The sequences of ss, one after the other.                                  *)
Joined(ss) ==
    LET joined[n \in 0..Len(ss)] == IF n = 0 THEN <<>> ELSE joined[n - 1] \o ss[n]
    IN  joined[Len(ss)]

(* What is left of s when only the places in ks are kept.                     *)
Picked(s, ks) == Joined([k \in DOMAIN s |-> IF k \in ks THEN <<s[k]>> ELSE <<>>])

(* s without the elements that equal e.                                       *)
Without(s, e) == Picked(s, {k \in DOMAIN s : s[k] /= e})
=============================================================================
