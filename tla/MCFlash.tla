------------------------------ MODULE MCFlash ------------------------------
(* Two pages of three half-words.  A half-word is 0, which can be           *)
(* programmed anywhere, another value, or erased (0xFFFF).                  *)
EXTENDS Flash

Words1(p, o, a) == [page |-> p, off |-> o, num |-> 1, data |-> [w \in 0 .. 0 |-> a]]
Words2(p, o, a, b) ==
  [page |-> p, off |-> o, num |-> 2, data |-> [w \in 0 .. 1 |-> IF w = 0 THEN a ELSE b]]

(* The program's own write is one half-word, at the second of its page; the *)
(* others fill a page up to its end.                                        *)
MCRequests == {Words1(0, 1, 1), Words1(1, 2, 0), Words2(1, 1, 0, 1)}
=============================================================================
