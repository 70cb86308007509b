---------------------------- MODULE MCAkyKeyList ----------------------------
(* Four names, two slots, four addresses, five keys: lists of every length to four, *)
(* emptied and refilled over reused memory.  Addresses are interchangeable. *)
EXTENDS AkyKeyList, TLC

Addresses == Permutations(Elems)
=============================================================================
