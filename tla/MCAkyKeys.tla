------------------------------ MODULE MCAkyKeys ------------------------------
(* A small key table: two types, two ranks, and fewer slots than names. *)
EXTENDS AkyKeys
=============================================================================
