--------------------------- MODULE MCOrderManager ---------------------------
(* Instances of OrderManager for TLC. *)
EXTENDS OrderManager, TLC

NoGarbage == {}
Garbage == 0 .. Quantity

\* Orders created alike are interchangeable, and so are an exchange's identifiers.
Alike == Permutations(Orders) \cup Permutations(Ids)
=============================================================================
