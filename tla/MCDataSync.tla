----------------------------- MODULE MCDataSync -----------------------------
(* Instances of DataSync for TLC. *)
EXTENDS DataSync

CONSTANTS raw, stats

OneRaw == {raw}
OneStats == {stats}
\* A raw price is replaced by a newer one, a statistic comes once.
FewRows == [k \in Keys |-> IF k = raw THEN 2 ELSE 1]
=============================================================================
