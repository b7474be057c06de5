-------------------------- MODULE MCStoreConnection --------------------------
(* Instances of StoreConnection for TLC.  Sessions are created with a      *)
(* status of None, which the column holds as the text "None", and without  *)
(* an owner; created_at is a column that an update does not set.           *)
EXTENDS StoreConnection

CONSTANTS p1, p2, s1, s2, owner, status, created_at, text, none, noneText

MCProcs == {p1, p2}
MCKeys == {s1, s2}
MCFields == {owner, status, created_at}
MCSettable == {owner, status}
MCValues == {text, none, noneText}
MCText == [v \in MCValues |-> IF v = none THEN noneText ELSE v]
MCDefault == [f \in MCFields |-> text]
MCGiven == {[f \in MCFields |-> IF f = status THEN none ELSE Missing]}
MCUpdates == {<<status, text>>}
MCStubborn == {p1}
=============================================================================
