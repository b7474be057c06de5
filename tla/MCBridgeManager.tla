-------------------------- MODULE MCBridgeManager --------------------------
(* Instances of BridgeManager for TLC.                                     *)
EXTENDS BridgeManager

CONSTANTS s1, s2, s3, aa, AA, bb

MCSessions == {s1, s2, s3}

(* Two addresses, the first in two spellings.                              *)
MCSpellings == {aa, AA, bb}
MCLowerCase == [x \in MCSpellings |-> IF x = AA THEN aa ELSE x]
=============================================================================
