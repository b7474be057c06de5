------------------------ MODULE MCInterfaceRestart ------------------------
(* An instance of InterfaceRestart for TLC.                                *)
EXTENDS InterfaceRestart

CONSTANTS s1, s2, aa, AA, bb

MCSessions == {s1, s2}

(* Two addresses, the first in two spellings.                              *)
MCSpellings == {aa, AA, bb}
MCLowerCase == [x \in MCSpellings |-> IF x = AA THEN aa ELSE x]
=============================================================================
