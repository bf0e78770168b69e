----------------------------- MODULE MCDbSlice -------------------------------
(* DbSlice on small instances. *)
EXTENDS DbSlice

CONSTANT s1

OneString == {s1}
NotIntegers == [v \in {} |-> 0]
PaddedZero == [v \in {s1} |-> 0]
SignedTtls == {-1, 1}
FewTtls == {1, 2}
OneTtl == {1}
SomeFlags == {{}, {"NX"}, {"XX"}, {"KEEPTTL", "GET"}}
FewFlags == {{}, {"KEEPTTL"}}

(* No action reads `last`, and properties only read its new value, so that *)
(* one state per database contents and time is enough for safety.          *)
Contents == <<dbs, now>>
=============================================================================
