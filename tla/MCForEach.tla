----------------------------- MODULE MCForEach -----------------------------
(* Calls of METHAN_FOR_EACH_P<k> for TLC *)
EXTENDS ForEach

(* n arguments with the text of the 64th, if there is one, given *)
Args(n, text64) == [i \in 1 .. n |-> IF i = 64 THEN text64 ELSE 100 + i]
Params(n)       == [i \in 1 .. n |-> 200 + i]

MkCall(k, p, n, text64, comma) ==
  [table |-> k, params |-> Params(p), args |-> Args(n, text64), comma |-> comma]

Within   == {MkCall(k, k, n, 0, b) : k \in {0, 1, 7}, n \in {1, 2, 3, 61, 62}, b \in BOOLEAN}
Spilling == {MkCall(k, k + 1, n, 0, FALSE) : k \in {1, 2}, n \in {1, 2, 62}}
Beyond   == {MkCall(k, k, n, t, FALSE) : k \in {0, 1}, n \in {64, 65, 70}, t \in {0, 1, 2, 62, 63, 99}}

MCCalls      == Within \cup Spilling \cup Beyond
MCNone       == {MkCall(k, k, 0, 0, FALSE) : k \in {0, 1}}
MCSixtyThree == {MkCall(k, k, 63, 0, FALSE) : k \in {0, 1}}
=============================================================================
