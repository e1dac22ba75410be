---------------------------- MODULE MCEnumFlag ----------------------------
(* Flags of three atoms for TLC: bits 1 and 2 are one atom, and no atom    *)
(* has bits 4, 5 and 6.                                                    *)
EXTENDS EnumFlag, TLC

Bits        == 0 .. 6
Masks       == "zero" :> {0} @@ "pair" :> {1, 2} @@ "three" :> {3}
Atoms3      == DOMAIN Masks
Enumerators == {{"pair"}, {"zero", "pair"}, {"three"}}

(* fullValue without the atom "three", and with two bits of no atom, as it *)
(* has by default                                                          *)
Given       == {0, 1, 2, 4, 5}
===========================================================================
