------------------------------ MODULE MCTzng ------------------------------
(* Two record types, one of them with an alias, so that a stream has a    *)
(* new type with an alias, a new type without one, and a repeated type.    *)
EXTENDS Tzng

CONSTANTS t1, t2, a1

MCTypes == {t1, t2}
MCAliases == {a1}
MCTypeAliases == (t1 :> <<a1>>) @@ (t2 :> <<>>)
=============================================================================
