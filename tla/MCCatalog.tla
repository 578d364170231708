----------------------------- MODULE MCCatalog -----------------------------
(***************************************************************************)
(* Catalog for two models, two imports and one key.                        *)
(***************************************************************************)
EXTENDS Catalog

CONSTANTS m1, m2, k1, i1, i2, v1, s1

MCModels == {m1, m2}
MCImports == {i1, i2}

=============================================================================
