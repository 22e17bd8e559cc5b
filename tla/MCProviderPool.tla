--------------------------- MODULE MCProviderPool ---------------------------
(***************************************************************************)
(* Small instances of ProviderPool.                                        *)
(***************************************************************************)
EXTENDS ProviderPool, TLC

\* All callers are alike.
CallSymmetry == Permutations(Calls)

\* Every provider has the tags the callers ask for.
AnyProvider == {1..NumProviders}
=============================================================================
