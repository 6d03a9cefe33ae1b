----------------------------- MODULE MCConsent -----------------------------
(* Consent on a small instance: its requests are alike, and so are the     *)
(* numbers, and every property checked here is an invariant.               *)
EXTENDS Consent, TLC

Alike == Permutations(Phones) \union Permutations(Requests)
=============================================================================
