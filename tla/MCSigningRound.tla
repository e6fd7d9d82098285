--------------------------- MODULE MCSigningRound ---------------------------
(* Small instances of SigningRound for TLC: two signers, one party and one *)
(* key each (signer 1 holds party 1 and key 1, signer 2 party 2 and key 2). *)
EXTENDS DkgRefinement, TLC

CONSTANTS s1, s2, p1, p2, k1, k2

MCSignerParties == (s1 :> {p1}) @@ (s2 :> {p2})
MCSignerKeys == (s1 :> {k1}) @@ (s2 :> {k2})

=============================================================================
