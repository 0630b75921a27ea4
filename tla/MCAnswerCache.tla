--------------------------- MODULE MCAnswerCache ---------------------------
(***************************************************************************)
(* Finite instances of AnswerCache for TLC.                                *)
(***************************************************************************)
EXTENDS AnswerCache, TLC

CONSTANTS d1, s1, s2, h1, h2, k1, k2, k3, chat, gateway, r1, r2, i1, i2, i3, i4

OneSection == (s1 :> d1)
TwoSections == (s1 :> d1) @@ (s2 :> d1)
TwoServices == (r1 :> chat) @@ (r2 :> gateway)
OneService == (r1 :> gateway) @@ (r2 :> gateway)
OneRequest == (r1 :> chat)

\* k1 and k2 ask nearly the same, k3 is related to both.
NearPair == {<<k, k>> : k \in Keys} \cup {<<k1, k2>>, <<k2, k1>>}
RelatedToThird == {<<k1, k3>>, <<k3, k1>>, <<k2, k3>>, <<k3, k2>>}

Symmetry == Permutations(Ids) \cup Permutations(Hashes)

=============================================================================
