-------------------------- MODULE MCProxyPipeline --------------------------
(***************************************************************************)
(* Finite instances of ProxyPipeline for TLC.                              *)
(***************************************************************************)
EXTENDS ProxyPipeline, TLC

CONSTANTS q1, q2, q3, n1, n2, r1, r2, i1, i2, i3

\* q1 and q2 are near misses of each other, q3 compares them.
Similar ==
  [p \in Questions \X Questions |->
     CASE p[1] = p[2] -> 1000
       [] p \in {<<q1, q2>>, <<q2, q1>>} -> 900
       [] OTHER -> 960]
Close == {<<q1, q2>>, <<q2, q1>>, <<q1, q1>>, <<q2, q2>>}
Decomposed == [q \in Questions |-> IF q = q3 THEN {q1, q2} ELSE {}]
Singles == {<<q>> : q \in Questions}
TwoSpaces == {<<<<q1>>, Public, TRUE>>, <<<<q1>>, n1, TRUE>>, <<<<q2>>, n1, TRUE>>}
Varied ==
  {<<<<q1>>, Public, TRUE>>, <<<<q2>>, n1, TRUE>>, <<<<q3>>, Public, TRUE>>, <<<<q1>>, n2, FALSE>>}
SecondOnly == {<<q2>>}
FirstTwo == {<<q1>>, <<q2>>}

IdSymmetry == Permutations(Ids)
Symmetry == IdSymmetry \cup Permutations(Requests)

=============================================================================
