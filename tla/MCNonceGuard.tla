---------------------------- MODULE MCNonceGuard ----------------------------
(* Instance of NonceGuard for TLC: three messages under nonces of their own. *)
EXTENDS NonceGuard, TLC

CONSTANTS m1, m2, m3, n1, n2, n3

MCMessages == {m1, m2, m3}
MCNonces == {n1, n2, n3}
MCNonceOf == [m \in MCMessages |-> IF m = m1 THEN n1
                                   ELSE IF m = m2 THEN n2 ELSE n3]

\* The messages, with their nonces, are interchangeable.
MCPermutations ==
    {[x \in MCMessages \cup MCNonces |->
         IF x \in MCMessages THEN p[x]
         ELSE MCNonceOf[p[CHOOSE m \in MCMessages : MCNonceOf[m] = x]]] :
     p \in Permutations(MCMessages)}

=============================================================================
