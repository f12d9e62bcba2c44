------------------------- MODULE MCCheckoutGateway -------------------------
(* Two HTTP requests with one key, the second of them a client's repetition *)
(* under a nonce of its own; one of them is signed by its client.           *)
EXTENDS CheckoutGateway

CONSTANTS r1, r2, k1, n1, n2

MCKeyOf == [r \in Requests |-> k1]
MCNonceOf == [r \in Requests |-> IF r = r1 THEN n1 ELSE n2]
MCSigned == {r1}

\* With all there is, without a signer, and without a process to write to.
MCConfigs == {[signer |-> TRUE, pid |-> TRUE, acceptEmpty |-> TRUE],
              [signer |-> FALSE, pid |-> TRUE, acceptEmpty |-> FALSE],
              [signer |-> TRUE, pid |-> FALSE, acceptEmpty |-> FALSE]}
=============================================================================
