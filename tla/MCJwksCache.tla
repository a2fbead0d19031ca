----------------------------- MODULE MCJwksCache -----------------------------
(***************************************************************************)
(* JwksCache on a small instance.                                          *)
(***************************************************************************)
EXTENDS JwksCache

\* Good tokens that name their key or no key, and a token that fails decode().
MCTokens ==
  {[signer |-> k, kid |-> i, sound |-> TRUE] : k \in Keys, i \in {NoKid}}
    \cup {[signer |-> k, kid |-> k, sound |-> b] : k \in Keys, b \in BOOLEAN}
=============================================================================
