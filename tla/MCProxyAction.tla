--------------------------- MODULE MCProxyAction ---------------------------
(* Small instances of ProxyAction for TLC. *)
EXTENDS ProxyAction, TLC

\* Sessions are interchangeable, and so are blocks and hosts.
Symmetry == Permutations(Sessions) \cup Permutations(Blocks) \cup Permutations(Hosts)

\* What follows the first use of a body that is not the request's own is not explored.
Defined == wrong = "none"
=============================================================================
