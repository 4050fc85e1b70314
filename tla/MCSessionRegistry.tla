-------------------------- MODULE MCSessionRegistry --------------------------
(* Small instances of SessionRegistry for TLC. *)
EXTENDS SessionRegistry, TLC

\* Sessions are interchangeable, and so are client addresses (safety only).
Symmetry == Permutations(Sessions) \cup Permutations(IPs)
=============================================================================
