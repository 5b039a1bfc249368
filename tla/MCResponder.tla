---------------------------- MODULE MCResponder ----------------------------
(***************************************************************************)
(* Instances of Responder for TLC.                                         *)
(***************************************************************************)
EXTENDS Responder, TLC

CONSTANTS
  s1, s2,   \* serials
  h1, h2,   \* request hashes
  c1, c2,   \* requests
  p1, p2,   \* passes
  q1        \* polls

\* Serials and hashes are interchangeable, and so are workers of a kind.
Symmetry ==
  Permutations(Certs) \cup Permutations(Hashes) \cup Permutations(Clients)
    \cup Permutations(Passes)
=============================================================================
