--------------------------- MODULE MC_P2PNetwork ---------------------------
(* Model-checking instance of P2PNetwork: peers and connections are model  *)
(* values given in the .cfg files.                                          *)
EXTENDS P2PNetwork

\* Peers and connection ids are interchangeable model values.
Symmetry == Permutations(Peer) \cup Permutations(ConnId)
=============================================================================
