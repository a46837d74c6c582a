---- MODULE MCUDPTransport ----
EXTENDS UDPTransport, TLC
QuerySymmetry == Permutations(Queries)
====
