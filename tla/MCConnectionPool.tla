-------------------------- MODULE MCConnectionPool --------------------------
(* The instances of ConnectionPool that TLC checks: see the cfg files.     *)
EXTENDS ConnectionPool, TLC

\* The clients are interchangeable, and so are the connections.  For safety only.
Symmetry == Permutations(Clients) \cup Permutations(Handles)
=============================================================================
