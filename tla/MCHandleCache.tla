---------------------------- MODULE MCHandleCache ---------------------------
(* The instances of HandleCache that TLC checks: see the cfg files.        *)
EXTENDS HandleCache, TLC

\* One user name contains a colon; what comes before it is a user name as well.
MCBefore == [u \in Users |-> IF u = "alice:x" THEN "alice" ELSE u]

\* One request of bob's at a time: two requests of one user are two of alice's.
MCOneStranger == \A c, d \in Clients : user[c] = "bob" /\ user[d] = "bob" => c = d

\* For safety only: clients, connections and pools are interchangeable.
Symmetry == Permutations(Clients) \cup Permutations(Handles) \cup Permutations(Pools)
=============================================================================
