----------------------------- MODULE MCRequests -----------------------------
\* Values for TLC.
EXTENDS Requests, TLC

CONSTANTS r1, r2

\* The operations one after another, and two at a time those that share the
\* information about the cluster, or the variable err.
MCLoads == {r1 :> OperationIds @@ r2 :> {},
            r1 :> {"get_cluster"} @@ r2 :> {"get_node"},
            r1 :> {"get_tags", "get_table_csv"} @@ r2 :> {"get_tags", "get_table_csv"}}

\* One request after another.
MCOneByOne == {r1 :> OperationIds}

Symmetry == Permutations(Nodes)
=============================================================================
