---------------------------- MODULE MCTokenStores ----------------------------
(* A small instance of TokenStores for TLC. *)
EXTENDS TokenStores, TLC

Symmetry == Permutations(Replicas)

\* In file mode the provider without a name has a directory of its own, and the name
\* of the other one is taken to come to that of the pending records, the smallest
\* instance with both cases.
MCDir == [n \in Namespaces |-> IF n = None THEN "tokens" ELSE "pending"]

\* No key, one key in either variable, a second one beside a leftover key file, and
\* material no key can be made of.
MCConfigs == {[env |-> None, path |-> None], [env |-> 1, path |-> None],
              [env |-> None, path |-> 1], [env |-> 2, path |-> 1],
              [env |-> 0, path |-> 1]}
=============================================================================
