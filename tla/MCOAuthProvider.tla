-------------------------- MODULE MCOAuthProvider --------------------------
(* Small instances of OAuthProvider for TLC. *)
EXTENDS OAuthProvider, TLC

\* A full answer that expires, and an HTTP 200 whose body has no access_token.
MCResponses == {[access |-> TRUE,  refresh |-> TRUE,  life |-> 2],
                [access |-> FALSE, refresh |-> FALSE, life |-> None]}

\* Used where expiry and refresh are not the question.
MCLasting == {[access |-> TRUE, refresh |-> FALSE, life |-> None]}

Symmetry == Permutations(Callbacks) \cup Permutations(Subs) \cup Permutations(States)
=============================================================================
