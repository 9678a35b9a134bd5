------------------------ MODULE MCCredentialsProvider ------------------------
(* Small instances of CredentialsProvider for TLC. *)
EXTENDS CredentialsProvider, TLC

Symmetry == Permutations(Requests) \cup Permutations(Subs) \cup Permutations(Links)
=============================================================================
