---------------------------- MODULE MCSessionAuth ----------------------------
(* A small instance of SessionAuth for TLC. *)
EXTENDS SessionAuth

\* A complete document, the same cut short, and a complete one without "issuer".
MCDocs == {[issuer |-> "idp", jwks |-> "jwks", endpoints |-> "upstream"],
           [issuer |-> "idp", jwks |-> None,   endpoints |-> None],
           [issuer |-> None,  jwks |-> "jwks", endpoints |-> "upstream"]}

\* One client has a subject, the other one nothing but a user name.
MCClaims == [c \in Clients |-> IF c = "c1" THEN [sub |-> "alice", name |-> "al"]
                               ELSE [sub |-> None, name |-> "bob"]]

\* One client may hold an unsigned token, or a stranger's signature on a token that
\* has expired; the other one the issuer's signature on a token of another issuer, or
\* on one with a claim tokenToMap cannot read.
MCForeign == [c \in Clients |->
    IF c = "c1" THEN {[alg |-> "none", key |-> 0, iss |-> "idp", fresh |-> TRUE, readable |-> TRUE],
                      [alg |-> "RS256", key |-> 0, iss |-> "idp", fresh |-> FALSE, readable |-> TRUE]}
    ELSE {[alg |-> "RS256", key |-> 1, iss |-> "other", fresh |-> TRUE, readable |-> TRUE],
          [alg |-> "RS256", key |-> 1, iss |-> "idp", fresh |-> TRUE, readable |-> FALSE]}]

MCPaths == {<<"/mcp">>, <<"/health", "z">>}
MCOpenPaths == {<<"/health">>}
=============================================================================
