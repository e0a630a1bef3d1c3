--------------------------- MODULE MCBedrockClient ---------------------------
(* Small instances of BedrockClient for TLC.                                *)
EXTENDS BedrockClient, TLC

\* Threads that authenticate are interchangeable, and so are those that do not.
UserSymmetry == Permutations(AuthUsers) \cup Permutations(Users \ AuthUsers)

=============================================================================
