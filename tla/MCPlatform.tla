------------------------------- MODULE MCPlatform -------------------------------
\* Platform with interchangeable plans and operators.
EXTENDS Platform, TLC

Identities == Permutations(Plans) \cup Permutations(Operators)

=============================================================================
