-------------------------------- MODULE MCShift --------------------------------
\* Shift with interchangeable tokens and requests.
EXTENDS Shift, TLC

Identities == Permutations(Tokens) \cup Permutations(Requests)

=============================================================================
