---------------------------- MODULE MCSettlement ----------------------------
\* Settlement with a uniform price and interchangeable identities.
EXTENDS Settlement, TLC

CONSTANTS OrderPrice

UniformPrice == [o \in Orders |-> OrderPrice]

Identities ==
  Permutations(Orders) \cup Permutations(Payments) \cup Permutations(Tasks)

=============================================================================
