-------------------------- MODULE MCIdempotencyKeys --------------------------
\* IdempotencyKeys with interchangeable keys, bodies of one kind, and resources.
EXTENDS IdempotencyKeys, TLC

KeyIdentities ==
  Permutations(Keys) \cup Permutations(OrderBodies) \cup Permutations(Resources)
    \cup Permutations(Tasks)

=============================================================================
