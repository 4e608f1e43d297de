------------------------------- MODULE MCRewards -------------------------------
\* Rewards with two spellings of one phone number.
EXTENDS Rewards, TLC

CONSTANTS written, spaced

OneNumber == [phone \in {written, spaced} |-> written]

Identities == Permutations(Tasks) \cup Permutations(Sessions) \cup Permutations(Payments)

=============================================================================
