------------------------------ MODULE MCSeating ------------------------------
\* Seating with interchangeable sessions, guests and requests.
EXTENDS Seating, TLC

Identities == Permutations(Sessions) \cup Permutations(Guests) \cup Permutations(Tasks)

=============================================================================
