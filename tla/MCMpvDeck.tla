------------------------------ MODULE MCMpvDeck ------------------------------
\* The deck on small instances.  Entries are interchangeable for its safety.
EXTENDS MpvDeck, TLC

EntrySymmetry == Permutations(Entry)
=============================================================================
