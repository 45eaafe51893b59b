------------------------ MODULE MCAuthorityGenerations ------------------------
\* Instances of AuthorityGenerations for TLC.
EXTENDS AuthorityGenerations, TLC

CONSTANTS r1, r2, r3

OneReader == {r1}
TwoReaders == {r1, r2}

\* Readers are interchangeable.
Interchangeable == Permutations(TwoReaders)
=============================================================================
