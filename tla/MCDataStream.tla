---------------------------- MODULE MCDataStream ----------------------------
EXTENDS DataStream, TLC

CONSTANTS f1, f2

MCFiles1 == {f1}
MCFiles2 == {f1, f2}
Symmetry == Permutations(MCFiles2)
=============================================================================
