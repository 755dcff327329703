---------------------------- MODULE MCMutationSaga ----------------------------
\* Instances of MutationSaga: the files are alike.
EXTENDS MutationSaga, TLC

Alike == Permutations(Files)
===============================================================================
