---------------------------- MODULE MCKeyedCollector ----------------------------
EXTENDS KeyedCollector, TLC

\* Events treat all keys alike.
KeySymmetry == Permutations(Keys)
=============================================================================
