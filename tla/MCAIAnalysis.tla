------------------------------ MODULE MCAIAnalysis ------------------------------
EXTENDS AIAnalysis, TLC

Symmetry == Permutations(Fingerprints)
=============================================================================
