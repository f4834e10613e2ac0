----------------------------- MODULE MCRiskGate -----------------------------
\* Symbols of one strategy that are interchangeable.
EXTENDS RiskGate, TLC

CONSTANTS avgo, lly, tsm
SymbolPerms == Permutations(Symbols)
=============================================================================
