-------------------------- MODULE MCPilotRegistry --------------------------
\* Instances of PilotRegistry for TLC.
EXTENDS PilotRegistry, TLC

Symmetry == Permutations(Workers) \cup Permutations(Names) \cup Permutations(Data)
=============================================================================
