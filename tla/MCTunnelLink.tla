----------------------------- MODULE MCTunnelLink -----------------------------
EXTENDS TunnelLink, TLC

\* Frames and tunnels are interchangeable.
Symmetry == Permutations(Tunnel) \cup Permutations(Data)

==============================================================================
