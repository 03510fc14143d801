---------------------------- MODULE MCLocalPorts ----------------------------
(* Instances of LocalPorts with three bits in the map and three sockets. *)
EXTENDS LocalPorts, TLC

MCPid == 1

\* The process id itself, a port outside of the process's own, UINT_MAX.
MCExplicit == {[nr |-> 0, low |-> 1], [nr |-> 1, low |-> 0], NoPort}

Symmetry == Permutations(Sockets)
=============================================================================
