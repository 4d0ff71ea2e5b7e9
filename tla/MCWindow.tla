------------------------------ MODULE MCWindow ------------------------------
(* One openable file and one that is not, two folders, a port that does not *)
(* fit 16 bits.                                                             *)
EXTENDS Window

MCPorts == {1883, 70000}

MCGarbage == {0, 51966}

=============================================================================
