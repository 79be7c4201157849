--------------------------- MODULE MCTransportProxy ---------------------------
(* Two listeners and a few interchangeable connections.                      *)
EXTENDS TransportProxy, TLC

CONSTANTS a, b

MCConns == {a, b}

MCOneConn == {a}

MCSymmetry == Permutations(MCConns) \cup Permutations(Listeners)

===============================================================================
