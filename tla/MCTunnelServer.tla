--------------------------- MODULE MCTunnelServer ---------------------------
(* Small instances of TunnelServer.                                        *)
EXTENDS TunnelServer, FiniteSets, TLC

\* Handlers are interchangeable, and so are ports of either side.
Symmetry == Permutations(Handlers) \cup Permutations(ServerPorts)

\* For the liveness properties: one client with the handlers at work on it, or
\* several clients and no handler.  Only AddClient and PostTunnel, which are not
\* fair, can leave this.
BusyOrMany ==
  \/ Cardinality({c \in Clients : session[c] # "none"}) <= 1
  \/ \A h \in Handlers : pc[h] = "idle"
SmallFairSpec == Init /\ [][Next /\ BusyOrMany']_vars /\ Fairness
=============================================================================
