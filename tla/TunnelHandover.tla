---------------------------- MODULE TunnelHandover ----------------------------
(***************************************************************************)
(* A port of the server, from its reservation to the forwarder that binds  *)
(* it: CreateTunnel (server/client.go), the port-tunnel task of the agent  *)
(* (client/port_tunnel_task.go) and the reverse SSH service between them.  *)
(* The agent confirms before its forwarder has bound anything; the server  *)
(* may give a request up while the agent carries it out; and closing a     *)
(* forwarder leaves its SSH session, and the port, as they are.            *)
(***************************************************************************)
EXTENDS Integers, FiniteSets

CONSTANTS Agents,       \* connections of agents
          PortTunnels,  \* calls of CreateTunnel
          ServerPorts   \* ports the manager may hand out

ASSUME HandoverAssumption == Agents # {}

VARIABLES gone,       \* agents whose session ended
          noticed,    \* agents that stopped since
          call,       \* per call: its agent, its port, and what the server makes of it
          order,      \* the request at the agent: none, sent, confirmed
          forwarder,  \* the agent's listener: none, dials, bound, stuck, ended
          closing,    \* the calls whose listener was closed
          rivals      \* history: at a reservation, what might still come to bind the port

handoverVars == <<gone, noticed, call, order, forwarder, closing, rivals>>

NewCall == [agent |-> CHOOSE a \in Agents : TRUE, port |-> 0, is |-> "new"]

HandoverInit ==
  /\ gone = {} /\ noticed = {} /\ closing = {}
  /\ call = [t \in PortTunnels |-> NewCall]
  /\ order = [t \in PortTunnels |-> "none"]
  /\ forwarder = [t \in PortTunnels |-> "none"]
  /\ rivals = [t \in PortTunnels |-> {}]

BoundAt(p) == {t \in PortTunnels : call[t].port = p /\ forwarder[t] = "bound"}
Booked == {call[t].port : t \in {u \in PortTunnels : call[u].is \in {"waits", "listed"}}}
GivenUp(t) == call[t].is \in {"failed", "lost"}

-----------------------------------------------------------------------------
(* The server. *)

\* ReservePort probes the port and skips one that somebody has bound; the
\* request is sent over the session.
MutCreateTunnel(t, a) ==
  /\ call[t].is = "new" /\ a \notin gone
  /\ \E p \in ServerPorts \ Booked :
       /\ call' = [call EXCEPT ![t] = [agent |-> a, port |-> p, is |-> "waits"]]
       /\ rivals' = [rivals EXCEPT ![t] = {u \in PortTunnels : call[u].port = p /\ GivenUp(u) /\
                       (forwarder[u] \in {"dials", "stuck"} \/ order[u] = "sent")}]
  /\ order' = [order EXCEPT ![t] = "sent"]
  /\ UNCHANGED <<gone, noticed, forwarder, closing>>
CreateTunnel(t, a) ==
  /\ call[t].is = "new" /\ a \notin gone
  /\ \E p \in ServerPorts \ Booked :
       /\ BoundAt(p) = {}
       /\ call' = [call EXCEPT ![t] = [agent |-> a, port |-> p, is |-> "waits"]]
       /\ rivals' = [rivals EXCEPT ![t] = {u \in PortTunnels : call[u].port = p /\ GivenUp(u) /\
                       (forwarder[u] \in {"dials", "stuck"} \/ order[u] = "sent")}]
  /\ order' = [order EXCEPT ![t] = "sent"]
  /\ UNCHANGED <<gone, noticed, forwarder, closing>>

\* The confirmation arrives in time (one read before the session ended may be
\* appended after Client.Stop emptied the list), or the wait ends after 60
\* seconds or with the session and the port is released.
Confirmed(t) ==
  /\ call[t].is = "waits" /\ order[t] = "confirmed"
  /\ call' = [call EXCEPT ![t].is = "listed"]
  /\ UNCHANGED <<gone, noticed, order, forwarder, closing, rivals>>
WaitFails(t) ==
  /\ call[t].is = "waits" /\ call' = [call EXCEPT ![t].is = "failed"]
  /\ UNCHANGED <<gone, noticed, order, forwarder, closing, rivals>>

\* The session ends; Client.Stop releases the ports of the list.
StopClient(a) ==
  /\ a \notin gone /\ gone' = gone \cup {a}
  /\ call' = [t \in PortTunnels |-> IF call[t].agent = a /\ call[t].is = "listed"
                                    THEN [call[t] EXCEPT !.is = "lost"] ELSE call[t]]
  /\ UNCHANGED <<noticed, order, forwarder, closing, rivals>>

-----------------------------------------------------------------------------
(* The agent and the SSH service. *)

\* The task starts a listener and confirms; one still in hand when the agent
\* stops starts its listener all the same.
HandleTunnel(t) ==
  /\ order[t] = "sent"
  /\ forwarder' = [forwarder EXCEPT ![t] = "dials"]
  /\ order' = [order EXCEPT ![t] = "confirmed"]
  /\ UNCHANGED <<gone, noticed, call, closing, rivals>>

\* Client.Stop of the agent: a closed listener ends after its next accept,
\* which nothing hastens; the session stays.
StopAgent(a) ==
  /\ a \in gone \ noticed /\ noticed' = noticed \cup {a}
  /\ closing' = closing \cup {t \in PortTunnels : call[t].agent = a /\ forwarder[t] # "none"}
  /\ UNCHANGED <<gone, call, order, forwarder, rivals>>

\* The SSH service listens at the port, or refuses because somebody does; a
\* refused session is not asked again.
Bind(t) ==
  /\ forwarder[t] = "dials"
  /\ forwarder' = [forwarder EXCEPT ![t] =
       IF BoundAt(call[t].port) = {} THEN "bound" ELSE IF t \in closing THEN "ended" ELSE "stuck"]
  /\ UNCHANGED <<gone, noticed, call, order, closing, rivals>>
\* The SSH session breaks and the port is free; the loop dials anew, or finds
\* that it was closed.
SessionBreaks(t) ==
  /\ forwarder[t] \in {"bound", "stuck"}
  /\ forwarder' = [forwarder EXCEPT ![t] = IF t \in closing THEN "ended" ELSE "dials"]
  /\ UNCHANGED <<gone, noticed, call, order, closing, rivals>>

HandoverNext ==
  \/ \E t \in PortTunnels :
       Confirmed(t) \/ WaitFails(t) \/ HandleTunnel(t) \/ Bind(t) \/ SessionBreaks(t)
  \/ \E a \in Agents : StopClient(a) \/ StopAgent(a)
  \/ \E t \in PortTunnels, a \in Agents : CreateTunnel(t, a)

HandoverSpec == HandoverInit /\ [][HandoverNext]_handoverVars

-----------------------------------------------------------------------------
HandoverTypeOK ==
  /\ noticed \subseteq gone /\ gone \subseteq Agents /\ closing \subseteq PortTunnels
  /\ call \in [PortTunnels -> [agent : Agents, port : ServerPorts \cup {0},
                               is : {"new", "waits", "listed", "failed", "lost"}]]
  /\ order \in [PortTunnels -> {"none", "sent", "confirmed"}]
  /\ forwarder \in [PortTunnels -> {"none", "dials", "bound", "stuck", "ended"}]
  /\ rivals \in [PortTunnels -> SUBSET PortTunnels]

\* Who calls a listed port reaches the tunnel it is listed for, or one that
\* the server had given up, after 60 seconds or with its client, and that was
\* about to bind the port when the port was booked again (server/client.go:264):
\* what has bound it by then, closed or not, keeps it from being booked.
CallersReachTheirTunnel ==
  \A t \in PortTunnels : call[t].is = "listed" =>
    BoundAt(call[t].port) \subseteq {t} \cup rivals[t]
=============================================================================
