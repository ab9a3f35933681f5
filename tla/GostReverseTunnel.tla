--------------------------- MODULE GostReverseTunnel ---------------------------
(***************************************************************************)
(* Remote port forwarding, the way joebot's agents reach their server: the *)
(* agent's listener (forward.go) asks the far end of its chain to listen   *)
(* on a port and takes the connections that come back, over a session that *)
(* the network may cut.  Over ssh one goroutine per session asks once and  *)
(* feeds the session's channel (ssh.go:129); over SOCKS5 the request is    *)
(* made for each session ("mbind") or for each connection ("bind").        *)
(***************************************************************************)
EXTENDS Integers, FiniteSets

CONSTANTS MaxTunnels,  \* sessions a behaviour may open
          MaxPeers,    \* connections that come to the forwarded port
          QueueRoom    \* capacity of the listener's connChan

\* That capacity is 1024 (forward.go:365).
ASSUME ReverseAssumption == {MaxTunnels, MaxPeers} \subseteq Nat /\ QueueRoom \in Nat \ {0}

VARIABLES tkind,    \* "ssh", "mbind" or "bind"
          tunnel,   \* the sessions
          entry,    \* the session the agent would use again, 0 for none
          bound,    \* the session whose server end listens on the port, 0 for none
          agent,    \* listenLoop
          incoming, \* connections still to come
          waiting,  \* connections in the listener's queue
          stopping, \* the listener was closed
          stuck     \* the server refused a request of a session that goes on

tunnelVars == <<tkind, tunnel, entry, bound, agent, incoming, waiting, stopping, stuck>>

Tunnels == 1 .. MaxTunnels
NoTunnel == [cli |-> "none", srv |-> "none", cut |-> FALSE, req |-> "none", chan |-> 0]

TunnelInit ==
  /\ tkind \in {"ssh", "mbind", "bind"}
  /\ tunnel = [s \in Tunnels |-> NoTunnel]
  /\ entry = 0 /\ bound = 0
  /\ agent = "accept"
  /\ incoming = MaxPeers /\ waiting = 0
  /\ stopping = FALSE /\ stuck = FALSE

FreshTunnel(s) == tunnel[s] = NoTunnel /\ \A t \in 1 .. s - 1 : tunnel[t] # NoTunnel
LiveEntry == entry # 0 /\ tunnel[entry].cli = "up"
\* accept() returned an error: the loop sleeps, or ends when it was closed.
Failed == agent' = IF stopping THEN "ended" ELSE "sleep"

\* accept: use the session there is, or open one; over ssh the new session has
\* still to be asked, over SOCKS5 the request goes out on it at once.
UseEntry == /\ agent = "accept" /\ LiveEntry /\ UNCHANGED <<tunnel, entry>>
OpenTunnel(req) ==
  /\ agent = "accept" /\ ~LiveEntry
  /\ \E s \in Tunnels :
       /\ FreshTunnel(s)
       /\ tunnel' = [tunnel EXCEPT ![s] = [NoTunnel EXCEPT !.cli = "up", !.srv = "up", !.req = req]]
       /\ entry' = s

AcceptSsh ==
  /\ tkind = "ssh"
  /\ UseEntry \/ OpenTunnel("none")
  /\ agent' = "connect"
  /\ UNCHANGED <<tkind, bound, incoming, waiting, stopping, stuck>>
MuxAccept ==
  /\ tkind = "mbind"
  /\ UseEntry \/ OpenTunnel("asked")
  /\ agent' = "waiting"
  /\ UNCHANGED <<tkind, bound, incoming, waiting, stopping, stuck>>
WaitConnectSocks5 ==
  /\ tkind = "bind"
  /\ OpenTunnel("asked")
  /\ agent' = "waiting"
  /\ UNCHANGED <<tkind, bound, incoming, waiting, stopping, stuck>>

\* The far end cannot be reached.
DialFails ==
  /\ agent = "accept" /\ ~LiveEntry
  /\ Failed
  /\ UNCHANGED <<tkind, tunnel, entry, bound, incoming, waiting, stopping, stuck>>

\* sshRemoteForwardConnector.ConnectContext: only the first call on a session
\* starts the goroutine that asks (in vain on a dead session); every call then
\* waits on the channel.
MutConnectContext ==
  /\ agent = "connect"
  /\ tunnel' = [tunnel EXCEPT ![entry].req = "none"]
  /\ agent' = "waiting"
  /\ UNCHANGED <<tkind, entry, bound, incoming, waiting, stopping, stuck>>
ConnectContext ==
  /\ agent = "connect"
  /\ tunnel' = [tunnel EXCEPT ![entry].req =
       IF @ # "none" THEN @ ELSE IF LiveEntry THEN "asked" ELSE "over"]
  /\ agent' = "waiting"
  /\ UNCHANGED <<tkind, entry, bound, incoming, waiting, stopping, stuck>>

\* tcpipForwardRequest, or the bind of the SOCKS5 server: the port is bound,
\* or it is taken and the request refused.  A refused ssh goroutine closes the
\* channel and leaves the session; a refused SOCKS5 request closes its own.
ServerAnswers(s) ==
  /\ tunnel[s].req = "asked" /\ tunnel[s].srv = "up" /\ ~tunnel[s].cut
  /\ IF bound = 0
     THEN /\ bound' = s
          /\ tunnel' = [tunnel EXCEPT ![s].req = "bound"]
          /\ UNCHANGED stuck
     ELSE /\ tunnel' = [tunnel EXCEPT ![s].req = "over",
                          ![s].cli = IF tkind = "ssh" THEN @ ELSE "closed"]
          /\ stuck' = (stuck \/ tkind = "ssh")
          /\ UNCHANGED bound
  /\ UNCHANGED <<tkind, entry, agent, incoming, waiting, stopping>>

\* A connection comes to the port.  The bind of one connection is over with it.
PeerComes ==
  /\ bound # 0 /\ incoming > 0
  /\ incoming' = incoming - 1
  /\ tunnel' = IF tunnel[bound].cut THEN tunnel
               ELSE [tunnel EXCEPT ![bound].chan = IF @ < QueueRoom THEN @ + 1 ELSE @]
  /\ bound' = IF tkind = "bind" THEN 0 ELSE bound
  /\ UNCHANGED <<tkind, entry, agent, waiting, stopping, stuck>>

\* listenLoop with a connection: queued, or closed for want of room, or closed
\* because the listener is.
Deliver ==
  /\ agent = "waiting" /\ tunnel[entry].chan > 0
  /\ tunnel' = [tunnel EXCEPT ![entry].chan = @ - 1]
  /\ entry' = IF tkind = "bind" THEN 0 ELSE entry
  /\ IF stopping THEN agent' = "ended" /\ UNCHANGED waiting
     ELSE /\ agent' = "accept"
          /\ waiting' = IF waiting < QueueRoom THEN waiting + 1 ELSE waiting
  /\ UNCHANGED <<tkind, bound, incoming, stopping, stuck>>

\* listenLoop with an error: the channel is closed and empty.
DeliverFails ==
  /\ agent = "waiting" /\ tunnel[entry].chan = 0 /\ tunnel[entry].req = "over"
  /\ Failed
  /\ UNCHANGED <<tkind, tunnel, entry, bound, incoming, waiting, stopping, stuck>>

Sleep ==
  /\ agent = "sleep" /\ agent' = "accept"
  /\ UNCHANGED <<tkind, tunnel, entry, bound, incoming, waiting, stopping, stuck>>

\* Server.Serve takes a connection from the listener.
AcceptTunnel ==
  /\ waiting > 0 /\ ~stopping
  /\ waiting' = waiting - 1
  /\ UNCHANGED <<tkind, tunnel, entry, bound, agent, incoming, stopping, stuck>>

\* Close of the listener: the loop sees it after its next accept only.
CloseTunnel ==
  /\ ~stopping /\ stopping' = TRUE
  /\ UNCHANGED <<tkind, tunnel, entry, bound, agent, incoming, waiting, stuck>>

\* The network cuts a session; each end finds out in its own time.
NetworkCuts(s) ==
  /\ tunnel[s].cli = "up" /\ ~tunnel[s].cut /\ s < MaxTunnels
  /\ tunnel' = [tunnel EXCEPT ![s].cut = TRUE]
  /\ UNCHANGED <<tkind, entry, bound, agent, incoming, waiting, stopping, stuck>>

\* The agent's end: whoever waits for the session's channel finds it closed.
AgentNotices(s) ==
  /\ tunnel[s].cli = "up" /\ tunnel[s].cut
  /\ tunnel' = [tunnel EXCEPT ![s].cli = "closed",
                  ![s].req = IF @ = "none" THEN "none" ELSE "over"]
  /\ UNCHANGED <<tkind, entry, bound, agent, incoming, waiting, stopping, stuck>>

\* The server's end: handleForward returns, `quit` is closed and with it the port.
HandleForwardEnds(s) ==
  /\ tunnel[s].srv = "up" /\ (tunnel[s].cut \/ tunnel[s].cli = "closed")
  /\ tunnel' = [tunnel EXCEPT ![s].srv = "ended"]
  /\ bound' = IF bound = s THEN 0 ELSE bound
  /\ UNCHANGED <<tkind, entry, agent, incoming, waiting, stopping, stuck>>

TunnelNext ==
  \/ AcceptSsh \/ MuxAccept \/ WaitConnectSocks5 \/ DialFails \/ ConnectContext
  \/ PeerComes \/ Deliver \/ DeliverFails \/ Sleep \/ AcceptTunnel \/ CloseTunnel
  \/ \E s \in Tunnels :
       ServerAnswers(s) \/ NetworkCuts(s) \/ AgentNotices(s) \/ HandleForwardEnds(s)

TunnelTypeOK ==
  /\ tkind \in {"ssh", "mbind", "bind"}
  /\ tunnel \in [Tunnels -> [cli : {"none", "up", "closed"}, srv : {"none", "up", "ended"},
       cut : BOOLEAN, req : {"none", "asked", "bound", "over"}, chan : 0 .. QueueRoom]]
  /\ entry \in 0 .. MaxTunnels /\ bound \in 0 .. MaxTunnels
  /\ agent \in {"accept", "connect", "waiting", "sleep", "ended"}
  /\ incoming \in 0 .. MaxPeers /\ waiting \in 0 .. QueueRoom
  /\ stopping \in BOOLEAN /\ stuck \in BOOLEAN

\* The port is served over a session both ends hold, or the agent has stopped,
\* or an ssh session was refused, or every session the bounds allow is used up.
Served == (bound # 0 /\ bound = entry /\ LiveEntry) \/ stopping \/ stuck
          \/ (~LiveEntry /\ \A s \in Tunnels : tunnel[s] # NoTunnel)
================================================================================
