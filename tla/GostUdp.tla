-------------------------------- MODULE GostUdp --------------------------------
(***************************************************************************)
(* gost's UDP servers (udp.go, ftcp.go, forward.go): one goroutine reads   *)
(* every datagram of a socket and gives it to the connection of its        *)
(* sender, through a map that handlers, timers and the listener's Close    *)
(* change at the same time.  A new connection is queued for its handler    *)
(* before it is put into the map.                                          *)
(***************************************************************************)
EXTENDS Integers, FiniteSets

CONSTANTS Peers,     \* senders of datagrams
          MaxAssoc,  \* connections a behaviour may make
          Backlog,   \* the capacity of connChan
          QueueSize, \* the capacity of a connection's rChan
          MaxSocks   \* sockets, or tunnels, a behaviour may open

ASSUME UdpAssumption ==
  {MaxAssoc, Backlog} \subseteq Nat /\ {QueueSize, MaxSocks} \subseteq Nat \ {0}

VARIABLES ukind,   \* "udp", "ftcp", or "rudp" for the remote forwarding listener
          sock,    \* the socket the loop reads, 0 when it has none
          assoc,   \* the connections made so far
          connMap, \* peer -> its connection, 0 for none
          mapSize, \* udpConnMap.size
          reader,  \* the loop: reading, about to Set a connection, or ended
          stopped  \* the listener was closed

udpVars == <<ukind, sock, assoc, connMap, mapSize, reader, stopped>>

Assocs == 1 .. MaxAssoc
NoAssoc == [peer |-> 0, sock |-> 0, at |-> "unused", open |-> FALSE, early |-> FALSE, rchan |-> 0]
Reading == [pc |-> "read", a |-> 0]

UdpInit ==
  /\ ukind \in {"udp", "ftcp", "rudp"}
  /\ sock = IF ukind = "rudp" THEN 0 ELSE 1
  /\ assoc = [a \in Assocs |-> NoAssoc]
  /\ connMap = [p \in Peers |-> 0]
  /\ mapSize = 0
  /\ reader = [Reading EXCEPT !.pc = IF ukind = "rudp" THEN "connect" ELSE "read"]
  /\ stopped = FALSE

FreshAssoc(a) == assoc[a] = NoAssoc /\ \A b \in 1 .. a - 1 : assoc[b] # NoAssoc
Waiting == {a \in Assocs : assoc[a].at = "queued"}
\* A datagram goes into the connection's queue, or is dropped when that is full.
Push(x) == [x EXCEPT !.rchan = IF @ < QueueSize THEN @ + 1 ELSE @]

\* listenLoop, a datagram of a known sender.
ReadKnown(p) ==
  /\ reader.pc = "read" /\ sock # 0 /\ connMap[p] # 0
  /\ assoc' = [assoc EXCEPT ![connMap[p]] = Push(@)]
  /\ UNCHANGED <<ukind, sock, connMap, mapSize, reader, stopped>>

\* listenLoop, a datagram of a new sender: its connection is queued; without
\* room it is closed at once, which takes it off a map it was never put into.
ReadNew(p) ==
  /\ reader.pc = "read" /\ sock # 0 /\ connMap[p] = 0
  /\ \E a \in Assocs :
       /\ FreshAssoc(a)
       /\ IF Cardinality(Waiting) < Backlog
          THEN /\ assoc' = [assoc EXCEPT ![a] = [NoAssoc EXCEPT
                              !.peer = p, !.sock = sock, !.at = "queued", !.open = TRUE]]
               /\ reader' = [pc |-> "set", a |-> a]
               /\ UNCHANGED mapSize
          ELSE /\ assoc' = [assoc EXCEPT ![a] = [NoAssoc EXCEPT
                              !.peer = p, !.sock = sock, !.at = "refused", !.rchan = 1]]
               /\ mapSize' = mapSize - 1
               /\ UNCHANGED reader
  /\ UNCHANGED <<ukind, sock, connMap, stopped>>

\* connMap.Set, then the datagram.
SetAssoc ==
  /\ reader.pc = "set"
  /\ connMap' = [connMap EXCEPT ![assoc[reader.a].peer] = reader.a]
  /\ mapSize' = mapSize + 1
  /\ assoc' = [assoc EXCEPT ![reader.a] = Push(@)]
  /\ reader' = Reading
  /\ UNCHANGED <<ukind, sock, stopped>>

ReadUdp(p) == ukind = "udp" /\ (ReadKnown(p) \/ ReadNew(p))
ReadFakeTcp(p) == ukind = "ftcp" /\ (ReadKnown(p) \/ ReadNew(p))
ReadTunnel(p) == ukind = "rudp" /\ (ReadKnown(p) \/ ReadNew(p))

\* Accept hands a connection to its handler.
AcceptAssoc(a) ==
  /\ assoc[a].at = "queued"
  /\ assoc' = [assoc EXCEPT ![a].at = "handled"]
  /\ UNCHANGED <<ukind, sock, connMap, mapSize, reader, stopped>>

\* udpServerConn.ReadFrom, in its handler.
HandlerReads(a) ==
  /\ assoc[a].at = "handled" /\ assoc[a].rchan > 0
  /\ assoc' = [assoc EXCEPT ![a].rchan = @ - 1]
  /\ UNCHANGED <<ukind, sock, connMap, mapSize, reader, stopped>>

\* udpServerConn.Close of the open connections of `as`: each deletes its peer's
\* entry, whatever it holds.
MutCloseAssocs(as) ==
  /\ assoc' = [a \in Assocs |-> IF a \in as
       THEN [assoc[a] EXCEPT !.open = FALSE, !.early = reader = [pc |-> "set", a |-> a]]
       ELSE assoc[a]]
  /\ UNCHANGED connMap
  /\ mapSize' = mapSize - Cardinality(as)

CloseAssocs(as) ==
  /\ assoc' = [a \in Assocs |-> IF a \in as
       THEN [assoc[a] EXCEPT !.open = FALSE, !.early = reader = [pc |-> "set", a |-> a]]
       ELSE assoc[a]]
  /\ connMap' = [p \in Peers |-> IF \E a \in as : assoc[a].peer = p THEN 0 ELSE connMap[p]]
  /\ mapSize' = mapSize - Cardinality(as)

\* The handler returns and closes its connection.
HandlerCloses(a) ==
  /\ assoc[a].at = "handled" /\ assoc[a].open
  /\ CloseAssocs({a})
  /\ UNCHANGED <<ukind, sock, reader, stopped>>

\* ttlWait: nothing was read or written for the time to live.
TtlWait(a) ==
  /\ assoc[a].open
  /\ CloseAssocs({a})
  /\ UNCHANGED <<ukind, sock, reader, stopped>>

MappedOpen == {a \in Assocs : assoc[a].open /\ \E p \in Peers : connMap[p] = a}

\* udpListener.Close: the socket, then every connection in the map.
CloseUdp ==
  /\ ukind = "udp" /\ ~stopped
  /\ stopped' = TRUE /\ sock' = 0
  /\ CloseAssocs(MappedOpen)
  /\ UNCHANGED <<ukind, reader>>
CloseFakeTcp ==
  /\ ukind = "ftcp" /\ ~stopped
  /\ stopped' = TRUE /\ sock' = 0
  /\ CloseAssocs(MappedOpen)
  /\ UNCHANGED <<ukind, reader>>
\* That of the remote listener leaves the tunnel its loop reads alone.
CloseTunnelListener ==
  /\ ukind = "rudp" /\ ~stopped
  /\ stopped' = TRUE
  /\ CloseAssocs(MappedOpen)
  /\ UNCHANGED <<ukind, sock, reader>>

\* A read fails: the listener closes itself and the loop ends.
ReadFails ==
  /\ ukind \in {"udp", "ftcp"} /\ reader.pc = "read"
  /\ stopped' = TRUE /\ sock' = 0
  /\ CloseAssocs(MappedOpen)
  /\ reader' = [Reading EXCEPT !.pc = "ended"]
  /\ UNCHANGED ukind

\* A read fails in the remote listener: the tunnel is closed, its connections stay.
TunnelFails ==
  /\ ukind = "rudp" /\ reader.pc = "read"
  /\ sock' = 0
  /\ reader' = [Reading EXCEPT !.pc = "connect"]
  /\ UNCHANGED <<ukind, assoc, connMap, mapSize, stopped>>

LastSock == CHOOSE n \in 0 .. MaxSocks :
  /\ \A a \in Assocs : assoc[a].sock <= n
  /\ n = 0 \/ \E a \in Assocs : assoc[a].sock = n

\* connect: a new tunnel, unless the listener was closed.
ConnectTunnel ==
  /\ ukind = "rudp" /\ reader.pc = "connect"
  /\ \/ stopped /\ reader' = [Reading EXCEPT !.pc = "ended"] /\ UNCHANGED sock
     \/ /\ ~stopped /\ LastSock < MaxSocks
        /\ sock' = LastSock + 1 /\ reader' = Reading
  /\ UNCHANGED <<ukind, assoc, connMap, mapSize, stopped>>

UdpNext ==
  \/ \E p \in Peers : ReadUdp(p) \/ ReadFakeTcp(p) \/ ReadTunnel(p)
  \/ \E a \in Assocs : AcceptAssoc(a) \/ HandlerReads(a) \/ HandlerCloses(a) \/ TtlWait(a)
  \/ SetAssoc \/ CloseUdp \/ CloseFakeTcp \/ CloseTunnelListener
  \/ ReadFails \/ TunnelFails \/ ConnectTunnel

UdpSpec == UdpInit /\ [][UdpNext]_udpVars

UdpTypeOK ==
  /\ ukind \in {"udp", "ftcp", "rudp"} /\ sock \in 0 .. MaxSocks
  /\ assoc \in [Assocs -> [peer : Peers \cup {0}, sock : 0 .. MaxSocks,
       at : {"unused", "queued", "handled", "refused"}, open : BOOLEAN, early : BOOLEAN,
       rchan : 0 .. QueueSize]]
  /\ connMap \in [Peers -> 0 .. MaxAssoc]
  /\ mapSize \in -MaxAssoc .. MaxAssoc
  /\ reader \in [pc : {"read", "set", "connect", "ended"}, a : 0 .. MaxAssoc]
  /\ stopped \in BOOLEAN

\* A sender whose entry is a closed connection is never heard again: its
\* datagrams pile up behind the closed end.  That happens only to a connection
\* closed between its queueing and its Set, in the middle of the loop
\* (udp.go:116, ftcp.go:113, forward.go:694).
ClosedIsUnmapped ==
  \A p \in Peers : connMap[p] # 0 =>
    LET x == assoc[connMap[p]] IN x.peer = p /\ (x.open \/ x.early)
================================================================================
