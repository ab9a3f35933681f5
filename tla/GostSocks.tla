------------------------------- MODULE GostSocks -------------------------------
(***************************************************************************)
(* One SOCKS connection (socks.go): method negotiation, the request of the *)
(* client and the handler that serves it until one end goes, over the      *)
(* server's chain or from the server itself.  What the handler opens on    *)
(* the way - the connection to the target, the listener of a bind, the     *)
(* sockets of a UDP relay, the goroutines between them - has to go with it.*)
(***************************************************************************)
EXTENDS Integers, FiniteSets

CONSTANTS MaxBindPeers   \* connections that come to a bound port

ASSUME SocksAssumption == MaxBindPeers \in Nat \ {0}

VARIABLES ask,      \* what the client wants and what the server is configured with
          client,   \* the client's end of the control connection
          method,   \* the method the server selected
          wrapped,  \* the ends that speak TLS
          stage,    \* how far socks5Handler.Handle is
          reply,    \* the last reply of the server
          opened,   \* what the handler has open
          running,  \* its goroutines
          taken,    \* a peer was accepted (bindOn), streams piped (muxBindOn)
          early,    \* data of the client waits in the pipe of bindOn
          learned,  \* clientAddr of a UDP relay is known
          lostPeer  \* bindOn accepted a peer and served the end of the client instead

socksVars == <<ask, client, method, wrapped, stage, reply, opened, running, taken, early, learned, lostPeer>>

SocksCommands == {"connect", "bind", "mbind", "udp", "udptun"}
Requests == [cmd : SocksCommands \cup {"connect4", "bind4"}, chain : BOOLEAN, auth : BOOLEAN,
             tls : BOOLEAN, good : BOOLEAN, allowed : BOOLEAN]

\* SOCKS4 knows neither methods nor credentials, and the automatic handler
\* refuses it when users are configured.
SocksInit ==
  /\ ask \in {r \in Requests : /\ r.cmd \in {"connect4", "bind4"} => ~r.tls /\ r.good
                               /\ r.auth \/ r.good}
  /\ client = "greeting" /\ method = "none" /\ wrapped = {}
  /\ stage = "methods" /\ reply = "none"
  /\ opened = {} /\ running = {}
  /\ taken = 0 /\ early = FALSE /\ learned = FALSE /\ lostPeer = FALSE

\* What the handler's deferred calls close when it returns.
Deferred == {"target", "chain", "relay", "outer"}
            \cup (IF ask.cmd = "mbind" THEN {"listener"} ELSE {})
            \cup (IF stage = "transport" THEN {"peer"} ELSE {})
SocksReturns(rep) == stage' = "done" /\ reply' = rep /\ opened' = opened \ Deferred
Serving == UNCHANGED <<ask, client, method, wrapped, taken, early, learned, lostPeer>>

--------------------------------------------------------------------------------
(* The methods and the request. *)

\* AutoHandler and serverSelector.Select: TLS when it is offered, with
\* credentials when there is an authenticator, offered or not.
SelectMethod ==
  /\ stage = "methods" /\ client = "greeting"
  /\ IF ask.cmd \in {"connect4", "bind4"}
     THEN /\ stage' = IF ask.auth THEN "done" ELSE "serve"
          /\ client' = "asked" /\ UNCHANGED <<method, wrapped>>
     ELSE /\ method' = CASE ask.tls /\ ask.auth -> "tlsAuth" [] ask.tls -> "tls"
                         [] ask.auth -> "userPass" [] OTHER -> "noAuth"
          /\ wrapped' = IF ask.tls THEN {"client", "server"} ELSE {}
          /\ stage' = IF ask.auth THEN "credentials" ELSE "serve"
          /\ client' = IF ask.auth THEN "authenticating" ELSE "asked"
  /\ UNCHANGED <<ask, reply, opened, running, taken, early, learned, lostPeer>>

\* OnSelected of both ends: user name and password, and the answer.
OnSelected ==
  /\ stage = "credentials" /\ client = "authenticating"
  /\ IF ask.good THEN stage' = "serve" /\ client' = "asked"
     ELSE stage' = "done" /\ client' = "gone"
  /\ UNCHANGED <<ask, method, wrapped, reply, opened, running, taken, early, learned, lostPeer>>

\* The client's connectors read the reply; without a success, and when their
\* deadline passes, the connection is closed.
Answered(holds) ==
  /\ client = "asked" /\ (reply # "none" \/ stage = "done")
  /\ client' = IF reply = "succeeded" THEN holds ELSE "gone"
  /\ UNCHANGED <<ask, method, wrapped, stage, reply, opened, running, taken, early, learned, lostPeer>>
ConnectReply == ask.cmd = "connect" /\ Answered("using")
Connect4Reply == ask.cmd \in {"connect4", "bind4"} /\ Answered("using")
MuxBindReply == ask.cmd = "mbind" /\ Answered("using")
UDPTunReply == ask.cmd = "udptun" /\ Answered("using")
\* socks5BindConn: a second reply tells of the peer; reads and writes wait for it.
BindReply == ask.cmd = "bind" /\ Answered("bound")
BindHandshake ==
  /\ client = "bound" /\ stage \in {"transport", "done"}
  /\ client' = IF stage = "transport" THEN "using" ELSE "gone"
  /\ UNCHANGED <<ask, method, wrapped, stage, reply, opened, running, taken, early, learned, lostPeer>>
\* socks5UDPConn keeps the relay's socket (if that could be dialled), and
\* nobody keeps the control connection: it lasts until it is garbage collected.
UDPReply == ask.cmd = "udp" /\ (Answered("unheld") \/ Answered("gone"))
ControlCollected ==
  /\ client = "unheld" /\ client' = "gone"
  /\ UNCHANGED <<ask, method, wrapped, stage, reply, opened, running, taken, early, learned, lostPeer>>
\* The client closes its end.
ClientLeaves ==
  /\ client \notin {"gone", "unheld"} /\ client' = "gone"
  /\ UNCHANGED <<ask, method, wrapped, stage, reply, opened, running, taken, early, learned, lostPeer>>
\* Handle's read of the method, the credentials or the request fails.
SocksReadFails ==
  /\ client = "gone" /\ stage \in {"methods", "credentials"}
  /\ stage' = "done"
  /\ UNCHANGED <<ask, client, method, wrapped, reply, opened, running, taken, early, learned, lostPeer>>

--------------------------------------------------------------------------------
(* The commands. *)

\* handleConnect of either version: permissions and bypass, then the retries.
HandleConnect ==
  /\ stage = "serve" /\ ask.cmd \in {"connect", "connect4"}
  /\ \/ SocksReturns(IF ask.allowed THEN "unreachable" ELSE "notAllowed")
     \/ /\ ask.allowed
        /\ IF client = "gone" THEN SocksReturns("none")
           ELSE opened' = {"target"} /\ reply' = "succeeded" /\ stage' = "transport"
  /\ UNCHANGED running /\ Serving

\* handleBind, handleMuxBind and handleUDPTunnel with a chain: the request is
\* sent on to the last node, whose answers are copied back; the last of them
\* shakes hands with that node first.
HandleForward ==
  /\ stage = "serve" /\ ask.chain /\ ask.cmd \in {"bind", "mbind", "udptun", "bind4"}
  /\ \/ SocksReturns("failure")
     \/ /\ opened' = {"chain"}
        /\ IF ask.cmd = "udptun" THEN stage' = "handshake" /\ UNCHANGED reply
           ELSE stage' = "transport" /\ reply' \in {"succeeded", "failure"}
  /\ UNCHANGED running /\ Serving

Bind4Rejected ==
  /\ stage = "serve" /\ ask.cmd = "bind4" /\ ~ask.chain
  /\ SocksReturns("failure")
  /\ UNCHANGED running /\ Serving

\* handleBind, bindOn: who may not bind is not answered at all; a reply that
\* cannot be written closes the listener.
BindOn ==
  /\ stage = "serve" /\ ask.cmd = "bind" /\ ~ask.chain
  /\ \/ ~ask.allowed /\ SocksReturns("none") /\ UNCHANGED running
     \/ ask.allowed /\ SocksReturns("failure") /\ UNCHANGED running
     \/ /\ ask.allowed
        /\ IF client = "gone" THEN SocksReturns("none") /\ UNCHANGED running
           ELSE /\ opened' = {"listener"} /\ running' = {"accept", "pipe"}
                /\ reply' = "succeeded" /\ stage' = "select"
  /\ Serving

\* The accept goroutine of bindOn: one peer, or an error, then the listener is
\* closed.
BindAccept ==
  /\ "accept" \in running /\ "listener" \in opened
  /\ \/ opened' = (opened \ {"listener"}) \cup {"peer"} /\ taken' = 1
     \/ opened' = opened \ {"listener"} /\ UNCHANGED taken
  /\ running' = running \ {"accept"}
  /\ UNCHANGED <<ask, client, method, wrapped, stage, reply, early, learned, lostPeer>>
AcceptEnds ==
  /\ "accept" \in running /\ "listener" \notin opened
  /\ running' = running \ {"accept"}
  /\ UNCHANGED <<ask, client, method, wrapped, stage, reply, opened, taken, early, learned, lostPeer>>

\* The pipe goroutine of bindOn copies between the client and a pipe nobody
\* reads before a peer is there: with data in hand it cannot see the client go.
\* (Clients other than gost's may write before the second reply.)
WritesEarly ==
  /\ client = "bound" /\ "pipe" \in running /\ stage = "select" /\ ~early
  /\ early' = TRUE
  /\ UNCHANGED <<ask, client, method, wrapped, stage, reply, opened, running, taken, learned, lostPeer>>
PipeEnds ==
  /\ "pipe" \in running
  /\ (client = "gone" /\ ~(early /\ stage = "select")) \/ stage = "done"
  /\ running' = running \ {"pipe"}
  /\ UNCHANGED <<ask, client, method, wrapped, stage, reply, opened, taken, early, learned, lostPeer>>

\* The select of bindOn: the peer first, or the error of its accept, or the end
\* of the pipe, which closes the listener but not a peer accepted in the meantime.
SelectAccept ==
  /\ stage = "select" /\ taken = 1
  /\ stage' = "transport"
  /\ UNCHANGED <<ask, client, method, wrapped, reply, opened, running, taken, early, learned, lostPeer>>
SelectNoPeer ==
  /\ stage = "select" /\ "accept" \notin running /\ taken = 0
  /\ stage' = "done"
  /\ UNCHANGED <<ask, client, method, wrapped, reply, opened, running, taken, early, learned, lostPeer>>
MutSelectPipe ==
  /\ stage = "select" /\ "pipe" \notin running
  /\ stage' = "done" /\ lostPeer' = ("peer" \in opened)
  /\ UNCHANGED <<ask, client, method, wrapped, reply, opened, running, taken, early, learned>>
SelectPipe ==
  /\ stage = "select" /\ "pipe" \notin running
  /\ stage' = "done" /\ lostPeer' = ("peer" \in opened)
  /\ opened' = opened \ {"listener"}
  /\ UNCHANGED <<ask, client, method, wrapped, reply, running, taken, early, learned>>

\* transport: it returns as soon as one direction ends.
TransportEnds ==
  /\ stage = "transport"
  /\ SocksReturns(reply)
  /\ UNCHANGED running /\ Serving

\* handleMuxBind, muxBindOn: one goroutine waits for the session to end, the
\* handler accepts and gives every peer a stream of the session.
MuxBindOn ==
  /\ stage = "serve" /\ ask.cmd = "mbind" /\ ~ask.chain
  /\ \/ ~ask.allowed /\ SocksReturns("none") /\ UNCHANGED running
     \/ ask.allowed /\ SocksReturns("failure") /\ UNCHANGED running
     \/ /\ ask.allowed
        /\ IF client = "gone" THEN SocksReturns("none") /\ UNCHANGED running
           ELSE /\ opened' = {"listener"} /\ running' = {"session"}
                /\ reply' = "succeeded" /\ stage' = "mux"
  /\ Serving
MuxPeer ==
  /\ stage = "mux" /\ "listener" \in opened /\ taken < MaxBindPeers
  /\ taken' = taken + 1
  /\ UNCHANGED <<ask, client, method, wrapped, stage, reply, opened, running, early, learned, lostPeer>>
StreamEnds ==
  /\ ask.cmd = "mbind" /\ taken > 0
  /\ taken' = taken - 1
  /\ UNCHANGED <<ask, client, method, wrapped, stage, reply, opened, running, early, learned, lostPeer>>
SessionEnds ==
  /\ "session" \in running /\ (client = "gone" \/ stage = "done")
  /\ running' = running \ {"session"} /\ opened' = opened \ {"listener"}
  /\ UNCHANGED <<ask, client, method, wrapped, stage, reply, taken, early, learned, lostPeer>>
MuxAcceptFails ==
  /\ stage = "mux" /\ "listener" \notin opened
  /\ SocksReturns(reply)
  /\ UNCHANGED running /\ Serving

\* handleUDPRelay: the client has its answer before the outer socket, or the
\* chain's tunnel, is there.
HandleUDPRelay ==
  /\ stage = "serve" /\ ask.cmd = "udp"
  /\ \/ ~ask.allowed /\ SocksReturns("notAllowed")
     \/ ask.allowed /\ SocksReturns("failure")
     \/ /\ ask.allowed
        /\ IF client = "gone" THEN SocksReturns("none")
           ELSE opened' = {"relay"} /\ reply' = "succeeded" /\ stage' = "outer"
  /\ UNCHANGED running /\ Serving
OpenOuter ==
  /\ stage = "outer"
  /\ \/ SocksReturns(reply) /\ UNCHANGED running
     \/ /\ ask.chain /\ opened' = opened \cup {"chain"} /\ stage' = "handshake"
        /\ UNCHANGED <<reply, running>>
     \/ /\ ~ask.chain /\ opened' = opened \cup {"outer"} /\ stage' = "discard"
        /\ running' = {"outwards", "inwards"} /\ UNCHANGED reply
  /\ Serving
\* socks5Handshake with the last node of the chain, which sets no deadline: it
\* lasts until the node answers or closes the connection, whatever the client
\* does.  The relay's request that follows has deadlines.
ChainHandshake ==
  /\ stage = "handshake"
  /\ \/ SocksReturns(reply) /\ UNCHANGED running
     \/ /\ ask.cmd = "udp" /\ stage' = "discard" /\ running' = {"outwards", "inwards"}
        /\ UNCHANGED <<opened, reply>>
     \/ /\ ask.cmd = "udptun" /\ stage' = "transport" /\ reply' \in {"succeeded", "failure"}
        /\ UNCHANGED <<opened, running>>
  /\ Serving

\* handleUDPTunnel without a chain.
HandleUDPTunnel ==
  /\ stage = "serve" /\ ask.cmd = "udptun" /\ ~ask.chain
  /\ \/ SocksReturns("none") /\ UNCHANGED running
     \/ /\ ask.allowed /\ client # "gone"
        /\ opened' = {"outer"} /\ running' = {"outwards", "inwards"}
        /\ reply' = "succeeded" /\ stage' = "tunnel"
  /\ Serving

\* transportUDP, tunnelClientUDP: the first datagram says where answers go,
\* and over a chain only one that can be read does.  A datagram that cannot
\* be read ends its direction, and the client is not told.
RelayOut(readable) ==
  /\ stage = "discard" /\ "outwards" \in running /\ client = "unheld"
  /\ learned' = (learned \/ readable \/ ~ask.chain)
  /\ running' = IF readable THEN running ELSE running \ {"outwards"}
  /\ UNCHANGED <<ask, client, method, wrapped, stage, reply, opened, taken, early, lostPeer>>
\* A direction ends: what it reads or writes is closed, or fails.
DirectionEnds(d) ==
  /\ d \in running /\ d \in {"outwards", "inwards"}
  /\ running' = running \ {d}
  /\ UNCHANGED <<ask, client, method, wrapped, stage, reply, opened, taken, early, learned, lostPeer>>
\* discardClientData: the association lives as long as the client's connection.
DiscardEnds ==
  /\ stage = "discard" /\ client = "gone"
  /\ SocksReturns(reply)
  /\ UNCHANGED running /\ Serving
\* tunnelServerUDP returns with its first direction.
TunnelUDPEnds ==
  /\ stage = "tunnel" /\ running # {"outwards", "inwards"}
  /\ SocksReturns(reply)
  /\ UNCHANGED running /\ Serving

SocksNext ==
  \/ SelectMethod \/ OnSelected \/ ConnectReply \/ Connect4Reply \/ MuxBindReply \/ UDPTunReply
  \/ BindReply \/ BindHandshake \/ UDPReply \/ ControlCollected \/ ClientLeaves \/ SocksReadFails
  \/ HandleConnect \/ HandleForward \/ Bind4Rejected \/ BindOn \/ BindAccept \/ AcceptEnds
  \/ WritesEarly \/ PipeEnds \/ SelectAccept \/ SelectNoPeer \/ SelectPipe \/ TransportEnds
  \/ MuxBindOn \/ MuxPeer \/ StreamEnds \/ SessionEnds \/ MuxAcceptFails
  \/ HandleUDPRelay \/ OpenOuter \/ ChainHandshake \/ HandleUDPTunnel \/ DiscardEnds \/ TunnelUDPEnds
  \/ \E b \in BOOLEAN : RelayOut(b)
  \/ \E d \in {"outwards", "inwards"} : DirectionEnds(d)

\* The steps of the server that happen of themselves once the client is gone:
\* reads fail, dials have deadlines, goroutines are scheduled.  ChainHandshake is
\* not among them: nothing makes a node of the chain answer.
ServerStep ==
  \/ SocksReadFails \/ HandleConnect \/ HandleForward \/ Bind4Rejected \/ BindOn \/ AcceptEnds
  \/ PipeEnds \/ SelectAccept \/ SelectNoPeer \/ SelectPipe \/ TransportEnds \/ MuxBindOn
  \/ SessionEnds \/ MuxAcceptFails \/ HandleUDPRelay \/ OpenOuter \/ HandleUDPTunnel
  \/ DiscardEnds \/ TunnelUDPEnds \/ \E d \in {"outwards", "inwards"} : DirectionEnds(d)

--------------------------------------------------------------------------------
SocksTypeOK ==
  /\ ask \in Requests
  /\ client \in {"greeting", "authenticating", "asked", "using", "bound", "unheld", "gone"}
  /\ method \in {"none", "noAuth", "userPass", "tls", "tlsAuth"}
  /\ wrapped \in {{}, {"client", "server"}}
  /\ stage \in {"methods", "credentials", "serve", "select", "transport", "mux", "outer",
                "handshake", "discard", "tunnel", "done"}
  /\ reply \in {"none", "succeeded", "failure", "unreachable", "notAllowed"}
  /\ opened \subseteq {"target", "chain", "listener", "peer", "relay", "outer"}
  /\ running \subseteq {"accept", "pipe", "session", "outwards", "inwards"}
  /\ taken \in 0 .. MaxBindPeers
  /\ early \in BOOLEAN /\ learned \in BOOLEAN /\ lostPeer \in BOOLEAN

\* Nothing of a connection is left: every goroutine has ended and what the
\* handler opened is closed.
Released == stage = "done" /\ running = {}
            /\ opened \subseteq (IF lostPeer THEN {"peer"} ELSE {})
================================================================================
