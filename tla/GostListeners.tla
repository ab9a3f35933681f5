----------------------------- MODULE GostListeners -----------------------------
(***************************************************************************)
(* The server side of gost's transports.  A listener of a multiplexed or   *)
(* tunnelled transport accepts raw connections in a loop of its own, takes *)
(* streams out of each in a goroutine per connection, and passes them to   *)
(* Server.Serve through a bounded channel; what ends the loop goes through *)
(* a second channel, which is closed behind it (tls.go, ws.go, kcp.go,     *)
(* quic.go, ssh.go, http2.go, server.go).                                  *)
(***************************************************************************)
EXTENDS Integers, FiniteSets

CONSTANTS Streams,   \* the streams that clients open
          QueueCap   \* the capacity of connChan (1024 in the code)

VARIABLES lkind,     \* the transport
          raw,       \* the raw listener: "none", "open", "failed", "closed"
          port,      \* whether the process holds the port
          loop,      \* the accept loop runs
          errChan,   \* what errChan holds, and whether it is closed
          stream,    \* where each stream is
          serve,     \* "off", "running", "ended"
          delay,     \* tempDelay, in milliseconds
          servedNil  \* a handler was started without a connection

listenerVars == <<lkind, raw, port, loop, errChan, stream, serve, delay, servedNil>>

LoopKinds == {"mtls", "kcp", "quic", "ssh-tunnel", "h2", "h2c"}
WsKinds == {"ws", "mws", "wss", "mwss"}
ListenerKinds == LoopKinds \cup WsKinds \cup {"tcp", "http2"}
QuietChan == [value |-> "none", closed |-> FALSE]

ListenersInit ==
  /\ lkind \in ListenerKinds
  /\ raw = "none" /\ port = "free" /\ loop = FALSE
  /\ errChan = QuietChan
  /\ stream = [c \in Streams |-> "new"]
  /\ serve = "off" /\ delay = 0 /\ servedNil = FALSE

\* A constructor gets its listener, or fails at one of the given points; a
\* point in `leaks` comes after the port is bound and does not give it back.
Opens(fails, leaks) ==
  /\ raw = "none" /\ serve = "off"
  /\ \/ /\ raw' = "open" /\ port' = "bound" /\ loop' = TRUE /\ serve' = "running"
     \/ \E f \in fails : raw' = "failed" /\ UNCHANGED <<port, loop, serve>>
     \/ \E f \in leaks : raw' = "failed" /\ port' = "bound" /\ UNCHANGED <<loop, serve>>
  /\ UNCHANGED <<lkind, errChan, stream, delay, servedNil>>

OpenTcp == lkind = "tcp" /\ Opens({"resolve", "listen"}, {})
OpenMtls == lkind = "mtls" /\ Opens({"listen"}, {})
OpenKcp == lkind = "kcp" /\ Opens({"listen"}, {"serve"})
OpenQuic == lkind = "quic" /\ Opens({"resolve", "listen"}, {"quic"})
OpenSshTunnel == lkind = "ssh-tunnel" /\ Opens({"listen", "signer"}, {})
OpenH2 == lkind = "h2" /\ Opens({"listen"}, {})
OpenH2c == lkind = "h2c" /\ Opens({"listen"}, {})
OpenHttp2 == lkind = "http2" /\ Opens({"configure", "listen"}, {})
\* The websocket constructors also look whether their server failed at once.
OpenWs == lkind = "ws" /\ Opens({"resolve", "listen", "serve"}, {})
OpenMws == lkind = "mws" /\ Opens({"resolve", "listen", "serve"}, {})
OpenWss == lkind = "wss" /\ Opens({"resolve", "listen", "serve"}, {})
OpenMwss == lkind = "mwss" /\ Opens({"resolve", "listen", "serve"}, {})

\* listenLoop: any error of Accept, a temporary one too, ends the loop for good.
LoopFails(e) ==
  /\ loop
  /\ e = "permanent" => raw # "open"
  /\ errChan' = [value |-> e, closed |-> TRUE]
  /\ loop' = FALSE
  /\ UNCHANGED <<lkind, raw, port, stream, serve, delay, servedNil>>

LoopMtls(e) == lkind = "mtls" /\ LoopFails(e)
LoopKcp(e) == lkind = "kcp" /\ LoopFails(e)
LoopQuic(e) == lkind = "quic" /\ LoopFails(e)
LoopSshTunnel(e) == lkind = "ssh-tunnel" /\ LoopFails(e)
LoopH2(e) == lkind \in {"h2", "h2c"} /\ LoopFails(e)
\* The http server of a websocket listener retries temporary errors itself.
ServerOfWs == lkind \in WsKinds /\ LoopFails("permanent")
\* That of the HTTP/2 proxy only logs its error.
ServerOfHttp2 ==
  /\ lkind = "http2" /\ loop /\ raw # "open"
  /\ loop' = FALSE
  /\ UNCHANGED <<lkind, raw, port, errChan, stream, serve, delay, servedNil>>

Queued == {c \in Streams : stream[c] = "queued"}

\* A connection yields a stream: it is queued, or closed when the queue is
\* full.  Connections that were accepted go on after the loop has ended.
Enqueue(c) ==
  /\ stream[c] = "new" /\ serve # "off"
  /\ stream' = [stream EXCEPT ![c] =
       IF Cardinality(Queued) < QueueCap THEN "queued" ELSE "closed"]
  /\ UNCHANGED <<lkind, raw, port, loop, errChan, serve, delay, servedNil>>

MuxMtls(c) == lkind = "mtls" /\ Enqueue(c)
MuxKcp(c) == lkind = "kcp" /\ Enqueue(c)
SessionLoopQuic(c) == lkind = "quic" /\ Enqueue(c)
ServeConnSsh(c) == lkind = "ssh-tunnel" /\ Enqueue(c)
\* h2 rejects a request that is not of its method and path.
HandleFuncH2(c) ==
  /\ lkind \in {"h2", "h2c"}
  /\ \/ Enqueue(c)
     \/ /\ stream[c] = "new" /\ serve # "off"
        /\ stream' = [stream EXCEPT ![c] = "closed"]
        /\ UNCHANGED <<lkind, raw, port, loop, errChan, serve, delay, servedNil>>
UpgradeWs(c) == lkind \in {"ws", "wss"} /\ Enqueue(c)
MuxMws(c) == lkind \in {"mws", "mwss"} /\ Enqueue(c)
HandleFuncHttp2(c) == lkind = "http2" /\ Enqueue(c)

\* Accept: one of the two channels that has something.  A closed errChan is
\* an error to all but the websocket listeners, which return nothing at all.
AcceptError ==
  IF errChan.value # "none" THEN errChan.value
  ELSE IF lkind \in WsKinds THEN "nil" ELSE "closed"
Received == [errChan EXCEPT !.value = "none"]

MutDoubled == IF delay = 0 THEN 5 ELSE 2 * delay
Doubled == IF delay = 0 THEN 5 ELSE IF 2 * delay > 1000 THEN 1000 ELSE 2 * delay

\* Serve with the connection of stream c; a tcp stream comes straight in.
ServeConn(c) ==
  /\ serve = "running"
  /\ \/ stream[c] = "queued"
     \/ lkind = "tcp" /\ raw = "open" /\ stream[c] = "new"
  /\ stream' = [stream EXCEPT ![c] = "handled"]
  /\ delay' = 0
  /\ UNCHANGED <<lkind, raw, port, loop, errChan, serve, servedNil>>

\* Serve with an error: after a temporary one it waits and goes on.
ServeError(e) ==
  /\ serve = "running"
  /\ \/ e = "temporary" /\ delay' = Doubled /\ UNCHANGED <<serve, servedNil>>
     \/ e \in {"permanent", "closed"} /\ serve' = "ended" /\ UNCHANGED <<delay, servedNil>>
     \/ e = "nil" /\ servedNil' = TRUE /\ delay' = 0 /\ UNCHANGED serve

\* Accept picks errChan.
AcceptFails ==
  /\ errChan # QuietChan
  /\ ServeError(AcceptError)
  /\ errChan' = Received
  /\ UNCHANGED <<lkind, raw, port, loop, stream>>

\* The kernel's Accept fails a tcp server.
TcpFails(e) ==
  /\ lkind = "tcp" /\ raw # "none"
  /\ e = "permanent" => raw # "open"
  /\ ServeError(e)
  /\ UNCHANGED <<lkind, raw, port, loop, errChan, stream>>

\* Server.Close.  That of http2 reports to errChan itself.
CloseListener ==
  /\ raw = "open" /\ serve # "off"
  /\ raw' = "closed" /\ port' = "free"
  /\ errChan' = IF lkind = "http2" THEN [value |-> "closed", closed |-> TRUE] ELSE errChan
  /\ UNCHANGED <<lkind, loop, stream, serve, delay, servedNil>>

\* The raw listener breaks.
RawFails ==
  /\ raw = "open" /\ raw' = "failed"
  /\ UNCHANGED <<lkind, port, loop, errChan, stream, serve, delay, servedNil>>

OpenAny ==
  \/ OpenTcp \/ OpenMtls \/ OpenKcp \/ OpenQuic \/ OpenSshTunnel \/ OpenH2 \/ OpenH2c
  \/ OpenHttp2 \/ OpenWs \/ OpenMws \/ OpenWss \/ OpenMwss

LoopEnds ==
  \/ \E e \in {"temporary", "permanent"} :
       LoopMtls(e) \/ LoopKcp(e) \/ LoopQuic(e) \/ LoopSshTunnel(e) \/ LoopH2(e)
  \/ ServerOfWs \/ ServerOfHttp2

StreamComes(c) ==
  \/ MuxMtls(c) \/ MuxKcp(c) \/ SessionLoopQuic(c) \/ ServeConnSsh(c) \/ HandleFuncH2(c)
  \/ UpgradeWs(c) \/ MuxMws(c) \/ HandleFuncHttp2(c)

ListenersNext ==
  \/ OpenAny \/ LoopEnds \/ AcceptFails \/ CloseListener \/ RawFails
  \/ \E c \in Streams : StreamComes(c) \/ ServeConn(c)
  \/ \E e \in {"temporary", "permanent"} : TcpFails(e)

ListenersSpec == ListenersInit /\ [][ListenersNext]_listenerVars

\* Where doubling leads.
Delays == {0, 5, 10, 20, 40, 80, 160, 320, 640, 1000}

ListenersTypeOK ==
  /\ lkind \in ListenerKinds
  /\ raw \in {"none", "open", "failed", "closed"}
  /\ port \in {"free", "bound"} /\ loop \in BOOLEAN
  /\ errChan \in [value : {"none", "temporary", "permanent", "closed"}, closed : BOOLEAN]
  /\ stream \in [Streams -> {"new", "queued", "handled", "closed"}]
  /\ serve \in {"off", "running", "ended"}
  /\ delay \in Delays
  /\ servedNil \in BOOLEAN

\* No handler is started without a connection (server.go:65-84), although
\* Accept of the websocket listeners returns neither a connection nor an error
\* from the second call after their server failed (ws.go:431, 554): the first
\* call returns an error that ends Serve.
NeverServesNothing == ~servedNil
================================================================================
