------------------------------ MODULE GostSessions -----------------------------
(***************************************************************************)
(* The client side of gost's multiplexed transports (ssh.go, tls.go,       *)
(* ws.go, kcp.go, quic.go, http2.go).  A caller dials and then shakes      *)
(* hands, each under the transporter's mutex but not both: between them    *)
(* other callers dial, shake hands and find the session dead.  The pool    *)
(* holds one entry per address; one address is modelled, since entries of  *)
(* two addresses never meet.                                               *)
(***************************************************************************)
EXTENDS Integers, FiniteSets

CONSTANTS Callers,      \* goroutines that open connections through the pool
          MaxConns,     \* raw connections a behaviour may dial
          MaxSessions,  \* sessions a behaviour may open
          PingRetries   \* HandshakeOptions.Retry

ASSUME SessionsAssumption == {MaxConns, MaxSessions, PingRetries} \subseteq Nat

VARIABLES kind,      \* the transporter
          pool,      \* tr.sessions[addr] or tr.clients[addr]
          conns,     \* the raw connections
          sessions,  \* the sessions, or http clients, opened so far
          caller     \* where each caller stands

sessionVars == <<kind, pool, conns, sessions, caller>>

MuxKinds == {"mtls", "mws", "mwss"}
SshKinds == {"ssh-forward", "ssh-tunnel"}
HttpKinds == {"http2", "h2"}
SessionKinds == MuxKinds \cup SshKinds \cup HttpKinds \cup {"kcp", "quic"}

Conns == 1 .. MaxConns
SessionIds == 1 .. MaxSessions
NotPooled == [conn |-> 0, session |-> 0]
NoSession == [conn |-> 0, up |-> FALSE, deaded |-> FALSE, closed |-> FALSE, pings |-> 0]
IdleCaller == [pc |-> "idle", conn |-> 0, session |-> 0]

SessionsInit ==
  /\ kind \in SessionKinds
  /\ pool = NotPooled
  /\ conns = [c \in Conns |-> "unused"]
  /\ sessions = [s \in SessionIds |-> NoSession]
  /\ caller = [u \in Callers |-> IdleCaller]

\* Numbers are taken in order.
Fresh(c) == conns[c] = "unused" /\ \A d \in 1 .. c - 1 : conns[d] # "unused"
FreshSession(s) == sessions[s] = NoSession /\ \A t \in 1 .. s - 1 : sessions[t] # NoSession

\* sshSession.Closed: the channels of an entry that never shook hands are nil,
\* and such an entry is not closed.
SshClosed(e) == e.session # 0 /\ (sessions[e.session].deaded \/ sessions[e.session].closed)
\* muxSession.IsClosed: an entry that never shook hands is closed.
MuxIsClosed(e) == e.session = 0 \/ ~sessions[e.session].up
\* muxSession.GetConn, OpenStream of a session.
GetConn(s) == sessions[s].up

\* Dial: the entry's connection, or a new one when there is no entry or the
\* entry is dead.  A failed dial leaves `left` in the pool.
DialEntry(u, dead, left) ==
  /\ caller[u].pc = "idle"
  /\ IF pool = NotPooled \/ dead
     THEN \/ \E c \in Conns :
               /\ Fresh(c)
               /\ conns' = [conns EXCEPT ![c] = "open"]
               /\ pool' = [conn |-> c, session |-> 0]
               /\ caller' = [caller EXCEPT ![u] = [pc |-> "dialed", conn |-> c, session |-> 0]]
          \/ pool' = left /\ UNCHANGED <<conns, caller>>
     ELSE /\ caller' = [caller EXCEPT ![u] = [pc |-> "dialed", conn |-> pool.conn, session |-> 0]]
          /\ UNCHANGED <<conns, pool>>
  /\ UNCHANGED <<kind, sessions>>

DialSshForward(u) == kind = "ssh-forward" /\ DialEntry(u, SshClosed(pool), pool)
DialSshTunnel(u) == kind = "ssh-tunnel" /\ DialEntry(u, SshClosed(pool), pool)
DialMtls(u) == kind = "mtls" /\ DialEntry(u, MuxIsClosed(pool), NotPooled)
DialMws(u) == kind = "mws" /\ DialEntry(u, MuxIsClosed(pool), NotPooled)
DialMwss(u) == kind = "mwss" /\ DialEntry(u, MuxIsClosed(pool), NotPooled)
DialKcp(u) == kind = "kcp" /\ DialEntry(u, pool.session # 0 /\ MuxIsClosed(pool), NotPooled)
DialQuic(u) == kind = "quic" /\ DialEntry(u, FALSE, NotPooled)

\* initSession, by how it ends.
InitMtls == {"ok", "tls", "smux"}
InitMws == {"ok", "upgrade", "smux"}
InitMwss == {"ok", "upgrade", "smux"}
InitKcp == {"ok", "type", "kcp", "smux"}
InitQuic == {"ok", "type", "resolve", "dial"}
InitSsh == {"ok", "handshake"}

\* Open a session on the caller's connection.  A session whose first stream
\* fails is closed and forgotten in the same step, like one that never opened.
OpenSession(u, outcomes) ==
  LET c == caller[u].conn IN
  \E o \in outcomes :
    IF o = "ok"
    THEN /\ conns[c] = "open"
         /\ \E s \in SessionIds, p \in IF kind \in SshKinds THEN {0, PingRetries + 1} ELSE {0} :
              /\ FreshSession(s)
              /\ sessions' = [sessions EXCEPT ![s] =
                   [conn |-> c, up |-> TRUE, deaded |-> FALSE, closed |-> FALSE, pings |-> p]]
              /\ pool' = [conn |-> c, session |-> s]
         /\ UNCHANGED conns
    ELSE /\ conns' = [conns EXCEPT ![c] = "closed"]
         /\ pool' = NotPooled
         /\ UNCHANGED sessions

\* A handshake that looks at the caller's connection instead of the entry.
MutShakeHands(u, outcomes) ==
  /\ caller[u].pc = "dialed"
  /\ caller' = [caller EXCEPT ![u] = IdleCaller]
  /\ IF pool.conn # caller[u].conn \/ pool.session = 0 THEN OpenSession(u, outcomes)
     ELSE IF GetConn(pool.session) THEN UNCHANGED <<pool, conns, sessions>>
     ELSE pool' = NotPooled /\ UNCHANGED <<conns, sessions>>
  /\ UNCHANGED kind

\* Handshake of the smux and quic transporters.
ShakeHands(u, outcomes) ==
  /\ caller[u].pc = "dialed"
  /\ caller' = [caller EXCEPT ![u] = IdleCaller]
  /\ IF pool.session = 0 THEN OpenSession(u, outcomes)
     ELSE IF GetConn(pool.session) THEN UNCHANGED <<pool, conns, sessions>>
     ELSE pool' = NotPooled /\ UNCHANGED <<conns, sessions>>
  /\ UNCHANGED kind

HandshakeMtls(u) == kind = "mtls" /\ ShakeHands(u, InitMtls)
HandshakeMws(u) == kind = "mws" /\ ShakeHands(u, InitMws)
HandshakeMwss(u) == kind = "mwss" /\ ShakeHands(u, InitMwss)
HandshakeKcp(u) == kind = "kcp" /\ ShakeHands(u, InitKcp)

\* quic refuses a connection that is not its entry's.
HandshakeQuic(u) ==
  /\ kind = "quic"
  /\ \/ /\ pool = NotPooled \/ pool.conn = caller[u].conn
        /\ ShakeHands(u, InitQuic)
     \/ /\ caller[u].pc = "dialed" /\ pool # NotPooled /\ pool.conn # caller[u].conn
        /\ conns' = [conns EXCEPT ![caller[u].conn] = "closed"]
        /\ caller' = [caller EXCEPT ![u] = IdleCaller]
        /\ UNCHANGED <<kind, pool, sessions>>

\* Handshake over ssh: a session found closed is forgotten, and only then.
ShakeSsh(u) ==
  /\ caller[u].pc = "dialed"
  /\ caller' = [caller EXCEPT ![u] = IdleCaller]
  /\ IF pool.session = 0 THEN OpenSession(u, InitSsh)
     ELSE /\ pool' = IF SshClosed(pool) THEN NotPooled ELSE pool
          /\ UNCHANGED <<conns, sessions>>
  /\ UNCHANGED kind

HandshakeSshForward(u) == kind = "ssh-forward" /\ ShakeSsh(u)
\* A channel that cannot be opened fails the caller and leaves the session.
HandshakeSshTunnel(u) == kind = "ssh-tunnel" /\ ShakeSsh(u)

\* sshSession.Ping: PingRetries + 1 failures in a row close `deaded`; it ends
\* when `closed` is, and closes `deaded` then as well.
Ping(s) ==
  /\ kind \in SshKinds /\ sessions[s].pings > 0 /\ ~sessions[s].deaded
  /\ \/ /\ ~sessions[s].closed /\ sessions[s].up
        /\ sessions' = [sessions EXCEPT ![s].pings = PingRetries + 1]
     \/ /\ ~sessions[s].closed
        /\ sessions' = [sessions EXCEPT ![s].pings = @ - 1, ![s].deaded = sessions[s].pings = 1]
     \/ /\ sessions[s].closed
        /\ sessions' = [sessions EXCEPT ![s].deaded = TRUE]
  /\ UNCHANGED <<kind, pool, conns, caller>>

\* waitClose: the client is closed once either channel is.
WaitClose(s) ==
  /\ kind \in SshKinds /\ sessions[s].up
  /\ sessions[s].deaded \/ sessions[s].closed
  /\ sessions' = [sessions EXCEPT ![s].up = FALSE]
  /\ conns' = [conns EXCEPT ![sessions[s].conn] = "closed"]
  /\ UNCHANGED <<kind, pool, caller>>

\* waitServer: the client's end closes `closed`.
WaitServer(s) ==
  /\ kind \in SshKinds /\ sessions[s] # NoSession /\ ~sessions[s].up /\ ~sessions[s].closed
  /\ sessions' = [sessions EXCEPT ![s].closed = TRUE]
  /\ UNCHANGED <<kind, pool, conns, caller>>

\* The peer or the network ends a session; only quic's socket outlives it.
PeerEnds(s) ==
  /\ sessions[s].up
  /\ sessions' = [sessions EXCEPT ![s].up = FALSE]
  /\ conns' = IF sessions[s].conn \in Conns /\ kind # "quic"
              THEN [conns EXCEPT ![sessions[s].conn] = "closed"] ELSE conns
  /\ UNCHANGED <<kind, pool, caller>>

--------------------------------------------------------------------------------
(* HTTP/2: the pool holds http clients, which dial for themselves. *)

\* The caller takes the pool's client, making one when there is none.
TakeClient(u) ==
  /\ caller[u].pc = "idle"
  /\ IF pool # NotPooled
     THEN /\ caller' = [caller EXCEPT ![u] = [pc |-> "dialed", conn |-> 0, session |-> pool.session]]
          /\ UNCHANGED <<pool, sessions>>
     ELSE \E s \in SessionIds :
            /\ FreshSession(s)
            /\ sessions' = [sessions EXCEPT ![s].pings = 1]
            /\ pool' = [conn |-> 0, session |-> s]
            /\ caller' = [caller EXCEPT ![u] = [pc |-> "dialed", conn |-> 0, session |-> s]]
  /\ UNCHANGED <<kind, conns>>

\* http2Transporter.Dial first dials the server to see whether it is there.
DialHttp2(u) ==
  /\ kind = "http2"
  /\ TakeClient(u)

DialH2(u) == kind = "h2" /\ TakeClient(u)

\* client.Do: a request goes out, over a new connection when the client has none.
Do(u) ==
  /\ caller[u].pc = "dialed"
  /\ sessions' = [sessions EXCEPT ![caller[u].session].up = TRUE]
  /\ caller' = [caller EXCEPT ![u] = IdleCaller]
  /\ UNCHANGED <<kind, pool, conns>>

\* http2Connector.ConnectContext: a failed request closes the connection,
\* which deletes whatever client the pool holds for the address by then.
ConnectHttp2(u) ==
  /\ kind = "http2"
  /\ \/ Do(u)
     \/ /\ caller[u].pc = "dialed"
        /\ pool' = NotPooled
        /\ caller' = [caller EXCEPT ![u] = IdleCaller]
        /\ UNCHANGED <<kind, conns, sessions>>

\* The rest of h2Transporter.Dial, after the mutex: no client ever leaves the pool.
RequestH2(u) ==
  /\ kind = "h2"
  /\ \/ Do(u)
     \/ /\ caller[u].pc = "dialed"
        /\ caller' = [caller EXCEPT ![u] = IdleCaller]
        /\ UNCHANGED <<kind, pool, conns, sessions>>

SessionsNext ==
  \/ \E u \in Callers :
       \/ DialSshForward(u) \/ DialSshTunnel(u) \/ DialMtls(u) \/ DialMws(u) \/ DialMwss(u)
       \/ DialKcp(u) \/ DialQuic(u) \/ DialHttp2(u) \/ DialH2(u)
       \/ HandshakeSshForward(u) \/ HandshakeSshTunnel(u) \/ HandshakeMtls(u)
       \/ HandshakeMws(u) \/ HandshakeMwss(u) \/ HandshakeKcp(u) \/ HandshakeQuic(u)
       \/ ConnectHttp2(u) \/ RequestH2(u)
  \/ \E s \in SessionIds : Ping(s) \/ WaitClose(s) \/ WaitServer(s) \/ PeerEnds(s)

SessionsSpec == SessionsInit /\ [][SessionsNext]_sessionVars

SessionsTypeOK ==
  /\ kind \in SessionKinds
  /\ pool \in [conn : 0 .. MaxConns, session : 0 .. MaxSessions]
  /\ conns \in [Conns -> {"unused", "open", "closed"}]
  /\ sessions \in [SessionIds -> [conn : 0 .. MaxConns, up : BOOLEAN, deaded : BOOLEAN,
                                  closed : BOOLEAN, pings : 0 .. PingRetries + 1]]
  /\ caller \in [Callers -> [pc : {"idle", "dialed"}, conn : 0 .. MaxConns,
                             session : 0 .. MaxSessions]]

\* However callers interleave their dials and handshakes with each other and
\* with the deaths of sessions, a session that lives is the one the pool hands
\* out, so no caller opens a second and none is left behind open
\* (tls.go:63, ssh.go:196, kcp.go:128, quic.go:107).  HTTP/2 is left out: there
\* one caller's failed request takes the client of the others away (http2.go:180).
SessionsArePooled ==
  \A s \in SessionIds :
    kind # "http2" /\ sessions[s].up /\ ~SshClosed([conn |-> 0, session |-> s])
      => pool.session = s
================================================================================
