----------------------------- MODULE GostProofs -----------------------------
(***************************************************************************)
(* Proofs about the mechanisms of gost, for any number of sessions,        *)
(* sockets, senders, nodes and chunks: of each, that its invariant is      *)
(* inductive and gives the property MCForks checks on a small instance.    *)
(* The mechanisms share nothing; ForksProofs puts them side by side.       *)
(***************************************************************************)
EXTENDS GostSessions, GostListeners, GostUdp, GostPeers, GostRoute, GostHeaders, GostProxy,
        SequenceTheorems, FiniteSetTheorems, FunctionTheorems, WellFoundedInduction, TLAPS

--------------------------------------------------------------------------------
(* Sessions: the pool of a multiplexed transporter. *)

\* A session as its transporter keeps it, and where a caller is.
SessionType == [conn : 0 .. MaxConns, up : BOOLEAN, deaded : BOOLEAN,
                closed : BOOLEAN, pings : 0 .. PingRetries + 1]
\* Where a caller of the pool is, and what it took from it.
CallerType == [pc : {"idle", "dialed"}, conn : 0 .. MaxConns, session : 0 .. MaxSessions]

\* A session that lives.
Live(s) == sessions[s].up /\ ~sessions[s].deaded /\ ~sessions[s].closed

\* The pool holds the session that lives.  The clients of h2 stay in the pool,
\* and whoever took one has the pool's.
PoolInv ==
  /\ kind # "http2" => \A s \in SessionIds : Live(s) => pool.session = s
  /\ kind = "h2" /\ pool # NotPooled => pool.session \in SessionIds
  /\ kind = "h2" => \A u \in Callers : caller[u].pc = "dialed" =>
       caller[u].session \in SessionIds /\ pool.session = caller[u].session

\* What every step keeps: the types, and who holds the sessions that live.
SessionsInv == SessionsTypeOK /\ PoolInv

\* The numbers the types are made of.
LEMMA SessionNumbers ==
  /\ 0 \in 0 .. MaxConns /\ 0 \in 0 .. MaxSessions
  /\ {0, 1, PingRetries + 1} \subseteq 0 .. PingRetries + 1
  /\ Conns \subseteq 0 .. MaxConns /\ SessionIds \subseteq 0 .. MaxSessions /\ 0 \notin SessionIds
BY SessionsAssumption DEF Conns, SessionIds

\* An entry without a session, or with one that is dead, holds none that lives.
LEMMA NoneLives ==
  ASSUME PoolInv, kind # "http2",
         pool.session \notin SessionIds \/ ~Live(pool.session),
         NEW s \in SessionIds
  PROVE  ~Live(s)
BY DEF PoolInv

\* Dial keeps the entry of a session that lives.
LEMMA DialKeeps ==
  ASSUME SessionsInv, NEW u \in Callers, NEW dead, NEW left \in {pool, NotPooled}, DialEntry(u, dead, left),
         kind \notin HttpKinds, dead => pool.session = 0 \/ ~Live(pool.session)
  PROVE  SessionsInv'
<1>1. SessionsTypeOK /\ PoolInv
  BY DEF SessionsInv
<1>2. kind # "http2" /\ kind # "h2"
  BY DEF HttpKinds
<1>3. UNCHANGED <<kind, sessions>>
  BY DEF DialEntry
<1>4. CASE pool = NotPooled \/ dead
  <2>1. pool.session \notin SessionIds \/ ~Live(pool.session)
    BY <1>4, SessionNumbers DEF NotPooled
  <2>2. \A s \in SessionIds : ~Live(s)
    BY <1>1, <1>2, <2>1, NoneLives
  <2>3. PoolInv'
    BY <1>2, <1>3, <2>2 DEF PoolInv, Live
  <2>4. CASE \E c \in Conns : /\ Fresh(c)
                              /\ conns' = [conns EXCEPT ![c] = "open"]
                              /\ pool' = [conn |-> c, session |-> 0]
                              /\ caller' = [caller EXCEPT ![u] = [pc |-> "dialed", conn |-> c, session |-> 0]]
    <3>1. PICK c \in Conns : /\ conns' = [conns EXCEPT ![c] = "open"]
                             /\ pool' = [conn |-> c, session |-> 0]
                             /\ caller' = [caller EXCEPT ![u] = [pc |-> "dialed", conn |-> c, session |-> 0]]
      BY <2>4
    <3>2. SessionsTypeOK'
      BY <1>1, <1>3, <3>1, SessionNumbers DEF SessionsTypeOK
    <3> QED BY <2>3, <3>2 DEF SessionsInv
  <2>5. CASE pool' = left /\ UNCHANGED <<conns, caller>>
    <3>1. pool' \in [conn : 0 .. MaxConns, session : 0 .. MaxSessions]
      BY <1>1, <2>5, SessionNumbers DEF SessionsTypeOK, NotPooled
    <3>2. SessionsTypeOK'
      BY <1>1, <1>3, <2>5, <3>1 DEF SessionsTypeOK
    <3> QED BY <2>3, <3>2 DEF SessionsInv
  <2> QED BY <1>4, <2>4, <2>5 DEF DialEntry
<1>5. CASE ~(pool = NotPooled \/ dead)
  <2>1. /\ caller' = [caller EXCEPT ![u] = [pc |-> "dialed", conn |-> pool.conn, session |-> 0]]
        /\ UNCHANGED <<conns, pool>>
    BY <1>5 DEF DialEntry
  <2>2. SessionsTypeOK'
    BY <1>1, <1>3, <2>1, SessionNumbers DEF SessionsTypeOK
  <2>3. PoolInv'
    BY <1>1, <1>2, <1>3, <2>1 DEF PoolInv, Live
  <2> QED BY <2>2, <2>3 DEF SessionsInv
<1> QED BY <1>4, <1>5

\* A handshake opens a session only where none lives.
LEMMA OpenKeeps ==
  ASSUME SessionsInv, NEW u \in Callers, NEW outcomes, pool.session = 0, OpenSession(u, outcomes),
         caller' = [caller EXCEPT ![u] = IdleCaller], kind' = kind, kind \notin HttpKinds
  PROVE  SessionsInv'
<1>1. SessionsTypeOK /\ PoolInv
  BY DEF SessionsInv
<1>2. kind # "http2" /\ kind # "h2"
  BY DEF HttpKinds
<1>3. \A s \in SessionIds : ~Live(s)
  BY <1>1, <1>2, NoneLives, SessionNumbers
<1>4. caller' \in [Callers -> CallerType]
  BY <1>1, SessionNumbers DEF SessionsTypeOK, IdleCaller, CallerType
<1>5. CASE \E s \in SessionIds, p \in IF kind \in SshKinds THEN {0, PingRetries + 1} ELSE {0} :
             /\ sessions' = [sessions EXCEPT ![s] =
                   [conn |-> caller[u].conn, up |-> TRUE, deaded |-> FALSE, closed |-> FALSE, pings |-> p]]
             /\ pool' = [conn |-> caller[u].conn, session |-> s]
             /\ UNCHANGED conns
  <2>1. PICK s \in SessionIds, p \in {0, PingRetries + 1} :
             /\ sessions' = [sessions EXCEPT ![s] =
                   [conn |-> caller[u].conn, up |-> TRUE, deaded |-> FALSE, closed |-> FALSE, pings |-> p]]
             /\ pool' = [conn |-> caller[u].conn, session |-> s]
             /\ UNCHANGED conns
    BY <1>5
  <2>2. caller[u].conn \in 0 .. MaxConns /\ p \in 0 .. PingRetries + 1 /\ s \in 0 .. MaxSessions
    BY <1>1, SessionNumbers DEF SessionsTypeOK
  <2>3. TRUE \in BOOLEAN /\ FALSE \in BOOLEAN
    OBVIOUS
  <2>4. [conn |-> caller[u].conn, up |-> TRUE, deaded |-> FALSE, closed |-> FALSE, pings |-> p] \in SessionType
    BY <2>2, <2>3 DEF SessionType
  <2>5. sessions' \in [SessionIds -> SessionType]
    BY <1>1, <2>1, <2>4 DEF SessionsTypeOK, SessionType
  <2>6. pool' \in [conn : 0 .. MaxConns, session : 0 .. MaxSessions]
    BY <2>1, <2>2
  <2>7. SessionsTypeOK'
    BY <1>1, <1>4, <2>1, <2>5, <2>6 DEF SessionsTypeOK, SessionType, CallerType
  <2>8. \A t \in SessionIds : t # s => sessions'[t] = sessions[t]
    BY <1>1, <2>1 DEF SessionsTypeOK
  <2>9. PoolInv'
    BY <1>2, <1>3, <2>1, <2>8 DEF PoolInv, Live
  <2> QED BY <2>7, <2>9 DEF SessionsInv
<1>6. CASE /\ conns' = [conns EXCEPT ![caller[u].conn] = "closed"]
           /\ pool' = NotPooled
           /\ UNCHANGED sessions
  <2>1. SessionsTypeOK'
    BY <1>1, <1>4, <1>6, SessionNumbers DEF SessionsTypeOK, NotPooled, CallerType
  <2>2. PoolInv'
    BY <1>2, <1>3, <1>6 DEF PoolInv, Live
  <2> QED BY <2>1, <2>2 DEF SessionsInv
<1> QED BY <1>5, <1>6 DEF OpenSession

\* A step that leaves the sessions alone and takes from the pool, if anything,
\* a session that does not live, or whatever there is over http2.
LEMMA PoolKeeps ==
  ASSUME SessionsInv, kind' = kind, sessions' = sessions, kind # "h2",
         conns' \in [Conns -> {"unused", "open", "closed"}], caller' \in [Callers -> CallerType],
         \/ pool' = pool
         \/ pool' = NotPooled /\ (kind = "http2" \/ pool.session = 0 \/ ~Live(pool.session))
  PROVE  SessionsInv'
<1>1. SessionsTypeOK /\ PoolInv
  BY DEF SessionsInv
<1>2. pool' \in [conn : 0 .. MaxConns, session : 0 .. MaxSessions]
  BY <1>1, SessionNumbers DEF SessionsTypeOK, NotPooled
<1>3. SessionsTypeOK'
  BY <1>1, <1>2 DEF SessionsTypeOK, CallerType
<1>4. kind # "http2" /\ pool' # pool => \A s \in SessionIds : ~Live(s)
  BY <1>1, NoneLives, SessionNumbers
<1>5. PoolInv'
  BY <1>1, <1>4 DEF PoolInv, Live
<1> QED BY <1>3, <1>5 DEF SessionsInv

\* A step of the sessions alone, under which none comes to life.
LEMMA DyingKeeps ==
  ASSUME SessionsInv, UNCHANGED <<kind, pool, caller>>, sessions' \in [SessionIds -> SessionType],
         conns' \in [Conns -> {"unused", "open", "closed"}], \A s \in SessionIds : Live(s)' => Live(s)
  PROVE  SessionsInv'
<1>1. SessionsTypeOK'
  BY DEF SessionsInv, SessionsTypeOK, SessionType
<1>2. PoolInv'
  BY DEF SessionsInv, PoolInv
<1> QED BY <1>1, <1>2 DEF SessionsInv

\* Handshake, of smux and quic and of ssh.
LEMMA ShakeKeeps ==
  ASSUME SessionsInv, kind \notin HttpKinds, NEW u \in Callers, NEW outcomes,
         ShakeHands(u, outcomes) \/ ShakeSsh(u)
  PROVE  SessionsInv'
<1>1. SessionsTypeOK /\ kind # "h2" /\ kind # "http2"
  BY DEF SessionsInv, HttpKinds
<1>2. caller' = [caller EXCEPT ![u] = IdleCaller] /\ kind' = kind
  BY DEF ShakeHands, ShakeSsh
<1>3. caller' \in [Callers -> CallerType]
  BY <1>1, <1>2, SessionNumbers DEF SessionsTypeOK, IdleCaller, CallerType
<1>4. CASE pool.session = 0
  <2>1. OpenSession(u, outcomes) \/ OpenSession(u, InitSsh)
    BY <1>4 DEF ShakeHands, ShakeSsh
  <2> QED BY <2>1, <1>2, <1>4, OpenKeeps
<1>5. CASE pool.session # 0
  <2>1. pool.session \in SessionIds
    BY <1>1, <1>5, SessionsAssumption DEF SessionsTypeOK, SessionIds
  <2>2. UNCHANGED <<conns, sessions>> /\ (pool' = pool \/ (pool' = NotPooled /\ ~Live(pool.session)))
    BY <1>5 DEF ShakeHands, ShakeSsh, GetConn, SshClosed, Live
  <2>3. conns' \in [Conns -> {"unused", "open", "closed"}]
    BY <1>1, <2>2 DEF SessionsTypeOK
  <2> QED BY <1>1, <1>2, <1>3, <2>2, <2>3, PoolKeeps
<1> QED BY <1>4, <1>5

\* Dial of every transporter: what it takes for dead does not live.
LEMMA DialsKeep ==
  ASSUME SessionsInv, NEW u \in Callers,
         \/ DialSshForward(u) \/ DialSshTunnel(u) \/ DialMtls(u) \/ DialMws(u) \/ DialMwss(u)
         \/ DialKcp(u) \/ DialQuic(u)
  PROVE  SessionsInv'
<1>1. kind \notin HttpKinds
  BY DEF DialSshForward, DialSshTunnel, DialMtls, DialMws, DialMwss, DialKcp, DialQuic, HttpKinds
<1>2. pool.session \in 0 .. MaxSessions
  BY DEF SessionsInv, SessionsTypeOK
<1>3. SshClosed(pool) => pool.session = 0 \/ ~Live(pool.session)
  BY DEF SshClosed, Live
<1>4. MuxIsClosed(pool) => pool.session = 0 \/ ~Live(pool.session)
  BY DEF MuxIsClosed, Live
<1>5. PICK dead \in {SshClosed(pool), MuxIsClosed(pool), pool.session # 0 /\ MuxIsClosed(pool), FALSE},
           left \in {pool, NotPooled} : DialEntry(u, dead, left)
  BY DEF DialSshForward, DialSshTunnel, DialMtls, DialMws, DialMwss, DialKcp, DialQuic
<1>6. dead => pool.session = 0 \/ ~Live(pool.session)
  BY <1>3, <1>4, <1>5
<1> QED BY <1>1, <1>5, <1>6, DialKeeps

\* The clients of HTTP/2.
LEMMA ClientsKeep ==
  ASSUME SessionsInv, NEW u \in Callers,
         DialHttp2(u) \/ DialH2(u) \/ ConnectHttp2(u) \/ RequestH2(u)
  PROVE  SessionsInv'
<1>1. SessionsTypeOK /\ PoolInv
  BY DEF SessionsInv
<1>2. kind \in {"http2", "h2"}
  BY DEF DialHttp2, DialH2, ConnectHttp2, RequestH2
<1>3. \A s \in SessionIds : sessions[s] \in SessionType
  BY <1>1 DEF SessionsTypeOK, SessionType
<1>4. [caller EXCEPT ![u] = IdleCaller] \in [Callers -> CallerType]
  BY <1>1, SessionNumbers DEF SessionsTypeOK, IdleCaller, CallerType
<1>5. CASE TakeClient(u)
  <2>1. CASE pool # NotPooled
    <3>1. /\ caller' = [caller EXCEPT ![u] = [pc |-> "dialed", conn |-> 0, session |-> pool.session]]
          /\ UNCHANGED <<pool, sessions, kind, conns>>
      BY <1>5, <2>1 DEF TakeClient
    <3>2. SessionsTypeOK'
      BY <1>1, <3>1, SessionNumbers DEF SessionsTypeOK
    <3>3. kind = "h2" => pool.session \in SessionIds
      BY <1>1, <2>1 DEF PoolInv
    <3>4. PoolInv'
      BY <1>1, <1>2, <3>1, <3>3 DEF PoolInv, Live, SessionsTypeOK
    <3> QED BY <3>2, <3>4 DEF SessionsInv
  <2>2. CASE pool = NotPooled
    <3>1. PICK s \in SessionIds :
            /\ FreshSession(s) /\ sessions' = [sessions EXCEPT ![s].pings = 1]
            /\ pool' = [conn |-> 0, session |-> s]
            /\ caller' = [caller EXCEPT ![u] = [pc |-> "dialed", conn |-> 0, session |-> s]]
            /\ UNCHANGED <<kind, conns>>
      BY <1>5, <2>2 DEF TakeClient
    <3>2. /\ sessions' \in [SessionIds -> SessionType]
          /\ \A t \in SessionIds : sessions'[t].up = sessions[t].up /\ sessions'[t].deaded = sessions[t].deaded
                                   /\ sessions'[t].closed = sessions[t].closed
      BY <1>1, <1>3, <3>1, SessionNumbers DEF SessionsTypeOK, SessionType
    <3>3. caller' \in [Callers -> CallerType] /\ pool' \in [conn : 0 .. MaxConns, session : 0 .. MaxSessions]
      BY <1>1, <3>1, SessionNumbers DEF SessionsTypeOK, CallerType
    <3>4. SessionsTypeOK'
      BY <1>1, <3>1, <3>2, <3>3 DEF SessionsTypeOK, SessionType, CallerType
    <3>5. pool.session = 0
      BY <2>2 DEF NotPooled
    <3>6. PoolInv'
      <4>1. kind # "http2" => \A t \in SessionIds : ~Live(t)
        BY <1>1, <3>5, NoneLives, SessionNumbers
      <4>2. kind = "h2" => \A v \in Callers : caller[v].pc # "dialed"
        BY <1>1, <3>5, SessionNumbers DEF PoolInv
      <4>3. caller'[u].session = s /\ \A v \in Callers : v # u => caller'[v] = caller[v]
        BY <1>1, <3>1 DEF SessionsTypeOK
      <4> QED BY <3>1, <3>2, <4>1, <4>2, <4>3 DEF PoolInv, Live
    <3> QED BY <3>4, <3>6 DEF SessionsInv
  <2> QED BY <2>1, <2>2
<1>6. CASE Do(u)
  <2>1. /\ caller[u].pc = "dialed" /\ caller' = [caller EXCEPT ![u] = IdleCaller]
        /\ sessions' = [sessions EXCEPT ![caller[u].session].up = TRUE] /\ UNCHANGED <<kind, pool, conns>>
    BY <1>6 DEF Do
  <2>2. TRUE \in BOOLEAN
    OBVIOUS
  <2>3. /\ sessions' \in [SessionIds -> SessionType]
        /\ \A t \in SessionIds : t # caller[u].session => sessions'[t] = sessions[t]
    BY ZenonT(60), <1>1, <1>3, <2>1, <2>2 DEF SessionsTypeOK, SessionType
  <2>4. SessionsTypeOK'
    BY <1>1, <1>4, <2>1, <2>3 DEF SessionsTypeOK, SessionType, CallerType
  <2>5. kind = "h2" => pool.session = caller[u].session
    BY <1>1, <2>1 DEF PoolInv
  <2>6. \A v \in Callers : v # u => caller'[v] = caller[v]
    BY <1>1, <2>1 DEF SessionsTypeOK
  <2>7. caller'[u].pc = "idle"
    BY <1>1, <2>1 DEF SessionsTypeOK, IdleCaller
  <2>8. PoolInv'
    BY <1>1, <1>2, <2>1, <2>3, <2>5, <2>6, <2>7 DEF PoolInv, Live
  <2> QED BY <2>4, <2>8 DEF SessionsInv
<1>7. CASE /\ caller' = [caller EXCEPT ![u] = IdleCaller] /\ UNCHANGED <<kind, conns, sessions>>
           /\ \/ kind = "http2" /\ pool' = NotPooled
              \/ pool' = pool
  <2>1. pool' \in [conn : 0 .. MaxConns, session : 0 .. MaxSessions]
    BY <1>1, <1>7, SessionNumbers DEF SessionsTypeOK, NotPooled
  <2>2. SessionsTypeOK'
    BY <1>1, <1>4, <1>7, <2>1 DEF SessionsTypeOK, CallerType
  <2>3. \A v \in Callers : v # u => caller'[v] = caller[v]
    BY <1>1, <1>7 DEF SessionsTypeOK
  <2>4. caller'[u].pc = "idle"
    BY <1>1, <1>7 DEF SessionsTypeOK, IdleCaller
  <2>5. PoolInv'
    BY <1>1, <1>7, <2>3, <2>4 DEF PoolInv, Live
  <2> QED BY <2>2, <2>5 DEF SessionsInv
<1> QED BY <1>5, <1>6, <1>7 DEF DialHttp2, DialH2, ConnectHttp2, RequestH2

\* Every step keeps the pool and its sessions in step.
LEMMA SessionsStep == SessionsInv /\ [SessionsNext]_sessionVars => SessionsInv'
<1> SUFFICES ASSUME SessionsInv, [SessionsNext]_sessionVars PROVE SessionsInv'
  OBVIOUS
<1>0. SessionsTypeOK
  BY DEF SessionsInv
<1>1. ASSUME NEW u \in Callers,
             \/ DialSshForward(u) \/ DialSshTunnel(u) \/ DialMtls(u) \/ DialMws(u) \/ DialMwss(u)
             \/ DialKcp(u) \/ DialQuic(u)
      PROVE  SessionsInv'
  BY <1>1, DialsKeep
<1>2. ASSUME NEW u \in Callers, DialHttp2(u) \/ DialH2(u) \/ ConnectHttp2(u) \/ RequestH2(u)
      PROVE  SessionsInv'
  BY <1>2, ClientsKeep
<1>3. ASSUME NEW u \in Callers,
             \/ HandshakeSshForward(u) \/ HandshakeSshTunnel(u) \/ HandshakeMtls(u)
             \/ HandshakeMws(u) \/ HandshakeMwss(u) \/ HandshakeKcp(u) \/ HandshakeQuic(u)
      PROVE  SessionsInv'
  <2>1. kind \notin HttpKinds
    BY <1>3 DEF HandshakeSshForward, HandshakeSshTunnel, HandshakeMtls, HandshakeMws, HandshakeMwss,
                HandshakeKcp, HandshakeQuic, HttpKinds
  <2>2. CASE (\E outcomes \in {InitMtls, InitMws, InitMwss, InitKcp, InitQuic} : ShakeHands(u, outcomes)) \/ ShakeSsh(u)
    BY <2>1, <2>2, ShakeKeeps
  <2>3. CASE /\ conns' = [conns EXCEPT ![caller[u].conn] = "closed"]
             /\ caller' = [caller EXCEPT ![u] = IdleCaller]
             /\ UNCHANGED <<kind, pool, sessions>>
    <3>1. conns' \in [Conns -> {"unused", "open", "closed"}] /\ caller' \in [Callers -> CallerType]
      BY <1>0, <2>3, SessionNumbers DEF SessionsTypeOK, IdleCaller, CallerType
    <3>2. kind # "h2"
      BY <2>1 DEF HttpKinds
    <3> QED BY <2>3, <3>1, <3>2, PoolKeeps
  <2> QED BY <1>3, <2>2, <2>3 DEF HandshakeSshForward, HandshakeSshTunnel, HandshakeMtls, HandshakeMws,
             HandshakeMwss, HandshakeKcp, HandshakeQuic
<1>4. ASSUME NEW s \in SessionIds, Ping(s) PROVE SessionsInv'
  <2>0. sessions[s] \in SessionType /\ sessions \in [SessionIds -> SessionType]
    BY <1>0 DEF SessionsTypeOK, SessionType
  <2>1. UNCHANGED <<kind, pool, conns, caller>> /\ sessions[s].pings > 0
    BY <1>4 DEF Ping
  <2>2. sessions[s].pings - 1 \in 0 .. PingRetries + 1
    BY <2>0, <2>1, SessionsAssumption DEF SessionType
  <2>3. (sessions[s].pings = 1) \in BOOLEAN /\ TRUE \in BOOLEAN
    OBVIOUS
  <2>4. CASE sessions' = [sessions EXCEPT ![s].pings = PingRetries + 1]
    <3>1. /\ sessions' \in [SessionIds -> SessionType]
          /\ \A t \in SessionIds : Live(t)' => Live(t)
      BY <2>0, <2>4, SessionNumbers DEF SessionType, Live
    <3> QED BY <1>0, <2>1, <3>1, DyingKeeps DEF SessionsTypeOK
  <2>5. CASE /\ ~sessions[s].closed
             /\ sessions' = [sessions EXCEPT ![s].pings = @ - 1, ![s].deaded = sessions[s].pings = 1]
    <3>1. ~sessions[s].deaded
      BY <1>4 DEF Ping
    <3>2. [sessions[s] EXCEPT !.pings = sessions[s].pings - 1, !.deaded = (sessions[s].pings = 1)] \in SessionType
      BY <2>0, <2>2, <2>3 DEF SessionType
    <3>3. sessions' = [sessions EXCEPT ![s] =
            [sessions[s] EXCEPT !.pings = sessions[s].pings - 1, !.deaded = (sessions[s].pings = 1)]]
      BY <2>0, <2>5 DEF SessionType
    <3>4. sessions' \in [SessionIds -> SessionType] /\ \A t \in SessionIds : t # s => sessions'[t] = sessions[t]
      BY <2>0, <3>2, <3>3
    <3>5. sessions'[s].up = sessions[s].up /\ sessions'[s].closed = sessions[s].closed
      BY <2>0, <3>3 DEF SessionType
    <3>6. \A t \in SessionIds : Live(t)' => Live(t)
      BY <3>1, <3>4, <3>5 DEF Live
    <3> QED BY <1>0, <2>1, <3>4, <3>6, DyingKeeps DEF SessionsTypeOK
  <2>6. CASE sessions' = [sessions EXCEPT ![s].deaded = TRUE]
    <3>1. /\ sessions' \in [SessionIds -> SessionType]
          /\ \A t \in SessionIds : Live(t)' => Live(t)
      BY <2>0, <2>3, <2>6 DEF SessionType, Live
    <3> QED BY <1>0, <2>1, <3>1, DyingKeeps DEF SessionsTypeOK
  <2> QED BY <1>4, <2>4, <2>5, <2>6 DEF Ping
<1>5. ASSUME NEW s \in SessionIds, WaitClose(s) \/ WaitServer(s) \/ PeerEnds(s) PROVE SessionsInv'
  <2>0. sessions \in [SessionIds -> SessionType] /\ conns \in [Conns -> {"unused", "open", "closed"}]
    BY <1>0 DEF SessionsTypeOK, SessionType
  <2>1. UNCHANGED <<kind, pool, caller>>
    BY <1>5 DEF WaitClose, WaitServer, PeerEnds
  <2>2. conns' \in [Conns -> {"unused", "open", "closed"}]
    BY <1>5, <2>0 DEF WaitClose, WaitServer, PeerEnds
  <2>3. TRUE \in BOOLEAN /\ FALSE \in BOOLEAN
    OBVIOUS
  <2>4. sessions' = [sessions EXCEPT ![s].up = FALSE] \/ sessions' = [sessions EXCEPT ![s].closed = TRUE]
    BY <1>5 DEF WaitClose, WaitServer, PeerEnds
  <2>5. sessions' \in [SessionIds -> SessionType] /\ \A t \in SessionIds : Live(t)' => Live(t)
    BY ZenonT(60), <2>0, <2>3, <2>4 DEF SessionType, Live
  <2> QED BY <2>1, <2>2, <2>5, DyingKeeps
<1>6. CASE UNCHANGED sessionVars
  BY <1>6 DEF sessionVars, SessionsInv, SessionsTypeOK, PoolInv, Live
<1> QED BY <1>1, <1>2, <1>3, <1>4, <1>5, <1>6 DEF SessionsNext

\* At the start no session was made.
LEMMA SessionsStart == SessionsInit => SessionsInv
<1> SUFFICES ASSUME SessionsInit PROVE SessionsInv
  OBVIOUS
<1>1. NoSession \in SessionType
  BY SessionNumbers DEF NoSession, SessionType
<1>2. IdleCaller \in CallerType
  BY SessionNumbers DEF IdleCaller, CallerType
<1>3. SessionsTypeOK
  BY <1>1, <1>2, SessionNumbers DEF SessionsInit, SessionsTypeOK, NotPooled, SessionType, CallerType
<1>4. PoolInv
  BY DEF SessionsInit, PoolInv, Live, NoSession, IdleCaller
<1> QED BY <1>3, <1>4 DEF SessionsInv

\* While the invariant holds a session that lives is pooled.
LEMMA SessionsMean == SessionsInv => SessionsTypeOK /\ SessionsArePooled
BY SessionNumbers DEF SessionsInv, PoolInv, SessionsArePooled, SshClosed, Live

\* For any number of sessions, connections and callers: a session that lives is
\* the one its transporter keeps, so that nobody opens a second one beside it.
THEOREM SessionsArePooledHolds == SessionsSpec => [](SessionsTypeOK /\ SessionsArePooled)
<1>1. SessionsInit => SessionsInv
  BY SessionsStart
<1>2. SessionsInv /\ [SessionsNext]_sessionVars => SessionsInv'
  BY SessionsStep
<1>3. SessionsInv => SessionsTypeOK /\ SessionsArePooled
  BY SessionsMean
<1> QED BY <1>1, <1>2, <1>3, PTL DEF SessionsSpec

--------------------------------------------------------------------------------
(* Listeners and the loop of the server that accepts from them. *)

\* The server of a websocket listener fails once, while its listener serves;
\* when that error was taken Serve has ended.
QuietInv ==
  /\ serve = "off" => errChan = QuietChan /\ ~loop
  /\ lkind \in WsKinds =>
       /\ loop => errChan = QuietChan
       /\ errChan # QuietChan => errChan.value = "permanent" \/ serve = "ended"

\* What every step keeps: types, the errors to come, and that no nil connection is served.
ListenersInv == ListenersTypeOK /\ QuietInv /\ NeverServesNothing

\* The pause after an error is one of those that doubling leads through.
LEMMA DoubledType == delay \in Delays => Doubled \in Delays
  BY DEF Doubled, Delays

\* What Serve does with an error.
LEMMA ServeErrorKeeps ==
  ASSUME ListenersInv, NEW e \in {"temporary", "permanent", "closed"}, ServeError(e)
  PROVE  /\ delay' \in Delays /\ servedNil' = FALSE
         /\ serve = "running" /\ serve' \in {"running", "ended"}
         /\ e = "permanent" => serve' = "ended"
<1>1. servedNil = FALSE
  BY DEF ListenersInv, ListenersTypeOK, NeverServesNothing
<1> QED BY <1>1, DoubledType DEF ServeError, ListenersInv, ListenersTypeOK

\* What a constructor does.
LEMMA OpensTo ==
  ASSUME OpenAny
  PROVE  /\ serve = "off" /\ UNCHANGED <<lkind, errChan, stream, delay, servedNil>>
         /\ raw' \in {"open", "failed"} /\ port' \in {"bound", port}
         /\ \/ loop' = TRUE /\ serve' = "running"
            \/ UNCHANGED <<loop, serve>>
<1>1. ASSUME NEW fails, NEW leaks, Opens(fails, leaks)
      PROVE  /\ serve = "off" /\ UNCHANGED <<lkind, errChan, stream, delay, servedNil>>
             /\ raw' \in {"open", "failed"} /\ port' \in {"bound", port}
             /\ \/ loop' = TRUE /\ serve' = "running"
                \/ UNCHANGED <<loop, serve>>
  BY <1>1 DEF Opens
<1> QED BY <1>1 DEF OpenAny, OpenTcp, OpenMtls, OpenKcp, OpenQuic, OpenSshTunnel, OpenH2, OpenH2c,
           OpenHttp2, OpenWs, OpenMws, OpenWss, OpenMwss

\* What becomes of the loop and of its last error.
LEMMA LoopEndsTo ==
  ASSUME LoopEnds
  PROVE  /\ loop /\ loop' = FALSE /\ UNCHANGED <<lkind, raw, port, stream, serve, delay, servedNil>>
         /\ \/ UNCHANGED errChan /\ lkind = "http2"
            \/ \E e \in {"temporary", "permanent"} :
                 /\ errChan' = [value |-> e, closed |-> TRUE]
                 /\ lkind \in WsKinds => e = "permanent"
<1>1. \/ \E e \in {"temporary", "permanent"} : lkind \notin WsKinds /\ LoopFails(e)
      \/ LoopFails("permanent") \/ ServerOfHttp2
  BY DEF LoopEnds, LoopMtls, LoopKcp, LoopQuic, LoopSshTunnel, LoopH2, ServerOfWs, WsKinds
<1> QED BY <1>1 DEF LoopFails, ServerOfHttp2

\* A step keeps the invariant.
LEMMA ListenersStep == ListenersInv /\ [ListenersNext]_listenerVars => ListenersInv'
<1> SUFFICES ASSUME ListenersInv, [ListenersNext]_listenerVars PROVE ListenersInv'
  OBVIOUS
<1>1. CASE OpenAny
  <2>1. raw' \in {"none", "open", "failed", "closed"} /\ serve' \in {"off", "running", "ended"}
    BY <1>1, OpensTo
  <2>2. port' \in {"free", "bound"}
    BY <1>1, OpensTo DEF ListenersInv, ListenersTypeOK
  <2>3. UNCHANGED <<lkind, errChan, stream, delay, servedNil>>
    BY <1>1, OpensTo
  <2>4. loop' \in BOOLEAN
    <3>1. loop \in BOOLEAN
      BY DEF ListenersInv, ListenersTypeOK
    <3> QED BY <1>1, <3>1, OpensTo
  <2>5. ListenersTypeOK'
    BY <2>1, <2>2, <2>3, <2>4 DEF ListenersInv, ListenersTypeOK
  <2>6. QuietInv'
    <3>1. errChan' = QuietChan /\ ~loop
      BY <1>1, OpensTo, Zenon DEF ListenersInv, QuietInv
    <3>2. serve' = "off" => ~loop'
      BY <1>1, <3>1, OpensTo
    <3> QED BY <3>1, <3>2 DEF QuietInv
  <2> QED BY <2>3, <2>5, <2>6 DEF ListenersInv, NeverServesNothing
<1>2. CASE LoopEnds
  <2>1. loop' = FALSE /\ UNCHANGED <<lkind, raw, port, stream, serve, delay, servedNil>>
    BY <1>2, LoopEndsTo
  <2>2. errChan' \in [value : {"none", "temporary", "permanent", "closed"}, closed : BOOLEAN]
    <3>1. errChan \in [value : {"none", "temporary", "permanent", "closed"}, closed : BOOLEAN]
      BY DEF ListenersInv, ListenersTypeOK
    <3>2. \/ errChan' = errChan
          \/ \E e \in {"temporary", "permanent"} : errChan' = [value |-> e, closed |-> TRUE]
      BY <1>2, LoopEndsTo
    <3>3. ASSUME NEW e \in {"temporary", "permanent"}
          PROVE  [value |-> e, closed |-> TRUE]
                   \in [value : {"none", "temporary", "permanent", "closed"}, closed : BOOLEAN]
      OBVIOUS
    <3> QED BY <3>1, <3>2, <3>3, Zenon
  <2>3. ListenersTypeOK'
    <3>1. loop' \in BOOLEAN
      BY <2>1
    <3> QED BY <2>1, <2>2, <3>1 DEF ListenersInv, ListenersTypeOK
  <2>4. QuietInv'
    <3>1. serve # "off"
      BY <1>2, LoopEndsTo DEF ListenersInv, QuietInv
    <3>2. "http2" \notin WsKinds
      BY DEF WsKinds
    <3> QED BY <1>2, <3>1, <3>2, LoopEndsTo DEF QuietInv
  <2> QED BY <2>1, <2>3, <2>4 DEF ListenersInv, NeverServesNothing
<1>3. CASE AcceptFails
  <2>1. errChan # QuietChan /\ ServeError(AcceptError) /\ errChan' = Received
        /\ UNCHANGED <<lkind, raw, port, loop, stream>> /\ serve = "running"
    BY <1>3 DEF AcceptFails, ServeError
  <2>2. lkind \in WsKinds => errChan.value = "permanent"
    BY <2>1 DEF ListenersInv, QuietInv
  <2>3. AcceptError \in {"temporary", "permanent", "closed"}
        /\ (lkind \in WsKinds => AcceptError = "permanent")
    BY <2>2 DEF AcceptError, ListenersInv, ListenersTypeOK
  <2>4. PICK e \in {"temporary", "permanent", "closed"} :
          ServeError(e) /\ (lkind \in WsKinds => e = "permanent")
    <3>1. PICK e \in {"temporary", "permanent", "closed"} : e = AcceptError
      BY <2>3
    <3>2. ServeError(e)
      BY <2>1, <3>1 DEF ServeError
    <3> QED BY <2>3, <3>1, <3>2
  <2>5. /\ delay' \in Delays /\ servedNil' = FALSE
        /\ serve' \in {"running", "ended"} /\ (e = "permanent" => serve' = "ended")
    BY <2>4, ServeErrorKeeps
  <2>6. ListenersTypeOK'
    <3>1. errChan' \in [value : {"none", "temporary", "permanent", "closed"}, closed : BOOLEAN]
      BY <2>1 DEF Received, ListenersInv, ListenersTypeOK
    <3>2. servedNil' \in BOOLEAN
      BY <2>5
    <3> QED BY <2>1, <2>5, <3>1, <3>2 DEF ListenersInv, ListenersTypeOK
  <2>7. QuietInv'
    BY <2>1, <2>4, <2>5 DEF ListenersInv, QuietInv
  <2> QED BY <2>5, <2>6, <2>7 DEF ListenersInv, NeverServesNothing
<1>4. CASE CloseListener
  <2>1. ListenersTypeOK'
    BY <1>4 DEF CloseListener, ListenersInv, ListenersTypeOK
  <2>2. QuietInv'
    BY <1>4 DEF CloseListener, ListenersInv, QuietInv, WsKinds
  <2> QED BY <1>4, <2>1, <2>2 DEF CloseListener, ListenersInv, NeverServesNothing
<1>5. CASE RawFails
  BY <1>5 DEF RawFails, ListenersInv, ListenersTypeOK, QuietInv, NeverServesNothing
<1>6. ASSUME NEW c \in Streams, StreamComes(c) PROVE ListenersInv'
  <2>1. Enqueue(c) \/ HandleFuncH2(c)
    BY <1>6 DEF StreamComes, MuxMtls, MuxKcp, SessionLoopQuic, ServeConnSsh, UpgradeWs, MuxMws,
       HandleFuncHttp2
  <2>2. /\ stream' \in [Streams -> {"new", "queued", "handled", "closed"}]
        /\ UNCHANGED <<lkind, raw, port, loop, errChan, serve, delay, servedNil>>
    BY <2>1 DEF Enqueue, HandleFuncH2, ListenersInv, ListenersTypeOK
  <2> QED BY <2>2 DEF ListenersInv, ListenersTypeOK, QuietInv, NeverServesNothing
<1>7. ASSUME NEW c \in Streams, ServeConn(c) PROVE ListenersInv'
  <2>1. 0 \in Delays
    BY DEF Delays
  <2> QED BY <1>7, <2>1 DEF ServeConn, ListenersInv, ListenersTypeOK, QuietInv, NeverServesNothing
<1>8. ASSUME NEW e \in {"temporary", "permanent"}, TcpFails(e) PROVE ListenersInv'
  <2>1. ServeError(e) /\ lkind = "tcp" /\ UNCHANGED <<lkind, raw, port, loop, errChan, stream>>
    BY <1>8 DEF TcpFails
  <2>2. /\ delay' \in Delays /\ servedNil' = FALSE
        /\ serve = "running" /\ serve' \in {"running", "ended"}
    BY <2>1, ServeErrorKeeps
  <2> QED BY <2>1, <2>2 DEF WsKinds, ListenersInv, ListenersTypeOK, QuietInv, NeverServesNothing
<1>9. CASE UNCHANGED listenerVars
  BY <1>9 DEF listenerVars, ListenersInv, ListenersTypeOK, QuietInv, NeverServesNothing
<1> QED BY <1>1, <1>2, <1>3, <1>4, <1>5, <1>6, <1>7, <1>8, <1>9 DEF ListenersNext

\* The invariant holds at the start and every step keeps it.
LEMMA ListenersInductive ==
  /\ ListenersInit => ListenersInv
  /\ ListenersInv /\ [ListenersNext]_listenerVars => ListenersInv'
<1>1. ASSUME ListenersInit PROVE ListenersInv
  BY <1>1 DEF ListenersInit, ListenersInv, ListenersTypeOK, QuietInv, NeverServesNothing, QuietChan, Delays
<1> QED BY <1>1, ListenersStep

\* For queues and connections of any number: whatever a listener fails with, and
\* however often, what Accept hands to the server is a connection.
THEOREM NeverServesNothingHolds == ListenersSpec => [](ListenersTypeOK /\ NeverServesNothing)
BY ListenersInductive, PTL DEF ListenersSpec, ListenersInv

--------------------------------------------------------------------------------
(* The connections a datagram listener makes for the senders it hears of. *)

\* A set of naturals has a least member.
LEMMA Least ==
  ASSUME NEW T \in SUBSET Nat, T # {}
  PROVE  \E n \in T : \A m \in T : m >= n
<1> DEFINE Less == {pair \in Nat \X Nat : pair[1] < pair[2]}
<1>1. IsWellFoundedOn(Less, Nat)
  BY NatLessThanWellFounded DEF OpToRel
<1>2. PICK n \in T : \A m \in T : <<m, n>> \notin Less
  BY <1>1, WFMin
<1>3. ASSUME NEW m \in T PROVE m >= n
  <2>1. <<m, n>> \in Nat \X Nat /\ <<m, n>>[1] = m /\ <<m, n>>[2] = n
    OBVIOUS
  <2>2. ~(m < n)
    BY <1>2, <2>1 DEF Less
  <2> QED BY <2>2
<1> QED BY <1>3

\* A connection as the listener keeps it.
AssocType == [peer : Peers \cup {0}, sock : 0 .. MaxSocks,
              at : {"unused", "queued", "handled", "refused"}, open : BOOLEAN, early : BOOLEAN,
              rchan : 0 .. QueueSize]

\* The connections that were put into the map, and those that were closed.
WasSet == {a \in Assocs : assoc[a].at \in {"queued", "handled"} /\ reader # [pc |-> "set", a |-> a]}
\* Those that were closed.
WasClosed == {a \in Assocs : assoc[a].at # "unused" /\ ~assoc[a].open}

\* An open connection was accepted or is queued.  The one about to be put into
\* the map, and those in it, are open or were closed too early.
Usable(a) == a \in Assocs /\ assoc[a].at \in {"queued", "handled"} /\ (assoc[a].open \/ assoc[a].early)
\* Of the map and the reader that fills it.
MapInv ==
  /\ \A a \in Assocs : assoc[a].open => assoc[a].at \in {"queued", "handled"}
  /\ reader.pc = "set" => Usable(reader.a)
  /\ \A p \in Peers : connMap[p] # 0 => Usable(connMap[p]) /\ assoc[connMap[p]].peer = p

\* Every connection was counted when it was put there and when it was closed.
SizeInv == mapSize = Cardinality(WasSet) - Cardinality(WasClosed)

\* The types, but for the size of the map.
UdpPlainTypes ==
  /\ ukind \in {"udp", "ftcp", "rudp"} /\ sock \in 0 .. MaxSocks
  /\ assoc \in [Assocs -> AssocType]
  /\ connMap \in [Peers -> 0 .. MaxAssoc]
  /\ reader \in [pc : {"read", "set", "connect", "ended"}, a : 0 .. MaxAssoc]
  /\ stopped \in BOOLEAN

\* What every step keeps.
UdpInv == UdpPlainTypes /\ MapInv /\ SizeInv

\* A connection not made yet.
LEMMA NoAssocTyped == NoAssoc \in AssocType
<1>1. 0 \in 0 .. MaxSocks /\ 0 \in 0 .. QueueSize
  BY UdpAssumption
<1> QED BY <1>1 DEF NoAssoc, AssocType

\* The connections are finitely many, and so are those of each kind.
LEMMA AssocsFinite ==
  ASSUME NEW T \in SUBSET Assocs
  PROVE  IsFiniteSet(T) /\ Cardinality(T) \in 0 .. MaxAssoc
<1>1. IsFiniteSet(Assocs) /\ Cardinality(Assocs) = MaxAssoc
  BY UdpAssumption, FS_Interval DEF Assocs
<1>2. IsFiniteSet(T) /\ Cardinality(T) <= MaxAssoc
  BY <1>1, FS_Subset
<1> QED BY <1>2, FS_CardinalityType, UdpAssumption

\* The size of the map is what its type says.
LEMMA SizeTyped == SizeInv => mapSize \in -MaxAssoc .. MaxAssoc
<1>1. WasSet \in SUBSET Assocs /\ WasClosed \in SUBSET Assocs
  BY DEF WasSet, WasClosed
<1>2. Cardinality(WasSet) \in 0 .. MaxAssoc /\ Cardinality(WasClosed) \in 0 .. MaxAssoc
  BY <1>1, AssocsFinite
<1> QED BY <1>2, UdpAssumption DEF SizeInv

\* A step that puts no connection into the map and closes none.
LEMMA SizeStays ==
  ASSUME SizeInv, WasSet' = WasSet, WasClosed' = WasClosed, mapSize' = mapSize
  PROVE  SizeInv'
BY DEF SizeInv

\* Closing connections that are open counts each of them.
LEMMA ClosingCounts ==
  ASSUME UdpPlainTypes, MapInv, SizeInv, NEW gone \in SUBSET Assocs, \A a \in gone : assoc[a].open,
         CloseAssocs(gone), WasSet' = WasSet
  PROVE  SizeInv'
<1>1. WasClosed' = WasClosed \cup gone
  <2>1. \A a \in Assocs : assoc'[a].at = assoc[a].at
                          /\ assoc'[a].open = IF a \in gone THEN FALSE ELSE assoc[a].open
    BY DEF CloseAssocs, UdpPlainTypes, AssocType
  <2>2. \A a \in gone : assoc[a].at # "unused"
    BY DEF MapInv
  <2> QED BY <2>1, <2>2 DEF WasClosed
<1>2. WasClosed \cap gone = {}
  BY DEF WasClosed
<1>3. WasClosed \in SUBSET Assocs /\ WasSet \in SUBSET Assocs
  BY DEF WasClosed, WasSet
<1>4. /\ IsFiniteSet(WasClosed) /\ Cardinality(WasClosed) \in Nat
      /\ IsFiniteSet(gone) /\ Cardinality(gone) \in Nat /\ Cardinality(WasSet) \in Nat
  <2>1. IsFiniteSet(WasClosed) /\ Cardinality(WasClosed) \in 0 .. MaxAssoc
    BY <1>3, AssocsFinite
  <2>2. IsFiniteSet(gone) /\ Cardinality(gone) \in 0 .. MaxAssoc
    BY AssocsFinite
  <2>3. Cardinality(WasSet) \in 0 .. MaxAssoc
    BY <1>3, AssocsFinite
  <2>4. 0 .. MaxAssoc \subseteq Nat
    BY UdpAssumption
  <2> QED BY <2>1, <2>2, <2>3, <2>4
<1>5. Cardinality(WasClosed \cup gone) = Cardinality(WasClosed) + Cardinality(gone) - Cardinality(WasClosed \cap gone)
  BY <1>4, FS_Union
<1>6. Cardinality(WasClosed \cap gone) = 0
  BY <1>2, FS_EmptySet
<1>7. mapSize' = mapSize - Cardinality(gone)
  BY DEF CloseAssocs
<1>8. PICK n0 \in Nat, n1 \in Nat, n2 \in Nat :
        n0 = Cardinality(WasClosed) /\ n1 = Cardinality(gone) /\ n2 = Cardinality(WasSet)
  BY <1>4
<1>9. Cardinality(WasClosed') = n0 + n1 /\ Cardinality(WasSet') = n2
  BY <1>1, <1>5, <1>6, <1>8
<1>10. mapSize = n2 - n0 /\ mapSize' = mapSize - n1
  BY <1>7, <1>8 DEF SizeInv
<1>11. mapSize' = n2 - (n0 + n1)
  BY <1>8, <1>10
<1> QED BY <1>9, <1>11 DEF SizeInv

\* A closed connection's peer is not in the map any more, unless the loop is
\* about to put it there: that one is marked closed too early.
LEMMA ClosingUnmaps ==
  ASSUME UdpPlainTypes, MapInv, NEW gone \in SUBSET Assocs, \A a \in gone : assoc[a].open,
         CloseAssocs(gone), reader' = reader \/ (reader.pc # "set" /\ reader'.pc # "set")
  PROVE  MapInv' /\ WasSet' = WasSet /\ assoc' \in [Assocs -> AssocType] /\ connMap' \in [Peers -> 0 .. MaxAssoc]
<1>1. assoc' \in [Assocs -> AssocType]
  <2>1. \A a \in Assocs : assoc[a] \in AssocType
    BY DEF UdpPlainTypes
  <2>2. \A a \in Assocs, e \in BOOLEAN : [assoc[a] EXCEPT !.open = FALSE, !.early = e] \in AssocType
    BY <2>1 DEF AssocType
  <2>3. (reader = [pc |-> "set", a |-> 1]) \in BOOLEAN /\ \A a \in Assocs : (reader = [pc |-> "set", a |-> a]) \in BOOLEAN
    OBVIOUS
  <2> QED BY <2>1, <2>2, <2>3 DEF CloseAssocs
<1>2. connMap' \in [Peers -> 0 .. MaxAssoc]
  <2>1. 0 \in 0 .. MaxAssoc
    BY UdpAssumption
  <2>2. \A p \in Peers : connMap[p] \in 0 .. MaxAssoc
    BY DEF UdpPlainTypes
  <2> QED BY <2>1, <2>2 DEF CloseAssocs
<1>3. \A a \in Assocs :
        /\ assoc'[a].at = assoc[a].at /\ assoc'[a].peer = assoc[a].peer
        /\ assoc'[a].open = IF a \in gone THEN FALSE ELSE assoc[a].open
        /\ a \notin gone => assoc'[a].early = assoc[a].early
        /\ a \in gone => assoc'[a].early = (reader = [pc |-> "set", a |-> a])
  BY DEF CloseAssocs, UdpPlainTypes, AssocType
<1>4. WasSet' = WasSet
  <2>1. \A a \in Assocs : reader' = [pc |-> "set", a |-> a] <=> reader = [pc |-> "set", a |-> a]
    OBVIOUS
  <2>2. WasSet' = {a \in Assocs : assoc'[a].at \in {"queued", "handled"} /\ reader' # [pc |-> "set", a |-> a]}
    BY DEF WasSet
  <2> QED BY <2>1, <2>2, <1>3 DEF WasSet
<1>5. \A a \in Assocs : assoc'[a].open => assoc'[a].at \in {"queued", "handled"}
  BY <1>3 DEF MapInv
<1>6. reader'.pc = "set" => Usable(reader.a)'
  <2>1. reader.pc = "set" => reader = [pc |-> "set", a |-> reader.a]
    BY DEF UdpPlainTypes
  <2> SUFFICES ASSUME reader'.pc = "set" PROVE Usable(reader.a)'
    OBVIOUS
  <2>2. reader' = reader /\ reader.pc = "set"
    OBVIOUS
  <2>3. PICK a \in Assocs : a = reader.a
    BY <2>2 DEF MapInv, Usable
  <2>4. assoc[a].at \in {"queued", "handled"} /\ (assoc[a].open \/ assoc[a].early)
    BY <2>2, <2>3 DEF MapInv, Usable
  <2>5. assoc'[a].at \in {"queued", "handled"} /\ (assoc'[a].open \/ assoc'[a].early)
    BY <2>1, <2>2, <2>3, <2>4, <1>3
  <2> QED BY <2>2, <2>3, <2>5 DEF Usable
<1>7. reader'.pc = "set" => reader' = reader
  OBVIOUS
<1>8. ASSUME NEW p \in Peers, connMap'[p] # 0
      PROVE  Usable(connMap[p])' /\ assoc'[connMap'[p]].peer = p
  <2>1. connMap'[p] = connMap[p] /\ ~\E a \in gone : assoc[a].peer = p
    BY <1>8 DEF CloseAssocs, UdpPlainTypes
  <2>2. Usable(connMap[p]) /\ assoc[connMap[p]].peer = p
    BY <1>8, <2>1 DEF MapInv
  <2>3. connMap[p] \notin gone /\ connMap[p] \in Assocs
    BY <2>1, <2>2 DEF Usable
  <2>4. PICK a \in Assocs : a = connMap[p]
    BY <2>3
  <2>5. assoc[a].at \in {"queued", "handled"} /\ (assoc[a].open \/ assoc[a].early) /\ assoc[a].peer = p /\ a \notin gone
    BY <2>2, <2>3, <2>4 DEF Usable
  <2>6. assoc'[a].at \in {"queued", "handled"} /\ (assoc'[a].open \/ assoc'[a].early) /\ assoc'[a].peer = p
    BY <2>5, <1>3
  <2>7. connMap'[p] = a
    BY <2>1, <2>4
  <2> QED BY <2>6, <2>7 DEF Usable
<1> QED BY <1>1, <1>2, <1>4, <1>5, <1>6, <1>7, <1>8 DEF MapInv

\* The highest number of a socket that a connection was made on.
LEMMA LastSockIs == UdpPlainTypes => LastSock \in 0 .. MaxSocks
<1> SUFFICES ASSUME UdpPlainTypes PROVE LastSock \in 0 .. MaxSocks
  OBVIOUS
<1> DEFINE Above == {n \in 0 .. MaxSocks : \A a \in Assocs : assoc[a].sock <= n}
<1>1. \A a \in Assocs : assoc[a].sock \in 0 .. MaxSocks
  BY DEF UdpPlainTypes, AssocType
<1>2. MaxSocks \in Above
  BY <1>1, UdpAssumption
<1>3. Above \in SUBSET Nat
  BY UdpAssumption
<1>4. PICK n \in Above : \A m \in Above : m >= n
  BY <1>2, <1>3, Least
<1>5. n = 0 \/ \E a \in Assocs : assoc[a].sock = n
  <2> SUFFICES ASSUME n # 0, \A a \in Assocs : assoc[a].sock # n PROVE FALSE
    OBVIOUS
  <2>1. n \in 0 .. MaxSocks /\ n - 1 \in 0 .. MaxSocks
    BY <1>4, UdpAssumption
  <2>2. \A a \in Assocs : assoc[a].sock <= n - 1
    BY <2>1, <1>1, <1>4
  <2>3. n - 1 \in Above
    BY <2>1, <2>2
  <2> QED BY <2>1, <2>3, <1>4
<1>6. \E k \in 0 .. MaxSocks :
        /\ \A a \in Assocs : assoc[a].sock <= k
        /\ k = 0 \/ \E a \in Assocs : assoc[a].sock = k
  BY <1>4, <1>5
<1> QED BY <1>6 DEF LastSock

\* What a listener closes when it closes itself is open.
LEMMA MappedOpenIs == MappedOpen \in SUBSET Assocs /\ \A a \in MappedOpen : assoc[a].open
BY DEF MappedOpen

\* A datagram changes what is queued, and nothing else of the connection.
LEMMA PushKeeps ==
  ASSUME NEW x \in AssocType
  PROVE  /\ Push(x) \in AssocType
         /\ Push(x).at = x.at /\ Push(x).open = x.open /\ Push(x).early = x.early /\ Push(x).peer = x.peer
<1>1. QueueSize \in Nat \ {0}
  BY UdpAssumption
<1>2. x.rchan \in 0 .. QueueSize
  BY DEF AssocType
<1>3. (IF x.rchan < QueueSize THEN x.rchan + 1 ELSE x.rchan) \in 0 .. QueueSize
  BY <1>1, <1>2
<1> QED BY <1>3 DEF Push, AssocType

\* A step that changes no connection's place, openness or peer, and no entry.
LEMMA PlacesKeep ==
  ASSUME UdpInv, assoc' \in [Assocs -> AssocType], UNCHANGED <<ukind, connMap, mapSize, stopped>>,
         sock' \in 0 .. MaxSocks, reader' \in [pc : {"read", "set", "connect", "ended"}, a : 0 .. MaxAssoc],
         \A a \in Assocs : /\ assoc'[a].open = assoc[a].open /\ assoc'[a].early = assoc[a].early
                           /\ assoc'[a].peer = assoc[a].peer
                           /\ assoc'[a].at = assoc[a].at \/ (assoc[a].at = "queued" /\ assoc'[a].at = "handled"),
         reader' = reader \/ (reader.pc # "set" /\ reader'.pc # "set")
  PROVE  UdpInv'
<1> USE DEF UdpInv
<1>1. UdpPlainTypes'
  BY DEF UdpPlainTypes
<1>2. \A a \in Assocs : (assoc'[a].at \in {"queued", "handled"} <=> assoc[a].at \in {"queued", "handled"})
                        /\ (assoc'[a].at # "unused" <=> assoc[a].at # "unused")
  OBVIOUS
<1>3. MapInv'
  <2>1. \A a \in Assocs : assoc'[a].open => assoc'[a].at \in {"queued", "handled"}
    BY <1>2 DEF MapInv
  <2>2. \A a \in Assocs : Usable(a) => Usable(a)'
    BY <1>2 DEF Usable
  <2>3. reader'.pc = "set" => Usable(reader.a)' /\ reader' = reader
    BY <2>2 DEF MapInv, Usable
  <2>4. \A p \in Peers : connMap[p] # 0 => connMap[p] \in Assocs /\ Usable(connMap[p]) /\ assoc[connMap[p]].peer = p
    BY DEF MapInv, Usable
  <2>5. \A p \in Peers : connMap'[p] # 0 => Usable(connMap[p])' /\ assoc'[connMap'[p]].peer = p
    BY <2>2, <2>4
  <2> QED BY <2>1, <2>3, <2>5 DEF MapInv
<1>4. WasSet' = WasSet
  <2>1. \A a \in Assocs : reader' = [pc |-> "set", a |-> a] <=> reader = [pc |-> "set", a |-> a]
    OBVIOUS
  <2>2. WasSet' = {a \in Assocs : assoc'[a].at \in {"queued", "handled"} /\ reader' # [pc |-> "set", a |-> a]}
    BY DEF WasSet
  <2> QED BY <2>1, <2>2, <1>2 DEF WasSet
<1>5. WasClosed' = WasClosed
  BY <1>2 DEF WasClosed
<1>6. mapSize' = mapSize
  OBVIOUS
<1>7. SizeInv'
  BY <1>4, <1>5, <1>6, SizeStays
<1> QED BY <1>1, <1>3, <1>7

\* A new sender's connection: queued and about to be put into the map, or
\* refused and counted as closed.
LEMMA NewAssocKeeps ==
  ASSUME UdpInv, NEW p \in Peers, ReadNew(p)
  PROVE  UdpInv'
<1> USE DEF UdpInv
<1>1. PICK a \in Assocs :
        /\ FreshAssoc(a)
        /\ IF Cardinality(Waiting) < Backlog
           THEN /\ assoc' = [assoc EXCEPT ![a] = [NoAssoc EXCEPT
                              !.peer = p, !.sock = sock, !.at = "queued", !.open = TRUE]]
                /\ reader' = [pc |-> "set", a |-> a]
                /\ UNCHANGED mapSize
           ELSE /\ assoc' = [assoc EXCEPT ![a] = [NoAssoc EXCEPT
                              !.peer = p, !.sock = sock, !.at = "refused", !.rchan = 1]]
                /\ mapSize' = mapSize - 1
                /\ UNCHANGED reader
  BY DEF ReadNew
<1>2. assoc[a] = NoAssoc /\ reader.pc = "read" /\ UNCHANGED <<ukind, sock, connMap, stopped>>
  BY <1>1 DEF FreshAssoc, ReadNew
<1>3. ~Usable(a) /\ a \notin WasSet /\ a \notin WasClosed
  BY <1>2 DEF Usable, WasSet, WasClosed, NoAssoc
<1>4. \A b \in Assocs : Usable(b) => b # a
  BY <1>3
<1>5. \A q \in Peers : connMap[q] # 0 => Usable(connMap[q]) /\ connMap[q] # a /\ assoc[connMap[q]].peer = q
  BY <1>3 DEF MapInv
<1>6. CASE Cardinality(Waiting) < Backlog
  <2> DEFINE new == [NoAssoc EXCEPT !.peer = p, !.sock = sock, !.at = "queued", !.open = TRUE]
  <2>1. new \in AssocType
    <3>1. sock \in 0 .. MaxSocks
      BY DEF UdpPlainTypes
    <3>2. NoAssoc \in AssocType
      BY NoAssocTyped
    <3>3. \A x \in AssocType, n \in 0 .. MaxSocks, o \in BOOLEAN :
            [x EXCEPT !.peer = p, !.sock = n, !.at = "queued", !.open = o] \in AssocType
      BY DEF AssocType
    <3>4. TRUE \in BOOLEAN
      OBVIOUS
    <3> QED BY <3>1, <3>2, <3>3, <3>4
  <2>2. new.at = "queued" /\ new.open
    BY DEF NoAssoc
  <2> HIDE DEF new
  <2>3. assoc' = [assoc EXCEPT ![a] = new] /\ reader' = [pc |-> "set", a |-> a] /\ mapSize' = mapSize
    BY <1>1, <1>6 DEF new
  <2>4. assoc'[a] = new /\ \A b \in Assocs \ {a} : assoc'[b] = assoc[b]
    BY <2>3 DEF UdpPlainTypes
  <2>5. UdpPlainTypes'
    BY <1>2, <2>1, <2>3 DEF UdpPlainTypes, Assocs
  <2>6. MapInv'
    <3>1. Usable(a)'
      BY <2>2, <2>4 DEF Usable
    <3>2. \A q \in Peers : connMap'[q] # 0 => Usable(connMap[q])' /\ assoc'[connMap'[q]].peer = q
      BY <1>2, <1>5, <2>4 DEF Usable
    <3>3. \A b \in Assocs : assoc'[b].open => assoc'[b].at \in {"queued", "handled"}
      BY <2>2, <2>4 DEF MapInv
    <3>4. reader'.a = a
      BY <2>3
    <3> QED BY <3>1, <3>2, <3>3, <3>4, <1>2 DEF MapInv
  <2>7. WasSet' = WasSet
    <3>1. \A b \in Assocs : reader' = [pc |-> "set", a |-> b] <=> b = a
      BY <2>3
    <3>2. \A b \in Assocs : reader # [pc |-> "set", a |-> b]
      BY <1>2
    <3>3. WasSet' = {b \in Assocs : assoc'[b].at \in {"queued", "handled"} /\ reader' # [pc |-> "set", a |-> b]}
      BY DEF WasSet
    <3>4. assoc[a].at = "unused"
      BY <1>2 DEF NoAssoc
    <3> QED BY <3>1, <3>2, <3>3, <3>4, <2>4 DEF WasSet
  <2>8. WasClosed' = WasClosed
    BY <1>3, <2>2, <2>4 DEF WasClosed
  <2>9. SizeInv'
    BY <2>3, <2>7, <2>8, SizeStays
  <2> QED BY <2>5, <2>6, <2>9
<1>7. CASE ~(Cardinality(Waiting) < Backlog)
  <2> DEFINE new == [NoAssoc EXCEPT !.peer = p, !.sock = sock, !.at = "refused", !.rchan = 1]
  <2>1. new \in AssocType
    <3>1. sock \in 0 .. MaxSocks /\ 1 \in 0 .. QueueSize
      BY UdpAssumption DEF UdpPlainTypes
    <3>2. NoAssoc \in AssocType
      BY NoAssocTyped
    <3>3. \A x \in AssocType, n \in 0 .. MaxSocks, k \in 0 .. QueueSize :
            [x EXCEPT !.peer = p, !.sock = n, !.at = "refused", !.rchan = k] \in AssocType
      BY DEF AssocType
    <3> QED BY <3>1, <3>2, <3>3
  <2>2. new.at = "refused" /\ ~new.open
    BY DEF NoAssoc
  <2> HIDE DEF new
  <2>3. assoc' = [assoc EXCEPT ![a] = new] /\ reader' = reader /\ mapSize' = mapSize - 1
    BY <1>1, <1>7 DEF new
  <2>4. assoc'[a] = new /\ \A b \in Assocs \ {a} : assoc'[b] = assoc[b]
    BY <2>3 DEF UdpPlainTypes
  <2>5. UdpPlainTypes'
    BY <1>2, <2>1, <2>3 DEF UdpPlainTypes, Assocs
  <2>6. MapInv'
    <3>1. \A q \in Peers : connMap'[q] # 0 => Usable(connMap[q])' /\ assoc'[connMap'[q]].peer = q
      BY <1>2, <1>5, <2>4 DEF Usable
    <3>2. \A b \in Assocs : assoc'[b].open => assoc'[b].at \in {"queued", "handled"}
      BY <2>2, <2>4 DEF MapInv
    <3>3. reader'.pc # "set"
      BY <1>2, <2>3
    <3> QED BY <3>1, <3>2, <3>3, <1>2 DEF MapInv
  <2>7. WasSet' = WasSet
    <3>1. assoc[a].at = "unused"
      BY <1>2 DEF NoAssoc
    <3>2. \A b \in Assocs : assoc'[b].at \in {"queued", "handled"} <=> assoc[b].at \in {"queued", "handled"}
      BY <3>1, <2>2, <2>4
    <3> QED BY <3>2, <2>3 DEF WasSet
  <2>8. WasClosed' = WasClosed \cup {a}
    BY <1>3, <2>2, <2>4 DEF WasClosed
  <2>9. WasClosed \in SUBSET Assocs /\ WasSet \in SUBSET Assocs
    BY DEF WasClosed, WasSet
  <2>10. IsFiniteSet(WasClosed) /\ Cardinality(WasClosed) \in 0 .. MaxAssoc
    BY <2>9, AssocsFinite
  <2>11. Cardinality(WasSet) \in 0 .. MaxAssoc
    BY <2>9, AssocsFinite
  <2>12. Cardinality(WasClosed') = Cardinality(WasClosed) + 1
    BY <1>3, <2>8, <2>10, FS_AddElement
  <2>13. PICK n0 \in 0 .. MaxAssoc, n2 \in 0 .. MaxAssoc : n0 = Cardinality(WasClosed) /\ n2 = Cardinality(WasSet)
    BY <2>10, <2>11
  <2>14. mapSize = n2 - n0 /\ mapSize' = mapSize - 1
    BY <2>3, <2>13 DEF SizeInv
  <2>15. mapSize' = n2 - (n0 + 1)
    BY <2>13, <2>14, UdpAssumption
  <2>16. Cardinality(WasClosed') = n0 + 1 /\ Cardinality(WasSet') = n2
    BY <2>7, <2>12, <2>13
  <2> QED BY <2>5, <2>6, <2>15, <2>16 DEF SizeInv
<1> QED BY <1>6, <1>7

\* The new connection goes into the map.
LEMMA SetKeeps == ASSUME UdpInv, SetAssoc PROVE UdpInv'
<1> USE DEF UdpInv
<1>1. PICK a \in Assocs : a = reader.a
  BY DEF SetAssoc, MapInv, Usable
<1>2. Usable(a) /\ reader = [pc |-> "set", a |-> a]
  BY <1>1 DEF SetAssoc, MapInv, UdpPlainTypes
<1>3. /\ connMap' = [connMap EXCEPT ![assoc[a].peer] = a]
      /\ mapSize' = mapSize + 1 /\ assoc' = [assoc EXCEPT ![a] = Push(@)]
      /\ reader' = Reading /\ UNCHANGED <<ukind, sock, stopped>>
  BY <1>1 DEF SetAssoc
<1>4. assoc[a] \in AssocType
  BY DEF UdpPlainTypes
<1>5. /\ assoc' \in [Assocs -> AssocType]
      /\ \A b \in Assocs : /\ assoc'[b].at = assoc[b].at /\ assoc'[b].open = assoc[b].open
                           /\ assoc'[b].early = assoc[b].early /\ assoc'[b].peer = assoc[b].peer
  BY <1>3, <1>4, PushKeeps DEF UdpPlainTypes
<1>6. UdpPlainTypes'
  <2>1. connMap' \in [Peers -> 0 .. MaxAssoc]
    <3>1. a \in 0 .. MaxAssoc
      BY UdpAssumption DEF Assocs
    <3> QED BY <3>1, <1>3 DEF UdpPlainTypes
  <2>2. reader' \in [pc : {"read", "set", "connect", "ended"}, a : 0 .. MaxAssoc]
    BY <1>3, UdpAssumption DEF Reading
  <2> QED BY <1>3, <1>5, <2>1, <2>2 DEF UdpPlainTypes
<1>7. MapInv'
  <2>1. \A b \in Assocs : Usable(b) => Usable(b)'
    BY <1>5 DEF Usable
  <2>2. \A b \in Assocs : assoc'[b].open => assoc'[b].at \in {"queued", "handled"}
    BY <1>5 DEF MapInv
  <2>3. reader'.pc = "read"
    BY <1>3 DEF Reading
  <2>4. ASSUME NEW p \in Peers, connMap'[p] # 0 PROVE Usable(connMap[p])' /\ assoc'[connMap'[p]].peer = p
    <3>1. CASE p = assoc[a].peer
      <4>1. connMap'[p] = a
        BY <3>1, <1>3 DEF UdpPlainTypes
      <4> QED BY <4>1, <3>1, <2>1, <1>2, <1>5
    <3>2. CASE p # assoc[a].peer
      <4>1. connMap'[p] = connMap[p]
        BY <3>2, <1>3 DEF UdpPlainTypes
      <4>2. connMap[p] \in Assocs /\ Usable(connMap[p]) /\ assoc[connMap[p]].peer = p
        BY <4>1, <2>4 DEF MapInv, Usable
      <4> QED BY <4>1, <4>2, <2>1, <1>5
    <3> QED BY <3>1, <3>2
  <2> QED BY <2>2, <2>3, <2>4 DEF MapInv
<1>8. WasSet' = WasSet \cup {a}
  <2>1. \A b \in Assocs : reader = [pc |-> "set", a |-> b] <=> b = a
    BY <1>2
  <2>2. \A b \in Assocs : reader' # [pc |-> "set", a |-> b]
    BY <1>3 DEF Reading
  <2>3. WasSet' = {b \in Assocs : assoc'[b].at \in {"queued", "handled"} /\ reader' # [pc |-> "set", a |-> b]}
    BY DEF WasSet
  <2>4. assoc[a].at \in {"queued", "handled"}
    BY <1>2 DEF Usable
  <2>5. WasSet = {b \in Assocs : assoc[b].at \in {"queued", "handled"} /\ b # a}
    BY <2>1 DEF WasSet
  <2>6. WasSet' = {b \in Assocs : assoc[b].at \in {"queued", "handled"}}
    BY <2>2, <2>3, <1>5
  <2> QED BY <2>4, <2>5, <2>6
<1>9. a \notin WasSet
  BY <1>2 DEF WasSet
<1>10. WasClosed' = WasClosed
  BY <1>5 DEF WasClosed
<1>11. WasClosed \in SUBSET Assocs /\ WasSet \in SUBSET Assocs
  BY DEF WasClosed, WasSet
<1>12. IsFiniteSet(WasSet) /\ Cardinality(WasSet) \in 0 .. MaxAssoc
  BY <1>11, AssocsFinite
<1>13. Cardinality(WasClosed) \in 0 .. MaxAssoc
  BY <1>11, AssocsFinite
<1>14. Cardinality(WasSet') = Cardinality(WasSet) + 1
  BY <1>8, <1>9, <1>12, FS_AddElement
<1>15. PICK n0 \in 0 .. MaxAssoc, n2 \in 0 .. MaxAssoc : n0 = Cardinality(WasClosed) /\ n2 = Cardinality(WasSet)
  BY <1>12, <1>13
<1>16. mapSize = n2 - n0 /\ mapSize' = mapSize + 1
  BY <1>3, <1>15 DEF SizeInv
<1>17. mapSize' = (n2 + 1) - n0
  BY <1>15, <1>16, UdpAssumption
<1>18. Cardinality(WasClosed') = n0 /\ Cardinality(WasSet') = n2 + 1
  BY <1>10, <1>14, <1>15
<1> QED BY <1>6, <1>7, <1>17, <1>18 DEF SizeInv

\* Closing connections that are open.
LEMMA ClosingKeeps ==
  ASSUME UdpInv, NEW gone \in SUBSET Assocs, \A a \in gone : assoc[a].open, CloseAssocs(gone),
         ukind' = ukind, sock' \in 0 .. MaxSocks, stopped' \in BOOLEAN,
         reader' \in [pc : {"read", "set", "connect", "ended"}, a : 0 .. MaxAssoc],
         reader' = reader \/ (reader.pc # "set" /\ reader'.pc # "set")
  PROVE  UdpInv'
<1>1. UdpPlainTypes /\ MapInv /\ SizeInv
  BY DEF UdpInv
<1>2. MapInv' /\ WasSet' = WasSet /\ assoc' \in [Assocs -> AssocType] /\ connMap' \in [Peers -> 0 .. MaxAssoc]
  BY <1>1, ClosingUnmaps
<1>3. SizeInv'
  BY <1>1, <1>2, ClosingCounts
<1>4. UdpPlainTypes'
  BY <1>1, <1>2 DEF UdpPlainTypes
<1> QED BY <1>2, <1>3, <1>4 DEF UdpInv

\* Every step of the reader, the server, a connection or Close keeps the count.
LEMMA UdpStep == UdpInv /\ [UdpNext]_udpVars => UdpInv'
<1> SUFFICES ASSUME UdpInv, [UdpNext]_udpVars PROVE UdpInv'
  OBVIOUS
<1>0. UdpPlainTypes /\ \A a \in Assocs : assoc[a] \in AssocType
  BY DEF UdpInv, UdpPlainTypes
<1>1. ASSUME NEW p \in Peers, ReadKnown(p) PROVE UdpInv'
  <2>1. PICK a \in Assocs : a = connMap[p]
    BY <1>1 DEF ReadKnown, UdpInv, MapInv, Usable
  <2>2. assoc' = [assoc EXCEPT ![a] = Push(@)] /\ UNCHANGED <<ukind, sock, connMap, mapSize, reader, stopped>>
    BY <1>1, <2>1 DEF ReadKnown
  <2>3. /\ assoc' \in [Assocs -> AssocType]
        /\ \A b \in Assocs : /\ assoc'[b].at = assoc[b].at /\ assoc'[b].open = assoc[b].open
                             /\ assoc'[b].early = assoc[b].early /\ assoc'[b].peer = assoc[b].peer
    BY <1>0, <2>2, PushKeeps DEF UdpPlainTypes
  <2> QED BY <1>0, <2>2, <2>3, PlacesKeep DEF UdpPlainTypes
<1>2. ASSUME NEW p \in Peers, ReadNew(p) PROVE UdpInv'
  BY <1>2, NewAssocKeeps
<1>3. ASSUME NEW p \in Peers, ReadUdp(p) \/ ReadFakeTcp(p) \/ ReadTunnel(p) PROVE UdpInv'
  BY <1>1, <1>2, <1>3 DEF ReadUdp, ReadFakeTcp, ReadTunnel
<1>4. ASSUME NEW a \in Assocs, AcceptAssoc(a) PROVE UdpInv'
  <2>1. assoc[a].at = "queued" /\ assoc' = [assoc EXCEPT ![a].at = "handled"]
        /\ UNCHANGED <<ukind, sock, connMap, mapSize, reader, stopped>>
    BY <1>4 DEF AcceptAssoc
  <2>2. /\ assoc' \in [Assocs -> AssocType]
        /\ \A b \in Assocs : /\ assoc'[b].at = assoc[b].at \/ (assoc[b].at = "queued" /\ assoc'[b].at = "handled")
                             /\ assoc'[b].open = assoc[b].open
                             /\ assoc'[b].early = assoc[b].early /\ assoc'[b].peer = assoc[b].peer
    BY <1>0, <2>1 DEF UdpPlainTypes, AssocType
  <2> QED BY <1>0, <2>1, <2>2, PlacesKeep DEF UdpPlainTypes
<1>5. ASSUME NEW a \in Assocs, HandlerReads(a) PROVE UdpInv'
  <2>1. assoc[a].rchan > 0 /\ assoc' = [assoc EXCEPT ![a].rchan = @ - 1]
        /\ UNCHANGED <<ukind, sock, connMap, mapSize, reader, stopped>>
    BY <1>5 DEF HandlerReads
  <2>2. assoc[a].rchan - 1 \in 0 .. QueueSize
    BY <1>0, <2>1, UdpAssumption DEF AssocType
  <2>3. /\ assoc' \in [Assocs -> AssocType]
        /\ \A b \in Assocs : /\ assoc'[b].at = assoc[b].at /\ assoc'[b].open = assoc[b].open
                             /\ assoc'[b].early = assoc[b].early /\ assoc'[b].peer = assoc[b].peer
    BY <1>0, <2>1, <2>2 DEF UdpPlainTypes, AssocType
  <2> QED BY <1>0, <2>1, <2>3, PlacesKeep DEF UdpPlainTypes
<1>6. ASSUME NEW a \in Assocs, HandlerCloses(a) \/ TtlWait(a) PROVE UdpInv'
  <2>1. assoc[a].open /\ CloseAssocs({a}) /\ UNCHANGED <<ukind, sock, reader, stopped>>
    BY <1>6 DEF HandlerCloses, TtlWait
  <2>2. {a} \in SUBSET Assocs /\ \A b \in {a} : assoc[b].open
    BY <2>1
  <2> QED BY <1>0, <2>1, <2>2, ClosingKeeps DEF UdpPlainTypes
<1>7. CASE SetAssoc
  BY <1>7, SetKeeps
<1>8. CASE CloseUdp \/ CloseFakeTcp \/ CloseTunnelListener
  <2>1. /\ CloseAssocs(MappedOpen) /\ UNCHANGED <<ukind, reader>>
        /\ stopped' = TRUE /\ (sock' = 0 \/ sock' = sock)
    BY <1>8 DEF CloseUdp, CloseFakeTcp, CloseTunnelListener
  <2>2. stopped' \in BOOLEAN
    BY <2>1
  <2>3. sock' \in 0 .. MaxSocks
    BY <1>0, <2>1, UdpAssumption DEF UdpPlainTypes
  <2> QED BY <1>0, <2>1, <2>2, <2>3, MappedOpenIs, ClosingKeeps DEF UdpPlainTypes
<1>9. CASE ReadFails
  <2>1. /\ CloseAssocs(MappedOpen) /\ ukind' = ukind /\ reader.pc = "read"
        /\ stopped' = TRUE /\ sock' = 0 /\ reader' = [Reading EXCEPT !.pc = "ended"]
    BY <1>9 DEF ReadFails
  <2>2. stopped' \in BOOLEAN
    BY <2>1
  <2>3. sock' \in 0 .. MaxSocks
    BY <2>1, UdpAssumption
  <2>4. reader' \in [pc : {"read", "set", "connect", "ended"}, a : 0 .. MaxAssoc] /\ reader'.pc = "ended"
    BY <2>1, UdpAssumption DEF Reading
  <2> QED BY <2>1, <2>2, <2>3, <2>4, MappedOpenIs, ClosingKeeps
<1>10. CASE TunnelFails \/ ConnectTunnel
  <2>1. reader.pc # "set" /\ UNCHANGED <<ukind, assoc, connMap, mapSize, stopped>>
    BY <1>10 DEF TunnelFails, ConnectTunnel
  <2>2. reader' \in {Reading, [Reading EXCEPT !.pc = "connect"], [Reading EXCEPT !.pc = "ended"]}
    BY <1>10 DEF TunnelFails, ConnectTunnel
  <2>3. reader' \in [pc : {"read", "set", "connect", "ended"}, a : 0 .. MaxAssoc] /\ reader'.pc # "set"
    BY <2>2, UdpAssumption DEF Reading
  <2>4. sock' \in 0 .. MaxSocks
    <3>1. LastSock \in 0 .. MaxSocks
      BY <1>0, LastSockIs
    <3> QED BY <3>1, <1>0, <1>10, UdpAssumption DEF TunnelFails, ConnectTunnel, UdpPlainTypes
  <2>5. assoc' \in [Assocs -> AssocType]
    BY <1>0, <2>1 DEF UdpPlainTypes
  <2> QED BY <2>1, <2>3, <2>4, <2>5, PlacesKeep
<1>11. CASE UNCHANGED udpVars
  <2>1. UNCHANGED <<ukind, sock, assoc, connMap, mapSize, reader, stopped>>
    BY <1>11 DEF udpVars
  <2> QED BY <1>0, <2>1, PlacesKeep DEF UdpPlainTypes
<1> QED BY <1>3, <1>4, <1>5, <1>6, <1>7, <1>8, <1>9, <1>10, <1>11 DEF UdpNext

\* At the start nobody was heard of.
LEMMA UdpStarts == UdpInit => UdpInv
<1> SUFFICES ASSUME UdpInit PROVE UdpInv
  OBVIOUS
<1>1. NoAssoc \in AssocType
  BY NoAssocTyped
<1>2. UdpPlainTypes
  <2>1. sock \in 0 .. MaxSocks
    BY UdpAssumption DEF UdpInit
  <2>2. reader \in [pc : {"read", "set", "connect", "ended"}, a : 0 .. MaxAssoc]
    BY UdpAssumption DEF UdpInit, Reading
  <2>3. connMap \in [Peers -> 0 .. MaxAssoc]
    BY UdpAssumption DEF UdpInit
  <2>4. assoc \in [Assocs -> AssocType]
    BY <1>1 DEF UdpInit
  <2>5. stopped \in BOOLEAN
    BY DEF UdpInit
  <2>6. ukind \in {"udp", "ftcp", "rudp"}
    BY DEF UdpInit
  <2> QED BY <2>1, <2>2, <2>3, <2>4, <2>5, <2>6 DEF UdpPlainTypes
<1>3. MapInv
  <2>1. reader.pc # "set"
    BY DEF UdpInit, Reading
  <2> QED BY <2>1 DEF UdpInit, MapInv, NoAssoc
<1>4. WasSet = {} /\ WasClosed = {}
  BY DEF UdpInit, WasSet, WasClosed, NoAssoc
<1>5. SizeInv
  BY <1>4, FS_EmptySet DEF SizeInv, UdpInit
<1> QED BY <1>2, <1>3, <1>5 DEF UdpInv

\* While the invariant holds a connection that was closed is not in the map.
LEMMA UdpMeans == UdpInv => UdpTypeOK /\ ClosedIsUnmapped
<1> SUFFICES ASSUME UdpInv PROVE UdpTypeOK /\ ClosedIsUnmapped
  OBVIOUS
<1>1. mapSize \in -MaxAssoc .. MaxAssoc
  BY SizeTyped DEF UdpInv
<1>2. UdpTypeOK
  BY <1>1 DEF UdpInv, UdpPlainTypes, UdpTypeOK, AssocType
<1>3. ClosedIsUnmapped
  BY DEF UdpInv, MapInv, Usable, ClosedIsUnmapped
<1> QED BY <1>2, <1>3

\* For any number of senders, sockets and queued connections: what the map of a
\* listener holds is open, unless its connection was closed before it got there.
THEOREM ClosedIsUnmappedHolds == UdpSpec => [](UdpTypeOK /\ ClosedIsUnmapped)
<1>1. UdpInit => UdpInv
  BY UdpStarts
<1>2. UdpInv /\ [UdpNext]_udpVars => UdpInv'
  BY UdpStep
<1>3. UdpInv => UdpTypeOK /\ ClosedIsUnmapped
  BY UdpMeans
<1> QED BY <1>1, <1>2, <1>3, PTL DEF UdpSpec

--------------------------------------------------------------------------------
(* Reloading the list of peers. *)

\* The part of the setup the file of peers does not change, and where Reload is.
PeersInv ==
  /\ PeersTypeOK
  /\ peerSetup \in [room : 0 .. MaxNodes, peers : [Configs -> 0 .. MaxNodes], valid : [Configs -> BOOLEAN]]
  /\ reloading # "idle" => config \in Configs

\* Without room behind the base nodes, and files that are valid.
Plain == peerSetup.room = 0 /\ \A v \in Configs : peerSetup.valid[v]

\* The lists that run are those of the nodes in use, and between ParseNodes and
\* StopReplaced those of the nodes to be used or replaced as well; versions grow.
ListsInv ==
  Plain =>
    /\ \A g \in {group, replaced} : g.array = "base" => g.count = 0
    /\ group.version <= config
    /\ reloading \in {"idle", "parse"} => listRuns = NodesOf(group)
    /\ reloading \in {"parse", "set"} => group.version < config
    /\ reloading = "set" =>
         listRuns = NodesOf(group) \cup {<<config, i>> : i \in 1 .. peerSetup.peers[config]}
    /\ reloading = "stop" => /\ listRuns = NodesOf(replaced) \cup NodesOf(group)
                             /\ replaced.version < group.version

\* Reloading keeps the types, and the setup as it is.
LEMMA PeersTypes == PeersInv /\ [PeersNext]_peerVars => PeersInv'
<1> SUFFICES ASSUME PeersInv, [PeersNext]_peerVars PROVE PeersInv'
  OBVIOUS
<1> USE PeersAssumption DEF PeersInv, PeersTypeOK, Configs
<1>1. CASE SetSelector
  BY <1>1 DEF SetSelector
<1>2. CASE ParseNodes
  <2>1. config \in Configs /\ peerSetup.peers[config] \in 0 .. MaxNodes /\ peerSetup' = peerSetup
        /\ reloading' \in {"set", "idle"}
    BY <1>2 DEF ParseNodes
  <2>2. \A n \in Int : \A i \in 1 .. MaxNodes : Appended(n)[i] \in 0 .. MaxConfigs
    BY <2>1 DEF Appended
  <2>3. \A i \in 1 .. MaxNodes : slots'[i] \in 0 .. MaxConfigs
    BY <1>2, <2>1, <2>2 DEF ParseNodes
  <2>4. listRuns' \subseteq Configs \X (1 .. MaxNodes)
    BY SMTT(30), <1>2, <2>1 DEF ParseNodes
  <2> QED BY <1>2, <2>1, <2>3, <2>4 DEF ParseNodes
<1>3. CASE SetNodes
  <2>1. config \in Configs /\ peerSetup.peers[config] \in 0 .. MaxNodes
    BY <1>3 DEF SetNodes
  <2>2. group' \in [array : {"own", "base"}, version : 0 .. MaxConfigs, count : 0 .. MaxNodes]
    BY <1>3, <2>1 DEF SetNodes, NewList
  <2> QED BY <1>3, <2>2 DEF SetNodes
<1>4. CASE StopReplaced
  BY <1>4 DEF StopReplaced
<1>5. CASE StopPeers
  BY <1>5 DEF StopPeers
<1>6. CASE UNCHANGED peerVars
  BY <1>6 DEF peerVars
<1> QED BY <1>1, <1>2, <1>3, <1>4, <1>5, <1>6 DEF PeersNext

\* A list of its own shows its version's peers, an empty one nothing.
LEMMA NodesOfPlain ==
  ASSUME NEW g, g.array = "base" => g.count = 0
  PROVE  NodesOf(g) = {<<g.version, i>> : i \in 1 .. g.count}
<1>1. CASE g.array = "base"
  <2>1. 1 .. g.count = {}
    BY <1>1
  <2> QED BY <2>1 DEF NodesOf
<1>2. CASE g.array # "base"
  BY <1>2 DEF NodesOf, Node
<1> QED BY <1>1, <1>2

\* Every step of a reload keeps the lists that run in step with the nodes.
LEMMA ListsStep == PeersInv /\ ListsInv /\ [PeersNext]_peerVars => ListsInv'
<1> SUFFICES ASSUME PeersInv, ListsInv, [PeersNext]_peerVars, Plain' PROVE ListsInv'
  BY DEF ListsInv
<1>1. Plain /\ peerSetup' = peerSetup
  BY DEF Plain, PeersNext, SetSelector, ParseNodes, SetNodes, StopReplaced, StopPeers, peerVars
<1>2. /\ \A g \in {group, replaced} : g.array = "base" => g.count = 0
      /\ NodesOf(group) = {<<group.version, i>> : i \in 1 .. group.count}
      /\ NodesOf(replaced) = {<<replaced.version, i>> : i \in 1 .. replaced.count}
      /\ group.version \in Int /\ replaced.version \in Int /\ config \in Int
  BY <1>1, NodesOfPlain, PeersAssumption DEF ListsInv, PeersInv, PeersTypeOK
<1> DEFINE Keeps == group' = group /\ replaced' = replaced
<1>3. ASSUME Keeps PROVE NodesOf(group)' = NodesOf(group) /\ NodesOf(replaced)' = NodesOf(replaced)
  <2>1. NodesOf(group)' = {<<group.version, i>> : i \in 1 .. group.count}
    BY <1>2, <1>3 DEF NodesOf, Node
  <2>2. NodesOf(replaced)' = {<<replaced.version, i>> : i \in 1 .. replaced.count}
    BY <1>2, <1>3 DEF NodesOf, Node
  <2> QED BY <1>2, <2>1, <2>2
<1>4. CASE SetSelector
  BY <1>1, <1>2, <1>3, <1>4, PeersAssumption DEF SetSelector, ListsInv
<1>5. CASE ParseNodes
  <2>1. config \in Configs /\ peerSetup.valid[config]
    BY <1>1, <1>5 DEF ParseNodes, PeersInv, Plain
  <2> QED BY <1>1, <1>2, <1>3, <1>5, <2>1 DEF ParseNodes, ListsInv
<1>6. CASE SetNodes
  <2>1. /\ replaced' = group /\ group' = NewList(config, peerSetup.peers[config])
        /\ reloading' = "stop" /\ UNCHANGED <<config, slots, listRuns>>
    BY <1>6 DEF SetNodes
  <2>2. config \in Configs /\ peerSetup.peers[config] \in 0 .. MaxNodes
    BY <1>6 DEF SetNodes, PeersInv
  <2>3. /\ group'.version = config /\ group'.count = peerSetup.peers[config]
        /\ group'.array = "base" => group'.count = 0
    BY <1>1, <2>1, <2>2, PeersAssumption DEF NewList, Plain
  <2>4. NodesOf(group)' = {<<config, i>> : i \in 1 .. peerSetup.peers[config]}
    <3>1. NodesOf(group') = {<<group'.version, i>> : i \in 1 .. group'.count}
      BY <2>3, NodesOfPlain
    <3>2. NodesOf(group)' = NodesOf(group')
      BY <2>1 DEF NodesOf, Node
    <3> QED BY <2>3, <3>1, <3>2
  <2>5. NodesOf(replaced)' = NodesOf(group)
    BY <2>1 DEF NodesOf, Node
  <2> QED BY <1>1, <1>2, <1>6, <2>1, <2>3, <2>4, <2>5 DEF ListsInv, SetNodes
<1>7. CASE StopReplaced
  <2>1. NodesOf(replaced) \cap NodesOf(group) = {}
    BY <1>1, <1>2, <1>7 DEF ListsInv, StopReplaced
  <2> QED BY <1>1, <1>2, <1>3, <1>7, <2>1 DEF StopReplaced, ListsInv
<1>8. CASE StopPeers
  BY <1>1, <1>2, <1>3, <1>8 DEF StopPeers, ListsInv
<1>9. CASE UNCHANGED peerVars
  BY <1>1, <1>2, <1>3, <1>9 DEF peerVars, ListsInv
<1> QED BY <1>4, <1>5, <1>6, <1>7, <1>8, <1>9 DEF PeersNext

\* Both invariants hold at the start, and every step keeps them.
LEMMA PeersInductive ==
  /\ PeersInit => PeersInv /\ ListsInv
  /\ PeersInv /\ ListsInv /\ [PeersNext]_peerVars => (PeersInv /\ ListsInv)'
<1>1. ASSUME PeersInit PROVE PeersInv /\ ListsInv
  <2>1. PeersInv
    <3>1. NoPeers \in [array : {"own", "base"}, version : 0 .. MaxConfigs, count : 0 .. MaxNodes]
      BY PeersAssumption DEF NoPeers
    <3>2. \A i \in 1 .. MaxNodes : slots[i] \in 0 .. MaxConfigs
      BY <1>1, PeersAssumption DEF PeersInit
    <3>3. PeersTypeOK
      <4>1. peersStopped \in BOOLEAN /\ reloading = "idle"
        BY <1>1 DEF PeersInit
      <4>2. listRuns \subseteq Configs \X (1 .. MaxNodes) /\ selector = 0 /\ config = 0
            /\ group = NoPeers /\ replaced = NoPeers
        BY <1>1 DEF PeersInit
      <4> QED BY <3>1, <3>2, <4>1, <4>2, PeersAssumption DEF PeersTypeOK
    <3> QED BY <1>1, <3>3 DEF PeersInit, PeersInv
  <2>2. NodesOf(NoPeers) = {}
    BY DEF NodesOf, NoPeers
  <2> QED BY <1>1, <2>1, <2>2, PeersAssumption DEF PeersInit, ListsInv, NoPeers
<1> QED BY <1>1, PeersTypes, ListsStep

\* For any number of versions and nodes: when reloading is at rest, the lists
\* whose periodic update runs are those of the nodes in use and no others.
THEOREM ListsOfPeersRunHolds == PeersSpec => [](PeersTypeOK /\ ListsOfPeersRun)
<1>1. PeersInv /\ ListsInv => PeersTypeOK /\ ListsOfPeersRun
  BY DEF PeersInv, ListsInv, ListsOfPeersRun, Plain
<1> QED BY <1>1, PeersInductive, PTL DEF PeersSpec

--------------------------------------------------------------------------------
(* Choosing the nodes of a chain, and trying again. *)

\* Where a connection is on its way.
RoutePcs == {"target", "route", "hop", "connect", "joined", "failed", "refused"}
\* What the groups note of the failures of their nodes.
Marks == [RouteNodes -> [fails : 0 .. FailLimit + 1, recent : BOOLEAN]]
\* The nodes of a chain a connection can be sent through.
Routes == {<<>>} \cup {<<a>> : a \in GroupNodes(1)} \cup {<<a, b>> : a \in GroupNodes(1), b \in GroupNodes(2)}
\* A connection: its tries, and the route it is on.
ForwardType ==
  [pc : RoutePcs, tries : 0 .. RouteTries, dials : 0 .. RouteTries, target : RouteNodes \cup {<<>>},
   route : Routes, hop : Nat]

\* A connection that is under way has a target and a try left, on a hop also a
\* node of its route.
UnderWay(f) ==
  /\ f.pc = "target" => f.dials = 0
  /\ f.pc \in {"target", "route"} => f.route = <<>>
  /\ f.pc \in {"route", "hop", "connect"} => f.target \in GroupNodes(TargetGroup) /\ f.dials < DialsOf
  /\ f.pc = "hop" => f.route # <<>> /\ f.hop \in 1 .. Len(f.route)
  /\ f.pc \in {"target", "route", "hop", "connect"} => f.tries < TriesOf
  /\ setup.handler = "rtcp" => f.pc \notin {"route", "hop"}
\* The types, and that of each connection under way.
RouteTypes ==
  /\ setup \in [handler : {"tcp", "udp", "rtcp"}, strategy : {"fifo", "round", "random"},
                bypass : {0, 2}, mux : BOOLEAN]
  /\ setup.handler # "tcp" => setup.bypass = 0 /\ ~setup.mux
  /\ up \subseteq RouteNodes /\ mark \in Marks
  /\ turn \in [1 .. TargetGroup -> 0 .. Period - 1]
  /\ session \in BOOLEAN /\ calm \in BOOLEAN
  /\ fwd \in [Forwards -> ForwardType] /\ \A w \in Forwards : UnderWay(fwd[w])

\* The nodes of some groups that do not work and are marked dead.
Blamed(m, n) == m[n].fails >= 1 /\ m[n].recent
\* Those of some groups.
BlamedOf(m, gs) == {n \in Broken(gs) : Blamed(m, n)}
\* The nodes a connection goes through.
OnRoute(f) == {f.route[i] : i \in 1 .. Len(f.route)}

\* When a connection may count on its tries.
Promised == MarkedForGood /\ setup.handler # "udp" /\ (\A g \in 1 .. TargetGroup : Works(g)) /\ Enough

\* No working node is marked, but where it is the only one; and every try, and
\* for a target that works every dial, was lost to another node.
Fares(f, m) ==
  /\ f.pc \notin {"failed", "refused"}
  /\ f.pc = "target" => f.tries <= Cardinality(BlamedOf(m, {TargetGroup}))
  /\ f.pc \in {"route", "hop", "connect"} =>
       f.tries <= Cardinality(BlamedOf(m, {TargetGroup}) \ {f.target})
  /\ f.pc \in {"route", "hop", "connect"} /\ f.target \in up =>
       f.dials <= Cardinality(BlamedOf(m, {1, 2}) \ OnRoute(f))
\* No working node of a group with a choice is marked dead.
GoodUnmarked(m) == \A n \in up : GroupSize[n[1]] > 1 => ~Blamed(m, n)
\* All of it, of the marks and the connections.
Faring == GoodUnmarked(mark) /\ \A w \in Forwards : Fares(fwd[w], mark)

\* What every step keeps; of the tries only when the chain promises anything.
RouteInv == RouteTypes /\ (Promised => Faring)

\* The groups and their nodes.
LEMMA GroupsAre ==
  /\ 1 .. TargetGroup = {1, 2, 3} /\ TargetGroup = 3
  /\ GroupSize[1] = FirstNodes /\ GroupSize[2] = LastNodes /\ GroupSize[3] = Targets
  /\ \A g \in {1, 2, 3} : /\ GroupNodes(g) \subseteq RouteNodes
                          /\ GroupSize[g] \in Nat \ {0} /\ IsFiniteSet(GroupNodes(g))
                          /\ \A n \in GroupNodes(g) : n[1] = g
  /\ RouteNodes = GroupNodes(1) \cup GroupNodes(2) \cup GroupNodes(3)
  /\ IsFiniteSet(RouteNodes)
<1>1. TargetGroup = 3 /\ 1 .. TargetGroup = {1, 2, 3}
  BY DEF TargetGroup
<1>2. GroupSize[1] = FirstNodes /\ GroupSize[2] = LastNodes /\ GroupSize[3] = Targets
  BY DEF GroupSize
<1>3. \A g \in {1, 2, 3} : GroupSize[g] \in Nat \ {0}
  BY <1>2, RouteAssumption
<1>4. RouteNodes = GroupNodes(1) \cup GroupNodes(2) \cup GroupNodes(3)
  BY <1>1 DEF RouteNodes
<1>5. ASSUME NEW g \in {1, 2, 3} PROVE IsFiniteSet(GroupNodes(g)) /\ \A n \in GroupNodes(g) : n[1] = g
  <2>1. PICK k \in Nat : k = GroupSize[g]
    BY <1>3
  <2>2. IsFiniteSet(1 .. k)
    BY FS_Interval
  <2>3. IsFiniteSet({<<g, i>> : i \in 1 .. k})
    <3> DEFINE T == {<<g, i>> : i \in 1 .. k}
               at == [i \in 1 .. k |-> <<g, i>>]
    <3>1. at \in Surjection(1 .. k, T)
      BY Fun_IsSurj
    <3> QED BY <2>2, <3>1, FS_Surjection
  <2> QED BY <2>1, <2>3 DEF GroupNodes
<1>6. IsFiniteSet(RouteNodes)
  BY <1>4, <1>5, FS_Union
<1> QED BY <1>1, <1>2, <1>3, <1>4, <1>5, <1>6

\* Sets of broken nodes are finite, and a marked node more counts one more.
LEMMA BlamedCount ==
  ASSUME NEW gs \in SUBSET {1, 2, 3}, NEW m, NEW S
  PROVE  /\ IsFiniteSet(Broken(gs)) /\ Cardinality(Broken(gs)) \in Nat
         /\ IsFiniteSet(BlamedOf(m, gs)) /\ Cardinality(BlamedOf(m, gs)) \in Nat
         /\ Cardinality(BlamedOf(m, gs)) <= Cardinality(Broken(gs))
         /\ IsFiniteSet(BlamedOf(m, gs) \ S) /\ Cardinality(BlamedOf(m, gs) \ S) \in Nat
<1>1. Broken(gs) \in SUBSET RouteNodes
  BY DEF Broken
<1>2. IsFiniteSet(Broken(gs))
  BY <1>1, GroupsAre, FS_Subset
<1>3. BlamedOf(m, gs) \in SUBSET Broken(gs)
  BY DEF BlamedOf
<1>4. IsFiniteSet(BlamedOf(m, gs)) /\ Cardinality(BlamedOf(m, gs)) <= Cardinality(Broken(gs))
  BY <1>2, <1>3, FS_Subset
<1>5. BlamedOf(m, gs) \ S \in SUBSET BlamedOf(m, gs)
  OBVIOUS
<1>6. IsFiniteSet(BlamedOf(m, gs) \ S)
  BY <1>4, <1>5, FS_Subset
<1> QED BY <1>2, <1>4, <1>6, FS_CardinalityType

\* More are blamed with every failure, and one more where it is a new one.
LEMMA BlamedGrow ==
  ASSUME NEW gs \in SUBSET {1, 2, 3}, NEW m, NEW k, NEW S, \A n \in Broken(gs) : Blamed(m, n) => Blamed(k, n)
  PROVE  /\ Cardinality(BlamedOf(m, gs) \ S) <= Cardinality(BlamedOf(k, gs) \ S)
         /\ Cardinality(BlamedOf(m, gs)) <= Cardinality(BlamedOf(k, gs))
         /\ Cardinality(BlamedOf(m, gs) \ S) <= Cardinality(BlamedOf(k, gs))
         /\ \A n \in Broken(gs) : n \in S /\ Blamed(k, n) =>
              Cardinality(BlamedOf(m, gs) \ S) + 1 <= Cardinality(BlamedOf(k, gs))
<1>1. PICK M : M = BlamedOf(m, gs) \ S /\ IsFiniteSet(M) /\ Cardinality(M) \in Nat
  BY BlamedCount
<1>2. PICK K : K = BlamedOf(k, gs) /\ IsFiniteSet(K) /\ Cardinality(K) \in Nat
  BY BlamedCount
<1>3. BlamedOf(m, gs) \in SUBSET K /\ M \in SUBSET K /\ M \in SUBSET (K \ S)
  BY <1>1, <1>2 DEF BlamedOf
<1>4. IsFiniteSet(K \ S)
  BY <1>2, BlamedCount
<1>5. /\ Cardinality(M) <= Cardinality(K \ S) /\ Cardinality(M) <= Cardinality(K)
      /\ Cardinality(BlamedOf(m, gs)) <= Cardinality(K)
  BY <1>2, <1>3, <1>4, FS_Subset
<1>6. ASSUME NEW n \in Broken(gs), n \in S, Blamed(k, n)
      PROVE  Cardinality(M) + 1 <= Cardinality(K)
  <2>1. n \notin M /\ n \in K
    BY <1>1, <1>2, <1>6 DEF BlamedOf
  <2>2. Cardinality(M \cup {n}) = Cardinality(M) + 1
    BY <1>1, <2>1, FS_AddElement
  <2>3. M \cup {n} \in SUBSET K
    BY <1>3, <2>1
  <2>4. Cardinality(M \cup {n}) <= Cardinality(K)
    BY <1>2, <2>3, FS_Subset
  <2> QED BY <2>2, <2>4
<1> QED BY <1>1, <1>2, <1>5, <1>6

\* The marks of a node that fails or works.
LEMMA MarksAre ==
  ASSUME mark \in Marks
  PROVE  /\ \A n \in RouteNodes : Dead(n) \in [fails : 0 .. FailLimit + 1, recent : BOOLEAN]
         /\ Unmarked \in [fails : 0 .. FailLimit + 1, recent : BOOLEAN]
         /\ \A n \in RouteNodes : FailLimit = 1 => Dead(n).fails >= 1 /\ Dead(n).recent
         /\ Unmarked.fails = 0
<1>1. TRUE \in BOOLEAN /\ FALSE \in BOOLEAN /\ FailLimit \in Nat \ {0}
  BY RouteAssumption
<1>2. \A n \in RouteNodes : mark[n].fails \in 0 .. FailLimit + 1
  BY DEF Marks
<1>3. \A n \in RouteNodes : (IF mark[n].fails <= FailLimit THEN mark[n].fails + 1 ELSE FailLimit + 1) \in 1 .. FailLimit + 1
  BY <1>1, <1>2
<1>4. \A n \in RouteNodes : Dead(n).fails \in 1 .. FailLimit + 1 /\ Dead(n).recent
                            /\ Dead(n) \in [fails : 0 .. FailLimit + 1, recent : BOOLEAN]
  BY <1>1, <1>3 DEF Dead
<1>5. Unmarked \in [fails : 0 .. FailLimit + 1, recent : BOOLEAN] /\ Unmarked.fails = 0
  BY <1>1 DEF Unmarked
<1> QED BY <1>1, <1>4, <1>5

\* What it takes for a promise to hold was so one step before.
LEMMA PromisedBefore ==
  ASSUME UNCHANGED setup, calm' => calm /\ up' = up, Promised'
  PROVE  Promised /\ calm /\ up' = up
<1>1. calm /\ up' = up
  BY DEF Promised, MarkedForGood
<1>2. Promised
  BY <1>1 DEF Promised, MarkedForGood, Works, Enough, Broken
<1> QED BY <1>1, <1>2

\* A promise names a working node in each group, and leaves it unmarked.
LEMMA PromisedMeans ==
  ASSUME RouteTypes, Promised, GoodUnmarked(mark)
  PROVE  /\ FailLimit = 1 /\ (setup.mux => LastNodes = 1) /\ setup.handler \in {"tcp", "rtcp"}
         /\ \A g \in {1, 2, 3} : Filter(g) # {}
         /\ \A g \in {1, 2, 3} : \A n \in Filter(g) : n \notin up => ~Blamed(mark, n)
<1>1. FailLimit = 1 /\ (setup.mux => LastNodes = 1) /\ setup.handler # "udp" /\ \A g \in {1, 2, 3} : Works(g)
  BY GroupsAre DEF Promised, MarkedForGood
<1>2. setup.handler \in {"tcp", "rtcp"}
  BY <1>1 DEF RouteTypes
<1>3. ASSUME NEW g \in {1, 2, 3} PROVE Filter(g) # {}
  <2>1. PICK n \in GroupNodes(g) : n \in up
    BY <1>1 DEF Works
  <2>2. n \in RouteNodes /\ n[1] = g /\ GroupSize[g] \in Nat \ {0}
    BY GroupsAre
  <2>3. mark[n].fails \in 0 .. 2 /\ (GroupSize[g] > 1 => ~(mark[n].fails >= 1 /\ mark[n].recent))
    BY <1>1, <2>1, <2>2 DEF GoodUnmarked, Blamed, RouteTypes, Marks
  <2>4. n \in Filter(g)
    BY <1>1, <2>2, <2>3 DEF Filter
  <2> QED BY <2>4
<1>4. ASSUME NEW g \in {1, 2, 3}, NEW n \in Filter(g), n \notin up PROVE ~Blamed(mark, n)
  <2>1. GroupSize[g] # 1
    <3>1. ASSUME GroupSize[g] = 1 PROVE FALSE
      <4>1. GroupNodes(g) = {<<g, 1>>}
        BY <3>1 DEF GroupNodes
      <4> QED BY <1>1, <1>4, <4>1 DEF Works, Filter
    <3> QED BY <3>1
  <2>2. mark[n].fails < 1 \/ ~mark[n].recent
    BY <1>1, <1>4, <2>1 DEF Filter
  <2>3. n \in RouteNodes
    BY GroupsAre, <1>4 DEF Filter
  <2>4. mark[n].fails \in 0 .. 2
    BY <1>1, <2>3 DEF RouteTypes, Marks
  <2> QED BY <2>2, <2>4 DEF Blamed
<1> QED BY <1>1, <1>2, <1>3, <1>4

\* What a strategy returns was not filtered out.
LEMMA ApplyChooses == ASSUME RouteTypes, NEW g PROVE Apply(g) \subseteq Filter(g) /\ Filter(g) \subseteq GroupNodes(g)
<1>1. setup.strategy \in {"fifo", "round", "random"}
  BY DEF RouteTypes
<1> QED BY <1>1 DEF Apply, Filter

\* How often a dial and a handler try.
LEMMA TriesAre ==
  /\ RouteTries \in Nat \ {0} /\ DialsOf \in 1 .. RouteTries /\ TriesOf \in 1 .. RouteTries
  /\ setup.handler = "tcp" => DialsOf = RouteTries
  /\ setup.handler # "tcp" => DialsOf = 1
  /\ setup.handler # "udp" => TriesOf = RouteTries
BY RouteAssumption DEF DialsOf, TriesOf

\* A new state of one connection.
LEMMA PutKeepsTypes ==
  ASSUME RouteTypes, NEW w \in Forwards, NEW g \in ForwardType, UnderWay(g), Put(w, g), mark' \in Marks,
         UNCHANGED <<setup, up, calm>>, turn' \in [1 .. TargetGroup -> 0 .. Period - 1], session' \in BOOLEAN
  PROVE  /\ RouteTypes' /\ fwd'[w] = g /\ \A v \in Forwards : v # w => fwd'[v] = fwd[v]
<1>1. fwd' = [fwd EXCEPT ![w] = g] /\ fwd \in [Forwards -> ForwardType]
  BY DEF Put, RouteTypes
<1>2. fwd' \in [Forwards -> ForwardType] /\ fwd'[w] = g /\ \A v \in Forwards : v # w => fwd'[v] = fwd[v]
  BY <1>1
<1>3. \A v \in Forwards : UnderWay(fwd'[v])
  BY <1>2 DEF RouteTypes
<1>4. \A v \in Forwards : UnderWay(fwd[v])'
  BY <1>3 DEF UnderWay, DialsOf, TriesOf
<1> QED BY <1>2, <1>4 DEF RouteTypes

\* What one connection loses, the others do not.
LEMMA PutKeepsFaring ==
  ASSUME RouteTypes, Promised => Faring, NEW w \in Forwards, NEW g, UNCHANGED <<setup, up, calm>>,
         fwd'[w] = g, \A v \in Forwards : v # w => fwd'[v] = fwd[v],
         Promised => /\ \A n \in RouteNodes \ up : Blamed(mark, n) => Blamed(mark', n)
                     /\ GoodUnmarked(mark') /\ Fares(g, mark')
  PROVE  (Promised => Faring)'
<1> SUFFICES ASSUME Promised' PROVE Faring'
  OBVIOUS
<1>1. Promised /\ Faring
  BY PromisedBefore
<1>2. \A gs, S : gs \in SUBSET {1, 2, 3} =>
        /\ Cardinality(BlamedOf(mark, gs) \ S) <= Cardinality(BlamedOf(mark', gs) \ S)
        /\ Cardinality(BlamedOf(mark, gs)) <= Cardinality(BlamedOf(mark', gs))
  <2> SUFFICES ASSUME NEW gs \in SUBSET {1, 2, 3}, NEW S
               PROVE  /\ Cardinality(BlamedOf(mark, gs) \ S) <= Cardinality(BlamedOf(mark', gs) \ S)
                      /\ Cardinality(BlamedOf(mark, gs)) <= Cardinality(BlamedOf(mark', gs))
    OBVIOUS
  <2>1. \A n \in Broken(gs) : Blamed(mark, n) => Blamed(mark', n)
    BY <1>1 DEF Broken
  <2> QED BY <2>1, BlamedGrow
<1>3. \A v \in Forwards : Fares(fwd'[v], mark')
  <2> SUFFICES ASSUME NEW v \in Forwards, v # w PROVE Fares(fwd'[v], mark')
    BY <1>1
  <2>1. PICK f \in ForwardType : f = fwd[v] /\ fwd'[v] = f /\ Fares(f, mark)
    BY <1>1 DEF Faring, RouteTypes
  <2>2. {TargetGroup} \in SUBSET {1, 2, 3} /\ {1, 2} \in SUBSET {1, 2, 3}
    BY GroupsAre
  <2>3. PICK a1 \in Nat, a2 \in Nat, b1 \in Nat, b2 \in Nat, c1 \in Nat, c2 \in Nat :
          /\ a1 = Cardinality(BlamedOf(mark, {TargetGroup})) /\ a2 = Cardinality(BlamedOf(mark', {TargetGroup}))
          /\ b1 = Cardinality(BlamedOf(mark, {TargetGroup}) \ {f.target})
          /\ b2 = Cardinality(BlamedOf(mark', {TargetGroup}) \ {f.target})
          /\ c1 = Cardinality(BlamedOf(mark, {1, 2}) \ OnRoute(f))
          /\ c2 = Cardinality(BlamedOf(mark', {1, 2}) \ OnRoute(f))
    BY <2>2, BlamedCount
  <2>4. a1 <= a2 /\ b1 <= b2 /\ c1 <= c2
    BY <1>2, <2>2, <2>3
  <2>5. f.tries \in Nat /\ f.dials \in Nat
    BY TriesAre DEF ForwardType
  <2> QED BY <2>1, <2>3, <2>4, <2>5 DEF Fares
<1>4. Faring' <=> GoodUnmarked(mark') /\ \A v \in Forwards : Fares(fwd'[v], mark')
  BY DEF Faring, GoodUnmarked, Fares, BlamedOf, Broken, Blamed
<1> QED BY <1>1, <1>3, <1>4

\* A failed dial, with the marks in m: another one starts, or another try, for
\* each node that failed was not yet blamed.
LEMMA FailedDial ==
  ASSUME RouteTypes, Promised => Faring, NEW w \in Forwards, NEW m \in Marks, DialFailed(w, m),
         fwd[w].pc \in {"route", "hop", "connect"},
         UNCHANGED <<setup, up, calm>>, turn' \in [1 .. TargetGroup -> 0 .. Period - 1], session' \in BOOLEAN,
         Promised => /\ GoodUnmarked(m)
                     /\ \A n \in RouteNodes \ up : Blamed(mark, n) => Blamed(m, n)
                     /\ fwd[w].target \in up =>
                          setup.handler = "tcp" /\ fwd[w].dials + 1 <= Cardinality(BlamedOf(m, {1, 2}))
  PROVE  RouteInv'
<1>1. PICK f \in ForwardType : /\ f = fwd[w] /\ UnderWay(f) /\ f.pc \in {"route", "hop", "connect"}
  BY DEF RouteTypes
<1>2. /\ f.tries \in Nat /\ f.dials \in Nat /\ f.target \in GroupNodes(TargetGroup) /\ f.target \in RouteNodes
      /\ f.target[1] = 3 /\ f.dials < DialsOf /\ f.tries < TriesOf /\ f.hop \in Nat /\ f.route \in Routes
  BY <1>1, GroupsAre, TriesAre DEF ForwardType, UnderWay
<1>3. {TargetGroup} \in SUBSET {1, 2, 3} /\ {1, 2} \in SUBSET {1, 2, 3}
  BY GroupsAre
<1>4. Promised => Fares(f, mark)
  BY <1>1 DEF Faring
<1>5. CASE f.dials + 1 < DialsOf
  <2>1. PICK g : g = [f EXCEPT !.pc = "route", !.dials = @ + 1, !.route = <<>>, !.hop = 1]
    OBVIOUS
  <2>2. Put(w, g) /\ mark' = m
    BY <1>1, <1>5, <2>1 DEF DialFailed
  <2>3. /\ g.pc = "route" /\ g.dials = f.dials + 1 /\ g.route = <<>> /\ g.tries = f.tries /\ g.target = f.target
        /\ g.hop = 1
    BY <1>1, <2>1 DEF ForwardType
  <2>4. g \in ForwardType
    <3>1. <<>> \in Routes /\ f.dials + 1 \in 0 .. RouteTries /\ 1 \in Nat /\ "route" \in RoutePcs
      BY <1>2, <1>5, TriesAre DEF Routes, RoutePcs
    <3> QED BY <1>1, <2>1, <3>1 DEF ForwardType
  <2>5. setup.handler # "rtcp"
    BY <1>2, <1>5, TriesAre
  <2>6. UnderWay(g)
    BY <1>2, <1>5, <2>3, <2>5 DEF UnderWay
  <2>7. RouteTypes' /\ fwd'[w] = g /\ \A v \in Forwards : v # w => fwd'[v] = fwd[v]
    BY <2>2, <2>4, <2>6, PutKeepsTypes
  <2>8. Promised => Fares(g, m)
    <3> SUFFICES ASSUME Promised PROVE Fares(g, m)
      OBVIOUS
    <3>1. \A n \in Broken({TargetGroup}) : Blamed(mark, n) => Blamed(m, n)
      BY DEF Broken
    <3>2. PICK b1 \in Nat, b2 \in Nat : /\ b1 = Cardinality(BlamedOf(mark, {TargetGroup}) \ {f.target})
                                        /\ b2 = Cardinality(BlamedOf(m, {TargetGroup}) \ {f.target})
      BY <1>3, BlamedCount
    <3>3. b1 <= b2
      BY <1>3, <3>1, <3>2, BlamedGrow
    <3>4. f.tries <= b1
      BY <1>1, <1>4, <3>2 DEF Fares
    <3>5. OnRoute(g) = {}
      BY <2>3 DEF OnRoute
    <3>6. BlamedOf(m, {1, 2}) \ OnRoute(g) = BlamedOf(m, {1, 2})
      BY <3>5
    <3>7. f.target \in up => f.dials + 1 <= Cardinality(BlamedOf(m, {1, 2}))
      BY <1>1
    <3>8. f.tries <= b2
      BY <1>2, <3>3, <3>4
    <3> QED BY <2>3, <3>2, <3>6, <3>7, <3>8 DEF Fares
  <2>9. Promised => \A n \in RouteNodes \ up : Blamed(mark, n) => Blamed(mark', n)
    BY <2>2
  <2>10. (Promised => Faring)'
    <3>1. Promised => GoodUnmarked(mark') /\ Fares(g, mark')
      BY <2>2, <2>8
    <3> QED BY <2>7, <2>9, <3>1, PutKeepsFaring
  <2> QED BY <2>7, <2>10 DEF RouteInv
<1>6. CASE ~(f.dials + 1 < DialsOf)
  <2>1. PICK g : g = [NewForward EXCEPT !.pc = IF f.tries + 1 < TriesOf THEN "target" ELSE "failed",
                                        !.tries = f.tries + 1]
    OBVIOUS
  <2>2. Put(w, g) /\ mark' = [m EXCEPT ![f.target] = Dead(f.target)]
    BY <1>1, <1>6, <2>1 DEF DialFailed
  <2>3. /\ g.pc = (IF f.tries + 1 < TriesOf THEN "target" ELSE "failed") /\ g.tries = f.tries + 1
        /\ g.dials = 0 /\ g.route = <<>> /\ g.target = <<>> /\ g.hop = 1
    BY <2>1 DEF NewForward
  <2>4. g \in ForwardType
    <3>1. /\ <<>> \in Routes /\ f.tries + 1 \in 0 .. RouteTries /\ 0 \in 0 .. RouteTries /\ 1 \in Nat
          /\ "target" \in RoutePcs /\ "failed" \in RoutePcs /\ <<>> \in RouteNodes \cup {<<>>}
      BY <1>2, TriesAre DEF Routes, RoutePcs
    <3>2. g = [pc |-> IF f.tries + 1 < TriesOf THEN "target" ELSE "failed", tries |-> f.tries + 1, dials |-> 0,
               target |-> <<>>, route |-> <<>>, hop |-> 1]
      BY <2>1 DEF NewForward
    <3> QED BY <3>1, <3>2 DEF ForwardType
  <2>5. UnderWay(g)
    BY <1>2, <2>3 DEF UnderWay
  <2>6. mark' \in Marks
    <3>1. mark \in Marks
      BY DEF RouteTypes
    <3>2. Dead(f.target) \in [fails : 0 .. FailLimit + 1, recent : BOOLEAN]
      BY <1>2, <3>1, MarksAre
    <3> QED BY <2>2, <3>2 DEF Marks
  <2>7. RouteTypes' /\ fwd'[w] = g /\ \A v \in Forwards : v # w => fwd'[v] = fwd[v]
    BY <2>2, <2>4, <2>5, <2>6, PutKeepsTypes
  <2>8. ASSUME Promised
        PROVE  /\ \A n \in RouteNodes \ up : Blamed(mark, n) => Blamed(mark', n)
               /\ GoodUnmarked(mark') /\ Fares(g, mark')
    <3>1. f.target \notin up
      <4> SUFFICES ASSUME f.target \in up PROVE FALSE
        OBVIOUS
      <4>1. PICK b \in Nat, c \in Nat : b = Cardinality(BlamedOf(m, {1, 2})) /\ c = Cardinality(Broken({1, 2})) /\ b <= c
        BY <1>3, BlamedCount
      <4>2. f.dials + 1 <= b /\ DialsOf = RouteTries
        BY <1>1, <2>8, <4>1, TriesAre
      <4>3. c < RouteTries
        BY <2>8, <4>1 DEF Promised, Enough
      <4> QED BY <1>2, <1>6, <4>1, <4>2, <4>3, TriesAre
    <3>2. FailLimit = 1 /\ TriesOf = RouteTries
      BY <2>8, TriesAre DEF Promised, MarkedForGood
    <3>3. Blamed(mark', f.target) /\ \A n \in RouteNodes : n # f.target => mark'[n] = m[n]
      BY <1>2, <2>2, <3>2, MarksAre DEF Blamed, Marks, RouteTypes
    <3>4. \A n \in RouteNodes \ up : Blamed(mark, n) => Blamed(mark', n)
      BY <2>8, <3>3 DEF Blamed
    <3>5. GoodUnmarked(mark')
      <4>1. up \subseteq RouteNodes
        BY DEF RouteTypes
      <4> QED BY <2>8, <3>1, <3>3, <4>1 DEF GoodUnmarked, Blamed
    <3>6. f.target \in Broken({TargetGroup})
      BY <1>2, <3>1, GroupsAre DEF Broken
    <3>7. PICK b1 \in Nat, b2 \in Nat, c \in Nat :
            /\ b1 = Cardinality(BlamedOf(mark, {TargetGroup}) \ {f.target})
            /\ b2 = Cardinality(BlamedOf(mark', {TargetGroup})) /\ c = Cardinality(Broken({TargetGroup})) /\ b2 <= c
      BY <1>3, BlamedCount
    <3>8. \A n \in Broken({TargetGroup}) : Blamed(mark, n) => Blamed(mark', n)
      BY <3>4 DEF Broken
    <3>9. b1 + 1 <= b2
      BY <1>3, <3>3, <3>6, <3>7, <3>8, BlamedGrow
    <3>10. f.tries <= b1
      BY <1>1, <1>4, <2>8, <3>7 DEF Fares
    <3>11. c < RouteTries
      BY <2>8, <3>7 DEF Promised, Enough
    <3>12. g.tries <= b2 /\ g.pc = "target"
      BY <1>2, <2>3, <3>2, <3>7, <3>9, <3>10, <3>11, TriesAre
    <3>13. Fares(g, mark')
      BY <3>7, <3>12 DEF Fares
    <3> QED BY <3>4, <3>5, <3>13
  <2>9. (Promised => Faring)'
    BY <2>7, <2>8, PutKeepsFaring
  <2> QED BY <2>7, <2>9 DEF RouteInv
<1> QED BY <1>5, <1>6

\* A route has at most one node of each group, in order.
LEMMA RouteIs ==
  ASSUME NEW r \in Routes
  PROVE  /\ Len(r) \in {0, 1, 2} /\ DOMAIN r = 1 .. Len(r)
         /\ \A i \in 1 .. Len(r) : r[i] \in GroupNodes(i) /\ i \in {1, 2}
<1>1. CASE r = <<>>
  BY <1>1
<1>2. CASE \E a \in GroupNodes(1) : r = <<a>>
  <2>1. PICK a \in GroupNodes(1) : r = <<a>>
    BY <1>2
  <2>2. Len(r) = 1 /\ DOMAIN r = 1 .. 1 /\ r[1] = a
    BY <2>1
  <2>3. \A i \in 1 .. 1 : i = 1
    OBVIOUS
  <2> QED BY <2>2, <2>3
<1>3. CASE \E a \in GroupNodes(1), b \in GroupNodes(2) : r = <<a, b>>
  <2>1. PICK a \in GroupNodes(1), b \in GroupNodes(2) : r = <<a, b>>
    BY <1>3
  <2>2. Len(r) = 2 /\ DOMAIN r = 1 .. 2 /\ r[1] = a /\ r[2] = b
    BY <2>1
  <2>3. \A i \in 1 .. 2 : i = 1 \/ i = 2
    OBVIOUS
  <2> QED BY <2>2, <2>3
<1> QED BY <1>1, <1>2, <1>3 DEF Routes

\* The counters of a strategy stay below their period.
LEMMA TurnsAre == ASSUME RouteTypes, NEW gs PROVE Applied(gs) \in [1 .. TargetGroup -> 0 .. Period - 1]
<1>1. Period \in Nat \ {0}
  <2>1. PICK a \in Nat \ {0}, b \in Nat \ {0}, c \in Nat \ {0} : a = FirstNodes /\ b = LastNodes /\ c = Targets
    BY RouteAssumption
  <2>2. \A x, y \in Nat \ {0} : x * y \in Nat \ {0}
    BY SMT
  <2>3. (a * b) \in Nat \ {0}
    BY <2>2
  <2>4. ((a * b) * c) \in Nat \ {0}
    BY <2>2, <2>3
  <2> QED BY <2>1, <2>4 DEF Period
<1>2. \A g \in 1 .. TargetGroup : turn[g] \in Nat /\ turn[g] \in 0 .. Period - 1
  BY <1>1 DEF RouteTypes
<1>3. \A x \in Nat : (x % Period) \in 0 .. Period - 1
  BY <1>1
<1>4. \A g \in 1 .. TargetGroup : ((turn[g] + 1) % Period) \in 0 .. Period - 1
  BY <1>2, <1>3
<1> QED BY <1>2, <1>4 DEF Applied

\* A connection that takes a target has lost nothing to it.
LEMMA TargetTaken == ASSUME RouteInv, NEW w \in Forwards, TakeTarget(w) PROVE RouteInv'
<1>1. PICK f \in ForwardType : f = fwd[w] /\ UnderWay(f) /\ f.pc = "target"
  BY DEF RouteInv, RouteTypes, TakeTarget
<1>2. RouteTypes /\ (Promised => Faring) /\ UNCHANGED <<setup, up, mark, session, calm>>
  BY DEF RouteInv, TakeTarget
<1>3. mark' \in Marks /\ session' \in BOOLEAN /\ turn \in [1 .. TargetGroup -> 0 .. Period - 1]
  BY <1>2 DEF RouteTypes
<1>4. f.dials = 0 /\ f.route = <<>> /\ f.tries < TriesOf /\ 3 \in {1, 2, 3} /\ TargetGroup = 3
  BY <1>1 DEF UnderWay, TargetGroup
<1>5. CASE Filter(TargetGroup) = {}
  <2>1. PICK g : g = [f EXCEPT !.pc = "refused"]
    OBVIOUS
  <2>2. Put(w, g) /\ UNCHANGED turn
    BY <1>1, <1>5, <2>1 DEF TakeTarget
  <2>3. g \in ForwardType /\ UnderWay(g)
    <3>1. "refused" \in RoutePcs
      BY DEF RoutePcs
    <3> QED BY <1>1, <2>1, <3>1 DEF ForwardType, UnderWay
  <2>4. RouteTypes' /\ fwd'[w] = g /\ \A v \in Forwards : v # w => fwd'[v] = fwd[v]
    BY <1>2, <1>3, <2>2, <2>3, PutKeepsTypes
  <2>5. ~Promised
    BY <1>2, <1>4, <1>5, PromisedMeans DEF Faring
  <2>6. (Promised => Faring)'
    BY <1>2, <2>4, <2>5, PutKeepsFaring
  <2> QED BY <2>4, <2>6 DEF RouteInv
<1>6. CASE Filter(TargetGroup) # {}
  <2>1. PICK n \in Apply(TargetGroup) :
          /\ Put(w, [fwd[w] EXCEPT !.target = n, !.pc = IF setup.handler = "rtcp" THEN "connect" ELSE "route"])
          /\ turn' = Applied({TargetGroup})
    BY <1>6 DEF TakeTarget
  <2>2. PICK g : g = [f EXCEPT !.target = n, !.pc = IF setup.handler = "rtcp" THEN "connect" ELSE "route"]
    OBVIOUS
  <2>3. /\ g.pc = (IF setup.handler = "rtcp" THEN "connect" ELSE "route") /\ g.target = n /\ g.dials = 0
        /\ g.tries = f.tries /\ g.route = <<>>
    BY <1>1, <1>4, <2>2 DEF ForwardType
  <2>4. n \in Filter(TargetGroup) /\ n \in GroupNodes(TargetGroup) /\ n \in RouteNodes
    BY <1>2, <1>4, ApplyChooses, GroupsAre
  <2>5. g \in ForwardType
    <3>1. "connect" \in RoutePcs /\ "route" \in RoutePcs
      BY DEF RoutePcs
    <3> QED BY <1>1, <2>2, <2>4, <3>1 DEF ForwardType
  <2>6. UnderWay(g)
    BY <1>4, <2>3, <2>4, TriesAre DEF UnderWay
  <2>7. RouteTypes' /\ fwd'[w] = g /\ \A v \in Forwards : v # w => fwd'[v] = fwd[v]
    <3>1. turn' \in [1 .. TargetGroup -> 0 .. Period - 1]
      BY <1>2, <2>1, TurnsAre
    <3>2. Put(w, g)
      BY <1>1, <2>1, <2>2
    <3> QED BY <1>2, <1>3, <2>5, <2>6, <3>1, <3>2, PutKeepsTypes
  <2>8. ASSUME Promised PROVE Fares(g, mark)
    <3>1. n \notin BlamedOf(mark, {TargetGroup})
      BY <1>2, <1>4, <2>4, <2>8, PromisedMeans DEF BlamedOf, Broken, Faring
    <3>2. BlamedOf(mark, {TargetGroup}) \ {n} = BlamedOf(mark, {TargetGroup})
      BY <3>1
    <3>3. f.tries <= Cardinality(BlamedOf(mark, {TargetGroup}))
      BY <1>1, <1>2, <2>8 DEF Faring, Fares
    <3>4. {1, 2} \in SUBSET {1, 2, 3}
      OBVIOUS
    <3>5. Cardinality(BlamedOf(mark, {1, 2}) \ OnRoute(g)) \in Nat
      BY <3>4, BlamedCount
    <3>6. g.dials <= Cardinality(BlamedOf(mark, {1, 2}) \ OnRoute(g))
      BY <2>3, <3>5
    <3>7. g.pc \in {"connect", "route"}
      BY <2>3
    <3>8. g.tries <= Cardinality(BlamedOf(mark, {TargetGroup}) \ {g.target})
      BY <2>3, <3>2, <3>3
    <3> QED BY <3>6, <3>7, <3>8 DEF Fares
  <2>9. (Promised => Faring)'
    <3>1. Promised => /\ \A k \in RouteNodes \ up : Blamed(mark, k) => Blamed(mark', k)
                      /\ GoodUnmarked(mark') /\ Fares(g, mark')
      BY <1>2, <2>8 DEF Faring
    <3> QED BY <1>2, <2>7, <3>1, PutKeepsFaring
  <2> QED BY <2>7, <2>9 DEF RouteInv
<1> QED BY <1>5, <1>6

\* A route that is selected has no node that was blamed.
LEMMA RouteSelected == ASSUME RouteInv, NEW w \in Forwards, SelectRoute(w) PROVE RouteInv'
<1>1. PICK f \in ForwardType : f = fwd[w] /\ UnderWay(f) /\ f.pc = "route"
  BY DEF RouteInv, RouteTypes, SelectRoute
<1>2. RouteTypes /\ (Promised => Faring) /\ UNCHANGED <<setup, up, session, calm>>
  BY DEF RouteInv, SelectRoute
<1>3. mark \in Marks /\ session' \in BOOLEAN
  BY <1>2 DEF RouteTypes
<1>4. /\ f.target \in GroupNodes(TargetGroup) /\ f.dials < DialsOf /\ f.tries < TriesOf /\ f.route = <<>>
      /\ setup.handler # "rtcp"
  BY <1>1 DEF UnderWay
<1>5. \A gs : Applied(gs) \in [1 .. TargetGroup -> 0 .. Period - 1]
  BY <1>2, TurnsAre
<1>6. CASE {g \in {1, 2} : Filter(g) = {}} # {}
  <2>1. DialFailed(w, mark) /\ turn' = Applied({1} \ {g \in {1, 2} : Filter(g) = {}})
    BY <1>6 DEF SelectRoute
  <2>2. ~Promised
    BY <1>2, <1>6, PromisedMeans DEF Faring
  <2>3. turn' \in [1 .. TargetGroup -> 0 .. Period - 1]
    BY <1>5, <2>1
  <2>4. fwd[w].pc \in {"route", "hop", "connect"}
    BY <1>1
  <2> QED BY <1>2, <1>3, <2>1, <2>2, <2>3, <2>4, FailedDial
<1>7. CASE {g \in {1, 2} : Filter(g) = {}} = {}
  <2>1. PICK a \in Apply(1), b \in Apply(2) :
          /\ Put(w, [f EXCEPT !.pc = "hop", !.route = IF setup.bypass = 2 THEN <<a>> ELSE <<a, b>>,
                              !.hop = IF setup.mux /\ session /\ setup.bypass # 2 THEN 2 ELSE 1])
          /\ turn' = Applied({1, 2}) /\ UNCHANGED mark
    BY <1>1, <1>7 DEF SelectRoute
  <2>2. PICK r, h : /\ r = (IF setup.bypass = 2 THEN <<a>> ELSE <<a, b>>)
                    /\ h = (IF setup.mux /\ session /\ setup.bypass # 2 THEN 2 ELSE 1)
    OBVIOUS
  <2>3. PICK g : g = [f EXCEPT !.pc = "hop", !.route = r, !.hop = h]
    OBVIOUS
  <2>4. g.pc = "hop" /\ g.route = r /\ g.hop = h /\ g.tries = f.tries /\ g.dials = f.dials /\ g.target = f.target
    BY <1>1, <2>3 DEF ForwardType
  <2>5. a \in Filter(1) /\ b \in Filter(2) /\ a \in GroupNodes(1) /\ b \in GroupNodes(2)
    BY <1>2, ApplyChooses
  <2>6. r \in Routes /\ r # <<>> /\ h \in 1 .. Len(r) /\ h \in Nat
    <3>1. CASE setup.bypass = 2
      BY <2>2, <2>5, <3>1 DEF Routes
    <3>2. CASE setup.bypass # 2
      BY <2>2, <2>5, <3>2 DEF Routes
    <3> QED BY <3>1, <3>2
  <2>7. g \in ForwardType
    <3>1. "hop" \in RoutePcs
      BY DEF RoutePcs
    <3> QED BY <1>1, <2>3, <2>6, <3>1 DEF ForwardType
  <2>8. UnderWay(g)
    BY <1>4, <2>4, <2>6 DEF UnderWay
  <2>9. RouteTypes' /\ fwd'[w] = g /\ \A v \in Forwards : v # w => fwd'[v] = fwd[v]
    <3>1. turn' \in [1 .. TargetGroup -> 0 .. Period - 1] /\ mark' \in Marks
      BY <1>3, <1>5, <2>1
    <3>2. Put(w, g)
      BY <2>1, <2>2, <2>3
    <3> QED BY <1>2, <1>3, <2>7, <2>8, <3>1, <3>2, PutKeepsTypes
  <2>10. ASSUME Promised PROVE Fares(g, mark)
    <3>1. OnRoute(g) \subseteq {a, b}
      <4>1. CASE setup.bypass = 2
        BY <2>2, <2>4, <4>1 DEF OnRoute
      <4>2. CASE setup.bypass # 2
        BY <2>2, <2>4, <4>2 DEF OnRoute
      <4> QED BY <4>1, <4>2
    <3>2. a \notin BlamedOf(mark, {1, 2}) /\ b \notin BlamedOf(mark, {1, 2})
      BY <1>2, <2>5, <2>10, PromisedMeans DEF BlamedOf, Broken, Faring
    <3>3. OnRoute(f) = {}
      BY <1>4 DEF OnRoute
    <3>4. BlamedOf(mark, {1, 2}) \ OnRoute(g) = BlamedOf(mark, {1, 2}) \ OnRoute(f)
      BY <3>1, <3>2, <3>3
    <3>5. /\ f.tries <= Cardinality(BlamedOf(mark, {TargetGroup}) \ {f.target})
          /\ f.target \in up => f.dials <= Cardinality(BlamedOf(mark, {1, 2}) \ OnRoute(f))
      BY <1>1, <1>2, <2>10 DEF Faring, Fares
    <3> QED BY <2>4, <3>4, <3>5 DEF Fares
  <2>11. (Promised => Faring)'
    <3>1. Promised => /\ \A k \in RouteNodes \ up : Blamed(mark, k) => Blamed(mark', k)
                      /\ GoodUnmarked(mark') /\ Fares(g, mark')
      BY <1>2, <2>1, <2>10 DEF Faring
    <3> QED BY <1>2, <2>9, <3>1, PutKeepsFaring
  <2> QED BY <2>9, <2>11 DEF RouteInv
<1> QED BY <1>6, <1>7

\* A hop that works unmarks a node that works; one that fails blames a node of
\* the route that was not blamed when it was selected, and a multiplex node
\* behind it, which is alone in its group.
LEMMA HopTaken == ASSUME RouteInv, NEW w \in Forwards, ChainConn(w) PROVE RouteInv'
<1>1. PICK f \in ForwardType : f = fwd[w] /\ UnderWay(f) /\ f.pc = "hop"
  BY DEF RouteInv, RouteTypes, ChainConn
<1>2. RouteTypes /\ (Promised => Faring) /\ UNCHANGED <<setup, up, turn, calm>>
  BY DEF RouteInv, ChainConn
<1>3. /\ mark \in Marks /\ session \in BOOLEAN /\ turn' \in [1 .. TargetGroup -> 0 .. Period - 1]
      /\ up \subseteq RouteNodes /\ setup.mux \in BOOLEAN
  BY <1>2 DEF RouteTypes
<1>4. /\ f.target \in GroupNodes(TargetGroup) /\ f.dials < DialsOf /\ f.tries < TriesOf
      /\ setup.handler # "rtcp" /\ f.hop \in 1 .. Len(f.route) /\ f.route \in Routes
  BY <1>1 DEF UnderWay, ForwardType
<1>5. /\ Len(f.route) \in {0, 1, 2} /\ \A i \in 1 .. Len(f.route) : f.route[i] \in GroupNodes(i) /\ i \in {1, 2}
  BY <1>4, RouteIs
<1>6. PICK n \in RouteNodes : n = f.route[f.hop] /\ n[1] \in {1, 2} /\ n \in OnRoute(f)
  <2>1. f.route[f.hop] \in GroupNodes(f.hop) /\ f.hop \in {1, 2}
    BY <1>4, <1>5
  <2>2. f.route[f.hop] \in RouteNodes /\ f.route[f.hop][1] \in {1, 2}
    BY <2>1, GroupsAre
  <2> QED BY <1>4, <2>2 DEF OnRoute
<1>7. Multiplexed(f) \in BOOLEAN
  BY <1>3 DEF Multiplexed
<1>8. CASE n \in up
  <2>1. PICK g : g = [f EXCEPT !.hop = @ + 1, !.pc = IF f.hop = Len(f.route) THEN "connect" ELSE "hop"]
    OBVIOUS
  <2>2. /\ Put(w, g) /\ mark' = [mark EXCEPT ![n] = Unmarked]
        /\ session' = (session \/ (Multiplexed(f) /\ f.hop = 2))
    BY <1>1, <1>6, <1>8, <2>1 DEF ChainConn
  <2>3. /\ g.pc = (IF f.hop = Len(f.route) THEN "connect" ELSE "hop") /\ g.hop = f.hop + 1
        /\ g.route = f.route /\ g.tries = f.tries /\ g.dials = f.dials /\ g.target = f.target
    BY <1>1, <2>1 DEF ForwardType
  <2>4. g \in ForwardType
    <3>1. "connect" \in RoutePcs /\ "hop" \in RoutePcs /\ f.hop + 1 \in Nat
      BY <1>4, <1>5 DEF RoutePcs
    <3> QED BY <1>1, <2>1, <3>1 DEF ForwardType
  <2>5. UnderWay(g)
    <3>1. g.pc = "hop" => g.route # <<>> /\ g.hop \in 1 .. Len(g.route)
      BY <1>1, <1>4, <1>5, <2>3 DEF UnderWay
    <3> QED BY <1>4, <2>3, <3>1 DEF UnderWay
  <2>6. mark' \in Marks /\ session' \in BOOLEAN
    <3>1. mark' \in Marks
      BY <1>3, <2>2, MarksAre DEF Marks
    <3> QED BY <1>3, <1>7, <2>2, <3>1
  <2>7. RouteTypes' /\ fwd'[w] = g /\ \A v \in Forwards : v # w => fwd'[v] = fwd[v]
    BY <1>2, <1>3, <2>2, <2>4, <2>5, <2>6, PutKeepsTypes
  <2>8. \A k \in RouteNodes \ up : Blamed(mark, k) => Blamed(mark', k)
    BY <1>3, <1>8, <2>2 DEF Blamed, Marks
  <2>9. ASSUME Promised PROVE GoodUnmarked(mark') /\ Fares(g, mark')
    <3>1. GoodUnmarked(mark')
      <4>1. ~Blamed(mark', n) /\ \A k \in RouteNodes : k # n => mark'[k] = mark[k]
        BY <1>3, <2>2, MarksAre DEF Blamed, Marks
      <4> QED BY <1>2, <1>3, <2>9, <4>1 DEF GoodUnmarked, Blamed, Faring
    <3>2. \A k \in Broken({TargetGroup}) \cup Broken({1, 2}) : Blamed(mark, k) => Blamed(mark', k)
      BY <2>8 DEF Broken
    <3>3. {TargetGroup} \in SUBSET {1, 2, 3} /\ {1, 2} \in SUBSET {1, 2, 3}
      BY GroupsAre
    <3>4. PICK b1 \in Nat, b2 \in Nat, c1 \in Nat, c2 \in Nat :
            /\ b1 = Cardinality(BlamedOf(mark, {TargetGroup}) \ {f.target})
            /\ b2 = Cardinality(BlamedOf(mark', {TargetGroup}) \ {f.target})
            /\ c1 = Cardinality(BlamedOf(mark, {1, 2}) \ OnRoute(f))
            /\ c2 = Cardinality(BlamedOf(mark', {1, 2}) \ OnRoute(f))
      BY <3>3, BlamedCount
    <3>5. b1 <= b2 /\ c1 <= c2
      BY <3>2, <3>3, <3>4, BlamedGrow
    <3>6. f.tries <= b1 /\ (f.target \in up => f.dials <= c1)
      BY <1>1, <1>2, <2>9, <3>4 DEF Faring, Fares
    <3>7. OnRoute(g) = OnRoute(f) /\ f.tries \in Nat /\ f.dials \in Nat
      BY <2>3, <1>1, TriesAre DEF OnRoute, ForwardType
    <3>8. g.tries <= b2 /\ (f.target \in up => g.dials <= c2)
      BY <2>3, <3>4, <3>5, <3>6, <3>7
    <3>9. g.pc \in {"connect", "hop"}
      BY <2>3
    <3>10. Fares(g, mark')
      BY <2>3, <3>4, <3>7, <3>8, <3>9 DEF Fares
    <3> QED BY <3>1, <3>10
  <2>10. (Promised => Faring)'
    BY <1>2, <2>7, <2>8, <2>9, PutKeepsFaring
  <2> QED BY <2>7, <2>10 DEF RouteInv
<1>9. CASE n \notin up
  <2> DEFINE behind == IF Multiplexed(f) THEN {n, f.route[2]} ELSE {n}
  <2>1. PICK m : m = [k \in RouteNodes |-> IF k \in behind THEN Dead(k) ELSE mark[k]]
    OBVIOUS
  <2>2. DialFailed(w, m) /\ session' = (session /\ ~(Multiplexed(f) /\ f.hop = 2))
    BY <1>1, <1>6, <1>9, <2>1 DEF ChainConn
  <2>3. session' \in BOOLEAN
    BY <1>3, <1>7, <2>2
  <2>4. n \in behind /\ \A k \in behind : k # n => k[1] = 2 /\ setup.mux
    <3>1. CASE Multiplexed(f)
      <4>1. f.route[2] \in GroupNodes(2) /\ setup.mux
        BY <1>5, <3>1 DEF Multiplexed
      <4> QED BY <3>1, <4>1, GroupsAre
    <3>2. CASE ~Multiplexed(f)
      BY <3>2
    <3> QED BY <3>1, <3>2
  <2>5. m \in Marks /\ \A k \in RouteNodes : m[k] = (IF k \in behind THEN Dead(k) ELSE mark[k])
    <3> HIDE DEF behind
    <3>1. \A k \in RouteNodes : (IF k \in behind THEN Dead(k) ELSE mark[k]) \in [fails : 0 .. FailLimit + 1, recent : BOOLEAN]
      BY <1>3, MarksAre DEF Marks
    <3> QED BY <2>1, <3>1 DEF Marks
  <2> HIDE DEF behind
  <2>6. ASSUME Promised
        PROVE  /\ GoodUnmarked(m)
               /\ \A k \in RouteNodes \ up : Blamed(mark, k) => Blamed(m, k)
               /\ fwd[w].target \in up =>
                    setup.handler = "tcp" /\ fwd[w].dials + 1 <= Cardinality(BlamedOf(m, {1, 2}))
    <3>1. FailLimit = 1 /\ (setup.mux => LastNodes = 1) /\ setup.handler = "tcp" /\ GoodUnmarked(mark)
      BY <1>2, <1>4, <2>6, PromisedMeans DEF Faring
    <3>2. \A k \in behind \cap RouteNodes : Blamed(m, k)
      BY <1>3, <2>5, <3>1, MarksAre DEF Blamed
    <3>3. GroupSize[2] = LastNodes
      BY GroupsAre
    <3>4. \A k \in RouteNodes \ behind : m[k] = mark[k]
      BY <2>5
    <3>5. \A k \in RouteNodes \ up : Blamed(mark, k) => Blamed(m, k)
      BY <3>2, <3>4 DEF Blamed
    <3>6. GoodUnmarked(m)
      <4> SUFFICES ASSUME NEW k \in up, GroupSize[k[1]] > 1 PROVE ~Blamed(m, k)
        BY DEF GoodUnmarked
      <4>1. k \notin behind
        BY <1>9, <2>4, <3>1, <3>3
      <4> QED BY <1>3, <3>1, <3>4, <4>1 DEF GoodUnmarked, Blamed
    <3>7. ASSUME f.target \in up PROVE f.dials + 1 <= Cardinality(BlamedOf(m, {1, 2}))
      <4>1. n \in Broken({1, 2}) /\ Blamed(m, n) /\ n \in OnRoute(f)
        BY <1>6, <1>9, <2>4, <3>2 DEF Broken
      <4>2. \A k \in Broken({1, 2}) : Blamed(mark, k) => Blamed(m, k)
        BY <3>5 DEF Broken
      <4>3. {1, 2} \in SUBSET {1, 2, 3}
        OBVIOUS
      <4>4. PICK c1 \in Nat, c2 \in Nat : /\ c1 = Cardinality(BlamedOf(mark, {1, 2}) \ OnRoute(f))
                                          /\ c2 = Cardinality(BlamedOf(m, {1, 2}))
        BY <4>3, BlamedCount
      <4>5. c1 + 1 <= c2
        BY <4>1, <4>2, <4>3, <4>4, BlamedGrow
      <4>6. Fares(f, mark) /\ f.dials \in Nat
        BY <1>1, <1>2, <2>6, TriesAre DEF Faring, ForwardType
      <4>7. f.dials <= c1
        BY <1>1, <3>7, <4>4, <4>6 DEF Fares
      <4> QED BY <4>4, <4>5, <4>6, <4>7
    <3> QED BY <1>1, <3>1, <3>5, <3>6, <3>7
  <2>7. fwd[w].pc \in {"route", "hop", "connect"} /\ UNCHANGED <<setup, up, calm>>
    BY <1>1, <1>2
  <2> QED BY <1>2, <1>3, <2>2, <2>3, <2>5, <2>6, <2>7, FailedDial
<1> QED BY <1>8, <1>9

\* The last dial: a target that works is joined and unmarked.
LEMMA TargetDialed == ASSUME RouteInv, NEW w \in Forwards, ConnectTarget(w) PROVE RouteInv'
<1>1. PICK f \in ForwardType : f = fwd[w] /\ UnderWay(f) /\ f.pc = "connect"
  BY DEF RouteInv, RouteTypes, ConnectTarget
<1>2. RouteTypes /\ (Promised => Faring) /\ UNCHANGED <<setup, up, turn, session, calm>>
  BY DEF RouteInv, ConnectTarget
<1>3. /\ mark \in Marks /\ session' \in BOOLEAN /\ turn' \in [1 .. TargetGroup -> 0 .. Period - 1]
      /\ up \subseteq RouteNodes
  BY <1>2 DEF RouteTypes
<1>4. CASE f.target \in up
  <2>1. PICK g : g = [f EXCEPT !.pc = "joined"]
    OBVIOUS
  <2>2. Put(w, g) /\ mark' = [mark EXCEPT ![f.target] = Unmarked]
    BY <1>1, <1>4, <2>1 DEF ConnectTarget
  <2>3. g \in ForwardType /\ g.pc = "joined"
    <3>1. "joined" \in RoutePcs
      BY DEF RoutePcs
    <3> QED BY <1>1, <2>1, <3>1 DEF ForwardType
  <2>4. UnderWay(g)
    BY <2>3 DEF UnderWay
  <2>5. mark' \in Marks
    BY <1>3, <2>2, MarksAre DEF Marks
  <2>6. RouteTypes' /\ fwd'[w] = g /\ \A v \in Forwards : v # w => fwd'[v] = fwd[v]
    BY <1>2, <1>3, <2>2, <2>3, <2>4, <2>5, PutKeepsTypes
  <2>7. \A k \in RouteNodes \ up : Blamed(mark, k) => Blamed(mark', k)
    BY <1>3, <1>4, <2>2 DEF Blamed, Marks
  <2>8. Promised => GoodUnmarked(mark')
    <3>1. ~Blamed(mark', f.target) /\ \A k \in RouteNodes : k # f.target => mark'[k] = mark[k]
      BY <1>3, <1>4, <2>2, MarksAre DEF Blamed, Marks
    <3> QED BY <1>2, <1>3, <3>1 DEF GoodUnmarked, Blamed, Faring
  <2>9. Fares(g, mark')
    BY <2>3 DEF Fares
  <2>10. (Promised => Faring)'
    BY <1>2, <2>6, <2>7, <2>8, <2>9, PutKeepsFaring
  <2> QED BY <2>6, <2>10 DEF RouteInv
<1>5. CASE f.target \notin up
  <2>1. DialFailed(w, mark)
    BY <1>1, <1>5 DEF ConnectTarget
  <2>2. fwd[w].target \notin up /\ fwd[w].pc \in {"route", "hop", "connect"}
    BY <1>1, <1>5
  <2> QED BY <1>2, <1>3, <2>1, <2>2, FailedDial DEF Faring
<1> QED BY <1>4, <1>5

\* No promise outlives a change of a node or of a mark's age.
LEMMA CalmEnds ==
  ASSUME RouteInv, NEW n \in RouteNodes, FailTimeoutPasses(n) \/ NodeChanges(n)
  PROVE  RouteInv'
<1>1. calm' = FALSE /\ UNCHANGED <<setup, turn, session, fwd>> /\ RouteTypes
  BY DEF FailTimeoutPasses, NodeChanges, RouteInv
<1>2. ~Promised' /\ calm' \in BOOLEAN
  BY <1>1 DEF Promised, MarkedForGood
<1>3. up' \subseteq RouteNodes /\ mark' \in Marks
  <2>1. CASE FailTimeoutPasses(n)
    <3>1. FALSE \in BOOLEAN /\ mark[n] \in [fails : 0 .. FailLimit + 1, recent : BOOLEAN]
      BY <1>1 DEF RouteTypes, Marks
    <3>2. [mark[n] EXCEPT !.recent = FALSE] \in [fails : 0 .. FailLimit + 1, recent : BOOLEAN]
      BY <3>1
    <3>3. mark' = [mark EXCEPT ![n] = [mark[n] EXCEPT !.recent = FALSE]]
      BY <2>1 DEF FailTimeoutPasses
    <3>4. mark' \in Marks
      BY <1>1, <3>2, <3>3 DEF RouteTypes, Marks
    <3> QED BY <1>1, <2>1, <3>4 DEF FailTimeoutPasses, RouteTypes
  <2>2. CASE NodeChanges(n)
    BY <1>1, <2>2 DEF NodeChanges, RouteTypes
  <2> QED BY <2>1, <2>2
<1>4. \A v \in Forwards : UnderWay(fwd[v])'
  BY <1>1 DEF RouteTypes, UnderWay, DialsOf, TriesOf
<1> QED BY <1>1, <1>2, <1>3, <1>4 DEF RouteInv, RouteTypes

\* Every step of a connection keeps the marks and its tries in step.
LEMMA RouteStep == RouteInv /\ [RouteNext]_routeVars => RouteInv'
<1> SUFFICES ASSUME RouteInv, [RouteNext]_routeVars PROVE RouteInv'
  OBVIOUS
<1>1. CASE \E w \in Forwards : TakeTarget(w) \/ SelectRoute(w) \/ ChainConn(w) \/ ConnectTarget(w)
  BY <1>1, TargetTaken, RouteSelected, HopTaken, TargetDialed
<1>2. CASE \E n \in RouteNodes : FailTimeoutPasses(n) \/ NodeChanges(n)
  BY <1>2, CalmEnds
<1>3. CASE UNCHANGED routeVars
  <2>1. UNCHANGED <<setup, up, mark, turn, session, fwd, calm>>
    BY <1>3 DEF routeVars
  <2>2. RouteTypes'
    BY <2>1 DEF RouteInv, RouteTypes, UnderWay, DialsOf, TriesOf
  <2>3. Promised' => Promised
    BY <2>1 DEF Promised, MarkedForGood, Works, Enough, Broken
  <2>4. Faring => Faring'
    BY <2>1 DEF Faring, GoodUnmarked, Fares, BlamedOf, Broken, Blamed
  <2> QED BY <2>2, <2>3, <2>4 DEF RouteInv
<1> QED BY <1>1, <1>2, <1>3 DEF RouteNext

\* At the start nothing is marked and nobody tried.
LEMMA RouteStart == RouteInit => RouteInv
<1> SUFFICES ASSUME RouteInit PROVE RouteInv
  OBVIOUS
<1>1. /\ RouteTries \in Nat \ {0} /\ FailLimit \in Nat \ {0} /\ FALSE \in BOOLEAN /\ TRUE \in BOOLEAN
  BY RouteAssumption
<1>2. PICK z \in [fails : 0 .. FailLimit + 1, recent : BOOLEAN] : z = [fails |-> 0, recent |-> FALSE] /\ z.fails = 0
  <2>1. 0 \in 0 .. FailLimit + 1 /\ FALSE \in BOOLEAN
    BY <1>1
  <2>2. [fails |-> 0, recent |-> FALSE] \in [fails : 0 .. FailLimit + 1, recent : BOOLEAN]
    BY <2>1
  <2> QED BY <2>2
<1>3. mark = [n \in RouteNodes |-> z] /\ mark \in Marks
  BY <1>2 DEF RouteInit, Marks
<1>4. NewForward \in ForwardType
  <2>1. /\ <<>> \in Routes /\ 0 \in 0 .. RouteTries /\ "target" \in RoutePcs /\ <<>> \in RouteNodes \cup {<<>>}
    BY <1>1 DEF Routes, RoutePcs
  <2> QED BY <2>1 DEF NewForward, ForwardType
<1>5. NewForward.pc = "target" /\ NewForward.dials = 0 /\ NewForward.route = <<>> /\ NewForward.tries = 0
  BY DEF NewForward
<1>6. UnderWay(NewForward)
  BY <1>5, TriesAre DEF UnderWay
<1>7. fwd \in [Forwards -> ForwardType] /\ \A w \in Forwards : fwd[w] = NewForward
  BY <1>4 DEF RouteInit
<1>8. turn \in [1 .. TargetGroup -> 0 .. Period - 1]
  <2>1. Period \in Nat \ {0}
    <3>1. PICK a \in Nat \ {0}, b \in Nat \ {0}, c \in Nat \ {0} : a = FirstNodes /\ b = LastNodes /\ c = Targets
      BY RouteAssumption
    <3>2. \A x, y \in Nat \ {0} : x * y \in Nat \ {0}
      BY SMT
    <3>3. (a * b) \in Nat \ {0}
      BY <3>2
    <3>4. ((a * b) * c) \in Nat \ {0}
      BY <3>2, <3>3
    <3> QED BY <3>1, <3>4 DEF Period
  <2>2. 0 \in 0 .. Period - 1
    BY <2>1
  <2> QED BY <2>2 DEF RouteInit
<1>9. RouteTypes
  BY <1>1, <1>3, <1>6, <1>7, <1>8 DEF RouteInit, RouteTypes
<1>10. Faring
  <2>1. GoodUnmarked(mark)
    BY <1>2, <1>3, <1>9 DEF GoodUnmarked, Blamed, RouteTypes
  <2>2. 0 <= Cardinality(BlamedOf(mark, {TargetGroup}))
    <3>1. {TargetGroup} \in SUBSET {1, 2, 3}
      BY GroupsAre
    <3>2. Cardinality(BlamedOf(mark, {TargetGroup})) \in Nat
      BY <3>1, BlamedCount
    <3> QED BY <3>2
  <2> QED BY <1>5, <1>7, <2>1, <2>2 DEF Faring, Fares
<1> QED BY <1>9, <1>10 DEF RouteInv

\* While the invariant holds nobody that may count on its tries ran out of them.
LEMMA RouteMeans == RouteInv => RouteTypeOK /\ RetriesSuffice
<1> SUFFICES ASSUME RouteInv PROVE RouteTypeOK /\ RetriesSuffice
  OBVIOUS
<1>1. RetriesSuffice
  BY DEF RouteInv, RetriesSuffice, Promised, Faring, Fares
<1>2. \A w \in Forwards : /\ fwd[w] \in ForwardType /\ Len(fwd[w].route) < TargetGroup
                          /\ ToSet(fwd[w].route) \subseteq RouteNodes
  <2> SUFFICES ASSUME NEW w \in Forwards
               PROVE  /\ fwd[w] \in ForwardType /\ Len(fwd[w].route) < TargetGroup
                      /\ ToSet(fwd[w].route) \subseteq RouteNodes
    OBVIOUS
  <2>1. PICK r \in Routes : r = fwd[w].route /\ fwd[w] \in ForwardType
    BY DEF RouteInv, RouteTypes, ForwardType
  <2>2. Len(r) < 3 /\ \A i \in DOMAIN r : r[i] \in RouteNodes
    BY GroupsAre, RouteIs
  <2>3. ToSet(r) \subseteq RouteNodes
    BY <2>2 DEF ToSet
  <2> QED BY <2>1, <2>2, <2>3, GroupsAre
<1> QED BY <1>1, <1>2 DEF RouteInv, RouteTypes, RouteTypeOK, Marks, ForwardType, RoutePcs

\* For groups of any size and any number of connections: when each group of the
\* chain and the targets have a node that works, and a connection more tries
\* than there are nodes that do not, none gives up.
THEOREM RetriesSufficeHolds == RouteSpec => [](RouteTypeOK /\ RetriesSuffice)
<1>1. RouteSpec => []RouteInv
  BY RouteStart, RouteStep, PTL DEF RouteSpec
<1> QED BY <1>1, RouteMeans, PTL

--------------------------------------------------------------------------------
(* Headers in front of the data. *)

\* The first and the rest of two sequences in a row.
LEMMA FirstOfTwo ==
  ASSUME NEW S, NEW s \in Seq(S), NEW t \in Seq(S), s # <<>>
  PROVE  /\ Head(s \o t) = Head(s) /\ Tail(s \o t) = Tail(s) \o t
         /\ s \o t # <<>> /\ Tail(s) \in Seq(S) /\ Head(s) \in S
<1>1. Len(s) \in Nat \ {0} /\ Len(t) \in Nat
  BY EmptySeq, LenProperties
<1>2. s \o t \in Seq(S) /\ Len(s \o t) = Len(s) + Len(t)
      /\ \A i \in 1 .. Len(s) + Len(t) : (s \o t)[i] = IF i <= Len(s) THEN s[i] ELSE t[i - Len(s)]
  BY ConcatProperties
<1>3. s \o t # <<>>
  BY <1>1, <1>2, EmptySeq
<1>4. Tail(s) \in Seq(S) /\ Len(Tail(s)) = Len(s) - 1 /\ \A i \in 1 .. Len(Tail(s)) : Tail(s)[i] = s[i + 1]
  BY HeadTailProperties
<1>5. Tail(s \o t) \in Seq(S) /\ Len(Tail(s \o t)) = Len(s \o t) - 1
      /\ \A i \in 1 .. Len(Tail(s \o t)) : Tail(s \o t)[i] = (s \o t)[i + 1]
  BY <1>2, <1>3, HeadTailProperties
<1>6. Tail(s) \o t \in Seq(S) /\ Len(Tail(s) \o t) = Len(Tail(s)) + Len(t)
      /\ \A i \in 1 .. Len(Tail(s)) + Len(t) :
           (Tail(s) \o t)[i] = IF i <= Len(Tail(s)) THEN Tail(s)[i] ELSE t[i - Len(Tail(s))]
  BY <1>4, ConcatProperties
<1>7. Len(Tail(s \o t)) = Len(Tail(s) \o t)
  BY <1>1, <1>2, <1>4, <1>5, <1>6
<1>8. ASSUME NEW i \in 1 .. Len(Tail(s \o t)) PROVE Tail(s \o t)[i] = (Tail(s) \o t)[i]
  <2>1. i \in Nat \ {0} /\ i + 1 \in 1 .. Len(s) + Len(t) /\ i \in 1 .. Len(Tail(s)) + Len(t)
    BY <1>1, <1>2, <1>4, <1>5
  <2>2. Tail(s \o t)[i] = IF i + 1 <= Len(s) THEN s[i + 1] ELSE t[i + 1 - Len(s)]
    BY <1>2, <1>5, <2>1
  <2>3. (Tail(s) \o t)[i] = IF i <= Len(s) - 1 THEN s[i + 1] ELSE t[i - (Len(s) - 1)]
    BY <1>1, <1>4, <1>6, <2>1
  <2> QED BY <1>1, <2>1, <2>2, <2>3
<1>9. Tail(s \o t) = Tail(s) \o t
  BY <1>5, <1>6, <1>7, <1>8, SeqEqual
<1>10. Head(s \o t) = Head(s) /\ Head(s) \in S
  BY <1>1, <1>2, LenProperties
<1> QED BY <1>3, <1>4, <1>9, <1>10

\* A sequence cut somewhere behind its first element.
LEMMA CutBehind ==
  ASSUME NEW S, NEW h \in S, NEW s \in Seq(S), NEW n \in 1 .. Len(<<h>> \o s)
  PROVE  /\ SubSeq(<<h>> \o s, 2, n) \o SubSeq(<<h>> \o s, n + 1, Len(<<h>> \o s)) = s
         /\ SubSeq(<<h>> \o s, 2, n) \in Seq(S) /\ SubSeq(<<h>> \o s, n + 1, Len(<<h>> \o s)) \in Seq(S)
<1> DEFINE q == <<h>> \o s
<1>1. <<h>> \in Seq(S) /\ <<h>> # <<>> /\ Tail(<<h>>) = <<>>
  OBVIOUS
<1>2. q \in Seq(S) /\ Len(q) \in Nat /\ q # <<>> /\ n \in 1 .. Len(q)
  BY <1>1, ConcatProperties, LenProperties, FirstOfTwo
<1>3. Tail(q) = <<>> \o s
  BY <1>1, FirstOfTwo
<1>4. <<>> \o s = s
  BY ConcatEmptySeq
<1>5. Tail(q) = SubSeq(q, 2, Len(q))
  BY <1>2, TailIsSubSeq
<1>6. 2 \in 1 .. Len(q) + 1 /\ n \in 2 - 1 .. Len(q) /\ Len(q) \in n .. Len(q)
  BY <1>2
<1>7. SubSeq(q, 2, n) \o SubSeq(q, n + 1, Len(q)) = SubSeq(q, 2, Len(q))
  BY <1>2, <1>6, ConcatAdjacentSubSeq
<1>8. \A i \in 1 .. Len(q) : q[i] \in S
  BY <1>2, ElementOfSeq
<1>9. (\A i \in 2 .. n : q[i] \in S) /\ (\A i \in n + 1 .. Len(q) : q[i] \in S)
  BY <1>2, <1>8
<1>10. SubSeq(q, 2, n) \in Seq(S) /\ SubSeq(q, n + 1, Len(q)) \in Seq(S)
  BY <1>2, <1>9, SubSeqProperties
<1> QED BY <1>3, <1>4, <1>5, <1>7, <1>10

\* Two sequences in a row, and one more element, by names the provers do not look into.
Join(x, y) == x \o y
\* One element more.
Add(x, d) == Append(x, d)

\* What Join and Add are, of empty sequences and in general.
LEMMA JoinIs ==
  ASSUME NEW S
  PROVE  /\ \A x, y \in Seq(S) : Join(x, y) \in Seq(S)
         /\ \A x, y \in Seq(S) : Join(x, y) = <<>> => x = <<>> /\ y = <<>>
         /\ \A x \in Seq(S), d \in S : Add(x, d) \in Seq(S) /\ Len(Add(x, d)) = Len(x) + 1 /\ Add(x, d) # <<>>
         /\ \A x \in Seq(S) : Join(<<>>, x) = x /\ Join(x, <<>>) = x
BY ConcatProperties, ConcatEqualIffEmpty, ConcatEmptySeq, AppendProperties DEF Join, Add

\* The length of two sequences in a row.
LEMMA JoinLen ==
  ASSUME NEW S, NEW x \in Seq(S), NEW y \in Seq(S)
  PROVE  Len(Join(x, y)) = Len(x) + Len(y) /\ Len(x) \in Nat /\ Len(y) \in Nat
BY ConcatProperties, LenProperties DEF Join

\* Three sequences in a row.
LEMMA JoinInARow ==
  ASSUME NEW S, NEW x \in Seq(S), NEW y \in Seq(S), NEW z \in Seq(S)
  PROVE  Join(Join(x, y), z) = Join(x, Join(y, z))
BY ConcatAssociative DEF Join

\* A sequence of one element in a row is that element added.
LEMMA JoinOne ==
  ASSUME NEW S, NEW x \in Seq(S), NEW d \in S
  PROVE  Join(x, <<d>>) = Add(x, d)
BY AppendIsConcat DEF Join, Add

\* The first of two sequences in a row is at the head.
LEMMA JoinFirst ==
  ASSUME NEW S, NEW x \in Seq(S), NEW y \in Seq(S), x # <<>>
  PROVE  /\ Head(Join(x, y)) = Head(x) /\ Tail(Join(x, y)) = Join(Tail(x), y) /\ Join(x, y) # <<>>
         /\ Head(x) \in S /\ Tail(x) \in Seq(S)
BY FirstOfTwo DEF Join

\* An element added to the second of two sequences is added to both.
LEMMA JoinGrows ==
  ASSUME NEW S, NEW x \in Seq(S), NEW y \in Seq(S), NEW d \in S
  PROVE  Join(x, Add(y, d)) = Add(Join(x, y), d)
<1>1. PICK z \in Seq(S) : z = <<d>>
  <2>1. <<d>> \in Seq(S)
    OBVIOUS
  <2> QED BY <2>1
<1>2. Join(Join(x, y), z) = Join(x, Join(y, z))
  BY JoinInARow
<1>3. PICK q \in Seq(S) : q = Join(x, y)
  BY JoinIs
<1>4. Join(q, z) = Add(q, d) /\ Join(y, z) = Add(y, d)
  BY <1>1, JoinOne
<1> QED BY <1>2, <1>3, <1>4

--------------------------------------------------------------------------------
(* Headers. *)

\* Whatever travels between the two ends.
Things == {<<"header", "client">>, <<"header", "server">>, <<"empty", 0>>, <<"refusal", "server">>}
          \cup {<<"client", i>> : i \in Nat} \cup {<<"server", i>> : i \in Nat}

\* The chunks an end wrote, from one to another.
Run(e, a, b) == [i \in 1 .. b - a + 1 |-> Data(e, a + i - 1)]

\* What is a thing.
LEMMA ThingsAre ==
  /\ \A e \in Ends : Header(e) \in Things /\ \A i \in Nat : Data(e, i) \in Things
  /\ Empty \in Things /\ Refusal \in Things
  /\ \A e, f \in Ends, i \in Nat :
       /\ Data(e, i) # Empty /\ Data(e, i) # Refusal /\ Data(e, i) # Header(f)
       /\ Header(e) # Refusal /\ Header(e) # Empty
BY DEF Things, Header, Data, Empty, Refusal, Ends

\* A run is a sequence, which begins with its first and grows by its next chunk.
LEMMA RunIs ==
  ASSUME NEW e \in Ends, NEW a \in Nat \ {0}, NEW b \in Nat, a <= b + 1
  PROVE  /\ Run(e, a, b) \in Seq(Things) /\ Len(Run(e, a, b)) = b - a + 1
         /\ \A i \in 1 .. b - a + 1 : Run(e, a, b)[i] = Data(e, a + i - 1)
<1>1. b - a + 1 \in Nat
  OBVIOUS
<1>2. \A i \in 1 .. b - a + 1 : Data(e, a + i - 1) \in Things
  BY ThingsAre
<1>3. Run(e, a, b) \in [1 .. b - a + 1 -> Things]
  BY <1>2 DEF Run
<1>4. Run(e, a, b) \in Seq(Things)
  BY <1>1, <1>3, SeqDef
<1>5. DOMAIN Run(e, a, b) = 1 .. b - a + 1
  BY DEF Run
<1>6. Len(Run(e, a, b)) = b - a + 1
  BY <1>1, <1>4, <1>5, LenProperties
<1> QED BY <1>4, <1>6 DEF Run

\* The next chunk added to a run of them.
LEMMA RunGrows ==
  ASSUME NEW e \in Ends, NEW a \in Nat \ {0}, NEW b \in Nat, a <= b + 1
  PROVE  Add(Run(e, a, b), Data(e, b + 1)) = Run(e, a, b + 1)
<1>1. /\ Run(e, a, b) \in Seq(Things) /\ Len(Run(e, a, b)) = b - a + 1
      /\ \A i \in 1 .. b - a + 1 : Run(e, a, b)[i] = Data(e, a + i - 1)
  BY RunIs
<1>2. /\ Run(e, a, b + 1) \in Seq(Things) /\ Len(Run(e, a, b + 1)) = b + 1 - a + 1
      /\ \A i \in 1 .. b + 1 - a + 1 : Run(e, a, b + 1)[i] = Data(e, a + i - 1)
  BY RunIs
<1>3. Data(e, b + 1) \in Things
  BY ThingsAre
<1> DEFINE more == Append(Run(e, a, b), Data(e, b + 1))
<1>4. /\ more \in Seq(Things) /\ Len(more) = Len(Run(e, a, b)) + 1
      /\ \A i \in 1 .. Len(Run(e, a, b)) : more[i] = Run(e, a, b)[i]
      /\ more[Len(Run(e, a, b)) + 1] = Data(e, b + 1)
  BY <1>1, <1>3, AppendProperties
<1>5. Len(more) = b + 1 - a + 1
  BY <1>1, <1>4
<1>6. ASSUME NEW i \in 1 .. Len(more) PROVE more[i] = Run(e, a, b + 1)[i]
  <2>1. CASE i \in 1 .. b - a + 1
    BY <2>1, <1>1, <1>2, <1>4
  <2>2. CASE i = b - a + 1 + 1
    <3>1. a + i - 1 = b + 1 /\ i \in 1 .. b + 1 - a + 1
      BY <2>2
    <3> QED BY <3>1, <2>2, <1>1, <1>2, <1>4
  <2> QED BY <1>5, <2>1, <2>2
<1>7. more = Run(e, a, b + 1)
  BY <1>2, <1>4, <1>5, <1>6, SeqEqual
<1> QED BY <1>7 DEF Add

\* A run of chunks begins with its first.
LEMMA RunBegins ==
  ASSUME NEW e \in Ends, NEW a \in Nat \ {0}, NEW b \in Nat, a <= b
  PROVE  /\ Run(e, a, b) # <<>> /\ Head(Run(e, a, b)) = Data(e, a) /\ Tail(Run(e, a, b)) = Run(e, a + 1, b)
<1>1. /\ Run(e, a, b) \in Seq(Things) /\ Len(Run(e, a, b)) = b - a + 1
      /\ \A i \in 1 .. b - a + 1 : Run(e, a, b)[i] = Data(e, a + i - 1)
  BY RunIs
<1>2. /\ Run(e, a + 1, b) \in Seq(Things) /\ Len(Run(e, a + 1, b)) = b - (a + 1) + 1
      /\ \A i \in 1 .. b - (a + 1) + 1 : Run(e, a + 1, b)[i] = Data(e, a + 1 + i - 1)
  <2>1. PICK c \in Nat \ {0} : c = a + 1 /\ c <= b + 1
    OBVIOUS
  <2>2. /\ Run(e, c, b) \in Seq(Things) /\ Len(Run(e, c, b)) = b - c + 1
        /\ \A i \in 1 .. b - c + 1 : Run(e, c, b)[i] = Data(e, c + i - 1)
    BY <2>1, RunIs
  <2> QED BY <2>1, <2>2
<1>3. Run(e, a, b) # <<>> /\ Head(Run(e, a, b)) = Data(e, a)
  BY <1>1, EmptySeq
<1>4. /\ Tail(Run(e, a, b)) \in Seq(Things) /\ Len(Tail(Run(e, a, b))) = Len(Run(e, a, b)) - 1
      /\ \A i \in 1 .. Len(Tail(Run(e, a, b))) : Tail(Run(e, a, b))[i] = Run(e, a, b)[i + 1]
  BY <1>1, <1>3, HeadTailProperties
<1>5. Len(Tail(Run(e, a, b))) = b - a
  BY <1>1, <1>4
<1>6. ASSUME NEW i \in 1 .. b - a PROVE Tail(Run(e, a, b))[i] = Run(e, a + 1, b)[i]
  <2>1. i + 1 \in 1 .. b - a + 1 /\ i \in 1 .. b - (a + 1) + 1 /\ a + (i + 1) - 1 = a + 1 + i - 1
    OBVIOUS
  <2> QED BY <2>1, <1>1, <1>2, <1>4, <1>5
<1> QED BY SMTT(30), <1>2, <1>3, <1>4, <1>5, <1>6, SeqEqual

\* A run from behind the end on is empty.
LEMMA RunEmpty == \A e \in Ends, b \in Nat : Run(e, b + 1, b) = <<>>
<1> SUFFICES ASSUME NEW e \in Ends, NEW b \in Nat PROVE Run(e, b + 1, b) = <<>>
  OBVIOUS
<1>1. Run(e, b + 1, b) \in Seq(Things) /\ Len(Run(e, b + 1, b)) = 0
  BY RunIs
<1> QED BY <1>1, EmptySeq

--------------------------------------------------------------------------------
\* The types, with what travels as sequences of chunks and headers.
HeaderTypes ==
  /\ hsetup \in [kind : {"relay", "relayudp", "ss", "ohttp"}, noDelay : BOOLEAN, first : Ends]
  /\ said \in [Ends -> 0 .. MaxChunks]
  /\ got \in [Ends -> Seq(Things)] /\ wire \in [Ends -> Seq(Things)] /\ extra \in [Ends -> Seq(Things)]
  /\ cachedHeader \in [Ends -> Seq(Things)]
  /\ \A e \in Ends : cachedHeader[e] \in {<<>>, <<Header(e)>>}
  /\ drained \in [Ends -> BOOLEAN] /\ headerSent \in BOOLEAN
  /\ phase \in {"handle", "relay", "refused", "over"}

\* Once the header is off, an end has read the first chunks, and has before it
\* the others, behind an empty datagram at most.
Ahead(e, n, b, x, y) ==
  \E lead \in {<<>>, <<Empty>>} : Join(x, y) = Join(lead, Run(e, n + 1, b)) /\ (lead # <<>> => x = <<>>)
\* What an end has taken off the wire, without the header.
TakenBy(e) ==
  \E n \in 0 .. said[Peer(e)] :
    got[e] = Run(Peer(e), 1, n) /\ Ahead(Peer(e), n, said[Peer(e)], extra[e], wire[e])

\* To the server: nothing was sent yet, the header leads, or it was taken off.
UpUnsent ==
  said["client"] = 0 /\ wire["server"] = <<>> /\ (cachedHeader["client"] = <<>> => hsetup.kind = "ohttp")
\* The header leads what is under way to the server.
UpOnWire ==
  /\ cachedHeader["client"] = <<>>
  /\ \E lead \in {<<Header("client")>>, <<Header("client"), Empty>>} :
       /\ wire["server"] = Join(lead, Run("client", 1, said["client"]))
       /\ hsetup.kind = "ohttp" => lead = <<Header("client")>> /\ said["client"] > 0
\* Of the way to the server.
UpInv ==
  IF drained["server"]
  THEN /\ cachedHeader["client"] = <<>> /\ (hsetup.kind = "ohttp" => said["client"] > 0) /\ phase # "handle"
       /\ TakenBy("server")
  ELSE /\ phase = "handle" /\ got["server"] = <<>> /\ extra["server"] = <<>>
       /\ UpUnsent \/ UpOnWire

\* To the client: nothing before the handshake, a refusal alone, or the header
\* and what follows it, until the client has taken it off.
DownSilent == got["client"] = <<>> /\ extra["client"] = <<>>
\* The header is cached, or leads what is under way to the client.
DownOnWire ==
  \/ said["server"] = 0 /\ wire["client"] = <<>> /\ cachedHeader["server"] = <<Header("server")>>
  \/ cachedHeader["server"] = <<>> /\ wire["client"] = Join(<<Header("server")>>, Run("server", 1, said["server"]))
\* Of the way to the client, by phase.
DownInv ==
  /\ phase = "handle" => /\ DownSilent /\ wire["client"] = <<>> /\ said["server"] = 0
                         /\ cachedHeader["server"] = <<>> /\ (drained["client"] <=> hsetup.kind = "ss")
  /\ phase = "refused" => DownSilent /\ wire["client"] = <<Refusal>> /\ ~drained["client"]
  /\ phase = "over" => DownSilent /\ drained["client"]
  /\ phase = "relay" => IF drained["client"] THEN cachedHeader["server"] = <<>> /\ TakenBy("client")
                        ELSE DownSilent /\ DownOnWire

\* What every step keeps.
HeadersInv == HeaderTypes /\ UpInv /\ DownInv

\* The two ends are each other's peers.
LEMMA TwoEnds ==
  /\ Ends = {"client", "server"} /\ "client" # "server"
  /\ Peer("client") = "server" /\ Peer("server") = "client" /\ \A e \in Ends : Peer(e) \in Ends
BY DEF Ends, Peer

\* What leads a run is a sequence of things.
LEMMA LeadsAre ==
  /\ {<<>>, <<Empty>>, <<Header("client")>>, <<Header("server")>>, <<Refusal>>, <<Header("client"), Empty>>}
       \subseteq Seq(Things)
  /\ Head(<<Header("client"), Empty>>) = Header("client") /\ Tail(<<Header("client"), Empty>>) = <<Empty>>
  /\ \A h \in Things : <<h>> \in Seq(Things) /\ Head(<<h>>) = h /\ Tail(<<h>>) = <<>> /\ <<h>> # <<>>
  /\ <<Header("client"), Empty>> # <<>>
<1>1. Header("client") \in Things /\ Header("server") \in Things /\ Empty \in Things /\ Refusal \in Things
  BY ThingsAre, TwoEnds
<1> QED BY <1>1

\* Reading the next thing: the next chunk, or the empty datagram.
LEMMA ReadsNext ==
  ASSUME NEW e \in Ends, NEW x \in Seq(Things), NEW y \in Seq(Things), NEW b \in Nat, NEW n \in 0 .. b,
         Ahead(e, n, b, x, y)
  PROVE  /\ x # <<>> => /\ n + 1 \in 0 .. b /\ Add(Run(e, 1, n), Head(x)) = Run(e, 1, n + 1)
                        /\ Ahead(e, n + 1, b, Tail(x), y)
         /\ x = <<>> /\ y # <<>> =>
              \/ Head(y) = Empty /\ Ahead(e, n, b, x, Tail(y))
              \/ /\ Head(y) # Empty /\ n + 1 \in 0 .. b /\ Add(Run(e, 1, n), Head(y)) = Run(e, 1, n + 1)
                 /\ Ahead(e, n + 1, b, x, Tail(y))
<1>0. PICK lead \in {<<>>, <<Empty>>} :
        Join(x, y) = Join(lead, Run(e, n + 1, b)) /\ (lead # <<>> => x = <<>>)
  BY DEF Ahead
<1>1. PICK m \in Nat \ {0} : m = n + 1 /\ m <= b + 1
  OBVIOUS
<1>2. PICK r \in Seq(Things) : r = Run(e, m, b) /\ Len(r) = b - m + 1
  BY <1>1, RunIs
<1>3. \A w \in Seq(Things) : Join(<<>>, w) = w
  BY JoinIs
<1>4. r # <<>> => n + 1 \in 0 .. b /\ Head(r) = Data(e, n + 1) /\ Tail(r) = Run(e, n + 2, b)
                  /\ Run(e, n + 2, b) \in Seq(Things) /\ Add(Run(e, 1, n), Head(r)) = Run(e, 1, n + 1)
  <2> SUFFICES ASSUME r # <<>>
               PROVE  n + 1 \in 0 .. b /\ Head(r) = Data(e, n + 1) /\ Tail(r) = Run(e, n + 2, b)
                      /\ Run(e, n + 2, b) \in Seq(Things) /\ Add(Run(e, 1, n), Head(r)) = Run(e, 1, n + 1)
    OBVIOUS
  <2>1. m <= b
    BY <1>1, <1>2, EmptySeq
  <2>2. Head(r) = Data(e, m) /\ Tail(r) = Run(e, m + 1, b)
    BY <1>2, <2>1, RunBegins
  <2>3. Add(Run(e, 1, n), Data(e, n + 1)) = Run(e, 1, n + 1)
    <3>1. PICK one \in Nat \ {0} : one = 1 /\ one <= n + 1
      OBVIOUS
    <3>2. n \in Nat
      OBVIOUS
    <3>3. Add(Run(e, one, n), Data(e, n + 1)) = Run(e, one, n + 1)
      BY <3>1, <3>2, RunGrows
    <3> QED BY <3>1, <3>3
  <2>4. Tail(r) \in Seq(Things)
    BY <1>2, HeadTailProperties
  <2>5. m + 1 = n + 2 /\ n + 1 \in 0 .. b
    BY <1>1, <2>1
  <2>6. Run(e, m + 1, b) = Run(e, n + 2, b) /\ Data(e, m) = Data(e, n + 1)
    BY <1>1, <2>5
  <2> QED BY <2>2, <2>3, <2>4, <2>5, <2>6
<1>5. ASSUME x # <<>>
      PROVE  /\ lead = <<>> /\ n + 1 \in 0 .. b /\ Add(Run(e, 1, n), Head(x)) = Run(e, 1, n + 1)
             /\ Join(Tail(x), y) = Join(<<>>, Run(e, n + 2, b))
  <2>1. lead = <<>> /\ Join(x, y) = r
    BY <1>0, <1>1, <1>2, <1>3, <1>5
  <2>2. Head(r) = Head(x) /\ Tail(r) = Join(Tail(x), y) /\ r # <<>>
    BY <1>5, <2>1, JoinFirst
  <2> QED BY <1>3, <1>4, <2>1, <2>2
<1>6. ASSUME x = <<>>, y # <<>>
      PROVE  \/ Head(y) = Empty /\ Join(x, Tail(y)) = Join(<<>>, Run(e, n + 1, b))
             \/ /\ Head(y) # Empty /\ n + 1 \in 0 .. b /\ Add(Run(e, 1, n), Head(y)) = Run(e, 1, n + 1)
                /\ Join(x, Tail(y)) = Join(<<>>, Run(e, n + 2, b))
  <2>1. y = Join(lead, r)
    BY <1>0, <1>1, <1>2, <1>3, <1>6
  <2>2. CASE lead = <<>>
    <3>1. y = r
      BY <1>3, <2>1, <2>2
    <3>2. Head(y) = Data(e, n + 1) /\ Data(e, n + 1) # Empty
      BY <1>1, <1>4, <1>6, <3>1, ThingsAre
    <3> QED BY <1>4, <1>6, <3>1, <3>2
  <2>3. CASE lead = <<Empty>>
    <3>1. Head(y) = Empty /\ Tail(y) = Join(<<>>, r)
      <4>1. PICK h \in Seq(Things) : h = <<Empty>> /\ Head(h) = Empty /\ Tail(h) = <<>> /\ h # <<>>
        BY LeadsAre, ThingsAre
      <4>2. Head(Join(h, r)) = Head(h) /\ Tail(Join(h, r)) = Join(Tail(h), r)
        <5>1. h # <<>>
          BY <4>1
        <5> QED BY <5>1, JoinFirst
      <4> QED BY <2>1, <2>3, <4>1, <4>2
    <3>2. Join(<<>>, r) = r
      BY <1>3
    <3> QED BY <1>1, <1>2, <1>6, <3>1, <3>2
  <2> QED BY <2>2, <2>3
<1>7. \A u, v \in Seq(Things) : Join(u, v) = Join(<<>>, Run(e, n + 1, b)) => Ahead(e, n, b, u, v)
  BY DEF Ahead
<1>8. \A u, v \in Seq(Things) : Join(u, v) = Join(<<>>, Run(e, n + 2, b)) => Ahead(e, n + 1, b, u, v)
  <2>1. (n + 1) + 1 = n + 2
    OBVIOUS
  <2> QED BY <2>1 DEF Ahead
<1>9. x # <<>> => Tail(x) \in Seq(Things)
  BY HeadTailProperties
<1>10. y # <<>> => Tail(y) \in Seq(Things)
  BY HeadTailProperties
<1> QED BY <1>5, <1>6, <1>7, <1>8, <1>9, <1>10

\* A chunk that is read is the next one.
LEMMA ReadingTakes ==
  ASSUME HeaderTypes, NEW e \in Ends, TakenBy(e), ReadChunk(e)
  PROVE  TakenBy(e)' /\ HeaderTypes'
<1>1. drained[e] /\ phase = "relay" /\ UNCHANGED <<hsetup, said, cachedHeader, drained, headerSent, phase>>
  BY DEF ReadChunk
<1>2. PICK p \in Ends : p = Peer(e)
  BY TwoEnds
<1>3. PICK b \in Nat : b = said[p] /\ b \in 0 .. MaxChunks
  BY SMTT(30), HeadersAssumption DEF HeaderTypes
<1>4. PICK n \in 0 .. b : got[e] = Run(p, 1, n) /\ Ahead(p, n, b, extra[e], wire[e])
  BY <1>2, <1>3 DEF TakenBy
<1>5. PICK x \in Seq(Things), y \in Seq(Things), g \in Seq(Things) : x = extra[e] /\ y = wire[e] /\ g = got[e]
  BY DEF HeaderTypes
<1>6. PICK x1 \in Seq(Things), y1 \in Seq(Things), g1 \in Seq(Things) :
        /\ extra' = [extra EXCEPT ![e] = x1] /\ wire' = [wire EXCEPT ![e] = y1] /\ got' = [got EXCEPT ![e] = g1]
        /\ \/ x # <<>> /\ x1 = Tail(x) /\ y1 = y /\ g1 = Add(g, Head(x))
           \/ x = <<>> /\ y # <<>> /\ x1 = x /\ y1 = Tail(y)
              /\ g1 = IF Head(y) = Empty THEN g ELSE Add(g, Head(y))
  <2>1. CASE /\ extra[e] # <<>> /\ extra' = [extra EXCEPT ![e] = Tail(@)]
             /\ got' = [got EXCEPT ![e] = Append(@, Head(extra[e]))] /\ UNCHANGED wire
    <3>1. Tail(x) \in Seq(Things) /\ Add(g, Head(x)) \in Seq(Things)
      BY <1>5, <2>1, HeadTailProperties, JoinIs
    <3>2. wire' = [wire EXCEPT ![e] = y]
      BY <1>5, <2>1 DEF HeaderTypes
    <3>3. got' = [got EXCEPT ![e] = Add(g, Head(x))]
      BY <1>5, <2>1 DEF HeaderTypes, Add
    <3>4. extra' = [extra EXCEPT ![e] = Tail(x)]
      BY <1>5, <2>1 DEF HeaderTypes
    <3> QED BY <1>5, <2>1, <3>1, <3>2, <3>3, <3>4
  <2>2. CASE /\ extra[e] = <<>> /\ wire[e] # <<>> /\ wire' = [wire EXCEPT ![e] = Tail(@)]
             /\ got' = IF Head(wire[e]) = Empty THEN got ELSE [got EXCEPT ![e] = Append(@, Head(wire[e]))]
             /\ UNCHANGED extra
    <3>1. Tail(y) \in Seq(Things) /\ Add(g, Head(y)) \in Seq(Things)
      BY <1>5, <2>2, HeadTailProperties, JoinIs
    <3>2. extra' = [extra EXCEPT ![e] = x]
      BY <1>5, <2>2 DEF HeaderTypes
    <3>3. got' = [got EXCEPT ![e] = IF Head(y) = Empty THEN g ELSE Add(g, Head(y))]
      BY <1>5, <2>2 DEF HeaderTypes, Add
    <3>4. wire' = [wire EXCEPT ![e] = Tail(y)]
      BY <1>5, <2>2 DEF HeaderTypes
    <3> QED BY <1>5, <2>2, <3>1, <3>2, <3>3, <3>4
  <2> QED BY <2>1, <2>2 DEF ReadChunk
<1>7. HeaderTypes'
  BY <1>1, <1>6 DEF HeaderTypes
<1>8. extra'[e] = x1 /\ wire'[e] = y1 /\ got'[e] = g1 /\ said'[Peer(e)] = b
  BY <1>1, <1>2, <1>3, <1>6 DEF HeaderTypes
<1>9. \E k \in 0 .. b : g1 = Run(p, 1, k) /\ Ahead(p, k, b, x1, y1)
  <2>1. Ahead(p, n, b, x, y) /\ g = Run(p, 1, n)
    BY <1>4, <1>5
  <2>2. /\ x # <<>> => /\ n + 1 \in 0 .. b /\ Add(Run(p, 1, n), Head(x)) = Run(p, 1, n + 1)
                       /\ Ahead(p, n + 1, b, Tail(x), y)
        /\ x = <<>> /\ y # <<>> =>
              \/ Head(y) = Empty /\ Ahead(p, n, b, x, Tail(y))
              \/ /\ Head(y) # Empty /\ n + 1 \in 0 .. b /\ Add(Run(p, 1, n), Head(y)) = Run(p, 1, n + 1)
                 /\ Ahead(p, n + 1, b, x, Tail(y))
    BY <2>1, ReadsNext
  <2>3. CASE x # <<>>
    BY <1>6, <2>1, <2>2, <2>3
  <2>4. CASE x = <<>>
    BY <1>6, <2>1, <2>2, <2>4
  <2> QED BY <2>3, <2>4
<1> QED BY <1>2, <1>7, <1>8, <1>9 DEF TakenBy

\* What an end writes comes behind what it wrote before.
LEMMA WritingAppends ==
  ASSUME HeaderTypes, NEW e \in Ends, WriteChunk(Peer(e))
  PROVE  /\ HeaderTypes'
         /\ said'[Peer(e)] = said[Peer(e)] + 1 /\ said[Peer(e)] \in Nat /\ cachedHeader'[Peer(e)] = <<>>
         /\ got' = got /\ extra' = extra /\ phase' = phase /\ drained' = drained /\ hsetup' = hsetup
         /\ wire'[e] = Add(Join(wire[e], cachedHeader[Peer(e)]), Data(Peer(e), said[Peer(e)] + 1))
         /\ wire'[Peer(e)] = wire[Peer(e)] /\ said'[e] = said[e] /\ cachedHeader'[e] = cachedHeader[e]
<1>1. PICK p \in Ends : p = Peer(e) /\ e = Peer(p) /\ p # e
  BY TwoEnds
<1>2. /\ said[p] < MaxChunks /\ said' = [said EXCEPT ![p] = @ + 1]
      /\ wire' = [wire EXCEPT ![e] = @ \o cachedHeader[p] \o <<Data(p, said'[p])>>]
      /\ cachedHeader' = [cachedHeader EXCEPT ![p] = <<>>]
      /\ headerSent' = (headerSent \/ (Udp /\ p = "client"))
      /\ UNCHANGED <<hsetup, got, drained, extra, phase>>
  BY <1>1 DEF WriteChunk, Speaks
<1>3. said[p] \in 0 .. MaxChunks /\ said'[p] = said[p] + 1 /\ said[p] + 1 \in 0 .. MaxChunks /\ said[p] + 1 \in Nat
  BY SMTT(30), <1>2, HeadersAssumption DEF HeaderTypes
<1>4. Data(p, said[p] + 1) \in Things
  BY <1>3, ThingsAre
<1>5. PICK y \in Seq(Things), c \in Seq(Things), d \in Things :
        y = wire[e] /\ c = cachedHeader[p] /\ d = Data(p, said[p] + 1)
  BY <1>4 DEF HeaderTypes
<1>6. Add(Join(y, c), d) \in Seq(Things)
  BY JoinIs
<1>7. wire' = [wire EXCEPT ![e] = Add(Join(y, c), d)]
  <2>1. wire' = [wire EXCEPT ![e] = Join(Join(y, c), <<d>>)]
    BY <1>2, <1>3, <1>5 DEF HeaderTypes, Join
  <2>2. PICK q \in Seq(Things) : q = Join(y, c)
    BY JoinIs
  <2>3. Join(q, <<d>>) = Add(q, d)
    BY JoinOne
  <2> QED BY <2>1, <2>2, <2>3
<1>8. headerSent' \in BOOLEAN
  BY <1>2
<1>9. cachedHeader' \in [Ends -> Seq(Things)] /\ \A f \in Ends : cachedHeader'[f] \in {<<>>, <<Header(f)>>}
  BY SMTT(30), <1>2 DEF HeaderTypes
<1>10. HeaderTypes'
  <2>1. said' \in [Ends -> 0 .. MaxChunks]
    BY <1>2, <1>3 DEF HeaderTypes
  <2>2. wire' \in [Ends -> Seq(Things)]
    BY <1>6, <1>7 DEF HeaderTypes
  <2> QED BY <1>2, <1>8, <1>9, <2>1, <2>2 DEF HeaderTypes
<1>11. said[p] \in Nat
  BY <1>3, HeadersAssumption
<1>12. cachedHeader'[p] = <<>> /\ cachedHeader'[e] = cachedHeader[e] /\ said'[e] = said[e]
  BY <1>1, <1>2 DEF HeaderTypes
<1>13. wire'[e] = Add(Join(wire[e], cachedHeader[p]), Data(p, said[p] + 1)) /\ wire'[p] = wire[p]
  BY <1>1, <1>5, <1>7 DEF HeaderTypes
<1> QED BY <1>1, <1>2, <1>3, <1>10, <1>11, <1>12, <1>13

\* A chunk written behind what is under way leaves what was taken as it is.
LEMMA WritingKeepsTaken ==
  ASSUME HeaderTypes, NEW e \in Ends, WriteChunk(Peer(e)), TakenBy(e), cachedHeader[Peer(e)] = <<>>
  PROVE  TakenBy(e)'
<1>1. PICK p \in Ends : p = Peer(e)
  BY TwoEnds
<1>2. PICK b \in Nat : b = said[p] /\ said'[p] = b + 1
  BY <1>1, WritingAppends
<1>3. PICK n \in 0 .. b : got[e] = Run(p, 1, n) /\ Ahead(p, n, b, extra[e], wire[e])
  BY <1>1, <1>2 DEF TakenBy
<1>0. PICK lead \in {<<>>, <<Empty>>} :
        Join(extra[e], wire[e]) = Join(lead, Run(p, n + 1, b)) /\ (lead # <<>> => extra[e] = <<>>)
  BY <1>3 DEF Ahead
<1>4. PICK x \in Seq(Things), y \in Seq(Things), d \in Things :
        x = extra[e] /\ y = wire[e] /\ d = Data(p, b + 1)
  BY <1>2, ThingsAre DEF HeaderTypes
<1>5. got'[e] = got[e] /\ extra'[e] = x /\ wire'[e] = Add(y, d)
  <2>1. Join(y, <<>>) = y
    BY JoinIs
  <2> QED BY <1>1, <1>2, <1>4, <2>1, WritingAppends
<1>6. PICK m \in Nat \ {0}, r \in Seq(Things) : m = n + 1 /\ m <= b + 1 /\ r = Run(p, m, b)
  <2>1. PICK m \in Nat \ {0} : m = n + 1 /\ m <= b + 1
    OBVIOUS
  <2>2. Run(p, m, b) \in Seq(Things)
    BY <2>1, RunIs
  <2> QED BY <2>1, <2>2
<1>7. Add(r, d) = Run(p, m, b + 1)
  BY <1>4, <1>6, RunGrows
<1>8. PICK l \in Seq(Things) : l = lead /\ Join(x, y) = Join(l, r)
  BY <1>0, <1>4, <1>6, LeadsAre
<1>9. Join(x, Add(y, d)) = Join(l, Add(r, d))
  <2>1. Join(x, Add(y, d)) = Add(Join(x, y), d) /\ Join(l, Add(r, d)) = Add(Join(l, r), d)
    BY JoinGrows
  <2> QED BY <1>8, <2>1
<1>10. Join(extra'[e], wire'[e]) = Join(lead, Run(p, n + 1, b + 1))
  BY <1>5, <1>6, <1>7, <1>8, <1>9
<1>11. Ahead(p, n, b + 1, extra'[e], wire'[e])
  BY <1>0, <1>4, <1>5, <1>10 DEF Ahead
<1>12. n \in 0 .. b + 1 /\ got'[e] = Run(p, 1, n)
  BY <1>3, <1>4, <1>5
<1> QED BY <1>1, <1>2, <1>11, <1>12 DEF TakenBy

\* What an end has before it depends on what it read, on what is under way to
\* it and on what its peer wrote.
LEMMA TakenStays ==
  ASSUME NEW e \in Ends, TakenBy(e), got'[e] = got[e], extra'[e] = extra[e], wire'[e] = wire[e],
         said'[Peer(e)] = said[Peer(e)]
  PROVE  TakenBy(e)'
BY DEF TakenBy

\* Right behind its peer's header an end has read nothing and has everything before it.
LEMMA TakenFirst ==
  ASSUME NEW e \in Ends, NEW b \in Nat, NEW x \in Seq(Things), NEW y \in Seq(Things), NEW lead \in {<<>>, <<Empty>>},
         Join(x, y) = Join(lead, Run(e, 1, b)), lead # <<>> => x = <<>>
  PROVE  0 \in 0 .. b /\ Run(e, 1, 0) = <<>> /\ Ahead(e, 0, b, x, y)
<1>1. 0 \in Nat /\ 0 + 1 = 1 /\ 0 \in 0 .. b
  OBVIOUS
<1>2. Run(e, 0 + 1, 0) = <<>>
  BY <1>1, RunEmpty
<1> QED BY <1>1, <1>2 DEF Ahead

\* The first chunk goes behind the header, and each other behind the one before.
LEMMA WritingExtends ==
  ASSUME NEW e \in Ends, NEW b \in Nat, NEW l \in Seq(Things)
  PROVE  /\ Add(Join(<<>>, l), Data(e, 1)) = Join(l, Run(e, 1, 1))
         /\ Add(Join(Join(l, Run(e, 1, b)), <<>>), Data(e, b + 1)) = Join(l, Run(e, 1, b + 1))
<1>1. PICK one \in Nat \ {0} : one = 1 /\ one <= b + 1 /\ one <= 0 + 1
  OBVIOUS
<1>2. Run(e, one, b) \in Seq(Things) /\ Run(e, one, 0) = <<>>
  <2>1. Run(e, one, b) \in Seq(Things)
    BY <1>1, RunIs
  <2>2. 0 \in Nat /\ 0 + 1 = one
    BY <1>1
  <2>3. Run(e, 0 + 1, 0) = <<>>
    BY <2>2, RunEmpty
  <2> QED BY <2>1, <2>2, <2>3
<1>3. PICK r \in Seq(Things), q \in Seq(Things) : r = Run(e, one, b) /\ q = <<>>
  BY <1>2, LeadsAre
<1>4. Data(e, 1) \in Things /\ Data(e, b + 1) \in Things
  BY ThingsAre
<1>5. PICK c \in Things, d \in Things : c = Data(e, 1) /\ d = Data(e, b + 1)
  BY <1>4
<1>6. Add(q, c) = Run(e, one, 1) /\ Add(r, d) = Run(e, one, b + 1)
  <2>1. Add(Run(e, one, b), Data(e, b + 1)) = Run(e, one, b + 1)
    BY <1>1, RunGrows
  <2>2. PICK z \in Nat : z = 0 /\ one <= z + 1 /\ z + 1 = 1
    BY <1>1
  <2>3. Add(Run(e, one, z), Data(e, z + 1)) = Run(e, one, z + 1)
    BY <1>1, <2>2, RunGrows
  <2> QED BY <1>2, <1>3, <1>5, <2>1, <2>2, <2>3
<1>7. Join(l, Add(q, c)) = Add(Join(l, q), c) /\ Join(l, Add(r, d)) = Add(Join(l, r), d)
  BY JoinGrows
<1>8. Join(l, q) = l /\ Join(q, l) = l
  BY <1>3, JoinIs
<1>9. PICK k \in Seq(Things) : k = Join(l, r)
  BY JoinIs
<1>10. Join(k, q) = k
  BY <1>3, JoinIs
<1> QED BY <1>1, <1>3, <1>5, <1>6, <1>7, <1>8, <1>9, <1>10

\* The client writes.
LEMMA ClientWrites ==
  ASSUME HeadersInv, WriteChunk("client")
  PROVE  HeadersInv'
<1>1. HeaderTypes /\ UpInv /\ DownInv /\ Handshaked("client")
  BY DEF HeadersInv, WriteChunk
<1>2. /\ HeaderTypes'
      /\ said'["client"] = said["client"] + 1 /\ said["client"] \in Nat /\ cachedHeader'["client"] = <<>>
      /\ got' = got /\ extra' = extra /\ phase' = phase /\ drained' = drained /\ hsetup' = hsetup
      /\ wire'["server"] = Add(Join(wire["server"], cachedHeader["client"]), Data("client", said["client"] + 1))
      /\ wire'["client"] = wire["client"] /\ said'["server"] = said["server"]
      /\ cachedHeader'["server"] = cachedHeader["server"]
  BY <1>1, TwoEnds, WritingAppends
<1>3. PICK b \in Nat : b = said["client"]
  BY <1>2
<1>4. DownInv'
  <2>1. TakenBy("client") => TakenBy("client")'
    BY <1>2, TwoEnds, TakenStays
  <2> QED BY <1>1, <1>2, <2>1 DEF DownInv, DownSilent, DownOnWire
<1>5. UpInv'
  <2>1. CASE drained["server"]
    <3>1. TakenBy("server") /\ cachedHeader["client"] = <<>> /\ phase # "handle"
      BY <1>1, <2>1 DEF UpInv
    <3>2. TakenBy("server")'
      BY <1>1, <3>1, TwoEnds, WritingKeepsTaken
    <3>3. said'["client"] > 0
      BY <1>2, <1>3
    <3> QED BY <1>2, <2>1, <3>1, <3>2, <3>3 DEF UpInv
  <2>2. CASE ~drained["server"]
    <3>1. phase = "handle" /\ got["server"] = <<>> /\ extra["server"] = <<>> /\ (UpUnsent \/ UpOnWire)
      BY <1>1, <2>2 DEF UpInv
    <3>2. SUFFICES UpOnWire'
      BY <1>2, <2>2, <3>1 DEF UpInv
    <3>3. said'["client"] > 0
      BY <1>2, <1>3
    <3>4. CASE UpUnsent
      <4>1. said["client"] = 0 /\ wire["server"] = <<>> /\ cachedHeader["client"] = <<Header("client")>>
        BY <1>1, <3>4, TwoEnds DEF UpUnsent, Handshaked, HeaderTypes
      <4>2. PICK l \in Seq(Things) : l = <<Header("client")>>
        BY LeadsAre
      <4>3. Add(Join(<<>>, l), Data("client", 1)) = Join(l, Run("client", 1, 1))
        BY TwoEnds, WritingExtends
      <4>4. wire'["server"] = Join(<<Header("client")>>, Run("client", 1, said'["client"]))
        BY <1>2, <4>1, <4>2, <4>3
      <4> QED BY <1>2, <3>3, <4>4 DEF UpOnWire
    <3>5. CASE UpOnWire
      <4>1. PICK lead \in {<<Header("client")>>, <<Header("client"), Empty>>} :
              /\ wire["server"] = Join(lead, Run("client", 1, said["client"]))
              /\ hsetup.kind = "ohttp" => lead = <<Header("client")>>
        BY <3>5 DEF UpOnWire
      <4>2. PICK l \in Seq(Things) : l = lead
        BY LeadsAre
      <4>3. Add(Join(Join(l, Run("client", 1, b)), <<>>), Data("client", b + 1)) = Join(l, Run("client", 1, b + 1))
        BY TwoEnds, WritingExtends
      <4>4. cachedHeader["client"] = <<>>
        BY <3>5 DEF UpOnWire
      <4>5. wire'["server"] = Join(lead, Run("client", 1, said'["client"]))
        BY <1>2, <1>3, <4>1, <4>2, <4>3, <4>4
      <4> QED BY <1>2, <3>3, <4>1, <4>5 DEF UpOnWire
    <3> QED BY <3>1, <3>4, <3>5
  <2> QED BY <2>1, <2>2
<1> QED BY <1>2, <1>4, <1>5 DEF HeadersInv

\* The server writes.
LEMMA ServerWrites ==
  ASSUME HeadersInv, WriteChunk("server")
  PROVE  HeadersInv'
<1>1. HeaderTypes /\ UpInv /\ DownInv /\ phase = "relay"
  BY DEF HeadersInv, WriteChunk
<1>2. /\ HeaderTypes'
      /\ said'["server"] = said["server"] + 1 /\ said["server"] \in Nat /\ cachedHeader'["server"] = <<>>
      /\ got' = got /\ extra' = extra /\ phase' = phase /\ drained' = drained /\ hsetup' = hsetup
      /\ wire'["client"] = Add(Join(wire["client"], cachedHeader["server"]), Data("server", said["server"] + 1))
      /\ wire'["server"] = wire["server"] /\ said'["client"] = said["client"]
      /\ cachedHeader'["client"] = cachedHeader["client"]
  BY <1>1, TwoEnds, WritingAppends
<1>3. PICK b \in Nat : b = said["server"]
  BY <1>2
<1>4. UpInv'
  <2>1. TakenBy("server") => TakenBy("server")'
    BY <1>2, TwoEnds, TakenStays
  <2> QED BY <1>1, <1>2, <2>1 DEF UpInv, UpUnsent, UpOnWire
<1>5. DownInv'
  <2>1. CASE drained["client"]
    <3>1. TakenBy("client") /\ cachedHeader["server"] = <<>>
      BY <1>1, <2>1 DEF DownInv
    <3>2. TakenBy("client")'
      BY <1>1, <3>1, TwoEnds, WritingKeepsTaken
    <3> QED BY <1>1, <1>2, <2>1, <3>2 DEF DownInv
  <2>2. CASE ~drained["client"]
    <3>1. DownSilent /\ DownOnWire
      BY <1>1, <2>2 DEF DownInv
    <3>2. PICK l \in Seq(Things) : l = <<Header("server")>>
      BY LeadsAre
    <3>3. /\ Add(Join(<<>>, l), Data("server", 1)) = Join(l, Run("server", 1, 1))
          /\ Add(Join(Join(l, Run("server", 1, b)), <<>>), Data("server", b + 1)) = Join(l, Run("server", 1, b + 1))
      BY TwoEnds, WritingExtends
    <3>4. wire'["client"] = Join(<<Header("server")>>, Run("server", 1, said'["server"]))
      BY <1>2, <1>3, <3>1, <3>2, <3>3 DEF DownOnWire
    <3> QED BY <1>1, <1>2, <2>2, <3>1, <3>4 DEF DownInv, DownSilent, DownOnWire
  <2> QED BY <2>1, <2>2
<1> QED BY <1>2, <1>4, <1>5 DEF HeadersInv

\* An end reads.
LEMMA EndsRead ==
  ASSUME HeadersInv, NEW e \in Ends, ReadChunk(e)
  PROVE  HeadersInv'
<1>1. HeaderTypes /\ UpInv /\ DownInv
  BY DEF HeadersInv
<1>2. drained[e] /\ phase = "relay" /\ UNCHANGED <<hsetup, said, cachedHeader, drained, headerSent, phase>>
  BY DEF ReadChunk
<1>3. TakenBy(e)
  BY <1>1, <1>2, TwoEnds DEF UpInv, DownInv
<1>4. TakenBy(e)' /\ HeaderTypes'
  BY <1>1, <1>3, ReadingTakes
<1>5. \A f \in Ends : f # e => got'[f] = got[f] /\ extra'[f] = extra[f] /\ wire'[f] = wire[f]
  BY <1>1 DEF ReadChunk, HeaderTypes
<1>6. \A f \in Ends : f # e /\ TakenBy(f) => TakenBy(f)'
  BY <1>2, <1>5, TakenStays
<1>7. UpInv'
  <2>1. CASE e = "server"
    BY <1>1, <1>2, <1>4, <2>1 DEF UpInv
  <2>2. CASE e = "client"
    BY <1>1, <1>2, <1>5, <1>6, <2>2, TwoEnds DEF UpInv, UpUnsent, UpOnWire
  <2> QED BY <2>1, <2>2, TwoEnds
<1>8. DownInv'
  <2>1. CASE e = "client"
    BY <1>1, <1>2, <1>4, <2>1 DEF DownInv
  <2>2. CASE e = "server"
    BY <1>1, <1>2, <1>5, <1>6, <2>2, TwoEnds DEF DownInv, DownSilent, DownOnWire
  <2> QED BY <2>1, <2>2, TwoEnds
<1> QED BY <1>4, <1>7, <1>8 DEF HeadersInv

\* The obfuscating client makes its header.
LEMMA ClientMakesHeader ==
  ASSUME HeadersInv, ClientHandshake
  PROVE  HeadersInv'
<1>1. HeaderTypes /\ UpInv /\ DownInv
  BY DEF HeadersInv
<1>2. /\ hsetup.kind = "ohttp" /\ ~(said["client"] > 0) /\ cachedHeader["client"] = <<>>
      /\ cachedHeader' = [cachedHeader EXCEPT !["client"] = <<Header("client")>>]
      /\ UNCHANGED <<hsetup, said, got, wire, drained, extra, headerSent, phase>>
  BY DEF ClientHandshake, Handshaked
<1>3. HeaderTypes'
  <2>1. <<Header("client")>> \in Seq(Things)
    BY LeadsAre
  <2> QED BY <1>1, <1>2, <2>1 DEF HeaderTypes
<1>4. cachedHeader'["client"] = <<Header("client")>> /\ cachedHeader'["server"] = cachedHeader["server"]
  BY <1>1, <1>2, TwoEnds DEF HeaderTypes
<1>5. ~drained["server"] /\ UpUnsent
  BY <1>1, <1>2 DEF UpInv, UpOnWire
<1>6. <<Header("client")>> # <<>>
  BY LeadsAre, ThingsAre, TwoEnds
<1>7. UpInv'
  BY <1>1, <1>2, <1>4, <1>5, <1>6 DEF UpInv, UpUnsent
<1>8. DownInv'
  <2>1. TakenBy("client") => TakenBy("client")'
    BY <1>2, TwoEnds, TakenStays
  <2> QED BY <1>1, <1>2, <1>4, <2>1 DEF DownInv, DownSilent, DownOnWire
<1> QED BY <1>3, <1>7, <1>8 DEF HeadersInv

\* What leads the stream to the server: the header, and an empty datagram at most.
LEMMA LeadIsCut ==
  ASSUME NEW lead \in {<<Header("client")>>, <<Header("client"), Empty>>}, NEW s \in Seq(Things)
  PROVE  /\ Tail(Join(lead, s)) = Join(Tail(lead), s) /\ Tail(lead) \in {<<>>, <<Empty>>}
         /\ Join(Tail(lead), s) \in Seq(Things)
<1>1. PICK l \in Seq(Things) : l = lead
  BY LeadsAre
<1>2. l # <<>> /\ Tail(l) \in {<<>>, <<Empty>>}
  BY <1>1, LeadsAre, ThingsAre, TwoEnds
<1>3. l # <<>>
  BY <1>2
<1>4. Tail(Join(l, s)) = Join(Tail(l), s) /\ Tail(l) \in Seq(Things)
  BY <1>3, JoinFirst
<1>5. PICK k \in Seq(Things) : k = Tail(l)
  BY <1>4
<1>6. Join(k, s) \in Seq(Things)
  BY JoinIs
<1> QED BY <1>1, <1>2, <1>4, <1>5, <1>6

\* Nothing in a row with a run or with a header.
LEMMA NothingBefore ==
  /\ \A x \in Seq(Things) : Join(<<>>, x) = x /\ Join(x, <<>>) = x
  /\ \A e \in Ends : Run(e, 1, 0) = <<>> /\ \A b \in Nat : Run(e, 1, b) \in Seq(Things)
  /\ <<>> \in Seq(Things)
<1>1. <<>> \in Seq(Things) /\ \A x \in Seq(Things) : Join(<<>>, x) = x /\ Join(x, <<>>) = x
  BY JoinIs, LeadsAre
<1>2. ASSUME NEW e \in Ends PROVE Run(e, 1, 0) = <<>>
  <2>1. PICK z \in Nat : z = 0 /\ z + 1 = 1
    OBVIOUS
  <2>2. Run(e, z + 1, z) = <<>>
    BY RunEmpty
  <2> QED BY <2>1, <2>2
<1>3. ASSUME NEW e \in Ends, NEW b \in Nat PROVE Run(e, 1, b) \in Seq(Things)
  <2>1. PICK one \in Nat \ {0} : one = 1 /\ one <= b + 1
    OBVIOUS
  <2>2. Run(e, one, b) \in Seq(Things)
    BY <2>1, RunIs
  <2> QED BY <2>1, <2>2
<1> QED BY <1>1, <1>2, <1>3

\* The server takes the request off, and answers, refuses or says nothing.
LEMMA ServerTakesHeader ==
  ASSUME HeadersInv, ServerHandshake
  PROVE  HeadersInv'
<1>1. HeaderTypes /\ UpInv /\ DownInv
  BY DEF HeadersInv
<1>2. /\ phase = "handle" /\ wire["server"] # <<>>
      /\ drained' = [drained EXCEPT !["server"] = TRUE]
      /\ UNCHANGED <<hsetup, said, got, headerSent>>
  BY DEF ServerHandshake
<1>3. ~drained["server"] /\ got["server"] = <<>> /\ extra["server"] = <<>> /\ UpOnWire
  BY <1>1, <1>2 DEF UpInv, UpUnsent
<1>4. /\ got["client"] = <<>> /\ extra["client"] = <<>> /\ wire["client"] = <<>> /\ said["server"] = 0
      /\ cachedHeader["server"] = <<>> /\ (drained["client"] <=> hsetup.kind = "ss")
  BY <1>1, <1>2 DEF DownInv, DownSilent
<1>5. PICK b \in Nat : b = said["client"]
  BY <1>1, HeadersAssumption, TwoEnds DEF HeaderTypes
<1>6. PICK lead \in {<<Header("client")>>, <<Header("client"), Empty>>}, r \in Seq(Things) :
        /\ r = Run("client", 1, b) /\ wire["server"] = Join(lead, r)
        /\ hsetup.kind = "ohttp" => lead = <<Header("client")>> /\ said["client"] > 0
  BY <1>3, <1>5, NothingBefore, TwoEnds DEF UpOnWire
<1>7. cachedHeader["client"] = <<>>
  BY <1>3 DEF UpOnWire
<1>8. drained'["server"] = TRUE /\ drained'["client"] = drained["client"] /\ drained' \in [Ends -> BOOLEAN]
  <2>1. TRUE \in BOOLEAN
    OBVIOUS
  <2> QED BY <1>1, <1>2, <2>1, TwoEnds DEF HeaderTypes
<1>9. Header("client") \in Things /\ Header("server") \in Things /\ Refusal \in Things
  BY ThingsAre, TwoEnds
\* Whatever the handler does, what it leaves of the stream is what the client wrote.
<1>10. ASSUME phase' # "handle", cachedHeader'["client"] = <<>>, NEW x \in Seq(Things), NEW y \in Seq(Things),
              extra'["server"] = x, wire'["server"] = y, NEW l \in {<<>>, <<Empty>>}, Join(x, y) = Join(l, r),
              l # <<>> => x = <<>>
       PROVE  UpInv'
  <2>1. 0 \in 0 .. b /\ Run("client", 1, 0) = <<>> /\ Ahead("client", 0, b, x, y)
    BY <1>6, <1>10, TwoEnds, TakenFirst
  <2>2. said'["client"] = b /\ got'["server"] = <<>>
    BY <1>2, <1>3, <1>5
  <2>3. TakenBy("server")'
    BY <1>10, <2>1, <2>2, TwoEnds DEF TakenBy
  <2> QED BY <1>2, <1>6, <1>8, <1>10, <2>3 DEF UpInv
<1>11. Tail(wire["server"]) = Join(Tail(lead), r) /\ Tail(lead) \in {<<>>, <<Empty>>}
       /\ Join(Tail(lead), r) \in Seq(Things)
  BY <1>6, LeadIsCut
\* Without obfuscation nothing comes along.
<1>12. ASSUME extra' = extra, wire'["server"] = Tail(wire["server"]), phase' # "handle",
              cachedHeader'["client"] = <<>>
       PROVE  UpInv'
  <2>1. PICK x \in Seq(Things), y \in Seq(Things) : x = <<>> /\ y = Join(Tail(lead), r)
    BY <1>11, NothingBefore
  <2>2. Join(x, y) = y
    BY <2>1, NothingBefore
  <2>3. extra'["server"] = x /\ wire'["server"] = y
    BY <1>3, <1>11, <1>12, <2>1
  <2> QED BY <1>10, <1>11, <1>12, <2>1, <2>2, <2>3
<1>13. CASE /\ hsetup.kind = "ss"
            /\ wire' = [wire EXCEPT !["server"] = Tail(@)]
            /\ phase' = "relay" /\ UNCHANGED <<cachedHeader, extra>>
  <2>1. wire'["server"] = Tail(wire["server"]) /\ wire'["client"] = wire["client"] /\ wire' \in [Ends -> Seq(Things)]
    BY <1>1, <1>11, <1>13, TwoEnds DEF HeaderTypes
  <2>2. UpInv'
    BY <1>7, <1>12, <1>13, <2>1
  <2>3. DownInv'
    <3>1. PICK q \in Seq(Things), z \in Nat : q = <<>> /\ z = 0 /\ q \in {<<>>, <<Empty>>}
      BY NothingBefore
    <3>2. Join(q, q) = Join(q, Run("server", 1, z))
      BY <3>1, NothingBefore, TwoEnds
    <3>3. 0 \in 0 .. z /\ Run("server", 1, 0) = <<>> /\ Ahead("server", 0, z, q, q)
      BY <3>1, <3>2, TwoEnds, TakenFirst
    <3>4. TakenBy("client")'
      BY <1>2, <1>4, <1>13, <2>1, <3>1, <3>3, TwoEnds DEF TakenBy
    <3> QED BY <1>4, <1>8, <1>13, <3>4 DEF DownInv
  <2>4. HeaderTypes'
    BY <1>1, <1>2, <1>8, <1>13, <2>1 DEF HeaderTypes
  <2> QED BY <2>2, <2>3, <2>4 DEF HeadersInv
<1>14. CASE /\ Relay
            /\ wire' = [wire EXCEPT !["server"] = Tail(@)]
            /\ cachedHeader' = [cachedHeader EXCEPT !["server"] = <<Header("server")>>]
            /\ phase' = "relay" /\ UNCHANGED extra
  <2>1. wire'["server"] = Tail(wire["server"]) /\ wire'["client"] = wire["client"] /\ wire' \in [Ends -> Seq(Things)]
    BY <1>1, <1>11, <1>14, TwoEnds DEF HeaderTypes
  <2>2. cachedHeader'["server"] = <<Header("server")>> /\ cachedHeader'["client"] = <<>>
    BY <1>1, <1>7, <1>14, TwoEnds DEF HeaderTypes
  <2>3. UpInv'
    BY <1>12, <1>14, <2>1, <2>2
  <2>4. ~drained'["client"]
    BY <1>4, <1>8, <1>14 DEF Relay
  <2>5. DownInv'
    BY <1>2, <1>4, <1>14, <2>1, <2>2, <2>4 DEF DownInv, DownSilent, DownOnWire
  <2>6. HeaderTypes'
    <3>1. <<Header("server")>> \in Seq(Things)
      BY LeadsAre
    <3> QED BY <1>1, <1>2, <1>8, <1>14, <2>1, <3>1 DEF HeaderTypes
  <2> QED BY <2>3, <2>5, <2>6 DEF HeadersInv
<1>15. CASE /\ Relay
            /\ wire' = [wire EXCEPT !["server"] = Tail(@), !["client"] = @ \o <<Refusal>>]
            /\ phase' = "refused" /\ UNCHANGED <<cachedHeader, extra>>
  <2>1. PICK q \in Seq(Things) : q = <<Refusal>>
    BY LeadsAre
  <2>2. wire["client"] \o <<Refusal>> = q
    <3>1. Join(<<>>, q) = q
      BY NothingBefore
    <3> QED BY <1>4, <2>1, <3>1 DEF Join
  <2>3. wire' = [wire EXCEPT !["server"] = Tail(wire["server"]), !["client"] = q]
    BY <1>15, <2>2
  <2>4. wire'["server"] = Tail(wire["server"]) /\ wire'["client"] = q /\ wire' \in [Ends -> Seq(Things)]
    BY <1>1, <1>11, <2>3, TwoEnds DEF HeaderTypes
  <2>5. UpInv'
    BY <1>7, <1>12, <1>15, <2>4
  <2>6. ~drained'["client"]
    BY <1>4, <1>8, <1>15 DEF Relay
  <2>7. DownInv'
    BY <1>2, <1>4, <1>15, <2>1, <2>4, <2>6 DEF DownInv, DownSilent
  <2>8. HeaderTypes'
    BY <1>1, <1>2, <1>8, <1>15, <2>4 DEF HeaderTypes
  <2> QED BY <2>5, <2>7, <2>8 DEF HeadersInv
<1>16. ASSUME hsetup.kind = "ohttp", phase' = "relay", NEW n \in 1 .. Len(wire["server"]),
              NEW along, along = SubSeq(wire["server"], 2, n),
              NEW rest, rest = SubSeq(wire["server"], n + 1, Len(wire["server"])),
              extra' = [extra EXCEPT !["server"] = along],
              IF along # <<>>
              THEN /\ cachedHeader' = [cachedHeader EXCEPT !["server"] = <<Header("server")>>]
                   /\ wire' = [wire EXCEPT !["server"] = rest]
              ELSE /\ wire' = [wire EXCEPT !["server"] = rest, !["client"] = @ \o <<Header("server")>>]
                   /\ UNCHANGED cachedHeader
       PROVE  HeadersInv'
  <2>1. Join(along, rest) = r /\ along \in Seq(Things) /\ rest \in Seq(Things)
    <3>1. wire["server"] = <<Header("client")>> \o r
      BY <1>6, <1>16 DEF Join
    <3>2. PICK k : k = <<Header("client")>> \o r /\ k = wire["server"]
      BY <3>1
    <3>3. n \in 1 .. Len(<<Header("client")>> \o r)
      BY <1>16, <3>1
    <3>4. PICK h \in Things : h = Header("client")
      BY <1>9
    <3>5. n \in 1 .. Len(<<h>> \o r)
      BY <3>3, <3>4
    <3>6. /\ SubSeq(<<h>> \o r, 2, n) \o SubSeq(<<h>> \o r, n + 1, Len(<<h>> \o r)) = r
          /\ SubSeq(<<h>> \o r, 2, n) \in Seq(Things) /\ SubSeq(<<h>> \o r, n + 1, Len(<<h>> \o r)) \in Seq(Things)
      BY <3>5, CutBehind
    <3>7. along = SubSeq(<<h>> \o r, 2, n) /\ rest = SubSeq(<<h>> \o r, n + 1, Len(<<h>> \o r))
      BY <1>16, <3>1, <3>4
    <3> QED BY <3>6, <3>7 DEF Join
  <2>2. PICK q \in Seq(Things) : q = <<Header("server")>> /\ q # <<>>
    BY <1>9, LeadsAre
  <2>3. wire["client"] \o <<Header("server")>> = q
    <3>1. Join(<<>>, q) = q
      BY NothingBefore
    <3> QED BY <1>4, <2>2, <3>1 DEF Join
  <2>4. /\ wire'["server"] = rest /\ wire' \in [Ends -> Seq(Things)] /\ extra' \in [Ends -> Seq(Things)]
        /\ extra'["server"] = along /\ extra'["client"] = <<>> /\ cachedHeader'["client"] = <<>>
    <3>1. CASE along # <<>>
      <4>1. wire' = [wire EXCEPT !["server"] = rest]
            /\ cachedHeader' = [cachedHeader EXCEPT !["server"] = <<Header("server")>>]
        BY <1>16, <3>1
      <4> QED BY <1>1, <1>4, <1>7, <1>16, <2>1, <4>1, TwoEnds DEF HeaderTypes
    <3>2. CASE along = <<>>
      <4>1. wire' = [wire EXCEPT !["server"] = rest, !["client"] = q] /\ cachedHeader' = cachedHeader
        BY <1>16, <2>3, <3>2
      <4> QED BY <1>1, <1>4, <1>7, <1>16, <2>1, <4>1, TwoEnds DEF HeaderTypes
    <3> QED BY <3>1, <3>2
  <2>5. \/ wire'["client"] = <<>> /\ cachedHeader'["server"] = <<Header("server")>>
        \/ wire'["client"] = q /\ cachedHeader'["server"] = <<>>
    BY <1>1, <1>4, <1>16, <2>1, <2>3, TwoEnds DEF HeaderTypes
  <2>6. UpInv'
    <3>1. PICK l \in Seq(Things) : l = <<>> /\ l \in {<<>>, <<Empty>>} /\ Join(l, r) = r
      BY NothingBefore
    <3> QED BY <1>10, <1>16, <2>1, <2>4, <3>1
  <2>7. DownInv'
    <3>1. ~drained'["client"] /\ said'["server"] = 0 /\ got'["client"] = <<>>
      BY <1>2, <1>4, <1>8, <1>16
    <3>2. Join(q, Run("server", 1, 0)) = q
      BY NothingBefore, TwoEnds
    <3> QED BY <1>16, <2>2, <2>4, <2>5, <3>1, <3>2 DEF DownInv, DownSilent, DownOnWire
  <2>8. cachedHeader' \in [Ends -> Seq(Things)] /\ \A e \in Ends : cachedHeader'[e] \in {<<>>, <<Header(e)>>}
    <3>1. cachedHeader' = cachedHeader \/ cachedHeader' = [cachedHeader EXCEPT !["server"] = q]
      BY <1>16, <2>2
    <3>2. cachedHeader' \in [Ends -> Seq(Things)]
      BY <1>1, <3>1 DEF HeaderTypes
    <3> QED BY <2>2, <2>4, <2>5, <3>2, TwoEnds
  <2>9. HeaderTypes'
    BY <1>1, <1>2, <1>8, <1>16, <2>4, <2>8 DEF HeaderTypes
  <2> QED BY <2>6, <2>7, <2>9 DEF HeadersInv
<1> QED BY <1>13, <1>14, <1>15, <1>16 DEF ServerHandshake

\* The client takes the answer off.
LEMMA ClientTakesHeader ==
  ASSUME HeadersInv, DrainHeader
  PROVE  HeadersInv'
<1>1. HeaderTypes /\ UpInv /\ DownInv
  BY DEF HeadersInv
<1>2. /\ ~drained["client"] /\ wire["client"] # <<>> /\ drained' = [drained EXCEPT !["client"] = TRUE]
      /\ phase' = IF Head(wire["client"]) = Refusal THEN "over" ELSE phase
      /\ UNCHANGED <<hsetup, said, got, cachedHeader, headerSent>>
  BY DEF DrainHeader
<1>3. phase \in {"refused", "relay"} /\ got["client"] = <<>> /\ extra["client"] = <<>>
  BY <1>1, <1>2 DEF HeaderTypes, DownInv, DownSilent
<1>4. drained'["client"] = TRUE /\ drained'["server"] = drained["server"] /\ drained' \in [Ends -> BOOLEAN]
  <2>1. TRUE \in BOOLEAN
    OBVIOUS
  <2> QED BY <1>1, <1>2, <2>1, TwoEnds DEF HeaderTypes
\* The way to the server is left alone.
<1>5. ASSUME phase' # "handle", extra'["server"] = extra["server"], wire'["server"] = wire["server"]
      PROVE  UpInv'
  <2>1. drained["server"]
    BY <1>1, <1>3 DEF UpInv
  <2>2. TakenBy("server")'
    BY <1>1, <1>2, <1>5, <2>1, TwoEnds, TakenStays DEF UpInv
  <2> QED BY <1>1, <1>2, <1>4, <1>5, <2>1, <2>2 DEF UpInv
<1>6. CASE phase = "refused"
  <2>1. wire["client"] = <<Refusal>> /\ Head(wire["client"]) = Refusal /\ Tail(wire["client"]) = <<>>
    BY <1>1, <1>6, ThingsAre, LeadsAre DEF DownInv
  <2>2. wire' = [wire EXCEPT !["client"] = Tail(@)] /\ UNCHANGED extra /\ phase' = "over"
    BY <1>2, <2>1 DEF DrainHeader
  <2>3. wire' \in [Ends -> Seq(Things)] /\ wire'["server"] = wire["server"]
    BY <1>1, <2>1, <2>2, NothingBefore, TwoEnds DEF HeaderTypes
  <2>4. UpInv'
    BY <1>5, <2>2, <2>3
  <2>5. DownInv'
    BY <1>2, <1>3, <1>4, <2>2 DEF DownInv, DownSilent
  <2>6. HeaderTypes'
    BY <1>1, <1>2, <1>4, <2>2, <2>3 DEF HeaderTypes
  <2> QED BY <2>4, <2>5, <2>6 DEF HeadersInv
<1>7. CASE phase = "relay"
  <2>1. PICK b \in Nat, r \in Seq(Things) : b = said["server"] /\ r = Run("server", 1, b)
    <3>1. said["server"] \in Nat
      BY <1>1, HeadersAssumption, TwoEnds DEF HeaderTypes
    <3> QED BY <3>1, NothingBefore, TwoEnds
  <2>2. cachedHeader["server"] = <<>> /\ wire["client"] = Join(<<Header("server")>>, r)
    BY <1>1, <1>2, <1>7, <2>1 DEF DownInv, DownOnWire
  <2>3. PICK h \in Things : h = Header("server") /\ h # Refusal
    BY ThingsAre, TwoEnds
  <2>4. PICK q \in Seq(Things) : q = <<h>> /\ Head(q) = h /\ Tail(q) = <<>> /\ q # <<>>
    BY LeadsAre
  <2>5. Head(wire["client"]) = h /\ Tail(wire["client"]) = r
    <3>1. q # <<>>
      BY <2>4
    <3>2. Head(Join(q, r)) = Head(q) /\ Tail(Join(q, r)) = Join(Tail(q), r)
      BY <3>1, JoinFirst
    <3>3. Join(<<>>, r) = r
      BY NothingBefore
    <3> QED BY <2>2, <2>3, <2>4, <3>2, <3>3
  <2>6. phase' = "relay"
    BY <1>2, <1>7, <2>3, <2>5
  <2>7. PICK x \in Seq(Things), y \in Seq(Things) :
          /\ Join(x, y) = r /\ extra' = [extra EXCEPT !["client"] = x] /\ wire' = [wire EXCEPT !["client"] = y]
    <3>1. CASE hsetup.kind # "ohttp"
      <4>1. wire' = [wire EXCEPT !["client"] = Tail(@)] /\ UNCHANGED extra
        BY <3>1 DEF DrainHeader
      <4>2. PICK x \in Seq(Things) : x = <<>>
        BY NothingBefore
      <4>3. extra' = [extra EXCEPT !["client"] = x]
        BY <1>1, <1>3, <4>1, <4>2 DEF HeaderTypes
      <4>4. Join(x, r) = r /\ wire' = [wire EXCEPT !["client"] = r]
        BY <2>5, <4>1, <4>2, NothingBefore
      <4> QED BY <4>3, <4>4
    <3>2. CASE hsetup.kind = "ohttp"
      <4>1. PICK n \in 1 .. Len(wire["client"]) :
              /\ extra' = [extra EXCEPT !["client"] = SubSeq(wire["client"], 2, n)]
              /\ wire' = [wire EXCEPT !["client"] = SubSeq(wire["client"], n + 1, Len(wire["client"]))]
        BY <2>3, <2>5, <3>2 DEF DrainHeader
      <4>2. wire["client"] = <<h>> \o r
        BY <2>2, <2>3 DEF Join
      <4>3. n \in 1 .. Len(<<h>> \o r)
        BY <4>1, <4>2
      <4>4. /\ SubSeq(<<h>> \o r, 2, n) \o SubSeq(<<h>> \o r, n + 1, Len(<<h>> \o r)) = r
            /\ SubSeq(<<h>> \o r, 2, n) \in Seq(Things) /\ SubSeq(<<h>> \o r, n + 1, Len(<<h>> \o r)) \in Seq(Things)
        BY <4>3, CutBehind
      <4>5. PICK x \in Seq(Things), y \in Seq(Things) :
              /\ x = SubSeq(<<h>> \o r, 2, n) /\ y = SubSeq(<<h>> \o r, n + 1, Len(<<h>> \o r))
        BY <4>4
      <4>6. Join(x, y) = r
        BY <4>4, <4>5 DEF Join
      <4> QED BY <4>1, <4>2, <4>5, <4>6
    <3> QED BY <3>1, <3>2
  <2>8. /\ wire' \in [Ends -> Seq(Things)] /\ extra' \in [Ends -> Seq(Things)] /\ wire'["server"] = wire["server"]
        /\ extra'["server"] = extra["server"] /\ extra'["client"] = x /\ wire'["client"] = y
    BY <1>1, <2>7, TwoEnds DEF HeaderTypes
  <2>9. UpInv'
    BY <1>5, <2>6, <2>8
  <2>10. DownInv'
    <3>1. PICK l \in Seq(Things) : l = <<>> /\ l \in {<<>>, <<Empty>>} /\ Join(l, r) = r
      BY NothingBefore
    <3>2. 0 \in 0 .. b /\ Run("server", 1, 0) = <<>> /\ Ahead("server", 0, b, x, y)
      <4>1. Join(x, y) = Join(l, Run("server", 1, b)) /\ l \in {<<>>, <<Empty>>} /\ (l # <<>> => x = <<>>)
        BY <2>1, <2>7, <3>1
      <4> QED BY <4>1, TwoEnds, TakenFirst
    <3>3. said'["server"] = b /\ got'["client"] = <<>>
      BY <1>2, <1>3, <2>1
    <3>4. TakenBy("client")'
      BY <2>8, <3>2, <3>3, TwoEnds DEF TakenBy
    <3> QED BY <1>2, <1>4, <2>2, <2>6, <3>4 DEF DownInv
  <2>11. HeaderTypes'
    BY <1>1, <1>2, <1>4, <2>6, <2>8 DEF HeaderTypes
  <2> QED BY <2>9, <2>10, <2>11 DEF HeadersInv
<1> QED BY <1>3, <1>6, <1>7

\* Both ways keep their shape whatever either end does.
LEMMA HeadersStep ==
  ASSUME HeadersInv, [HeadersNext]_headerVars
  PROVE  HeadersInv'
<1>1. CASE HeadersNext
  BY <1>1, ClientMakesHeader, ServerTakesHeader, ClientTakesHeader, ClientWrites, ServerWrites, EndsRead, TwoEnds
     DEF HeadersNext
<1>2. CASE UNCHANGED headerVars
  <2>1. TakenBy("client") => TakenBy("client")'
    BY <1>2 DEF headerVars, TakenBy
  <2>2. TakenBy("server") => TakenBy("server")'
    BY <1>2 DEF headerVars, TakenBy
  <2>3. HeaderTypes'
    BY <1>2 DEF headerVars, HeadersInv, HeaderTypes
  <2>4. UpInv' /\ DownInv'
    BY <1>2, <2>1, <2>2
       DEF headerVars, HeadersInv, UpInv, UpUnsent, UpOnWire, DownInv, DownSilent, DownOnWire
  <2> QED BY <2>3, <2>4 DEF HeadersInv
<1> QED BY <1>1, <1>2

\* At the start the header is cached, or it is under way, or the client has yet to make it.
LEMMA HeadersStart ==
  ASSUME HeadersInit
  PROVE  HeadersInv
<1>1. /\ got = [e \in Ends |-> <<>>] /\ extra = [e \in Ends |-> <<>>] /\ said = [e \in Ends |-> 0]
      /\ phase = "handle" /\ headerSent = (Udp /\ hsetup.noDelay)
      /\ drained = [e \in Ends |-> e = "client" /\ hsetup.kind = "ss"]
      /\ hsetup \in [kind : {"relay", "relayudp", "ss", "ohttp"}, noDelay : BOOLEAN, first : Ends]
      /\ hsetup.kind = "ohttp" => ~hsetup.noDelay
  BY DEF HeadersInit
<1>2. ConnectHeader.sent \in {<<>>, <<Header("client")>>, <<Header("client"), Empty>>}
      /\ ConnectHeader.kept \in {<<>>, <<Header("client")>>}
  BY DEF ConnectHeader
<1>3. ConnectHeader.sent \in Seq(Things) /\ ConnectHeader.kept \in Seq(Things)
  BY <1>2, LeadsAre
<1>4. <<>> \in Seq(Things)
  BY NothingBefore
<1>5. wire \in [Ends -> Seq(Things)] /\ wire["server"] = ConnectHeader.sent /\ wire["client"] = <<>>
  BY <1>3, <1>4, TwoEnds DEF HeadersInit
<1>6. cachedHeader \in [Ends -> Seq(Things)] /\ cachedHeader["server"] = <<>>
      /\ cachedHeader["client"] = IF hsetup.kind # "ohttp" THEN ConnectHeader.kept ELSE <<>>
  BY <1>3, <1>4, TwoEnds DEF HeadersInit
<1>7. 0 \in 0 .. MaxChunks
  BY HeadersAssumption
<1>8. headerSent \in BOOLEAN /\ drained \in [Ends -> BOOLEAN]
  BY <1>1
<1>9. HeaderTypes
  BY <1>1, <1>2, <1>4, <1>5, <1>6, <1>7, <1>8, TwoEnds DEF HeaderTypes
<1>10. UpInv
  <2>1. CASE hsetup.noDelay
    <3>1. PICK lead \in Seq(Things) :
            lead \in {<<Header("client")>>, <<Header("client"), Empty>>} /\ wire["server"] = lead
            /\ cachedHeader["client"] = <<>> /\ hsetup.kind # "ohttp"
      BY <1>1, <1>3, <1>5, <1>6, <2>1 DEF ConnectHeader
    <3>2. Join(lead, Run("client", 1, said["client"])) = lead
      BY <1>1, NothingBefore, TwoEnds
    <3>3. UpOnWire
      BY <3>1, <3>2 DEF UpOnWire
    <3> QED BY <1>1, <3>3, TwoEnds DEF UpInv
  <2>2. CASE ~hsetup.noDelay
    <3>1. wire["server"] = <<>> /\ (hsetup.kind # "ohttp" => cachedHeader["client"] = <<Header("client")>>)
      BY <1>5, <1>6, <2>2 DEF ConnectHeader
    <3>2. <<Header("client")>> # <<>>
      BY LeadsAre, ThingsAre, TwoEnds
    <3>3. UpUnsent
      BY <1>1, <3>1, <3>2, TwoEnds DEF UpUnsent
    <3> QED BY <1>1, <3>3, TwoEnds DEF UpInv
  <2> QED BY <2>1, <2>2
<1>11. DownInv
  BY <1>1, <1>5, <1>6, TwoEnds DEF DownInv, DownSilent
<1> QED BY <1>9, <1>10, <1>11 DEF HeadersInv

\* What an end read is the beginning of what was said, and no more than was said.
LEMMA RunIsPrefix ==
  ASSUME NEW e \in Ends, NEW b \in Nat, NEW n \in 0 .. b
  PROVE  IsPrefix(Run(e, 1, n), [i \in 1 .. b |-> Data(e, i)]) /\ Len(Run(e, 1, n)) = n
<1>1. n \in Nat /\ n <= b
  OBVIOUS
<1>2. PICK one \in Nat \ {0} : one = 1 /\ one <= n + 1 /\ one <= b + 1
  <2>1. 1 \in Nat \ {0} /\ 1 <= n + 1 /\ 1 <= b + 1
    BY <1>1
  <2> QED BY <2>1
<1>3. /\ Run(e, one, n) \in Seq(Things) /\ Len(Run(e, one, n)) = n - one + 1
      /\ \A i \in 1 .. n - one + 1 : Run(e, one, n)[i] = Data(e, one + i - 1)
  BY <1>1, <1>2, RunIs
<1>4. /\ Run(e, one, b) \in Seq(Things) /\ Len(Run(e, one, b)) = b - one + 1
      /\ \A i \in 1 .. b - one + 1 : Run(e, one, b)[i] = Data(e, one + i - 1)
  BY <1>2, RunIs
<1> DEFINE all == [i \in 1 .. b |-> Data(e, i)]
<1>5. Run(e, one, b) = all
  <2>1. Run(e, one, b) = [i \in 1 .. b |-> Data(e, one + i - 1)]
    BY <1>2 DEF Run
  <2>2. \A i \in 1 .. b : Data(e, one + i - 1) = Data(e, i)
    BY <1>2
  <2> QED BY <2>1, <2>2
<1>6. /\ all \in Seq(Things) /\ Len(all) = b /\ \A i \in 1 .. b : all[i] = Data(e, i)
  BY <1>2, <1>4, <1>5
<1>7. /\ Run(e, 1, n) \in Seq(Things) /\ Len(Run(e, 1, n)) = n /\ \A i \in 1 .. n : Run(e, 1, n)[i] = Data(e, i)
  <2>1. \A i \in 1 .. n : one + i - 1 = i
    BY <1>2
  <2> QED BY <1>1, <1>2, <1>3, <2>1
<1>8. /\ SubSeq(all, 1, n) \in Seq(Things) /\ Len(SubSeq(all, 1, n)) = n
      /\ \A i \in 1 .. n : SubSeq(all, 1, n)[i] = all[i]
  <2>1. \A i \in 1 .. n : all[i] \in Things
    <3>1. \A i \in 1 .. n : i \in Nat /\ i \in 1 .. b
      BY <1>1
    <3> QED BY <1>6, <3>1, ThingsAre
  <2>2. SubSeq(all, one, n) \in Seq(Things) /\ Len(SubSeq(all, one, n)) = n - one + 1
        /\ \A i \in 1 .. n - one + 1 : SubSeq(all, one, n)[i] = all[one + i - 1]
    <3>1. one \in 1 .. Len(all) + 1 /\ n \in one - 1 .. Len(all)
      BY <1>1, <1>2, <1>6
    <3>2. \A i \in one .. n : all[i] \in Things
      BY <1>2, <2>1
    <3> HIDE DEF all
    <3> QED BY <1>2, <1>6, <3>1, <3>2, SubSeqProperties
  <2>3. \A i \in 1 .. n : one + i - 1 = i
    BY <1>2
  <2> HIDE DEF all
  <2> QED BY <1>1, <1>2, <2>2, <2>3
<1>9. Run(e, 1, n) = SubSeq(all, 1, n)
  <2>1. \A i \in 1 .. n : Run(e, 1, n)[i] = SubSeq(all, 1, n)[i]
    <3>1. \A i \in 1 .. n : i \in 1 .. b
      BY <1>1
    <3> HIDE DEF all
    <3> QED BY <1>6, <1>7, <1>8, <3>1
  <2> HIDE DEF all
  <2> QED BY <1>7, <1>8, <2>1, SeqEqual
<1> HIDE DEF all
<1>10. IsPrefix(Run(e, 1, n), all)
  BY <1>1, <1>6, <1>7, <1>9 DEF IsPrefix
<1> QED BY <1>7, <1>10 DEF all

\* Once data is read in order, at most what was said is read.
LEMMA HeadersMean ==
  ASSUME HeadersInv
  PROVE  HeadersInOrder
<1> SUFFICES ASSUME NEW e \in Ends
             PROVE  IsPrefix(got[e], [i \in 1 .. said[Peer(e)] |-> Data(Peer(e), i)])
  BY DEF HeadersInOrder
<1>1. PICK p \in Ends : p = Peer(e)
  BY TwoEnds
<1>2. PICK b \in Nat : b = said[p]
  BY <1>1, HeadersAssumption DEF HeadersInv, HeaderTypes
<1>3. \E n \in 0 .. b : got[e] = Run(p, 1, n)
  <2>1. CASE got[e] = <<>>
    <3>1. Run(p, 1, 0) = <<>> /\ 0 \in 0 .. b
      BY NothingBefore
    <3> QED BY <2>1, <3>1
  <2>2. CASE TakenBy(e)
    BY <1>1, <1>2, <2>2 DEF TakenBy
  <2>3. got[e] = <<>> \/ TakenBy(e)
    <3>1. CASE e = "server"
      BY <3>1 DEF HeadersInv, UpInv
    <3>2. CASE e = "client"
      BY <3>2 DEF HeadersInv, HeaderTypes, DownInv, DownSilent
    <3> QED BY <3>1, <3>2, TwoEnds
  <2> QED BY <2>1, <2>2, <2>3
<1> QED BY <1>1, <1>2, <1>3, RunIsPrefix

\* No end has more before it than was said.
LEMMA HeadersBounded ==
  ASSUME HeadersInv
  PROVE  HeadersTypeOK
<1>1. HeaderTypes /\ UpInv /\ DownInv
  BY DEF HeadersInv
<1>2. ASSUME NEW e \in Ends PROVE Len(got[e]) <= 2 * MaxChunks /\ Len(extra[e]) <= 2 * MaxChunks
  <2>1. PICK p \in Ends : p = Peer(e)
    BY TwoEnds
  <2>2. PICK b \in Nat : b = said[p] /\ b <= MaxChunks
    BY SMTT(30), <1>1, HeadersAssumption DEF HeaderTypes
  <2>3. PICK x \in Seq(Things), y \in Seq(Things) : x = extra[e] /\ y = wire[e]
    BY <1>1 DEF HeaderTypes
  <2>4. CASE got[e] = <<>> /\ extra[e] = <<>>
    BY <2>4, HeadersAssumption
  <2>5. CASE TakenBy(e)
    <3>1. PICK n \in 0 .. b : got[e] = Run(p, 1, n) /\ Ahead(p, n, b, x, y)
      BY <2>1, <2>2, <2>3, <2>5 DEF TakenBy
    <3>2. Len(got[e]) = n
      BY <3>1, RunIsPrefix
    <3>3. Len(x) <= b
      <4>1. PICK lead \in {<<>>, <<Empty>>} :
              Join(x, y) = Join(lead, Run(p, n + 1, b)) /\ (lead # <<>> => x = <<>>)
        BY <3>1 DEF Ahead
      <4>2. CASE x = <<>>
        BY <4>2
      <4>3. CASE x # <<>>
        <5>1. PICK m \in Nat \ {0} : m = n + 1 /\ m <= b + 1
          OBVIOUS
        <5>2. PICK r \in Seq(Things) : r = Run(p, m, b) /\ Len(r) = b - m + 1
          BY <5>1, RunIs
        <5>3. Join(x, y) = r
          BY <4>1, <4>3, <5>1, <5>2, NothingBefore
        <5>4. Len(x) + Len(y) = Len(r) /\ Len(x) \in Nat /\ Len(y) \in Nat
          BY <5>3, JoinLen
        <5> QED BY <5>1, <5>2, <5>4
      <4> QED BY <4>2, <4>3
    <3> QED BY <2>2, <2>3, <3>2, <3>3, HeadersAssumption
  <2>6. (got[e] = <<>> /\ extra[e] = <<>>) \/ TakenBy(e)
    <3>1. CASE e = "server"
      BY <1>1, <3>1 DEF UpInv
    <3>2. CASE e = "client"
      BY <1>1, <3>2 DEF HeaderTypes, DownInv, DownSilent
    <3> QED BY <3>1, <3>2, TwoEnds
  <2> QED BY <2>4, <2>5, <2>6
<1> QED BY <1>1, <1>2, TwoEnds DEF HeadersTypeOK, HeaderTypes

\* What each end read is the beginning of what the other wrote: no header is
\* taken for data, sent twice or lost, whatever the protocol, whichever end
\* speaks first, however the two goroutines of a side take turns (relay.go,
\* ss.go, obfs.go).
THEOREM HeadersInOrderHolds == HeadersSpec => [](HeadersTypeOK /\ HeadersInOrder)
<1>1. HeadersInit => HeadersInv
  BY HeadersStart
<1>2. HeadersInv /\ [HeadersNext]_headerVars => HeadersInv'
  BY HeadersStep
<1>3. HeadersInv => HeadersTypeOK /\ HeadersInOrder
  BY HeadersMean, HeadersBounded
<1> QED BY <1>1, <1>2, <1>3, PTL DEF HeadersSpec

--------------------------------------------------------------------------------
(* Handlers that relay. *)

\* A sequence of numbers without its first ones.
LEMMA WireCut ==
  ASSUME NEW w \in Seq(Nat), NEW n \in 0 .. Len(w) - 1
  PROVE  /\ SubSeq(w, n + 2, Len(w)) \in Seq(Nat) /\ Len(SubSeq(w, n + 2, Len(w))) = Len(w) - n - 1
         /\ \A i \in 1 .. Len(w) - n - 1 : SubSeq(w, n + 2, Len(w))[i] = w[n + 1 + i]
<1>1. Len(w) \in Nat
  BY LenProperties
<1>2. PICK a \in Nat, b \in Nat : a = n + 2 /\ b = Len(w) /\ a \in 1 .. Len(w) + 1 /\ b \in a - 1 .. Len(w)
  BY <1>1
<1>3. \A i \in a .. b : w[i] \in Nat
  BY <1>2, ElementOfSeq
<1>4. SubSeq(w, a, b) \in Seq(Nat) /\ Len(SubSeq(w, a, b)) = b - a + 1
      /\ \A i \in 1 .. b - a + 1 : SubSeq(w, a, b)[i] = w[a + i - 1]
  BY <1>2, <1>3, SubSeqProperties
<1>5. b - a + 1 = Len(w) - n - 1 /\ \A i \in 1 .. b - a + 1 : a + i - 1 = n + 1 + i
  BY <1>2
<1> QED BY <1>2, <1>4, <1>5

\* No request is behind the client's last, and what the other end has was sent before.
InOrder(w, t, s) ==
  /\ Len(w) <= s /\ \A i \in 1 .. Len(w) : w[i] = s - Len(w) + i
  /\ \A i \in 1 .. Len(t) : t[i] \in 1 .. s - Len(w)
  /\ \A i, j \in 1 .. Len(t) : i < j => t[i] < t[j]

\* The handler takes the first thing off the wire, and may drop some behind it.
LEMMA TakingKeepsOrder ==
  ASSUME NEW s \in Nat, NEW w \in Seq(Nat), NEW t \in Seq(Nat), InOrder(w, t, s), NEW n \in 0 .. Len(w) - 1
  PROVE  /\ SubSeq(w, n + 2, Len(w)) \in Seq(Nat) /\ Len(SubSeq(w, n + 2, Len(w))) = Len(w) - n - 1
         /\ InOrder(SubSeq(w, n + 2, Len(w)), t, s) /\ Append(t, Head(w)) \in Seq(Nat)
         /\ InOrder(SubSeq(w, n + 2, Len(w)), Append(t, Head(w)), s)
         /\ Head(w) = s - Len(w) + 1
<1>1. PICK v \in Seq(Nat) : v = SubSeq(w, n + 2, Len(w)) /\ Len(v) = Len(w) - n - 1
                            /\ \A i \in 1 .. Len(w) - n - 1 : v[i] = w[n + 1 + i]
  BY WireCut
<1>2. PICK l \in Nat : l = Len(w)
  BY LenProperties
<1>3. PICK m \in Nat : m = Len(t)
  BY LenProperties
<1>4. w # <<>> /\ Head(w) = w[1] /\ n \in Nat /\ n + 1 <= l
  BY <1>2, EmptySeq
<1>5. /\ l <= s /\ \A i \in 1 .. l : w[i] = s - l + i
      /\ \A i \in 1 .. m : t[i] \in 1 .. s - l
      /\ \A i, j \in 1 .. m : i < j => t[i] < t[j]
  BY <1>2, <1>3 DEF InOrder
<1>6. Head(w) = s - l + 1 /\ Head(w) \in Nat
  BY <1>4, <1>5
<1>7. PICK k \in Nat : k = Len(v) /\ k = l - n - 1 /\ \A i \in 1 .. k : v[i] = s - k + i
  <2>1. l - n - 1 \in Nat
    BY <1>2, <1>4
  <2>2. \A i \in 1 .. l - n - 1 : n + 1 + i \in 1 .. l /\ s - l + (n + 1 + i) = s - (l - n - 1) + i
    BY <1>4
  <2>3. \A i \in 1 .. l - n - 1 : v[i] = s - (l - n - 1) + i
    BY <1>1, <1>2, <1>5, <2>2
  <2> QED BY <1>1, <1>2, <2>1, <2>3
<1>8. InOrder(v, t, s)
  <2>1. \A i \in 1 .. m : t[i] \in 1 .. s - k
    BY <1>4, <1>5, <1>7
  <2>2. k <= s
    BY <1>4, <1>5, <1>7
  <2> QED BY <1>3, <1>5, <1>7, <2>1, <2>2 DEF InOrder
<1>9. PICK h \in Nat, u \in Seq(Nat) :
        /\ h = Head(w) /\ u = Append(t, h) /\ Len(u) = m + 1
        /\ (\A i \in 1 .. m : u[i] = t[i]) /\ u[m + 1] = h
  <2>1. PICK h \in Nat : h = Head(w)
    BY <1>6
  <2>2. /\ Append(t, h) \in Seq(Nat) /\ Len(Append(t, h)) = Len(t) + 1
        /\ \A i \in 1 .. Len(t) : Append(t, h)[i] = t[i]
        /\ Append(t, h)[Len(t) + 1] = h
    BY AppendProperties
  <2> QED BY <1>3, <2>1, <2>2
<1>10. InOrder(v, u, s)
  <2>1. \A i \in 1 .. m + 1 : u[i] \in 1 .. s - k
    <3>1. h \in 1 .. s - k
      BY <1>4, <1>5, <1>6, <1>7, <1>9
    <3>2. \A i \in 1 .. m : u[i] \in 1 .. s - k
      BY SMTT(30), <1>4, <1>5, <1>7, <1>9
    <3>3. \A i \in 1 .. m + 1 : i \in 1 .. m \/ i = m + 1
      BY <1>3
    <3> QED BY <1>9, <3>1, <3>2, <3>3
  <2>2. \A i, j \in 1 .. m + 1 : i < j => u[i] < u[j]
    <3> SUFFICES ASSUME NEW i \in 1 .. m + 1, NEW j \in 1 .. m + 1, i < j PROVE u[i] < u[j]
      OBVIOUS
    <3>1. i \in 1 .. m /\ u[i] = t[i] /\ t[i] \in 1 .. s - l
      BY SMTT(30), <1>3, <1>5, <1>9
    <3>2. CASE j = m + 1
      BY SMTT(30), <1>5, <1>6, <1>9, <3>1, <3>2
    <3>3. CASE j \in 1 .. m
      BY <1>5, <1>9, <3>1, <3>3
    <3>4. j \in 1 .. m \/ j = m + 1
      <4>1. \A x \in 1 .. m + 1 : x \in 1 .. m \/ x = m + 1
        OBVIOUS
      <4> QED BY <4>1
    <3> QED BY <3>2, <3>3, <3>4
  <2>3. k <= s
    BY <1>4, <1>5, <1>7
  <2> QED BY <1>7, <1>9, <2>1, <2>2, <2>3 DEF InOrder
<1> QED BY <1>1, <1>2, <1>6, <1>8, <1>9, <1>10

--------------------------------------------------------------------------------
\* The stages of a handler.
Stages == {"read", "check", "decoy", "dial", "opened", "forward", "copy", "over"}
\* The types, with what travels as sequences.
ProxyTypes ==
  /\ psetup \in Setups /\ pstage \in Stages /\ tries \in 0 .. ProxyTries
  /\ other \in [role : {"none", "target", "hop", "decoy"}, open : BOOLEAN]
  /\ clientSide \in {"open", "gone", "closed"}
  /\ sentItems \in 0 .. 1 + MaxFollowing /\ fromOther \in 0 .. MaxBytes
  /\ onWire \in Seq(Nat) /\ toOther \in Seq(Nat) /\ toClient \in Seq({"answer", "bytes"})

\* Before the copying the handler has said nothing to either end, and the other
\* end nothing; an attempt is left until it has a connection.
Quiet ==
  /\ pstage \notin {"copy", "over"} => toClient = <<>> /\ toOther = <<>> /\ fromOther = 0
  /\ pstage \in {"read", "check", "decoy", "dial"} => tries < ProxyTries

\* Its own answer comes first; the relay's waits for the first data.
AnswersFirst ==
  /\ \A i \in 1 .. Len(toClient) : i > 1 => toClient[i] = "bytes"
  /\ Len(toClient) <= fromOther + 1
  /\ pstage = "copy" /\ This.first # "answer" /\ fromOther = 0 => toClient = <<>>

\* Where nothing is dropped, the other end has all that was taken off the wire,
\* but for a request the handler kept to itself.
Careful == psetup.waits \/ ~This.buffers
\* Every item is on the wire, taken and under work, or with the other end.
NothingDropped ==
  /\ pstage \in {"check", "decoy", "dial", "opened", "forward"} => sentItems - Len(onWire) = 1
  /\ \E skip \in {0, 1} : /\ \A i \in 1 .. Len(toOther) : toOther[i] = i + skip
                          /\ pstage = "copy" => Len(toOther) + skip = sentItems - Len(onWire)

\* A client that waits has one request on the way at most: before its answer,
\* and to an HTTP proxy always.  Behind the reading one was taken.
OneAtATime ==
  /\ pstage = "read" => Len(onWire) = sentItems /\ (psetup.waits => sentItems <= 1)
  /\ pstage \notin {"read", "over"} => Len(onWire) < sentItems
  /\ other.role = "hop" => psetup.httpHop
  /\ psetup.waits /\ psetup.httpHop => Len(onWire) <= 1

\* What every step keeps.
ProxyInv ==
  /\ ProxyTypes /\ Quiet /\ AnswersFirst /\ InOrder(onWire, toOther, sentItems) /\ OneAtATime
  /\ Careful => NothingDropped

\* What the handlers differ in.
LEMMA HandlersAre ==
  ASSUME psetup \in Setups
  PROVE  /\ This.first \in {"answer", "request", "with data", "nothing"}
         /\ psetup.waits \in BOOLEAN /\ psetup.httpHop \in BOOLEAN
         /\ psetup.httpHop => This.buffers
<1>1. DOMAIN Handler = {"http", "http2", "sni", "relay", "ss", "ssh", "red"}
  BY DEF Handler
<1>2. /\ psetup.kind \in {"http", "http2", "sni", "relay", "ss", "ssh", "red"}
      /\ psetup.waits \in BOOLEAN /\ psetup.httpHop \in BOOLEAN /\ (psetup.httpHop => psetup.kind = "http")
  BY <1>1 DEF Setups
<1>3. This \in {HttpHandler, Http2Handler, SniHandler, RelayHandler, ShadowHandler, DirectForward, RedirectHandler}
      /\ (psetup.kind = "http" => This = HttpHandler)
  BY <1>2 DEF This, Handler
<1>4. \A h \in {HttpHandler, Http2Handler, SniHandler, RelayHandler, ShadowHandler, DirectForward, RedirectHandler} :
        h.first \in {"answer", "request", "with data", "nothing"}
  <2>1. HttpHandler.first = "answer" /\ Http2Handler.first = "answer"
    BY DEF HttpHandler, Http2Handler
  <2>2. SniHandler.first = "request" /\ RelayHandler.first = "with data" /\ ShadowHandler.first = "nothing"
    BY DEF SniHandler, RelayHandler, ShadowHandler
  <2>3. DirectForward.first = "nothing" /\ RedirectHandler.first = "nothing"
    BY DEF DirectForward, RedirectHandler
  <2> QED BY <2>1, <2>2, <2>3
<1>5. HttpHandler.buffers
  BY DEF HttpHandler
<1> QED BY <1>2, <1>3, <1>4, <1>5

\* A handler that ends keeps what was said and taken.
LEMMA ProxyEnds ==
  ASSUME ProxyInv, pstage' = "over", other' = [other EXCEPT !.open = FALSE],
         clientSide' \in {"open", "gone", "closed"}, UNCHANGED <<psetup, sentItems, onWire, toOther, fromOther>>,
         tries' \in 0 .. ProxyTries,
         \/ UNCHANGED toClient
         \/ toClient = <<>> /\ toClient' = Append(toClient, "answer")
  PROVE  ProxyInv'
<1>1. ProxyTypes /\ AnswersFirst /\ InOrder(onWire, toOther, sentItems) /\ OneAtATime /\ (Careful => NothingDropped)
  BY DEF ProxyInv
<1>2. fromOther \in Nat
  BY <1>1, ProxyAssumption DEF ProxyTypes
<1>3. /\ toClient' \in Seq({"answer", "bytes"}) /\ \A i \in 1 .. Len(toClient') : i > 1 => toClient'[i] = "bytes"
      /\ Len(toClient') <= fromOther + 1
  <2>1. CASE UNCHANGED toClient
    BY <1>1, <2>1 DEF ProxyTypes, AnswersFirst
  <2>2. CASE toClient = <<>> /\ toClient' = Append(toClient, "answer")
    <3>1. toClient' \in Seq({"answer", "bytes"}) /\ Len(toClient') = 1
      BY <1>1, <2>2 DEF ProxyTypes
    <3> QED BY <1>2, <3>1
  <2> QED BY <2>1, <2>2
<1>4. ProxyTypes'
  <2>1. other' \in [role : {"none", "target", "hop", "decoy"}, open : BOOLEAN]
    <3>1. FALSE \in BOOLEAN
      OBVIOUS
    <3> QED BY <1>1, <3>1 DEF ProxyTypes
  <2>2. "over" \in Stages
    BY DEF Stages
  <2> QED BY <1>1, <1>3, <2>1, <2>2 DEF ProxyTypes
<1>5. other'.role = other.role
  BY <1>1 DEF ProxyTypes
<1>6. AnswersFirst' /\ Quiet'
  BY <1>3 DEF AnswersFirst, Quiet
<1>7. OneAtATime'
  BY <1>1, <1>5 DEF OneAtATime
<1>8. (Careful => NothingDropped)'
  <2>1. Careful' = Careful
    BY DEF Careful, This
  <2> QED BY <1>1, <2>1 DEF NothingDropped
<1>9. InOrder(onWire, toOther, sentItems)'
  BY <1>1
<1> QED BY <1>4, <1>6, <1>7, <1>8, <1>9 DEF ProxyInv

\* The handler goes on without taking or saying anything.
LEMMA ProxyGoesOn ==
  ASSUME ProxyInv, pstage' \in Stages, pstage' \notin {"read", "copy"}, pstage # "read",
         pstage' # "over" => pstage # "copy" /\ pstage # "over",
         tries' \in 0 .. ProxyTries, pstage' \in {"decoy", "dial"} => tries' < ProxyTries,
         pstage' # "check",
         other' \in [role : {"none", "target", "hop", "decoy"}, open : BOOLEAN],
         other'.role = "hop" => psetup.httpHop,
         UNCHANGED <<psetup, clientSide, sentItems, onWire, toOther, fromOther, toClient>>
  PROVE  ProxyInv'
<1>1. /\ ProxyTypes /\ Quiet /\ AnswersFirst /\ InOrder(onWire, toOther, sentItems) /\ OneAtATime
      /\ (Careful => NothingDropped)
  BY DEF ProxyInv
<1>2. ProxyTypes'
  BY <1>1 DEF ProxyTypes
<1>3. AnswersFirst' /\ Quiet' /\ OneAtATime'
  BY <1>1 DEF AnswersFirst, Quiet, OneAtATime, Stages
<1>4. (Careful => NothingDropped)'
  <2>1. Careful' = Careful
    BY DEF Careful, This
  <2> QED BY <1>1, <2>1 DEF NothingDropped, ProxyTypes, Stages
<1>5. InOrder(onWire, toOther, sentItems)'
  BY <1>1
<1> QED BY <1>2, <1>3, <1>4, <1>5 DEF ProxyInv

\* The copying begins: with the request at the other end, or without.
LEMMA ProxyStartsCopying ==
  ASSUME ProxyInv, pstage \notin {"read", "copy", "over"}, pstage' = "copy",
         tries' \in 0 .. ProxyTries, other' \in [role : {"none", "target", "hop", "decoy"}, open : BOOLEAN],
         other'.role = "hop" => psetup.httpHop,
         UNCHANGED <<psetup, clientSide, sentItems, onWire, fromOther>>,
         toOther' = toOther \/ toOther' = <<Request>>,
         toClient' = toClient \/ (toClient' = Append(toClient, "answer") /\ This.first = "answer")
  PROVE  ProxyInv'
<1>1. /\ ProxyTypes /\ Quiet /\ AnswersFirst /\ InOrder(onWire, toOther, sentItems) /\ OneAtATime
      /\ (Careful => NothingDropped)
  BY DEF ProxyInv
<1>2. toClient = <<>> /\ toOther = <<>> /\ fromOther = 0
  BY <1>1 DEF Quiet
<1>3. pstage \in {"check", "decoy", "dial", "opened", "forward"}
  BY <1>1 DEF ProxyTypes, Stages
<1>4. PICK s \in Nat, l \in Nat : s = sentItems /\ l = Len(onWire)
  <2>1. sentItems \in Nat
    BY <1>1, ProxyAssumption DEF ProxyTypes
  <2>2. onWire \in Seq(Nat)
    BY <1>1 DEF ProxyTypes
  <2>3. Len(onWire) \in Nat
    BY <2>2, LenProperties
  <2> QED BY <2>1, <2>3
<1>5. toOther' \in Seq(Nat) /\ Len(toOther') \in {0, 1} /\ \A i \in 1 .. Len(toOther') : toOther'[i] = 1
  <2>1. <<>> \in Seq(Nat) /\ Len(<<>>) = 0 /\ <<1>> \in Seq(Nat) /\ Len(<<1>>) = 1 /\ <<1>>[1] = 1
    OBVIOUS
  <2>2. CASE toOther' = <<>>
    BY <2>1, <2>2
  <2>3. CASE toOther' = <<1>>
    BY <2>1, <2>3
  <2> QED BY <1>2, <2>2, <2>3 DEF Request
<1>6. /\ toClient' \in Seq({"answer", "bytes"}) /\ \A i \in 1 .. Len(toClient') : i > 1 => toClient'[i] = "bytes"
      /\ Len(toClient') <= 1 /\ (This.first # "answer" => toClient' = <<>>)
  <2>1. CASE toClient' = toClient
    BY <1>2, <2>1
  <2>2. CASE toClient' = Append(toClient, "answer") /\ This.first = "answer"
    <3>1. toClient' = <<"answer">>
      BY <1>2, <2>2
    <3>2. <<"answer">> \in Seq({"answer", "bytes"}) /\ Len(<<"answer">>) = 1
      OBVIOUS
    <3>3. toClient' \in Seq({"answer", "bytes"}) /\ Len(toClient') = 1
      BY <3>1, <3>2
    <3>4. \A i \in 1 .. Len(toClient') : ~(i > 1)
      BY <3>3
    <3>5. This.first = "answer"
      BY <2>2
    <3> QED BY <3>3, <3>4, <3>5
  <2> QED BY <2>1, <2>2
<1>7. This' = This
  BY DEF This
<1>8. ProxyTypes'
  BY <1>1, <1>5, <1>6 DEF ProxyTypes, Stages
<1>9. AnswersFirst' /\ Quiet' /\ OneAtATime'
  BY <1>1, <1>2, <1>6, <1>7 DEF AnswersFirst, Quiet, OneAtATime
<1>10. (Careful => NothingDropped)'
  <2>1. Careful' = Careful
    BY <1>7 DEF Careful
  <2>2. CASE Careful
    <3>1. s - l = 1
      BY <1>1, <1>3, <1>4, <2>2 DEF NothingDropped
    <3>2. \E skip \in {0, 1} : /\ \A i \in 1 .. Len(toOther') : toOther'[i] = i + skip
                               /\ Len(toOther') + skip = s - l
      <4>1. CASE Len(toOther') = 0
        BY <3>1, <4>1
      <4>2. CASE Len(toOther') = 1
        BY <1>5, <3>1, <4>2
      <4> QED BY <1>5, <4>1, <4>2
    <3> QED BY <1>4, <3>2 DEF NothingDropped
  <2> QED BY <2>1, <2>2
<1>11. InOrder(onWire, toOther, sentItems)'
  <2>1. l < s
    BY <1>1, <1>3, <1>4 DEF OneAtATime
  <2> QED BY SMTT(30), <1>1, <1>4, <1>5, <2>1 DEF InOrder
<1> QED BY <1>8, <1>9, <1>10, <1>11 DEF ProxyInv

\* The client sends its request, or what follows it.
LEMMA ClientSendsKeeps ==
  ASSUME ProxyInv, ClientSends
  PROVE  ProxyInv'
<1>1. /\ ProxyTypes /\ Quiet /\ AnswersFirst /\ InOrder(onWire, toOther, sentItems) /\ OneAtATime
      /\ (Careful => NothingDropped)
  BY DEF ProxyInv
<1>2. /\ sentItems < 1 + MaxFollowing
      /\ sentItems >= 1 => (psetup.waits => toClient # <<>> /\ (psetup.httpHop => onWire = <<>>))
      /\ sentItems' = sentItems + 1 /\ onWire' = Append(onWire, sentItems + 1)
      /\ UNCHANGED <<psetup, pstage, tries, other, clientSide, toOther, fromOther, toClient>>
  BY DEF ClientSends, Request
<1>3. PICK s \in Nat, w \in Seq(Nat) : s = sentItems /\ w = onWire
  BY <1>1, ProxyAssumption DEF ProxyTypes
<1>4. PICK l \in Nat : l = Len(w)
  BY LenProperties
<1>5. PICK v \in Seq(Nat) : v = onWire' /\ Len(v) = l + 1 /\ (\A i \in 1 .. l : v[i] = w[i]) /\ v[l + 1] = s + 1
  <2>1. /\ Append(w, s + 1) \in Seq(Nat) /\ Len(Append(w, s + 1)) = Len(w) + 1
        /\ \A i \in 1 .. Len(w) : Append(w, s + 1)[i] = w[i]
        /\ Append(w, s + 1)[Len(w) + 1] = s + 1
    <3>1. s + 1 \in Nat
      OBVIOUS
    <3> QED BY <3>1, AppendProperties
  <2> QED BY <1>2, <1>3, <1>4, <2>1
<1>6. ProxyTypes'
  <2>1. sentItems' \in 0 .. 1 + MaxFollowing
    BY <1>1, <1>2, ProxyAssumption DEF ProxyTypes
  <2> QED BY <1>1, <1>2, <1>5, <2>1 DEF ProxyTypes
<1>7. InOrder(v, toOther, s + 1)
  <2>1. /\ l <= s /\ \A i \in 1 .. l : w[i] = s - l + i
        /\ \A i \in 1 .. Len(toOther) : toOther[i] \in 1 .. s - l
        /\ \A i, j \in 1 .. Len(toOther) : i < j => toOther[i] < toOther[j]
    BY <1>1, <1>3, <1>4 DEF InOrder
  <2>2. \A i \in 1 .. l + 1 : v[i] = s + 1 - (l + 1) + i
    <3> SUFFICES ASSUME NEW i \in 1 .. l + 1 PROVE v[i] = s + 1 - (l + 1) + i
      OBVIOUS
    <3>1. CASE i \in 1 .. l
      BY <1>5, <2>1, <3>1
    <3>2. CASE i = l + 1
      BY <1>5, <3>2
    <3> QED BY <3>1, <3>2
  <2>3. s + 1 - (l + 1) = s - l /\ l + 1 <= s + 1
    BY <2>1
  <2> QED BY <1>5, <2>1, <2>2, <2>3 DEF InOrder
<1>8. OneAtATime'
  <2>1. pstage = "read" => l = s /\ (psetup.waits => s = 0)
    BY <1>1, <1>2, <1>3, <1>4 DEF OneAtATime, Quiet
  <2>2. pstage = "read" => l + 1 = s + 1 /\ (psetup.waits => s + 1 <= 1)
    BY <2>1
  <2>3. pstage \notin {"read", "over"} => l + 1 < s + 1
    BY <1>1, <1>3, <1>4 DEF OneAtATime
  <2>4. psetup.waits /\ psetup.httpHop => l + 1 <= 1
    <3>1. l <= s
      BY <1>1, <1>3, <1>4 DEF InOrder
    <3>2. s >= 1 /\ psetup.waits /\ psetup.httpHop => l = 0
      BY <1>2, <1>3, <1>4, EmptySeq
    <3> QED BY <3>1, <3>2
  <2> QED BY <1>1, <1>2, <1>3, <1>5, <2>2, <2>3, <2>4 DEF OneAtATime
<1>9. (Careful => NothingDropped)'
  <2>1. Careful' = Careful
    BY <1>2 DEF Careful, This
  <2>2. sentItems' - Len(onWire') = sentItems - Len(onWire)
    BY <1>2, <1>3, <1>4, <1>5
  <2> QED BY <1>1, <1>2, <2>1, <2>2 DEF NothingDropped
<1>10. AnswersFirst' /\ Quiet'
  BY <1>1, <1>2 DEF AnswersFirst, Quiet, This
<1>11. InOrder(onWire, toOther, sentItems)'
  BY <1>2, <1>3, <1>5, <1>7
<1> QED BY <1>6, <1>8, <1>9, <1>10, <1>11 DEF ProxyInv

\* The handler reads the request, and what its reader had buffered is gone.
LEMMA ReadRequestKeeps ==
  ASSUME ProxyInv, ReadRequest
  PROVE  ProxyInv'
<1>1. /\ ProxyTypes /\ Quiet /\ AnswersFirst /\ InOrder(onWire, toOther, sentItems) /\ OneAtATime
      /\ (Careful => NothingDropped)
  BY DEF ProxyInv
<1>2. /\ pstage = "read" /\ onWire # <<>> /\ pstage' = "check"
      /\ UNCHANGED <<psetup, tries, other, clientSide, sentItems, toOther, fromOther, toClient>>
  BY DEF ReadRequest
<1>3. PICK s \in Nat, w \in Seq(Nat), t \in Seq(Nat) : s = sentItems /\ w = onWire /\ t = toOther
  BY <1>1, ProxyAssumption DEF ProxyTypes
<1>4. PICK l \in Nat : l = Len(w) /\ l > 0
  BY <1>2, <1>3, LenProperties, EmptySeq
<1>5. PICK n \in 0 .. l - 1 : onWire' = SubSeq(w, n + 2, Len(w)) /\ (~This.buffers => n = 0)
  BY <1>3, <1>4 DEF ReadRequest, Dropping
<1>6. PICK v \in Seq(Nat) : v = onWire' /\ Len(v) = l - n - 1 /\ InOrder(v, t, s)
  BY <1>1, <1>3, <1>4, <1>5, TakingKeepsOrder
<1>7. ProxyTypes'
  BY <1>1, <1>2, <1>6 DEF ProxyTypes, Stages
<1>8. l = s /\ (psetup.waits => s <= 1)
  BY <1>1, <1>2, <1>3, <1>4 DEF OneAtATime
<1>9. OneAtATime'
  BY <1>1, <1>2, <1>3, <1>4, <1>6, <1>8 DEF OneAtATime
<1>10. (Careful => NothingDropped)'
  <2>1. Careful' = Careful
    BY <1>2 DEF Careful, This
  <2>2. Careful => n = 0
    BY <1>4, <1>5, <1>8 DEF Careful
  <2>3. Careful => s - Len(v) = 1
    BY <1>4, <1>6, <1>8, <2>2
  <2> QED BY <1>1, <1>2, <1>3, <1>6, <2>1, <2>3 DEF NothingDropped
<1>11. AnswersFirst' /\ Quiet'
  BY <1>1, <1>2 DEF AnswersFirst, Quiet
<1>12. InOrder(onWire, toOther, sentItems)'
  BY <1>2, <1>3, <1>6
<1> QED BY <1>7, <1>9, <1>10, <1>11, <1>12 DEF ProxyInv

\* What the client sent goes up.
LEMMA CopyUpKeeps ==
  ASSUME ProxyInv, CopyUp
  PROVE  ProxyInv'
<1>1. /\ ProxyTypes /\ Quiet /\ AnswersFirst /\ InOrder(onWire, toOther, sentItems) /\ OneAtATime
      /\ (Careful => NothingDropped)
  BY DEF ProxyInv
<1>2. /\ pstage = "copy" /\ onWire # <<>> /\ toOther' = Append(toOther, Head(onWire))
      /\ UNCHANGED <<psetup, pstage, tries, other, clientSide, sentItems, fromOther, toClient>>
  BY DEF CopyUp
<1>3. PICK s \in Nat, w \in Seq(Nat), t \in Seq(Nat) : s = sentItems /\ w = onWire /\ t = toOther
  BY <1>1, ProxyAssumption DEF ProxyTypes
<1>4. PICK l \in Nat : l = Len(w) /\ l > 0
  BY <1>2, <1>3, LenProperties, EmptySeq
<1>5. PICK n \in 0 .. l - 1 : /\ onWire' = SubSeq(w, n + 2, Len(w))
                              /\ (~This.buffers \/ other.role # "hop" => n = 0)
  BY <1>3, <1>4 DEF CopyUp, Dropping
<1>6. PICK v \in Seq(Nat), u \in Seq(Nat), h \in Nat :
        /\ v = onWire' /\ Len(v) = l - n - 1 /\ u = Append(t, h) /\ u = toOther' /\ InOrder(v, u, s)
        /\ h = Head(w) /\ h = s - l + 1
  <2>1. /\ SubSeq(w, n + 2, Len(w)) \in Seq(Nat) /\ Len(SubSeq(w, n + 2, Len(w))) = Len(w) - n - 1
        /\ Append(t, Head(w)) \in Seq(Nat) /\ InOrder(SubSeq(w, n + 2, Len(w)), Append(t, Head(w)), s)
        /\ Head(w) = s - Len(w) + 1
    BY <1>1, <1>3, <1>4, TakingKeepsOrder
  <2>2. l <= s
    BY <1>1, <1>3, <1>4 DEF InOrder
  <2>3. Head(w) \in Nat
    BY <1>4, <2>1, <2>2
  <2> QED BY <1>2, <1>3, <1>4, <1>5, <2>1, <2>3
<1>7. ProxyTypes'
  BY <1>1, <1>2, <1>6 DEF ProxyTypes
<1>8. OneAtATime'
  BY <1>1, <1>2, <1>3, <1>4, <1>6 DEF OneAtATime
<1>9. (Careful => NothingDropped)'
  <2>1. Careful' = Careful
    BY <1>2 DEF Careful, This
  <2>2. SUFFICES ASSUME Careful PROVE NothingDropped'
    BY <2>1
  <2>3. n = 0
    <3>1. other.role = "hop" => psetup.httpHop
      BY <1>1 DEF OneAtATime
    <3>2. psetup.waits /\ psetup.httpHop => l <= 1
      BY <1>1, <1>3, <1>4 DEF OneAtATime
    <3> QED BY <1>4, <1>5, <2>2, <3>1, <3>2 DEF Careful
  <2>4. PICK m \in Nat : m = Len(t)
    BY LenProperties
  <2>5. PICK skip \in {0, 1} : (\A i \in 1 .. m : t[i] = i + skip) /\ m + skip = s - l
    BY <1>1, <1>2, <1>3, <1>4, <2>2, <2>4 DEF NothingDropped
  <2>6. Len(u) = m + 1 /\ (\A i \in 1 .. m : u[i] = t[i]) /\ u[m + 1] = h
    <3>1. /\ Len(Append(t, h)) = Len(t) + 1 /\ \A i \in 1 .. Len(t) : Append(t, h)[i] = t[i]
          /\ Append(t, h)[Len(t) + 1] = h
      BY AppendProperties
    <3> QED BY <1>6, <2>4, <3>1
  <2>7. \A i \in 1 .. m + 1 : u[i] = i + skip
    <3>1. \A i \in 1 .. m + 1 : i \in 1 .. m \/ i = m + 1
      OBVIOUS
    <3>2. h = m + 1 + skip
      BY <1>6, <2>5
    <3> QED BY <2>5, <2>6, <3>1, <3>2
  <2>8. m + 1 + skip = s - Len(v)
    BY <1>6, <2>3, <2>5
  <2> QED BY <1>2, <1>3, <1>6, <2>6, <2>7, <2>8 DEF NothingDropped
<1>10. AnswersFirst' /\ Quiet'
  BY <1>1, <1>2 DEF AnswersFirst, Quiet, This
<1>11. InOrder(onWire, toOther, sentItems)'
  BY <1>2, <1>3, <1>6
<1> QED BY <1>7, <1>8, <1>9, <1>10, <1>11 DEF ProxyInv

\* What the other end sent comes down, behind the relay's answer.
LEMMA CopyDownKeeps ==
  ASSUME ProxyInv, CopyDown
  PROVE  ProxyInv'
<1>1. /\ ProxyTypes /\ Quiet /\ AnswersFirst /\ InOrder(onWire, toOther, sentItems) /\ OneAtATime
      /\ (Careful => NothingDropped)
  BY DEF ProxyInv
<1>2. /\ pstage = "copy" /\ fromOther < MaxBytes /\ fromOther' = fromOther + 1
      /\ toClient' = toClient \o (IF This.first = "with data" /\ fromOther = 0 THEN <<"answer", "bytes">> ELSE <<"bytes">>)
      /\ UNCHANGED <<psetup, pstage, tries, other, clientSide, sentItems, onWire, toOther>>
  BY DEF CopyDown
<1>3. PICK f \in Nat, c \in Seq({"answer", "bytes"}) : f = fromOther /\ c = toClient
  BY <1>1, ProxyAssumption DEF ProxyTypes
<1>4. PICK l \in Nat : l = Len(c) /\ l <= f + 1
  BY <1>1, <1>3, LenProperties DEF AnswersFirst
<1>5. /\ toClient' \in Seq({"answer", "bytes"}) /\ \A i \in 1 .. Len(toClient') : i > 1 => toClient'[i] = "bytes"
      /\ Len(toClient') <= f + 2
  <2>1. CASE This.first = "with data" /\ fromOther = 0
    <3>1. toClient = <<>>
      BY <1>1, <1>2, <2>1 DEF AnswersFirst
    <3>2. toClient' = <<>> \o <<"answer", "bytes">>
      BY <1>2, <2>1, <3>1
    <3>3. <<"answer", "bytes">> \in Seq({"answer", "bytes"}) /\ Len(<<"answer", "bytes">>) = 2
          /\ \A i \in 1 .. 2 : i > 1 => <<"answer", "bytes">>[i] = "bytes"
      OBVIOUS
    <3>4. toClient' = <<"answer", "bytes">>
      BY <3>2, <3>3, ConcatEmptySeq
    <3> QED BY <3>3, <3>4
  <2>2. CASE ~(This.first = "with data" /\ fromOther = 0)
    <3>1. toClient' = c \o <<"bytes">>
      BY <1>2, <1>3, <2>2
    <3>2. toClient' = Append(c, "bytes")
      BY <3>1, AppendIsConcat
    <3>3. /\ toClient' \in Seq({"answer", "bytes"}) /\ Len(toClient') = l + 1
          /\ (\A i \in 1 .. l : toClient'[i] = c[i]) /\ toClient'[l + 1] = "bytes"
      <4>1. /\ Append(c, "bytes") \in Seq({"answer", "bytes"}) /\ Len(Append(c, "bytes")) = Len(c) + 1
            /\ \A i \in 1 .. Len(c) : Append(c, "bytes")[i] = c[i]
            /\ Append(c, "bytes")[Len(c) + 1] = "bytes"
        BY AppendProperties
      <4> QED BY <1>4, <3>2, <4>1
    <3>4. \A i \in 1 .. l : i > 1 => c[i] = "bytes"
      BY <1>1, <1>3, <1>4 DEF AnswersFirst
    <3>5. \A i \in 1 .. l + 1 : i \in 1 .. l \/ i = l + 1
      OBVIOUS
    <3> QED BY <1>4, <3>3, <3>4, <3>5
  <2> QED BY <2>1, <2>2
<1>6. fromOther' \in 0 .. MaxBytes /\ fromOther' = f + 1
  <2>1. MaxBytes \in Nat /\ f < MaxBytes /\ fromOther' = f + 1
    BY <1>2, <1>3, ProxyAssumption
  <2> QED BY <2>1
<1>7. ProxyTypes'
  BY <1>1, <1>2, <1>5, <1>6 DEF ProxyTypes
<1>8. AnswersFirst'
  <2>1. fromOther' # 0 /\ Len(toClient') <= fromOther' + 1
    BY <1>5, <1>6
  <2> QED BY <1>5, <2>1 DEF AnswersFirst
<1>9. Quiet' /\ OneAtATime'
  BY <1>1, <1>2 DEF Quiet, OneAtATime
<1>10. (Careful => NothingDropped)'
  BY <1>1, <1>2 DEF Careful, This, NothingDropped
<1>11. InOrder(onWire, toOther, sentItems)'
  BY <1>1, <1>2
<1> QED BY <1>7, <1>8, <1>9, <1>10, <1>11 DEF ProxyInv

\* The other steps of the handler, and the client's leaving.
LEMMA HandlerKeeps ==
  ASSUME ProxyInv, ClientCloses \/ RequestFails \/ Check \/ DialDecoy \/ Dial \/ Opened \/ WriteFirst \/ CopyEnds
  PROVE  ProxyInv'
<1>1. ProxyTypes /\ Quiet /\ OneAtATime
  BY DEF ProxyInv
<1>2. tries \in 0 .. ProxyTries /\ other \in [role : {"none", "target", "hop", "decoy"}, open : BOOLEAN]
      /\ clientSide \in {"open", "gone", "closed"} /\ (other.role = "hop" => psetup.httpHop)
  BY <1>1 DEF ProxyTypes, OneAtATime
<1>3. /\ ProxyReturns => /\ pstage' = "over" /\ other' = [other EXCEPT !.open = FALSE]
                         /\ clientSide' \in {"open", "gone", "closed"}
      /\ AnswerAndReturn => ProxyReturns /\ (UNCHANGED toClient \/ toClient' = Append(toClient, "answer"))
  BY <1>2 DEF ProxyReturns, AnswerAndReturn, Own
<1>4. ASSUME pstage # "copy" /\ pstage # "over"
      PROVE  toClient = <<>>
  BY <1>1, <1>4 DEF Quiet
<1>5. {"decoy", "dial", "opened", "forward", "over"} \subseteq Stages
  BY DEF Stages
<1>6. CASE ClientCloses
  <2>1. ProxyTypes'
    BY <1>1, <1>6 DEF ClientCloses, ProxyTypes
  <2>2. Quiet' /\ AnswersFirst' /\ OneAtATime'
    BY <1>6 DEF ProxyInv, ClientCloses, Quiet, AnswersFirst, OneAtATime, This
  <2>3. (Careful => NothingDropped)'
    BY <1>6 DEF ProxyInv, ClientCloses, Careful, NothingDropped, This
  <2>4. InOrder(onWire, toOther, sentItems)'
    BY <1>6 DEF ProxyInv, ClientCloses
  <2> QED BY <2>1, <2>2, <2>3, <2>4 DEF ProxyInv
<1>7. CASE RequestFails
  <2>1. ProxyReturns /\ UNCHANGED <<psetup, tries, sentItems, onWire, toOther, fromOther, toClient>>
    BY <1>7 DEF RequestFails
  <2> QED BY <1>2, <1>3, <2>1, ProxyEnds
<1>8. CASE Check
  <2>1. pstage = "check" /\ UNCHANGED <<psetup, tries, sentItems, onWire, toOther, fromOther>> /\ toClient = <<>>
    BY <1>4, <1>8 DEF Check
  <2>2. \/ pstage' \in {"dial", "decoy"} /\ UNCHANGED <<other, clientSide, toClient>>
        \/ ProxyReturns /\ (UNCHANGED toClient \/ toClient' = Append(toClient, "answer"))
    <3>1. CASE psetup.verdict = "pass"
      BY <1>8, <3>1 DEF Check
    <3>2. CASE psetup.verdict = "unauthorized" /\ psetup.decoy = "host"
      BY <1>8, <3>2 DEF Check
    <3>3. CASE psetup.verdict # "pass" /\ ~(psetup.verdict = "unauthorized" /\ psetup.decoy = "host")
      <4>1. IF This.answers THEN AnswerAndReturn ELSE ProxyReturns /\ UNCHANGED toClient
        BY <1>8, <3>3 DEF Check
      <4> QED BY <1>3, <4>1
    <3> QED BY <3>1, <3>2, <3>3
  <2>3. CASE pstage' \in {"dial", "decoy"} /\ UNCHANGED <<other, clientSide, toClient>>
    <3>1. tries < ProxyTries
      BY <1>1, <2>1 DEF Quiet
    <3> QED BY <1>2, <1>5, <2>1, <2>3, <3>1, ProxyGoesOn
  <2>4. CASE ProxyReturns /\ (UNCHANGED toClient \/ toClient' = Append(toClient, "answer"))
    BY <1>2, <1>3, <2>1, <2>4, ProxyEnds
  <2> QED BY <2>2, <2>3, <2>4
<1>9. CASE DialDecoy
  <2>1. pstage = "decoy" /\ UNCHANGED <<psetup, tries, sentItems, onWire, fromOther>> /\ toClient = <<>>
    BY <1>4, <1>9 DEF DialDecoy
  <2>2. \/ /\ other' = [role |-> "decoy", open |-> TRUE] /\ pstage' = "copy"
           /\ toOther' = <<Request>> /\ UNCHANGED <<clientSide, toClient>>
        \/ AnswerAndReturn /\ UNCHANGED toOther
    BY <1>9 DEF DialDecoy
  <2>3. CASE /\ other' = [role |-> "decoy", open |-> TRUE] /\ pstage' = "copy"
             /\ toOther' = <<Request>> /\ UNCHANGED <<clientSide, toClient>>
    <3>1. other' \in [role : {"none", "target", "hop", "decoy"}, open : BOOLEAN] /\ other'.role # "hop"
      BY <2>3
    <3> QED BY <1>2, <2>1, <2>3, <3>1, ProxyStartsCopying
  <2>4. CASE AnswerAndReturn /\ UNCHANGED toOther
    BY <1>2, <1>3, <2>1, <2>4, ProxyEnds
  <2> QED BY <2>2, <2>3, <2>4
<1>10. CASE Dial
  <2>1. pstage = "dial" /\ UNCHANGED <<psetup, sentItems, onWire, toOther, fromOther>> /\ toClient = <<>>
    BY <1>4, <1>10 DEF Dial
  <2>2. CASE /\ other' = [role |-> IF psetup.httpHop THEN "hop" ELSE "target", open |-> TRUE]
             /\ pstage' = IF psetup.httpHop THEN "forward" ELSE "opened"
             /\ UNCHANGED <<tries, clientSide, toClient>>
    <3>1. TRUE \in BOOLEAN
      OBVIOUS
    <3>2. other' \in [role : {"none", "target", "hop", "decoy"}, open : BOOLEAN]
          /\ (other'.role = "hop" => psetup.httpHop)
      BY <2>2, <3>1
    <3>3. pstage' \in {"forward", "opened"}
      BY <2>2
    <3> QED BY <1>2, <1>5, <2>1, <2>2, <3>2, <3>3, ProxyGoesOn
  <2>3. CASE /\ tries' = tries + 1
             /\ IF tries' < ProxyTries THEN UNCHANGED <<pstage, other, clientSide, toClient>>
                ELSE IF This.answers THEN AnswerAndReturn ELSE ProxyReturns /\ UNCHANGED toClient
    <3>1. CASE tries' < ProxyTries
      <4>1. tries' \in 0 .. ProxyTries /\ UNCHANGED <<pstage, other, clientSide, toClient>>
        BY <1>2, <2>3, <3>1, ProxyAssumption
      <4> QED BY <1>2, <1>5, <2>1, <3>1, <4>1, ProxyGoesOn
    <3>2. CASE ~(tries' < ProxyTries)
      <4>1. ProxyReturns /\ (UNCHANGED toClient \/ toClient' = Append(toClient, "answer"))
        BY <1>3, <2>3, <3>2
      <4>2. tries' \in 0 .. ProxyTries
        <5>1. tries < ProxyTries
          BY <1>1, <2>1 DEF Quiet
        <5> QED BY <1>2, <2>3, <5>1, ProxyAssumption
      <4> QED BY <1>3, <2>1, <4>1, <4>2, ProxyEnds
    <3> QED BY <3>1, <3>2
  <2> QED BY <1>10, <2>2, <2>3 DEF Dial
<1>11. CASE Opened
  <2>1. pstage = "opened" /\ UNCHANGED <<psetup, tries, sentItems, onWire, fromOther>> /\ toClient = <<>>
    BY <1>4, <1>11 DEF Opened
  <2>2. CASE /\ This.first = "answer" /\ psetup.connect
             /\ pstage' = "copy" /\ Own("answer") /\ UNCHANGED <<toOther, other, clientSide>>
    BY <1>2, <2>1, <2>2, ProxyStartsCopying DEF Own
  <2>3. CASE /\ This.first \in {"with data", "nothing"}
             /\ pstage' = "copy" /\ UNCHANGED <<toOther, other, clientSide, toClient>>
    BY <1>2, <2>1, <2>3, ProxyStartsCopying
  <2>4. CASE /\ This.first = "request" \/ ~psetup.connect
             /\ pstage' = "copy" /\ toOther' = <<Request>> /\ UNCHANGED <<other, clientSide, toClient>>
    BY <1>2, <2>1, <2>4, ProxyStartsCopying
  <2>5. CASE ~psetup.connect /\ ProxyReturns /\ UNCHANGED <<toOther, toClient>>
    BY <1>2, <1>3, <2>1, <2>5, ProxyEnds
  <2> QED BY <1>11, <2>2, <2>3, <2>4, <2>5 DEF Opened
<1>12. CASE WriteFirst
  <2>1. pstage = "forward" /\ toOther' = <<Request>> /\ pstage' = "copy"
        /\ UNCHANGED <<psetup, tries, other, clientSide, sentItems, onWire, fromOther, toClient>>
    BY <1>12 DEF WriteFirst
  <2> QED BY <1>2, <2>1, ProxyStartsCopying
<1>13. CASE CopyEnds
  <2>1. ProxyReturns /\ UNCHANGED <<psetup, tries, sentItems, onWire, toOther, fromOther, toClient>>
    BY <1>13 DEF CopyEnds
  <2> QED BY <1>2, <1>3, <2>1, ProxyEnds
<1> QED BY <1>6, <1>7, <1>8, <1>9, <1>10, <1>11, <1>12, <1>13

\* Every step of the handler and of the two ends keeps the order.
LEMMA ProxyStep ==
  ASSUME ProxyInv, [ProxyNext]_proxyVars
  PROVE  ProxyInv'
<1>1. CASE ProxyNext
  BY <1>1, ClientSendsKeeps, ReadRequestKeeps, CopyUpKeeps, CopyDownKeeps, HandlerKeeps DEF ProxyNext
<1>2. CASE UNCHANGED proxyVars
  <2>1. ProxyTypes'
    BY <1>2 DEF ProxyInv, proxyVars, ProxyTypes
  <2>2. Quiet' /\ AnswersFirst' /\ OneAtATime'
    BY <1>2 DEF ProxyInv, proxyVars, Quiet, AnswersFirst, OneAtATime, This
  <2>3. (Careful => NothingDropped)'
    BY <1>2 DEF ProxyInv, proxyVars, Careful, NothingDropped, This
  <2>4. InOrder(onWire, toOther, sentItems)'
    BY <1>2 DEF ProxyInv, proxyVars
  <2> QED BY <2>1, <2>2, <2>3, <2>4 DEF ProxyInv
<1> QED BY <1>1, <1>2

\* At the start nothing was sent.
LEMMA ProxyStarts ==
  ASSUME ProxyInit
  PROVE  ProxyInv
<1>1. /\ psetup \in Setups /\ pstage = "read" /\ tries = 0 /\ other = [role |-> "none", open |-> FALSE]
      /\ clientSide = "open" /\ sentItems = 0 /\ fromOther = 0
      /\ onWire = <<>> /\ toOther = <<>> /\ toClient = <<>>
  BY DEF ProxyInit, Closed
<1>2. <<>> \in Seq(Nat) /\ <<>> \in Seq({"answer", "bytes"}) /\ Len(<<>>) = 0
  OBVIOUS
<1>3. ProxyTypes
  <2>1. FALSE \in BOOLEAN
    OBVIOUS
  <2>2. 0 < ProxyTries /\ 0 \in 0 .. ProxyTries /\ 0 \in 0 .. 1 + MaxFollowing /\ 0 \in 0 .. MaxBytes
    BY ProxyAssumption
  <2> QED BY <1>1, <1>2, <2>1, <2>2 DEF ProxyTypes, Stages
<1>4. Quiet /\ AnswersFirst /\ OneAtATime /\ InOrder(onWire, toOther, sentItems)
  BY <1>1, <1>2, ProxyAssumption DEF Quiet, AnswersFirst, OneAtATime, InOrder
<1>5. NothingDropped
  BY <1>1, <1>2 DEF NothingDropped
<1> QED BY <1>3, <1>4, <1>5 DEF ProxyInv

\* What the invariant says of both ends, and of the types.
LEMMA ProxyMeans ==
  ASSUME ProxyInv
  PROVE  RelayedFaithfully /\ ProxyTypeOK
<1>1. ProxyTypes /\ AnswersFirst /\ InOrder(onWire, toOther, sentItems) /\ (Careful => NothingDropped)
  BY DEF ProxyInv
<1>2. PICK c \in Seq({"answer", "bytes"}), l \in Nat : c = toClient /\ l = Len(c)
  <2>1. toClient \in Seq({"answer", "bytes"})
    BY <1>1 DEF ProxyTypes
  <2>2. Len(toClient) \in Nat
    BY <2>1, LenProperties
  <2> QED BY <2>1, <2>2
<1>3. PICK t \in Seq(Nat), m \in Nat : t = toOther /\ m = Len(t)
  <2>1. toOther \in Seq(Nat)
    BY <1>1 DEF ProxyTypes
  <2>2. Len(toOther) \in Nat
    BY <2>1, LenProperties
  <2> QED BY <2>1, <2>2
<1>4. \A i, j \in 1 .. Len(toClient) : toClient[i] = "answer" /\ i # j => toClient[j] = "bytes" /\ i < j
  <2> SUFFICES ASSUME NEW i \in 1 .. l, NEW j \in 1 .. l, c[i] = "answer", i # j
               PROVE  c[j] = "bytes" /\ i < j
    BY <1>2
  <2>1. \A k \in 1 .. l : k > 1 => c[k] = "bytes"
    BY <1>1, <1>2 DEF AnswersFirst
  <2>2. "answer" # "bytes"
    OBVIOUS
  <2>3. ~(i > 1)
    BY <2>1, <2>2
  <2>4. i = 1 /\ j > 1
    BY <2>3
  <2> QED BY <2>1, <2>4
<1>5. \A i, j \in 1 .. Len(toOther) : i < j => toOther[i] < toOther[j]
  BY <1>1 DEF InOrder
<1>6. ASSUME Careful
      PROVE  LET skipped == IF toOther # <<>> /\ Head(toOther) # Request THEN 1 ELSE 0
             IN toOther = [i \in 1 .. Len(toOther) |-> i + skipped]
  <2> DEFINE skipped == IF toOther # <<>> /\ Head(toOther) # Request THEN 1 ELSE 0
  <2>1. PICK skip \in {0, 1} : \A i \in 1 .. m : t[i] = i + skip
    BY <1>1, <1>3, <1>6 DEF NothingDropped
  <2>2. \A i \in 1 .. m : t[i] = i + skipped
    <3>1. CASE m = 0
      BY <3>1
    <3>2. CASE m > 0
      <4>1. t # <<>> /\ Head(t) = t[1] /\ t[1] = 1 + skip
        BY <1>3, <2>1, <3>2, EmptySeq
      <4>2. skipped = skip
        BY <1>3, <4>1 DEF Request
      <4> QED BY <2>1, <4>2
    <3> QED BY <3>1, <3>2
  <2>3. t = [i \in 1 .. m |-> t[i]]
    <3>1. DOMAIN t = 1 .. m
      BY <1>3, LenProperties
    <3>2. t \in [1 .. m -> Nat]
      BY <1>3, LenProperties
    <3> QED BY <3>2
  <2> HIDE DEF skipped
  <2>4. [i \in 1 .. m |-> t[i]] = [i \in 1 .. m |-> i + skipped]
    BY <2>2
  <2>5. toOther = [i \in 1 .. Len(toOther) |-> i + skipped]
    BY <1>3, <2>3, <2>4
  <2> QED BY <2>5 DEF skipped
<1>7. RelayedFaithfully
  BY <1>4, <1>5, <1>6 DEF RelayedFaithfully, Careful
<1>8. ProxyTypeOK
  <2>1. sentItems <= 1 + MaxFollowing /\ fromOther <= MaxBytes /\ sentItems \in Nat /\ fromOther \in Nat
    BY <1>1, ProxyAssumption DEF ProxyTypes
  <2>2. l <= fromOther + 1 /\ Len(onWire) <= sentItems
    BY <1>1, <1>2 DEF AnswersFirst, InOrder
  <2>3. onWire \in Seq(Nat)
    BY <1>1 DEF ProxyTypes
  <2>4. Len(onWire) \in Nat
    BY <2>3, LenProperties
  <2>5. Len(onWire) <= 1 + MaxFollowing /\ Len(toClient) <= MaxBytes + 1
    BY <1>2, <2>1, <2>2, <2>4, ProxyAssumption
  <2> QED BY <1>1, <2>5 DEF ProxyTypeOK, ProxyTypes, Stages
<1> QED BY <1>7, <1>8

\* For any number of attempts, of things a client sends and of bytes that come
\* back, a proxy's handler speaks for itself once at most and before the other
\* end does, and gives what the client sent to the other end in order and,
\* unless an HTTP client did not wait, complete (http.go, relay.go, sni.go).
THEOREM RelayedFaithfullyHolds == ProxySpec => [](ProxyTypeOK /\ RelayedFaithfully)
<1>1. ProxyInit => ProxyInv
  BY ProxyStarts
<1>2. ProxyInv /\ [ProxyNext]_proxyVars => ProxyInv'
  BY ProxyStep
<1>3. ProxyInv => ProxyTypeOK /\ RelayedFaithfully
  BY ProxyMeans
<1> QED BY <1>1, <1>2, <1>3, PTL DEF ProxySpec
=============================================================================
