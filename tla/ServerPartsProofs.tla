-------------------------- MODULE ServerPartsProofs --------------------------
(***************************************************************************)
(* Proofs about the parts of the server beside its tunnels, each for all   *)
(* values of its constants.                                                *)
(***************************************************************************)
EXTENDS MCServerParts, ServerLifecycleProofs, WellFoundedInduction

-----------------------------------------------------------------------------
(* A port, its caller and its tunnel.                                        *)

\* A call that is not made has no request and no forwarder.
NewInv ==
  \A t \in PortTunnels : call[t].is = "new" => order[t] = "none" /\ forwarder[t] = "none"

\* A call's forwarder has bound its port, or still may, one day.
MayBind(u) == forwarder[u] \in {"dials", "bound", "stuck"} \/ order[u] = "sent"

\* Whatever may bind the port of a call that waits or is listed is known since
\* the port was reserved for it.
RivalInv ==
  \A t, u \in PortTunnels :
    call[t].is \in {"waits", "listed"} /\ u # t /\ call[u].port = call[t].port /\ MayBind(u)
      => u \in rivals[t]

\* What every step keeps.
HandoverInv == HandoverTypeOK /\ NewInv /\ RivalInv

\* The initial state satisfies the invariant.
LEMMA HandoverInitInv == HandoverInit => HandoverInv
<1> SUFFICES ASSUME HandoverInit PROVE HandoverInv
  OBVIOUS
<1>1. NewCall \in [agent : Agents, port : ServerPorts \cup {0},
                   is : {"new", "waits", "listed", "failed", "lost"}]
  BY HandoverAssumption DEF NewCall
<1>2. HandoverTypeOK
  BY <1>1 DEF HandoverInit, HandoverTypeOK
<1>3. NewInv /\ RivalInv
  BY DEF HandoverInit, NewCall, NewInv, RivalInv
<1> QED BY <1>2, <1>3 DEF HandoverInv

\* Steps of the agent and of the SSH service: a forwarder moves on, and binds
\* only if it might have before.
LEMMA AgentSide ==
  ASSUME HandoverInv, NEW t \in PortTunnels, HandleTunnel(t) \/ Bind(t) \/ SessionBreaks(t)
  PROVE  HandoverInv'
<1> USE DEF HandoverInv
<1>1. /\ UNCHANGED <<gone, noticed, call, closing, rivals>>
      /\ \A u \in PortTunnels : u # t => forwarder'[u] = forwarder[u] /\ order'[u] = order[u]
      /\ MayBind(t) /\ order'[t] = (IF order[t] = "sent" THEN order'[t] ELSE order[t])
  BY DEF HandleTunnel, Bind, SessionBreaks, HandoverTypeOK, MayBind
<1>2. HandoverTypeOK'
  <2>1. order' \in [PortTunnels -> {"none", "sent", "confirmed"}]
    BY DEF HandleTunnel, Bind, SessionBreaks, HandoverTypeOK
  <2>2. PICK l \in {"dials", "bound", "ended", "stuck"} : forwarder' = [forwarder EXCEPT ![t] = l]
    BY DEF HandleTunnel, Bind, SessionBreaks
  <2>3. forwarder' \in [PortTunnels -> {"none", "dials", "bound", "stuck", "ended"}]
    BY <2>2 DEF HandoverTypeOK
  <2> QED BY <1>1, <2>1, <2>3 DEF HandoverTypeOK
<1>3. call[t].is # "new"
  BY <1>1 DEF NewInv, MayBind
<1>4. NewInv'
  BY <1>1, <1>3 DEF NewInv
<1>5. \A u \in PortTunnels : MayBind(u)' => MayBind(u)
  BY <1>1 DEF MayBind
<1>6. RivalInv'
  BY <1>1, <1>5 DEF RivalInv
<1> QED BY <1>2, <1>4, <1>6

\* Steps of the server that end or list calls, and the end of a session.
LEMMA ServerSide ==
  ASSUME HandoverInv,
         \/ \E t \in PortTunnels : Confirmed(t) \/ WaitFails(t)
         \/ \E a \in Agents : StopClient(a) \/ StopAgent(a)
  PROVE  HandoverInv'
<1> USE DEF HandoverInv
<1>1. UNCHANGED <<order, forwarder, rivals>>
  BY DEF Confirmed, WaitFails, StopClient, StopAgent
<1>2. /\ \A u \in PortTunnels :
           /\ call'[u].port = call[u].port /\ (call'[u].is = "new" <=> call[u].is = "new")
           /\ call'[u].is \in {"waits", "listed"} => call[u].is \in {"waits", "listed"}
      /\ HandoverTypeOK'
  <2>1. ASSUME NEW t \in PortTunnels, NEW l \in {"listed", "failed"}, call[t].is = "waits",
               call' = [call EXCEPT ![t].is = l], UNCHANGED <<gone, noticed, closing>>
        PROVE <1>2!1 /\ <1>2!2
    BY <1>1, <2>1 DEF HandoverTypeOK
  <2>2. ASSUME NEW a \in Agents, StopClient(a)
        PROVE <1>2!1 /\ <1>2!2
    <3> DEFINE c(t) == IF call[t].agent = a /\ call[t].is = "listed"
                       THEN [call[t] EXCEPT !.is = "lost"] ELSE call[t]
    <3>1. \A t \in PortTunnels :
            /\ c(t) \in [agent : Agents, port : ServerPorts \cup {0},
                         is : {"new", "waits", "listed", "failed", "lost"}]
            /\ c(t).port = call[t].port
            /\ c(t).is = call[t].is \/ (call[t].is = "listed" /\ c(t).is = "lost")
      BY DEF HandoverTypeOK
    <3>2. call' = [t \in PortTunnels |-> c(t)]
      BY <2>2 DEF StopClient
    <3>3. gone' = gone \cup {a} /\ UNCHANGED <<noticed, closing>>
      BY <2>2 DEF StopClient
    <3> HIDE DEF c
    <3> QED BY <1>1, <3>1, <3>2, <3>3 DEF HandoverTypeOK
  <2>3. ASSUME NEW a \in Agents, StopAgent(a)
        PROVE <1>2!1 /\ <1>2!2
    BY <1>1, <2>3 DEF StopAgent, HandoverTypeOK
  <2> QED BY <2>1, <2>2, <2>3 DEF Confirmed, WaitFails
<1>3. NewInv'
  BY <1>1, <1>2 DEF NewInv
<1>4. RivalInv'
  BY <1>1, <1>2 DEF RivalInv, MayBind
<1> QED BY <1>2, <1>3, <1>4

\* A port is booked when nobody has bound it, and what might is noted.
LEMMA Reservation ==
  ASSUME HandoverInv, NEW t \in PortTunnels, NEW a \in Agents, CreateTunnel(t, a)
  PROVE  HandoverInv'
<1> USE DEF HandoverInv
<1>1. PICK p \in ServerPorts \ Booked :
        /\ BoundAt(p) = {}
        /\ call' = [call EXCEPT ![t] = [agent |-> a, port |-> p, is |-> "waits"]]
        /\ rivals' = [rivals EXCEPT ![t] = {u \in PortTunnels : call[u].port = p /\ GivenUp(u) /\
                        (forwarder[u] \in {"dials", "stuck"} \/ order[u] = "sent")}]
  BY DEF CreateTunnel
<1>2. /\ order' = [order EXCEPT ![t] = "sent"] /\ call[t].is = "new"
      /\ UNCHANGED <<gone, noticed, forwarder, closing>>
  BY DEF CreateTunnel
<1>3. HandoverTypeOK'
  BY <1>1, <1>2 DEF HandoverTypeOK
<1>4. /\ call'[t].port = p /\ call'[t].is = "waits" /\ order'[t] = "sent"
      /\ \A u \in PortTunnels : u # t => call'[u] = call[u] /\ order'[u] = order[u]
                                         /\ rivals'[u] = rivals[u]
  BY <1>1, <1>2 DEF HandoverTypeOK
<1>5. NewInv'
  BY <1>2, <1>4 DEF NewInv
<1>6. RivalInv'
  <2> SUFFICES ASSUME NEW v \in PortTunnels, NEW u \in PortTunnels,
                      call'[v].is \in {"waits", "listed"}, u # v,
                      call'[u].port = call'[v].port, MayBind(u)'
               PROVE  u \in rivals'[v]
    BY DEF RivalInv
  <2>1. CASE v # t /\ u # t
    BY <1>2, <1>4, <2>1 DEF RivalInv, MayBind
  <2>2. CASE u = t
    <3>1. call[v].port = p /\ call[v].is \in {"waits", "listed"}
      BY <1>4, <2>2
    <3> QED BY <3>1 DEF Booked
  <2>3. CASE v = t
    <3>1. call[u].port = p /\ MayBind(u)
      BY <1>2, <1>4, <2>3 DEF MayBind
    <3>2. call[u].is \notin {"waits", "listed"}
      BY <3>1 DEF Booked
    <3>3. GivenUp(u)
      BY <3>1, <3>2 DEF GivenUp, HandoverTypeOK, NewInv, MayBind
    <3>4. forwarder[u] # "bound"
      BY <1>1, <3>1 DEF BoundAt
    <3>5. u \in {w \in PortTunnels : call[w].port = p /\ GivenUp(w) /\
                   (forwarder[w] \in {"dials", "stuck"} \/ order[w] = "sent")}
      BY <3>1, <3>3, <3>4 DEF MayBind
    <3>6. rivals'[t] = {w \in PortTunnels : call[w].port = p /\ GivenUp(w) /\
                   (forwarder[w] \in {"dials", "stuck"} \/ order[w] = "sent")}
      BY <1>1 DEF HandoverTypeOK
    <3> QED BY <2>3, <3>5, <3>6
  <2> QED BY <2>1, <2>2, <2>3
<1> QED BY <1>3, <1>5, <1>6

\* The invariant holds in every reachable state.
THEOREM HandoverInvHolds == HandoverSpec => []HandoverInv
<1>1. HandoverInv /\ [HandoverNext]_handoverVars => HandoverInv'
  <2> SUFFICES ASSUME HandoverInv, [HandoverNext]_handoverVars PROVE HandoverInv'
    OBVIOUS
  <2>1. CASE UNCHANGED handoverVars
    BY <2>1 DEF handoverVars, HandoverInv, HandoverTypeOK, NewInv, RivalInv, MayBind
  <2>2. CASE HandoverNext
    BY <2>2, AgentSide, ServerSide, Reservation DEF HandoverNext
  <2> QED BY <2>1, <2>2
<1> QED BY HandoverInitInv, <1>1, PTL DEF HandoverSpec

\* The variables of the handover keep their types.
THEOREM HandoverTypeCorrect == HandoverSpec => []HandoverTypeOK
<1>1. HandoverInv => HandoverTypeOK
  BY DEF HandoverInv
<1> QED BY HandoverInvHolds, <1>1, PTL

\* For all agents, calls and ports: at a listed port only its own tunnel
\* answers, or one given up that was about to bind when the port was booked.
THEOREM CallersReachTheirTunnelHolds == HandoverSpec => []CallersReachTheirTunnel
<1>1. HandoverInv => CallersReachTheirTunnel
  BY DEF HandoverInv, RivalInv, MayBind, CallersReachTheirTunnel, BoundAt
<1> QED BY HandoverInvHolds, <1>1, PTL

-----------------------------------------------------------------------------
(* The limiter of a reverse SSH service.                                   *)

\* The holder of the token is in its pause or uses the service.
Busy(u) == user[u] \in {"pause", "using"}

\* One user at a time holds the token, and none while it is to be had.
HolderInv ==
  /\ \A u, v \in Users : Busy(u) /\ Busy(v) => u = v
  /\ token => \A u \in Users : ~Busy(u)

\* The time of the last use is written, or its user is about to write it.
StampInv ==
  /\ \A u \in unstamped : user[u] = "released"
  /\ unstamped # {} \/ lastServe >= released

\* The holder's pause does not end too early, and has not.
SpaceInv ==
  \A u \in Users :
    /\ user[u] = "pause" => stale \/ wake[u] + PerSecond > released + Interval
    /\ user[u] = "using" => stale \/ now + PerSecond > released + Interval

\* What every step of a goroutine keeps.
LimiterInv == LimiterTypeOK /\ HolderInv /\ StampInv /\ SpaceInv

\* Division with remainder.
LEMMA Remainder ==
  ASSUME NEW b \in Nat \ {0}, NEW n \in Int
  PROVE  n % b \in 0..(b - 1) /\ n \div b \in Int /\ n = b * (n \div b) + (n % b)
  OBVIOUS

\* The time between two uses is a number of ticks.
LEMMA IntervalType == Interval \in Nat /\ PerSecond \in Nat \ {0} /\ MaxTime \in Nat
<1>1. \A m, n \in Nat : m * n \in Nat
  OBVIOUS
<1> QED BY <1>1, LimiterAssumption DEF Interval

\* The pause is at most Pause seconds and, without its fraction of a second,
\* ends less than a second too early.
LEMMA PauseBounds ==
  ASSUME NEW diff \in Nat
  PROVE  /\ PauseLeft(diff) \in 0..Interval
         /\ PauseLeft(diff) + diff + PerSecond > Interval
<1>1. CASE diff < Interval
  <2> DEFINE left == Interval - diff
  <2>1. left \in Nat
    BY <1>1, IntervalType
  <2>2. PICK rest \in 0..(PerSecond - 1), whole \in Int :
          whole = PerSecond * (left \div PerSecond) /\ left = whole + rest
    <3>1. \A m, n \in Int : m * n \in Int
      OBVIOUS
    <3> QED BY <2>1, <3>1, IntervalType, Remainder
  <2>3. whole >= 0
    <3>1. \A n \in Nat, b \in Nat \ {0} : n \div b \in Nat
      OBVIOUS
    <3>2. \A m, n \in Nat : m * n \in Nat
      OBVIOUS
    <3> QED BY <2>1, <2>2, <3>1, <3>2, IntervalType
  <2>4. PauseLeft(diff) = whole
    BY <1>1, <2>2 DEF PauseLeft
  <2> HIDE DEF left
  <2> QED BY <2>1, <2>2, <2>3, <2>4, IntervalType DEF left
<1>2. CASE ~(diff < Interval)
  BY <1>2, IntervalType DEF PauseLeft
<1> QED BY <1>1, <1>2

\* A step of a goroutine keeps the invariant of the limiter.
LEMMA LimiterStep ==
  ASSUME LimiterInv, NEW u \in Users,
         Lock(u) \/ LockReturns(u) \/ UnLock(u) \/ UnLockStamps(u)
  PROVE  LimiterInv'
<1> USE DEF LimiterInv, LimiterTypeOK
<1>1. CASE Lock(u)
  <2>1. now - lastServe \in Nat /\ now \in Nat /\ lastServe \in Nat
    BY IntervalType
  <2>2. PICK left \in 0..Interval :
          /\ left = PauseLeft(now - lastServe)
          /\ left + (now - lastServe) + PerSecond > Interval
    BY <2>1, PauseBounds
  <2>3. wake' = [wake EXCEPT ![u] = now + left] /\ user' = [user EXCEPT ![u] = "pause"]
    BY <1>1, <2>2 DEF Lock
  <2>4. LimiterTypeOK'
    <3>1. now + left \in 0..(MaxTime + Interval)
      BY <2>1, <2>2, IntervalType
    <3> QED BY <1>1, <2>3, <3>1 DEF Lock
  <2>5. HolderInv' /\ StampInv'
    BY <1>1 DEF Lock, HolderInv, StampInv, Busy
  <2>6. stale' \/ now + left + PerSecond > released + Interval
    <3>1. CASE stale'
      BY <3>1
    <3>2. CASE ~stale'
      <4>1. lastServe >= released
        BY <1>1, <3>2 DEF Lock, StampInv
      <4> QED BY <2>1, <2>2, <4>1, IntervalType
    <3> QED BY <3>1, <3>2
  <2>7. SpaceInv'
    <3> SUFFICES ASSUME NEW v \in Users
                 PROVE /\ user'[v] = "pause" => stale' \/ wake'[v] + PerSecond > released' + Interval
                       /\ user'[v] = "using" => stale' \/ now' + PerSecond > released' + Interval
      BY DEF SpaceInv
    <3>1. CASE v = u
      BY <1>1, <2>3, <2>6, <3>1 DEF Lock
    <3>2. CASE v # u
      BY <1>1, <2>3, <3>2 DEF Lock, HolderInv, Busy
    <3> QED BY <3>1, <3>2
  <2> QED BY <2>4, <2>5, <2>7
<1>2. CASE LockReturns(u)
  <2>1. user' = [user EXCEPT ![u] = "using"] /\ user[u] = "pause" /\ now >= wake[u]
        /\ UNCHANGED <<now, token, lastServe, wake, released, unstamped, stale>>
    BY <1>2 DEF LockReturns
  <2>2. LimiterTypeOK' /\ HolderInv' /\ StampInv'
    BY <2>1 DEF HolderInv, StampInv, Busy
  <2>3. SpaceInv'
    BY <2>1, IntervalType DEF SpaceInv
  <2> QED BY <2>2, <2>3
<1>3. CASE UnLock(u)
  <2>1. user' = [user EXCEPT ![u] = "released"] /\ user[u] = "using" /\ released' = now /\ unstamped' = {u}
        /\ token' = TRUE /\ UNCHANGED <<now, lastServe, wake, stale>>
    BY <1>3 DEF UnLock
  <2>2. LimiterTypeOK' /\ StampInv'
    BY <2>1, IntervalType DEF StampInv
  <2>3. \A v \in Users : ~Busy(v)'
    BY <2>1 DEF HolderInv, Busy
  <2> QED BY <2>2, <2>3 DEF HolderInv, SpaceInv, Busy
<1>4. CASE UnLockStamps(u)
  <2>1. user' = [user EXCEPT ![u] = "idle"] /\ user[u] = "released" /\ lastServe' = now
        /\ UNCHANGED <<now, token, wake, released, stale>>
        /\ unstamped' = unstamped \ {u}
    BY <1>4 DEF UnLockStamps
  <2>2. LimiterTypeOK' /\ StampInv'
    BY <2>1, IntervalType DEF StampInv
  <2>3. HolderInv' /\ SpaceInv'
    BY <2>1 DEF HolderInv, SpaceInv, Busy
  <2> QED BY <2>2, <2>3
<1> QED BY <1>1, <1>2, <1>3, <1>4

\* The invariant of the limiter is inductive.
LEMMA LimiterInductive ==
  /\ LimiterInit => LimiterInv
  /\ LimiterInv /\ [LimiterNext]_limiterVars => LimiterInv'
<1>1. ASSUME LimiterInit PROVE LimiterInv
  <2>1. 0 \in 0..MaxTime /\ 0 \in 0..(MaxTime + Interval) /\ 0 \in 0..0
    BY IntervalType
  <2>2. LimiterTypeOK
    BY <1>1, <2>1 DEF LimiterInit, LimiterTypeOK
  <2>3. HolderInv /\ StampInv /\ SpaceInv
    BY <1>1 DEF LimiterInit, HolderInv, StampInv, SpaceInv, Busy
  <2> QED BY <2>2, <2>3 DEF LimiterInv
<1>2. ASSUME LimiterInv, [LimiterNext]_limiterVars PROVE LimiterInv'
  <2>1. CASE UNCHANGED limiterVars
    BY <1>2, <2>1 DEF limiterVars, LimiterInv, LimiterTypeOK, HolderInv, StampInv, SpaceInv, Busy
  <2>2. CASE Tick
    BY <1>2, <2>2, IntervalType
    DEF Tick, LimiterInv, LimiterTypeOK, HolderInv, StampInv, SpaceInv, Busy
  <2> QED BY <1>2, <2>1, <2>2, LimiterStep DEF LimiterNext
<1> QED BY <1>1, <1>2

\* For any pause and number of users: they use the service one at a time, and
\* the next begins less than a second short of the pause after the last,
\* unless it read the time of the last use before that was written.
THEOREM UsesAreSpacedHolds == LimiterSpec => []UsesAreSpaced
<1>1. LimiterInv => UsesAreSpaced
  BY DEF LimiterInv, HolderInv, SpaceInv, Busy, UsesAreSpaced
<1> QED BY LimiterInductive, <1>1, PTL DEF LimiterSpec

-----------------------------------------------------------------------------
(* The users of the portal.                                                *)

\* Request r is between the two statements of a login of user u.
AtWhitelist(r, u) == req[r].at = "whitelist" /\ req[r].user = u

\* A login that has found its row knows the user's token, and the row stays.
FoundInv ==
  \A r \in Requests : req[r].at \in {"token", "whitelist"} =>
    rows[req[r].user] # NoRow /\ req[r].token = <<req[r].user>>

\* Two logins of a user between their statements overlap.
OverlapInv ==
  \A q, r \in Requests, u \in Usernames :
    q # r /\ AtWhitelist(q, u) /\ AtWhitelist(r, u) => u \in mixed

\* Of a user whose logins do not overlap the row names the writer of the
\* token: who is yet to write the address, or who has written it.
WriterInv ==
  \A u \in Usernames : rows[u] # NoRow /\ u \notin mixed =>
    /\ \A r \in Requests : AtWhitelist(r, u) => req[r].from = rows[u].writer
    /\ (\A r \in Requests : ~AtWhitelist(r, u)) /\ rows[u].token # Nothing =>
         rows[u].whitelist = rows[u].writer /\ rows[u].writer \in Addresses

\* What every request keeps.
UserInv == UserTypeOK /\ FoundInv /\ OverlapInv /\ WriterInv

\* The row a user begins with is a row, and its token is nothing.
LEMMA NewRowType == NewRow \in Row /\ NewRow.token = Nothing
  BY DEF NewRow, Row

\* A request that is not at its second statement moves on, and rows stay.
LEMMA UserMoves ==
  ASSUME UserInv, UserTypeOK', NEW r \in Requests, UNCHANGED <<rows, mixed>>,
         \A q \in Requests : q # r => req'[q] = req[q],
         req[r].at # "whitelist", req'[r].at # "whitelist",
         req'[r].at = "token" => /\ rows[req'[r].user] # NoRow
                                 /\ req'[r].token = <<req'[r].user>>
  PROVE  UserInv'
<1>1. \A q \in Requests, u \in Usernames : AtWhitelist(q, u)' <=> AtWhitelist(q, u)
  BY DEF AtWhitelist
<1>2. FoundInv'
  BY DEF UserInv, FoundInv
<1>3. OverlapInv'
  BY <1>1 DEF UserInv, OverlapInv
<1>4. WriterInv'
  BY <1>1 DEF UserInv, WriterInv, AtWhitelist
<1> QED BY <1>2, <1>3, <1>4 DEF UserInv

\* A row is made for a user who had none.
LEMMA UserInserts ==
  ASSUME UserInv, UserTypeOK', NEW u \in Usernames, rows[u] = NoRow,
         rows' = [rows EXCEPT ![u] = NewRow], UNCHANGED mixed,
         \A q \in Requests : req'[q] = req[q]
                             \/ (req'[q] = IdleReq /\ req[q].at # "whitelist")
  PROVE  UserInv'
<1>1. /\ rows'[u] = NewRow /\ \A v \in Usernames : v # u => rows'[v] = rows[v]
      /\ NewRow # NoRow
  BY NewRowType, UsersAssumption DEF UserInv, UserTypeOK
<1>3. \A q \in Requests : req'[q].at \in {"token", "whitelist"} => req'[q] = req[q]
  BY DEF IdleReq
<1>4. \A q \in Requests : ~AtWhitelist(q, u)'
  BY <1>3 DEF UserInv, FoundInv, AtWhitelist
<1>5. FoundInv'
  <2> SUFFICES ASSUME NEW q \in Requests, req'[q].at \in {"token", "whitelist"}
               PROVE  rows'[req'[q].user] # NoRow /\ req'[q].token = <<req'[q].user>>
    BY DEF FoundInv
  <2>1. req'[q] = req[q] /\ rows[req[q].user] # NoRow /\ req[q].token = <<req[q].user>>
    BY <1>3 DEF UserInv, FoundInv
  <2>2. req[q].user \in Usernames
    BY <1>3 DEF UserInv, UserTypeOK, IdleReq
  <2> QED BY <1>1, <2>1, <2>2
<1>6. OverlapInv'
  BY <1>3 DEF UserInv, OverlapInv, AtWhitelist
<1>7. WriterInv'
  <2> SUFFICES ASSUME NEW v \in Usernames, rows'[v] # NoRow, v \notin mixed
               PROVE  /\ \A q \in Requests : AtWhitelist(q, v)' => req'[q].from = rows'[v].writer
                      /\ (\A q \in Requests : ~AtWhitelist(q, v)') /\ rows'[v].token # Nothing =>
                           rows'[v].whitelist = rows'[v].writer /\ rows'[v].writer \in Addresses
    BY DEF WriterInv
  <2>1. CASE v = u
    BY <1>1, <1>4, <2>1, NewRowType
  <2>2. CASE v # u
    <3>1. \A q \in Requests : /\ AtWhitelist(q, v)' <=> AtWhitelist(q, v)
                              /\ AtWhitelist(q, v) => req'[q] = req[q]
      BY <1>3 DEF AtWhitelist
    <3> QED BY <1>1, <2>2, <3>1 DEF UserInv, WriterInv
  <2> QED BY <2>1, <2>2
<1> QED BY <1>5, <1>6, <1>7 DEF UserInv

\* A request's place and data have their types.
LEMMA RequestFields ==
  ASSUME UserInv, NEW r \in Requests, req[r] # IdleReq
  PROVE  /\ req[r].at \in {"fetch", "exists", "insert", "select", "token", "whitelist"}
         /\ req[r].user \in Usernames
         /\ req[r].at \in {"fetch", "exists", "insert"} => 
              req[r] \in [at : {"fetch", "exists", "insert"}, user : Usernames]
         /\ req[r].at = "select" =>
              req[r] \in [at : {"select"}, user : Usernames, from : Addresses]
         /\ req[r].at \in {"token", "whitelist"} =>
              req[r] \in [at : {"token", "whitelist"}, user : Usernames, from : Addresses,
                          token : {<<u>> : u \in Usernames}]
  BY DEF UserInv, UserTypeOK

\* Every step keeps the types of the store.
LEMMA UserTypeStep == UserInv /\ UserNext => UserTypeOK'
<1> SUFFICES ASSUME UserInv, UserNext PROVE UserTypeOK'
  OBVIOUS
<1> USE DEF UserTypeOK, UserInv
<1> DEFINE Req == {IdleReq} \cup [at : {"fetch", "exists", "insert"}, user : Usernames]
                    \cup [at : {"select"}, user : Usernames, from : Addresses]
                    \cup [at : {"token", "whitelist"}, user : Usernames, from : Addresses,
                          token : {<<u>> : u \in Usernames}]
           Rows == /\ rows' \in [Usernames -> Row \cup {NoRow}]
                   /\ \A u \in Usernames : rows'[u] = NoRow \/ rows'[u].token \in {Nothing, <<u>>}
<1>1. CASE InitDB
  <2>1. Rows
    <3>1. CASE rows' = [rows EXCEPT ![Admin] = NewRow]
      BY <3>1, NewRowType, UsersAssumption
    <3>2. CASE rows' = rows
      BY <3>2
    <3> QED BY <1>1, <3>1, <3>2 DEF InitDB
  <2>2. up' \in BOOLEAN /\ table' \in BOOLEAN /\ req' = req /\ mixed' = mixed
    BY <1>1 DEF InitDB
  <2> QED BY <2>1, <2>2
<1>2. CASE Restart
  <2>1. mixed' \subseteq Usernames
    BY <1>2, RequestFields DEF Restart, IdleReq
  <2> QED BY <1>2, <2>1 DEF Restart
<1>3. ASSUME NEW r \in Requests, Begin(r) PROVE UserTypeOK'
  <2>1. \E q \in Req : req' = [req EXCEPT ![r] = q]
    BY <1>3 DEF Begin
  <2> QED BY <1>3, <2>1 DEF Begin
<1>4. ASSUME NEW r \in Requests, CreateFetch(r) \/ CreateExists(r) PROVE UserTypeOK'
  <2>1. req[r] # IdleReq /\ req[r].at \in {"fetch", "exists"}
    BY <1>4 DEF CreateFetch, CreateExists, IdleReq
  <2>2. req' \in [Requests -> Req]
    <3>1. \/ Answer(r)
          \/ \E l \in {"exists", "insert"} : req' = [req EXCEPT ![r].at = l]
      BY <1>4 DEF CreateFetch, CreateExists
    <3>2. ASSUME NEW l \in {"exists", "insert"}, req' = [req EXCEPT ![r].at = l]
          PROVE  req' \in [Requests -> Req]
      <4>1. [req[r] EXCEPT !.at = l] \in Req
        BY <2>1, RequestFields
      <4> QED BY <3>2, <4>1
    <3> QED BY <3>1, <3>2 DEF Answer
  <2> QED BY <1>4, <2>2 DEF CreateFetch, CreateExists
<1>5. ASSUME NEW r \in Requests, CreateInsert(r) PROVE UserTypeOK'
  <2>1. req[r] # IdleReq
    BY <1>5 DEF CreateInsert, IdleReq
  <2>2. Rows
    BY <1>5, <2>1, RequestFields, NewRowType DEF CreateInsert
  <2> QED BY <1>5, <2>2 DEF CreateInsert, Answer
<1>6. ASSUME NEW r \in Requests, LoginSelect(r) PROVE UserTypeOK'
  <2>1. req[r] # IdleReq /\ req[r].at = "select"
    BY <1>6 DEF LoginSelect, IdleReq
  <2>2. req' \in [Requests -> Req]
    <3> DEFINE q == [at |-> "token", user |-> req[r].user, from |-> req[r].from,
                     token |-> <<req[r].user>>]
    <3>1. q \in Req
      BY <2>1, RequestFields
    <3>2. Answer(r) \/ req' = [req EXCEPT ![r] = q]
      BY <1>6 DEF LoginSelect
    <3> HIDE DEF q
    <3> QED BY <3>1, <3>2 DEF Answer
  <2> QED BY <1>6, <2>2 DEF LoginSelect
<1>7. ASSUME NEW r \in Requests, UpdateUserToken(r) PROVE UserTypeOK'
  <2>1. /\ req[r] # IdleReq /\ req[r].at = "token"
        /\ rows[req[r].user] # NoRow /\ req[r].token = <<req[r].user>>
    BY <1>7 DEF UpdateUserToken, IdleReq, FoundInv
  <2>2. req[r].user \in Usernames /\ req[r].from \in Addresses /\ req[r].token = <<req[r].user>>
    BY <2>1, RequestFields
  <2>3. CASE Answer(r) /\ UNCHANGED <<rows, mixed>>
    BY <1>7, <2>3 DEF UpdateUserToken, Answer
  <2>4. CASE /\ rows' = [rows EXCEPT ![req[r].user].token = req[r].token,
                                     ![req[r].user].writer = req[r].from]
             /\ req' = [req EXCEPT ![r].at = "whitelist"]
             /\ mixed' = IF Between(r) # {} THEN mixed \cup {req[r].user} ELSE mixed
    <3>1. Rows
      <4> DEFINE n == [[rows[req[r].user] EXCEPT !.token = req[r].token] EXCEPT !.writer = req[r].from]
      <4>1. n \in Row /\ n.token = <<req[r].user>>
        BY <2>1, <2>2 DEF Row
      <4>2. rows' = [rows EXCEPT ![req[r].user] = n]
        BY <2>2, <2>4
      <4> HIDE DEF n
      <4> QED BY <2>2, <4>1, <4>2
    <3>2. [req[r] EXCEPT !.at = "whitelist"] \in Req
      BY <2>1, RequestFields
    <3>3. req' \in [Requests -> Req]
      BY <2>4, <3>2
    <3> QED BY <1>7, <2>2, <2>4, <3>1, <3>3 DEF UpdateUserToken
  <2> QED BY <1>7, <2>3, <2>4 DEF UpdateUserToken
<1>8. ASSUME NEW r \in Requests, UpdateUserIPWhitelist(r) PROVE UserTypeOK'
  <2>1. /\ req[r] # IdleReq /\ req[r].at = "whitelist" /\ rows[req[r].user] # NoRow
    BY <1>8 DEF UpdateUserIPWhitelist, IdleReq, FoundInv
  <2>2. req[r].user \in Usernames /\ req[r].from \in Addresses
    BY <2>1, RequestFields
  <2>3. Rows
    <3> DEFINE n == [rows[req[r].user] EXCEPT !.whitelist = req[r].from]
    <3>1. n \in Row /\ n.token = rows[req[r].user].token
      BY <2>1, <2>2 DEF Row
    <3>2. rows' = rows \/ rows' = [rows EXCEPT ![req[r].user] = n]
      BY <1>8 DEF UpdateUserIPWhitelist
    <3> HIDE DEF n
    <3> QED BY <2>1, <2>2, <3>1, <3>2
  <2>4. mixed' \subseteq Usernames
    BY <1>8, <2>2 DEF UpdateUserIPWhitelist
  <2>5. req' \in [Requests -> Req] /\ up' \in BOOLEAN /\ table' \in BOOLEAN
    BY <1>8 DEF UpdateUserIPWhitelist, Answer
  <2> QED BY <2>3, <2>4, <2>5
<1> QED BY <1>1, <1>2, <1>3, <1>4, <1>5, <1>6, <1>7, <1>8 DEF UserNext

\* The first statement of a login: the token and its writer.
LEMMA TokenWritten ==
  ASSUME UserInv, UserTypeOK', NEW r \in Requests, NEW u \in Usernames, NEW a \in Addresses,
         req[r].at = "token", req[r].user = u, req[r].from = a, req[r].token = <<u>>,
         rows[u] # NoRow,
         rows' = [rows EXCEPT ![u].token = <<u>>, ![u].writer = a],
         req' = [req EXCEPT ![r].at = "whitelist"],
         mixed' = IF Between(r) # {} THEN mixed \cup {u} ELSE mixed
  PROVE  UserInv'
<1>1. /\ rows'[u].token = <<u>> /\ rows'[u].writer = a /\ rows'[u] # NoRow
      /\ \A v \in Usernames : v # u => rows'[v] = rows[v]
  <2> DEFINE n == [[rows[u] EXCEPT !.token = <<u>>] EXCEPT !.writer = a]
  <2>0. rows[u] \in Row /\ <<u>> \in {<<v>> : v \in Usernames}
    BY DEF UserInv, UserTypeOK
  <2>1. n \in Row /\ n.token = <<u>> /\ n.writer = a
    BY <2>0 DEF Row
  <2>2. rows' = [rows EXCEPT ![u] = n]
    OBVIOUS
  <2> HIDE DEF n
  <2> QED BY <2>1, <2>2, UsersAssumption DEF UserInv, UserTypeOK
<1>2. /\ \A q \in Requests : q # r => req'[q] = req[q]
      /\ req'[r].at = "whitelist" /\ req'[r].user = u /\ req'[r].from = a
      /\ req'[r].token = <<u>>
  <2> DEFINE n == [req[r] EXCEPT !.at = "whitelist"]
  <2>1. req[r] \in [at : {"token", "whitelist"}, user : Usernames, from : Addresses,
                    token : {<<v>> : v \in Usernames}]
    BY RequestFields DEF IdleReq
  <2>2. n.at = "whitelist" /\ n.user = u /\ n.from = a /\ n.token = <<u>>
    BY <2>1
  <2>3. req' = [req EXCEPT ![r] = n]
    OBVIOUS
  <2> HIDE DEF n
  <2> QED BY <2>2, <2>3 DEF UserInv, UserTypeOK
<1>3. Between(r) = {q \in Requests \ {r} : AtWhitelist(q, u)}
  BY DEF Between, AtWhitelist
<1>4. FoundInv'
  <2> SUFFICES ASSUME NEW q \in Requests, req'[q].at \in {"token", "whitelist"}
               PROVE  rows'[req'[q].user] # NoRow /\ req'[q].token = <<req'[q].user>>
    BY DEF FoundInv
  <2>1. CASE q = r
    BY <1>1, <1>2, <2>1
  <2>2. CASE q # r
    <3>1. req[q].user \in Usernames
      BY <1>2, <2>2, RequestFields DEF IdleReq
    <3> QED BY ZenonT(60), <1>1, <1>2, <2>2, <3>1 DEF UserInv, FoundInv
  <2> QED BY <2>1, <2>2
<1>5. \A q \in Requests, v \in Usernames :
        AtWhitelist(q, v)' <=> AtWhitelist(q, v) \/ (q = r /\ v = u)
  BY <1>2 DEF AtWhitelist
<1>6. OverlapInv'
  BY <1>3, <1>5 DEF UserInv, OverlapInv
<1>7. WriterInv'
  <2> SUFFICES ASSUME NEW v \in Usernames, rows'[v] # NoRow, v \notin mixed'
               PROVE  /\ \A q \in Requests : AtWhitelist(q, v)' => req'[q].from = rows'[v].writer
                      /\ (\A q \in Requests : ~AtWhitelist(q, v)') /\ rows'[v].token # Nothing =>
                           rows'[v].whitelist = rows'[v].writer /\ rows'[v].writer \in Addresses
    BY DEF WriterInv
  <2>1. CASE v = u
    <3>1. \A q \in Requests : AtWhitelist(q, u)' => q = r
      BY <1>3, <1>5, <2>1
    <3>2. AtWhitelist(r, u)'
      BY <1>5
    <3> QED BY <1>1, <1>2, <2>1, <3>1, <3>2
  <2>2. CASE v # u
    <3>1. \A q \in Requests : /\ AtWhitelist(q, v)' <=> AtWhitelist(q, v)
                              /\ AtWhitelist(q, v) => req'[q] = req[q]
      BY <1>2, <1>5, <2>2 DEF AtWhitelist
    <3>2. rows'[v] = rows[v] /\ v \notin mixed
      BY <1>1, <2>2
    <3> QED BY ZenonT(60), <3>1, <3>2 DEF UserInv, WriterInv
  <2> QED BY <2>1, <2>2
<1> QED BY <1>4, <1>6, <1>7 DEF UserInv

\* The second statement, or its failure.
LEMMA AddressWritten ==
  ASSUME UserInv, UserTypeOK', NEW r \in Requests, UpdateUserIPWhitelist(r)
  PROVE  UserInv'
<1>1. PICK u \in Usernames : u = req[r].user
  BY RequestFields DEF UpdateUserIPWhitelist, IdleReq
<1>2. /\ AtWhitelist(r, u) /\ rows[u] # NoRow /\ req[r].from \in Addresses
      /\ \A q \in Requests : q # r => req'[q] = req[q]
      /\ req'[r] = IdleReq
  BY <1>1, RequestFields
  DEF UpdateUserIPWhitelist, IdleReq, Answer, AtWhitelist, UserInv, FoundInv, UserTypeOK
<1>3. \A q \in Requests, v \in Usernames : AtWhitelist(q, v)' <=> AtWhitelist(q, v) /\ q # r
  BY <1>2 DEF AtWhitelist, IdleReq
<1>4. \A v \in Usernames : v # u => rows'[v] = rows[v]
  BY <1>1 DEF UpdateUserIPWhitelist, UserInv, UserTypeOK
<1>5. rows'[u] # NoRow /\ rows'[u].writer = rows[u].writer
      /\ (rows'[u].whitelist = req[r].from \/ u \in mixed')
      /\ mixed \subseteq mixed'
  <2>1. CASE rows' = [rows EXCEPT ![u].whitelist = req[r].from]
    <3> DEFINE n == [rows[u] EXCEPT !.whitelist = req[r].from]
    <3>1. n \in Row /\ n.whitelist = req[r].from /\ n.writer = rows[u].writer
      BY <1>2 DEF UserInv, UserTypeOK, Row
    <3>2. rows' = [rows EXCEPT ![u] = n]
      BY <2>1
    <3>3. rows'[u] = n
      BY <3>2 DEF UserInv, UserTypeOK
    <3> QED BY <3>1, <3>3, UsersAssumption DEF UpdateUserIPWhitelist
  <2>2. CASE UNCHANGED rows /\ mixed' = mixed \cup {u}
    BY <1>2, <2>2
  <2> QED BY <1>1, <2>1, <2>2 DEF UpdateUserIPWhitelist
<1>6. FoundInv'
  <2> SUFFICES ASSUME NEW q \in Requests, req'[q].at \in {"token", "whitelist"}
               PROVE  rows'[req'[q].user] # NoRow /\ req'[q].token = <<req'[q].user>>
    BY DEF FoundInv
  <2>1. q # r
    BY <1>2 DEF IdleReq
  <2>2. req[q].user \in Usernames
    BY <1>2, <2>1, RequestFields DEF IdleReq
  <2> QED BY <1>2, <1>4, <1>5, <2>1, <2>2 DEF UserInv, FoundInv
<1>7. OverlapInv'
  BY <1>3, <1>5 DEF UserInv, OverlapInv
<1>8. WriterInv'
  <2> SUFFICES ASSUME NEW v \in Usernames, rows'[v] # NoRow, v \notin mixed'
               PROVE  /\ \A q \in Requests : AtWhitelist(q, v)' => req'[q].from = rows'[v].writer
                      /\ (\A q \in Requests : ~AtWhitelist(q, v)') /\ rows'[v].token # Nothing =>
                           rows'[v].whitelist = rows'[v].writer /\ rows'[v].writer \in Addresses
    BY DEF WriterInv
  <2>1. CASE v = u
    <3>1. req[r].from = rows[u].writer /\ \A q \in Requests : ~AtWhitelist(q, u)'
      BY <1>2, <1>3, <1>5, <2>1 DEF UserInv, WriterInv, OverlapInv
    <3> QED BY <1>2, <1>5, <2>1, <3>1
  <2>2. CASE v # u
    <3>1. \A q \in Requests : AtWhitelist(q, v) => q # r
      BY <1>2, <2>2 DEF AtWhitelist
    <3> QED BY <1>2, <1>3, <1>4, <1>5, <2>2, <3>1 DEF UserInv, WriterInv
  <2> QED BY <2>1, <2>2
<1> QED BY <1>6, <1>7, <1>8 DEF UserInv

\* Every step keeps the invariant of the store.
LEMMA UserStep == UserInv /\ [UserNext]_userVars => UserInv'
<1> SUFFICES ASSUME UserInv, [UserNext]_userVars PROVE UserInv'
  OBVIOUS
<1>1. CASE UNCHANGED userVars
  BY <1>1 DEF userVars, UserInv, UserTypeOK, FoundInv, OverlapInv, WriterInv, AtWhitelist
<1>2. CASE UserNext
  <2>0. UserTypeOK'
    BY <1>2, UserTypeStep
  <2>1. CASE InitDB
    <3>1. CASE rows[Admin] = NoRow /\ ~UNCHANGED rows
      <4>1. /\ rows' = [rows EXCEPT ![Admin] = NewRow] /\ UNCHANGED <<req, mixed>>
            /\ Admin \in Usernames
        BY <2>1, <3>1, UsersAssumption DEF InitDB
      <4>2. \A q \in Requests : req'[q] = req[q]
        BY <4>1
      <4> QED BY <2>0, <3>1, <4>1, <4>2, UserInserts
    <3>2. CASE UNCHANGED rows
      BY <2>0, <2>1, <3>2 DEF InitDB, UserInv, FoundInv, OverlapInv, WriterInv, AtWhitelist
    <3> QED BY <2>1, <3>1, <3>2 DEF InitDB
  <2>2. CASE Restart
    <3>1. /\ \A r \in Requests : req'[r] = IdleReq /\ req'[r].at = "idle"
          /\ UNCHANGED rows /\ mixed \subseteq mixed'
      BY <2>2 DEF Restart, IdleReq
    <3>2. \A r \in Requests, u \in Usernames : AtWhitelist(r, u) => u \in mixed'
      BY <2>2 DEF Restart, AtWhitelist
    <3>3. FoundInv' /\ OverlapInv'
      BY <3>1 DEF FoundInv, OverlapInv, AtWhitelist
    <3>4. WriterInv'
      BY <3>1, <3>2 DEF UserInv, WriterInv, AtWhitelist
    <3> QED BY <2>0, <3>3, <3>4 DEF UserInv
  <2>3. ASSUME NEW r \in Requests, Begin(r) \/ CreateFetch(r) \/ CreateExists(r) \/ LoginSelect(r)
        PROVE  UserInv'
    <3>1. /\ UNCHANGED <<rows, mixed>> /\ \A q \in Requests : q # r => req'[q] = req[q]
      BY <2>3 DEF Begin, CreateFetch, CreateExists, LoginSelect, Answer, UserInv, UserTypeOK
    <3>2. req[r].at # "whitelist"
      BY <2>3 DEF Begin, CreateFetch, CreateExists, LoginSelect, IdleReq
    <3>3. CASE req'[r] = IdleReq
      BY <2>0, <3>1, <3>2, <3>3, UserMoves DEF IdleReq
    <3>4. CASE Begin(r)
      <4>1. req'[r].at \in {"fetch", "select"}
        BY <3>4 DEF Begin, UserInv, UserTypeOK
      <4> QED BY <2>0, <3>1, <3>2, <4>1, UserMoves
    <3>5. CASE CreateFetch(r) \/ CreateExists(r)
      <4>1. req[r] # IdleReq /\ req[r].at \in {"fetch", "exists"}
        BY <3>5 DEF CreateFetch, CreateExists, IdleReq
      <4>2. req'[r] = IdleReq \/ req'[r].at \in {"exists", "insert"}
        <5>1. req[r] \in [at : {"fetch", "exists", "insert"}, user : Usernames]
          BY <4>1, RequestFields
        <5> QED BY <3>5, <5>1 DEF CreateFetch, CreateExists, Answer, UserInv, UserTypeOK
      <4> QED BY <2>0, <3>1, <3>2, <3>3, <4>2, UserMoves
    <3>6. CASE LoginSelect(r)
      <4>1. \/ req'[r] = IdleReq
            \/ /\ rows[req[r].user] # NoRow
               /\ req'[r] = [at |-> "token", user |-> req[r].user, from |-> req[r].from,
                             token |-> <<req[r].user>>]
        BY <3>6 DEF LoginSelect, Answer, UserInv, UserTypeOK
      <4> QED BY <2>0, <3>1, <3>2, <3>3, <4>1, UserMoves
    <3> QED BY <2>3, <3>4, <3>5, <3>6
  <2>4. ASSUME NEW r \in Requests, CreateInsert(r) PROVE UserInv'
    <3>1. /\ req[r] # IdleReq /\ req[r].at = "insert" /\ req'[r] = IdleReq
          /\ \A q \in Requests : q # r => req'[q] = req[q]
          /\ UNCHANGED mixed
      BY <2>4 DEF CreateInsert, IdleReq, Answer, UserInv, UserTypeOK
    <3>2. CASE UNCHANGED rows
      BY <2>0, <3>1, <3>2, UserMoves DEF IdleReq
    <3>3. CASE rows[req[r].user] = NoRow /\ rows' = [rows EXCEPT ![req[r].user] = NewRow]
      <4>1. req[r].user \in Usernames
        BY <3>1, RequestFields
      <4>2. \A q \in Requests : req'[q] = req[q] \/ (req'[q] = IdleReq /\ req[q].at # "whitelist")
        BY <3>1
      <4> QED BY <2>0, <3>1, <3>3, <4>1, <4>2, UserInserts
    <3> QED BY <2>4, <3>2, <3>3 DEF CreateInsert
  <2>5. ASSUME NEW r \in Requests, UpdateUserToken(r) PROVE UserInv'
    <3>1. /\ req[r] # IdleReq /\ req[r].at = "token"
          /\ rows[req[r].user] # NoRow /\ req[r].token = <<req[r].user>>
      BY <2>5 DEF UpdateUserToken, IdleReq, UserInv, FoundInv
    <3>2. req[r].user \in Usernames /\ req[r].from \in Addresses
      BY <3>1, RequestFields
    <3>3. CASE Answer(r) /\ UNCHANGED <<rows, mixed>>
      <4>1. req'[r] = IdleReq /\ \A q \in Requests : q # r => req'[q] = req[q]
        BY <3>3 DEF Answer, UserInv, UserTypeOK
      <4> QED BY <2>0, <3>1, <3>3, <4>1, UserMoves DEF IdleReq
    <3>4. CASE ~(Answer(r) /\ UNCHANGED <<rows, mixed>>)
      BY <2>0, <2>5, <3>1, <3>2, <3>4, TokenWritten DEF UpdateUserToken
    <3> QED BY <3>3, <3>4
  <2>6. ASSUME NEW r \in Requests, UpdateUserIPWhitelist(r) PROVE UserInv'
    BY <2>0, <2>6, AddressWritten
  <2> QED BY <1>2, <2>1, <2>2, <2>3, <2>4, <2>5, <2>6 DEF UserNext
<1> QED BY <1>1, <1>2

\* The invariant of the store is inductive.
LEMMA UserInductive ==
  /\ UserInit => UserInv
  /\ UserInv /\ [UserNext]_userVars => UserInv'
<1>1. ASSUME UserInit PROVE UserInv
  BY <1>1 DEF UserInit, UserInv, UserTypeOK, FoundInv, OverlapInv, WriterInv, AtWhitelist, IdleReq
<1> QED BY <1>1, UserStep

\* For all users, addresses and requests: an address is good for a token if it
\* is that of the login which wrote the token, unless logins of the user
\* overlapped or broke off.
THEOREM TokenFitsAddressHolds == UserSpec => []TokenFitsAddress
<1>1. ASSUME UserInv PROVE TokenFitsAddress
  <2> SUFFICES ASSUME NEW u \in Usernames, rows[u] # NoRow, u \notin mixed,
                      \A r \in Requests : ~AtWhitelist(r, u), rows[u].token # Nothing
               PROVE  GetUserIPWhitelisted(rows[u].token) = {rows[u].writer}
    BY DEF TokenFitsAddress, GetAllUser, AtWhitelist
  <2>1. rows[u].whitelist = rows[u].writer /\ rows[u].writer # Nothing
    BY <1>1, UsersAssumption DEF UserInv, WriterInv
  <2>2. rows[u].token = <<u>>
    BY <1>1 DEF UserInv, UserTypeOK
  <2>3. \A v \in Usernames : rows[v] # NoRow /\ rows[v].token = <<u>> => v = u
    <3>1. <<u>> # <<>> /\ \A v : <<v>> = <<u>> => v = u
      OBVIOUS
    <3> QED BY <1>1, <3>1 DEF UserInv, UserTypeOK, Nothing
  <2>4. GetUserByToken(rows[u].token) = {u}
    BY <2>2, <2>3 DEF GetUserByToken
  <2> QED BY <2>1, <2>4 DEF GetUserIPWhitelisted
<1> QED BY UserInductive, <1>1, PTL DEF UserSpec
-----------------------------------------------------------------------------
(* A request over the control channel.                                     *)

FieldNames == {"type", "length", "body"}

\* The fields of a request in the order in which they are written.
Field(k) == IF k = 1 THEN "type" ELSE IF k = 2 THEN "length" ELSE "body"

\* Fields the handler has read while it reads them.
Reading == handler \in {"none", "type", "length", "body"}
Consumed == IF handler = "length" THEN 1 ELSE IF handler = "body" THEN 2 ELSE 0

\* What the handler has yet to read are the next fields, in order; one that
\* reads a body was promised one.
OrderInv ==
  /\ Reading =>
       /\ \A k \in 1..Len(arrived) : arrived[k] = Field(Consumed + k)
       /\ \A k \in 1..Len(toHandler) : toHandler[k] = Field(Consumed + Len(arrived) + k)
       /\ Consumed + Len(arrived) + Len(toHandler) <= body + 2
  /\ handler = "body" => body > 0
  /\ handler = "call" => body = 0 \/ got > 0

\* Nothing moves before the request; nothing comes back before its handler
\* ended, and no more than the reply and its length.
ReplyInv ==
  /\ requester = "open" => toHandler = <<>> /\ arrived = <<>> /\ handler = "none"
  /\ back # <<>> \/ requester \in {"body", "done"} => handler = "ended"
  /\ requester \in {"open", "length"} => Len(back) <= reply + 1
  /\ requester = "body" => Len(back) <= reply
  /\ requester = "done" => received > 0

\* What every step of the two ends keeps.
ChannelInv ==
  /\ ChannelTypeOK /\ OrderInv /\ ReplyInv
  /\ toHandler \in Seq(FieldNames) /\ arrived \in Seq(FieldNames) /\ back \in Seq(FieldNames)
  /\ handler # "misread"

\* The frames of a body: so many, and of nothing else.
LEMMA FramesProperties ==
  ASSUME NEW n \in Nat, NEW field \in FieldNames
  PROVE  /\ Frames(field, n) \in Seq(FieldNames) /\ Len(Frames(field, n)) = n
         /\ \A k \in 1..n : Frames(field, n)[k] = field
<1>1. Frames(field, n) \in [1..n -> FieldNames] /\ DOMAIN Frames(field, n) = 1..n
  BY DEF Frames
<1>2. Frames(field, n) \in Seq(FieldNames)
  BY <1>1, SeqDef
<1>3. 1..n = 1..Len(Frames(field, n)) /\ Len(Frames(field, n)) \in Nat
  BY <1>1, <1>2, LenProperties
<1>4. \A m \in Nat : 1..n = 1..m => n = m
  <2> SUFFICES ASSUME NEW m \in Nat, 1..n = 1..m PROVE n = m
    OBVIOUS
  <2>1. (n \in 1..n \/ n = 0) /\ (m \in 1..m \/ m = 0)
    OBVIOUS
  <2> QED BY <2>1
<1>5. \A k \in 1..n : Frames(field, n)[k] = field
  BY DEF Frames
<1> QED BY <1>2, <1>3, <1>4, <1>5

\* The invariant of a request is inductive.
LEMMA ChannelInductive ==
  /\ ChannelInit => ChannelInv
  /\ ChannelInv /\ [ChannelNext]_channelVars => ChannelInv'
<1>1. ASSUME ChannelInit PROVE ChannelInv
  <2>1. <<>> \in Seq(FieldNames) /\ Len(<<>>) = 0 /\ 0 \in 0..MaxFrames /\ body \in Nat /\ reply \in Nat
    BY <1>1, FramesAssumption DEF ChannelInit
  <2>2. ChannelTypeOK
    BY <1>1, <2>1 DEF ChannelInit, ChannelTypeOK
  <2>3. OrderInv /\ ReplyInv
    BY <1>1, <2>1 DEF ChannelInit, OrderInv, ReplyInv, Reading, Consumed
  <2> QED BY <1>1, <2>1, <2>2, <2>3 DEF ChannelInit, ChannelInv
<1>2. ASSUME ChannelInv, [ChannelNext]_channelVars PROVE ChannelInv'
  <2> USE <1>2, FramesAssumption DEF ChannelInv, ChannelTypeOK
  <2>0. CASE UNCHANGED channelVars
    BY <2>0 DEF channelVars, OrderInv, ReplyInv, Reading, Consumed
  <2>1. CASE Request
    <3>1. toHandler' \in Seq(FieldNames) /\ Len(toHandler') = body + 2
          /\ \A k \in 1..Len(toHandler') : toHandler'[k] = Field(k)
      <4>1. toHandler' = <<"type", "length">> \o Frames("body", body) /\ body \in Nat
        BY <2>1 DEF Request
      <4>2. /\ <<"type", "length">> \in Seq(FieldNames) /\ Len(<<"type", "length">>) = 2
            /\ Frames("body", body) \in Seq(FieldNames) /\ Len(Frames("body", body)) = body
            /\ \A k \in 1..body : Frames("body", body)[k] = "body"
        BY <4>1, FramesProperties DEF FieldNames
      <4>3. /\ toHandler' \in Seq(FieldNames) /\ Len(toHandler') = 2 + body
            /\ \A k \in 1..(2 + body) :
                 toHandler'[k] = IF k <= 2 THEN <<"type", "length">>[k] ELSE Frames("body", body)[k - 2]
        BY <4>1, <4>2, ConcatProperties
      <4>4. \A k \in 1..(2 + body) : toHandler'[k] = Field(k)
        <5> SUFFICES ASSUME NEW k \in 1..(2 + body) PROVE toHandler'[k] = Field(k)
          OBVIOUS
        <5>1. k > 2 => k - 2 \in 1..body
          BY <4>1
        <5> QED BY <4>1, <4>2, <4>3, <5>1 DEF Field
      <4> QED BY <4>1, <4>3, <4>4
    <3> QED BY <2>1, <3>1 DEF Request, OrderInv, ReplyInv, Reading, Consumed
  <2>2. CASE Arrive
    <3>1. toHandler # <<>> /\ toHandler' = Tail(toHandler)
          /\ arrived' = Append(arrived, toHandler[1])
          /\ requester # "open" /\ back' = back
          /\ UNCHANGED <<body, reply, requester, got, received, session>>
          /\ handler' = IF handler = "none" THEN "type" ELSE handler
      BY <2>2 DEF Arrive, ReplyInv
    <3>2. /\ Len(arrived') = Len(arrived) + 1 /\ Len(toHandler') = Len(toHandler) - 1
          /\ \A k \in 1..Len(arrived) : arrived'[k] = arrived[k]
          /\ arrived'[Len(arrived) + 1] = toHandler[1]
          /\ \A k \in 1..Len(toHandler') : toHandler'[k] = toHandler[k + 1]
          /\ toHandler' \in Seq(FieldNames) /\ arrived' \in Seq(FieldNames)
      BY <3>1
    <3>3. Consumed' = Consumed /\ (Reading' <=> Reading)
      BY <3>1 DEF Reading, Consumed
    <3>4. OrderInv'
      <4>1. ASSUME Reading
            PROVE  \A k \in 1..Len(arrived') : arrived'[k] = Field(Consumed + k)
        BY SMTT(30), <3>1, <3>2, <4>1 DEF OrderInv, Consumed
      <4>2. ASSUME Reading
            PROVE  \A k \in 1..Len(toHandler') :
                     toHandler'[k] = Field(Consumed + Len(arrived') + k)
        <5> SUFFICES ASSUME NEW k \in 1..Len(toHandler')
                     PROVE toHandler'[k] = Field(Consumed + Len(arrived') + k)
          OBVIOUS
        <5>1. k + 1 \in 1..Len(toHandler)
              /\ Consumed + Len(arrived) + (k + 1) = Consumed + Len(arrived') + k
          <6>1. Len(toHandler) \in Nat /\ Len(arrived) \in Nat /\ Consumed \in Nat
            BY DEF Consumed
          <6> HIDE DEF Consumed
          <6> QED BY <3>2, <6>1
        <5> QED BY <3>2, <4>2, <5>1 DEF OrderInv
      <4> QED BY <3>1, <3>2, <3>3, <4>1, <4>2 DEF OrderInv, Consumed
    <3> QED BY <3>1, <3>2, <3>4 DEF ReplyInv
  <2>3. CASE ReadField
    <3>1. handler \in {"type", "length"} /\ arrived # <<>> /\ arrived' = Tail(arrived)
          /\ UNCHANGED <<body, reply, toHandler, requester, got, back, received, session>>
      BY <2>3 DEF ReadField
    <3>2. Head(arrived) = handler
      <4>1. Reading /\ Len(arrived) >= 1 /\ Head(arrived) = arrived[1]
        BY <3>1 DEF Reading
      <4>2. arrived[1] = Field(Consumed + 1)
        BY <4>1 DEF OrderInv
      <4> QED BY <3>1, <4>1, <4>2 DEF Consumed, Field
    <3>3. handler' = IF handler = "type" THEN "length" ELSE IF body > 0 THEN "body" ELSE "call"
      BY <2>3, <3>2 DEF ReadField
    <3>4. /\ Len(arrived') = Len(arrived) - 1 /\ arrived' \in Seq(FieldNames)
          /\ \A k \in 1..Len(arrived') : arrived'[k] = arrived[k + 1]
      BY <3>1
    <3>5. Reading' => Consumed' = Consumed + 1
      BY <3>1, <3>3 DEF Reading, Consumed
    <3>6. OrderInv'
      BY <3>1, <3>3, <3>4, <3>5 DEF OrderInv, Consumed, Reading
    <3> QED BY <3>1, <3>3, <3>4, <3>6 DEF ReplyInv
  <2>4. CASE ReadBody
    <3>1. got' \in 0..MaxFrames /\ got' > 0
      <4>1. Reading /\ Consumed = 2 /\ got' = Len(arrived) /\ Len(arrived) > 0
        BY <2>4 DEF ReadBody, Reading, Consumed
      <4> QED BY <4>1 DEF OrderInv
    <3> QED BY <2>4, <3>1 DEF ReadBody, OrderInv, ReplyInv, Reading
  <2>5. CASE HandlerGivesUp
    BY <2>5 DEF HandlerGivesUp, OrderInv, ReplyInv, Reading
  <2>6. CASE Handle
    <3>1. back' \in Seq(FieldNames) /\ (back' = back \/ Len(back') = reply + 1)
      <4>1. back' = <<"length">> \o Frames("body", reply) \/ back' = back
        BY <2>6 DEF Handle
      <4>2. /\ <<"length">> \in Seq(FieldNames) /\ Len(<<"length">>) = 1 /\ reply \in Nat
            /\ Frames("body", reply) \in Seq(FieldNames) /\ Len(Frames("body", reply)) = reply
        BY FramesProperties DEF FieldNames
      <4>3. /\ <<"length">> \o Frames("body", reply) \in Seq(FieldNames)
            /\ Len(<<"length">> \o Frames("body", reply)) = 1 + reply
        BY <4>2, ConcatProperties
      <4>4. CASE back' = back
        BY <4>4
      <4>5. CASE back' = <<"length">> \o Frames("body", reply)
        <5>1. back' \in Seq(FieldNames) /\ Len(back') = 1 + reply
          BY <4>3, <4>5, Zenon
        <5> QED BY <4>2, <5>1
      <4> QED BY <4>1, <4>4, <4>5
    <3> QED BY <2>6, <3>1 DEF Handle, OrderInv, ReplyInv, Reading
  <2>7. CASE ReceiveLength
    <3>1. back' \in Seq(FieldNames) /\ Len(back') = Len(back) - 1
      BY <2>7 DEF ReceiveLength
    <3> QED BY <2>7, <3>1 DEF ReceiveLength, OrderInv, ReplyInv, Reading, Consumed
  <2>8. CASE ReceiveObject
    <3>1. PICK n \in 1..Len(back) : received' = n /\ back' = SubSeq(back, n + 1, Len(back))
      BY <2>8 DEF ReceiveObject
    <3>2. received' \in 0..MaxFrames /\ received' > 0
      <4>1. Len(back) <= reply /\ received' = n /\ n \in 1..Len(back)
        BY <2>8, <3>1 DEF ReceiveObject, ReplyInv
      <4> QED BY <4>1
    <3>3. back' \in Seq(FieldNames)
      BY <3>1
    <3> QED BY <2>8, <3>2, <3>3 DEF ReceiveObject, OrderInv, ReplyInv, Reading, Consumed
  <2>9. CASE RequesterGivesUp
    BY <2>9 DEF RequesterGivesUp, OrderInv, ReplyInv, Reading, Consumed
  <2>10. CASE SessionEnds
    <3>1. /\ toHandler' = <<>> /\ back' = <<>> /\ session' = FALSE
          /\ UNCHANGED <<body, reply, arrived, requester, handler, got, received>>
      BY <2>10 DEF SessionEnds
    <3>2. <<>> \in Seq(FieldNames) /\ Len(<<>>) = 0
      OBVIOUS
    <3>3. OrderInv'
      BY <3>1, <3>2 DEF OrderInv, Reading, Consumed
    <3>4. ReplyInv'
      BY <3>1, <3>2 DEF ReplyInv
    <3> QED BY <3>1, <3>2, <3>3, <3>4
  <2> QED BY <2>0, <2>1, <2>2, <2>3, <2>4, <2>5, <2>6, <2>7, <2>8, <2>9, <2>10 DEF ChannelNext
<1> QED BY <1>1, <1>2

\* Whatever the size of a body and of its reply, and however they are cut into
\* frames: a handler never takes one field for another, and one Read takes the
\* whole of what fits a window.
THEOREM WholeWithinWindowHolds == ChannelSpec => []WholeWithinWindow
<1>1. ChannelInv => WholeWithinWindow
  BY DEF ChannelInv, ChannelTypeOK, OrderInv, ReplyInv, WholeWithinWindow
<1> QED BY ChannelInductive, <1>1, PTL DEF ChannelSpec

-----------------------------------------------------------------------------
(* A bulk installation.                                                    *)

\* The state of a bulk installation keeps its types.
LEMMA BulkInductive ==
  /\ BulkInit => BulkTypeOK
  /\ BulkTypeOK /\ [BulkNext]_bulkVars => BulkTypeOK'
<1>1. ASSUME BulkInit PROVE BulkTypeOK
  BY <1>1, BulkAssumption DEF BulkInit, BulkTypeOK, ChannelCap
<1>2. ASSUME BulkTypeOK, [BulkNext]_bulkVars PROVE BulkTypeOK'
  <2> USE <1>2, BulkAssumption DEF BulkTypeOK, ChannelCap, Hosts
  <2>0. CASE UNCHANGED bulkVars
    BY <2>0 DEF bulkVars
  <2>1. CASE BeginHost
    BY <2>1 DEF BeginHost, Parts
  <2>2. ASSUME NEW h \in Hosts, NEW p \in Parts, NEW left \in {"none", "left"},
               Report(h), Follow(h, p, left), UNCHANGED <<launched, collected>>
        PROVE  BulkTypeOK'
    <3>1. reports' \in [Hosts -> 0..ChannelCap]
      <4>1. reports[h] \in 0..2 /\ reports[h] < 2 /\ reports' = [reports EXCEPT ![h] = reports[h] + 1]
        BY <2>2 DEF Report
      <4> QED BY <4>1
    <3>2. worker' \in [Hosts -> {"none", "upload", "dossh", "done"}] /\ holding' \subseteq Hosts
      BY <2>2 DEF Follow
    <3>3. job' \in [Hosts -> [Parts -> {"none", "running", "left", "blocked"}]]
      <4>1. \E f \in [Parts -> {"none", "running", "left", "blocked"}] :
              job' = [job EXCEPT ![h] = f]
        <5>1. job[h] \in [Parts -> {"none", "running", "left", "blocked"}]
          BY <2>2
        <5> DEFINE f == IF p = "upload"
                        THEN [job[h] EXCEPT !["upload"] = left, !["dossh"] = "running"]
                        ELSE [job[h] EXCEPT !["dossh"] = left]
        <5>2. f \in [Parts -> {"none", "running", "left", "blocked"}]
          BY <2>2, <5>1 DEF Parts
        <5>3. job' = [job EXCEPT ![h] = f]
          BY <2>2, <5>1 DEF Follow
        <5> QED BY <5>2, <5>3
      <4> QED BY <4>1
    <3> QED BY <2>2, <3>1, <3>2, <3>3
  <2>3. ASSUME NEW h \in Hosts, UploadMyself(h) \/ Dossh(h) PROVE BulkTypeOK'
    BY <2>2, <2>3 DEF UploadMyself, Dossh, Parts
  <2>4. ASSUME NEW h \in Hosts, Collect(h) PROVE BulkTypeOK'
    <3>1. reports[h] \in 0..2 /\ reports[h] > 0 /\ collected[h] \in 0..2 /\ collected[h] < 2
      BY <2>4 DEF Collect
    <3> QED BY <2>4, <3>1 DEF Collect
  <2>5. ASSUME NEW h \in Hosts, NEW p \in Parts, TimesOut(h, p) PROVE BulkTypeOK'
    BY <2>2, <2>5 DEF TimesOut
  <2>6. ASSUME NEW h \in Hosts, NEW p \in Parts, LeftBlocks(h, p) PROVE BulkTypeOK'
    BY <2>6 DEF LeftBlocks
  <2> QED BY <2>0, <2>1, <2>3, <2>4, <2>5, <2>6 DEF BulkNext
<1> QED BY <1>1, <1>2

-----------------------------------------------------------------------------
(* The expansion of addresses.  Pow and its laws are found by induction,    *)
(* stated for the members of a set and reduced to the least member of its  *)
(* complement.                                                             *)

\* A set of naturals has a least member.
LEMMA Least ==
  ASSUME NEW T \in SUBSET Nat, T # {}
  PROVE  \E n \in T : \A m \in T : m >= n
<1> DEFINE Less == {pair \in Nat \X Nat : pair[1] < pair[2]}
<1>1. IsWellFoundedOn(Less, Nat)
  BY NatLessThanWellFounded DEF OpToRel
<1>2. PICK n \in T : \A m \in T : <<m, n>> \notin Less
  BY <1>1, WFMin
<1>3. ASSUME NEW m \in T PROVE m >= n
  <2>1. <<m, n>> \in Nat \X Nat /\ <<m, n>>[1] = m /\ <<m, n>>[2] = n
    OBVIOUS
  <2>2. ~(m < n)
    BY <1>2, <2>1 DEF Less
  <2> QED BY <2>2
<1> QED BY <1>3

\* Induction over the naturals, for the members of a set.
LEMMA Induction ==
  ASSUME NEW S, 0 \in S, \A n \in Nat : n \in S => n + 1 \in S
  PROVE  Nat \subseteq S
<1> DEFINE T == Nat \ S
<1> SUFFICES ASSUME T # {} PROVE FALSE
  OBVIOUS
<1>1. PICK n \in T : \A m \in T : m >= n
  BY Least
<1>2. n # 0 /\ n - 1 \in Nat /\ n - 1 \in S
  BY <1>1
<1> QED BY <1>1, <1>2

\* f holds the powers of two up to n.
PowersTo(f, n) ==
  /\ f \in [0..n -> Nat] /\ f[0] = 1
  /\ \A k \in 1..n : f[k] = 2 * f[k - 1]

\* There is such a function for every n, each extended by one value.
LEMMA PowersToExist == \A n \in Nat : \E f \in [0..n -> Nat] : PowersTo(f, n)
<1> DEFINE S == {n \in Nat : \E f \in [0..n -> Nat] : PowersTo(f, n)}
<1>1. 0 \in S
  <2> DEFINE f == [k \in 0..0 |-> 1]
  <2>1. f \in [0..0 -> Nat] /\ PowersTo(f, 0)
    BY DEF PowersTo
  <2> QED BY <2>1
<1>2. ASSUME NEW n \in Nat, n \in S PROVE n + 1 \in S
  <2>1. PICK f \in [0..n -> Nat] : PowersTo(f, n)
    BY <1>2
  <2> DEFINE g == [k \in 0..(n + 1) |-> IF k = n + 1 THEN 2 * f[n] ELSE f[k]]
  <2>2. g \in [0..(n + 1) -> Nat]
    OBVIOUS
  <2>3. PowersTo(g, n + 1)
    BY <2>1, <2>2 DEF PowersTo
  <2> QED BY SMTT(30), <2>2, <2>3
<1> HIDE DEF S
<1>3. Nat \subseteq S
  BY <1>1, <1>2, Induction
<1> QED BY <1>3 DEF S

\* Two of them agree as far as both reach.
LEMMA PowersToAgree ==
  ASSUME NEW n \in Nat, NEW m \in Nat, NEW f, NEW g, PowersTo(f, n), PowersTo(g, m)
  PROVE  \A k \in Nat : k <= n /\ k <= m => f[k] = g[k]
<1> DEFINE S == {k \in Nat : k <= n /\ k <= m => f[k] = g[k]}
<1>1. 0 \in S
  BY DEF PowersTo
<1>2. ASSUME NEW k \in Nat, k \in S PROVE k + 1 \in S
  <2> SUFFICES ASSUME k + 1 <= n, k + 1 <= m PROVE f[k + 1] = g[k + 1]
    OBVIOUS
  <2>1. f[k] = g[k]
    BY <1>2
  <2>2. f[k + 1] = 2 * f[k] /\ g[k + 1] = 2 * g[k]
    BY DEF PowersTo
  <2> QED BY <2>1, <2>2
<1> HIDE DEF S
<1>3. Nat \subseteq S
  BY <1>1, <1>2, Induction
<1> QED BY <1>3 DEF S

\* There is a function that satisfies the recursion, so Pow does.
LEMMA PowUnfolds == Pow = [n \in Nat |-> IF n = 0 THEN 1 ELSE 2 * Pow[n - 1]]
<1> DEFINE F(n) == CHOOSE f \in [0..n -> Nat] : PowersTo(f, n)
           P == [n \in Nat |-> F(n)[n]]
<1>1. \A n \in Nat : F(n) \in [0..n -> Nat] /\ PowersTo(F(n), n)
  BY PowersToExist
<1> HIDE DEF F
<1>2. ASSUME NEW n \in Nat, n # 0 PROVE P[n] = 2 * P[n - 1]
  <2>1. n - 1 \in Nat /\ PowersTo(F(n), n) /\ PowersTo(F(n - 1), n - 1)
    BY <1>1, <1>2
  <2>2. F(n)[n] = 2 * F(n)[n - 1]
    BY <1>2, <2>1 DEF PowersTo
  <2>3. F(n)[n - 1] = F(n - 1)[n - 1]
    BY <2>1, PowersToAgree
  <2> QED BY <2>1, <2>2, <2>3
<1>3. P[0] = 1
  BY <1>1 DEF PowersTo
<1>4. P = [n \in Nat |-> IF n = 0 THEN 1 ELSE 2 * P[n - 1]]
  BY <1>2, <1>3
<1> HIDE DEF P
<1>5. \E f : f = [n \in Nat |-> IF n = 0 THEN 1 ELSE 2 * f[n - 1]]
  BY <1>4
<1> QED BY <1>5 DEF Pow

\* Powers double from one to the next and are positive.
LEMMA PowStep == Pow[0] = 1 /\ \A n \in Nat : Pow[n] \in Nat \ {0} /\ Pow[n + 1] = 2 * Pow[n]
<1> DEFINE S == {n \in Nat : Pow[n] \in Nat \ {0}}
<1>1. Pow[0] = 1 /\ \A n \in Nat : Pow[n + 1] = 2 * Pow[n]
  BY PowUnfolds
<1>2. 0 \in S /\ \A n \in Nat : n \in S => n + 1 \in S
  BY <1>1
<1> HIDE DEF S
<1>3. Nat \subseteq S
  BY <1>2, Induction
<1> QED BY <1>1, <1>3 DEF S

\* Their product is the power of the sum.
LEMMA PowSum == \A m, n \in Nat : Pow[m] * Pow[n] = Pow[m + n]
<1> SUFFICES ASSUME NEW m \in Nat PROVE \A n \in Nat : Pow[m] * Pow[n] = Pow[m + n]
  OBVIOUS
<1> DEFINE S == {n \in Nat : Pow[m] * Pow[n] = Pow[m + n]}
<1>1. 0 \in S
  BY PowStep
<1>2. ASSUME NEW n \in Nat, n \in S PROVE n + 1 \in S
  <2>1. Pow[n + 1] = 2 * Pow[n] /\ Pow[m + n + 1] = 2 * Pow[m + n]
    BY PowStep
  <2>2. Pow[m] * (2 * Pow[n]) = 2 * (Pow[m] * Pow[n])
    BY PowStep
  <2> QED BY <1>2, <2>1, <2>2
<1> HIDE DEF S
<1>3. Nat \subseteq S
  BY <1>1, <1>2, Induction
<1> QED BY <1>3 DEF S

\* The remainders a period away from the first one.
LEMMA RemainderNear ==
  ASSUME NEW b \in Nat \ {0}, NEW r \in 0..(b - 1)
  PROVE  r % b = r /\ (r + b) % b = r /\ (r - b) % b = r
  OBVIOUS

\* Half of the addresses.
Middle == Pow[Width - 1]

\* The sizes in terms of that half, which is at least two.
LEMMA SizeIs ==
  /\ Width - 1 \in Nat /\ Width - 2 \in Nat /\ Width \in Nat
  /\ Middle \in Nat /\ Middle >= 2 /\ Size = 2 * Middle /\ Size \in Nat \ {0}
  /\ MaxInt = Middle - 1 /\ MaxOut \in Nat /\ MaxOut > Size /\ Addrs = 0..(Size - 1)
<1>1. Width - 1 \in Nat /\ Width - 2 \in Nat /\ Width - 1 + 1 = Width
      /\ Width - 2 + 1 = Width - 1
  BY WidthAssumption
<1>2. Pow[Width] = 2 * Pow[Width - 1] /\ Pow[Width - 1] = 2 * Pow[Width - 2]
      /\ Pow[Width - 2] \in Nat \ {0}
  BY <1>1, PowStep
<1> QED BY <1>1, <1>2, WidthAssumption DEF Middle, Size, MaxInt, Addrs

\* What the conversions between addresses and signed numbers return.
LEMMA SignedIs ==
  /\ \A n \in Int : Signed(n) \in (-Middle)..(Middle - 1)
  /\ \A n \in (-Middle)..(Middle - 1) : Signed(n) = n
  /\ \A n \in Middle..(3 * Middle - 1) : Signed(n) = n - Size
  /\ \A n \in (-Size)..(-Middle - 1) : Signed(n) = n + Size
<1>1. ASSUME NEW n \in Int PROVE Signed(n) \in (-Middle)..(Middle - 1)
  <2>1. n % Size \in 0..(Size - 1)
    BY SizeIs, Remainder
  <2> QED BY <2>1, SizeIs DEF Signed
<1>2. ASSUME NEW n \in 0..(Size - 1) PROVE n % Size = n /\ (n + Size) % Size = n
                                         /\ (n - Size) % Size = n
  BY SizeIs, RemainderNear
<1>3. ASSUME NEW n \in (-Middle)..(Middle - 1) PROVE Signed(n) = n
  <2>1. CASE n >= 0
    <3>1. n % Size = n
      BY <1>2, <2>1, SizeIs
    <3> QED BY <2>1, <3>1, SizeIs DEF Signed
  <2>2. CASE n < 0
    <3>1. n + Size \in 0..(Size - 1) /\ (n + Size) - Size = n
      BY <2>2, SizeIs
    <3>2. n % Size = n + Size
      BY <1>2, <3>1
    <3> QED BY <3>2, SizeIs DEF Signed
  <2> QED BY <2>1, <2>2, SizeIs
<1>4. ASSUME NEW n \in Middle..(3 * Middle - 1) PROVE Signed(n) = n - Size
  <2>1. CASE n < Size
    <3>1. n % Size = n
      BY <1>2, <2>1, SizeIs
    <3> QED BY <2>1, <3>1, SizeIs DEF Signed
  <2>2. CASE n >= Size
    <3>1. n - Size \in 0..(Size - 1) /\ (n - Size) + Size = n
      BY <2>2, SizeIs
    <3>2. n % Size = n - Size
      BY <1>2, <3>1
    <3> QED BY <3>2, SizeIs DEF Signed
  <2> QED BY <2>1, <2>2, SizeIs
<1>5. ASSUME NEW n \in (-Size)..(-Middle - 1) PROVE Signed(n) = n + Size
  <2>1. n + Size \in 0..(Size - 1) /\ (n + Size) - Size = n
    BY SizeIs
  <2>2. n % Size = n + Size
    BY <1>2, <2>1
  <2> QED BY <2>2, SizeIs DEF Signed
<1> QED BY <1>1, <1>3, <1>4, <1>5

\* What becomes of an address as a number, and of a number as an address.
LEMMA Conversions ==
  /\ \A a \in Addrs : ipToInt(a) = IF a < Middle THEN a ELSE a - Size
  /\ \A s \in (-Middle)..(Middle - 1) : intToIP(s) = IF s < 0 THEN s + Size ELSE s
<1>1. ASSUME NEW a \in Addrs PROVE ipToInt(a) = IF a < Middle THEN a ELSE a - Size
  <2>1. CASE a < Middle
    <3>1. a \in (-Middle)..(Middle - 1)
      BY <2>1, SizeIs
    <3> QED BY <2>1, <3>1, SignedIs DEF ipToInt
  <2>2. CASE ~(a < Middle)
    <3>1. a \in Middle..(3 * Middle - 1)
      BY <2>2, SizeIs
    <3> QED BY <2>2, <3>1, SignedIs DEF ipToInt
  <2> QED BY <2>1, <2>2
<1>2. ASSUME NEW s \in (-Middle)..(Middle - 1)
      PROVE intToIP(s) = IF s < 0 THEN s + Size ELSE s
  <2>1. CASE s < 0
    <3>1. s + Size \in 0..(Size - 1) /\ (s + Size) - Size = s
      BY <2>1, SizeIs
    <3> QED BY <2>1, <3>1, SizeIs, RemainderNear DEF intToIP
  <2>2. CASE ~(s < 0)
    <3>1. s \in 0..(Size - 1)
      BY <2>2, SizeIs
    <3> QED BY <2>2, <3>1, SizeIs, RemainderNear DEF intToIP
  <2> QED BY <2>1, <2>2
<1> QED BY <1>1, <1>2

\* The inputs that stand for a network.
Networks == {i \in Inputs : i.form \in {"network", "masked"}}

\* A network lies in the address space, and the loop over its hosts ends two
\* short of its size, except that the network of all addresses has none.
LEMMA NetworkIs ==
  ASSUME NEW i \in Networks
  PROVE  /\ Length(i) \in 0..Width /\ Left(i) \in Nat \ {0}
         /\ networkRange(i) \in Nat /\ networkRange(i) + Left(i) <= Size
         /\ MaxHosts(i) = IF Length(i) = 0 THEN -2 ELSE Left(i) - 2
         /\ Left(i) <= Size /\ (Length(i) # 0 => Left(i) <= Middle)
<1>1. Length(i) \in 0..Width /\ i.first \in Addrs
  <2>1. CASE i.form = "network"
    <3>1. i \in [form : {"network"}, first : Addrs, length : 0..(Width - 1)]
      BY <2>1 DEF Networks, Inputs
    <3>2. i.length \in 0..(Width - 1) /\ i.first \in Addrs
      BY <3>1
    <3> QED BY <2>1, <3>2, SizeIs DEF Length
  <2>2. CASE i.form = "masked"
    <3>1. i \in [form : {"masked"}, first : Addrs, mask : Addrs]
      BY <2>2 DEF Networks, Inputs
    <3>2. i.first \in Addrs
      BY <3>1
    <3>3. IPMaskStringToCIDR(i.mask) \in 0..Width
      <4>1. CASE \E p \in 0..Width : i.mask = Size - Pow[Width - p]
        BY <4>1 DEF IPMaskStringToCIDR
      <4>2. CASE ~\E p \in 0..Width : i.mask = Size - Pow[Width - p]
        BY <4>2, SizeIs DEF IPMaskStringToCIDR
      <4> QED BY <4>1, <4>2
    <3> QED BY <2>2, <3>2, <3>3 DEF Length
  <2> QED BY <2>1, <2>2 DEF Networks
<1>2. Left(i) \in Nat \ {0} /\ Left(i) * Pow[Length(i)] = Size
      /\ Pow[Length(i)] \in Nat \ {0}
  <2>1. Width - Length(i) \in Nat /\ Length(i) \in Nat /\ Width - Length(i) + Length(i) = Width
    BY <1>1, SizeIs
  <2> QED BY ZenonT(60), <2>1, PowStep, PowSum DEF Left, Size
<1>3. networkRange(i) \in Nat /\ networkRange(i) + Left(i) <= Size
  <2> DEFINE q == i.first \div Left(i)
             n == Left(i)
             k == Pow[Length(i)]
  <2>1. i.first \in Int /\ i.first >= 0 /\ i.first < Size
    BY <1>1, SizeIs
  <2>2. i.first % n \in 0..(n - 1) /\ q \in Int /\ i.first = n * q + (i.first % n)
    BY <1>2, <2>1, Remainder
  <2>3. networkRange(i) = n * q
    BY <2>2, <1>2, <2>1 DEF networkRange
  <2>4. n \in Nat \ {0} /\ k \in Nat \ {0} /\ n * k = Size
    BY <1>2
  <2> HIDE DEF q, n, k
  <2>5. q >= 0
    <3> SUFFICES ASSUME q <= -1 PROVE FALSE
      BY <2>2
    <3>1. n * q <= -n
      BY <2>2, <2>4
    <3> QED BY <3>1, <2>1, <2>2, <2>4
  <2>6. q + 1 <= k
    <3> SUFFICES ASSUME q >= k PROVE FALSE
      BY <2>2, <2>4
    <3>1. n * q >= n * k
      BY <2>2, <2>4
    <3>2. n * q \in Int /\ n * q < Size
      BY <2>1, <2>2, <2>4, SizeIs
    <3> QED BY <3>1, <3>2, <2>4, SizeIs
  <2>7. n * (q + 1) <= n * k
    BY <2>2, <2>4, <2>5, <2>6
  <2>8. n * q + n <= Size /\ n * q \in Nat
    BY <2>2, <2>4, <2>5, <2>7
  <2> QED BY <2>3, <2>8 DEF n
<1>4. /\ Length(i) = 0 => Left(i) = Size
      /\ Length(i) = 1 => Left(i) = Middle
      /\ Length(i) >= 2 => 2 * Left(i) <= Middle
  <2>1. Length(i) = 0 => Left(i) = Size
    BY SizeIs DEF Left, Size
  <2>2. Length(i) = 1 => Left(i) = Middle
    BY SizeIs DEF Left, Middle
  <2>3. ASSUME Length(i) >= 2 PROVE 2 * Left(i) <= Middle
    <3>1. Length(i) - 2 \in Nat /\ Length(i) - 2 + 1 = Length(i) - 1
          /\ Length(i) - 1 + 1 = Length(i) /\ Length(i) - 1 \in Nat
      BY <1>1, <2>3, SizeIs
    <3>2. Pow[Length(i)] = 2 * Pow[Length(i) - 1]
          /\ Pow[Length(i) - 1] = 2 * Pow[Length(i) - 2] /\ Pow[Length(i) - 2] \in Nat \ {0}
      BY <3>1, PowStep
    <3>3. Pow[Length(i)] >= 4
      BY <3>2
    <3>4. Left(i) * 4 <= Size
      BY <1>2, <3>3, SizeIs
    <3> QED BY <3>4, <1>2, SizeIs
  <2> QED BY <2>1, <2>2, <2>3
<1>5. MaxHosts(i) = IF Length(i) = 0 THEN -2 ELSE Left(i) - 2
  <2>1. CASE Length(i) = 0
    <3>1. Size - 1 \in Middle..(3 * Middle - 1) /\ 0 \in (-Middle)..(Middle - 1)
          /\ -2 \in (-Middle)..(Middle - 1)
      BY SizeIs
    <3>2. Signed(Size - 1) = -1 /\ Signed(0) = 0 /\ Signed(-2) = -2
      BY <3>1, SizeIs, SignedIs
    <3> QED BY <2>1, <3>2, <1>4 DEF MaxHosts, networkSize
  <2>2. CASE Length(i) = 1
    <3>1. Middle - 1 \in (-Middle)..(Middle - 1) /\ Middle \in Middle..(3 * Middle - 1)
          /\ -Middle - 2 \in (-Size)..(-Middle - 1)
      BY SizeIs
    <3>2. Signed(Middle - 1) = Middle - 1 /\ Signed(Middle) = -Middle
          /\ Signed(-Middle - 2) = Middle - 2
      BY <3>1, SizeIs, SignedIs
    <3>3. Signed(Left(i) - 1) + 1 = Middle
      BY <2>2, <3>2, <1>4, SizeIs
    <3>4. networkSize(i) = -Middle
      BY <3>2, <3>3 DEF networkSize
    <3> QED BY <2>2, <3>2, <3>4, <1>4 DEF MaxHosts
  <2>3. CASE Length(i) >= 2
    <3>1. Left(i) - 1 \in (-Middle)..(Middle - 1) /\ Left(i) \in (-Middle)..(Middle - 1)
          /\ Left(i) - 2 \in (-Middle)..(Middle - 1) /\ Left(i) - 1 + 1 = Left(i)
      BY SMTT(30), <2>3, <1>2, <1>4, SizeIs
    <3>2. networkSize(i) = Left(i)
      BY <3>1, SignedIs DEF networkSize
    <3> QED BY <2>3, <3>1, <3>2, SignedIs, <1>1 DEF MaxHosts
  <2> QED BY <1>1, <2>1, <2>2, <2>3, SizeIs
<1>6. Left(i) <= Size /\ (Length(i) # 0 => Left(i) <= Middle)
  BY <1>1, <1>2, <1>4, SizeIs
<1> QED BY <1>1, <1>2, <1>3, <1>5, <1>6

\* A range counts up from its first address, and unless it ends at the largest
\* number it stops behind its last.
OfRange ==
  input.form = "range" /\ input.last # MaxInt =>
    /\ num = ipToInt(input.first) + Len(out)
    /\ IF ipToInt(input.first) <= ipToInt(input.last)
       THEN num <= ipToInt(input.last) + 1 ELSE out = <<>>
    /\ \A n \in 1..Len(out) : out[n] = intToIP(ipToInt(input.first) + n - 1)
    /\ expanded => num > ipToInt(input.last)

\* A network counts its hosts from one.
OfNetwork ==
  input \in Networks =>
    /\ Len(out) <= MaxHosts(input) \/ out = <<>>
    /\ Len(out) < MaxHosts(input) => num = Len(out) + 1
    /\ \A n \in 1..Len(out) : out[n] = networkRange(input) + n
    /\ expanded => Len(out) >= MaxHosts(input)

\* What every turn of the loop keeps.
ExpansionInv ==
  /\ RangeTypeOK /\ OfRange /\ OfNetwork
  /\ input.form = "one" => out = IF expanded THEN <<input.first>> ELSE <<>>
  /\ input.form = "range" /\ input.last = MaxInt => ~expanded

\* The two addresses of a range as numbers.
LEMMA RangeAddresses ==
  ASSUME NEW i \in Inputs, i.form = "range"
  PROVE  /\ i.first \in Addrs /\ i.last \in Addrs
         /\ ipToInt(i.first) \in (-Middle)..(Middle - 1)
         /\ ipToInt(i.last) \in (-Middle)..(Middle - 1)
         /\ ipToInt(i.last) = Middle - 1 <=> i.last = MaxInt
<1>1. i.first \in Addrs /\ i.last \in Addrs
  BY DEF Inputs
<1>2. i.last < Middle \/ i.last >= Middle
  BY <1>1, SizeIs
<1> QED BY <1>1, <1>2, SizeIs, Conversions

\* The type invariant of the next state, its numbers relative to the middle.
LEMMA RangeType ==
  ASSUME NEW i \in Inputs, NEW e \in BOOLEAN, NEW n \in (-Middle)..(Middle - 1),
         NEW s \in Seq(Addrs), Len(s) <= MaxOut,
         input' = i, expanded' = e, num' = n, out' = s
  PROVE  RangeTypeOK'
<1>1. (-MaxInt - 1)..MaxInt = (-Middle)..(Middle - 1)
  BY SizeIs
<1>2. num' \in (-MaxInt - 1)..MaxInt
  BY <1>1
<1>3. (expanded \in BOOLEAN)'
  OBVIOUS
<1> QED BY <1>2, <1>3, SizeIs DEF RangeTypeOK

\* The invariant holds at first,
LEMMA ExpansionInit == RangeInit => ExpansionInv
<1> SUFFICES ASSUME RangeInit PROVE ExpansionInv
  OBVIOUS
<1> USE DEF RangeInit
<1>1. input \in Inputs /\ out = <<>> /\ Len(out) = 0 /\ ~expanded
  OBVIOUS
<1>2. num \in (-Middle)..(Middle - 1)
  <2>1. ASSUME input.form \in {"one", "range"} PROVE input.first \in Addrs
    BY <1>1, <2>1 DEF Inputs
  <2>2. ASSUME input.form \in {"one", "range"} PROVE ipToInt(input.first) \in (-Middle)..(Middle - 1)
    <3>1. input.first \in Int
      BY <2>1, <2>2, SizeIs
    <3> QED BY <3>1, SignedIs DEF ipToInt
  <2> QED BY <2>2, SizeIs
<1>3. RangeTypeOK
  <2>1. num \in (-MaxInt - 1)..MaxInt
    BY <1>2, SizeIs
  <2>2. expanded \in BOOLEAN
    BY <1>1
  <2> QED BY <1>1, <2>1, <2>2, SizeIs DEF RangeTypeOK
<1>4. OfRange
  <2> SUFFICES ASSUME input.form = "range" PROVE OfRange
    BY DEF OfRange
  <2> QED BY <1>1, <1>2, RangeAddresses, SizeIs DEF OfRange
<1>5. OfNetwork
  BY <1>1 DEF OfNetwork, Networks
<1> QED BY <1>1, <1>3, <1>4, <1>5 DEF ExpansionInv

\* after a turn of the loop over a range,
LEMMA RangeTurn == ASSUME ExpansionInv, GetAvailableIPRange PROVE ExpansionInv'
<1> USE DEF GetAvailableIPRange
<1>1. /\ input \in Inputs /\ input.form = "range" /\ input' = input /\ ~expanded
      /\ num \in (-Middle)..(Middle - 1) /\ out \in Seq(Addrs) /\ Len(out) \in Nat
      /\ Len(out) <= MaxOut
  BY SizeIs DEF ExpansionInv, RangeTypeOK
<1> DEFINE a == ipToInt(input.first)
           b == ipToInt(input.last)
<1>2. a \in (-Middle)..(Middle - 1) /\ b \in (-Middle)..(Middle - 1)
      /\ (b = Middle - 1 <=> input.last = MaxInt) /\ a' = a /\ b' = b
  BY <1>1, RangeAddresses
<1>3. CASE num <= b
  <2>1. /\ out' = Append(out, intToIP(num)) /\ num' = Signed(num + 1)
        /\ expanded' = expanded /\ Len(out) < MaxOut
    BY <1>3
  <2>2. intToIP(num) \in Addrs
    BY <1>1, Conversions, SizeIs
  <2>3. out' \in Seq(Addrs) /\ Len(out') = Len(out) + 1
        /\ \A n \in 1..Len(out') : out'[n] = IF n = Len(out) + 1 THEN intToIP(num) ELSE out[n]
    BY <1>1, <2>1, <2>2
  <2>4. RangeTypeOK'
    <3>1. num' \in (-Middle)..(Middle - 1)
      BY <1>1, <2>1, SignedIs
    <3>2. expanded' \in BOOLEAN
      BY <2>1 DEF ExpansionInv, RangeTypeOK
    <3>3. Len(out') <= MaxOut
      BY <1>1, <2>1, <2>3, SizeIs
    <3> QED BY <1>1, <2>3, <3>1, <3>2, <3>3, RangeType
  <2>5. OfRange'
    <3> SUFFICES ASSUME input.last # MaxInt PROVE OfRange'
      BY <1>1 DEF OfRange
    <3>1. /\ num = a + Len(out) /\ (IF a <= b THEN num <= b + 1 ELSE out = <<>>)
          /\ \A n \in 1..Len(out) : out[n] = intToIP(a + n - 1)
      BY <1>1 DEF ExpansionInv, OfRange
    <3>2. b < Middle - 1
      <4> HIDE DEF b
      <4> QED BY <1>2, SizeIs
    <3>3. num = a + Len(out) /\ a <= b /\ b < Middle - 1
          /\ \A n \in 1..Len(out) : out[n] = intToIP(a + n - 1)
      <4> HIDE DEF a, b
      <4> QED BY <1>1, <1>2, <1>3, <3>1, <3>2
    <3>4. num' = num + 1
      BY <1>1, <1>2, <1>3, <2>1, <3>3, SignedIs, SizeIs
    <3> HIDE DEF a, b
    <3>5. num' = a + Len(out') /\ num' <= b + 1
      BY <1>1, <1>2, <1>3, <2>3, <3>3, <3>4
    <3>6. ASSUME NEW n \in 1..Len(out') PROVE out'[n] = intToIP(a + n - 1)
      <4>1. CASE n = Len(out) + 1
        BY <1>1, <1>2, <2>3, <3>3, <4>1
      <4>2. CASE n # Len(out) + 1
        BY <1>1, <2>3, <3>3, <4>2
      <4> QED BY <4>1, <4>2
    <3> QED BY <1>1, <1>2, <2>1, <3>3, <3>5, <3>6 DEF OfRange, a, b
  <2> QED BY <1>1, <2>1, <2>4, <2>5 DEF ExpansionInv, OfNetwork, Networks
<1>4. CASE ~(num <= b)
  <2>1. out' = out /\ num' = num /\ expanded' = TRUE
    BY <1>4
  <2>2. input.last # MaxInt
    BY <1>1, <1>2, <1>4
  <2>3. RangeTypeOK' /\ OfRange'
    BY <1>1, <1>2, <1>4, <2>1, <2>2 DEF ExpansionInv, RangeTypeOK, OfRange
  <2> QED BY <1>1, <2>1, <2>2, <2>3 DEF ExpansionInv, OfNetwork, Networks
<1> QED BY <1>3, <1>4

\* and after one of the loop over a network, where the host does not wrap.
LEMMA NetworkTurn == ASSUME ExpansionInv, GetAvailableIP PROVE ExpansionInv'
<1> USE DEF GetAvailableIP
<1>1. /\ input \in Inputs /\ input' = input /\ input \in Networks /\ ~expanded
      /\ input.form \in {"network", "masked"}
      /\ num \in (-Middle)..(Middle - 1) /\ out \in Seq(Addrs) /\ Len(out) \in Nat
      /\ Len(out) <= MaxOut
  BY SizeIs DEF ExpansionInv, RangeTypeOK, Networks
<1> DEFINE M == MaxHosts(input)
           base == networkRange(input)
<1>2. /\ M \in Int /\ base \in Nat /\ M <= Middle - 2 /\ (M > 0 => base + M + 2 <= Size)
      /\ M' = M /\ base' = base
  <2>1. M' = M /\ base' = base
    BY <1>1
  <2> QED BY SMTT(30), <1>1, <2>1, NetworkIs, SizeIs
<1>3. /\ M >= Len(out) \/ out = <<>>
      /\ Len(out) < M => num = Len(out) + 1
      /\ \A n \in 1..Len(out) : out[n] = base + n
  BY <1>1 DEF ExpansionInv, OfNetwork
<1>4. CASE Len(out) < M
  <2> DEFINE host == intToIP(Signed(ipToInt(base) + num))
  <2>1. out' = Append(out, host) /\ num' = (num % M) + 1 /\ expanded' = expanded
    BY <1>4
  <2> HIDE DEF M, base
  <2>2. num = Len(out) + 1 /\ num <= M /\ base + num \in Addrs /\ base \in Addrs
    BY <1>1, <1>2, <1>3, <1>4, SizeIs
  <2>3. host = base + num
    <3>1. CASE base < Middle
      <4>1. ipToInt(base) = base
        BY <2>2, <3>1, Conversions
      <4>2. CASE base + num < Middle
        <5>1. base + num \in (-Middle)..(Middle - 1) /\ ~(base + num < 0)
          BY <1>1, <1>2, <2>2, <4>2, SizeIs
        <5>2. Signed(base + num) = base + num
          BY <5>1, SignedIs
        <5>3. intToIP(base + num) = base + num
          BY <5>1, Conversions
        <5> QED BY <4>1, <5>2, <5>3
      <4>3. CASE ~(base + num < Middle)
        <5>1. Signed(base + num) = base + num - Size
          BY <1>2, <2>2, <4>3, <1>1, SignedIs, SizeIs
        <5>2. base + num - Size \in (-Middle)..(Middle - 1) /\ base + num - Size < 0
          BY <1>2, <2>2, <4>3, <1>1, SizeIs
        <5> QED BY <4>1, <5>1, <5>2, <1>1, <1>2, <2>2, Conversions, SizeIs
      <4> QED BY <4>2, <4>3
    <3>2. CASE ~(base < Middle)
      <4>1. ipToInt(base) = base - Size
        BY <2>2, <3>2, Conversions
      <4>2. base - Size + num \in (-Middle)..(Middle - 1) /\ base - Size + num < 0
        BY <1>1, <1>2, <2>2, <3>2, SizeIs
      <4> QED BY <4>1, <4>2, <1>1, <1>2, <2>2, SignedIs, Conversions, SizeIs
    <3> QED BY <3>1, <3>2
  <2> HIDE DEF host
  <2>4. out' \in Seq(Addrs) /\ Len(out') = Len(out) + 1
        /\ \A n \in 1..Len(out') : out'[n] = base + n
    BY <1>1, <1>3, <2>1, <2>2, <2>3
  <2>5. num' \in 1..M /\ (Len(out') < M => num' = Len(out') + 1)
    <3>1. num % M \in 0..(M - 1) /\ (num < M => num % M = num)
      <4>1. M \in Nat \ {0} /\ num \in Int /\ num >= 0
        BY <1>1, <1>2, <1>4, <2>2
      <4>2. num % M \in 0..(M - 1)
        BY <4>1, Remainder
      <4>3. ASSUME num < M PROVE num % M = num
        <5>1. num \in 0..(M - 1)
          BY <4>1, <4>3
        <5> QED BY <4>1, <5>1, RemainderNear
      <4> QED BY <4>2, <4>3
    <3> QED BY <3>1, <2>1, <2>2, <2>4, <1>1, <1>2, <1>4
  <2>6. RangeTypeOK'
    <3>1. num' \in (-Middle)..(Middle - 1) /\ Len(out') <= MaxOut
      BY <1>1, <1>2, <1>4, <2>4, <2>5, SizeIs
    <3>2. expanded' \in BOOLEAN
      BY <2>1 DEF ExpansionInv, RangeTypeOK
    <3> QED BY <1>1, <2>4, <3>1, <3>2, RangeType
  <2>7. OfNetwork'
    BY <1>1, <1>2, <1>4, <2>1, <2>4, <2>5 DEF OfNetwork, M, base
  <2> QED BY <1>1, <2>6, <2>7 DEF ExpansionInv, OfRange
<1>5. CASE ~(Len(out) < M)
  <2>1. out' = out /\ num' = num /\ expanded' = TRUE
    BY <1>5
  <2>2. RangeTypeOK' /\ OfNetwork'
    BY <1>1, <1>2, <1>3, <1>5, <2>1 DEF ExpansionInv, RangeTypeOK, OfNetwork
  <2> QED BY <1>1, <2>2 DEF ExpansionInv, OfRange
<1> QED BY <1>4, <1>5

\* The invariant of the expansion is inductive.
LEMMA RangeInductive ==
  /\ RangeInit => ExpansionInv
  /\ ExpansionInv /\ [RangeNext]_rangeVars => ExpansionInv'
<1>1. ASSUME ExpansionInv, ParseIp PROVE ExpansionInv'
  <2>1. /\ input \in Inputs /\ input.form = "one" /\ input' = input /\ num' = num
        /\ out' = <<input.first>> /\ expanded' = TRUE
    BY <1>1 DEF ParseIp, ExpansionInv, RangeTypeOK
  <2>2. input.first \in Addrs
    BY <2>1 DEF Inputs
  <2>3. out' \in Seq(Addrs) /\ Len(out') = 1
    BY <2>1, <2>2
  <2>4. RangeTypeOK'
    BY <1>1, <2>1, <2>3, SizeIs DEF ExpansionInv, RangeTypeOK
  <2> QED BY <2>1, <2>4 DEF ExpansionInv, OfRange, OfNetwork, Networks
<1>2. ASSUME ExpansionInv, UNCHANGED rangeVars PROVE ExpansionInv'
  BY <1>2 DEF rangeVars, ExpansionInv, RangeTypeOK, OfRange, OfNetwork
<1> QED BY ExpansionInit, <1>1, <1>2, RangeTurn, NetworkTurn DEF RangeNext

\* A sequence that counts from lo to hi is Ascending(lo, hi).
LEMMA SameElements ==
  ASSUME NEW s \in Seq(Addrs), NEW lo \in Int, NEW hi \in Int,
         Len(s) = hi - lo + 1 \/ (Len(s) = 0 /\ hi < lo),
         \A n \in 1..Len(s) : s[n] = lo + n - 1
  PROVE  s = Ascending(lo, hi)
<1>1. s = [n \in 1..Len(s) |-> lo + n - 1]
  OBVIOUS
<1>2. 1..Len(s) = 1..(hi - lo + 1)
  OBVIOUS
<1> QED BY <1>1, <1>2 DEF Ascending

\* What the loops leave behind is the reference's expansion.
LEMMA ExpansionIs == ExpansionInv => ExpansionExact
<1> SUFFICES ASSUME ExpansionInv PROVE ExpansionExact
  OBVIOUS
<1>1. input \in Inputs /\ out \in Seq(Addrs) /\ Len(out) \in Nat
  BY DEF ExpansionInv, RangeTypeOK
<1>2. input.form \in {"one", "range", "network", "masked"}
  BY <1>1 DEF Inputs
<1>3. CASE input.form = "one"
  <2>1. Len(out) <= 1
    <3>1. CASE expanded
      <4>1. out = <<input.first>>
        BY <1>3, <3>1 DEF ExpansionInv
      <4> QED BY <4>1
    <3>2. CASE ~expanded
      <4>1. out = <<>>
        BY <1>3, <3>2 DEF ExpansionInv
      <4> QED BY <4>1
    <3> QED BY <3>1, <3>2
  <2> QED BY <1>3, <2>1, SizeIs DEF ExpansionInv, ExpansionExact, Reference
<1>4. CASE input.form = "range"
  <2> DEFINE a == ipToInt(input.first)
             b == ipToInt(input.last)
  <2>1. input.first \in Addrs /\ input.last \in Addrs
        /\ a \in (-Middle)..(Middle - 1) /\ b \in (-Middle)..(Middle - 1)
        /\ (b = Middle - 1 <=> input.last = MaxInt)
    BY <1>1, <1>4, RangeAddresses
  <2>2. CASE input.last = MaxInt
    BY <1>4, <2>2 DEF ExpansionInv, ExpansionExact
  <2>3. CASE input.last # MaxInt
    <3>1. /\ num = a + Len(out) /\ (IF a <= b THEN num <= b + 1 ELSE out = <<>>)
          /\ \A n \in 1..Len(out) : out[n] = intToIP(a + n - 1)
          /\ (expanded => num > b)
      BY <1>4, <2>3 DEF ExpansionInv, OfRange
    <3>2. Len(out) <= Size
      BY <1>1, <2>1, <3>1, SizeIs
    <3>3. ASSUME expanded, SameHalf(input) PROVE out = Reference(input)
      <4>1. Len(out) = b - a + 1 \/ (Len(out) = 0 /\ b < a)
        BY <1>1, <2>1, <3>1, <3>3
      <4>2. /\ b - a = input.last - input.first
            /\ IF input.first < Middle THEN a = input.first /\ input.last < Middle
               ELSE a = input.first - Size /\ input.last >= Middle
        BY SMTT(30), <2>1, <3>3, SizeIs, Conversions DEF SameHalf
      <4>3. ASSUME NEW n \in 1..Len(out) PROVE out[n] = input.first + n - 1
        <5> HIDE DEF a, b
        <5>1. a + n - 1 \in (-Middle)..(Middle - 1) /\ a + n - 1 <= b
          <6>1. n <= b - a + 1 /\ n >= 1 /\ n \in Int
            BY <1>1, <2>1, <4>1
          <6> QED BY <2>1, <6>1, SizeIs
        <5>2. intToIP(a + n - 1) = IF a + n - 1 < 0 THEN a + n - 1 + Size ELSE a + n - 1
          BY <5>1, Conversions
        <5>3. b < 0 <=> ~(input.first < Middle)
          BY <2>1, <4>2, SizeIs
        <5>4. out[n] = intToIP(a + n - 1)
          BY <3>1
        <5>5. CASE b < 0
          BY SMTT(30), <2>1, <4>2, <5>1, <5>2, <5>3, <5>4, <5>5, SizeIs
        <5>6. CASE ~(b < 0)
          <6>1. ~(a + n - 1 < 0)
            BY <2>1, <4>2, <5>1, <5>3, <5>6, SizeIs
          <6> QED BY <2>1, <4>2, <5>1, <5>2, <5>3, <5>4, <5>6, <6>1, SizeIs
        <5> QED BY <5>5, <5>6
      <4>4. out = Ascending(input.first, input.last)
        <5>1. Len(out) = input.last - input.first + 1
              \/ (Len(out) = 0 /\ input.last < input.first)
          BY <1>1, <2>1, <4>1, <4>2, SizeIs
        <5>2. input.first \in Int /\ input.last \in Int
          BY <2>1, SizeIs
        <5> QED BY <1>1, <4>3, <5>1, <5>2, SameElements
      <4> QED BY <1>4, <4>4 DEF Reference
    <3> QED BY <1>1, <1>4, <3>2, <3>3, SizeIs DEF ExpansionExact
  <2> QED BY <2>2, <2>3
<1>5. CASE input.form \in {"network", "masked"}
  <2>1. input \in Networks
    BY <1>1, <1>5 DEF Networks
  <2> DEFINE base == networkRange(input)
             left == Left(input)
  <2>2. /\ left \in Nat \ {0} /\ base \in Nat /\ base + left <= Size /\ left <= Size
        /\ MaxHosts(input) = IF Length(input) = 0 THEN -2 ELSE left - 2
    BY <2>1, NetworkIs
  <2>3. /\ Len(out) <= MaxHosts(input) \/ out = <<>>
        /\ \A n \in 1..Len(out) : out[n] = base + n
        /\ expanded => Len(out) >= MaxHosts(input)
    BY <2>1 DEF ExpansionInv, OfNetwork
  <2> HIDE DEF base, left
  <2>4. Len(out) <= Size
    BY <1>1, <2>2, <2>3, SizeIs
  <2>5. ASSUME expanded PROVE out = Reference(input)
    <3>1. CASE Length(input) = 0
      BY <1>1, <1>5, <2>2, <2>3, <3>1 DEF Reference
    <3>2. CASE Length(input) # 0
      <4>1. Len(out) = left - 2 \/ (Len(out) = 0 /\ left = 1)
        BY <1>1, <2>2, <2>3, <2>5, <3>2
      <4>2. out = Ascending(base + 1, base + left - 2)
        <5> DEFINE lo == base + 1
                   hi == base + left - 2
        <5>1. lo \in Int /\ hi \in Int /\ base = lo - 1 /\ left = hi - lo + 3
          BY <2>2
        <5> HIDE DEF lo, hi
        <5>2. \A n \in 1..Len(out) : out[n] = lo + n - 1
          BY <2>3, <5>1
        <5>3. Len(out) = hi - lo + 1 \/ (Len(out) = 0 /\ hi < lo)
          BY <4>1, <5>1
        <5>4. out = Ascending(lo, hi)
          BY <1>1, <5>1, <5>2, <5>3, SameElements
        <5> QED BY <5>4 DEF lo, hi
      <4> QED BY <1>5, <3>2, <4>2 DEF Reference, base, left
    <3> QED BY <3>1, <3>2
  <2> QED BY <1>1, <1>5, <2>4, <2>5, SizeIs DEF ExpansionExact
<1> QED BY <1>2, <1>3, <1>4, <1>5

\* For addresses of any width, 32 bits included: every expansion that ends is
\* the reference's, but for ranges over the middle of the address space, and
\* only a range up to the largest signed number does not end (cfg.go:259).
THEOREM ExpansionExactHolds == RangeSpec => []ExpansionExact
BY RangeInductive, ExpansionIs, PTL DEF RangeSpec

-----------------------------------------------------------------------------
(* The composition: a behaviour of the run is one of every part.            *)

\* The steps and the initial states of the run are those of its parts.
LEMMA PartsSteps ==
  /\ Init => /\ LifecycleInit /\ LimiterInit /\ BulkInit /\ UserInit
             /\ RangeInit /\ ChannelInit /\ HandoverInit
  /\ [Next]_<<partVars, part>> =>
       /\ [LifecycleNext]_lifecycleVars /\ [LimiterNext]_limiterVars
       /\ [BulkNext]_bulkVars /\ [UserNext]_userVars
       /\ [RangeNext]_rangeVars /\ [ChannelNext]_channelVars
       /\ [HandoverNext]_handoverVars
<1>1. Init => /\ LifecycleInit /\ LimiterInit /\ BulkInit /\ UserInit
              /\ RangeInit /\ ChannelInit /\ HandoverInit
  BY DEF Init
<1>2. ASSUME UNCHANGED <<partVars, part>>
      PROVE  UNCHANGED <<lifecycleVars, limiterVars, bulkVars, userVars, rangeVars,
                         channelVars, handoverVars>>
  BY <1>2 DEF partVars
<1>3. ASSUME Next
      PROVE  /\ [LifecycleNext]_lifecycleVars /\ [LimiterNext]_limiterVars
             /\ [BulkNext]_bulkVars /\ [UserNext]_userVars
             /\ [RangeNext]_rangeVars /\ [ChannelNext]_channelVars
             /\ [HandoverNext]_handoverVars
  BY <1>3 DEF Next, Others, Still
<1> QED BY <1>1, <1>2, <1>3

\* The run's specification is each part's.
LEMMA PartsRefine ==
  FairSpec => /\ LifecycleSpec /\ LimiterSpec /\ UserSpec /\ RangeSpec
              /\ ChannelSpec /\ HandoverSpec /\ BulkSpec
BY PartsSteps, PTL DEF FairSpec, LifecycleSpec, LimiterSpec, UserSpec, RangeSpec,
   ChannelSpec, HandoverSpec, BulkSpec

\* Every part of the server keeps its types in every behaviour of the run.
THEOREM PartsTypeCorrect == FairSpec => []PartsTypeOK
<1>1. LimiterInv => LimiterTypeOK
  BY DEF LimiterInv
<1>2. UserInv => UserTypeOK
  BY DEF UserInv
<1>3. ExpansionInv => RangeTypeOK
  BY DEF ExpansionInv
<1>4. ChannelInv => ChannelTypeOK
  BY DEF ChannelInv
<1>5. FairSpec => []LimiterTypeOK /\ []UserTypeOK /\ []RangeTypeOK /\ []ChannelTypeOK
  BY <1>1, <1>2, <1>3, <1>4, PartsRefine, LimiterInductive, UserInductive, RangeInductive,
     ChannelInductive, PTL DEF LimiterSpec, UserSpec, RangeSpec, ChannelSpec
<1>6. FairSpec => []BulkTypeOK
  BY PartsRefine, BulkInductive, PTL DEF BulkSpec
<1>7. FairSpec => []LifecycleTypeOK /\ []HandoverTypeOK
  BY PartsRefine, LifecycleTypeCorrect, HandoverTypeCorrect, PTL
<1> QED BY <1>5, <1>6, <1>7, PTL DEF PartsTypeOK

\* The invariants of the parts hold in every behaviour of the run.
THEOREM PartsCorrect ==
  FairSpec => [](/\ MissedOnlyWhenCut /\ ListIsExact /\ UsesAreSpaced
                 /\ TokenFitsAddress /\ ExpansionExact /\ WholeWithinWindow
                 /\ CallersReachTheirTunnel)
BY PartsRefine, MissedOnlyWhenCutHolds, ListIsExactHolds, UsesAreSpacedHolds,
   TokenFitsAddressHolds, ExpansionExactHolds, WholeWithinWindowHolds,
   CallersReachTheirTunnelHolds, PTL

=============================================================================
