---------------------------- MODULE ServicesProofs ----------------------------
(***************************************************************************)
(* Proofs about the parts of MCServices, for any number of browsers,       *)
(* sessions, peers, versions, stations and rounds.  That they come to      *)
(* their end or come back is beyond the prover; what is proved is what     *)
(* this rests on: that whoever waits waits for somebody, and that who has  *)
(* ended left nothing open.                                                *)
(***************************************************************************)
EXTENDS MCServices, FiniteSetTheorems, TLAPS

--------------------------------------------------------------------------------
(* Web terminals. *)

\* Where a handler is between the two calls of the counter, and who is there.
InsideAt == {"counted", "reads", "starts", "runs", "ends", "waits", "closing", "done"}
Inside == {b \in Browsers : handler[b] \in InsideAt}

\* The types, without the bound of the counter.
TtyPlain ==
  /\ ttyOptions \in [once : BOOLEAN, max : 0 .. 1, timeout : BOOLEAN]
  /\ runs \in {"serving", "waiting", "returned"} /\ zeroTimer \in {"idle", "armed", "fired"}
  /\ accepts \in BOOLEAN /\ cancelled \in BOOLEAN /\ graceful \in BOOLEAN /\ served \in BOOLEAN
  /\ handler \in [Browsers -> InsideAt \cup {"none", "refused", "claimed", "left"}]
  /\ shell \in [Browsers -> {"none", "running", "asked", "dead"}]
  /\ reader \in [Browsers -> [Ends -> {"none", "reads", "reports", "ended"}]]
  /\ errs \in [Browsers -> 0 .. ErrsRoom] /\ browser \in [Browsers -> {"open", "gone"}]

\* The counter counts who is inside.
CountInv == connections = Cardinality(Inside)

\* A goroutine of a terminal runs once the terminal does, and puts no more than
\* one value into the channel of errors.
ReaderInv ==
  \A b \in Browsers :
    /\ errs[b] > 0 => \E e \in Ends : reader[b][e] = "ended"
    /\ errs[b] > 1 => \A e \in Ends : reader[b][e] = "ended"
    /\ handler[b] \in {"none", "refused", "claimed", "counted", "reads", "starts"} =>
         \A e \in Ends : reader[b][e] = "none"

\* A process is there from the start of its terminal to the end of its handler's wait.
ShellInv ==
  \A b \in Browsers :
    /\ handler[b] \in {"starts", "runs", "ends"} => shell[b] \in {"running", "dead"}
    /\ handler[b] = "waits" => shell[b] \in {"asked", "dead"}
    /\ handler[b] \notin {"starts", "runs", "ends", "waits"} => shell[b] \in {"none", "dead"}

\* What every step keeps.
TerminalInv == TtyPlain /\ CountInv /\ ReaderInv /\ ShellInv

\* Neither goroutine of a terminal, which both report an error of which one
\* at most is read, ever finds the channel full (webtty.go:67).
ReadersNeverBlock ==
  \A b \in Browsers, e \in Ends : reader[b][e] = "reports" => errs[b] < ErrsRoom

\* Run returns only when every handler that was counted has left and no
\* process of a terminal runs (app.go, handler_atomic.go:64).
RunWaitsForAll ==
  [][runs # runs' /\ runs' = "returned"
       => \A b \in Browsers : handler[b] \notin InsideAt /\ shell[b] \in {"none", "dead"}]_ttyVars

\* The initial state satisfies the invariant.
LEMMA TerminalInit == TtyInit => TerminalInv
<1> SUFFICES ASSUME TtyInit PROVE TerminalInv
  OBVIOUS
<1>1. TtyPlain
  <2>1. reader \in [Browsers -> [Ends -> {"none", "reads", "reports", "ended"}]]
    BY DEF TtyInit
  <2>2. zeroTimer \in {"idle", "armed", "fired"}
    BY DEF TtyInit
  <2>3. errs \in [Browsers -> 0 .. ErrsRoom]
    BY DEF TtyInit, ErrsRoom
  <2>4. handler \in [Browsers -> InsideAt \cup {"none", "refused", "claimed", "left"}]
    BY DEF TtyInit
  <2>5. shell \in [Browsers -> {"none", "running", "asked", "dead"}] /\ browser \in [Browsers -> {"open", "gone"}]
    BY DEF TtyInit
  <2> QED BY <2>1, <2>2, <2>3, <2>4, <2>5 DEF TtyInit, TtyPlain
<1>2. Inside = {}
  BY DEF TtyInit, Inside, InsideAt
<1>3. CountInv
  BY <1>2, FS_EmptySet DEF TtyInit, CountInv
<1>4. ReaderInv /\ ShellInv
  BY DEF TtyInit, ReaderInv, ShellInv, Ends
<1> QED BY <1>1, <1>3, <1>4 DEF TerminalInv

\* Every step keeps the types.
LEMMA TtyPlainStep == TtyPlain /\ [TtyNext]_ttyVars => TtyPlain'
<1> SUFFICES ASSUME TtyPlain, [TtyNext]_ttyVars PROVE TtyPlain'
  OBVIOUS
<1> USE DEF TtyPlain, InsideAt, ErrsRoom, serverEnd, terminal, Enter
<1>1. CASE UNCHANGED ttyVars
  BY <1>1 DEF ttyVars
<1>2. CASE StopTerminal \/ ShutDown \/ ServeEnds \/ ServeFails \/ RunCancelled \/ RunReturns
            \/ TimerFires \/ IdleCancels
  BY <1>2 DEF StopTerminal, ShutDown, ServeEnds, ServeFails, RunCancelled, RunReturns, TimerFires, IdleCancels
<1>3. ASSUME NEW b \in Browsers, HandlerStep(b) PROVE TtyPlain'
  <2>1. CASE Request(b)
    BY <2>1 DEF Request
  <2>2. CASE CountIn(b)
    BY <2>2 DEF CountIn
  <2>3. CASE Upgrade(b)
    BY <2>3 DEF Upgrade
  <2>4. CASE Authenticate(b)
    BY <2>4 DEF Authenticate
  <2>5. CASE Introduce(b)
    <3>1. reader' \in [Browsers -> [Ends -> {"none", "reads", "reports", "ended"}]]
      <4>1. [e \in Ends |-> "reads"] \in [Ends -> {"none", "reads", "reports", "ended"}]
        OBVIOUS
      <4> QED BY <4>1, <2>5 DEF Introduce
    <3>2. /\ UNCHANGED <<ttyOptions, serverEnd, cancelled, zeroTimer, served, connections, shell, errs, browser>>
          /\ \E at \in {"runs", "ends"} : Enter(b, at)
      BY <2>5 DEF Introduce
    <3> QED BY <3>1, <3>2
  <2>6. CASE TtyReturns(b)
    BY <2>6 DEF TtyReturns
  <2>7. CASE CloseSlave(b) \/ SlaveClosed(b) \/ CloseMaster(b)
    BY <2>7 DEF CloseSlave, SlaveClosed, CloseMaster
  <2>8. CASE CountOut(b)
    BY <2>8 DEF CountOut
  <2> QED BY <1>3, <2>1, <2>2, <2>3, <2>4, <2>5, <2>6, <2>7, <2>8 DEF HandlerStep
<1>4. ASSUME NEW b \in Browsers, ShellEnds(b) \/ BrowserLeaves(b) PROVE TtyPlain'
  BY <1>4 DEF ShellEnds, BrowserLeaves
<1>5. ASSUME NEW b \in Browsers, NEW e \in Ends, ReadEnds(b, e) \/ Report(b, e) PROVE TtyPlain'
  <2>1. reader[b] \in [Ends -> {"none", "reads", "reports", "ended"}]
    OBVIOUS
  <2>2. \E x \in {"reports", "ended"} : reader' = [reader EXCEPT ![b] = [@ EXCEPT ![e] = x]]
    BY <1>5 DEF ReadEnds, Report
  <2>3. reader' \in [Browsers -> [Ends -> {"none", "reads", "reports", "ended"}]]
    BY <2>1, <2>2
  <2>4. /\ UNCHANGED <<ttyOptions, serverEnd, cancelled, zeroTimer, served, connections, handler, shell, browser>>
        /\ errs' = errs \/ (errs[b] < 2 /\ errs' = [errs EXCEPT ![b] = @ + 1])
    BY <1>5 DEF ReadEnds, Report
  <2>5. errs' \in [Browsers -> 0 .. ErrsRoom]
    BY <2>4 DEF ErrsRoom
  <2> QED BY <2>3, <2>4, <2>5
<1> QED BY <1>1, <1>2, <1>3, <1>4, <1>5 DEF TtyNext

\* Every step keeps the counter equal to the number of handlers inside.
LEMMA CountStep == TtyPlain /\ CountInv /\ [TtyNext]_ttyVars => CountInv'
<1> SUFFICES ASSUME TtyPlain, CountInv, [TtyNext]_ttyVars PROVE CountInv'
  OBVIOUS
<1> USE DEF serverEnd, terminal
<1>1. IsFiniteSet(Inside)
  BY BrowsersAssumption, FS_Subset DEF Inside
<1>2. ASSUME Inside' = Inside, UNCHANGED connections PROVE CountInv'
  BY <1>2 DEF CountInv
<1>3. CASE UNCHANGED <<handler, connections>>
  <2>1. Inside' = Inside
    BY <1>3 DEF Inside
  <2> QED BY <2>1, <1>2, <1>3
<1>4. ASSUME NEW b \in Browsers, CountIn(b) PROVE CountInv'
  <2>1. b \notin Inside /\ Inside' = Inside \cup {b}
    BY <1>4 DEF CountIn, Enter, Inside, InsideAt, TtyPlain
  <2>2. Cardinality(Inside') = Cardinality(Inside) + 1
    BY <1>1, <2>1, FS_AddElement
  <2> QED BY <1>4, <2>2 DEF CountIn, CountInv
<1>5. ASSUME NEW b \in Browsers, CountOut(b) PROVE CountInv'
  <2>1. b \in Inside /\ Inside' = Inside \ {b}
    BY <1>5 DEF CountOut, Enter, Inside, InsideAt, TtyPlain
  <2>2. Cardinality(Inside') = Cardinality(Inside) - 1
    BY <1>1, <2>1, FS_RemoveElement
  <2> QED BY <1>5, <2>2 DEF CountOut, CountInv
<1>6. ASSUME NEW b \in Browsers,
             \/ Request(b) \/ Upgrade(b) \/ Authenticate(b) \/ Introduce(b) \/ TtyReturns(b)
             \/ CloseSlave(b) \/ SlaveClosed(b) \/ CloseMaster(b)
      PROVE  CountInv'
  <2>1. UNCHANGED connections
    BY <1>6 DEF Request, Upgrade, Authenticate, Introduce, TtyReturns, CloseSlave, SlaveClosed, CloseMaster
  <2>2. /\ \E at : Enter(b, at) /\ (at \in InsideAt <=> handler[b] \in InsideAt)
    BY <1>6 DEF Request, Upgrade, Authenticate, Introduce, TtyReturns, CloseSlave, SlaveClosed, CloseMaster, InsideAt
  <2>3. Inside' = Inside
    BY <2>2 DEF Enter, Inside, TtyPlain
  <2> QED BY <2>1, <2>3, <1>2
<1>7. CASE \/ StopTerminal \/ ShutDown \/ ServeEnds \/ ServeFails \/ RunCancelled \/ RunReturns
           \/ TimerFires \/ IdleCancels \/ UNCHANGED ttyVars
  BY <1>7, <1>3 DEF StopTerminal, ShutDown, ServeEnds, ServeFails, RunCancelled, RunReturns, TimerFires,
     IdleCancels, ttyVars
<1>8. ASSUME NEW b \in Browsers,
             ShellEnds(b) \/ BrowserLeaves(b) \/ (\E e \in Ends : ReadEnds(b, e) \/ Report(b, e))
      PROVE  CountInv'
  BY <1>8, <1>3 DEF ShellEnds, BrowserLeaves, ReadEnds, Report
<1> QED BY <1>4, <1>5, <1>6, <1>7, <1>8 DEF TtyNext, HandlerStep

\* Every step keeps what a terminal's goroutines reported.
LEMMA ReaderStep == TtyPlain /\ ReaderInv /\ [TtyNext]_ttyVars => ReaderInv'
<1> SUFFICES ASSUME TtyPlain, ReaderInv, [TtyNext]_ttyVars PROVE ReaderInv'
  OBVIOUS
<1> USE DEF serverEnd, terminal
<1>1. CASE UNCHANGED <<handler, reader, errs>>
  BY <1>1 DEF ReaderInv
<1>2. ASSUME NEW b \in Browsers,
             \/ Request(b) \/ CountIn(b) \/ Upgrade(b) \/ Authenticate(b)
             \/ CloseSlave(b) \/ SlaveClosed(b) \/ CloseMaster(b) \/ CountOut(b)
      PROVE  ReaderInv'
  <2>1. UNCHANGED <<reader, errs>>
    BY <1>2 DEF Request, CountIn, Upgrade, Authenticate, CloseSlave, SlaveClosed, CloseMaster, CountOut
  <2>2. \E at : /\ Enter(b, at)
                /\ at \in {"none", "refused", "claimed", "counted", "reads", "starts"} =>
                     handler[b] \in {"none", "refused", "claimed", "counted", "reads", "starts"}
    BY <1>2 DEF Request, CountIn, Upgrade, Authenticate, CloseSlave, SlaveClosed, CloseMaster, CountOut
  <2> QED BY <2>1, <2>2 DEF Enter, ReaderInv, TtyPlain
<1>3. ASSUME NEW b \in Browsers, Introduce(b) PROVE ReaderInv'
  <2>1. errs[b] = 0
    BY <1>3 DEF Introduce, ReaderInv, TtyPlain, ErrsRoom, Ends
  <2> QED BY <1>3, <2>1 DEF Introduce, Enter, ReaderInv, TtyPlain, Ends
<1>4. ASSUME NEW b \in Browsers, TtyReturns(b) PROVE ReaderInv'
  BY <1>4 DEF TtyReturns, Enter, ReaderInv, TtyPlain, ErrsRoom
<1>5. ASSUME NEW b \in Browsers, NEW e \in Ends, ReadEnds(b, e) PROVE ReaderInv'
  BY <1>5 DEF ReadEnds, ReaderInv, TtyPlain
<1>6. ASSUME NEW b \in Browsers, NEW e \in Ends, Report(b, e) PROVE ReaderInv'
  BY <1>6 DEF Report, ReaderInv, TtyPlain, ErrsRoom, Ends
<1>7. CASE \/ StopTerminal \/ ShutDown \/ ServeEnds \/ ServeFails \/ RunCancelled \/ RunReturns
           \/ TimerFires \/ IdleCancels \/ UNCHANGED ttyVars
  BY <1>7, <1>1 DEF StopTerminal, ShutDown, ServeEnds, ServeFails, RunCancelled, RunReturns, TimerFires,
     IdleCancels, ttyVars
<1>8. ASSUME NEW b \in Browsers, ShellEnds(b) \/ BrowserLeaves(b) PROVE ReaderInv'
  BY <1>8, <1>1 DEF ShellEnds, BrowserLeaves
<1> QED BY <1>2, <1>3, <1>4, <1>5, <1>6, <1>7, <1>8 DEF TtyNext, HandlerStep

\* Every step keeps where processes are.
LEMMA ShellStep == TtyPlain /\ ShellInv /\ [TtyNext]_ttyVars => ShellInv'
<1> SUFFICES ASSUME TtyPlain, ShellInv, [TtyNext]_ttyVars PROVE ShellInv'
  OBVIOUS
<1> USE DEF serverEnd, terminal
<1>1. CASE UNCHANGED <<handler, shell>>
  BY <1>1 DEF ShellInv
<1>2. ASSUME NEW b \in Browsers, HandlerStep(b) PROVE ShellInv'
  <2> USE DEF Enter, ShellInv, TtyPlain
  <2>1. CASE Request(b) \/ CountIn(b) \/ Upgrade(b) \/ CloseMaster(b) \/ CountOut(b)
    <3>1. UNCHANGED shell
      BY <2>1 DEF Request, CountIn, Upgrade, CloseMaster, CountOut
    <3>2. \E at : Enter(b, at) /\ {at, handler[b]} \cap {"starts", "runs", "ends", "waits"} = {}
      BY <2>1 DEF Request, CountIn, Upgrade, CloseMaster, CountOut
    <3> QED BY <3>1, <3>2
  <2>2. CASE Authenticate(b)
    BY <2>2 DEF Authenticate
  <2>3. CASE Introduce(b) \/ TtyReturns(b)
    BY <2>3 DEF Introduce, TtyReturns
  <2>4. CASE CloseSlave(b)
    BY <2>4 DEF CloseSlave
  <2>5. CASE SlaveClosed(b)
    BY <2>5 DEF SlaveClosed
  <2> QED BY <1>2, <2>1, <2>2, <2>3, <2>4, <2>5 DEF HandlerStep
<1>3. ASSUME NEW b \in Browsers, ShellEnds(b) PROVE ShellInv'
  BY <1>3 DEF ShellEnds, ShellInv, TtyPlain
<1>4. CASE \/ StopTerminal \/ ShutDown \/ ServeEnds \/ ServeFails \/ RunCancelled \/ RunReturns
           \/ TimerFires \/ IdleCancels \/ UNCHANGED ttyVars
  BY <1>4, <1>1 DEF StopTerminal, ShutDown, ServeEnds, ServeFails, RunCancelled, RunReturns, TimerFires,
     IdleCancels, ttyVars
<1>5. ASSUME NEW b \in Browsers, BrowserLeaves(b) \/ (\E e \in Ends : ReadEnds(b, e) \/ Report(b, e))
      PROVE  ShellInv'
  BY <1>5, <1>1 DEF BrowserLeaves, ReadEnds, Report
<1> QED BY <1>2, <1>3, <1>4, <1>5 DEF TtyNext

\* The invariant gives the types, the counter's bound included, and that no
\* goroutine finds the channel of errors full.
LEMMA TerminalHolds == TerminalInv => TtyTypeOK /\ ReadersNeverBlock
<1> SUFFICES ASSUME TerminalInv PROVE TtyTypeOK /\ ReadersNeverBlock
  OBVIOUS
<1>1. Inside \subseteq Browsers
  BY DEF Inside
<1>2. IsFiniteSet(Inside) /\ Cardinality(Inside) <= Cardinality(Browsers)
  BY <1>1, BrowsersAssumption, FS_Subset
<1>3. Cardinality(Inside) \in Nat /\ Cardinality(Browsers) \in Nat
  BY <1>2, BrowsersAssumption, FS_CardinalityType
<1>4. connections \in 0 .. Cardinality(Browsers)
  BY <1>2, <1>3 DEF TerminalInv, CountInv
<1>5. TtyTypeOK
  BY <1>4 DEF TerminalInv, TtyPlain, TtyTypeOK, InsideAt
<1>6. ReadersNeverBlock
  BY DEF TerminalInv, TtyPlain, ReaderInv, ReadersNeverBlock, ErrsRoom
<1> QED BY <1>5, <1>6

\* A step that makes Run return finds nobody inside and no process running.
LEMMA RunReturnsEmpty ==
  TerminalInv /\ [TtyNext]_ttyVars =>
    (runs # runs' /\ runs' = "returned"
       => \A b \in Browsers : handler[b] \notin InsideAt /\ shell[b] \in {"none", "dead"})
<1> SUFFICES ASSUME TerminalInv, [TtyNext]_ttyVars, runs # runs', runs' = "returned"
             PROVE  \A b \in Browsers : handler[b] \notin InsideAt /\ shell[b] \in {"none", "dead"}
  OBVIOUS
<1>1. RunReturns
  <2> USE DEF serverEnd
  <2>1. ~UNCHANGED ttyVars
    BY DEF ttyVars
  <2>2. ~ \/ StopTerminal \/ ShutDown \/ ServeEnds \/ ServeFails \/ RunCancelled \/ TimerFires \/ IdleCancels
    BY DEF StopTerminal, ShutDown, ServeEnds, ServeFails, RunCancelled, TimerFires, IdleCancels
  <2>3. ASSUME NEW b \in Browsers PROVE ~HandlerStep(b)
    BY DEF HandlerStep, Request, CountIn, Upgrade, Authenticate, Introduce, TtyReturns, CloseSlave,
       SlaveClosed, CloseMaster, CountOut
  <2>4. ASSUME NEW b \in Browsers PROVE ~ \/ ShellEnds(b) \/ BrowserLeaves(b)
    BY DEF ShellEnds, BrowserLeaves
  <2>5. ASSUME NEW b \in Browsers, NEW e \in Ends PROVE ~(ReadEnds(b, e) \/ Report(b, e))
    BY DEF ReadEnds, Report
  <2> QED BY <2>1, <2>2, <2>3, <2>4, <2>5 DEF TtyNext
<1>2. IsFiniteSet(Inside)
  BY BrowsersAssumption, FS_Subset DEF Inside
<1>3. Inside = {}
  BY <1>1, <1>2, FS_EmptySet DEF RunReturns, TerminalInv, CountInv
<1> QED BY <1>3 DEF Inside, InsideAt, TerminalInv, ShellInv

--------------------------------------------------------------------------------
(* Reverse tunnels. *)

\* A session, as both its ends and the far end's answer to its request have it.
TunnelType ==
  [cli : {"none", "up", "closed"}, srv : {"none", "up", "ended"},
   cut : BOOLEAN, req : {"none", "asked", "bound", "over"}, chan : 0 .. QueueRoom]

\* A server's end ends after the client's or the network; a client that noticed
\* has its answer; where the port was bound it still is, unless the one
\* connection of a "bind" came.
SessionInv(s) ==
  /\ tunnel[s].cli = "none" \/ tunnel[s].srv = "none" => tunnel[s] = NoTunnel
  /\ tkind # "ssh" /\ tunnel[s].cli # "none" => tunnel[s].req # "none"
  /\ tunnel[s].srv = "ended" => tunnel[s].cut \/ tunnel[s].cli = "closed"
  /\ tunnel[s].cli = "closed" => tunnel[s].req \in {"none", "over"}
  /\ tunnel[s].req = "bound" /\ tunnel[s].srv = "up" =>
       bound = s \/ tunnel[s].cut \/ (tkind = "bind" /\ (tunnel[s].chan > 0 \/ entry # s))

\* The port is with the server's end of a session; the loop waits on a session
\* that was asked.
AgentInv ==
  /\ bound # 0 => tunnel[bound].srv = "up" /\ tunnel[bound].req \in {"bound", "over"}
  /\ agent \in {"connect", "waiting"} => entry \in Tunnels /\ tunnel[entry].cli # "none"
  /\ agent = "waiting" => tunnel[entry].req # "none"

\* What every step keeps.
ReverseInv == TunnelTypeOK /\ AgentInv /\ \A s \in Tunnels : SessionInv(s)

\* The loop that waits for a connection never waits in vain: one is there, or
\* the channel is closed, or the agent's end has yet to notice that the session
\* was cut, or the server's end of it goes on and will answer or has the port
\* (forward.go:446, ssh.go:129).
NeverWaitsInVain ==
  agent = "waiting" =>
    LET t == tunnel[entry] IN
    \/ t.chan > 0 \/ t.req = "over"
    \/ t.cli = "up" /\ t.cut
    \/ t.srv = "up" /\ ~t.cut /\ (t.req = "asked" \/ bound = entry)

\* The initial state satisfies the invariant.
LEMMA ReverseInit == TunnelInit => ReverseInv
<1> SUFFICES ASSUME TunnelInit PROVE ReverseInv
  OBVIOUS
<1> USE ReverseAssumption DEF TunnelInit
<1>1. NoTunnel \in TunnelType
  BY DEF NoTunnel, TunnelType
<1>2. tunnel \in [Tunnels -> TunnelType]
  BY <1>1
<1>3. TunnelTypeOK
  <2>1. 0 \in 0 .. MaxTunnels /\ incoming \in 0 .. MaxPeers /\ 0 \in 0 .. QueueRoom
    OBVIOUS
  <2> QED BY <1>2, <2>1 DEF TunnelTypeOK, TunnelType
<1>4. AgentInv
  BY DEF AgentInv
<1>5. ASSUME NEW s \in Tunnels PROVE SessionInv(s)
  BY <1>5 DEF SessionInv, NoTunnel
<1> QED BY <1>3, <1>4, <1>5 DEF ReverseInv

\* What opening a session, or using the one there is, leaves.
LEMMA Opens ==
  ASSUME ReverseInv, NEW req \in {"none", "asked"}, UseEntry \/ OpenTunnel(req),
         tkind # "ssh" => req = "asked", UNCHANGED <<tkind, bound>>
  PROVE  /\ tunnel' \in [Tunnels -> TunnelType] /\ entry' \in Tunnels
         /\ tunnel'[entry'].cli # "none"
         /\ \A s \in Tunnels : SessionInv(s)'
         /\ bound # 0 => tunnel'[bound] = tunnel[bound]
<1> USE ReverseAssumption DEF Tunnels
<1>1. tunnel \in [Tunnels -> TunnelType] /\ bound \in 0 .. MaxTunnels /\ entry \in 0 .. MaxTunnels
  BY DEF ReverseInv, TunnelTypeOK, TunnelType
<1>2. CASE UseEntry
  <2>1. \A s \in Tunnels : SessionInv(s)'
    BY <1>2 DEF UseEntry, ReverseInv, SessionInv
  <2> QED BY <1>1, <1>2, <2>1 DEF UseEntry, LiveEntry
<1>3. CASE OpenTunnel(req)
  <2>1. PICK s \in Tunnels :
          /\ FreshTunnel(s)
          /\ tunnel' = [tunnel EXCEPT ![s] = [NoTunnel EXCEPT !.cli = "up", !.srv = "up", !.req = req]]
          /\ entry' = s
    BY <1>3 DEF OpenTunnel
  <2> DEFINE new == [NoTunnel EXCEPT !.cli = "up", !.srv = "up", !.req = req]
  <2>2. new.cli = "up" /\ new.srv = "up" /\ new.cut = FALSE /\ new.req = req /\ new.chan = 0
    BY DEF NoTunnel
  <2>3. new \in TunnelType
    <3>1. NoTunnel \in TunnelType
      BY DEF NoTunnel, TunnelType
    <3> QED BY <3>1 DEF TunnelType
  <2> HIDE DEF new
  <2>4. tunnel' \in [Tunnels -> TunnelType] /\ tunnel'[s] = new
        /\ \A u \in Tunnels : u # s => tunnel'[u] = tunnel[u]
    BY <1>1, <2>1, <2>3 DEF new
  <2>5. bound # s
    BY <2>1 DEF FreshTunnel, ReverseInv, AgentInv, NoTunnel
  <2>6. ASSUME NEW u \in Tunnels PROVE SessionInv(u)'
    <3>1. CASE u = s
      BY <3>1, <2>2, <2>4 DEF SessionInv
    <3>2. CASE u # s
      BY <3>2, <2>1, <2>4 DEF SessionInv, ReverseInv
    <3> QED BY <3>1, <3>2
  <2>7. tunnel'[entry'].cli # "none"
    BY <2>1, <2>2, <2>4
  <2>8. bound # 0 => tunnel'[bound] = tunnel[bound]
    BY <1>1, <2>4, <2>5
  <2> QED BY <2>1, <2>4, <2>6, <2>7, <2>8
<1> QED BY <1>2, <1>3

\* The steps by which the loop gets a session.
LEMMA AcceptStep ==
  ReverseInv /\ (AcceptSsh \/ MuxAccept \/ WaitConnectSocks5) => ReverseInv'
<1> SUFFICES ASSUME ReverseInv, AcceptSsh \/ MuxAccept \/ WaitConnectSocks5 PROVE ReverseInv'
  OBVIOUS
<1>1. PICK req \in {"none", "asked"} :
        /\ UseEntry \/ OpenTunnel(req)
        /\ tkind # "ssh" => req = "asked"
        /\ tkind = "ssh" => agent' = "connect"
        /\ tkind # "ssh" => agent' = "waiting"
  BY DEF AcceptSsh, MuxAccept, WaitConnectSocks5
<1>2. UNCHANGED <<tkind, bound, incoming, waiting, stopping, stuck>>
  BY DEF AcceptSsh, MuxAccept, WaitConnectSocks5
<1>3. /\ tunnel' \in [Tunnels -> TunnelType] /\ entry' \in Tunnels
      /\ tunnel'[entry'].cli # "none"
      /\ \A s \in Tunnels : SessionInv(s)'
      /\ bound # 0 => tunnel'[bound] = tunnel[bound]
  BY <1>1, <1>2, Opens
<1>4. TunnelTypeOK'
  BY <1>1, <1>2, <1>3, ReverseAssumption DEF ReverseInv, TunnelTypeOK, TunnelType, Tunnels
<1>5. AgentInv'
  <2>1. agent' = "waiting" => tunnel'[entry'].req # "none"
    BY <1>1, <1>2, <1>3 DEF SessionInv, ReverseInv, TunnelTypeOK
  <2> QED BY <1>2, <1>3, <2>1 DEF AgentInv, ReverseInv
<1> QED BY <1>3, <1>4, <1>5 DEF ReverseInv

\* A step that changes one session, and neither the kind nor which session the
\* loop uses, keeps what the others keep.
LEMMA OneSession ==
  ASSUME ReverseInv, NEW s \in Tunnels, NEW t \in TunnelType,
         tunnel' = [tunnel EXCEPT ![s] = t],
         UNCHANGED tkind, entry' \in {0, entry}, bound' \in {bound, 0, s},
         bound' # bound /\ bound # 0 => tkind = "bind" \/ tunnel'[bound].srv # "up",
         tkind = "bind" /\ bound' # bound /\ bound # 0 /\ tunnel'[bound].srv = "up" =>
           bound = s \/ tunnel[bound].cut,
         SessionInv(s)'
  PROVE  tunnel' \in [Tunnels -> TunnelType] /\ tunnel'[s] = t /\ \A u \in Tunnels : SessionInv(u)'
<1>1. tunnel \in [Tunnels -> TunnelType]
  BY DEF ReverseInv, TunnelTypeOK, TunnelType
<1>2. tunnel' \in [Tunnels -> TunnelType] /\ tunnel'[s] = t
  BY <1>1
<1>3. ASSUME NEW u \in Tunnels, u # s PROVE SessionInv(u)'
  <2>1. tunnel'[u] = tunnel[u]
    BY <1>1, <1>3
  <2>2. 0 \notin Tunnels
    BY DEF Tunnels
  <2> QED BY <1>3, <2>1, <2>2 DEF SessionInv, ReverseInv
<1> QED BY <1>2, <1>3

\* The first call on a session asks, or finds it dead.
LEMMA ConnectStep == ReverseInv /\ ConnectContext => ReverseInv'
<1> SUFFICES ASSUME ReverseInv, ConnectContext PROVE ReverseInv'
  OBVIOUS
<1>0. PICK s \in Tunnels : s = entry
  BY DEF ConnectContext, ReverseInv, AgentInv
<1>1. tunnel \in [Tunnels -> TunnelType] /\ tunnel[s].cli # "none" /\ SessionInv(s) /\ 0 \notin Tunnels
  BY <1>0 DEF ReverseInv, TunnelTypeOK, TunnelType, AgentInv, ConnectContext, Tunnels
<1> DEFINE req == IF tunnel[s].req # "none" THEN tunnel[s].req ELSE IF LiveEntry THEN "asked" ELSE "over"
           t == [tunnel[s] EXCEPT !.req = req]
<1>2. req \in {"asked", "bound", "over"} /\ (req = "bound" => tunnel[s].req = "bound")
      /\ (tunnel[s].req # "none" => req = tunnel[s].req) /\ (tunnel[s].cli = "closed" => req = "over")
  BY <1>0, <1>1 DEF TunnelType, SessionInv, LiveEntry
<1>3. tunnel' = [tunnel EXCEPT ![s] = t]
  BY <1>0, <1>1 DEF ConnectContext
<1> HIDE DEF req
<1>4. t \in TunnelType /\ t.cli = tunnel[s].cli /\ t.srv = tunnel[s].srv /\ t.cut = tunnel[s].cut
      /\ t.chan = tunnel[s].chan /\ t.req = req
  BY <1>1, <1>2 DEF TunnelType
<1> HIDE DEF t
<1>5. tunnel'[s] = t
  BY <1>1, <1>3
<1>6. UNCHANGED <<tkind, entry, bound, incoming, waiting, stopping, stuck>> /\ agent' = "waiting"
  BY DEF ConnectContext
<1>7. SessionInv(s)'
  <2>1. t.cli # "none" /\ t.srv # "none"
    BY <1>1, <1>4 DEF SessionInv, NoTunnel
  <2> QED BY <1>0, <1>1, <1>2, <1>4, <1>5, <1>6, <2>1 DEF SessionInv
<1>8. tunnel' \in [Tunnels -> TunnelType] /\ \A u \in Tunnels : SessionInv(u)'
  BY <1>1, <1>3, <1>4, <1>6, <1>7, OneSession
<1>9. TunnelTypeOK'
  BY <1>6, <1>8 DEF ReverseInv, TunnelTypeOK, TunnelType
<1>10. AgentInv'
  <2>1. ASSUME bound # 0 PROVE tunnel'[bound].srv = "up" /\ tunnel'[bound].req \in {"bound", "over"}
    <3>1. bound \in Tunnels
      BY <2>1, ReverseAssumption DEF ReverseInv, TunnelTypeOK, Tunnels
    <3>2. tunnel[bound].srv = "up" /\ tunnel[bound].req \in {"bound", "over"}
      BY <2>1 DEF ReverseInv, AgentInv
    <3> QED BY <3>1, <3>2, <1>1, <1>2, <1>3, <1>4, <1>5
  <2> QED BY <1>0, <1>1, <1>2, <1>4, <1>5, <1>6, <2>1 DEF AgentInv
<1> QED BY <1>8, <1>9, <1>10 DEF ReverseInv

\* The far end's answer to a request.
LEMMA AnswerStep == ASSUME ReverseInv, NEW s \in Tunnels, ServerAnswers(s) PROVE ReverseInv'
<1> USE DEF ServerAnswers
<1>1. tunnel \in [Tunnels -> TunnelType] /\ s # 0 /\ SessionInv(s)
  BY DEF ReverseInv, TunnelTypeOK, TunnelType, Tunnels
<1>2. PICK t \in TunnelType :
        /\ tunnel' = [tunnel EXCEPT ![s] = t]
        /\ t.srv = "up" /\ ~t.cut /\ t.cli \in {tunnel[s].cli, "closed"} /\ t.req \in {"bound", "over"}
        /\ t.req = "bound" => bound' = s /\ t.cli = tunnel[s].cli /\ bound = 0
        /\ t.req = "over" => bound' = bound
  <2>1. CASE bound = 0
    <3> DEFINE t == [tunnel[s] EXCEPT !.req = "bound"]
    <3>1. t \in TunnelType /\ tunnel' = [tunnel EXCEPT ![s] = t]
      BY <1>1, <2>1 DEF TunnelType
    <3> QED BY <1>1, <2>1, <3>1 DEF TunnelType
  <2>2. CASE bound # 0
    <3> DEFINE t == [tunnel[s] EXCEPT !.req = "over", !.cli = IF tkind = "ssh" THEN @ ELSE "closed"]
    <3>1. t \in TunnelType /\ tunnel' = [tunnel EXCEPT ![s] = t]
      BY <1>1, <2>2 DEF TunnelType
    <3>2. t.srv = "up" /\ ~t.cut /\ t.cli \in {tunnel[s].cli, "closed"} /\ t.req = "over"
      BY <1>1 DEF TunnelType
    <3> QED BY <2>2, <3>1, <3>2
  <2> QED BY <2>1, <2>2
<1>3. tunnel'[s] = t
  BY <1>1, <1>2
<1>4. SessionInv(s)'
  <2>1. tunnel[s].cli # "none" /\ (tunnel[s].cli = "closed" => tunnel[s].req \in {"none", "over"})
    BY <1>1 DEF SessionInv, NoTunnel
  <2> QED BY <1>2, <1>3, <2>1 DEF SessionInv
<1>5. tunnel' \in [Tunnels -> TunnelType] /\ \A u \in Tunnels : SessionInv(u)'
  BY <1>2, <1>4, OneSession
<1>6. TunnelTypeOK'
  <2>1. bound' \in 0 .. MaxTunnels
    BY <1>2, ReverseAssumption DEF ReverseInv, TunnelTypeOK, Tunnels
  <2>2. stuck' \in BOOLEAN
    BY DEF ReverseInv, TunnelTypeOK
  <2> QED BY <1>5, <2>1, <2>2 DEF ReverseInv, TunnelTypeOK, TunnelType
<1>7. AgentInv'
  <2>1. bound' # 0 => tunnel'[bound'].srv = "up" /\ tunnel'[bound'].req \in {"bound", "over"}
    <3>1. ASSUME bound' # 0, bound' # s PROVE bound' = bound /\ tunnel'[bound] = tunnel[bound]
      <4>1. bound' = bound /\ bound \in Tunnels
        BY <1>2, <3>1, ReverseAssumption DEF ReverseInv, TunnelTypeOK, Tunnels
      <4> QED BY <4>1, <3>1, <1>1, <1>2
    <3> QED BY <1>2, <1>3, <3>1 DEF ReverseInv, AgentInv
  <2>2. ASSUME agent \in {"connect", "waiting"}
        PROVE  /\ entry \in Tunnels /\ tunnel'[entry].cli # "none"
               /\ agent = "waiting" => tunnel'[entry].req # "none"
    <3>1. SessionInv(s)
      BY <1>1
    <3>2. tunnel[s].cli # "none"
      BY <1>1 DEF SessionInv, NoTunnel
    <3> QED BY <1>1, <1>2, <1>3, <2>2, <3>2 DEF ReverseInv, AgentInv
  <2> QED BY <2>1, <2>2 DEF AgentInv
<1> QED BY <1>5, <1>6, <1>7 DEF ReverseInv

\* A connection comes to the port.
LEMMA PeerStep == ReverseInv /\ PeerComes => ReverseInv'
<1> SUFFICES ASSUME ReverseInv, PeerComes PROVE ReverseInv'
  OBVIOUS
<1> USE ReverseAssumption
<1>0. PICK s \in Tunnels : s = bound
  BY DEF PeerComes, ReverseInv, TunnelTypeOK, Tunnels
<1>1. tunnel \in [Tunnels -> TunnelType] /\ 0 \notin Tunnels
  BY DEF ReverseInv, TunnelTypeOK, TunnelType, Tunnels
<1>2. SessionInv(s) /\ tunnel[s].srv = "up" /\ tunnel[s].req \in {"bound", "over"} /\ s # 0
  BY <1>0, <1>1 DEF ReverseInv, AgentInv
<1>3. PICK t \in TunnelType :
        /\ tunnel' = [tunnel EXCEPT ![s] = t]
        /\ t.cli = tunnel[s].cli /\ t.srv = tunnel[s].srv /\ t.cut = tunnel[s].cut
        /\ t.req = tunnel[s].req /\ (t.cut \/ t.chan > 0)
  <2>1. CASE tunnel[s].cut
    <3>1. tunnel' = [tunnel EXCEPT ![s] = tunnel[s]]
      BY <1>0, <1>1, <2>1 DEF PeerComes
    <3> QED BY <1>1, <2>1, <3>1
  <2>2. CASE ~tunnel[s].cut
    <3> DEFINE n == IF tunnel[s].chan < QueueRoom THEN tunnel[s].chan + 1 ELSE tunnel[s].chan
               t == [tunnel[s] EXCEPT !.chan = n]
    <3>1. n \in 0 .. QueueRoom /\ n > 0
      BY <1>1 DEF TunnelType
    <3>2. tunnel' = [tunnel EXCEPT ![s] = t]
      BY <1>0, <1>1, <2>2 DEF PeerComes
    <3> HIDE DEF n
    <3>3. t \in TunnelType /\ t.chan = n
      BY <1>1, <3>1 DEF TunnelType
    <3> QED BY <1>1, <3>1, <3>2, <3>3 DEF TunnelType
  <2> QED BY <2>1, <2>2
<1>4. tunnel'[s] = t
  BY <1>1, <1>3
<1>5. /\ UNCHANGED <<tkind, entry, agent, waiting, stopping, stuck>>
      /\ bound' \in {s, 0} /\ (tkind # "bind" => bound' = s) /\ incoming' \in 0 .. MaxPeers
  BY <1>0 DEF PeerComes, ReverseInv, TunnelTypeOK
<1>6. SessionInv(s)'
  <2>1. t.cli # "none" /\ t.srv # "none"
    BY <1>2, <1>3 DEF SessionInv, NoTunnel
  <2> QED BY <1>2, <1>3, <1>4, <1>5, <2>1 DEF SessionInv
<1>7. tunnel' \in [Tunnels -> TunnelType] /\ \A u \in Tunnels : SessionInv(u)'
  BY <1>0, <1>1, <1>3, <1>5, <1>6, OneSession
<1>8. TunnelTypeOK'
  <2>1. bound' \in 0 .. MaxTunnels
    BY <1>5 DEF Tunnels
  <2> QED BY <1>5, <1>7, <2>1 DEF ReverseInv, TunnelTypeOK, TunnelType
<1>9. AgentInv'
  <2>1. bound' # 0 => tunnel'[bound'].srv = "up" /\ tunnel'[bound'].req \in {"bound", "over"}
    BY <1>2, <1>3, <1>4, <1>5
  <2>2. ASSUME agent \in {"connect", "waiting"}
        PROVE  /\ entry \in Tunnels /\ tunnel'[entry].cli # "none"
               /\ agent = "waiting" => tunnel'[entry].req # "none"
    BY <1>1, <1>3, <1>4, <2>2 DEF ReverseInv, AgentInv
  <2> QED BY <1>5, <2>1, <2>2 DEF AgentInv
<1> QED BY <1>7, <1>8, <1>9 DEF ReverseInv

\* The loop with a connection.
LEMMA DeliverStep == ReverseInv /\ Deliver => ReverseInv'
<1> SUFFICES ASSUME ReverseInv, Deliver PROVE ReverseInv'
  OBVIOUS
<1> USE ReverseAssumption
<1>0. PICK s \in Tunnels : s = entry
  BY DEF Deliver, ReverseInv, AgentInv
<1>1. tunnel \in [Tunnels -> TunnelType] /\ tunnel[s].cli # "none" /\ 0 \notin Tunnels /\ SessionInv(s)
  BY <1>0 DEF ReverseInv, TunnelTypeOK, TunnelType, Tunnels, AgentInv, Deliver
<1> DEFINE n == tunnel[s].chan - 1
           t == [tunnel[s] EXCEPT !.chan = n]
<1>2. n \in 0 .. QueueRoom
  BY <1>0, <1>1 DEF TunnelType, Deliver
<1>3. tunnel' = [tunnel EXCEPT ![s] = t]
  BY <1>0, <1>1 DEF Deliver
<1> HIDE DEF n
<1>4. t \in TunnelType /\ t.cli = tunnel[s].cli /\ t.srv = tunnel[s].srv /\ t.cut = tunnel[s].cut
      /\ t.req = tunnel[s].req
  BY <1>1, <1>2 DEF TunnelType
<1>5. tunnel'[s] = t
  BY <1>1, <1>3
<1> HIDE DEF t
<1>6. /\ UNCHANGED <<tkind, bound, incoming, stopping, stuck>>
      /\ (tkind = "bind" => entry' = 0) /\ (tkind # "bind" => entry' = s)
      /\ agent' \in {"ended", "accept"} /\ waiting' \in 0 .. QueueRoom
  BY <1>0 DEF Deliver, ReverseInv, TunnelTypeOK
<1>7. SessionInv(s)'
  <2>1. t.cli # "none" /\ t.srv # "none"
    BY <1>1, <1>4 DEF SessionInv, NoTunnel
  <2> QED BY <1>1, <1>4, <1>5, <1>6, <2>1 DEF SessionInv
<1>8. tunnel' \in [Tunnels -> TunnelType] /\ \A u \in Tunnels : SessionInv(u)'
  BY <1>0, <1>1, <1>3, <1>4, <1>6, <1>7, OneSession
<1>9. TunnelTypeOK'
  <2>1. entry' \in 0 .. MaxTunnels
    BY <1>6 DEF Tunnels, ReverseInv, TunnelTypeOK
  <2> QED BY <1>6, <1>8, <2>1 DEF ReverseInv, TunnelTypeOK, TunnelType
<1>10. AgentInv'
  <2>1. bound # 0 => tunnel'[bound].srv = "up" /\ tunnel'[bound].req \in {"bound", "over"}
    <3>1. ASSUME bound # 0 PROVE bound \in Tunnels
      BY <3>1 DEF ReverseInv, TunnelTypeOK, Tunnels
    <3> QED BY <1>1, <1>3, <1>4, <1>5, <3>1 DEF ReverseInv, AgentInv
  <2> QED BY <1>6, <2>1 DEF AgentInv
<1> QED BY <1>8, <1>9, <1>10 DEF ReverseInv

\* Steps that change no session.
LEMMA LoopStep ==
  /\ ReverseInv
  /\ DialFails \/ DeliverFails \/ Sleep \/ AcceptTunnel \/ CloseTunnel \/ UNCHANGED tunnelVars
  => ReverseInv'
<1> SUFFICES ASSUME ReverseInv,
                    DialFails \/ DeliverFails \/ Sleep \/ AcceptTunnel \/ CloseTunnel \/ UNCHANGED tunnelVars
             PROVE  ReverseInv'
  OBVIOUS
<1> USE DEF DialFails, DeliverFails, Sleep, AcceptTunnel, CloseTunnel, tunnelVars, Failed
<1>1. UNCHANGED <<tkind, tunnel, entry, bound, incoming, stuck>>
  OBVIOUS
<1>2. agent' \in {"accept", "sleep", "ended"} \/ agent' = agent
  OBVIOUS
<1>3. stopping' \in {stopping, TRUE} /\ (waiting' = waiting \/ (waiting > 0 /\ waiting' = waiting - 1))
  OBVIOUS
<1> HIDE DEF DialFails, DeliverFails, Sleep, AcceptTunnel, CloseTunnel, tunnelVars, Failed
<1>4. TunnelTypeOK'
  <2>1. waiting' \in 0 .. QueueRoom
    BY <1>3, ReverseAssumption DEF ReverseInv, TunnelTypeOK
  <2>2. stopping' \in BOOLEAN
    BY <1>3 DEF ReverseInv, TunnelTypeOK
  <2>3. agent' \in {"accept", "connect", "waiting", "sleep", "ended"}
    BY <1>2 DEF ReverseInv, TunnelTypeOK
  <2> QED BY <1>1, <2>1, <2>2, <2>3 DEF ReverseInv, TunnelTypeOK
<1>5. AgentInv'
  BY <1>1, <1>2 DEF ReverseInv, AgentInv
<1>6. \A s \in Tunnels : SessionInv(s)'
  BY <1>1 DEF ReverseInv, SessionInv
<1> QED BY <1>4, <1>5, <1>6 DEF ReverseInv

\* The network cuts a session, and its ends notice.
LEMMA CutStep ==
  ASSUME ReverseInv, NEW s \in Tunnels, NetworkCuts(s) \/ AgentNotices(s) \/ HandleForwardEnds(s)
  PROVE  ReverseInv'
<1> USE DEF NetworkCuts, AgentNotices, HandleForwardEnds
<1>1. tunnel \in [Tunnels -> TunnelType] /\ 0 \notin Tunnels /\ SessionInv(s)
  BY DEF ReverseInv, TunnelTypeOK, TunnelType, Tunnels
<1>2. UNCHANGED <<tkind, entry, agent, incoming, waiting, stopping, stuck>>
  OBVIOUS
<1>3. PICK t \in TunnelType :
        /\ tunnel' = [tunnel EXCEPT ![s] = t]
        /\ t.cut \/ (t.cli = "closed" /\ tunnel[s].cli = "closed")
        /\ (tunnel[s].cut => t.cut) /\ t.chan = tunnel[s].chan
        /\ t.cli \in {tunnel[s].cli, "closed"} /\ (t.cli = "none" <=> tunnel[s].cli = "none")
        /\ t.cli # "none"
        /\ t.req = "none" <=> tunnel[s].req = "none"
        /\ t.req = tunnel[s].req \/ t.req = "over"
        /\ t.cli = "closed" => t.req \in {"none", "over"}
        /\ \/ t.srv = tunnel[s].srv /\ bound' = bound
           \/ t.srv = "ended" /\ bound' = IF bound = s THEN 0 ELSE bound
  <2>1. CASE NetworkCuts(s)
    <3> DEFINE t == [tunnel[s] EXCEPT !.cut = TRUE]
    <3>1. t \in TunnelType /\ tunnel' = [tunnel EXCEPT ![s] = t]
      BY <1>1, <2>1 DEF TunnelType
    <3>2. /\ t.cut = TRUE /\ t.cli = tunnel[s].cli /\ t.req = tunnel[s].req /\ t.srv = tunnel[s].srv /\ t.chan = tunnel[s].chan
          /\ tunnel[s].cli = "up" /\ bound' = bound
      BY <1>1, <2>1 DEF TunnelType
    <3> HIDE DEF t
    <3> QED BY <1>1, <3>1, <3>2
  <2>2. CASE AgentNotices(s)
    <3> DEFINE req == IF tunnel[s].req = "none" THEN "none" ELSE "over"
               t == [tunnel[s] EXCEPT !.cli = "closed", !.req = req]
    <3>1. t \in TunnelType /\ tunnel' = [tunnel EXCEPT ![s] = t]
      BY <1>1, <2>2 DEF TunnelType
    <3>2. /\ t.cut = TRUE /\ t.cli = "closed" /\ t.req = req /\ t.srv = tunnel[s].srv /\ t.chan = tunnel[s].chan
          /\ tunnel[s].cli = "up" /\ bound' = bound
      BY <1>1, <2>2 DEF TunnelType
    <3> HIDE DEF t
    <3> QED BY <1>1, <3>1, <3>2
  <2>3. CASE HandleForwardEnds(s)
    <3> DEFINE t == [tunnel[s] EXCEPT !.srv = "ended"]
    <3>1. t \in TunnelType /\ tunnel' = [tunnel EXCEPT ![s] = t]
      BY <1>1, <2>3 DEF TunnelType
    <3>2. /\ t.cut = tunnel[s].cut /\ t.cli = tunnel[s].cli /\ t.req = tunnel[s].req /\ t.srv = "ended" /\ t.chan = tunnel[s].chan
          /\ tunnel[s].srv = "up" /\ bound' = (IF bound = s THEN 0 ELSE bound)
          /\ tunnel[s].cut \/ tunnel[s].cli = "closed"
      BY <1>1, <2>3 DEF TunnelType
    <3> HIDE DEF t
    <3>3. tunnel[s].cli # "none" /\ (tunnel[s].cli = "closed" => tunnel[s].req \in {"none", "over"})
      BY <1>1, <3>2 DEF SessionInv, NoTunnel
    <3> QED BY <1>1, <3>1, <3>2, <3>3
  <2> QED BY <2>1, <2>2, <2>3
<1>4. tunnel'[s] = t
  BY <1>1, <1>3
<1> HIDE DEF NetworkCuts, AgentNotices, HandleForwardEnds
<1>5. SessionInv(s)'
  <2>1. t.req = "bound" /\ t.srv = "up" => tunnel[s].req = "bound" /\ tunnel[s].srv = "up" /\ bound' = bound
    BY <1>3 DEF TunnelType
  <2>2. t.cli # "none" /\ t.srv # "none"
    BY <1>1, <1>3 DEF SessionInv, NoTunnel
  <2> QED BY <1>1, <1>2, <1>3, <1>4, <2>1, <2>2 DEF SessionInv
<1>6. tunnel' \in [Tunnels -> TunnelType] /\ \A u \in Tunnels : SessionInv(u)'
  BY <1>1, <1>2, <1>3, <1>4, <1>5, OneSession
<1>7. TunnelTypeOK'
  BY <1>1, <1>2, <1>3, <1>6, ReverseAssumption DEF ReverseInv, TunnelTypeOK, TunnelType
<1>8. AgentInv'
  <2>1. bound' # 0 => tunnel'[bound'].srv = "up" /\ tunnel'[bound'].req \in {"bound", "over"}
    <3>1. SUFFICES ASSUME bound' # 0 PROVE tunnel'[bound'].srv = "up" /\ tunnel'[bound'].req \in {"bound", "over"}
      OBVIOUS
    <3>2. bound' = bound /\ bound \in Tunnels
      BY <1>3, <3>1, ReverseAssumption DEF ReverseInv, TunnelTypeOK, Tunnels
    <3>3. tunnel[bound].srv = "up" /\ tunnel[bound].req \in {"bound", "over"}
      BY <3>1, <3>2 DEF ReverseInv, AgentInv
    <3>4. CASE bound = s
      BY <3>1, <3>2, <3>3, <3>4, <1>3, <1>4
    <3>5. CASE bound # s
      BY <3>2, <3>3, <3>5, <1>1, <1>3
    <3> QED BY <3>4, <3>5
  <2>2. ASSUME agent \in {"connect", "waiting"}
        PROVE  /\ entry \in Tunnels /\ tunnel'[entry].cli # "none"
               /\ agent = "waiting" => tunnel'[entry].req # "none"
    BY <1>1, <1>3, <1>4, <2>2 DEF ReverseInv, AgentInv
  <2> QED BY <1>2, <2>1, <2>2 DEF AgentInv
<1> QED BY <1>6, <1>7, <1>8 DEF ReverseInv

\* The invariant is inductive.
LEMMA ReverseStep == ReverseInv /\ [TunnelNext]_tunnelVars => ReverseInv'
BY AcceptStep, ConnectStep, AnswerStep, PeerStep, DeliverStep, LoopStep, CutStep DEF TunnelNext

\* The invariant gives the types, and that the loop waits for something to come.
LEMMA ReverseHolds == ReverseInv => TunnelTypeOK /\ NeverWaitsInVain
<1> SUFFICES ASSUME ReverseInv PROVE TunnelTypeOK /\ NeverWaitsInVain
  OBVIOUS
<1>1. SUFFICES ASSUME agent = "waiting"
               PROVE  \/ tunnel[entry].chan > 0 \/ tunnel[entry].req = "over"
                      \/ tunnel[entry].cli = "up" /\ tunnel[entry].cut
                      \/ /\ tunnel[entry].srv = "up" /\ ~tunnel[entry].cut
                         /\ tunnel[entry].req = "asked" \/ bound = entry
  BY DEF ReverseInv, NeverWaitsInVain
<1>2. entry \in Tunnels /\ tunnel[entry].cli # "none" /\ tunnel[entry].req # "none"
  BY <1>1 DEF ReverseInv, AgentInv
<1>3. tunnel[entry] \in TunnelType /\ SessionInv(entry)
  BY <1>2 DEF ReverseInv, TunnelTypeOK, TunnelType
<1>4. tunnel[entry].srv # "none"
  BY <1>2, <1>3 DEF SessionInv, NoTunnel
<1> QED BY <1>2, <1>3, <1>4 DEF SessionInv, TunnelType

--------------------------------------------------------------------------------
(* SOCKS connections. *)

\* What is open where the handler is: nothing before the command; a listener
\* while its accepts are awaited; a peer, the one that was accepted, while it is
\* served, or for good when the handler went with the end of the client.
HeldInv ==
  /\ stage \in {"methods", "credentials", "serve"} => opened = {} /\ running = {} /\ taken = 0
  /\ "listener" \in opened => \/ ask.cmd = "bind" /\ stage = "select" /\ taken = 0 /\ "accept" \in running
                              \/ ask.cmd = "mbind" /\ stage = "mux"
  /\ "peer" \in opened => /\ ask.cmd = "bind" /\ taken = 1
                          /\ stage \in {"select", "transport"} \/ (stage = "done" /\ lostPeer)
  /\ "accept" \in running => ask.cmd = "bind"
  /\ stage = "done" => opened \cap {"target", "chain", "relay", "outer"} = {}
  /\ stage = "select" => ask.cmd = "bind" /\ opened \subseteq {"listener", "peer"}
  /\ stage = "mux" => ask.cmd = "mbind"

\* What every step keeps.
SocksInv == SocksTypeOK /\ HeldInv

\* A handler that has returned left nothing open but a peer that came while
\* the pipe of its client ended (socks.go:1105).
ReturnedIsClosed == stage = "done" => opened \subseteq IF lostPeer THEN {"peer"} ELSE {}

\* The initial state satisfies the invariant.
LEMMA SocksInitial == SocksInit => SocksInv
<1> SUFFICES ASSUME SocksInit PROVE SocksInv
  OBVIOUS
<1>1. ask \in Requests /\ taken \in 0 .. MaxBindPeers
  BY SocksAssumption DEF SocksInit
<1>2. SocksTypeOK
  BY <1>1 DEF SocksInit, SocksTypeOK
<1>3. HeldInv
  BY DEF SocksInit, HeldInv
<1> QED BY <1>2, <1>3 DEF SocksInv

\* The negotiation.
LEMMA NegotiationStep ==
  SocksInv /\ (SelectMethod \/ OnSelected \/ SocksReadFails) => SocksInv'
<1> USE DEF SocksInv, SocksTypeOK, HeldInv
<1>1. SocksInv /\ SelectMethod => SocksInv'
  BY DEF SelectMethod
<1>2. SocksInv /\ OnSelected => SocksInv'
  BY DEF OnSelected
<1>3. SocksInv /\ SocksReadFails => SocksInv'
  BY DEF SocksReadFails
<1> QED BY <1>1, <1>2, <1>3

\* What the client does, or learns.
LEMMA ClientStep ==
  /\ SocksInv
  /\ \/ ConnectReply \/ Connect4Reply \/ MuxBindReply \/ UDPTunReply \/ BindReply \/ BindHandshake
     \/ UDPReply \/ ControlCollected \/ ClientLeaves \/ UNCHANGED socksVars
  => SocksInv'
<1> SUFFICES ASSUME SocksInv,
                    \/ ConnectReply \/ Connect4Reply \/ MuxBindReply \/ UDPTunReply \/ BindReply
                    \/ BindHandshake \/ UDPReply \/ ControlCollected \/ ClientLeaves \/ UNCHANGED socksVars
             PROVE  SocksInv'
  OBVIOUS
<1>1. /\ UNCHANGED <<ask, method, wrapped, stage, reply, opened, running, taken, early, learned, lostPeer>>
      /\ client' \in {client, "using", "bound", "unheld", "gone"}
  BY DEF ConnectReply, Connect4Reply, MuxBindReply, UDPTunReply, BindReply, BindHandshake, UDPReply,
     ControlCollected, ClientLeaves, Answered, socksVars
<1> QED BY <1>1 DEF SocksInv, SocksTypeOK, HeldInv

\* A handler that returns closes what its deferred calls know of.
LEMMA ReturnStep ==
  ASSUME SocksInv, NEW rep \in {"none", "succeeded", "failure", "unreachable", "notAllowed"},
         SocksReturns(rep), stage \notin {"select", "done"}, UNCHANGED running, Serving
  PROVE  SocksInv'
<1>1. opened' \subseteq opened /\ opened' \cap {"target", "chain", "relay", "outer", "listener", "peer"} = {}
  BY DEF SocksReturns, Deferred, SocksInv, HeldInv
<1>2. UNCHANGED <<ask, client, method, wrapped, taken, early, learned, lostPeer>>
  BY DEF Serving
<1>3. SocksTypeOK'
  <2>1. opened' \subseteq {"target", "chain", "listener", "peer", "relay", "outer"}
    BY <1>1 DEF SocksInv, SocksTypeOK
  <2> QED BY <1>2, <2>1 DEF SocksReturns, SocksInv, SocksTypeOK
<1>4. HeldInv'
  BY <1>1, <1>2 DEF SocksReturns, SocksInv, HeldInv
<1> QED BY <1>3, <1>4 DEF SocksInv

\* A command that is served opens things that have no listener among them.
LEMMA OpenStep ==
  ASSUME SocksInv, stage \in {"serve", "outer", "handshake"},
         NEW what \in SUBSET {"target", "chain", "relay", "outer"}, opened' = opened \cup what,
         NEW now \in {"transport", "outer", "handshake", "discard", "tunnel"}, stage' = now,
         running' \in {running, {"outwards", "inwards"}},
         reply' \in {reply, "succeeded", "failure"}, Serving
  PROVE  SocksInv'
<1>1. UNCHANGED <<ask, client, method, wrapped, taken, early, learned, lostPeer>>
  BY DEF Serving
<1>2. /\ "listener" \notin opened' /\ "peer" \notin opened'
      /\ "accept" \in running' => ask.cmd = "bind"
  BY DEF SocksInv, HeldInv
<1>3. opened' \subseteq {"target", "chain", "listener", "peer", "relay", "outer"}
      /\ running' \subseteq {"accept", "pipe", "session", "outwards", "inwards"}
  BY DEF SocksInv, SocksTypeOK
<1> QED BY <1>1, <1>2, <1>3 DEF SocksInv, SocksTypeOK, HeldInv

\* The commands that neither listen nor wait.
LEMMA CommandStep ==
  /\ SocksInv
  /\ \/ HandleConnect \/ HandleForward \/ Bind4Rejected \/ TransportEnds \/ MuxAcceptFails
     \/ HandleUDPRelay \/ OpenOuter \/ ChainHandshake \/ HandleUDPTunnel \/ DiscardEnds \/ TunnelUDPEnds
  => SocksInv'
<1> SUFFICES ASSUME SocksInv,
                    \/ HandleConnect \/ HandleForward \/ Bind4Rejected \/ TransportEnds \/ MuxAcceptFails
                    \/ HandleUDPRelay \/ OpenOuter \/ ChainHandshake \/ HandleUDPTunnel
                    \/ DiscardEnds \/ TunnelUDPEnds
             PROVE  SocksInv'
  OBVIOUS
<1>1. reply \in {"none", "succeeded", "failure", "unreachable", "notAllowed"}
      /\ (stage = "serve" => opened = {})
  BY DEF SocksInv, SocksTypeOK, HeldInv
<1>2. CASE HandleConnect
  <2>1. CASE \E rep \in {"unreachable", "notAllowed", "none"} : SocksReturns(rep)
    BY <1>2, <2>1, ReturnStep DEF HandleConnect
  <2>2. CASE opened' = {"target"} /\ reply' = "succeeded" /\ stage' = "transport"
    BY <1>1, <1>2, <2>2, OpenStep DEF HandleConnect
  <2> QED BY <1>2, <2>1, <2>2 DEF HandleConnect
<1>3. CASE HandleForward
  <2>1. CASE SocksReturns("failure")
    BY <1>3, <2>1, ReturnStep DEF HandleForward
  <2>2. CASE /\ opened' = {"chain"} /\ reply' \in {reply, "succeeded", "failure"}
             /\ stage' \in {"handshake", "transport"}
    BY <1>1, <1>3, <2>2, OpenStep DEF HandleForward
  <2> QED BY <1>3, <2>1, <2>2 DEF HandleForward
<1>4. CASE Bind4Rejected
  BY <1>4, ReturnStep DEF Bind4Rejected
<1>5. CASE TransportEnds
  BY <1>1, <1>5, ReturnStep DEF TransportEnds
<1>6. CASE MuxAcceptFails
  BY <1>1, <1>6, ReturnStep DEF MuxAcceptFails
<1>7. CASE HandleUDPRelay
  <2>1. CASE \E rep \in {"failure", "notAllowed", "none"} : SocksReturns(rep)
    BY <1>7, <2>1, ReturnStep DEF HandleUDPRelay
  <2>2. CASE opened' = {"relay"} /\ reply' = "succeeded" /\ stage' = "outer"
    BY <1>1, <1>7, <2>2, OpenStep DEF HandleUDPRelay
  <2> QED BY <1>7, <2>1, <2>2 DEF HandleUDPRelay
<1>8. CASE OpenOuter
  <2>1. CASE SocksReturns(reply) /\ UNCHANGED running
    BY <1>1, <1>8, <2>1, ReturnStep DEF OpenOuter
  <2>2. CASE \E x \in {"chain", "outer"} :
               /\ opened' = opened \cup {x} /\ running' \in {running, {"outwards", "inwards"}}
               /\ stage' \in {"handshake", "discard"} /\ UNCHANGED reply
    BY <1>8, <2>2, OpenStep DEF OpenOuter
  <2> QED BY <1>8, <2>1, <2>2 DEF OpenOuter
<1>9. CASE HandleUDPTunnel
  <2>1. CASE SocksReturns("none") /\ UNCHANGED running
    BY <1>9, <2>1, ReturnStep DEF HandleUDPTunnel
  <2>2. CASE /\ opened' = {"outer"} /\ running' = {"outwards", "inwards"}
             /\ reply' = "succeeded" /\ stage' = "tunnel"
    BY <1>1, <1>9, <2>2, OpenStep DEF HandleUDPTunnel
  <2> QED BY <1>9, <2>1, <2>2 DEF HandleUDPTunnel
<1>10. CASE DiscardEnds
  BY <1>1, <1>10, ReturnStep DEF DiscardEnds
<1>11. CASE TunnelUDPEnds
  BY <1>1, <1>11, ReturnStep DEF TunnelUDPEnds
<1>12. CASE ChainHandshake
  <2>1. CASE SocksReturns(reply) /\ UNCHANGED running
    BY <1>1, <1>12, <2>1, ReturnStep DEF ChainHandshake
  <2>2. CASE /\ opened' = opened \cup {} /\ running' \in {running, {"outwards", "inwards"}}
             /\ stage' \in {"discard", "transport"} /\ reply' \in {reply, "succeeded", "failure"}
    BY <1>12, <2>2, OpenStep DEF ChainHandshake
  <2> QED BY <1>12, <2>1, <2>2 DEF ChainHandshake
<1> QED BY <1>2, <1>3, <1>4, <1>5, <1>6, <1>7, <1>8, <1>9, <1>10, <1>11, <1>12

\* The commands that listen: a listener is open only while it is waited for.
LEMMA ListenStep ==
  SocksInv /\ (BindOn \/ MuxBindOn) => SocksInv'
<1> SUFFICES ASSUME SocksInv, BindOn \/ MuxBindOn PROVE SocksInv'
  OBVIOUS
<1>1. CASE \E rep \in {"none", "failure"} : SocksReturns(rep) /\ UNCHANGED running
  BY <1>1, ReturnStep DEF BindOn, MuxBindOn
<1>2. CASE /\ opened' = {"listener"} /\ reply' = "succeeded" /\ Serving
           /\ \/ ask.cmd = "bind" /\ stage' = "select" /\ running' = {"accept", "pipe"}
              \/ ask.cmd = "mbind" /\ stage' = "mux" /\ running' = {"session"}
           /\ taken = 0
  BY <1>2 DEF Serving, SocksInv, SocksTypeOK, HeldInv
<1>3. taken = 0
  BY DEF BindOn, MuxBindOn, SocksInv, HeldInv
<1> QED BY <1>1, <1>2, <1>3 DEF BindOn, MuxBindOn

\* The goroutines of a bind and of its select.
LEMMA BindStep ==
  /\ SocksInv
  /\ \/ BindAccept \/ AcceptEnds \/ WritesEarly \/ PipeEnds
     \/ SelectAccept \/ SelectNoPeer \/ SelectPipe
  => SocksInv'
<1> USE SocksAssumption DEF SocksInv, SocksTypeOK, HeldInv
<1>1. ASSUME SocksInv, BindAccept PROVE SocksInv'
  <2>1. stage = "select" /\ ask.cmd = "bind" /\ taken = 0
    BY <1>1 DEF BindAccept
  <2>2. CASE opened' = (opened \ {"listener"}) \cup {"peer"} /\ taken' = 1
    BY <1>1, <2>1, <2>2 DEF BindAccept
  <2>3. CASE opened' = opened \ {"listener"} /\ UNCHANGED taken
    BY <1>1, <2>1, <2>3 DEF BindAccept
  <2> QED BY <1>1, <2>2, <2>3 DEF BindAccept
<1>2. SocksInv /\ AcceptEnds => SocksInv'
  BY DEF AcceptEnds
<1>3. SocksInv /\ WritesEarly => SocksInv'
  BY DEF WritesEarly
<1>4. SocksInv /\ PipeEnds => SocksInv'
  BY DEF PipeEnds
<1>5. SocksInv /\ SelectAccept => SocksInv'
  BY DEF SelectAccept
<1>6. ASSUME SocksInv, SelectPipe PROVE SocksInv'
  <2>1. lostPeer' \in BOOLEAN /\ ("peer" \in opened' => lostPeer')
    <3>1. lostPeer' = ("peer" \in opened) /\ opened' = opened \ {"listener"}
      BY <1>6 DEF SelectPipe
    <3>2. CASE "peer" \in opened
      <4>1. lostPeer' = TRUE
        BY Zenon, <3>1, <3>2
      <4> QED BY <4>1
    <3>3. CASE "peer" \notin opened
      <4>1. ("peer" \in opened) = FALSE
        BY <3>3
      <4>2. lostPeer' = FALSE
        BY Zenon, <3>1, <4>1
      <4> QED BY <4>2, <3>1, <3>3
    <3> QED BY <3>2, <3>3
  <2>2. /\ UNCHANGED <<ask, client, method, wrapped, reply, running, taken, early, learned>>
        /\ stage = "select" /\ stage' = "done" /\ opened' = opened \ {"listener"}
    BY <1>6 DEF SelectPipe
  <2> QED BY <1>6, <2>1, <2>2
<1>7. SocksInv /\ SelectNoPeer => SocksInv'
  BY DEF SelectNoPeer
<1> QED BY <1>1, <1>2, <1>3, <1>4, <1>5, <1>6, <1>7

\* The streams of a multiplexed bind, and the directions of a UDP relay.
LEMMA RelayStep ==
  /\ SocksInv
  /\ \/ MuxPeer \/ StreamEnds \/ SessionEnds
     \/ \E b \in BOOLEAN : RelayOut(b)
     \/ \E d \in {"outwards", "inwards"} : DirectionEnds(d)
  => SocksInv'
<1> USE SocksAssumption DEF SocksInv, SocksTypeOK, HeldInv
<1>1. SocksInv /\ MuxPeer => SocksInv'
  BY DEF MuxPeer
<1>2. SocksInv /\ StreamEnds => SocksInv'
  BY DEF StreamEnds
<1>3. SocksInv /\ SessionEnds => SocksInv'
  BY DEF SessionEnds
<1>4. ASSUME NEW b \in BOOLEAN, SocksInv, RelayOut(b) PROVE SocksInv'
  BY <1>4 DEF RelayOut
<1>5. ASSUME NEW d \in {"outwards", "inwards"}, SocksInv, DirectionEnds(d) PROVE SocksInv'
  BY <1>5 DEF DirectionEnds
<1> QED BY <1>1, <1>2, <1>3, <1>4, <1>5

\* The invariant is inductive.
LEMMA SocksStep == SocksInv /\ [SocksNext]_socksVars => SocksInv'
BY NegotiationStep, ClientStep, CommandStep, ListenStep, BindStep, RelayStep DEF SocksNext

\* The invariant gives the types, and that who has returned has closed.
LEMMA SocksHolds == SocksInv => SocksTypeOK /\ ReturnedIsClosed
BY DEF SocksInv, SocksTypeOK, HeldInv, ReturnedIsClosed

--------------------------------------------------------------------------------
(* The resolver. *)

\* A query with its connection and what became of it.
QueryPlaces == {"new", "queued", "load", "exchange", "answer", "done"}
ServePlaces == {"none", "waits", "full", "written", "eof"}
Results == {"none", "nothing", "ips", "empty", "error", "garbled"}
QueryType ==
  [pc : QueryPlaces, at : {1, 2}, result : Results, answer : Results,
   conn : {"open", "closed"}, serve : ServePlaces]

\* What is cached.
CacheType == [what : {"nothing", "ips", "empty", "garbled"}, expired : BOOLEAN]

\* The servers' answers, the cache and the queries, of which ResolverTypeOK says
\* less; and a file that was opened has a version.
QueryInv ==
  /\ rsetup \in [behaves : [1 .. 2 -> Outcomes], ttl : {"none", "set", "negative"}, count : {0, 2},
                 kind : {"dns", "lookup"}]
  /\ cached \in CacheType
  /\ query \in [Queries -> QueryType]
  /\ poll = "opened" => fileOpen # 0

\* The list in use is that of the version the poller saw last, unless it is the
\* first one still, or the poller was stopped between a look and its reload; it
\* is unusable only until Init has had its turn (resolver.go:516).
LastSeenInUse ==
  /\ servers.version \in {1, lastMod} \/ dnsStopped
  /\ servers.ready \/ poll = "init"

\* What every step keeps.
ResolverInv == ResolverTypeOK /\ QueryInv /\ LastSeenInUse

\* A query that was not asked yet is one, and no entry is an entry.
LEMMA NewQueryType == NewQuery \in QueryType /\ NoEntry \in CacheType
<1>1. NewQuery \in QueryType
  <2>1. "new" \in QueryPlaces /\ "none" \in Results /\ "none" \in ServePlaces
    BY DEF QueryPlaces, Results, ServePlaces
  <2> QED BY <2>1 DEF NewQuery, QueryType
<1>2. NoEntry \in CacheType
  BY DEF NoEntry, CacheType
<1> QED BY <1>1, <1>2

\* What a query may become in the middle of its servers.
LEMMA QueryUpdates ==
  ASSUME NEW x \in QueryType, NEW r \in Results
  PROVE  /\ [x EXCEPT !.at = 2] \in QueryType
         /\ [x EXCEPT !.pc = "answer", !.result = r] \in QueryType
         /\ [[x EXCEPT !.pc = "answer", !.result = r] EXCEPT !.result = "error"] \in QueryType
         /\ [x EXCEPT !.pc = "answer", !.result = "empty"] \in QueryType
         /\ [x EXCEPT !.pc = "exchange", !.at = 1] \in QueryType
<1>1. {"answer", "exchange"} \subseteq QueryPlaces /\ {"error", "empty"} \subseteq Results
  BY DEF QueryPlaces, Results
<1>2. [x EXCEPT !.at = 2] \in QueryType
  BY <1>1 DEF QueryType
<1>3. \A s \in Results : [x EXCEPT !.pc = "answer", !.result = s] \in QueryType
  BY <1>1 DEF QueryType
<1>4. \A y \in QueryType : [y EXCEPT !.result = "error"] \in QueryType
  BY <1>1 DEF QueryType
<1>5. [x EXCEPT !.pc = "exchange", !.at = 1] \in QueryType
  BY <1>1 DEF QueryType
<1> QED BY <1>1, <1>2, <1>3, <1>4, <1>5

\* The initial state satisfies the invariant.
LEMMA ResolverInitial == ResolverInit => ResolverInv
<1> SUFFICES ASSUME ResolverInit PROVE ResolverInv
  OBVIOUS
<1>1. QueryInv
  BY NewQueryType DEF ResolverInit, QueryInv
<1>2. /\ file \in [version : 1 .. MaxVersions, there : BOOLEAN, reload : BOOLEAN]
      /\ servers \in [version : 1 .. MaxVersions, ready : BOOLEAN]
      /\ lastMod \in 0 .. MaxVersions /\ fileOpen \in 0 .. MaxVersions
  BY ResolverAssumption DEF ResolverInit
<1>3. cached.what \in {"nothing", "ips", "empty", "garbled"}
  BY <1>1 DEF QueryInv, CacheType
<1>4. ResolverTypeOK
  BY <1>1, <1>2, <1>3 DEF ResolverInit, ResolverTypeOK, QueryInv, NewQuery
<1>5. LastSeenInUse
  BY DEF ResolverInit, LastSeenInUse
<1> QED BY <1>1, <1>4, <1>5 DEF ResolverInv

\* The steps of the poller, and of whoever edits the file.
LEMMA PollerStep ==
  /\ ResolverInv
  /\ Edit \/ RemoveFile \/ StopReload \/ OpenFile \/ Reload \/ InitServers \/ WaitPeriod
  => ResolverInv'
<1> SUFFICES ASSUME ResolverInv,
                    Edit \/ RemoveFile \/ StopReload \/ OpenFile \/ Reload \/ InitServers \/ WaitPeriod
             PROVE  ResolverInv'
  OBVIOUS
<1>1. UNCHANGED <<rsetup, cached, query, crashed>>
  BY DEF Edit, RemoveFile, StopReload, OpenFile, Reload, InitServers, WaitPeriod, reloadVars
<1>2. /\ file' \in [version : 1 .. MaxVersions, there : BOOLEAN, reload : BOOLEAN]
      /\ servers' \in [version : 1 .. MaxVersions, ready : BOOLEAN]
      /\ reloads' \in BOOLEAN /\ dnsStopped' \in BOOLEAN
      /\ poll' \in {"period", "opened", "init", "wait", "ended"}
      /\ lastMod' \in 0 .. MaxVersions /\ fileOpen' \in 0 .. MaxVersions
      /\ poll' = "opened" => fileOpen' # 0
      /\ LastSeenInUse'
  <2> USE ResolverAssumption DEF ResolverInv, ResolverTypeOK, QueryInv, LastSeenInUse
  <2>1. CASE Edit
    BY <2>1 DEF Edit
  <2>2. CASE RemoveFile
    BY <2>2 DEF RemoveFile
  <2>3. CASE StopReload
    BY <2>3 DEF StopReload
  <2>4. CASE OpenFile
    BY <2>4 DEF OpenFile
  <2>5. CASE Reload
    <3>1. fileOpen \in 1 .. MaxVersions
      BY <2>5 DEF Reload
    <3>2. CASE lastMod # 0 /\ lastMod # fileOpen /\ ~dnsStopped
      <4>1. /\ servers' = [version |-> fileOpen, ready |-> FALSE] /\ poll' = "init" /\ lastMod' = fileOpen
            /\ UNCHANGED <<file, fileOpen, dnsStopped>>
        BY <2>5, <3>2 DEF Reload
      <4>2. reloads' \in BOOLEAN
        BY <2>5, <3>2 DEF Reload
      <4> QED BY <3>1, <4>1, <4>2
    <3>3. CASE ~(lastMod # 0 /\ lastMod # fileOpen /\ ~dnsStopped)
      <4>1. /\ UNCHANGED <<servers, reloads, file, fileOpen, dnsStopped>> /\ poll' = "wait"
            /\ lastMod' = fileOpen /\ poll = "opened"
        BY <2>5, <3>3 DEF Reload
      <4> QED BY <3>1, <3>3, <4>1
    <3> QED BY <3>2, <3>3
  <2>6. CASE InitServers
    BY <2>6 DEF InitServers
  <2>7. CASE WaitPeriod
    BY <2>7 DEF WaitPeriod
  <2> QED BY <2>1, <2>2, <2>3, <2>4, <2>5, <2>6, <2>7
<1> QED BY <1>1, <1>2 DEF ResolverInv, ResolverTypeOK, QueryInv

\* A step of a query keeps the invariant if it leaves the query and the cache a
\* query and a cache.
LEMMA OneQuery ==
  ASSUME ResolverInv, NEW q \in Queries, NEW r \in QueryType, With(q, r) \/ UNCHANGED query,
         cached' \in CacheType,
         crashed' \in BOOLEAN, UNCHANGED queryVars
  PROVE  ResolverInv'
<1>1. UNCHANGED <<rsetup, file, servers, reloads, poll, lastMod, fileOpen, dnsStopped>>
  BY DEF queryVars
<1>2. query' \in [Queries -> QueryType]
  BY DEF With, ResolverInv, QueryInv
<1>3. QueryInv' /\ LastSeenInUse'
  BY <1>1, <1>2 DEF ResolverInv, QueryInv, LastSeenInUse
<1>4. \A p \in Queries : query'[p].pc \in {"new", "queued", "load", "exchange", "answer", "done"}
                         /\ query'[p].serve \in {"none", "waits", "full", "written", "eof"}
  BY <1>2 DEF QueryType, QueryPlaces, ServePlaces
<1>5. cached'.what \in {"nothing", "ips", "empty", "garbled"}
  BY DEF CacheType
<1>6. ResolverTypeOK'
  BY <1>1, <1>4, <1>5 DEF ResolverInv, ResolverTypeOK
<1> QED BY <1>3, <1>6 DEF ResolverInv

\* The steps of a query.
LEMMA QueryStep ==
  ASSUME ResolverInv, NEW q \in Queries,
         \/ Ask(q) \/ TakeQuery(q) \/ LoadCache(q) \/ Exchange(q) \/ HandlerAnswers(q) \/ ServeSelects(q)
  PROVE  ResolverInv'
<1>1. query[q] \in QueryType /\ crashed \in BOOLEAN
      /\ cached \in CacheType
      /\ rsetup.behaves \in [1 .. 2 -> Outcomes]
  BY DEF ResolverInv, ResolverTypeOK, QueryInv
<1>2. UNCHANGED queryVars
  BY DEF Ask, TakeQuery, LoadCache, Exchange, HandlerAnswers, ServeSelects
<1>3. PICK r \in QueryType : With(q, r) \/ UNCHANGED query
  <2> USE <1>1
  <2>1. CASE Ask(q)
    BY <2>1 DEF Ask, QueryType, QueryPlaces, ServePlaces, Results
  <2>2. CASE TakeQuery(q)
    BY <2>2 DEF TakeQuery, QueryType, QueryPlaces, ServePlaces, Results
  <2>3. CASE LoadCache(q)
    <3>1. cached.what \in Results
      BY DEF CacheType, Results
    <3> QED BY <2>3, <3>1, QueryUpdates DEF LoadCache
  <2>4. CASE Exchange(q)
    <3>1. rsetup.behaves[query[q].at] \in Results
      BY DEF Outcomes, Results, QueryType
    <3> QED BY <2>4, <3>1, QueryUpdates DEF Exchange
  <2>5. CASE HandlerAnswers(q)
    BY <2>5 DEF HandlerAnswers, QueryType, QueryPlaces, ServePlaces, Results
  <2>6. CASE ServeSelects(q)
    BY <2>6 DEF ServeSelects, QueryType, QueryPlaces, ServePlaces, Results
  <2> QED BY <2>1, <2>2, <2>3, <2>4, <2>5, <2>6
<1>4. cached' \in CacheType
  <2>1. CASE Exchange(q)
    <3>1. rsetup.behaves[query[q].at] \in Outcomes
      BY <1>1 DEF QueryType
    <3>2. ASSUME NEW what \in {"ips", "empty", "garbled"} PROVE Store(what) \in CacheType
      BY <1>1 DEF Store, CacheType
    <3> QED BY <1>1, <2>1, <3>1, <3>2 DEF Exchange, Outcomes
  <2>2. CASE ~Exchange(q)
    BY <1>1, <2>2, NewQueryType DEF Ask, TakeQuery, LoadCache, HandlerAnswers, ServeSelects
  <2> QED BY <2>1, <2>2
<1>5. crashed' \in BOOLEAN
  BY <1>1 DEF Ask, TakeQuery, LoadCache, Exchange, HandlerAnswers, ServeSelects
<1> QED BY <1>2, <1>3, <1>4, <1>5, OneQuery

\* The invariant is inductive.
LEMMA ResolverStep == ResolverInv /\ [ResolverNext]_resolverVars => ResolverInv'
<1> SUFFICES ASSUME ResolverInv, [ResolverNext]_resolverVars PROVE ResolverInv'
  OBVIOUS
<1>1. CASE UNCHANGED resolverVars
  BY <1>1 DEF resolverVars, ResolverInv, ResolverTypeOK, QueryInv, LastSeenInUse
<1>2. CASE EntryExpires
  <2>1. UNCHANGED <<rsetup, file, servers, reloads, poll, lastMod, fileOpen, dnsStopped, query, crashed>>
    BY <1>2 DEF EntryExpires, queryVars
  <2>2. cached' \in CacheType
    BY <1>2 DEF EntryExpires, ResolverInv, QueryInv, CacheType
  <2>3. cached'.what \in {"nothing", "ips", "empty", "garbled"}
    BY <2>2 DEF CacheType
  <2> QED BY <2>1, <2>2, <2>3 DEF ResolverInv, ResolverTypeOK, QueryInv, LastSeenInUse
<1> QED BY <1>1, <1>2, PollerStep, QueryStep DEF ResolverNext

--------------------------------------------------------------------------------
(* Devices. *)

\* One for a goroutine that ended.
One(x) == IF x = "ended" THEN 1 ELSE 0

\* The types of the goroutines' ends and of the addresses, for which TunTypeOK
\* gives bounds only; errors are those of goroutines that ended; the rounds
\* begun are those whose goroutines were started.
RoundInv ==
  /\ packets \in [Rounds -> {"none", "open", "broken"}]
  /\ devReader \in [Rounds -> {"none", "reads", "ended"}]
  /\ netReader \in [Rounds -> {"none", "reads", "ended"}]
  /\ failed \in [Rounds -> Nat] /\ routes \in [Stations -> Nat] /\ movedTo \in [Stations -> Nat]
  /\ \A r \in Rounds :
       /\ failed[r] = One(devReader[r]) + One(netReader[r])
       /\ r > round <=> devReader[r] = "none"
       /\ r > round <=> netReader[r] = "none"
       /\ r > round <=> packets[r] = "none"
  /\ \A s \in Stations : routes[s] <= movedTo[s]
  /\ loopAt = "wait" => round > 0

\* The types of what has no rounds.
LoopTypes ==
  /\ round \in 0 .. MaxRounds /\ loopAt \in {"dial", "wait", "check", "exit"}
  /\ device \in {"up", "closed"} /\ exitAsked \in BOOLEAN

\* What every step keeps.
TunInv == LoopTypes /\ RoundInv

\* The loop waits only for a round whose error is there or whose goroutines
\* both go on (tuntap.go:419, 768).
RoundsAreWatched ==
  loopAt = "wait" => failed[round] > 0 \/ (devReader[round] = "reads" /\ netReader[round] = "reads")

\* The initial state satisfies the invariant.
LEMMA TunInitial == TunInit => TunInv
<1> SUFFICES ASSUME TunInit PROVE TunInv
  OBVIOUS
<1>1. LoopTypes
  <2>1. 0 \in 0 .. MaxRounds
    BY TunAssumption
  <2> QED BY <2>1 DEF TunInit, LoopTypes
<1>2. \A r \in Rounds : r > round
  BY DEF TunInit, Rounds
<1>3. RoundInv
  BY <1>2 DEF TunInit, RoundInv, One, NoPeer
<1> QED BY <1>1, <1>3 DEF TunInv

\* The steps of the loop.
LEMMA HandleStep ==
  TunInv /\ (OpenConn \/ OpenFails \/ RoundEnds \/ ExitOrRetry \/ CloseDevice \/ UNCHANGED tunVars) => TunInv'
<1> SUFFICES ASSUME TunInv,
                    OpenConn \/ OpenFails \/ RoundEnds \/ ExitOrRetry \/ CloseDevice \/ UNCHANGED tunVars
             PROVE  TunInv'
  OBVIOUS
<1>1. CASE OpenConn
  <2>1. round' = round + 1 /\ round' \in Rounds /\ round \in Nat
    BY <1>1, TunAssumption DEF OpenConn, TunInv, LoopTypes, Rounds
  <2>2. LoopTypes'
    BY <1>1, <2>1 DEF OpenConn, TunInv, LoopTypes, Rounds
  <2>3. \A r \in Rounds : r > round' <=> r > round /\ r # round'
    BY <2>1 DEF Rounds
  <2>4. RoundInv'
    BY <1>1, <2>1, <2>3 DEF OpenConn, TunInv, RoundInv, One
  <2> QED BY <2>2, <2>4 DEF TunInv
<1>2. CASE OpenFails \/ RoundEnds \/ ExitOrRetry \/ CloseDevice
  <2>1. UNCHANGED <<round, packets, devReader, netReader, failed, routes, movedTo>>
        /\ (loopAt' = loopAt \/ loopAt' # "wait")
    BY <1>2 DEF OpenFails, RoundEnds, ExitOrRetry, CloseDevice
  <2>2. LoopTypes'
    BY <1>2 DEF OpenFails, RoundEnds, ExitOrRetry, CloseDevice, TunInv, LoopTypes
  <2> QED BY <2>1, <2>2 DEF TunInv, RoundInv
<1>3. CASE UNCHANGED tunVars
  BY <1>3 DEF tunVars, TunInv, LoopTypes, RoundInv
<1> QED BY <1>1, <1>2, <1>3

\* The steps of the goroutines, and what comes from outside.
LEMMA PacketStep ==
  /\ TunInv
  /\ \/ \E r \in Rounds : Break(r) \/ ConnFails(r) \/ DeviceFails(r)
     \/ \E r \in Rounds, s \in Stations : FromDevice(r, s) \/ FromPeer(r, s) \/ FromPeerFails(r, s)
     \/ \E s \in Stations : Move(s)
  => TunInv'
<1>1. ASSUME TunInv, NEW r \in Rounds, Break(r) PROVE TunInv'
  BY <1>1 DEF Break, TunInv, LoopTypes, RoundInv
<1>2. ASSUME TunInv, NEW r \in Rounds, ConnFails(r) \/ \E s \in Stations : FromPeerFails(r, s) PROVE TunInv'
  <2>1. /\ netReader[r] = "reads" /\ netReader' = [netReader EXCEPT ![r] = "ended"]
        /\ failed' = [failed EXCEPT ![r] = @ + 1]
        /\ UNCHANGED <<device, round, loopAt, packets, devReader, movedTo>>
    BY <1>2 DEF ConnFails, FromPeerFails, Fails
  <2>2. exitAsked' \in BOOLEAN
    <3>1. exitAsked' \in {exitAsked, exitAsked \/ ~Client} /\ exitAsked \in BOOLEAN
      BY <1>2 DEF ConnFails, FromPeerFails, TunInv, LoopTypes
    <3> QED BY Zenon, <3>1
  <2>3. One("ended") = 1 /\ One("reads") = 0 /\ One(devReader[r]) \in {0, 1}
    BY DEF One
  <2>4. routes' = routes \/ \E s \in Stations : routes' = [routes EXCEPT ![s] = movedTo[s]]
    BY <1>2 DEF ConnFails, FromPeerFails, Learn
  <2>5. routes' \in [Stations -> Nat] /\ \A s \in Stations : routes'[s] <= movedTo[s]
    BY <1>2, <2>4 DEF TunInv, RoundInv
  <2>6. LoopTypes'
    BY <1>2, <2>1, <2>2 DEF TunInv, LoopTypes
  <2>7. RoundInv'
    BY <1>2, <2>1, <2>3, <2>5 DEF TunInv, RoundInv
  <2> QED BY <2>6, <2>7 DEF TunInv
<1>3. ASSUME TunInv, NEW r \in Rounds, DeviceFails(r) \/ \E s \in Stations : FromDevice(r, s) PROVE TunInv'
  <2>1. /\ devReader[r] = "reads" /\ devReader' = [devReader EXCEPT ![r] = "ended"]
        /\ failed' = [failed EXCEPT ![r] = @ + 1]
        /\ UNCHANGED <<device, round, loopAt, packets, netReader, routes, movedTo>>
        /\ exitAsked' \in {exitAsked, TRUE}
    BY <1>3 DEF DeviceFails, FromDevice, Fails
  <2>2. One("ended") = 1 /\ One("reads") = 0
    BY DEF One
  <2>3. One(netReader[r]) \in {0, 1}
    BY DEF One
  <2>4. LoopTypes'
    BY <1>3, <2>1 DEF TunInv, LoopTypes
  <2>5. RoundInv'
    BY <1>3, <2>1, <2>2, <2>3 DEF TunInv, RoundInv
  <2> QED BY <2>4, <2>5 DEF TunInv
<1>4. ASSUME TunInv, NEW r \in Rounds, NEW s \in Stations, FromPeer(r, s) PROVE TunInv'
  BY <1>4 DEF FromPeer, Learn, TunInv, LoopTypes, RoundInv
<1>5. ASSUME TunInv, NEW s \in Stations, Move(s) PROVE TunInv'
  BY <1>5 DEF Move, TunInv, LoopTypes, RoundInv
<1> QED BY <1>1, <1>2, <1>3, <1>4, <1>5

\* The invariant is inductive.
LEMMA TunStep == TunInv /\ [TunNext]_tunVars => TunInv'
BY HandleStep, PacketStep DEF TunNext

\* The invariant gives the types, and that the loop waits for somebody.
LEMMA TunHolds == TunInv => TunTypeOK /\ RoundsAreWatched
<1> SUFFICES ASSUME TunInv PROVE TunTypeOK /\ RoundsAreWatched
  OBVIOUS
<1>1. ASSUME NEW r \in Rounds
      PROVE  /\ packets[r] \in {"none", "open", "broken"} /\ failed[r] \in 0 .. 2
             /\ {devReader[r], netReader[r]} \subseteq {"none", "reads", "ended"}
             /\ r > round => packets[r] = "none"
  BY DEF TunInv, RoundInv, One
<1>2. \A s \in Stations : routes[s] \in 0 .. movedTo[s]
  BY DEF TunInv, RoundInv
<1>3. TunTypeOK
  BY <1>1, <1>2 DEF TunTypeOK, TunInv, LoopTypes
<1>4. ASSUME loopAt = "wait" PROVE round \in Rounds
  BY <1>4, TunAssumption DEF TunInv, LoopTypes, RoundInv, Rounds
<1>5. RoundsAreWatched
  BY <1>4 DEF RoundsAreWatched, TunInv, LoopTypes, RoundInv, One
<1> QED BY <1>3, <1>5

--------------------------------------------------------------------------------
(* The composition: a behaviour of MCServices is one of every part.           *)

\* The initial states and the steps of the composition are those of its parts.
LEMMA ServiceSteps ==
  /\ Init => TtyInit /\ TunnelInit /\ SocksInit /\ ResolverInit /\ TunInit
  /\ [Next]_serviceVars =>
       /\ [TtyNext]_ttyVars /\ [TunnelNext]_tunnelVars /\ [SocksNext]_socksVars
       /\ [ResolverNext]_resolverVars /\ [TunNext]_tunVars
<1>1. Init => TtyInit /\ TunnelInit /\ SocksInit /\ ResolverInit /\ TunInit
  BY DEF Init
<1>2. ASSUME UNCHANGED serviceVars
      PROVE  UNCHANGED <<ttyVars, tunnelVars, socksVars, resolverVars, tunVars>>
  BY <1>2 DEF serviceVars
<1>3. ASSUME Next
      PROVE  /\ [TtyNext]_ttyVars /\ [TunnelNext]_tunnelVars /\ [SocksNext]_socksVars
             /\ [ResolverNext]_resolverVars /\ [TunNext]_tunVars
  BY <1>3 DEF Next, Others, Still
<1> QED BY <1>1, <1>2, <1>3

\* In every behaviour of MCServices each part keeps its invariant.
LEMMA ServicesInductive ==
  FairSpec => [](TerminalInv /\ ReverseInv /\ SocksInv /\ ResolverInv /\ TunInv)
<1>1. Init => TerminalInv /\ ReverseInv /\ SocksInv /\ ResolverInv /\ TunInv
  BY ServiceSteps, TerminalInit, ReverseInit, SocksInitial, ResolverInitial, TunInitial
<1>2. /\ TerminalInv /\ ReverseInv /\ SocksInv /\ ResolverInv /\ TunInv /\ [Next]_serviceVars
      => (TerminalInv /\ ReverseInv /\ SocksInv /\ ResolverInv /\ TunInv)'
  BY ServiceSteps, TtyPlainStep, CountStep, ReaderStep, ShellStep, ReverseStep, SocksStep, ResolverStep, TunStep
     DEF TerminalInv
<1> QED BY <1>1, <1>2, PTL DEF FairSpec

\* Every service keeps its types: the counter of a terminal server stays within
\* the number of its browsers, queues and channels within their room.
THEOREM ServicesTypeCorrect == FairSpec => []ServicesTypeOK
<1>1. TerminalInv /\ ReverseInv /\ SocksInv /\ ResolverInv /\ TunInv => ServicesTypeOK
  BY TerminalHolds, ReverseHolds, SocksHolds, TunHolds DEF ResolverInv, ServicesTypeOK
<1> QED BY <1>1, ServicesInductive, PTL

\* A terminal's goroutines never find their channel full, and Run of a terminal
\* server returns only when everybody counted has left (webtty.go:67,
\* handler_atomic.go:64).
THEOREM TerminalsRelease == FairSpec => []ReadersNeverBlock /\ RunWaitsForAll
<1>1. FairSpec => []ReadersNeverBlock
  BY ServicesInductive, TerminalHolds, PTL
<1>2. TerminalInv /\ [Next]_serviceVars =>
        [runs # runs' /\ runs' = "returned"
          => \A b \in Browsers : handler[b] \notin InsideAt /\ shell[b] \in {"none", "dead"}]_ttyVars
  BY ServiceSteps, RunReturnsEmpty
<1>3. FairSpec => RunWaitsForAll
  BY <1>2, ServicesInductive, PTL DEF FairSpec, RunWaitsForAll
<1> QED BY <1>1, <1>3

\* The agent's loop never waits for a connection that cannot come, nor a
\* device's loop for goroutines that have gone (forward.go:446, tuntap.go:419).
THEOREM LoopsAreAnswered == FairSpec => [](NeverWaitsInVain /\ RoundsAreWatched)
BY ServicesInductive, ReverseHolds, TunHolds, PTL

\* A SOCKS handler that has returned left nothing open but the peer of a bind
\* that came as its client went (socks.go:1105).
THEOREM SocksCloses == FairSpec => []ReturnedIsClosed
BY ServicesInductive, SocksHolds, PTL

\* The servers in use are those of the file as the poller last saw it, but for
\* the first list and a poller that was stopped (resolver.go:516).
THEOREM ReloadsAreUsed == FairSpec => []LastSeenInUse
<1>1. ResolverInv => LastSeenInUse
  BY DEF ResolverInv
<1> QED BY <1>1, ServicesInductive, PTL

================================================================================
