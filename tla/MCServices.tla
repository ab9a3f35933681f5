-------------------------------- MODULE MCServices --------------------------------
(***************************************************************************)
(* Small instances of what must come to its end or come back: gotty's web  *)
(* terminals, and of gost the reverse tunnels, the SOCKS server, the       *)
(* resolver and the devices.  They share no variable, so a behaviour runs  *)
(* one of them and the others stand still in one of their initial states.  *)
(***************************************************************************)
EXTENDS GottyTerminal, GostReverseTunnel, GostSocks, GostResolver, GostTun

VARIABLE part   \* the service this behaviour runs

Parts == {"terminal", "rtunnel", "socks", "resolver", "tun"}

serviceVars == <<ttyVars, tunnelVars, socksVars, resolverVars, tunVars, part>>

\* Room for one terminal, or one terminal and then the end, with a time-out.
Limited == [once |-> FALSE, max |-> 1, timeout |-> FALSE]
OnlyOnce == [once |-> TRUE, max |-> 0, timeout |-> TRUE]

\* A first server that fails and a second whose answer is worth keeping, a
\* first that knows no address, and an answer that cannot be parsed; asked by
\* the process itself or for a client; later versions of the file name two
\* servers or none.
ResolverCases ==
  {[behaves |-> <<"error", "ips">>, ttl |-> "none", count |-> 0, kind |-> "lookup"],
   [behaves |-> <<"empty", "error">>, ttl |-> "negative", count |-> 0, kind |-> "dns"],
   [behaves |-> <<"error", "garbled">>, ttl |-> "set", count |-> 2, kind |-> "dns"]}

\* One initial state for a part that does not run.
Idle(p, initial) == part # p => initial

Init ==
  /\ part \in Parts
  /\ TtyInit /\ ttyOptions \in {Limited, OnlyOnce} /\ Idle("terminal", ttyOptions = Limited)
  /\ TunnelInit /\ Idle("rtunnel", tkind = "ssh")
  /\ SocksInit /\ Idle("socks", ask = [cmd |-> "connect", chain |-> FALSE, auth |-> FALSE,
                                       tls |-> FALSE, good |-> TRUE, allowed |-> TRUE])
  /\ ResolverInit /\ rsetup \in ResolverCases /\ Idle("resolver", rsetup.ttl = "set")
  /\ TunInit /\ Idle("tun", tunSetup = [device |-> "tap", side |-> "server", chain |-> FALSE])

Still(p, step) == IF part = p THEN TRUE ELSE step
Others ==
  /\ Still("terminal", UNCHANGED ttyVars) /\ Still("rtunnel", UNCHANGED tunnelVars)
  /\ Still("socks", UNCHANGED socksVars) /\ Still("resolver", UNCHANGED resolverVars)
  /\ Still("tun", UNCHANGED tunVars)
  /\ UNCHANGED part

Next ==
  \/ part = "terminal" /\ TtyNext /\ Others
  \/ part = "rtunnel" /\ TunnelNext /\ Others
  \/ part = "socks" /\ SocksNext /\ Others
  \/ part = "resolver" /\ ResolverNext /\ Others
  \/ part = "tun" /\ TunNext /\ Others

--------------------------------------------------------------------------------
(* Fairness: goroutines run.  Strong fairness is assumed of dialling and   *)
(* of asking a new session only, which the network makes fail now and then *)
(* but not for ever.                                                       *)

\* What lets a goroutine that reads a closed end go on.
EndClosed(b, e) == MasterClosed(b) \/ (e = "slave" /\ SlaveClosedFor(b))

\* A process that was asked to end does so or is killed after the close
\* time-out (local_command.go:87).  Nothing makes a browser send its first
\* message, or an idle process end.
TerminalFairness ==
  /\ WF_ttyVars(part = "terminal" /\ (ServeEnds \/ RunCancelled \/ RunReturns))
  /\ WF_ttyVars(part = "terminal" /\ IdleCancels)
  /\ \A b \in Browsers :
       /\ WF_ttyVars(/\ part = "terminal" /\ handler[b] # "none"
                     /\ handler[b] = "reads" => browser[b] = "gone"
                     /\ HandlerStep(b))
       /\ WF_ttyVars(part = "terminal" /\ shell[b] = "asked" /\ ShellEnds(b))
       /\ \A e \in Ends : WF_ttyVars(/\ part = "terminal"
                                   /\ \/ EndClosed(b, e) /\ ReadEnds(b, e)
                                      \/ Report(b, e))

\* The two dials, of which a behaviour makes one.
Dials ==
  /\ \/ part = "rtunnel" /\ (AcceptSsh \/ MuxAccept \/ WaitConnectSocks5)
     \/ part = "tun" /\ OpenConn
  /\ Others

ReverseTunnelFairness ==
  /\ WF_tunnelVars(part = "rtunnel" /\ ConnectContext)
  /\ WF_tunnelVars(part = "rtunnel" /\ Deliver)
  /\ WF_tunnelVars(part = "rtunnel" /\ DeliverFails)
  /\ WF_tunnelVars(part = "rtunnel" /\ Sleep)
  /\ \A s \in Tunnels : /\ WF_tunnelVars(part = "rtunnel" /\ ServerAnswers(s))
                        /\ WF_tunnelVars(part = "rtunnel" /\ AgentNotices(s))
                        /\ WF_tunnelVars(part = "rtunnel" /\ HandleForwardEnds(s))

\* A client that is there may do nothing for ever: only one that left obliges.
SocksFairness ==
  /\ WF_socksVars(part = "socks" /\ client = "gone" /\ ServerStep)
  /\ WF_socksVars(part = "socks" /\ client = "gone" /\ StreamEnds)

ResolverFairness ==
  WF_resolverVars(part = "resolver" /\ ~crashed /\ (OpenFile \/ Reload \/ InitServers \/ WaitPeriod))

TunFairness ==
  /\ WF_tunVars(part = "tun" /\ (RoundEnds \/ ExitOrRetry))
  /\ \A r \in Rounds : WF_tunVars(part = "tun" /\ ConnFails(r))

FairSpec ==
  /\ Init /\ [][Next]_serviceVars /\ SF_serviceVars(Dials)
  /\ TerminalFairness /\ ReverseTunnelFairness /\ SocksFairness /\ ResolverFairness /\ TunFairness

--------------------------------------------------------------------------------
\* Every service keeps its types.
ServicesTypeOK ==
  /\ TtyTypeOK /\ TunnelTypeOK /\ SocksTypeOK /\ ResolverTypeOK /\ TunTypeOK

\* A browser that opened its websocket and says nothing: this read does not
\* watch the context (handlers.go:91), and Run waits for it.
Silent == \E b \in Browsers : handler[b] = "reads" /\ browser[b] = "open"

\* A cancelled terminal server comes to its end: every handler runs its
\* deferred calls, every process dies, both goroutines of every terminal get
\* rid of their errors though only one is read, and the counter Run waits for
\* reaches zero (webtty.go:67, handler_atomic.go:64), unless a browser stays silent.
TerminalsEnd == (part = "terminal" /\ cancelled) ~> (AllReleased \/ Silent)

\* "The cancelation of ctx will shutdown the server immediately with aborting
\* existing connections" (server.go:87): a cancelled Run returns.  It does not
\* while a browser that opened its websocket stays silent.
CancelAborts == (part = "terminal" /\ cancelled /\ runs = "serving") ~> runs = "returned"

\* The remote port of a reverse tunnel is served again after any failure of
\* its session, and a TUN device of a client that dials a chain gets a
\* connection again (forward.go:446, tuntap.go:163).
LoopsComeBack ==
  (part = "rtunnel" \/ (part = "tun" /\ tunSetup.chain))
    ~> IF part = "rtunnel" THEN Served ELSE Carried \/ device = "closed"

\* A SOCKS client that leaves, whatever its request had come to, leaves no
\* goroutine and no connection behind (socks.go:1075 and 1105 apart, where data
\* came early or a peer was accepted beside a pipe that had ended), unless the
\* chain's last node stays silent in a handshake without deadline (1178, 1442).
SocksReleases ==
  (part = "socks" /\ client = "gone" /\ ~early) ~> (Released \/ stage = "handshake")

\* A file the poller has seen once is in use sooner or later in each later
\* version that stays (reload.go:35, resolver.go:516).
ReloadLearns ==
  \A v \in 2 .. MaxVersions :
    (part = "resolver" /\ lastMod # 0 /\ lastMod # v /\ file.version = v)
      ~> (UpToDate \/ file.version # v)
================================================================================
