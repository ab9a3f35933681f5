---------------------------- MODULE MCServerParts -----------------------------
(***************************************************************************)
(* Small instances of the parts of the server beside its tunnels.  The     *)
(* parts share no state, so a behaviour runs one of them: their product    *)
(* would show nothing more.                                                *)
(***************************************************************************)
EXTENDS ServerLifecycle, ServiceLimiter, BulkInstall, UserStore, AddressRange, Channel,
        TunnelHandover

VARIABLE part   \* the part this behaviour runs

partVars == <<lifecycleVars, limiterVars, bulkVars, userVars, rangeVars, channelVars,
              handoverVars>>

\* A part that does not run stands still in one of its initial states.
Still(p) == part # p

Init ==
  /\ part \in {"lifecycle", "limiter", "bulk", "users", "range", "channel", "handover"}
  /\ LifecycleInit /\ LimiterInit /\ BulkInit /\ UserInit /\ HandoverInit
  /\ RangeInit /\ (Still("range") => input = [form |-> "one", first |-> 0])
  /\ ChannelInit /\ (Still("channel") => body = 0 /\ reply = 1)

Others ==
  /\ IF Still("lifecycle") THEN UNCHANGED lifecycleVars ELSE TRUE
  /\ IF Still("limiter") THEN UNCHANGED limiterVars ELSE TRUE
  /\ IF Still("bulk") THEN UNCHANGED bulkVars ELSE TRUE
  /\ IF Still("users") THEN UNCHANGED userVars ELSE TRUE
  /\ IF Still("range") THEN UNCHANGED rangeVars ELSE TRUE
  /\ IF Still("channel") THEN UNCHANGED channelVars ELSE TRUE
  /\ IF Still("handover") THEN UNCHANGED handoverVars ELSE TRUE
  /\ UNCHANGED part

Next ==
  \/ part = "lifecycle" /\ LifecycleNext /\ Others
  \/ part = "limiter" /\ LimiterNext /\ Others
  \/ part = "bulk" /\ BulkNext /\ Others
  \/ part = "users" /\ UserNext /\ Others
  \/ part = "range" /\ RangeNext /\ Others
  \/ part = "channel" /\ ChannelNext /\ Others
  \/ part = "handover" /\ HandoverNext /\ Others

\* The workers of a bulk installation and its main loop run, and their timers
\* expire; the goroutines of Stop and of the accept loop run, as
\* LifecycleFairness says.
FairSpec ==
  /\ Init /\ [][Next]_<<partVars, part>>
  /\ WF_lifecycleVars(part = "lifecycle" /\ ~crashed /\ AcceptCheck)
  /\ WF_lifecycleVars(part = "lifecycle" /\ ~crashed /\ listener = "closed" /\ Accept)
  /\ \A k \in Services :
       WF_lifecycleVars(part = "lifecycle" /\ ~crashed /\ (StopEntry(k) \/ StopCloses(k)))
  /\ WF_bulkVars(part = "bulk" /\ BeginHost)
  /\ \A h \in Hosts : /\ WF_bulkVars(part = "bulk" /\ Collect(h))
                      /\ \A p \in Parts : WF_bulkVars(part = "bulk" /\ TimesOut(h, p))

\* Every part keeps its types.
PartsTypeOK ==
  /\ LifecycleTypeOK /\ LimiterTypeOK /\ BulkTypeOK /\ UserTypeOK
  /\ RangeTypeOK /\ ChannelTypeOK /\ HandoverTypeOK

\* A bulk installation returns although more hosts are asked for than there
\* are slots and the results are collected only after the last host was begun
\* (server.go:351): every channel has room for both results of its worker, and
\* a part that hangs is left behind by its timer (sshconnect.go:191).
InstallReturns == part = "bulk" ~> BulkReturned

\* What the server starts and nobody waits for comes to its end: the accept
\* loop after a service failed (server.go:286), and a bulk installation.
LoopsEnd == AcceptLoopEnds /\ InstallReturns
=============================================================================
