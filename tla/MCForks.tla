---------------------------------- MODULE MCForks ----------------------------------
(***************************************************************************)
(* Small instances of parts of the in-tree forks: gost's transports,       *)
(* routes and handlers, and the file browser's files and shared links. Each module  *)
(* describes one mechanism in the middle of whatever its peers, callers    *)
(* and networks may do; they share no variable, so a behaviour runs one of *)
(* them and the others stand still in one of their initial states.  Their  *)
(* product would show nothing more.  What must come to an end or come back *)
(* is in MCServices.                                                       *)
(***************************************************************************)
EXTENDS GostSessions, GostListeners, GostUdp, GostRoute, GostHeaders, GostObfsTls, GostProxy, GostPeers,
        FileShares, FileUploads

VARIABLE part   \* the mechanism this behaviour runs

Parts == {"sessions", "listeners", "udp", "route", "headers", "obfs", "proxy", "peers", "shares", "uploads"}

forkVars == <<sessionVars, listenerVars, udpVars, routeVars, headerVars, obfsVars, proxyVars,
              peerVars, shareVars, uploadVars, part>>

\* A chain that TCP, UDP or remote forwarding goes through: nodes tried in
\* turn, in order or at random, with and without a multiplex node, and a
\* bypassed group.  Two nodes always work.
RouteCases ==
  {[handler |-> h, strategy |-> s, bypass |-> 0, mux |-> FALSE] : h \in {"udp", "rtcp"}, s \in {"fifo", "random"}}
  \cup {[handler |-> "tcp", strategy |-> "random", bypass |-> 0, mux |-> FALSE],
        [handler |-> "tcp", strategy |-> "round", bypass |-> 0, mux |-> TRUE],
        [handler |-> "tcp", strategy |-> "fifo", bypass |-> 2, mux |-> FALSE]}

\* One initial state for a part that does not run.
Idle(p, initial) == part # p => initial

Init ==
  /\ part \in Parts
  /\ SessionsInit /\ Idle("sessions", kind = "mtls")
  /\ ListenersInit /\ Idle("listeners", lkind = "tcp")
  /\ UdpInit /\ Idle("udp", ukind = "udp")
  /\ RouteInit /\ setup \in RouteCases /\ {<<1, 2>>, <<3, 2>>} \subseteq up
  /\ Idle("route", setup.bypass = 2 /\ up = RouteNodes)
  /\ HeadersInit /\ Idle("headers", hsetup = [kind |-> "ss", noDelay |-> FALSE, first |-> "client"])
  /\ ObfsInit
  /\ ProxyInit /\ Idle("proxy", psetup.kind = "red" /\ psetup.waits)
  /\ PeersInit
  /\ Idle("peers", peerSetup = [room |-> 0, peers |-> [v \in Configs |-> 1], valid |-> [v \in Configs |-> TRUE]])
  /\ ShareInit /\ UploadInit

Still(p, step) == IF part = p THEN TRUE ELSE step
Others ==
  /\ Still("sessions", UNCHANGED sessionVars) /\ Still("listeners", UNCHANGED listenerVars)
  /\ Still("udp", UNCHANGED udpVars) /\ Still("route", UNCHANGED routeVars)
  /\ Still("headers", UNCHANGED headerVars) /\ Still("obfs", UNCHANGED obfsVars)
  /\ Still("proxy", UNCHANGED proxyVars) /\ Still("peers", UNCHANGED peerVars)
  /\ Still("shares", UNCHANGED shareVars) /\ Still("uploads", UNCHANGED uploadVars)
  /\ UNCHANGED part

Next ==
  \/ part = "sessions" /\ SessionsNext /\ Others
  \/ part = "listeners" /\ ListenersNext /\ Others
  \/ part = "udp" /\ UdpNext /\ Others
  \/ part = "route" /\ RouteNext /\ Others
  \/ part = "headers" /\ HeadersNext /\ Others
  \/ part = "obfs" /\ ObfsNext /\ Others
  \/ part = "proxy" /\ ProxyNext /\ Others
  \/ part = "peers" /\ PeersNext /\ Others
  \/ part = "shares" /\ ShareNext /\ Others
  \/ part = "uploads" /\ UploadNext /\ Others

Spec == Init /\ [][Next]_forkVars

--------------------------------------------------------------------------------
\* Every part keeps its types.
ForksTypeOK ==
  /\ SessionsTypeOK /\ ListenersTypeOK /\ UdpTypeOK /\ RouteTypeOK
  /\ HeadersTypeOK /\ ObfsTypeOK /\ ProxyTypeOK /\ PeersTypeOK
  /\ ShareTypeOK /\ UploadTypeOK

\* What a listener hands to the server is a connection (server.go:62), and the
\* connections it keeps for the senders of datagrams are open ones (udp.go:116).
ListenersDeliver == NeverServesNothing /\ ClosedIsUnmapped

\* Whatever is put in front of the data, cached with it, or read along with it
\* by another reader, what one end of a relay, a shadowsocks, an obfuscated or
\* a proxied connection reads is what the other end wrote.
BytesArriveInOrder == HeadersInOrder /\ ParsedExactly /\ RelayedFaithfully

\* Whatever requests of the file browser meet on a path or in a listing: links
\* that live are listed once (share/storage.go:39), a file at rest is one body
\* (http/resource.go:177), and its preview shows it (http/preview.go:88).
BrowserShowsWhatIsThere == LiveLinksListedOnce /\ SavedWhole /\ PreviewsFit
================================================================================
