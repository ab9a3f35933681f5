--------------------------------- MODULE GostTun ---------------------------------
(***************************************************************************)
(* The handlers of TUN and TAP devices (tuntap.go): a loop that opens a    *)
(* packet connection, lets two goroutines copy between it and the device,  *)
(* and starts anew when one fails; at the server, the routes learned from  *)
(* the packets.  Nothing closes the connection of a round that failed, and *)
(* the other goroutine of the round goes on with it.                       *)
(***************************************************************************)
EXTENDS Integers, FiniteSets

CONSTANTS Stations,    \* hosts behind the tunnel, by address
          Gateway,     \* the station the configured routes lead to
          MaxRounds,   \* rounds of the loop
          MaxMoves     \* times a station is seen at another peer

ASSUME TunAssumption == {MaxRounds, MaxMoves} \subseteq Nat /\ Gateway \in Stations

VARIABLES tunSetup,   \* the device, the side, whether a chain is dialled
          device,     \* "up" or "closed"
          round,      \* rounds begun
          loopAt,     \* where Handle is
          packets,    \* per round, the packet connection: none, open, broken
          devReader,  \* per round, the goroutine that reads the device
          netReader,  \* per round, the goroutine that reads the connection
          failed,     \* per round, how many errors were put into errc (one is taken)
          routes,     \* the peer each station was last seen at
          movedTo,    \* the peer it is really at
          exitAsked   \* chExit holds a token

tunVars == <<tunSetup, device, round, loopAt, packets, devReader, netReader, failed, routes, movedTo, exitAsked>>

Rounds == 1 .. MaxRounds
NoPeer == 0
Client == tunSetup.side = "client"

\* A listener opens its device and offers one connection, the device itself;
\* only the side with a remote address is a client, and may dial a chain.
TunSetups == {s \in [device : {"tun", "tap"}, side : {"client", "server"}, chain : BOOLEAN] :
                s.chain => s.side = "client"}
TunInit ==
  /\ tunSetup \in TunSetups
  /\ device = "up" /\ round = 0 /\ loopAt = "dial"
  /\ packets = [r \in Rounds |-> "none"]
  /\ devReader = [r \in Rounds |-> "none"] /\ netReader = [r \in Rounds |-> "none"]
  /\ failed = [r \in Rounds |-> 0]
  /\ routes = [s \in Stations |-> NoPeer] /\ movedTo = [s \in Stations |-> 1]
  /\ exitAsked = FALSE

--------------------------------------------------------------------------------
(* Handle. *)

\* A connection through the chain is a new one each time; without a chain the
\* socket is bound to the node's address, where that of an earlier round still is.
Bound == ~tunSetup.chain /\ \E r \in Rounds : packets[r] # "none"
OpenConn ==
  /\ loopAt = "dial" /\ round < MaxRounds /\ ~Bound
  /\ round' = round + 1
  /\ packets' = [packets EXCEPT ![round'] = "open"]
  /\ devReader' = [devReader EXCEPT ![round'] = "reads"]
  /\ netReader' = [netReader EXCEPT ![round'] = "reads"]
  /\ loopAt' = "wait"
  /\ UNCHANGED <<tunSetup, device, failed, routes, movedTo, exitAsked>>
OpenFails ==
  /\ loopAt = "dial" /\ round < MaxRounds
  /\ loopAt' = "check"
  /\ UNCHANGED <<tunSetup, device, round, packets, devReader, netReader, failed, routes, movedTo, exitAsked>>
\* The first error ends the round.
RoundEnds ==
  /\ loopAt = "wait" /\ failed[round] > 0 /\ loopAt' = "check"
  /\ UNCHANGED <<tunSetup, device, round, packets, devReader, netReader, failed, routes, movedTo, exitAsked>>
\* Asked to exit, it takes the process along; otherwise it waits and starts anew.
MutExitOrRetry ==
  /\ loopAt = "check"
  /\ loopAt' = IF exitAsked \/ round > 0 THEN "exit" ELSE "dial"
  /\ exitAsked' = FALSE
  /\ device' = IF exitAsked THEN "closed" ELSE device
  /\ UNCHANGED <<tunSetup, round, packets, devReader, netReader, failed, routes, movedTo>>
ExitOrRetry ==
  /\ loopAt = "check"
  /\ loopAt' = IF exitAsked THEN "exit" ELSE "dial"
  /\ exitAsked' = FALSE
  /\ device' = IF exitAsked THEN "closed" ELSE device
  /\ UNCHANGED <<tunSetup, round, packets, devReader, netReader, failed, routes, movedTo>>

--------------------------------------------------------------------------------
(* The goroutines of a round, and what fails. *)

Fails(r) == failed' = [failed EXCEPT ![r] = @ + 1]

\* findRouteFor: the station itself, or the gateway a configured route names.
Route(s) == IF routes[s] # NoPeer \/ tunSetup.device = "tap" THEN routes[s] ELSE routes[Gateway]

\* A write to a connection that broke fails, any other may; over a chain, where
\* a new round follows, in the rounds before the last.
WriteMayFail(r) ==
  packets[r] = "broken" \/ (packets[r] = "open" /\ (tunSetup.chain => r < MaxRounds))

\* A packet from the device, to the remote end or along a route.
FromDevice(r, s) ==
  /\ loopAt # "exit" /\ device = "up" /\ devReader[r] = "reads"
  /\ Client \/ Route(s) # NoPeer
  /\ WriteMayFail(r)
  /\ devReader' = [devReader EXCEPT ![r] = "ended"] /\ Fails(r)
  /\ UNCHANGED <<tunSetup, device, round, loopAt, packets, netReader, routes, movedTo, exitAsked>>
DeviceFails(r) ==
  /\ loopAt # "exit" /\ device = "closed" /\ devReader[r] = "reads"
  /\ devReader' = [devReader EXCEPT ![r] = "ended"] /\ Fails(r) /\ exitAsked' = TRUE
  /\ UNCHANGED <<tunSetup, device, round, loopAt, packets, netReader, routes, movedTo>>
\* A packet from a peer: the server learns where its station is, and sends it
\* along a route or to the device.
Learn(s) == routes' = IF Client THEN routes ELSE [routes EXCEPT ![s] = movedTo[s]]
FromPeer(r, s) ==
  /\ loopAt # "exit" /\ netReader[r] = "reads" /\ packets[r] = "open"
  /\ Learn(s)
  /\ UNCHANGED <<tunSetup, device, round, loopAt, packets, devReader, netReader, failed, movedTo, exitAsked>>
\* A packet that neither takes ends the goroutine; if it was the device, the
\* server too.
FromPeerFails(r, s) ==
  /\ loopAt # "exit" /\ netReader[r] = "reads" /\ packets[r] = "open"
  /\ device = "closed" \/ WriteMayFail(r)
  /\ Learn(s)
  /\ netReader' = [netReader EXCEPT ![r] = "ended"] /\ Fails(r)
  /\ exitAsked' \in {exitAsked, exitAsked \/ ~Client}
  /\ UNCHANGED <<tunSetup, device, round, loopAt, packets, devReader, movedTo>>
ConnFails(r) ==
  /\ loopAt # "exit" /\ netReader[r] = "reads" /\ packets[r] = "broken"
  /\ netReader' = [netReader EXCEPT ![r] = "ended"] /\ Fails(r)
  /\ UNCHANGED <<tunSetup, device, round, loopAt, packets, devReader, routes, movedTo, exitAsked>>

Break(r) ==
  /\ loopAt # "exit" /\ packets[r] = "open" /\ r < MaxRounds /\ packets' = [packets EXCEPT ![r] = "broken"]
  /\ UNCHANGED <<tunSetup, device, round, loopAt, devReader, netReader, failed, routes, movedTo, exitAsked>>
Move(s) ==
  /\ loopAt # "exit" /\ movedTo[s] <= MaxMoves /\ movedTo' = [movedTo EXCEPT ![s] = @ + 1]
  /\ UNCHANGED <<tunSetup, device, round, loopAt, packets, devReader, netReader, failed, routes, exitAsked>>
CloseDevice ==
  /\ loopAt # "exit" /\ device = "up" /\ device' = "closed"
  /\ UNCHANGED <<tunSetup, round, loopAt, packets, devReader, netReader, failed, routes, movedTo, exitAsked>>

TunNext ==
  \/ OpenConn \/ OpenFails \/ RoundEnds \/ ExitOrRetry \/ CloseDevice
  \/ \E r \in Rounds : Break(r) \/ ConnFails(r) \/ DeviceFails(r)
  \/ \E r \in Rounds, s \in Stations : FromDevice(r, s) \/ FromPeer(r, s) \/ FromPeerFails(r, s)
  \/ \E s \in Stations : Move(s)

--------------------------------------------------------------------------------
TunTypeOK ==
  /\ round \in 0 .. MaxRounds /\ loopAt \in {"dial", "wait", "check", "exit"}
  /\ device \in {"up", "closed"} /\ exitAsked \in BOOLEAN
  /\ \A r \in Rounds : /\ packets[r] \in {"none", "open", "broken"} /\ failed[r] \in 0 .. 2
                       /\ {devReader[r], netReader[r]} \subseteq {"none", "reads", "ended"}
                       /\ r > round => packets[r] = "none"
  /\ \A s \in Stations : routes[s] \in 0 .. movedTo[s]

\* What the device sends is carried over a connection that works.
Carried == \E r \in Rounds : devReader[r] = "reads" /\ packets[r] = "open"
================================================================================
