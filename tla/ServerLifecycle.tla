--------------------------- MODULE ServerLifecycle ---------------------------
(***************************************************************************)
(* Starting and stopping the server, and the readers of its list of        *)
(* clients: server/server.go and server/gost-tunnel.go.                    *)
(*                                                                         *)
(* server.clients is a slice: a header (array and length) over a shared    *)
(* array.  RemoveClient cuts an entry out in place, append writes in place *)
(* while the array has room; whoever ranges over the list holds the header *)
(* it began with and takes no token, so the entries move below it.  That   *)
(* goes for GetClientById and for Server.Stop, which removes what it       *)
(* ranges over.                                                            *)
(***************************************************************************)
EXTENDS Integers, Sequences

CONSTANTS MaxClients,   \* bound of the clients that connect
          NumServices,  \* reverse SSH services; 30 in the code
          None

ASSUME LifecycleAssumption == NumServices \in Nat \ {0} /\ MaxClients \in Nat

VARIABLES
  heap,       \* the arrays server.clients has had
  list,       \* server.clients: [array, len]
  begun,      \* services the loop of Start has begun
  serving,    \* services whose listener is open
  services,   \* length of server.gostTunnels
  startIndex, \* server.gostTunnelStartIndex
  listener,   \* server.tcpListener
  cancelled,  \* server.ctx is done
  acceptor,   \* place of the accept loop
  stopper,    \* Server.Stop, run by the goroutine of a failed service
  reader,     \* GetClientById, run by a handler
  client,     \* state of each client: see ClientStates
  crashed,    \* the process is gone
  accepted    \* clients accepted so far: they are numbered in that order

listVars == <<heap, list>>
serviceVars == <<begun, serving, services, startIndex>>
netVars == <<listener, cancelled, acceptor>>
lifecycleVars == <<listVars, serviceVars, netVars, stopper, reader, client,
                   crashed, accepted>>

\* "new" until Client.Start has assigned its session; "lost" when the session
\* ended and the reaper has yet to remove it; "gone" once removed and stopped.
ClientStates == {"none", "new", "runs", "lost", "gone"}
Clients == 1..MaxClients
Services == 1..NumServices
Idle == [at |-> "idle"]
Walk(h) == [at |-> "walk", header |-> h, next |-> 1]
LookUp(c) == [at |-> "walk", header |-> list, next |-> 1, alone |-> TRUE,
              target |-> c, found |-> FALSE]

Entry(h, n) == heap[h.array][n]
Registered == {Entry(list, n) : n \in 1..list.len}
Becomes(c, state) == client' = [client EXCEPT ![c] = state]

LifecycleInit ==
  /\ heap = <<<<>>>>
  /\ list = [array |-> 1, len |-> 0]
  /\ begun = 0 /\ serving = {} /\ services = 0 /\ startIndex = 0
  /\ listener = "nil" /\ cancelled = FALSE /\ acceptor = "off"
  /\ stopper = [k \in Services |-> Idle]
  /\ reader = Idle
  /\ client = [c \in Clients |-> "none"] /\ crashed = FALSE /\ accepted = 0

-----------------------------------------------------------------------------
(* The list as a Go slice.                                                 *)

\* append: in place while there is room, else into an array twice the size.
Append1(c) ==
  LET array == heap[list.array] IN
  IF list.len < Len(array)
  THEN /\ heap' = [heap EXCEPT ![list.array][list.len + 1] = c]
       /\ list' = [list EXCEPT !.len = @ + 1]
  ELSE /\ heap' = Append(heap, [n \in 1..(IF list.len = 0 THEN 1 ELSE 2 * list.len) |->
                                  IF n <= list.len THEN array[n]
                                  ELSE IF n = list.len + 1 THEN c ELSE None])
       /\ list' = [array |-> Len(heap) + 1, len |-> list.len + 1]

\* Mutant: the cut takes the entry after the one found.
MutCutLast(n) ==
  /\ heap' = heap
  /\ list' = [list EXCEPT !.len = @ - 2]

\* append(clients[:n], clients[n+1:]...): later entries move down by one, and
\* the array keeps its last entry twice.
Cut(n) ==
  /\ heap' = [heap EXCEPT ![list.array] =
                [m \in DOMAIN @ |-> IF m \in n..(list.len - 1) THEN @[m + 1] ELSE @[m]]]
  /\ list' = [list EXCEPT !.len = @ - 1]

\* Whoever is walking learns, as history, that an entry went.
Shrunk(w) == IF w.at = "walk" THEN [w EXCEPT !.alone = FALSE] ELSE w

\* RemoveClient: one step, since every writer holds the token of
\* clientsListLock.  A client that is not there is only logged.
RemoveClient(c) ==
  IF c \in Registered
  THEN \E n \in 1..list.len : Entry(list, n) = c /\ Cut(n)
  ELSE UNCHANGED listVars

-----------------------------------------------------------------------------
(* Server.Start.                                                           *)

\* One turn of the loop: a port is reserved, the service appended and its
\* goroutine started.  Without a port Start returns its error.
BeginService ==
  /\ begun < NumServices /\ acceptor = "off"
  /\ \/ /\ begun' = begun + 1
        /\ services' = services + 1
        /\ UNCHANGED acceptor
     \/ /\ acceptor' = "ended"
        /\ UNCHANGED <<begun, services>>
  /\ UNCHANGED <<listVars, serving, startIndex, listener, cancelled,
                 stopper, reader, client, crashed, accepted>>

\* net.Listen, after the loop; the accept loop starts.
Listen ==
  /\ begun = NumServices /\ listener = "nil" /\ acceptor = "off"
  /\ \/ listener' = "open" /\ acceptor' = "check"
     \/ acceptor' = "ended" /\ UNCHANGED listener
  /\ UNCHANGED <<listVars, serviceVars, cancelled, stopper, reader,
                 client, crashed, accepted>>

\* GostTunnel.Serve binds the port; failing is fatal to the process.
Serve(k) ==
  /\ k <= begun /\ k \notin serving /\ stopper[k] = Idle
  /\ \/ serving' = serving \cup {k} /\ UNCHANGED crashed
     \/ crashed' = TRUE /\ UNCHANGED serving
  /\ UNCHANGED <<listVars, begun, services, startIndex, netVars, stopper,
                 reader, client, accepted>>

\* The select of the accept loop.
AcceptCheck ==
  /\ acceptor = "check"
  /\ acceptor' = IF cancelled THEN "ended" ELSE "accept"
  /\ UNCHANGED <<listVars, serviceVars, listener, cancelled, stopper,
                 reader, client, crashed, accepted>>

\* Accept returns a connection: NewClient, AddClient, and the starter begins.
\* A failed Accept, which a closed listener causes, is logged.
Accept ==
  /\ acceptor = "accept"
  /\ acceptor' = "check"
  /\ \/ /\ listener = "open"
        /\ accepted < MaxClients
        /\ accepted' = accepted + 1
        /\ Append1(accepted + 1)
        /\ Becomes(accepted + 1, "new")
     \/ UNCHANGED <<listVars, client, accepted>>
  /\ UNCHANGED <<serviceVars, listener, cancelled, stopper, reader, crashed>>

-----------------------------------------------------------------------------
(* What clients and handlers do.                                           *)

\* Client.Start assigns the session: until then there is none to stop.
StartClient(c) ==
  /\ client[c] = "new" /\ Becomes(c, "runs")
  /\ UNCHANGED <<listVars, serviceVars, netVars, stopper, reader, crashed, accepted>>

\* GetTunnelService for the starter of a client: an index out of range, which
\* an emptied list of services causes, ends the process.
GetTunnelService(c) ==
  /\ client[c] = "runs"
  /\ IF startIndex < services
     THEN /\ startIndex' = IF startIndex + 1 >= services THEN 0 ELSE startIndex + 1
          /\ UNCHANGED crashed
     ELSE crashed' = TRUE /\ UNCHANGED startIndex
  /\ UNCHANGED <<listVars, begun, serving, services, netVars, stopper, reader,
                 client, accepted>>

\* The session of a client ends, and its starter's calls with it.
LoseClient(c) ==
  /\ client[c] = "runs" /\ Becomes(c, "lost")
  /\ UNCHANGED <<listVars, serviceVars, netVars, stopper, reader, crashed, accepted>>

\* Its reaper removes it, once it has stopped it.
Reap(c) ==
  /\ client[c] = "lost" /\ Becomes(c, "gone")
  /\ RemoveClient(c)
  /\ reader' = Shrunk(reader)
  /\ UNCHANGED <<serviceVars, netVars, stopper, crashed, accepted>>

\* Mutant: the range leaves the first entry out.
MutGetClientById(c) ==
  /\ reader = Idle /\ c \in Registered
  /\ reader' = [LookUp(c) EXCEPT !.next = 2]
  /\ UNCHANGED <<listVars, serviceVars, netVars, stopper, client, crashed, accepted>>

\* GetClientById begins to range over the list for a client that is in it.
GetClientById(c) ==
  /\ reader = Idle /\ c \in Registered
  /\ reader' = LookUp(c)
  /\ UNCHANGED <<listVars, serviceVars, netVars, stopper, client, crashed, accepted>>

\* One turn of its loop.
ReadEntry ==
  /\ reader.at = "walk" /\ reader.next <= reader.header.len /\ ~reader.found
  /\ reader' = [reader EXCEPT !.next = @ + 1,
                  !.found = heap[reader.header.array][reader.next] = reader.target]
  /\ UNCHANGED <<listVars, serviceVars, netVars, stopper, client, crashed, accepted>>

\* It returns.
ReadEnds ==
  /\ reader.at = "walk"
  /\ reader.found \/ reader.next > reader.header.len
  /\ reader' = Idle
  /\ UNCHANGED <<listVars, serviceVars, netVars, stopper, client, crashed, accepted>>

-----------------------------------------------------------------------------
(* Server.Stop.                                                            *)

\* Mutant: the context is not cancelled.
MutStopKeepsContext(k) ==
  /\ k \in serving
  /\ serving' = serving \ {k}
  /\ stopper' = [stopper EXCEPT ![k] = Walk(list)]
  /\ UNCHANGED <<listVars, begun, services, startIndex, netVars, reader, client,
                 crashed, accepted>>

\* Serve of a service fails for good: GostTunnel.Stop, then Server.Stop
\* cancels the context and begins to range over the clients.
ServiceFails(k) ==
  /\ k \in serving
  /\ serving' = serving \ {k}
  /\ cancelled' = TRUE
  /\ stopper' = [stopper EXCEPT ![k] = Walk(list)]
  /\ UNCHANGED <<listVars, begun, services, startIndex, listener, acceptor,
                 reader, client, crashed, accepted>>

\* Mutant: Stop cuts the client out itself, at the index of its own range.
MutStopEntry(k) ==
  /\ stopper[k].at = "walk" /\ stopper[k].next <= stopper[k].header.len
  /\ LET c == heap[stopper[k].header.array][stopper[k].next] IN
       /\ Cut(stopper[k].next) /\ Becomes(c, "gone")
       /\ crashed' = (client[c] = "new")
  /\ reader' = Shrunk(reader)
  /\ stopper' = [stopper EXCEPT ![k].next = @ + 1]
  /\ UNCHANGED <<serviceVars, netVars, accepted>>

\* One turn of its loop: the entry is read where the range has it, which the
\* removal before has moved, and RemoveClient called.  The client it finds is
\* stopped: without a session yet, nil is called and the process ends.
StopEntry(k) ==
  /\ stopper[k].at = "walk" /\ stopper[k].next <= stopper[k].header.len
  /\ LET c == heap[stopper[k].header.array][stopper[k].next] IN
       /\ RemoveClient(c)
       /\ IF c \in Registered
          THEN /\ Becomes(c, "gone") /\ reader' = Shrunk(reader)
               /\ crashed' = (client[c] = "new")
          ELSE UNCHANGED <<client, reader, crashed>>
  /\ stopper' = [stopper EXCEPT ![k].next = @ + 1]
  /\ UNCHANGED <<serviceVars, netVars, accepted>>

\* After the loop: the list of services is emptied and the listener closed.
\* Before Start has made it, it is nil, and the call ends the process.
StopCloses(k) ==
  /\ stopper[k].at = "walk" /\ stopper[k].next > stopper[k].header.len
  /\ services' = 0
  /\ IF listener = "nil"
     THEN crashed' = TRUE /\ UNCHANGED listener
     ELSE listener' = "closed" /\ UNCHANGED crashed
  /\ stopper' = [stopper EXCEPT ![k].at = "done"]
  /\ UNCHANGED <<listVars, begun, serving, startIndex, cancelled, acceptor,
                 reader, client, accepted>>

-----------------------------------------------------------------------------
LifecycleNext ==
  /\ ~crashed
  /\ \/ BeginService \/ Listen \/ AcceptCheck \/ Accept \/ ReadEntry \/ ReadEnds
     \/ \E c \in Clients : GetTunnelService(c) \/ StartClient(c) \/ LoseClient(c)
                           \/ Reap(c) \/ GetClientById(c)
     \/ \E k \in Services : Serve(k) \/ ServiceFails(k) \/ StopEntry(k) \/ StopCloses(k)

LifecycleSpec == LifecycleInit /\ [][LifecycleNext]_lifecycleVars

\* The goroutines of Stop and of the accept loop run; Accept on a closed
\* listener returns.  Services need not fail, and no connection need come.
LifecycleFairness ==
  /\ WF_lifecycleVars(~crashed /\ AcceptCheck)
  /\ WF_lifecycleVars(~crashed /\ listener = "closed" /\ Accept)
  /\ \A k \in Services : WF_lifecycleVars(~crashed /\ (StopEntry(k) \/ StopCloses(k)))

LifecycleFairSpec == LifecycleSpec /\ LifecycleFairness

-----------------------------------------------------------------------------
(* Properties.                                                             *)

\* A header that was the list's once, and a walk over it.
Headers == [array : 1..Len(heap), len : 0..accepted]
InsideArray(h) == h.len <= Len(heap[h.array])
OverHeader(w) == w.at = "walk" => InsideArray(w.header) /\ w.next <= w.header.len + 1

Walks == {Idle} \cup [at : {"walk", "done"}, header : Headers, next : 1..(MaxClients + 1)]
LookUps == {Idle} \cup [at : {"walk"}, header : Headers, next : 1..(MaxClients + 1),
                        alone : BOOLEAN, target : Clients, found : BOOLEAN]

ListTypeOK ==
  /\ heap \in Seq(Seq(Clients \cup {None})) /\ list \in Headers
  /\ list.array = Len(heap) /\ InsideArray(list)

WalkTypeOK ==
  /\ stopper \in [Services -> Walks] /\ \A k \in Services : OverHeader(stopper[k])
  /\ reader \in LookUps /\ OverHeader(reader)

RestTypeOK ==
  /\ begun \in 0..NumServices /\ services \in 0..begun
  /\ serving \subseteq Services /\ startIndex \in 0..(NumServices - 1)
  /\ services = 0 \/ startIndex < services
  /\ acceptor = "off" => /\ startIndex = 0 /\ accepted = 0
                         /\ \A c \in Clients : client[c] = "none"
  /\ listener \in {"nil", "open", "closed"}
  /\ acceptor \in {"off", "check", "accept", "ended"}
  /\ cancelled \in BOOLEAN /\ crashed \in BOOLEAN /\ accepted \in 0..MaxClients
  /\ client \in [Clients -> ClientStates]

LifecycleTypeOK == ListTypeOK /\ WalkTypeOK /\ RestTypeOK

\* GetClientById does not miss a registered client unless an entry was cut out
\* during its walk (server.go:199): appends alone do not confuse it.
MissedOnlyWhenCut ==
  reader.at = "walk" /\ reader.next > reader.header.len /\ ~reader.found
    /\ reader.target \in Registered => ~reader.alone

\* Whatever Stop, the reapers and the accept loop do to the list at once, it
\* holds every client that connected and was not removed exactly once, and no
\* other: what Stop stops is what leaves the list, although the walks of Stop
\* read entries that moved or went, from headers of old (server.go:218).
ListIsExact ==
  /\ Registered = {c \in Clients : client[c] \in {"new", "runs", "lost"}}
  /\ \A m, n \in 1..list.len : Entry(list, m) = Entry(list, n) => m = n

\* Once a service failed the accept loop ends, or the process does.
AcceptLoopEnds == (\E k \in Services : stopper[k].at # "idle") /\ acceptor \notin {"off"}
                    ~> acceptor = "ended" \/ crashed
=============================================================================
