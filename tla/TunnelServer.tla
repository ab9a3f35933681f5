---------------------------- MODULE TunnelServer ----------------------------
(***************************************************************************)
(* The server's side of a tunnel: server/client.go (CreateTunnel, the four *)
(* features set up by Start, ExitIfError, Stop), the registry of           *)
(* server/server.go (AddClient, RemoveClient, GetClientById,               *)
(* GetTunnelService) and the one-token limiter of server/gost-tunnel.go.   *)
(*                                                                         *)
(* Three kinds of goroutine run here.  A handler of POST /client/:id calls *)
(* CreateTunnel on the client it looked up.  The starter of a client runs  *)
(* Client.Start, which calls CreateTunnel once per feature.  The reaper of *)
(* a client is its incoming-request loop, whose error callback stops and   *)
(* removes the client.  They share client.Info.PortTunnels with no lock:   *)
(* CreateTunnel reads it, and appends by reading it again and writing it   *)
(* back; Stop ranges over it, then overwrites it.                          *)
(*                                                                         *)
(* The ports manager is used by its contract (PortPool.tla): ReservePort   *)
(* returns a port that is not booked or fails, ReleasePort drops the       *)
(* booking whoever made it.  A slice header is read and written in one     *)
(* step.  The reverse SSH service and the agent are the environment.       *)
(***************************************************************************)
EXTENDS Integers, Sequences

CONSTANTS Clients,       \* connections; each gets a fresh id, none comes back
          Handlers,      \* goroutines of the HTTP server
          None,          \* no worker, no port, no tunnel
          ServerPorts,   \* ports the manager may hand out for tunnels
          ClientPorts,   \* ports of the clients' machines
          NumServices,   \* 30 in the code
          NumFeatures    \* 4 in the code: SSH, Gotty, noVNC, file browser

ASSUME ServicesAssumption == NumServices \in Nat \ {0} /\ NumFeatures \in Nat

VARIABLES
  clients,       \* server.clients, by id
  listLock,      \* who took the token of clientsListLock
  startIndex,    \* server.gostTunnelStartIndex
  limiter,       \* who took the token of each service's limiter
  portsInUse,    \* the ports manager's table
  session,       \* client.session of each connection
  tunnels,       \* client.Info.PortTunnels
  info,          \* the feature pointers of client.Info
  pc,            \* of the handlers and of the starters
  feature,       \* the feature each starter is at
  frame,         \* the local variables of a worker's CreateTunnel
  reaper,        \* where each client's reaper is
  stopping,      \* the range loop of the reaper's Stop
  raced          \* history: a step lost an update or came too late

vars == <<clients, listLock, startIndex, limiter, portsInUse, session, tunnels,
          info, pc, feature, frame, reaper, stopping, raced>>

Workers == Handlers \cup Clients            \* a client names its own starter
Services == 0..(NumServices - 1)
Features == 1..NumFeatures
Tunnel == [clientPort : ClientPorts, serverPort : ServerPorts,
           service : Services]

ASSUME NoneAssumption == None \notin Workers \cup ServerPorts \cup Tunnel
ASSUME WorkersAssumption == Clients \cap Handlers = {}
ASSUME SomeAssumption == Clients # {} /\ ClientPorts # {}

\* Locals: the client, the requested port, the service, the reserved port
\* while the call is responsible for it, the list as read by append, whether
\* the agent's confirmation has arrived, and what the call returns.
Frame == [client : Clients, port : ClientPorts, service : Services,
          reserved : ServerPorts \cup {None}, list : Seq(Tunnel),
          confirmed : BOOLEAN, result : Tunnel \cup {None}]

Locked == {"check", "reserve", "request", "wait", "release", "load", "store",
           "unlock"}

RegistryType ==
  /\ clients \subseteq Clients
  /\ listLock \in Clients \cup {None}
  /\ session \in [Clients -> {"none", "nil", "open", "closed"}]
  /\ reaper \in [Clients -> {"off", "accept", "stop1", "remove", "stop2", "done"}]
  /\ stopping \in [Clients -> [list : Seq(Tunnel), next : Nat \ {0}]]

ResourceType ==
  /\ startIndex \in Services
  /\ limiter \in [Services -> Workers \cup {None}]
  /\ portsInUse \subseteq ServerPorts
  /\ tunnels \in [Clients -> Seq(Tunnel)]
  /\ info \in [Clients -> [Features -> Tunnel \cup {None}]]
  /\ raced \in BOOLEAN

WorkerType ==
  /\ pc \in [Workers -> {"idle", "feature", "pick", "lock", "advertise"}
                          \cup Locked]
  /\ feature \in [Clients -> 1..(NumFeatures + 1)]
  /\ frame \in [Workers -> Frame]

TypeOK == RegistryType /\ ResourceType /\ WorkerType

\* The locals of a call on client c for port p, before it does anything.
NewFrame(c, p) == [client |-> c, port |-> p, service |-> 0, reserved |-> None,
                   list |-> <<>>, confirmed |-> FALSE, result |-> None]

\* Between calls the locals mean nothing.
IdleFrame(w) == NewFrame(IF w \in Clients THEN w ELSE CHOOSE c \in Clients : TRUE,
                         CHOOSE p \in ClientPorts : TRUE)

Init ==
  /\ clients = {} /\ listLock = None /\ startIndex = 0
  /\ limiter = [s \in Services |-> None]
  /\ portsInUse = {}
  /\ session = [c \in Clients |-> "none"]
  /\ tunnels = [c \in Clients |-> <<>>]
  /\ info = [c \in Clients |-> [f \in Features |-> None]]
  /\ pc = [w \in Workers |-> "idle"]
  /\ feature = [c \in Clients |-> 1]
  /\ frame = [w \in Workers |-> IdleFrame(w)]
  /\ reaper = [c \in Clients |-> "off"]
  /\ stopping = [c \in Clients |-> [list |-> <<>>, next |-> 1]]
  /\ raced = FALSE

Goto(w, label) == pc' = [pc EXCEPT ![w] = label]

\* Where a worker goes when its CreateTunnel is over.
AfterCall(w) == IF w \in Handlers THEN "idle" ELSE "feature"

-----------------------------------------------------------------------------
(* Connecting: the accept loop, Client.Start and the HTTP handler.         *)

\* The accept loop: NewClient and AddClient.
AddClient(c) ==
  /\ session[c] = "none" /\ listLock = None
  /\ clients' = clients \cup {c}
  /\ session' = [session EXCEPT ![c] = "nil"]
  /\ UNCHANGED <<listLock, startIndex, limiter, portsInUse, tunnels, info, pc,
                 feature, frame, reaper, stopping, raced>>

\* Client.Start up to inHandler.Start: the session and the reaper exist.
StartClient(c) ==
  /\ session[c] = "nil"
  /\ session' = [session EXCEPT ![c] = "open"]
  /\ reaper' = [reaper EXCEPT ![c] = "accept"]
  /\ Goto(c, "feature")
  /\ UNCHANGED <<clients, listLock, startIndex, limiter, portsInUse, tunnels,
                 info, feature, frame, stopping, raced>>

\* One of the four Create... functions of Start: the agent is asked for the
\* port of the feature and answers in time with some port, or the feature is
\* given up.  No answer comes over a closed session.
RequestFeature(c) ==
  /\ pc[c] = "feature" /\ feature[c] \in Features
  /\ \/ /\ info[c][feature[c]] = None
        /\ session[c] = "open"
        /\ \E p \in ClientPorts :
             frame' = [frame EXCEPT ![c] = NewFrame(c, p)]
        /\ Goto(c, "pick")
        /\ UNCHANGED feature
     \/ /\ feature' = [feature EXCEPT ![c] = @ + 1]
        /\ UNCHANGED <<frame, pc>>
  /\ UNCHANGED <<clients, listLock, startIndex, limiter, portsInUse, session,
                 tunnels, info, reaper, stopping, raced>>

\* The HTTP handler: GetClientById, then CreateTunnel on the object found,
\* which may be stopped and removed while the handler still holds it.
PostTunnel(h) ==
  /\ pc[h] = "idle"
  /\ \E c \in clients, p \in ClientPorts :
       frame' = [frame EXCEPT ![h] = NewFrame(c, p)]
  /\ Goto(h, "pick")
  /\ UNCHANGED <<clients, listLock, startIndex, limiter, portsInUse, session,
                 tunnels, info, feature, reaper, stopping, raced>>

-----------------------------------------------------------------------------
(* CreateTunnel, step by step; c is the worker's client.                   *)

callVars == <<clients, listLock, session, info, feature, reaper, stopping>>

\* Mutant: the wrap-around of the index is off by one.
MutPickOffByOne(w) ==
  /\ pc[w] = "pick"
  /\ frame' = [frame EXCEPT ![w].service = startIndex]
  /\ startIndex' = IF startIndex + 1 > NumServices THEN 0 ELSE startIndex + 1
  /\ Goto(w, "lock")
  /\ UNCHANGED <<callVars, limiter, portsInUse, tunnels, raced>>

\* GetTunnelService: the next service, round robin, under the server's mutex.
GetTunnelService(w) ==
  /\ pc[w] = "pick"
  /\ frame' = [frame EXCEPT ![w].service = startIndex]
  /\ startIndex' = IF startIndex + 1 >= NumServices THEN 0 ELSE startIndex + 1
  /\ Goto(w, "lock")
  /\ UNCHANGED <<callVars, limiter, portsInUse, tunnels, raced>>

\* Mutant: Lock does not wait for the token.
MutLockNoWait(w) ==
  /\ pc[w] = "lock"
  /\ limiter' = [limiter EXCEPT ![frame[w].service] = w]
  /\ Goto(w, "check")
  /\ UNCHANGED <<callVars, startIndex, portsInUse, tunnels, frame, raced>>

\* GostTunnel.Lock: the token; the pause that follows is left out.
Lock(w) ==
  /\ pc[w] = "lock" /\ limiter[frame[w].service] = None
  /\ limiter' = [limiter EXCEPT ![frame[w].service] = w]
  /\ Goto(w, "check")
  /\ UNCHANGED <<callVars, startIndex, portsInUse, tunnels, frame, raced>>

\* i is the first entry of the list for client port p.
IsFirst(list, p, i) == /\ i \in DOMAIN list /\ list[i].clientPort = p
                       /\ \A j \in 1..(i - 1) : list[j].clientPort # p

\* The loop over client.Info.PortTunnels: a port tunnelled already is answered
\* with its first tunnel.
Check(w) ==
  LET list == tunnels[frame[w].client]
      p == frame[w].port
  IN /\ pc[w] = "check"
     /\ \/ \E i \in DOMAIN list :
             /\ IsFirst(list, p, i)
             /\ frame' = [frame EXCEPT ![w].result = list[i]]
             /\ Goto(w, "unlock")
        \/ /\ \A i \in DOMAIN list : list[i].clientPort # p
           /\ Goto(w, "reserve")
           /\ UNCHANGED frame
     /\ UNCHANGED <<callVars, startIndex, limiter, portsInUse, tunnels, raced>>

\* portsManager.ReservePort, which may also fail.
Reserve(w) ==
  /\ pc[w] = "reserve"
  /\ \/ /\ \E p \in ServerPorts \ portsInUse :
             /\ portsInUse' = portsInUse \cup {p}
             /\ frame' = [frame EXCEPT ![w].reserved = p]
        /\ Goto(w, "request")
     \/ /\ Goto(w, "unlock")
        /\ UNCHANGED <<portsInUse, frame>>
  /\ UNCHANGED <<callVars, startIndex, limiter, tunnels, raced>>

\* Task.Request over the client's session: sent, or refused.  A handler that
\* is faster than Client.Start finds a nil session and panics: net/http
\* recovers, the deferred UnLock runs, the reserved port stays booked.
Request(w) ==
  LET c == frame[w].client IN
  /\ pc[w] = "request"
  /\ \/ /\ session[c] = "open"
        /\ Goto(w, "wait")
        /\ UNCHANGED <<frame, raced>>
     \/ /\ session[c] # "nil"
        /\ Goto(w, "release")
        /\ UNCHANGED <<frame, raced>>
     \/ /\ session[c] = "nil"
        /\ frame' = [frame EXCEPT ![w].reserved = None]
        /\ raced' = TRUE
        /\ Goto(w, "unlock")
  /\ UNCHANGED <<callVars, startIndex, limiter, portsInUse, tunnels>>

\* The agent has set the tunnel up and its confirmation is in the stream's
\* buffer, where it survives the end of the session.
AgentConfirms(w) ==
  /\ pc[w] = "wait" /\ session[frame[w].client] = "open"
  /\ frame' = [frame EXCEPT ![w].confirmed = TRUE]
  /\ UNCHANGED <<callVars, startIndex, limiter, portsInUse, tunnels, pc, raced>>

\* WaitTaskCompleteSignal: the confirmation, or after 60 seconds, at the end
\* of the session or on a bad answer, an error.
Wait(w) ==
  /\ pc[w] = "wait"
  /\ \/ frame[w].confirmed /\ Goto(w, "load")
     \/ Goto(w, "release")
  /\ UNCHANGED <<callVars, startIndex, limiter, portsInUse, tunnels, frame, raced>>

\* Mutant: the error return forgets the reserved port.
MutReleaseForgets(w) ==
  /\ pc[w] = "release"
  /\ frame' = [frame EXCEPT ![w].reserved = None]
  /\ Goto(w, "unlock")
  /\ UNCHANGED <<callVars, startIndex, limiter, portsInUse, tunnels, raced>>

\* An error after the reservation: ReleasePort.
Release(w) ==
  /\ pc[w] = "release"
  /\ portsInUse' = portsInUse \ {frame[w].reserved}
  /\ frame' = [frame EXCEPT ![w].reserved = None]
  /\ Goto(w, "unlock")
  /\ UNCHANGED <<callVars, startIndex, limiter, tunnels, raced>>

\* append(client.Info.PortTunnels, tunnel): the list is read ...
Load(w) ==
  /\ pc[w] = "load"
  /\ frame' = [frame EXCEPT ![w].list = tunnels[frame[w].client]]
  /\ Goto(w, "store")
  /\ UNCHANGED <<callVars, startIndex, limiter, portsInUse, tunnels, raced>>

NewTunnel(w) == [clientPort |-> frame[w].port,
                 serverPort |-> frame[w].reserved,
                 service |-> frame[w].service]

\* Mutant: append's result is not assigned.
MutStoreDropped(w) ==
  /\ pc[w] = "store"
  /\ frame' = [frame EXCEPT ![w] = [@ EXCEPT !.reserved = None, !.list = <<>>,
                                            !.result = NewTunnel(w)]]
  /\ Goto(w, "unlock")
  /\ UNCHANGED <<callVars, startIndex, limiter, portsInUse, tunnels, raced>>

\* ... and written back, whatever became of it meanwhile.
Store(w) ==
  LET c == frame[w].client IN
  /\ pc[w] = "store"
  /\ tunnels' = [tunnels EXCEPT ![c] = Append(frame[w].list, NewTunnel(w))]
  /\ frame' = [frame EXCEPT ![w] = [@ EXCEPT !.reserved = None, !.list = <<>>,
                                            !.result = NewTunnel(w)]]
  /\ raced' = (raced \/ tunnels[c] # frame[w].list \/ reaper[c] = "done")
  /\ Goto(w, "unlock")
  /\ UNCHANGED <<callVars, startIndex, limiter, portsInUse>>

\* Mutant: UnLock is called at the end of the success path, not deferred.
MutUnLockOnSuccess(w) ==
  /\ pc[w] = "unlock"
  /\ limiter' = [limiter EXCEPT ![frame[w].service] =
                   IF frame[w].result # None THEN None ELSE @]
  /\ IF w \in Clients /\ frame[w].result # None
     THEN Goto(w, "advertise") /\ UNCHANGED <<frame, feature>>
     ELSE /\ Goto(w, AfterCall(w))
          /\ frame' = [frame EXCEPT ![w] = IdleFrame(w)]
          /\ feature' = [f \in Clients |->
                           IF f = w THEN feature[f] + 1 ELSE feature[f]]
  /\ UNCHANGED <<clients, listLock, session, info, reaper, stopping,
                 startIndex, portsInUse, tunnels, raced>>

\* The deferred UnLock.  A handler answers its request; a starter goes on.
UnLock(w) ==
  /\ pc[w] = "unlock"
  /\ limiter' = [limiter EXCEPT ![frame[w].service] = None]
  /\ IF w \in Clients /\ frame[w].result # None
     THEN Goto(w, "advertise") /\ UNCHANGED <<frame, feature>>
     ELSE /\ Goto(w, AfterCall(w))
          /\ frame' = [frame EXCEPT ![w] = IdleFrame(w)]
          /\ feature' = [f \in Clients |->
                           IF f = w THEN feature[f] + 1 ELSE feature[f]]
  /\ UNCHANGED <<clients, listLock, session, info, reaper, stopping,
                 startIndex, portsInUse, tunnels, raced>>

\* The starter sets client.Info.SSHTunnel, or the pointer of its feature.
Advertise(c) ==
  /\ pc[c] = "advertise"
  /\ info' = [info EXCEPT ![c][feature[c]] = frame[c].result]
  /\ feature' = [feature EXCEPT ![c] = @ + 1]
  /\ frame' = [frame EXCEPT ![c] = IdleFrame(c)]
  /\ Goto(c, "feature")
  /\ UNCHANGED <<clients, listLock, startIndex, limiter, portsInUse, session,
                 tunnels, reaper, stopping, raced>>

-----------------------------------------------------------------------------
(* Losing a client: the reaper's ExitIfError, which stops the client and   *)
(* has RemoveClient stop it again.                                         *)

workVars == <<startIndex, limiter, info, pc, feature, frame>>

\* The connection fails.
Disconnect(c) ==
  /\ session[c] = "open"
  /\ session' = [session EXCEPT ![c] = "closed"]
  /\ UNCHANGED <<workVars, clients, listLock, portsInUse, tunnels, reaper,
                 stopping, raced>>

\* session.Accept fails in the request loop.  Stop cancels the context, closes
\* the session unless it is closed, and its deferred function starts to range
\* over the list as it is now.
AcceptError(c) ==
  /\ reaper[c] = "accept"
  /\ session' = [session EXCEPT ![c] = "closed"]
  /\ stopping' = [stopping EXCEPT ![c] = [list |-> tunnels[c], next |-> 1]]
  /\ reaper' = [reaper EXCEPT ![c] = "stop1"]
  /\ UNCHANGED <<workVars, clients, listLock, portsInUse, tunnels, raced>>

\* One turn of the loop: portsManager.ReleasePort(t.ServerPort).
StopReleases(c) ==
  /\ reaper[c] \in {"stop1", "stop2"}
  /\ stopping[c].next <= Len(stopping[c].list)
  /\ portsInUse' = portsInUse \ {stopping[c].list[stopping[c].next].serverPort}
  /\ stopping' = [stopping EXCEPT ![c].next = @ + 1]
  /\ UNCHANGED <<workVars, clients, listLock, session, tunnels, reaper, raced>>

\* Mutant: Stop releases the ports and keeps the list.
MutStopKeepsList(c) ==
  /\ reaper[c] \in {"stop1", "stop2"}
  /\ stopping[c].next > Len(stopping[c].list)
  /\ stopping' = [stopping EXCEPT ![c] = [list |-> <<>>, next |-> 1]]
  /\ IF reaper[c] = "stop1"
     THEN reaper' = [reaper EXCEPT ![c] = "remove"] /\ UNCHANGED listLock
     ELSE reaper' = [reaper EXCEPT ![c] = "done"] /\ listLock' = None
  /\ UNCHANGED <<workVars, clients, portsInUse, session, tunnels, raced>>

\* Mutant: RemoveClient keeps the token of clientsListLock.
MutRemoveKeepsToken(c) ==
  /\ reaper[c] \in {"stop1", "stop2"}
  /\ stopping[c].next > Len(stopping[c].list)
  /\ tunnels' = [tunnels EXCEPT ![c] = <<>>]
  /\ raced' = (raced \/ tunnels[c] # stopping[c].list)
  /\ stopping' = [stopping EXCEPT ![c] = [list |-> <<>>, next |-> 1]]
  /\ reaper' = [reaper EXCEPT ![c] = IF @ = "stop1" THEN "remove" ELSE "done"]
  /\ UNCHANGED <<workVars, clients, listLock, portsInUse, session>>

\* The list is replaced by an empty one.  The second time, RemoveClient then
\* gives the token of clientsListLock back.
StopClears(c) ==
  /\ reaper[c] \in {"stop1", "stop2"}
  /\ stopping[c].next > Len(stopping[c].list)
  /\ tunnels' = [tunnels EXCEPT ![c] = <<>>]
  /\ raced' = (raced \/ tunnels[c] # stopping[c].list)
  /\ stopping' = [stopping EXCEPT ![c] = [list |-> <<>>, next |-> 1]]
  /\ IF reaper[c] = "stop1"
     THEN reaper' = [reaper EXCEPT ![c] = "remove"] /\ UNCHANGED listLock
     ELSE reaper' = [reaper EXCEPT ![c] = "done"] /\ listLock' = None
  /\ UNCHANGED <<workVars, clients, portsInUse, session>>

\* RemoveClient: the entry is cut out of server.clients and, still under the
\* token, the client is stopped a second time.
RemoveClient(c) ==
  /\ reaper[c] = "remove" /\ listLock = None
  /\ listLock' = c
  /\ clients' = clients \ {c}
  /\ stopping' = [stopping EXCEPT ![c] = [list |-> tunnels[c], next |-> 1]]
  /\ reaper' = [reaper EXCEPT ![c] = "stop2"]
  /\ UNCHANGED <<workVars, portsInUse, session, tunnels, raced>>

-----------------------------------------------------------------------------
CallStep(w) == \/ GetTunnelService(w) \/ Check(w) \/ Reserve(w) \/ Request(w)
               \/ Wait(w) \/ Release(w) \/ Load(w) \/ Store(w) \/ UnLock(w)

StartStep(c) == StartClient(c) \/ RequestFeature(c) \/ Advertise(c)

ReapStep(c) == StopReleases(c) \/ StopClears(c)

Next ==
  \/ \E h \in Handlers : PostTunnel(h)
  \/ \E w \in Workers : CallStep(w) \/ Lock(w) \/ AgentConfirms(w)
  \/ \E c \in Clients : \/ AddClient(c) \/ StartStep(c)
                        \/ Disconnect(c) \/ AcceptError(c)
                        \/ ReapStep(c) \/ RemoveClient(c)

Spec == Init /\ [][Next]_vars

\* Goroutines that can run do; every wait on the network has a deadline; a
\* closed session fails its Accept.  The tokens are Go channels, which serve
\* their receivers first-in first-out: hence strong fairness.  Nothing says
\* that clients connect, that handlers are called or that agents answer.
Fairness ==
  /\ \A w \in Workers : WF_vars(CallStep(w)) /\ SF_vars(Lock(w))
  /\ \A c \in Clients : /\ WF_vars(StartStep(c)) /\ WF_vars(ReapStep(c))
                        /\ WF_vars(session[c] = "closed" /\ AcceptError(c))
                        /\ SF_vars(RemoveClient(c))

FairSpec == Spec /\ Fairness

-----------------------------------------------------------------------------
(* Properties.                                                             *)

\* CreateTunnel "ensure[s] there is at most one client to create tunnel" per
\* reverse SSH service (client.go:235): from Lock to UnLock, error returns and
\* the recovered panic included, a worker has its service to itself.
ServiceMutex ==
  \A v, w \in Workers :
    (v # w /\ pc[v] \in Locked /\ pc[w] \in Locked)
      => frame[v].service # frame[w].service

\* The entries of a client's list whose ports Stop has not released yet.
Standing(c) ==
  IF reaper[c] \in {"stop1", "stop2"}
  THEN {i \in DOMAIN tunnels[c] : i >= stopping[c].next}
  ELSE DOMAIN tunnels[c]

Listed(c) == {tunnels[c][i].serverPort : i \in Standing(c)}
AllListed == UNION {Listed(c) : c \in Clients}
InHand == {frame[w].reserved : w \in Workers} \ {None}

\* The ports manager's table is exactly the ports in the clients' lists and in
\* the hands of the calls under way, each counted once: no leaked port, none
\* released twice, none in two tunnels.  This must survive every failure, a
\* client lost in the middle of a call, and the double Stop of ExitIfError.
\* It can break only after one of the steps "raced" records: an append that
\* overwrites a list changed since it was read (client.go:270), a Stop that
\* clears an entry it never ranged over (276-279), an append to a client
\* already removed, a request over a nil session.
PortAccounting ==
  ~raced =>
    /\ portsInUse = AllListed \cup InHand
    /\ \A c, d \in Clients : \A i \in Standing(c), j \in Standing(d) :
         tunnels[c][i].serverPort = tunnels[d][j].serverPort => c = d /\ i = j
    /\ \A c \in Clients : Listed(c) \cap InHand = {}
    /\ \A v, w \in Workers :
         v # w /\ frame[v].reserved # None => frame[v].reserved # frame[w].reserved

Connected(c) == reaper[c] = "accept"
Range(list) == {list[i] : i \in DOMAIN list}

\* A tunnel a connected client is said to have, in an answer of the API or in
\* one of the feature pointers the portal shows (client.go:134, 165, 196, 230),
\* is in its list, so that Stop will release its port, unless an append raced.
AnsweredIsListed ==
  ~raced =>
    /\ \A c \in Clients : Connected(c) =>
         \A f \in Features : info[c][f] # None => info[c][f] \in Range(tunnels[c])
    /\ \A w \in Workers : Connected(frame[w].client) /\ frame[w].result # None =>
         frame[w].result \in Range(tunnels[frame[w].client])

\* "Check if the client port is already tunnelled" (client.go:244): a port of
\* a client gets one tunnel, however many calls ask for it.
OneTunnelPerClientPort ==
  \A c \in Clients : \A i, j \in DOMAIN tunnels[c] :
    tunnels[c][i].clientPort = tunnels[c][j].clientPort => i = j

\* Every CreateTunnel returns and gives its service back, whatever the agent
\* and the connection do and however many calls queue on the service.
CallsReturn == \A w \in Workers : pc[w] = "pick" ~> pc[w] \in {"idle", "feature"}

\* A client whose connection is lost is stopped, stopped again and removed
\* from the registry, whatever calls are under way on it.
LostClientsRemoved ==
  \A c \in Clients : session[c] = "closed" ~> reaper[c] = "done" /\ c \notin clients
=============================================================================
