------------------------- MODULE TunnelServerProofs -------------------------
(***************************************************************************)
(* Proofs about TunnelServer for any numbers of clients, handlers,         *)
(* services, features and ports.                                           *)
(***************************************************************************)
EXTENDS TunnelServer, TLAPS

\* A call answers for a reserved port from Reserve until the port is listed,
\* released or, by a panic, forgotten.
ReservedInv ==
  \A w \in Workers :
    frame[w].reserved # None
      <=> pc[w] \in {"request", "wait", "release", "load", "store"}

\* A starter inside a call is at one of its features.
FeatureInv ==
  \A c \in Clients : pc[c] \notin {"idle", "feature"} => feature[c] \in Features

\* A worker between Lock and UnLock has its service's token.
LimiterInv ==
  \A w \in Workers : pc[w] \in Locked => limiter[frame[w].service] = w

\* Neither the starter nor the reaper of a client does anything before
\* Client.Start has its session.
StarterInv ==
  \A c \in Clients : session[c] \in {"none", "nil"} => pc[c] = "idle" /\ reaper[c] = "off"

\* Of the workers and the services they hold.
WorkerInv == ReservedInv /\ FeatureInv /\ LimiterInv /\ StarterInv

\* The inductive invariant of the control.
CInv == TypeOK /\ WorkerInv

\* A new frame has the type of a frame and no reserved port.
LEMMA NewFrameType ==
  ASSUME NEW c \in Clients, NEW p \in ClientPorts
  PROVE  NewFrame(c, p) \in Frame /\ NewFrame(c, p).reserved = None
<1>1. 0 \in Services
  BY ServicesAssumption DEF Services
<1> QED BY <1>1 DEF NewFrame, Frame

\* The frame of a worker between calls has the type of a frame.
LEMMA IdleFrameType ==
  ASSUME NEW w \in Workers
  PROVE  IdleFrame(w) \in Frame /\ IdleFrame(w).reserved = None
<1>1. (CHOOSE p \in ClientPorts : TRUE) \in ClientPorts
  BY SomeAssumption
<1>2. (CHOOSE c \in Clients : TRUE) \in Clients
  BY SomeAssumption
<1> QED BY <1>1, <1>2, NewFrameType DEF IdleFrame

\* The initial state satisfies the control invariant.
LEMMA CInvInit == Init => CInv
<1> SUFFICES ASSUME Init PROVE CInv
  OBVIOUS
<1>1. frame \in [Workers -> Frame] /\ \A w \in Workers : frame[w].reserved = None
  BY IdleFrameType DEF Init
<1>2. RegistryType
  BY DEF Init, RegistryType
<1>3. ResourceType
  <2>1. startIndex \in Services
    BY ServicesAssumption DEF Init, Services
  <2>2. tunnels \in [Clients -> Seq(Tunnel)]
    BY DEF Init
  <2>3. info \in [Clients -> [Features -> Tunnel \cup {None}]]
    BY DEF Init
  <2> QED BY <2>1, <2>2, <2>3 DEF Init, ResourceType
<1>4. WorkerType
  BY <1>1, ServicesAssumption DEF Init, WorkerType
<1>5. WorkerInv
  BY <1>1 DEF Init, WorkerInv, ReservedInv, FeatureInv, LimiterInv,
                StarterInv, Locked, Workers
<1> QED BY <1>2, <1>3, <1>4, <1>5 DEF CInv, TypeOK

\* Connecting, asking for features and losing clients keep the invariant.
LEMMA CInvClients ==
  ASSUME CInv, NEW c \in Clients,
         \/ AddClient(c) \/ StartClient(c) \/ RequestFeature(c) \/ Advertise(c)
         \/ Disconnect(c) \/ AcceptError(c) \/ StopReleases(c) \/ StopClears(c)
         \/ RemoveClient(c)
  PROVE  CInv'
<1> USE DEF CInv, TypeOK, workVars
<1>0. c \in Workers
  BY DEF Workers
<1>1. CASE AddClient(c)
  <2>1. RegistryType'
    BY <1>1 DEF AddClient, RegistryType
  <2>2. ResourceType'
    BY <1>1 DEF AddClient, ResourceType
  <2>3. WorkerType'
    BY <1>1 DEF AddClient, WorkerType
  <2>4. WorkerInv'
    BY <1>1 DEF AddClient, RegistryType, WorkerInv, ReservedInv, FeatureInv, LimiterInv, StarterInv
  <2> QED BY <2>1, <2>2, <2>3, <2>4
<1>2. CASE StartClient(c)
  <2>1. RegistryType'
    BY <1>2 DEF StartClient, RegistryType
  <2>2. ResourceType'
    BY <1>2 DEF StartClient, ResourceType
  <2>3. WorkerType'
    BY <1>0, <1>2 DEF StartClient, WorkerType, Goto
  <2>4. pc[c] = "idle"
    BY <1>2 DEF StartClient, WorkerInv, StarterInv
  <2>5. WorkerInv'
    BY <1>0, <1>2, <2>4 DEF StartClient, RegistryType, WorkerType, WorkerInv, ReservedInv,
       FeatureInv, LimiterInv, StarterInv, Goto, Locked
  <2> QED BY <2>1, <2>2, <2>3, <2>5
<1>3. CASE RequestFeature(c)
  <2>1. RegistryType'
    BY <1>3 DEF RequestFeature, RegistryType
  <2>2. ResourceType'
    BY <1>3 DEF RequestFeature, ResourceType
  <2>3. CASE feature' = [feature EXCEPT ![c] = @ + 1] /\ UNCHANGED <<frame, pc>>
    <3>1. WorkerType'
      BY <1>3, <2>3, ServicesAssumption DEF RequestFeature, WorkerType, Features
    <3>2. WorkerInv'
      BY <1>3, <2>3 DEF RequestFeature, WorkerType, WorkerInv, ReservedInv,
         FeatureInv, LimiterInv, StarterInv
    <3> QED BY <2>1, <2>2, <3>1, <3>2
  <2>4. ASSUME NEW p \in ClientPorts, session[c] = "open",
               frame' = [frame EXCEPT ![c] = NewFrame(c, p)],
               Goto(c, "pick"), UNCHANGED feature
        PROVE CInv'
    <3>1. frame' \in [Workers -> Frame]
      BY <1>0, <2>4, NewFrameType DEF WorkerType
    <3>2. frame'[c].reserved = None
      BY <1>0, <2>4, NewFrameType DEF WorkerType
    <3>3. WorkerType'
      BY <1>0, <2>4, <3>1 DEF WorkerType, Goto
    <3>4. WorkerInv'
      BY <1>0, <1>3, <2>4, <3>2 DEF RequestFeature, WorkerType, WorkerInv, ReservedInv,
         FeatureInv, LimiterInv, StarterInv, Goto, Locked
    <3> QED BY <2>1, <2>2, <3>3, <3>4
  <2> QED BY <1>3, <2>3, <2>4 DEF RequestFeature
<1>4. CASE Advertise(c)
  <2>1. RegistryType'
    BY <1>4 DEF Advertise, RegistryType
  <2>2. frame[c].result \in Tunnel \cup {None} /\ feature[c] \in Features
    BY <1>0, <1>4 DEF WorkerType, Frame, WorkerInv, FeatureInv, Advertise
  <2>3. ResourceType'
    BY <1>4, <2>2 DEF Advertise, ResourceType
  <2>4. frame' \in [Workers -> Frame] /\ frame'[c].reserved = None
    BY <1>0, <1>4, IdleFrameType DEF Advertise, WorkerType
  <2>5. WorkerType'
    BY <1>0, <1>4, <2>2, <2>4, ServicesAssumption DEF Advertise, WorkerType, Goto, Features
  <2>6. WorkerInv'
    BY <1>0, <1>4, <2>4 DEF Advertise, WorkerType, WorkerInv, ReservedInv,
       FeatureInv, LimiterInv, StarterInv, Goto, Locked
  <2> QED BY <2>1, <2>3, <2>5, <2>6
<1>5. CASE Disconnect(c)
  <2>1. RegistryType'
    BY <1>5 DEF Disconnect, RegistryType
  <2>2. ResourceType'
    BY <1>5 DEF Disconnect, ResourceType
  <2>3. WorkerType'
    BY <1>5 DEF Disconnect, WorkerType
  <2>4. WorkerInv'
    BY <1>5 DEF Disconnect, RegistryType, WorkerInv, ReservedInv, FeatureInv, LimiterInv, StarterInv
  <2> QED BY <2>1, <2>2, <2>3, <2>4
<1>6. CASE AcceptError(c)
  <2>1. tunnels[c] \in Seq(Tunnel)
    BY DEF ResourceType
  <2>2. RegistryType'
    BY <1>6, <2>1 DEF AcceptError, RegistryType
  <2>3. ResourceType'
    BY <1>6 DEF AcceptError, ResourceType
  <2>4. WorkerType'
    BY <1>6 DEF AcceptError, WorkerType
  <2>5. WorkerInv'
    BY <1>6 DEF AcceptError, RegistryType, WorkerInv, ReservedInv, FeatureInv, LimiterInv, StarterInv
  <2> QED BY <2>2, <2>3, <2>4, <2>5
<1>7. CASE StopReleases(c)
  <2>0. stopping' \in [Clients -> [list : Seq(Tunnel), next : Nat \ {0}]]
    <3>1. stopping[c] \in [list : Seq(Tunnel), next : Nat \ {0}]
      BY DEF RegistryType
    <3>2. stopping[c].next + 1 \in Nat \ {0}
      BY <3>1
    <3>3. [stopping[c] EXCEPT !.next = stopping[c].next + 1]
             \in [list : Seq(Tunnel), next : Nat \ {0}]
      BY <3>1, <3>2
    <3>4. stopping' = [stopping EXCEPT ![c] =
                         [stopping[c] EXCEPT !.next = stopping[c].next + 1]]
      BY <1>7 DEF StopReleases
    <3> QED BY <3>3, <3>4 DEF RegistryType
  <2>1. RegistryType'
    BY <1>7, <2>0 DEF StopReleases, RegistryType
  <2>2. ResourceType'
    BY <1>7 DEF StopReleases, ResourceType
  <2>3. WorkerType'
    BY <1>7 DEF StopReleases, WorkerType
  <2>4. WorkerInv'
    BY <1>7 DEF StopReleases, WorkerInv, ReservedInv, FeatureInv, LimiterInv, StarterInv
  <2> QED BY <2>1, <2>2, <2>3, <2>4
<1>8. CASE StopClears(c)
  <2>0. stopping' \in [Clients -> [list : Seq(Tunnel), next : Nat \ {0}]]
    <3>1. [list |-> <<>>, next |-> 1] \in [list : Seq(Tunnel), next : Nat \ {0}]
      OBVIOUS
    <3> QED BY <1>8, <3>1 DEF StopClears, RegistryType
  <2>1. RegistryType'
    <3>1. CASE reaper[c] = "stop1"
      BY <1>8, <2>0, <3>1 DEF StopClears, RegistryType
    <3>2. CASE reaper[c] # "stop1"
      BY <1>8, <2>0, <3>2 DEF StopClears, RegistryType
    <3> QED BY <3>1, <3>2
  <2>2. ResourceType'
    BY <1>8 DEF StopClears, ResourceType
  <2>3. WorkerType'
    BY <1>8 DEF StopClears, WorkerType
  <2>4. WorkerInv'
    <3>1. /\ reaper[c] # "off" /\ UNCHANGED <<session, pc>>
          /\ \A d \in Clients : d # c => reaper'[d] = reaper[d]
      BY <1>8 DEF StopClears, RegistryType
    <3>2. StarterInv'
      BY <3>1 DEF WorkerInv, StarterInv
    <3> QED BY <1>8, <3>2 DEF StopClears, WorkerInv, ReservedInv, FeatureInv, LimiterInv
  <2> QED BY <2>1, <2>2, <2>3, <2>4
<1>9. CASE RemoveClient(c)
  <2>1. tunnels[c] \in Seq(Tunnel)
    BY DEF ResourceType
  <2>2. RegistryType'
    BY <1>9, <2>1 DEF RemoveClient, RegistryType
  <2>3. ResourceType'
    BY <1>9 DEF RemoveClient, ResourceType
  <2>4. WorkerType'
    BY <1>9 DEF RemoveClient, WorkerType
  <2>5. WorkerInv'
    BY <1>9 DEF RemoveClient, WorkerInv, ReservedInv, FeatureInv, LimiterInv, StarterInv
  <2> QED BY <2>2, <2>3, <2>4, <2>5
<1> QED BY <1>1, <1>2, <1>3, <1>4, <1>5, <1>6, <1>7, <1>8, <1>9

\* A step of worker w inside its call, from one label between Lock and UnLock
\* to another, that leaves the other frames' ports and every service alone.
LEMMA MoveInside ==
  ASSUME CInv, NEW w \in Workers, pc[w] \in Locked, NEW l \in Locked,
         Goto(w, l), UNCHANGED callVars, UNCHANGED limiter,
         frame' \in [Workers -> Frame],
         \A v \in Workers : frame'[v].service = frame[v].service,
         \A v \in Workers : v # w => frame'[v].reserved = frame[v].reserved,
         frame'[w].reserved # None
           <=> l \in {"request", "wait", "release", "load", "store"}
  PROVE  RegistryType' /\ WorkerType' /\ WorkerInv'
<1> USE DEF CInv, TypeOK, callVars, Goto
<1>1. RegistryType'
  BY DEF RegistryType
<1>2. WorkerType'
  BY DEF WorkerType
<1>3. \A v \in Workers : v # w => pc'[v] = pc[v]
  BY DEF WorkerType
<1>4. pc'[w] = l
  BY DEF WorkerType
<1>5. ReservedInv'
  BY <1>3, <1>4 DEF WorkerInv, ReservedInv
<1>6. FeatureInv' /\ StarterInv'
  BY <1>3, <1>4 DEF WorkerInv, FeatureInv, StarterInv, Locked, Workers
<1>7. LimiterInv'
  BY <1>3, <1>4 DEF WorkerInv, LimiterInv
<1> QED BY <1>1, <1>2, <1>5, <1>6, <1>7 DEF WorkerInv

\* The fields of a worker's frame have their types.
LEMMA FrameFields ==
  ASSUME CInv, NEW w \in Workers
  PROVE  /\ frame[w] \in Frame /\ frame[w].client \in Clients
         /\ frame[w].port \in ClientPorts /\ frame[w].service \in Services
         /\ frame[w].list \in Seq(Tunnel)
         /\ frame[w].reserved \in ServerPorts \cup {None}
         /\ frame[w].result \in Tunnel \cup {None}
         /\ tunnels[frame[w].client] \in Seq(Tunnel)
  BY DEF CInv, TypeOK, WorkerType, ResourceType, Frame

\* Every step of a call keeps the control invariant.
LEMMA CInvCalls ==
  ASSUME CInv, NEW w \in Workers,
         \/ GetTunnelService(w) \/ Lock(w) \/ Check(w) \/ Reserve(w) \/ Request(w)
         \/ AgentConfirms(w) \/ Wait(w) \/ Release(w) \/ Load(w) \/ Store(w)
         \/ UnLock(w)
  PROVE  CInv'
<1> USE DEF CInv, TypeOK
<1> DEFINE SameServices == \A v \in Workers : frame'[v].service = frame[v].service
           OthersSame == \A v \in Workers : v # w => frame'[v].reserved = frame[v].reserved
           WFrame == frame' \in [Workers -> Frame] /\ SameServices /\ OthersSame
<1>0. CInv
  OBVIOUS
<1>1. CASE GetTunnelService(w)
  <2>1. startIndex' \in Services
    BY <1>1, ServicesAssumption DEF GetTunnelService, ResourceType, Services
  <2>2. RegistryType' /\ ResourceType'
    BY <1>1, <2>1 DEF GetTunnelService, RegistryType, ResourceType, callVars
  <2>3. frame' \in [Workers -> Frame] /\ frame'[w].reserved = frame[w].reserved
    BY ZenonT(60), <1>1, FrameFields DEF GetTunnelService, ResourceType, WorkerType, Frame
  <2>4. WorkerType'
    BY <1>1, <2>3 DEF GetTunnelService, WorkerType, Goto, callVars
  <2>5. WorkerInv'
    BY <1>1, <2>3 DEF GetTunnelService, WorkerType, WorkerInv, ReservedInv, FeatureInv,
       LimiterInv, StarterInv, Goto, Locked, callVars
  <2> QED BY <2>2, <2>4, <2>5
<1>2. CASE Lock(w)
  <2>1. RegistryType' /\ ResourceType'
    BY <1>2, FrameFields DEF Lock, RegistryType, ResourceType, callVars
  <2>2. WorkerType'
    BY <1>2 DEF Lock, WorkerType, Goto, Locked, callVars
  <2>3. limiter[frame[w].service] = None /\ None \notin Workers
    BY <1>2, NoneAssumption DEF Lock
  <2>4. LimiterInv'
    BY <1>2, <2>3, FrameFields DEF Lock, ResourceType, WorkerType, WorkerInv, LimiterInv,
       Goto, Locked
  <2>5. WorkerInv'
    BY <1>2, <2>4 DEF Lock, WorkerType, WorkerInv, ReservedInv, FeatureInv,
       StarterInv, Goto, Locked, callVars
  <2> QED BY <2>1, <2>2, <2>5
<1>3. CASE Check(w)
  <2>1. ResourceType' /\ pc[w] = "check"
    BY <1>3 DEF Check, ResourceType, callVars
  <2>2. frame[w].reserved = None
    BY <2>1 DEF WorkerInv, ReservedInv
  <2>3. ASSUME NEW i \in DOMAIN tunnels[frame[w].client], Goto(w, "unlock"),
               frame' = [frame EXCEPT ![w].result = tunnels[frame[w].client][i]]
        PROVE RegistryType' /\ WorkerType' /\ WorkerInv'
    <3>1. tunnels[frame[w].client][i] \in Tunnel
      BY FrameFields
    <3>2. WFrame /\ frame'[w].reserved = None
      BY ZenonT(60), <2>2, <2>3, <3>1, FrameFields DEF WorkerType, Frame
    <3> QED BY <1>0, <1>3, <2>1, <2>3, <3>2, MoveInside DEF Check, Locked
  <2>4. ASSUME Goto(w, "reserve"), UNCHANGED frame
        PROVE RegistryType' /\ WorkerType' /\ WorkerInv'
    <3>1. WFrame /\ frame'[w].reserved = None
      BY <2>2, <2>4 DEF WorkerType
    <3> QED BY <1>0, <1>3, <2>1, <2>4, <3>1, MoveInside DEF Check, Locked
  <2> QED BY <1>3, <2>1, <2>3, <2>4 DEF Check
<1>4. CASE Reserve(w)
  <2>1. ResourceType' /\ pc[w] = "reserve"
    BY <1>4 DEF Reserve, ResourceType, callVars
  <2>2. frame[w].reserved = None
    BY <2>1 DEF WorkerInv, ReservedInv
  <2>3. ASSUME NEW p \in ServerPorts, Goto(w, "request"),
               frame' = [frame EXCEPT ![w].reserved = p]
        PROVE RegistryType' /\ WorkerType' /\ WorkerInv'
    <3>1. WFrame /\ frame'[w].reserved # None
      BY <2>3, FrameFields, NoneAssumption DEF WorkerType, Frame
    <3> QED BY <1>0, <1>4, <2>1, <2>3, <3>1, MoveInside DEF Reserve, Locked
  <2>4. ASSUME Goto(w, "unlock"), UNCHANGED frame
        PROVE RegistryType' /\ WorkerType' /\ WorkerInv'
    <3>1. WFrame /\ frame'[w].reserved = None
      BY <2>2, <2>4 DEF WorkerType
    <3> QED BY <1>0, <1>4, <2>1, <2>4, <3>1, MoveInside DEF Reserve, Locked
  <2> QED BY <1>4, <2>1, <2>3, <2>4 DEF Reserve
<1>5. CASE Request(w)
  <2>1. ResourceType' /\ pc[w] = "request"
    BY <1>5 DEF Request, ResourceType, callVars
  <2>2. frame[w].reserved # None
    BY <2>1 DEF WorkerInv, ReservedInv
  <2>3. ASSUME NEW l \in {"wait", "release"}, Goto(w, l), UNCHANGED frame
        PROVE RegistryType' /\ WorkerType' /\ WorkerInv'
    <3>1. WFrame /\ frame'[w].reserved # None
      BY <2>2, <2>3 DEF WorkerType
    <3> QED BY <1>0, <1>5, <2>1, <2>3, <3>1, MoveInside DEF Request, Locked
  <2>4. ASSUME Goto(w, "unlock"), frame' = [frame EXCEPT ![w].reserved = None]
        PROVE RegistryType' /\ WorkerType' /\ WorkerInv'
    <3>1. WFrame /\ frame'[w].reserved = None
      BY <2>4, FrameFields DEF WorkerType, Frame
    <3> QED BY <1>0, <1>5, <2>1, <2>4, <3>1, MoveInside DEF Request, Locked
  <2> QED BY <1>5, <2>1, <2>3, <2>4 DEF Request
<1>6. CASE AgentConfirms(w)
  <2>1. ResourceType' /\ RegistryType'
    BY <1>6 DEF AgentConfirms, ResourceType, RegistryType, callVars
  <2>2. frame' \in [Workers -> Frame]
        /\ \A v \in Workers : /\ frame'[v].reserved = frame[v].reserved
                              /\ frame'[v].service = frame[v].service
    BY <1>6, FrameFields DEF AgentConfirms, WorkerType, Frame
  <2>3. WorkerType' /\ WorkerInv'
    BY <1>6, <2>2 DEF AgentConfirms, WorkerType, WorkerInv, ReservedInv, FeatureInv,
       LimiterInv, StarterInv, callVars
  <2> QED BY <2>1, <2>3
<1>7. CASE Wait(w)
  <2>1. ResourceType' /\ pc[w] = "wait" /\ UNCHANGED frame
    BY <1>7 DEF Wait, ResourceType, callVars
  <2>2. WFrame /\ frame'[w].reserved # None
    BY <2>1 DEF WorkerInv, ReservedInv, WorkerType
  <2>3. ASSUME NEW l \in {"load", "release"}, Goto(w, l)
        PROVE RegistryType' /\ WorkerType' /\ WorkerInv'
    BY <1>0, <1>7, <2>1, <2>2, <2>3, MoveInside DEF Wait, Locked
  <2> QED BY <1>7, <2>1, <2>3 DEF Wait
<1>8. CASE Release(w)
  <2>1. ResourceType' /\ pc[w] = "release"
    BY <1>8 DEF Release, ResourceType, callVars
  <2>2. WFrame /\ frame'[w].reserved = None
    BY <1>8, FrameFields DEF Release, WorkerType, Frame
  <2>3. RegistryType' /\ WorkerType' /\ WorkerInv'
    BY <1>0, <1>8, <2>1, <2>2, MoveInside DEF Release, Locked
  <2> QED BY <2>1, <2>3
<1>9. CASE Load(w)
  <2>1. ResourceType' /\ pc[w] = "load"
    BY <1>9 DEF Load, ResourceType, callVars
  <2>2. WFrame /\ frame'[w].reserved = frame[w].reserved
    BY <1>9, FrameFields DEF Load, WorkerType, Frame
  <2>3. frame'[w].reserved # None
    BY <2>1, <2>2 DEF WorkerInv, ReservedInv
  <2>4. RegistryType' /\ WorkerType' /\ WorkerInv'
    BY <1>0, <1>9, <2>1, <2>2, <2>3, MoveInside DEF Load, Locked
  <2> QED BY <2>1, <2>4
<1>10. CASE Store(w)
  <2>1. pc[w] = "store" /\ frame[w].reserved \in ServerPorts
    BY <1>10, FrameFields DEF Store, WorkerInv, ReservedInv
  <2>2. NewTunnel(w) \in Tunnel
    BY <2>1, FrameFields DEF NewTunnel, Tunnel
  <2>3. Append(frame[w].list, NewTunnel(w)) \in Seq(Tunnel)
    BY <2>2, FrameFields
  <2>4. ResourceType'
    BY <1>10, <2>3 DEF Store, ResourceType, callVars
  <2>5. <<>> \in Seq(Tunnel)
    OBVIOUS
  <2>6. WFrame /\ frame'[w].reserved = None
    <3> DEFINE f == [frame[w] EXCEPT !.reserved = None, !.list = <<>>,
                                     !.result = NewTunnel(w)]
    <3>1. f \in Frame /\ f.reserved = None /\ f.service = frame[w].service
      BY <2>2, <2>5, FrameFields DEF Frame
    <3>2. frame' = [frame EXCEPT ![w] = f]
      BY <1>10 DEF Store
    <3> HIDE DEF f
    <3> QED BY <3>1, <3>2 DEF WorkerType
  <2>7. RegistryType' /\ WorkerType' /\ WorkerInv'
    BY <1>0, <1>10, <2>1, <2>6, MoveInside DEF Store, Locked
  <2> QED BY <2>4, <2>7
<1>11. CASE UnLock(w)
  <2>0. pc[w] = "unlock" /\ limiter[frame[w].service] = w /\ frame[w].reserved = None
    BY <1>11 DEF UnLock, WorkerInv, LimiterInv, ReservedInv, Locked
  <2>1. ResourceType' /\ RegistryType'
    BY <1>11, FrameFields DEF UnLock, ResourceType, RegistryType
  <2>2. \A v \in Workers : v # w /\ pc[v] \in Locked => frame[v].service # frame[w].service
    BY <2>0 DEF WorkerInv, LimiterInv
  <2>3. CASE w \in Clients /\ frame[w].result # None
    <3>1. Goto(w, "advertise") /\ UNCHANGED <<frame, feature>>
      BY <1>11, <2>3 DEF UnLock
    <3>2. WorkerType'
      BY <3>1 DEF WorkerType, Goto
    <3>3. LimiterInv'
      BY <1>11, <2>2, <3>1, FrameFields DEF UnLock, ResourceType, WorkerType, WorkerInv,
         LimiterInv, Goto, Locked
    <3>4. ReservedInv' /\ FeatureInv' /\ StarterInv'
      BY <1>11, <2>0, <3>1 DEF UnLock, WorkerType, WorkerInv, ReservedInv, FeatureInv,
         StarterInv, Goto, Workers
    <3> QED BY <2>1, <3>2, <3>3, <3>4 DEF WorkerInv
  <2>4. CASE ~(w \in Clients /\ frame[w].result # None)
    <3>1. /\ Goto(w, AfterCall(w))
          /\ frame' = [frame EXCEPT ![w] = IdleFrame(w)]
          /\ feature' = [f \in Clients |-> IF f = w THEN feature[f] + 1 ELSE feature[f]]
      BY <1>11, <2>4 DEF UnLock
    <3>2. frame' \in [Workers -> Frame] /\ frame'[w].reserved = None
      BY <3>1, IdleFrameType DEF WorkerType
    <3>3. AfterCall(w) \in {"idle", "feature"} /\ (w \in Clients => AfterCall(w) = "feature")
      BY WorkersAssumption DEF AfterCall
    <3>4. w \in Clients => feature[w] \in Features /\ session[w] \notin {"none", "nil"}
      BY <2>0 DEF WorkerInv, FeatureInv, StarterInv
    <3>5. WorkerType'
      BY <3>1, <3>2, <3>3, <3>4, ServicesAssumption DEF WorkerType, Goto, Features
    <3>6. LimiterInv'
      BY <1>11, <2>2, <3>1, <3>3, FrameFields DEF UnLock, ResourceType, WorkerType,
         WorkerInv, LimiterInv, Goto, Locked
    <3>7. ReservedInv'
      BY <2>0, <3>1, <3>2, <3>3 DEF WorkerType, WorkerInv, ReservedInv, Goto
    <3>8. FeatureInv' /\ StarterInv'
      BY <1>11, <2>0, <3>1, <3>3, <3>4 DEF UnLock, WorkerType, WorkerInv, FeatureInv,
         StarterInv, Goto, Workers
    <3> QED BY <2>1, <3>5, <3>6, <3>7, <3>8 DEF WorkerInv
  <2> QED BY <2>3, <2>4
<1> QED BY <1>1, <1>2, <1>3, <1>4, <1>5, <1>6, <1>7, <1>8, <1>9, <1>10, <1>11

\* A handler's call on a registered client keeps the control invariant.
LEMMA CInvPost == ASSUME CInv, NEW h \in Handlers, PostTunnel(h) PROVE CInv'
<1> USE DEF CInv, TypeOK, PostTunnel
<1>0. h \in Workers /\ h \notin Clients
  BY WorkersAssumption DEF Workers
<1>1. RegistryType' /\ ResourceType'
  BY DEF RegistryType, ResourceType
<1>2. frame' \in [Workers -> Frame] /\ frame'[h].reserved = None
  BY <1>0, NewFrameType DEF WorkerType, RegistryType
<1>3. \A v \in Workers : v # h => frame'[v] = frame[v]
  BY DEF WorkerType
<1>4. WorkerType'
  BY <1>0, <1>2 DEF WorkerType, Goto
<1>5. WorkerInv'
  BY <1>0, <1>2, <1>3 DEF WorkerType, WorkerInv, ReservedInv, FeatureInv, LimiterInv,
     StarterInv, Goto, Locked, Workers
<1> QED BY <1>1, <1>4, <1>5

\* The control invariant holds in every reachable state.
THEOREM CInvHolds == Spec => []CInv
<1>1. CInv /\ [Next]_vars => CInv'
  <2> SUFFICES ASSUME CInv, [Next]_vars PROVE CInv'
    OBVIOUS
  <2>1. CASE UNCHANGED vars
    BY <2>1 DEF vars, CInv, TypeOK, RegistryType, ResourceType, WorkerType, WorkerInv,
       ReservedInv, FeatureInv, LimiterInv, StarterInv
  <2>2. CASE Next
    BY <2>2, CInvClients, CInvCalls, CInvPost DEF Next, CallStep, StartStep, ReapStep
  <2> QED BY <2>1, <2>2
<1> QED BY CInvInit, <1>1, PTL DEF Spec

\* Every variable of the server keeps its type.
THEOREM TypeCorrect == Spec => []TypeOK
<1>1. CInv => TypeOK
  BY DEF CInv
<1> QED BY CInvHolds, <1>1, PTL

\* However many workers and services there are, two workers between Lock and
\* UnLock never share a reverse SSH service.
THEOREM ServiceMutexHolds == Spec => []ServiceMutex
<1>1. CInv => ServiceMutex
  BY DEF CInv, WorkerInv, LimiterInv, ServiceMutex
<1> QED BY CInvHolds, <1>1, PTL

-----------------------------------------------------------------------------
\* While Stop walks its copy of a list nothing is taken out of the list itself:
\* unless an update was lost, the copy is a prefix of it.
PrefixInv ==
  \A c \in Clients : reaper[c] \in {"stop1", "stop2"} =>
    /\ stopping[c].next <= Len(stopping[c].list) + 1
    /\ ~raced => /\ Len(stopping[c].list) <= Len(tunnels[c])
                 /\ \A i \in 1..Len(stopping[c].list) :
                      tunnels[c][i] = stopping[c].list[i]

\* The inductive invariant behind the accounting of the ports.
AInv == CInv /\ PrefixInv /\ PortAccounting

\* A step that touches neither the table, the lists, the reapers nor the
\* reserved ports keeps the accounting.
LEMMA SameView ==
  ASSUME PrefixInv, PortAccounting, raced' = raced,
         UNCHANGED <<portsInUse, tunnels, reaper, stopping>>,
         \A w \in Workers : frame'[w].reserved = frame[w].reserved
  PROVE  (PrefixInv /\ PortAccounting)'
<1>1. PrefixInv'
  BY DEF PrefixInv
<1>2. /\ \A c \in Clients : Standing(c)' = Standing(c) /\ Listed(c)' = Listed(c)
      /\ AllListed' = AllListed
  BY DEF Standing, Listed, AllListed
<1>3. InHand' = InHand
  BY DEF InHand
<1>4. PortAccounting'
  BY <1>2, <1>3 DEF PortAccounting
<1> QED BY <1>1, <1>4

\* The steps that do not concern ports.
LEMMA AInvQuiet ==
  ASSUME AInv, CInv',
         \/ \E h \in Handlers : PostTunnel(h)
         \/ \E w \in Workers : \/ GetTunnelService(w) \/ Lock(w) \/ Check(w)
                               \/ AgentConfirms(w) \/ Wait(w) \/ Load(w) \/ UnLock(w)
         \/ \E c \in Clients : AddClient(c) \/ RequestFeature(c) \/ Advertise(c) \/ Disconnect(c)
         \/ UNCHANGED vars
  PROVE  AInv'
<1> USE DEF AInv, CInv, TypeOK, WorkerType, WorkerInv, ReservedInv, callVars, workVars
<1>1. raced' = raced /\ UNCHANGED <<portsInUse, tunnels, reaper, stopping>>
  BY DEF PostTunnel, GetTunnelService, Lock, Check, AgentConfirms, Wait, Load, UnLock,
         AddClient, RequestFeature, Advertise, Disconnect, vars
<1>2. \A w \in Workers : frame'[w].reserved = frame[w].reserved
  <2>1. ASSUME NEW h \in Handlers, PostTunnel(h) PROVE <1>2
    <3>1. h \in Workers /\ frame[h].reserved = None
      BY <2>1 DEF PostTunnel, Workers
    <3> QED BY <2>1, <3>1, NewFrameType DEF PostTunnel, RegistryType
  <2>2. ASSUME NEW w \in Workers,
               \/ GetTunnelService(w) \/ Lock(w) \/ AgentConfirms(w) \/ Wait(w) \/ Load(w)
        PROVE <1>2
    <3>1. CASE Lock(w) \/ Wait(w)
      BY <3>1 DEF Lock, Wait
    <3>2. CASE GetTunnelService(w)
      BY <3>2, FrameFields DEF GetTunnelService, Frame
    <3>3. CASE AgentConfirms(w)
      BY <3>3, FrameFields DEF AgentConfirms, Frame
    <3>4. CASE Load(w)
      BY <3>4, FrameFields DEF Load, Frame
    <3> QED BY <2>2, <3>1, <3>2, <3>3, <3>4
  <2>3. ASSUME NEW w \in Workers, Check(w) PROVE <1>2
    BY SMTT(30), <2>3, FrameFields DEF Check, Frame
  <2>4. ASSUME NEW w \in Workers, UnLock(w) PROVE <1>2
    <3>1. frame[w].reserved = None
      BY <2>4 DEF UnLock
    <3> QED BY <2>4, <3>1, IdleFrameType DEF UnLock
  <2>5. ASSUME NEW c \in Clients, RequestFeature(c) \/ Advertise(c) PROVE <1>2
    <3>1. c \in Workers /\ frame[c].reserved = None
      BY <2>5 DEF RequestFeature, Advertise, Workers
    <3> QED BY <2>5, <3>1, NewFrameType, IdleFrameType DEF RequestFeature, Advertise
  <2>6. ASSUME UNCHANGED frame PROVE <1>2
    BY <2>6
  <2> QED BY <2>1, <2>2, <2>3, <2>4, <2>5, <2>6 DEF AddClient, Disconnect, vars
<1> QED BY <1>1, <1>2, SameView

\* ReservePort books a port nobody answers for.
LEMMA AInvReserve ==
  ASSUME AInv, CInv', NEW w \in Workers, Reserve(w) PROVE AInv'
<1> USE DEF AInv, CInv, TypeOK, WorkerType, callVars
<1>0. pc[w] = "reserve" /\ frame[w].reserved = None
  BY DEF Reserve, WorkerInv, ReservedInv
<1>1. CASE UNCHANGED <<portsInUse, frame>>
  BY <1>1, SameView DEF Reserve
<1>2. ASSUME NEW p \in ServerPorts \ portsInUse, portsInUse' = portsInUse \cup {p},
             frame' = [frame EXCEPT ![w].reserved = p]
      PROVE AInv'
  <2>1. frame'[w].reserved = p /\ \A v \in Workers : v # w => frame'[v].reserved = frame[v].reserved
    BY <1>2, FrameFields DEF Frame
  <2>2. /\ \A c \in Clients : Standing(c)' = Standing(c) /\ Listed(c)' = Listed(c)
        /\ AllListed' = AllListed
    BY DEF Reserve, Standing, Listed, AllListed
  <2>3. InHand' = InHand \cup {p}
    <3>1. p # None
      BY NoneAssumption
    <3> QED BY <1>0, <2>1, <3>1 DEF InHand
  <2>4. PrefixInv'
    BY DEF Reserve, PrefixInv
  <2>5. CASE raced
    BY <2>4, <2>5 DEF Reserve, PortAccounting
  <2>6. CASE ~raced
    <3>1. portsInUse' = AllListed' \cup InHand'
      BY <1>2, <2>2, <2>3, <2>6 DEF PortAccounting
    <3>2. \A c \in Clients : Listed(c)' \cap InHand' = {}
      BY <1>2, <2>2, <2>3, <2>6 DEF PortAccounting, AllListed
    <3>3. \A u, v \in Workers : u # v /\ frame'[u].reserved # None
                                  => frame'[u].reserved # frame'[v].reserved
      <4>1. \A v \in Workers : frame[v].reserved # p
        <5>1. p \notin InHand /\ p # None
          BY <1>2, <2>6, NoneAssumption DEF PortAccounting
        <5> QED BY <5>1 DEF InHand
      <4> QED BY <2>1, <2>6, <4>1 DEF PortAccounting
    <3>4. PortAccounting'
      BY <2>2, <2>6, <3>1, <3>2, <3>3 DEF PortAccounting, Reserve
    <3> QED BY <2>4, <3>4
  <2> QED BY <2>5, <2>6
<1> QED BY <1>1, <1>2 DEF Reserve

\* An error return releases exactly the port of its own call.
LEMMA AInvRelease ==
  ASSUME AInv, CInv', NEW w \in Workers, Release(w) PROVE AInv'
<1> USE DEF AInv, CInv, TypeOK, WorkerType, callVars
<1>0. pc[w] = "release" /\ frame[w].reserved # None
  BY DEF Release, WorkerInv, ReservedInv
<1>1. frame'[w].reserved = None /\ \A v \in Workers : v # w => frame'[v].reserved = frame[v].reserved
  BY FrameFields DEF Release, Frame
<1>2. /\ \A c \in Clients : Standing(c)' = Standing(c) /\ Listed(c)' = Listed(c)
      /\ AllListed' = AllListed
  BY DEF Release, Standing, Listed, AllListed
<1>3. PrefixInv'
  BY DEF Release, PrefixInv
<1>4. CASE raced
  BY <1>3, <1>4 DEF Release, PortAccounting
<1>5. CASE ~raced
  <2>1. InHand' = InHand \ {frame[w].reserved}
    BY <1>0, <1>1, <1>5 DEF InHand, PortAccounting
  <2>2. frame[w].reserved \in InHand
    BY <1>0 DEF InHand
  <2>3. portsInUse' = AllListed' \cup InHand'
    <3>1. frame[w].reserved \notin AllListed
      BY <1>5, <2>2 DEF PortAccounting, AllListed
    <3> QED BY <1>2, <1>5, <2>1, <2>2, <3>1 DEF PortAccounting, Release
  <2>4. PortAccounting'
    BY <1>1, <1>2, <1>5, <2>1, <2>3 DEF PortAccounting, Release
  <2> QED BY <1>3, <2>4
<1> QED BY <1>4, <1>5

\* A request is sent, refused, or panics: the panic is recorded.
LEMMA AInvRequest ==
  ASSUME AInv, CInv', NEW w \in Workers, Request(w) PROVE AInv'
<1> USE DEF AInv, callVars
<1>1. CASE UNCHANGED <<frame, raced>>
  BY <1>1, SameView DEF Request
<1>2. CASE raced'
  BY <1>2 DEF Request, PrefixInv, PortAccounting
<1> QED BY <1>1, <1>2 DEF Request

\* The shape of a client's list and of the reaper's walk over it.
LEMMA ListShape ==
  ASSUME CInv, NEW c \in Clients
  PROVE  /\ tunnels[c] \in Seq(Tunnel) /\ Len(tunnels[c]) \in Nat
         /\ DOMAIN tunnels[c] = 1..Len(tunnels[c])
         /\ stopping[c].next \in Nat \ {0}
         /\ stopping[c].list \in Seq(Tunnel) /\ Len(stopping[c].list) \in Nat
         /\ stopping[c] = [list |-> stopping[c].list, next |-> stopping[c].next]
<1>1. tunnels[c] \in Seq(Tunnel)
  BY DEF CInv, TypeOK, ResourceType
<1>2. stopping[c] \in [list : Seq(Tunnel), next : Nat \ {0}]
  BY DEF CInv, TypeOK, RegistryType
<1> QED BY <1>1, <1>2

\* The functions indexed by clients, for the steps that change one entry.
LEMMA Domains ==
  ASSUME CInv
  PROVE  DOMAIN tunnels = Clients /\ DOMAIN stopping = Clients /\ DOMAIN reaper = Clients
         /\ tunnels = [c \in Clients |-> tunnels[c]]
         /\ stopping = [c \in Clients |-> stopping[c]]
         /\ reaper = [c \in Clients |-> reaper[c]]
BY DEF CInv, TypeOK, ResourceType, RegistryType

\* Stop begins: it will walk the list as it is.
LEMMA AInvStopBegins ==
  ASSUME AInv, CInv', NEW c \in Clients,
         UNCHANGED <<portsInUse, tunnels, frame, raced>>,
         reaper[c] \notin {"stop1", "stop2"},
         NEW l \in {"stop1", "stop2"}, reaper' = [reaper EXCEPT ![c] = l],
         stopping' = [stopping EXCEPT ![c] = [list |-> tunnels[c], next |-> 1]]
  PROVE  AInv'
<1>1. /\ reaper'[c] = l /\ stopping'[c].list = tunnels[c] /\ stopping'[c].next = 1
      /\ \A d \in Clients : d # c => reaper'[d] = reaper[d] /\ stopping'[d] = stopping[d]
  BY Domains DEF AInv
<1>2. Len(tunnels[c]) \in Nat /\ DOMAIN tunnels[c] = 1..Len(tunnels[c])
  BY ListShape DEF AInv
<1>3. PrefixInv'
  <2> SUFFICES ASSUME NEW d \in Clients, reaper'[d] \in {"stop1", "stop2"}
               PROVE /\ stopping'[d].next <= Len(stopping'[d].list) + 1
                     /\ ~raced => /\ Len(stopping'[d].list) <= Len(tunnels[d])
                                  /\ \A i \in 1..Len(stopping'[d].list) :
                                       tunnels[d][i] = stopping'[d].list[i]
    BY DEF PrefixInv
  <2>1. CASE d = c
    BY <1>1, <1>2, <2>1
  <2>2. CASE d # c
    BY <1>1, <2>2 DEF AInv, PrefixInv
  <2> QED BY <2>1, <2>2
<1>4. \A d \in Clients : Standing(d)' = Standing(d)
  <2> SUFFICES ASSUME NEW d \in Clients PROVE Standing(d)' = Standing(d)
    OBVIOUS
  <2>1. CASE d = c
    <3>1. Standing(c) = 1..Len(tunnels[c])
      BY <1>2 DEF Standing
    <3>2. Standing(c)' = {i \in 1..Len(tunnels[c]) : i >= 1}
      BY <1>1, <1>2 DEF Standing
    <3> QED BY <1>2, <2>1, <3>1, <3>2
  <2>2. CASE d # c
    BY <1>1, <2>2 DEF Standing
  <2> QED BY <2>1, <2>2
<1>5. \A d \in Clients : Listed(d)' = Listed(d)
  BY <1>4 DEF Listed
<1>6. AllListed' = AllListed /\ InHand' = InHand
  BY <1>5 DEF AllListed, InHand
<1>7. PortAccounting'
  BY <1>4, <1>5, <1>6 DEF AInv, PortAccounting
<1> QED BY <1>3, <1>7 DEF AInv

\* StartClient makes the reaper wait for requests: nothing changes for ports.
LEMMA AInvStart == ASSUME AInv, CInv', NEW c \in Clients, StartClient(c),
                          reaper[c] \notin {"stop1", "stop2"}
                   PROVE AInv'
<1>1. /\ reaper'[c] = "accept" /\ \A d \in Clients : d # c => reaper'[d] = reaper[d]
      /\ UNCHANGED <<portsInUse, tunnels, stopping, frame, raced>>
  BY Domains DEF AInv, StartClient
<1>2. PrefixInv'
  BY <1>1 DEF AInv, PrefixInv
<1>3. \A d \in Clients : Standing(d)' = Standing(d)
  BY <1>1 DEF Standing
<1>4. \A d \in Clients : Listed(d)' = Listed(d)
  BY <1>1, <1>3 DEF Listed
<1>5. AllListed' = AllListed /\ InHand' = InHand
  BY <1>1, <1>4 DEF AllListed, InHand
<1>6. PortAccounting'
  BY <1>1, <1>3, <1>4, <1>5 DEF AInv, PortAccounting
<1> QED BY <1>2, <1>6 DEF AInv

\* Stop clears a list whose ports are all released.
LEMMA AInvStopClears ==
  ASSUME AInv, CInv', NEW c \in Clients, StopClears(c) PROVE AInv'
<1>0. /\ reaper[c] \in {"stop1", "stop2"} /\ UNCHANGED <<portsInUse, frame>>
      /\ stopping[c].next > Len(stopping[c].list)
  BY DEF StopClears, workVars
<1>1. /\ reaper'[c] \notin {"stop1", "stop2"}
      /\ \A d \in Clients : d # c => /\ reaper'[d] = reaper[d] /\ stopping'[d] = stopping[d]
                                     /\ tunnels'[d] = tunnels[d]
      /\ tunnels'[c] = <<>>
  BY Domains DEF AInv, StopClears
<1>2. ~raced' => ~raced /\ tunnels[c] = stopping[c].list
  BY DEF StopClears
<1>3. PrefixInv'
  BY <1>1, <1>2 DEF AInv, PrefixInv
<1>4. CASE raced'
  BY <1>3, <1>4 DEF AInv, PortAccounting
<1>5. CASE ~raced'
  <2>1. Standing(c) = {}
    <3>1. /\ DOMAIN tunnels[c] = 1..Len(tunnels[c]) /\ Len(tunnels[c]) \in Nat
          /\ stopping[c].next \in Nat
      BY ListShape DEF AInv
    <3>2. Standing(c) = {i \in 1..Len(tunnels[c]) : i >= stopping[c].next}
      BY <1>0, <3>1 DEF Standing
    <3>3. stopping[c].next > Len(tunnels[c])
      BY <1>0, <1>2, <1>5
    <3> HIDE DEF Standing
    <3> QED BY <3>1, <3>2, <3>3
  <2>2. Standing(c)' = {}
    <3>1. DOMAIN tunnels'[c] = {}
      BY <1>1
    <3> QED BY <1>1, <3>1 DEF Standing
  <2>3. \A d \in Clients : d # c => Standing(d)' = Standing(d)
    BY <1>1 DEF Standing
  <2>4. \A d \in Clients : Standing(d)' = Standing(d) /\ Listed(d)' = Listed(d)
    BY <1>1, <2>1, <2>2, <2>3 DEF Listed
  <2>5. AllListed' = AllListed /\ InHand' = InHand
    BY <1>0, <2>4 DEF AllListed, InHand
  <2>6. \A d, e \in Clients : \A i \in Standing(d)', j \in Standing(e)' :
          tunnels'[d][i].serverPort = tunnels'[e][j].serverPort => d = e /\ i = j
    BY <1>1, <1>2, <1>5, <2>2, <2>4 DEF AInv, PortAccounting
  <2>7. PortAccounting'
    BY <1>0, <1>2, <1>5, <2>4, <2>5, <2>6 DEF AInv, PortAccounting
  <2> QED BY <1>3, <2>7 DEF AInv
<1> QED BY <1>4, <1>5

\* Stop releases the port of the first standing entry, and of no other.
LEMMA AInvStopReleases ==
  ASSUME AInv, CInv', NEW c \in Clients, StopReleases(c) PROVE AInv'
<1>0. PICK k \in Nat \ {0} : k = stopping[c].next
  BY ListShape DEF AInv
<1>1. PICK p : p = stopping[c].list[k].serverPort
  OBVIOUS
<1>2. /\ k <= Len(stopping[c].list) /\ Len(stopping[c].list) \in Nat
      /\ reaper[c] \in {"stop1", "stop2"}
  BY <1>0, ListShape DEF AInv, StopReleases
<1>3. UNCHANGED <<tunnels, frame, raced, reaper>> /\ portsInUse' = portsInUse \ {p}
  BY <1>0, <1>1 DEF StopReleases, workVars
<1>4. /\ stopping'[c].list = stopping[c].list /\ stopping'[c].next = k + 1
      /\ \A d \in Clients : d # c => stopping'[d] = stopping[d]
  <2>1. stopping' = [stopping EXCEPT ![c] = [stopping[c] EXCEPT !.next = stopping[c].next + 1]]
    BY DEF StopReleases
  <2> QED BY <1>0, <2>1, Domains, ListShape DEF AInv
<1>5. PrefixInv'
  <2> SUFFICES ASSUME NEW d \in Clients, reaper[d] \in {"stop1", "stop2"}
               PROVE /\ stopping'[d].next <= Len(stopping'[d].list) + 1
                     /\ ~raced => /\ Len(stopping'[d].list) <= Len(tunnels[d])
                                  /\ \A i \in 1..Len(stopping'[d].list) :
                                       tunnels[d][i] = stopping'[d].list[i]
    BY <1>3 DEF PrefixInv
  <2>1. CASE d = c
    BY <1>2, <1>4, <2>1 DEF AInv, PrefixInv
  <2>2. CASE d # c
    BY <1>4, <2>2 DEF AInv, PrefixInv
  <2> QED BY <2>1, <2>2
<1>6. CASE raced
  BY <1>3, <1>5, <1>6 DEF AInv, PortAccounting
<1>7. CASE ~raced
  <2>1. /\ DOMAIN tunnels[c] = 1..Len(tunnels[c]) /\ Len(tunnels[c]) \in Nat
        /\ k \in DOMAIN tunnels[c] /\ tunnels[c][k].serverPort = p
    <3>1. DOMAIN tunnels[c] = 1..Len(tunnels[c]) /\ Len(tunnels[c]) \in Nat
      BY ListShape DEF AInv
    <3>2. k \in 1..Len(stopping[c].list) /\ Len(stopping[c].list) <= Len(tunnels[c])
      BY <1>2, <1>7 DEF AInv, PrefixInv
    <3> QED BY <1>1, <1>2, <1>7, <3>1, <3>2 DEF AInv, PrefixInv
  <2>2. Standing(c)' = Standing(c) \ {k} /\ k \in Standing(c)
    <3>1. Standing(c) = {i \in 1..Len(tunnels[c]) : i >= k}
      BY <1>0, <1>2, <2>1 DEF Standing
    <3>2. Standing(c)' = {i \in 1..Len(tunnels[c]) : i >= k + 1}
      BY <1>2, <1>3, <1>4, <2>1 DEF Standing
    <3> QED BY <2>1, <3>1, <3>2
  <2>3. \A d \in Clients : d # c => Standing(d)' = Standing(d)
    BY <1>3, <1>4 DEF Standing
  <2>4. \A d \in Clients : Standing(d)' \subseteq Standing(d)
    BY <2>2, <2>3
  <2>5. \A d \in Clients : \A i \in Standing(d) :
          tunnels[d][i].serverPort = p <=> d = c /\ i = k
    BY <1>7, <2>1, <2>2 DEF AInv, PortAccounting
  <2>6. \A d \in Clients : Listed(d)' = Listed(d) \ {p}
    <3> SUFFICES ASSUME NEW d \in Clients PROVE Listed(d)' = Listed(d) \ {p}
      OBVIOUS
    <3>1. CASE d = c
      BY ZenonT(60), <1>3, <2>2, <2>5, <3>1 DEF Listed
    <3>2. CASE d # c
      BY <1>3, <2>3, <2>5, <3>2 DEF Listed
    <3> QED BY <3>1, <3>2
  <2>7. AllListed' = AllListed \ {p}
    BY <2>6 DEF AllListed
  <2>8. InHand' = InHand /\ p \notin InHand
    <3>1. p \in Listed(c)
      BY <2>1, <2>2 DEF Listed
    <3> QED BY <1>3, <1>7, <3>1 DEF AInv, InHand, PortAccounting
  <2>9. portsInUse' = AllListed' \cup InHand'
    BY <1>3, <1>7, <2>7, <2>8 DEF AInv, PortAccounting
  <2>10. PortAccounting'
    BY <1>3, <1>7, <2>4, <2>6, <2>8, <2>9 DEF AInv, PortAccounting
  <2> QED BY <1>5, <2>10 DEF AInv
<1> QED BY <1>6, <1>7

\* An append that loses nothing moves its port from the call to the list.
LEMMA AInvStore ==
  ASSUME AInv, CInv', NEW w \in Workers, Store(w) PROVE AInv'
<1>0. PICK e \in Clients : e = frame[w].client
  BY FrameFields DEF AInv
<1>1. PICK n \in Nat : n = Len(tunnels[e])
  BY ListShape DEF AInv
<1>2. PICK p : p = frame[w].reserved
  OBVIOUS
<1>3. PICK t : t = NewTunnel(w)
  OBVIOUS
<1>4. p # None /\ t.serverPort = p
  BY <1>2, <1>3 DEF AInv, CInv, Store, WorkerInv, ReservedInv, NewTunnel
<1>5. UNCHANGED <<portsInUse, reaper, stopping>>
  BY DEF Store, callVars
<1>6. frame'[w].reserved = None /\ \A v \in Workers : v # w => frame'[v].reserved = frame[v].reserved
  BY FrameFields DEF AInv, CInv, TypeOK, WorkerType, Store, Frame
<1>7. CASE raced'
  BY <1>5, <1>7 DEF AInv, PrefixInv, PortAccounting
<1>8. CASE ~raced'
  <2>1. ~raced /\ tunnels[e] = frame[w].list
    BY <1>0, <1>8 DEF Store
  <2>2. tunnels' = [tunnels EXCEPT ![e] = Append(tunnels[e], t)]
    BY <1>0, <1>3, <2>1 DEF Store
  <2>3. /\ DOMAIN tunnels[e] = 1..n /\ DOMAIN tunnels'[e] = 1..(n + 1)
        /\ Len(tunnels'[e]) = n + 1
        /\ \A i \in 1..n : tunnels'[e][i] = tunnels[e][i]
        /\ tunnels'[e][n + 1] = t
        /\ \A c \in Clients : c # e => tunnels'[c] = tunnels[c]
    BY <1>1, <2>2, Domains, ListShape DEF AInv
  <2>4. PrefixInv'
    <3> SUFFICES ASSUME NEW c \in Clients, reaper[c] \in {"stop1", "stop2"}
                 PROVE /\ Len(stopping[c].list) <= Len(tunnels'[c])
                       /\ \A i \in 1..Len(stopping[c].list) :
                            tunnels'[c][i] = stopping[c].list[i]
      BY <1>5, <1>8, <2>1 DEF AInv, PrefixInv
    <3>1. /\ Len(stopping[c].list) <= Len(tunnels[c]) /\ Len(stopping[c].list) \in Nat
          /\ \A i \in 1..Len(stopping[c].list) : tunnels[c][i] = stopping[c].list[i]
      BY <2>1, ListShape DEF AInv, PrefixInv
    <3>2. CASE c = e
      BY <1>1, <2>3, <3>1, <3>2
    <3>3. CASE c # e
      BY <2>3, <3>1, <3>3
    <3> QED BY <3>2, <3>3
  <2>5. \A c \in Clients : c # e => Standing(c)' = Standing(c) /\ Listed(c)' = Listed(c)
    BY <1>5, <2>3 DEF Standing, Listed
  <2>6. Standing(e)' = Standing(e) \cup {n + 1} /\ Standing(e) \subseteq 1..n
    <3>1. CASE reaper[e] \in {"stop1", "stop2"}
      <4>1. stopping[e].next <= n + 1 /\ stopping[e].next \in Nat
        <5>1. stopping[e].next \in Nat /\ Len(stopping[e].list) \in Nat
          BY ListShape DEF AInv
        <5>2. stopping[e].next <= Len(stopping[e].list) + 1 /\ Len(stopping[e].list) <= n
          BY <1>1, <2>1, <3>1 DEF AInv, PrefixInv
        <5> QED BY <5>1, <5>2
      <4>2. Standing(e) = {i \in 1..n : i >= stopping[e].next}
        BY <2>3, <3>1 DEF Standing
      <4>3. Standing(e)' = {i \in 1..(n + 1) : i >= stopping[e].next}
        BY <1>5, <2>3, <3>1 DEF Standing
      <4> QED BY <4>1, <4>2, <4>3
    <3>2. CASE reaper[e] \notin {"stop1", "stop2"}
      <4>1. Standing(e) = 1..n /\ Standing(e)' = 1..(n + 1)
        BY <1>5, <2>3, <3>2 DEF Standing
      <4> QED BY <4>1
    <3> QED BY <3>1, <3>2
  <2>7. Listed(e)' = Listed(e) \cup {p}
    BY <1>4, <2>3, <2>6 DEF Listed
  <2>8. AllListed' = AllListed \cup {p}
    BY <2>5, <2>7 DEF AllListed
  <2>9. InHand' = InHand \ {p} /\ p \in InHand
    BY <1>2, <1>4, <1>6, <2>1 DEF AInv, InHand, PortAccounting
  <2>10. portsInUse' = AllListed' \cup InHand'
    BY <1>5, <2>1, <2>8, <2>9 DEF AInv, PortAccounting
  <2>11. \A c \in Clients : Listed(c)' \cap InHand' = {}
    BY <2>1, <2>5, <2>7, <2>9 DEF AInv, PortAccounting
  <2>12. \A c \in Clients : \A i \in Standing(c) : tunnels[c][i].serverPort # p
    BY <2>1, <2>9 DEF AInv, PortAccounting, Listed
  <2>13. \A c \in Clients : \A i \in Standing(c)' :
           \/ c = e /\ i = n + 1 /\ tunnels'[c][i].serverPort = p
           \/ i \in Standing(c) /\ tunnels'[c][i] = tunnels[c][i]
    BY <1>4, <2>3, <2>5, <2>6
  <2>14. \A c, d \in Clients : \A i \in Standing(c)', j \in Standing(d)' :
           tunnels'[c][i].serverPort = tunnels'[d][j].serverPort => c = d /\ i = j
    BY <2>1, <2>12, <2>13 DEF AInv, PortAccounting
  <2>15. \A u, v \in Workers : u # v /\ frame'[u].reserved # None
                                 => frame'[u].reserved # frame'[v].reserved
    BY <1>6, <2>1 DEF AInv, PortAccounting
  <2>16. PortAccounting'
    BY <2>10, <2>11, <2>14, <2>15 DEF PortAccounting
  <2> QED BY <2>4, <2>16 DEF AInv
<1> QED BY <1>7, <1>8

\* The accounting invariant holds in every reachable state.
THEOREM AInvHolds == Spec => []AInv
<1>1. Init => AInv
  <2> SUFFICES ASSUME Init PROVE AInv
    OBVIOUS
  <2>1. CInv /\ PrefixInv
    <3>1. \A c \in Clients : reaper[c] = "off"
      BY DEF Init
    <3> QED BY <3>1, CInvInit DEF PrefixInv
  <2>2. \A c \in Clients : Standing(c) = {} /\ Listed(c) = {}
    <3>1. \A c \in Clients : reaper[c] = "off" /\ DOMAIN tunnels[c] = {}
      <4>1. DOMAIN <<>> = {}
        OBVIOUS
      <4> QED BY <4>1 DEF Init
    <3>2. \A c \in Clients : Standing(c) = {}
      BY <3>1 DEF Standing
    <3> QED BY <3>2 DEF Listed
  <2>3. \A w \in Workers : frame[w].reserved = None
    BY IdleFrameType DEF Init
  <2>4. AllListed = {} /\ InHand = {}
    BY <2>2, <2>3 DEF AllListed, InHand
  <2>5. PortAccounting
    <3>1. portsInUse = {}
      BY DEF Init
    <3> QED BY <2>2, <2>3, <2>4, <3>1 DEF PortAccounting
  <2> QED BY <2>1, <2>5 DEF AInv
<1>2. AInv /\ CInv' /\ [Next]_vars => AInv'
  <2> SUFFICES ASSUME AInv, CInv', [Next]_vars PROVE AInv'
    OBVIOUS
  <2>1. CASE UNCHANGED vars
    BY <2>1, AInvQuiet
  <2>2. ASSUME NEW h \in Handlers, PostTunnel(h) PROVE AInv'
    BY <2>2, AInvQuiet
  <2>3. ASSUME NEW w \in Workers, CallStep(w) \/ Lock(w) \/ AgentConfirms(w) PROVE AInv'
    BY <2>3, AInvQuiet, AInvReserve, AInvRequest, AInvRelease, AInvStore DEF CallStep
  <2>4. ASSUME NEW c \in Clients, AddClient(c) \/ StartStep(c) \/ Disconnect(c) PROVE AInv'
    <3>1. CASE StartClient(c)
      <4>1. reaper[c] = "off"
        BY <3>1 DEF StartClient, AInv, CInv, WorkerInv, StarterInv
      <4> QED BY <3>1, <4>1, AInvStart
    <3>2. CASE ~StartClient(c)
      BY <2>4, <3>2, AInvQuiet DEF StartStep
    <3> QED BY <3>1, <3>2
  <2>5. ASSUME NEW c \in Clients, AcceptError(c) PROVE AInv'
    BY <2>5, AInvStopBegins DEF AcceptError, workVars
  <2>6. ASSUME NEW c \in Clients, RemoveClient(c) PROVE AInv'
    BY <2>6, AInvStopBegins DEF RemoveClient, workVars
  <2>7. ASSUME NEW c \in Clients, ReapStep(c) PROVE AInv'
    BY <2>7, AInvStopReleases, AInvStopClears DEF ReapStep
  <2> QED BY <2>1, <2>2, <2>3, <2>4, <2>5, <2>6, <2>7 DEF Next
<1> QED BY <1>1, <1>2, CInvHolds, PTL DEF Spec

\* However many clients, handlers, services and ports there are: until a step
\* loses an update or comes too late, the table of the ports manager is exactly
\* the ports of the listed tunnels and of the calls under way, each once.
THEOREM PortAccountingHolds == Spec => []PortAccounting
<1>1. AInv => PortAccounting
  BY DEF AInv
<1> QED BY AInvHolds, <1>1, PTL

-----------------------------------------------------------------------------
(* What is answered and advertised is listed.                              *)

\* Stop has not looked at the client's list yet.
Unstopped(c) == reaper[c] \in {"off", "accept"}

\* A starter calls CreateTunnel on its own client.
OwnFrame == \A c \in Clients : frame[c].client = c

\* AnsweredIsListed, from before Client.Start on.
ListedInv ==
  ~raced =>
    /\ \A c \in Clients : Unstopped(c) =>
         \A f \in Features : info[c][f] # None => info[c][f] \in Range(tunnels[c])
    /\ \A w \in Workers : Unstopped(frame[w].client) /\ frame[w].result # None =>
         frame[w].result \in Range(tunnels[frame[w].client])

\* The invariant behind AnsweredIsListed, over AInv.
LInv == OwnFrame /\ ListedInv

\* A step keeps what is listed listed when it revives no client, shortens no
\* list Stop has not looked at, and answers or advertises only what is listed.
LEMMA LInvStep ==
  ASSUME CInv, LInv, CInv', OwnFrame', ~raced' => ~raced,
         \A c \in Clients : Unstopped(c)' => Unstopped(c),
         ~raced' => \A c \in Clients : Unstopped(c)' =>
                      Range(tunnels[c]) \subseteq Range(tunnels[c])',
         \A c \in Clients : \A f \in Features :
           info'[c][f] \in {info[c][f], frame[c].result},
         \A w \in Workers :
           \/ frame'[w].client = frame[w].client /\ frame'[w].result = frame[w].result
           \/ frame'[w].result = None
           \/ ~raced' => frame'[w].result \in Range(tunnels[frame[w].client])'
                         /\ frame'[w].client = frame[w].client
  PROVE  LInv'
<1> SUFFICES ASSUME ~raced' PROVE ListedInv'
  BY DEF LInv, ListedInv
<1>1. ASSUME NEW c \in Clients, Unstopped(c)', NEW f \in Features, info'[c][f] # None
      PROVE  info'[c][f] \in Range(tunnels[c])'
  <2>1. c \in Workers /\ frame[c].client = c /\ Unstopped(c)
    BY <1>1 DEF Workers, LInv, OwnFrame
  <2>2. info'[c][f] \in Range(tunnels[c])
    <3>1. CASE info'[c][f] = info[c][f]
      BY <1>1, <2>1, <3>1 DEF LInv, ListedInv
    <3>2. CASE info'[c][f] = frame[c].result
      BY <1>1, <2>1, <3>2 DEF LInv, ListedInv
    <3> QED BY <3>1, <3>2
  <2> QED BY <1>1, <2>2
<1>2. ASSUME NEW w \in Workers, Unstopped(frame[w].client)', frame'[w].result # None
      PROVE  frame'[w].result \in Range(tunnels[frame[w].client])'
  <2>1. frame[w].client \in Clients /\ frame'[w].client \in Clients
    BY FrameFields DEF CInv, TypeOK, WorkerType, Frame
  <2>2. CASE frame'[w].client = frame[w].client /\ frame'[w].result = frame[w].result
    <3>1. frame[w].result \in Range(tunnels[frame[w].client])
      BY <1>2, <2>1, <2>2 DEF LInv, ListedInv
    <3> QED BY <1>2, <2>1, <2>2, <3>1
  <2> QED BY <1>2, <2>1, <2>2
<1> QED BY <1>1, <1>2 DEF ListedInv

\* Every worker has the locals of a call.
LEMMA FrameDomain == ASSUME CInv PROVE frame = [w \in Workers |-> frame[w]]
  BY DEF CInv, TypeOK, WorkerType

\* Connecting, features, registry and the loop of Stop keep the invariant.
LEMMA LInvClients ==
  ASSUME CInv, LInv, CInv', NEW c \in Clients,
         \/ AddClient(c) \/ StartStep(c) \/ Disconnect(c) \/ AcceptError(c)
         \/ ReapStep(c) \/ RemoveClient(c)
  PROVE  LInv'
<1> DEFINE Others == \A d \in Clients : d # c => reaper'[d] = reaper[d]
           Quiet == UNCHANGED <<tunnels, frame, info, raced>>
<1>0. c \in Workers /\ \A w \in Workers : frame[w].client \in Clients
  BY FrameFields DEF Workers
<1>1. ASSUME Quiet, \A d \in Clients : Unstopped(d)' => Unstopped(d) PROVE LInv'
  <2>1. OwnFrame'
    BY <1>1 DEF LInv, OwnFrame
  <2> QED BY <1>1, <2>1, LInvStep
<1>2. CASE AddClient(c) \/ Disconnect(c)
  BY <1>1, <1>2 DEF AddClient, Disconnect, workVars, Unstopped
<1>3. CASE StartClient(c)
  <2>1. reaper[c] = "off"
    BY <1>3 DEF StartClient, CInv, WorkerInv, StarterInv
  <2>2. Quiet /\ Others
    BY <1>3, Domains DEF StartClient
  <2> QED BY <1>1, <2>1, <2>2 DEF Unstopped
<1>4. CASE AcceptError(c) \/ RemoveClient(c) \/ StopReleases(c)
  <2>1. Quiet
    BY <1>4 DEF AcceptError, RemoveClient, StopReleases, workVars
  <2>2. \A d \in Clients : Unstopped(d)' => Unstopped(d)
    <3>1. Others /\ (reaper'[c] = reaper[c] \/ reaper'[c] \in {"stop1", "stop2"})
      BY <1>4, Domains DEF AcceptError, RemoveClient, StopReleases
    <3> QED BY <3>1 DEF Unstopped
  <2> QED BY <1>1, <2>1, <2>2
<1>5. CASE StopClears(c)
  <2>1. Others /\ ~Unstopped(c) /\ ~Unstopped(c)'
    BY <1>5, Domains DEF StopClears, Unstopped
  <2>2. /\ UNCHANGED <<frame, info>> /\ (raced => raced')
        /\ \A d \in Clients : d # c => tunnels'[d] = tunnels[d]
    BY <1>5, Domains DEF StopClears, workVars
  <2>3. OwnFrame'
    BY <2>2 DEF LInv, OwnFrame
  <2>4. \A d \in Clients : Unstopped(d)' => Unstopped(d) /\ d # c
    BY <2>1 DEF Unstopped
  <2>5. \A d \in Clients : d # c => Range(tunnels[d]) = Range(tunnels[d])'
    BY <2>2 DEF Range
  <2> QED BY <2>2, <2>3, <2>4, <2>5, LInvStep
<1>6. CASE RequestFeature(c)
  <2>1. UNCHANGED <<tunnels, info, raced, reaper>>
    BY <1>6 DEF RequestFeature
  <2>2. /\ \A w \in Workers : w # c => frame'[w] = frame[w]
        /\ frame'[c] = frame[c] \/ frame'[c].result = None
        /\ frame'[c].client = c
    <3>1. CASE UNCHANGED frame
      BY <1>0, <3>1 DEF LInv, OwnFrame
    <3>2. ASSUME NEW p \in ClientPorts, frame' = [frame EXCEPT ![c] = NewFrame(c, p)]
          PROVE <2>2!1 /\ <2>2!2 /\ <2>2!3
      BY <1>0, <3>2, FrameDomain DEF NewFrame
    <3> QED BY <1>6, <3>1, <3>2 DEF RequestFeature
  <2>3. OwnFrame'
    BY <2>2 DEF LInv, OwnFrame, Workers
  <2> QED BY <1>0, <2>1, <2>2, <2>3, LInvStep DEF Unstopped
<1>7. CASE Advertise(c)
  <2>1. UNCHANGED <<tunnels, raced, reaper>>
    BY <1>7 DEF Advertise
  <2>2. /\ \A w \in Workers : w # c => frame'[w] = frame[w]
        /\ frame'[c].result = None /\ frame'[c].client = c
    BY <1>0, <1>7, FrameDomain DEF Advertise, IdleFrame, NewFrame
  <2>3. \A d \in Clients : \A f \in Features : info'[d][f] \in {info[d][f], frame[d].result}
    BY <1>7 DEF Advertise, CInv, TypeOK, ResourceType
  <2>4. OwnFrame'
    BY <2>2 DEF LInv, OwnFrame, Workers
  <2> QED BY <1>0, <2>1, <2>2, <2>3, <2>4, LInvStep DEF Unstopped
<1> QED BY <1>2, <1>3, <1>4, <1>5, <1>6, <1>7 DEF StartStep, ReapStep

\* The steps of a call keep the invariant: Check answers with an entry of the
\* list, Store with the one it appends to a list that has not changed.
LEMMA LInvCalls ==
  ASSUME CInv, LInv, CInv', NEW w \in Workers, CallStep(w) \/ Lock(w) \/ AgentConfirms(w)
  PROVE  LInv'
<1>0. /\ UNCHANGED <<reaper, info>> /\ frame[w].client \in Clients
      /\ \A v \in Workers : frame[v] \in Frame
      /\ \A c \in Clients : Unstopped(c)' <=> Unstopped(c)
  BY FrameFields DEF CallStep, GetTunnelService, Lock, Check, Reserve, Request, AgentConfirms,
     Wait, Release, Load, Store, UnLock, callVars, Unstopped
<1> DEFINE Others == \A v \in Workers : v # w => frame'[v] = frame[v]
           Kept == frame'[w].client = frame[w].client /\ frame'[w].result = frame[w].result
<1>1. ASSUME UNCHANGED tunnels, ~raced' => ~raced, Others, frame'[w].client = frame[w].client,
             Kept \/ frame'[w].result = None
                  \/ frame'[w].result \in Range(tunnels[frame[w].client])
      PROVE  LInv'
  <2>1. OwnFrame'
    BY <1>1 DEF LInv, OwnFrame, Workers
  <2>2. \A c \in Clients : Range(tunnels[c])' = Range(tunnels[c])
    BY <1>1 DEF Range
  <2>3. \A v \in Workers :
           \/ frame'[v].client = frame[v].client /\ frame'[v].result = frame[v].result
           \/ frame'[v].result = None
           \/ ~raced' => frame'[v].result \in Range(tunnels[frame[v].client])'
                         /\ frame'[v].client = frame[v].client
    BY <1>0, <1>1, <2>2
  <2> QED BY <1>0, <1>1, <2>1, <2>2, <2>3, LInvStep
<1>2. CASE Lock(w) \/ Wait(w)
  BY <1>1, <1>2 DEF Lock, Wait
<1>3. CASE GetTunnelService(w) \/ AgentConfirms(w) \/ Release(w) \/ Load(w)
  <2>1. UNCHANGED <<tunnels, raced>> /\ Others /\ Kept
    BY <1>0, <1>3, FrameDomain DEF GetTunnelService, AgentConfirms, Release, Load, Frame
  <2> QED BY <1>1, <2>1
<1>4. CASE Reserve(w) \/ Request(w)
  <2>1. UNCHANGED tunnels /\ (~raced' => ~raced) /\ Others /\ Kept
    BY <1>0, <1>4, FrameDomain DEF Reserve, Request, Frame
  <2> QED BY <1>1, <2>1
<1>5. CASE Check(w)
  <2>1. UNCHANGED <<tunnels, raced>>
    BY <1>5 DEF Check
  <2>2. CASE UNCHANGED frame
    BY <1>1, <2>1, <2>2
  <2>3. ASSUME NEW i \in DOMAIN tunnels[frame[w].client],
               frame' = [frame EXCEPT ![w].result = tunnels[frame[w].client][i]]
        PROVE  LInv'
    <3>1. /\ Others /\ frame'[w].client = frame[w].client
          /\ frame'[w].result = tunnels[frame[w].client][i]
      BY <1>0, <2>3, FrameDomain DEF Frame
    <3> QED BY <1>1, <2>1, <3>1 DEF Range
  <2> QED BY <1>5, <2>2, <2>3 DEF Check
<1>6. CASE UnLock(w)
  <2>1. UNCHANGED <<tunnels, raced>>
    BY <1>6 DEF UnLock
  <2>2. CASE UNCHANGED frame
    BY <1>1, <2>1, <2>2
  <2>3. CASE frame' = [frame EXCEPT ![w] = IdleFrame(w)]
    <3>1. Others /\ frame'[w].result = None /\ (w \in Clients => frame'[w].client = w)
      BY <1>0, <2>3, FrameDomain DEF IdleFrame, NewFrame
    <3>2. OwnFrame'
      BY <3>1 DEF LInv, OwnFrame, Workers
    <3>3. \A c \in Clients : Range(tunnels[c])' = Range(tunnels[c])
      BY <2>1 DEF Range
    <3> QED BY <1>0, <2>1, <3>1, <3>2, <3>3, LInvStep
  <2> QED BY <1>6, <2>2, <2>3 DEF UnLock
<1>7. CASE Store(w)
  <2>0. PICK e \in Clients : e = frame[w].client
    BY <1>0
  <2>1. Others /\ frame'[w].client = e /\ frame'[w].result = NewTunnel(w)
    BY <1>0, <1>7, <2>0, FrameDomain DEF Store, Frame
  <2>2. OwnFrame'
    BY <2>0, <2>1 DEF LInv, OwnFrame, Workers
  <2>3. CASE raced'
    BY <2>2, <2>3 DEF LInv, ListedInv
  <2>4. CASE ~raced'
    <3>1. ~raced /\ tunnels' = [tunnels EXCEPT ![e] = Append(tunnels[e], NewTunnel(w))]
      BY <1>7, <2>0, <2>4 DEF Store
    <3>2. /\ Range(tunnels[e]) \subseteq Range(tunnels[e])'
          /\ NewTunnel(w) \in Range(tunnels[e])'
      <4>1. PICK s \in Seq(Tunnel) : s = tunnels[e]
        BY ListShape
      <4>2. PICK t : t = NewTunnel(w)
        OBVIOUS
      <4>3. tunnels'[e] = Append(s, t)
        BY <3>1, <4>1, <4>2, Domains
      <4>4. /\ Len(s) \in Nat /\ DOMAIN s = 1..Len(s)
            /\ DOMAIN Append(s, t) = 1..(Len(s) + 1)
            /\ Append(s, t)[Len(s) + 1] = t
            /\ \A i \in DOMAIN s : i \in DOMAIN Append(s, t) /\ Append(s, t)[i] = s[i]
        <5>1. t \in Tunnel
          BY <4>2, FrameFields, <1>7 DEF NewTunnel, Tunnel, Store, CInv, WorkerInv, ReservedInv
        <5> QED BY <5>1
      <4>5. Len(s) + 1 \in DOMAIN Append(s, t)
        BY <4>4
      <4> QED BY <4>1, <4>2, <4>3, <4>4, <4>5 DEF Range
    <3>3. \A c \in Clients : Range(tunnels[c]) \subseteq Range(tunnels[c])'
      <4> SUFFICES ASSUME NEW c \in Clients, c # e PROVE Range(tunnels[c]) = Range(tunnels[c])'
        BY <3>2
      <4> QED BY <3>1, Domains DEF Range
    <3>4. \A v \in Workers :
           \/ frame'[v].client = frame[v].client /\ frame'[v].result = frame[v].result
           \/ frame'[v].result = None
           \/ ~raced' => frame'[v].result \in Range(tunnels[frame[v].client])'
                         /\ frame'[v].client = frame[v].client
      BY <2>0, <2>1, <3>2
    <3> QED BY <1>0, <2>2, <3>1, <3>3, <3>4, LInvStep
  <2> QED BY <2>3, <2>4
<1> QED BY <1>2, <1>3, <1>4, <1>5, <1>6, <1>7 DEF CallStep

\* A tunnel is answered and advertised only from the list, in every behaviour.
THEOREM LInvHolds == Spec => []LInv
<1>1. Init => LInv
  <2>1. ASSUME Init PROVE OwnFrame
    BY <2>1 DEF Init, OwnFrame, IdleFrame, NewFrame, Workers
  <2>2. ASSUME Init PROVE ListedInv
    <3>1. \A w \in Workers : frame[w].result = None
      BY <2>2 DEF Init, IdleFrame, NewFrame
    <3>2. \A c \in Clients : \A f \in Features : info[c][f] = None
      BY <2>2 DEF Init
    <3> QED BY <3>1, <3>2 DEF ListedInv
  <2> QED BY <2>1, <2>2 DEF LInv
<1>2. CInv /\ LInv /\ CInv' /\ [Next]_vars => LInv'
  <2> SUFFICES ASSUME CInv, LInv, CInv', [Next]_vars PROVE LInv'
    OBVIOUS
  <2>1. CASE UNCHANGED vars
    BY <2>1 DEF vars, LInv, OwnFrame, ListedInv, Unstopped, Range
  <2>2. ASSUME NEW h \in Handlers, PostTunnel(h) PROVE LInv'
    <3>1. UNCHANGED <<tunnels, raced, reaper, info>>
      BY <2>2 DEF PostTunnel
    <3>2. /\ \A v \in Workers : v # h => frame'[v] = frame[v]
          /\ frame'[h].result = None /\ h \notin Clients
      BY <2>2, FrameDomain, WorkersAssumption DEF PostTunnel, NewFrame, Workers
    <3>3. OwnFrame'
      BY <3>2 DEF LInv, OwnFrame, Workers
    <3>4. \A c \in Clients : /\ Range(tunnels[c])' = Range(tunnels[c])
                             /\ Unstopped(c)' = Unstopped(c)
      BY <3>1 DEF Range, Unstopped
    <3> QED BY <3>1, <3>2, <3>3, <3>4, LInvStep
  <2>3. ASSUME NEW w \in Workers, CallStep(w) \/ Lock(w) \/ AgentConfirms(w) PROVE LInv'
    BY <2>3, LInvCalls
  <2>4. ASSUME NEW c \in Clients,
               \/ AddClient(c) \/ StartStep(c) \/ Disconnect(c) \/ AcceptError(c)
               \/ ReapStep(c) \/ RemoveClient(c)
        PROVE LInv'
    BY <2>4, LInvClients
  <2> QED BY <2>1, <2>2, <2>3, <2>4 DEF Next
<1> QED BY <1>1, <1>2, CInvHolds, PTL DEF Spec

\* However many clients, handlers and features: as long as no append raced, a
\* tunnel answered by the API or shown by the portal for a connected client is
\* in the list whose ports Stop will release.
THEOREM AnsweredIsListedHolds == Spec => []AnsweredIsListed
<1>1. LInv => AnsweredIsListed
  BY DEF LInv, ListedInv, AnsweredIsListed, Connected, Unstopped
<1> QED BY LInvHolds, <1>1, PTL
=============================================================================
