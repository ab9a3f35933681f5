------------------------ MODULE ServerLifecycleProofs ------------------------
(***************************************************************************)
(* Proofs about starting and stopping the server, for any number of        *)
(* clients and of services.                                                *)
(***************************************************************************)
EXTENDS ServerLifecycle, SequenceTheorems, TLAPS

\* What the array of a slice may hold.
Cells == Clients \cup {None}

\* A look-up that met no removal has its client still before it: appends write
\* behind its header or into another array.
LookUpInv ==
  reader.at = "walk" /\ reader.alone =>
    /\ reader.header.array = list.array => reader.header.len <= list.len
    /\ ~reader.found =>
         \E n \in reader.next..reader.header.len : Entry(reader.header, n) = reader.target

\* What every step keeps.
LifecycleInv == LifecycleTypeOK /\ LookUpInv

\* A function on 1..n is a sequence of length n.
LEMMA FunctionIsSeq ==
  ASSUME NEW S, NEW n \in Nat, NEW f \in [1..n -> S]
  PROVE  f \in Seq(S) /\ Len(f) = n
<1>1. f \in Seq(S)
  BY SeqDef
<1>2. 1..n = 1..Len(f) /\ Len(f) \in Nat
  BY <1>1, LenProperties
<1>3. (n \in 1..n \/ n = 0) /\ (Len(f) \in 1..Len(f) \/ Len(f) = 0)
  BY <1>2
<1> QED BY <1>1, <1>2, <1>3

\* The arrays of the list are sequences of cells.
LEMMA HeapProperties ==
  ASSUME LifecycleInv
  PROVE  /\ Len(heap) \in Nat \ {0} /\ DOMAIN heap = 1..Len(heap)
         /\ \A a \in 1..Len(heap) : /\ heap[a] \in Seq(Cells) /\ Len(heap[a]) \in Nat
                                    /\ DOMAIN heap[a] = 1..Len(heap[a])
                                    /\ \A n \in 1..Len(heap[a]) : heap[a][n] \in Cells
         /\ list.array = Len(heap) /\ list.len \in 0..accepted
         /\ list.len <= Len(heap[list.array]) /\ accepted \in 0..MaxClients
<1>1. heap \in Seq(Seq(Cells)) /\ list \in Headers /\ list.array = Len(heap) /\ InsideArray(list)
      /\ accepted \in 0..MaxClients
  BY DEF LifecycleInv, LifecycleTypeOK, ListTypeOK, RestTypeOK, Cells
<1>2. Len(heap) \in Nat /\ DOMAIN heap = 1..Len(heap)
      /\ \A a \in 1..Len(heap) : heap[a] \in Seq(Cells)
  BY <1>1, LenProperties, ElementOfSeq
<1>3. \A a \in 1..Len(heap) : /\ Len(heap[a]) \in Nat /\ DOMAIN heap[a] = 1..Len(heap[a])
                              /\ \A n \in 1..Len(heap[a]) : heap[a][n] \in Cells
  <2> TAKE a \in 1..Len(heap)
  <2> QED BY <1>2, LenProperties, ElementOfSeq
<1>4. list.array \in 1..Len(heap) /\ list.len \in 0..accepted
  BY <1>1 DEF Headers
<1> QED BY <1>1, <1>2, <1>3, <1>4 DEF InsideArray

\* What a step may do to the arrays: none goes and none changes its length,
\* and the list is in the newest.
ListKept ==
  /\ heap' \in Seq(Seq(Cells)) /\ Len(heap) <= Len(heap')
  /\ \A a \in 1..Len(heap) : Len(heap'[a]) = Len(heap[a])
  /\ list' \in [array : 1..Len(heap'), len : 0..accepted'] /\ list'.array = Len(heap')
  /\ list'.len <= Len(heap'[list'.array])

\* A step that leaves the list alone.
LEMMA SameList ==
  ASSUME LifecycleInv, UNCHANGED <<heap, list>>, accepted' \in accepted..MaxClients
  PROVE  ListKept
BY HeapProperties DEF LifecycleInv, LifecycleTypeOK, ListTypeOK, RestTypeOK, Headers, ListKept, InsideArray, Cells

\* append leaves every entry of every header as it was, but for the cell
\* behind the list's own.
LEMMA AppendKeeps ==
  ASSUME LifecycleInv, NEW c \in Clients, Append1(c),
         accepted' = accepted + 1, accepted < MaxClients
  PROVE  /\ ListKept /\ list'.len = list.len + 1
         /\ list'.array = list.array \/ list'.array = Len(heap) + 1
         /\ \A a \in 1..Len(heap) : \A n \in 1..Len(heap[a]) :
              \/ heap'[a][n] = heap[a][n]
              \/ a = list.array /\ list'.array = list.array /\ n = list.len + 1
<1>0. list = [array |-> list.array, len |-> list.len] /\ heap \in Seq(Seq(Cells)) /\ c \in Cells
  BY DEF LifecycleInv, LifecycleTypeOK, ListTypeOK, RestTypeOK, Headers, Cells
<1>h. /\ Len(heap) \in Nat \ {0} /\ list.array = Len(heap)
      /\ list.len \in 0..accepted /\ list.len <= Len(heap[list.array]) /\ accepted \in 0..MaxClients
      /\ heap[list.array] \in Seq(Cells) /\ Len(heap[list.array]) \in Nat
  BY HeapProperties
<1>1. CASE list.len < Len(heap[list.array])
  <2> DEFINE array == [heap[list.array] EXCEPT ![list.len + 1] = c]
  <2>1. heap' = [heap EXCEPT ![list.array] = array] /\ list' = [list EXCEPT !.len = list.len + 1]
    BY <1>0, <1>h, <1>1 DEF Append1
  <2>2. list.len + 1 \in 1..Len(heap[list.array])
    BY <1>h, <1>1
  <2>3. array \in Seq(Cells) /\ Len(array) = Len(heap[list.array])
        /\ \A n \in 1..Len(heap[list.array]) :
             array[n] = IF n = list.len + 1 THEN c ELSE heap[list.array][n]
    BY <1>0, <1>h, <2>2, ExceptSeq
  <2> HIDE DEF array
  <2>4. heap' \in Seq(Seq(Cells)) /\ Len(heap') = Len(heap)
        /\ \A a \in 1..Len(heap) : heap'[a] = IF a = list.array THEN array ELSE heap[a]
    BY <1>0, <1>h, <2>1, <2>3, ExceptSeq
  <2>5. list'.array = list.array /\ list'.len = list.len + 1
        /\ list' \in [array : 1..Len(heap'), len : 0..accepted']
    <3>1. list' = [array |-> list.array, len |-> list.len + 1]
      BY <1>0, <2>1
    <3>2. list.array \in 1..Len(heap') /\ list.len + 1 \in 0..accepted'
      BY <1>h, <2>4
    <3> QED BY <3>1, <3>2
  <2>6. ListKept
    BY <1>h, <1>1, <2>3, <2>4, <2>5 DEF ListKept
  <2> QED BY <2>3, <2>4, <2>5, <2>6
<1>2. CASE ~(list.len < Len(heap[list.array]))
  <2> DEFINE size == IF list.len = 0 THEN 1 ELSE 2 * list.len
             array == [n \in 1..size |-> IF n <= list.len THEN heap[list.array][n]
                                         ELSE IF n = list.len + 1 THEN c ELSE None]
  <2>1. heap' = Append(heap, array) /\ list' = [array |-> Len(heap) + 1, len |-> list.len + 1]
    BY <1>h, <1>2 DEF Append1
  <2>2. array \in [1..size -> Cells] /\ size \in Nat /\ size >= list.len + 1
    <3>1. size \in Nat /\ size >= list.len + 1
      BY <1>h
    <3>2. \A n \in 1..list.len : heap[list.array][n] \in Cells
      BY <1>h, ElementOfSeq
    <3>3. None \in Cells
      BY DEF Cells
    <3> QED BY <1>0, <3>1, <3>2, <3>3
  <2> HIDE DEF array
  <2>3. array \in Seq(Cells) /\ Len(array) = size
    BY <2>2, FunctionIsSeq, Zenon
  <2> HIDE DEF size
  <2>4. heap' \in Seq(Seq(Cells)) /\ Len(heap') = Len(heap) + 1 /\ heap'[Len(heap) + 1] = array
        /\ \A a \in 1..Len(heap) : heap'[a] = heap[a]
    BY <1>0, <1>h, <2>1, <2>3
  <2>5. list'.array = Len(heap) + 1 /\ list'.len = list.len + 1
        /\ list' \in [array : 1..Len(heap'), len : 0..accepted']
    BY <1>0, <1>h, <2>1, <2>4
  <2>6. ListKept
    BY SMTT(30), <1>h, <2>2, <2>3, <2>4, <2>5 DEF ListKept
  <2> QED BY <2>4, <2>5, <2>6
<1> QED BY <1>1, <1>2

\* RemoveClient cuts in place, or does nothing.
LEMMA RemoveKeeps ==
  ASSUME LifecycleInv, NEW c, RemoveClient(c), accepted' = accepted
  PROVE  ListKept /\ (c \notin Registered => UNCHANGED listVars)
<1>0. list = [array |-> list.array, len |-> list.len] /\ heap \in Seq(Seq(Cells))
  BY DEF LifecycleInv, LifecycleTypeOK, ListTypeOK, RestTypeOK, Headers, Cells
<1>h. /\ Len(heap) \in Nat \ {0} /\ list.array = Len(heap)
      /\ list.len \in 0..accepted /\ list.len <= Len(heap[list.array]) /\ accepted \in 0..MaxClients
      /\ heap[list.array] \in Seq(Cells) /\ Len(heap[list.array]) \in Nat
  BY HeapProperties
<1>1. CASE c \notin Registered
  <2>1. UNCHANGED <<heap, list>> /\ accepted' \in accepted..MaxClients
    BY <1>h, <1>1 DEF RemoveClient, listVars
  <2> QED BY <2>1, SameList DEF listVars
<1>2. CASE c \in Registered
  <2>1. PICK n \in 1..list.len : Cut(n)
    BY <1>2 DEF RemoveClient
  <2>0. list.len >= 1 /\ n \in 1..list.len
    BY <1>h, <2>1
  <2> DEFINE old == heap[list.array]
             array == [m \in DOMAIN old |-> IF m \in n..(list.len - 1) THEN old[m + 1] ELSE old[m]]
  <2>2. heap' = [heap EXCEPT ![list.array] = array] /\ list' = [list EXCEPT !.len = list.len - 1]
    BY <1>0, <2>1 DEF Cut
  <2>3. array \in [1..Len(old) -> Cells]
    <3>1. DOMAIN old = 1..Len(old) /\ \A m \in 1..Len(old) : old[m] \in Cells
      BY <1>h, LenProperties, ElementOfSeq
    <3>2. \A m \in 1..Len(old) : m \in n..(list.len - 1) => m + 1 \in 1..Len(old)
      BY <1>h, <2>0
    <3> HIDE DEF old
    <3> QED BY <3>1, <3>2
  <2>s. Len(old) \in Nat
    BY <1>h
  <2> HIDE DEF array
  <2>4. array \in Seq(Cells) /\ Len(array) = Len(old)
    <3> HIDE DEF old
    <3> QED BY <2>s, <2>3, FunctionIsSeq, Zenon
  <2>5. heap' \in Seq(Seq(Cells)) /\ Len(heap') = Len(heap)
        /\ \A a \in 1..Len(heap) : heap'[a] = IF a = list.array THEN array ELSE heap[a]
    BY <1>0, <1>h, <2>2, <2>4, ExceptSeq
  <2>6. list'.array = list.array /\ list'.len = list.len - 1
        /\ list' \in [array : 1..Len(heap'), len : 0..accepted']
    BY <1>0, <1>h, <2>0, <2>2, <2>5
  <2> QED BY SMTT(30), <1>h, <1>2, <2>4, <2>5, <2>6 DEF ListKept
<1> QED BY <1>1, <1>2

\* A header of the list, and a walk over it, outlast every step.
LEMMA WalksKept ==
  ASSUME LifecycleInv, ListKept, accepted' \in accepted..MaxClients
  PROVE  /\ Headers \subseteq Headers'
         /\ \A h \in Headers : InsideArray(h) => InsideArray(h)'
         /\ list \in Headers /\ InsideArray(list)
<1>1. Len(heap) \in Nat /\ Len(heap') \in Nat /\ Len(heap) <= Len(heap') /\ accepted \in 0..MaxClients
  BY HeapProperties DEF ListKept
<1>2. 1..Len(heap) \subseteq 1..Len(heap') /\ 0..accepted \subseteq 0..accepted'
  BY <1>1
<1>3. \A h \in Headers : h.array \in 1..Len(heap) /\ h.len \in 0..accepted
  BY DEF Headers
<1> QED BY <1>1, <1>2, <1>3 DEF Headers, ListKept, InsideArray, LifecycleInv, LifecycleTypeOK, ListTypeOK

\* A walk under way stays one through a step, cut short or not.
LEMMA WalkersKept ==
  ASSUME LifecycleInv, ListKept, accepted' \in accepted..MaxClients
  PROVE  /\ \A w \in Walks : OverHeader(w) => w \in Walks' /\ OverHeader(w)'
         /\ \A w \in LookUps : OverHeader(w) =>
              /\ w \in LookUps' /\ OverHeader(w)'
              /\ Shrunk(w) \in LookUps' /\ OverHeader(Shrunk(w))'
<1>1. Headers \subseteq Headers' /\ \A h \in Headers : InsideArray(h) => InsideArray(h)'
  BY WalksKept
<1>2. ASSUME NEW w \in Walks, OverHeader(w)
      PROVE  w \in Walks' /\ OverHeader(w)'
  <2>1. CASE w = Idle
    BY <2>1 DEF Walks, Idle, OverHeader
  <2>2. CASE w # Idle
    <3>1. w \in [at : {"walk", "done"}, header : Headers, next : 1..(MaxClients + 1)]
      BY <2>2 DEF Walks
    <3> QED BY <1>1, <1>2, <3>1 DEF OverHeader, Walks
  <2> QED BY <2>1, <2>2
<1>3. ASSUME NEW w \in LookUps, OverHeader(w)
      PROVE  /\ w \in LookUps' /\ OverHeader(w)'
             /\ Shrunk(w) \in LookUps' /\ OverHeader(Shrunk(w))'
  <2>1. CASE w = Idle
    BY <2>1 DEF LookUps, Idle, Shrunk, OverHeader
  <2>2. CASE w # Idle
    <3>1. w \in [at : {"walk"}, header : Headers, next : 1..(MaxClients + 1),
                 alone : BOOLEAN, target : Clients, found : BOOLEAN]
      BY <2>2 DEF LookUps
    <3>2. OverHeader(w)' /\ w \in LookUps'
      BY <1>1, <1>3, <3>1 DEF OverHeader, LookUps
    <3>3. /\ Shrunk(w) \in [at : {"walk"}, header : Headers, next : 1..(MaxClients + 1),
                            alone : BOOLEAN, target : Clients, found : BOOLEAN]
          /\ Shrunk(w).at = "walk" /\ Shrunk(w).header = w.header /\ Shrunk(w).next = w.next
      BY <3>1 DEF Shrunk
    <3> QED BY <1>1, <3>1, <3>2, <3>3 DEF OverHeader, LookUps
  <2> QED BY <2>1, <2>2
<1> QED BY <1>2, <1>3

\* Every step keeps the types of the services, the connections and the
\* counters.
LEMMA RestTypeStep ==
  ASSUME LifecycleInv, [LifecycleNext]_lifecycleVars
  PROVE  RestTypeOK' /\ accepted' \in accepted..MaxClients
<1> USE LifecycleAssumption DEF RestTypeOK
<1>0. RestTypeOK /\ accepted \in 0..MaxClients /\ begun \in Nat /\ services \in Nat
  BY DEF LifecycleInv, LifecycleTypeOK
<1>1. CASE UNCHANGED lifecycleVars
  BY <1>0, <1>1 DEF lifecycleVars, serviceVars, netVars
<1>2. CASE BeginService
  BY <1>0, <1>2 DEF BeginService
<1>3. CASE Listen
  BY <1>0, <1>3 DEF Listen, serviceVars
<1>4. CASE AcceptCheck \/ ReadEntry \/ ReadEnds
  BY <1>0, <1>4 DEF AcceptCheck, ReadEntry, ReadEnds, serviceVars, netVars
<1>5. CASE Accept
  <2>1. client' \in [Clients -> ClientStates]
    BY <1>0, <1>5 DEF Accept, Becomes, ClientStates
  <2>2. acceptor' = "check" /\ UNCHANGED <<serviceVars, listener, cancelled, crashed>>
        /\ (accepted' = accepted \/ (accepted' = accepted + 1 /\ accepted < MaxClients))
    BY <1>5 DEF Accept
  <2> QED BY <1>0, <2>1, <2>2 DEF serviceVars
<1>6. ASSUME NEW c \in Clients, GetTunnelService(c)
      PROVE  RestTypeOK' /\ accepted' \in accepted..MaxClients
  <2>1. acceptor # "off" /\ acceptor' = acceptor /\ services' = services /\ begun' = begun
        /\ UNCHANGED <<serving, listener, cancelled, client, accepted>>
    BY <1>0, <1>6 DEF GetTunnelService, netVars
  <2>2. crashed' \in BOOLEAN /\ startIndex' \in 0..(NumServices - 1)
        /\ (services' = 0 \/ startIndex' < services')
    <3>1. CASE startIndex < services
      <4>1. /\ crashed' = crashed
            /\ startIndex' = IF startIndex + 1 >= services THEN 0 ELSE startIndex + 1
        BY <1>6, <3>1 DEF GetTunnelService
      <4>2. startIndex' \in 0..(NumServices - 1) /\ (services' = 0 \/ startIndex' < services')
        BY <1>0, <2>1, <3>1, <4>1
      <4> QED BY <1>0, <4>1, <4>2
    <3>2. CASE ~(startIndex < services)
      <4>1. crashed' = TRUE /\ startIndex' = startIndex
        BY <1>6, <3>2 DEF GetTunnelService
      <4> QED BY <1>0, <2>1, <4>1
    <3> QED BY <3>1, <3>2
  <2> QED BY <1>0, <2>1, <2>2
<1>7. ASSUME NEW c \in Clients,
             StartClient(c) \/ LoseClient(c) \/ Reap(c) \/ GetClientById(c)
      PROVE  RestTypeOK' /\ accepted' \in accepted..MaxClients
  <2>1. CASE GetClientById(c)
    BY <1>0, <2>1 DEF GetClientById, serviceVars, netVars
  <2>2. CASE StartClient(c) \/ LoseClient(c) \/ Reap(c)
    <3>1. PICK state \in ClientStates : client[c] # "none" /\ Becomes(c, state)
      BY <2>2 DEF StartClient, LoseClient, Reap, ClientStates
    <3>2. client' \in [Clients -> ClientStates] /\ acceptor # "off"
      BY <1>0, <1>7, <3>1 DEF Becomes
    <3>3. UNCHANGED <<serviceVars, netVars, crashed, accepted>>
      BY <2>2 DEF StartClient, LoseClient, Reap
    <3> QED BY <1>0, <3>2, <3>3 DEF serviceVars, netVars
  <2> QED BY <1>7, <2>1, <2>2
<1>8. ASSUME NEW k \in Services, Serve(k) \/ ServiceFails(k) \/ StopEntry(k) \/ StopCloses(k)
      PROVE  RestTypeOK' /\ accepted' \in accepted..MaxClients
  <2>1. CASE Serve(k)
    <3>1. crashed' \in BOOLEAN
      <4>1. crashed' = TRUE \/ crashed' = crashed
        BY <2>1 DEF Serve
      <4> QED BY <1>0, <4>1
    <3>2. serving' \subseteq Services
      BY <1>0, <2>1 DEF Serve
    <3>3. UNCHANGED <<begun, services, startIndex, listener, cancelled, acceptor, client,
                      accepted>>
      BY <2>1 DEF Serve, netVars
    <3> QED BY <1>0, <3>1, <3>2, <3>3
  <2>2. CASE ServiceFails(k)
    BY <1>0, <1>8, <2>2 DEF ServiceFails
  <2>3. CASE StopEntry(k)
    <3>1. PICK c : /\ UNCHANGED <<serviceVars, netVars, accepted>>
                   /\ IF c \in Registered
                      THEN Becomes(c, "gone") /\ crashed' = (client[c] = "new")
                      ELSE UNCHANGED <<client, crashed>>
      BY <2>3 DEF StopEntry
    <3>2. client' \in [Clients -> ClientStates] /\ crashed' \in BOOLEAN
      BY <1>0, <3>1 DEF Becomes, ClientStates
    <3>3. acceptor = "off" => c \notin Registered
      BY <1>0, HeapProperties DEF Registered
    <3> QED BY <1>0, <3>1, <3>2, <3>3 DEF serviceVars, netVars
  <2>4. CASE StopCloses(k)
    <3>1. crashed' \in BOOLEAN
      <4>1. crashed' = TRUE \/ crashed' = crashed
        BY <2>4 DEF StopCloses
      <4> QED BY <1>0, <4>1
    <3>2. listener' \in {"nil", "open", "closed"}
      <4>1. listener' = listener \/ listener' = "closed"
        BY <2>4 DEF StopCloses
      <4> QED BY <1>0, <4>1
    <3>3. services' = 0 /\ UNCHANGED <<begun, serving, startIndex, cancelled, acceptor, client,
                                       accepted>>
      BY <2>4 DEF StopCloses
    <3> QED BY <1>0, <3>1, <3>2, <3>3
  <2> QED BY <1>8, <2>1, <2>2, <2>3, <2>4
<1> QED BY <1>1, <1>2, <1>3, <1>4, <1>5, <1>6, <1>7, <1>8 DEF LifecycleNext

\* The steps that leave the list of clients alone.
Elsewhere ==
  \/ BeginService \/ Listen \/ AcceptCheck
  \/ \E c \in Clients : GetTunnelService(c) \/ StartClient(c) \/ LoseClient(c)
  \/ \E k \in Services : Serve(k)
  \/ UNCHANGED lifecycleVars

\* Every step keeps the list.
LEMMA ListStep ==
  ASSUME LifecycleInv, [LifecycleNext]_lifecycleVars
  PROVE  ListKept
<1>0. accepted' \in accepted..MaxClients
  BY RestTypeStep
<1>1. CASE UNCHANGED <<heap, list>>
  BY <1>0, <1>1, SameList
<1>2. CASE Accept
  <2>1. CASE UNCHANGED listVars
    BY <1>1, <2>1 DEF listVars
  <2>2. CASE ~UNCHANGED listVars
    <3>1. accepted < MaxClients /\ accepted' = accepted + 1 /\ Append1(accepted + 1)
      BY <1>2, <2>2 DEF Accept
    <3>2. accepted + 1 \in Clients
      <4>1. accepted \in 0..MaxClients /\ MaxClients \in Nat
        BY HeapProperties, LifecycleAssumption
      <4> QED BY <3>1, <4>1 DEF Clients
    <3> QED BY <3>1, <3>2, AppendKeeps
  <2> QED BY <2>1, <2>2
<1>3. ASSUME NEW c \in Clients, Reap(c) PROVE ListKept
  BY <1>3, RemoveKeeps DEF Reap
<1>4. ASSUME NEW k \in Services, StopEntry(k) PROVE ListKept
  BY <1>4, RemoveKeeps DEF StopEntry
<1>5. CASE Elsewhere \/ ReadEntry \/ ReadEnds
  BY <1>1, <1>5 DEF Elsewhere, BeginService, Listen, AcceptCheck, GetTunnelService, StartClient, LoseClient,
     Serve, ReadEntry, ReadEnds, lifecycleVars, listVars
<1>6. ASSUME NEW c \in Clients, GetClientById(c) PROVE ListKept
  BY <1>1, <1>6 DEF GetClientById, listVars
<1>7. ASSUME NEW k \in Services, ServiceFails(k) \/ StopCloses(k) PROVE ListKept
  BY <1>1, <1>7 DEF ServiceFails, StopCloses, listVars
<1> QED BY <1>2, <1>3, <1>4, <1>5, <1>6, <1>7 DEF LifecycleNext, Elsewhere

\* A walk that the next state's arrays hold.
Lasts(w) ==
  w.at = "walk" => w.header.len <= Len(heap'[w.header.array]) /\ w.next <= w.header.len + 1

\* Every step keeps the types of the walks.
LEMMA WalkTypeStep ==
  ASSUME LifecycleInv, [LifecycleNext]_lifecycleVars
  PROVE  WalkTypeOK'
<1>0. ListKept /\ accepted' \in accepted..MaxClients
  BY RestTypeStep, ListStep
<1>s. /\ stopper \in [Services -> Walks] /\ \A k \in Services : OverHeader(stopper[k])
      /\ reader \in LookUps /\ OverHeader(reader)
  BY DEF LifecycleInv, LifecycleTypeOK, WalkTypeOK
<1>k. /\ \A w \in Walks : OverHeader(w) => w \in Walks' /\ OverHeader(w)'
      /\ \A w \in LookUps : OverHeader(w) =>
           /\ w \in LookUps' /\ OverHeader(w)'
           /\ Shrunk(w) \in LookUps' /\ OverHeader(Shrunk(w))'
  BY <1>0, WalkersKept
<1>h. /\ list \in Headers' /\ list.len \in Nat /\ list.len <= Len(heap[list.array])
      /\ accepted \in 0..MaxClients /\ MaxClients \in Nat
  BY <1>0, WalksKept, HeapProperties, LifecycleAssumption
<1>r. ASSUME reader' \in {reader, Shrunk(reader)}
      PROVE  reader' \in LookUps' /\ OverHeader(reader)'
  BY <1>s, <1>k, <1>r DEF OverHeader
<1>w. ASSUME stopper' = stopper
      PROVE  stopper' \in [Services -> Walks'] /\ \A k \in Services : OverHeader(stopper[k])'
  BY <1>s, <1>k, <1>w DEF OverHeader
<1>o. ASSUME NEW k \in Services, NEW w \in Walks', Lasts(w), stopper' = [stopper EXCEPT ![k] = w]
      PROVE  stopper' \in [Services -> Walks'] /\ \A j \in Services : OverHeader(stopper[j])'
  <2>1. \A j \in Services : stopper'[j] \in Walks' /\ OverHeader(stopper[j])'
    <3> SUFFICES ASSUME NEW j \in Services
                 PROVE  stopper'[j] \in Walks' /\ OverHeader(stopper[j])'
      OBVIOUS
    <3>1. CASE j = k
      <4>1. stopper'[j] = w
        BY <1>s, <1>o, <3>1
      <4> QED BY <1>o, <4>1 DEF OverHeader, InsideArray, Lasts
    <3>2. CASE j # k
      BY <1>s, <1>k, <1>o, <3>2 DEF OverHeader
    <3> QED BY <3>1, <3>2
  <2> QED BY <1>s, <1>o, <2>1
<1>1. CASE Elsewhere \/ Accept
  <2>1. stopper' = stopper /\ reader' = reader
    BY <1>1 DEF Elsewhere, BeginService, Listen, AcceptCheck, GetTunnelService, StartClient, LoseClient,
       Serve, Accept, lifecycleVars
  <2> QED BY <1>r, <1>w, <2>1 DEF WalkTypeOK
<1>2. ASSUME NEW c \in Clients, Reap(c) PROVE WalkTypeOK'
  BY <1>2, <1>r, <1>w DEF Reap, WalkTypeOK
<1>3. ASSUME NEW c \in Clients, GetClientById(c) PROVE WalkTypeOK'
  <2>1. stopper' = stopper /\ reader' = LookUp(c) /\ UNCHANGED listVars
    BY <1>3 DEF GetClientById
  <2>2. reader' \in LookUps' /\ OverHeader(reader)'
    <3>1. reader' \in [at : {"walk"}, header : Headers', next : 1..(MaxClients + 1),
                       alone : BOOLEAN, target : Clients, found : BOOLEAN]
      BY <1>h, <1>3, <2>1 DEF LookUp
    <3>2. reader'.header = list /\ reader'.next = 1
      BY <2>1 DEF LookUp
    <3> QED BY <1>h, <2>1, <3>1, <3>2 DEF LookUps, OverHeader, InsideArray, listVars
  <2> QED BY <1>w, <2>1, <2>2 DEF WalkTypeOK
<1>4. CASE ReadEntry
  <2>1. reader.at = "walk" /\ reader.next <= reader.header.len /\ stopper' = stopper
        /\ reader' = [reader EXCEPT !.next = reader.next + 1,
                        !.found = Entry(reader.header, reader.next) = reader.target]
    BY <1>4 DEF ReadEntry, Entry
  <2>2. reader \in [at : {"walk"}, header : Headers, next : 1..(MaxClients + 1),
                    alone : BOOLEAN, target : Clients, found : BOOLEAN]
    BY <1>s, <2>1 DEF LookUps, Idle
  <2>3. reader.header.len \in 0..MaxClients /\ reader.next + 1 \in 1..(MaxClients + 1)
    BY <1>h, <2>1, <2>2 DEF Headers
  <2>4. /\ reader' \in [at : {"walk"}, header : Headers, next : 1..(MaxClients + 1),
                        alone : BOOLEAN, target : Clients, found : BOOLEAN]
        /\ reader'.header = reader.header /\ reader'.next = reader.next + 1
    BY <2>1, <2>2, <2>3
  <2>5. InsideArray(reader.header)' /\ Headers \subseteq Headers'
    BY <1>0, <1>s, <2>1, <2>2, <2>4, WalksKept DEF OverHeader, InsideArray
  <2>6. reader' \in LookUps'
    BY <2>4, <2>5 DEF LookUps
  <2>7. OverHeader(reader)'
    BY <1>h, <2>1, <2>2, <2>3, <2>4, <2>5 DEF OverHeader
  <2> QED BY <1>w, <2>1, <2>6, <2>7 DEF WalkTypeOK
<1>5. CASE ReadEnds
  <2>1. reader' \in LookUps' /\ OverHeader(reader)'
    BY <1>5 DEF ReadEnds, LookUps, OverHeader, Idle
  <2> QED BY <1>5, <1>w, <2>1 DEF ReadEnds, WalkTypeOK
<1>6. ASSUME NEW k \in Services, ServiceFails(k) PROVE WalkTypeOK'
  <2>1. stopper' = [stopper EXCEPT ![k] = Walk(list)] /\ reader' = reader /\ UNCHANGED listVars
    BY <1>6 DEF ServiceFails
  <2>2. Walk(list) \in Walks' /\ Lasts(Walk(list))
    BY <1>h, <2>1 DEF Walk, Walks, Lasts, listVars
  <2>3. stopper' \in [Services -> Walks'] /\ \A j \in Services : OverHeader(stopper[j])'
    BY <1>6, <1>o, <2>1, <2>2
  <2> QED BY <1>r, <2>1, <2>3 DEF WalkTypeOK
<1>7. ASSUME NEW k \in Services, StopCloses(k) PROVE WalkTypeOK'
  <2>1. /\ stopper' = [stopper EXCEPT ![k] = [stopper[k] EXCEPT !.at = "done"]]
        /\ reader' = reader /\ stopper[k].at = "walk"
    BY <1>7 DEF StopCloses
  <2> DEFINE w == [stopper[k] EXCEPT !.at = "done"]
  <2>2. w \in Walks' /\ w.at = "done"
    <3>1. stopper[k] \in [at : {"walk", "done"}, header : Headers, next : 1..(MaxClients + 1)]
      BY <1>7, <1>s, <2>1 DEF Walks, Idle
    <3>2. Headers \subseteq Headers'
      BY <1>0, WalksKept
    <3> QED BY <3>1, <3>2 DEF Walks
  <2>3. Lasts(w)
    BY <2>2 DEF Lasts
  <2>4. stopper' = [stopper EXCEPT ![k] = w]
    BY <2>1
  <2> HIDE DEF w
  <2>5. stopper' \in [Services -> Walks'] /\ \A j \in Services : OverHeader(stopper[j])'
    BY <1>7, <1>o, <2>2, <2>3, <2>4
  <2> QED BY <1>r, <2>1, <2>5 DEF WalkTypeOK
<1>8. ASSUME NEW k \in Services, StopEntry(k) PROVE WalkTypeOK'
  <2> DEFINE w == [stopper[k] EXCEPT !.next = stopper[k].next + 1]
  <2>1. /\ stopper[k].at = "walk" /\ stopper[k].next <= stopper[k].header.len
        /\ reader' \in {reader, Shrunk(reader)}
        /\ stopper' = [stopper EXCEPT ![k] = w]
    BY <1>8 DEF StopEntry
  <2>2. stopper[k] \in [at : {"walk", "done"}, header : Headers, next : 1..(MaxClients + 1)]
    BY <1>8, <1>s, <2>1 DEF Walks, Idle
  <2>3. stopper[k].header.len \in 0..MaxClients /\ stopper[k].next + 1 \in 1..(MaxClients + 1)
    BY SMTT(30), <1>h, <2>1, <2>2 DEF Headers
  <2>4. /\ w \in [at : {"walk", "done"}, header : Headers, next : 1..(MaxClients + 1)]
        /\ w.header = stopper[k].header /\ w.next = stopper[k].next + 1
    BY <2>2, <2>3
  <2>5. w \in Walks' /\ Lasts(w)
    <3>1. Headers \subseteq Headers' /\ \A h \in Headers : InsideArray(h) => InsideArray(h)'
      BY <1>0, WalksKept
    <3>2. w.header.len <= Len(heap'[w.header.array])
      BY <1>8, <1>s, <2>1, <2>2, <2>4, <3>1 DEF OverHeader, InsideArray
    <3>3. w \in Walks'
      BY <2>4, <3>1 DEF Walks
    <3>4. w.next <= w.header.len + 1
      BY <2>1, <2>2, <2>3, <2>4
    <3> QED BY <3>2, <3>3, <3>4 DEF Lasts
  <2> HIDE DEF w
  <2>6. stopper' \in [Services -> Walks'] /\ \A j \in Services : OverHeader(stopper[j])'
    BY <1>8, <1>o, <2>1, <2>5
  <2> QED BY <1>r, <2>1, <2>6 DEF WalkTypeOK
<1> QED BY <1>1, <1>2, <1>3, <1>4, <1>5, <1>6, <1>7, <1>8 DEF LifecycleNext, Elsewhere

\* A step that leaves the cells below every header, but for the one behind the
\* list, and the look-up as they are keeps its invariant.
LEMMA LookUpUnharmed ==
  ASSUME LifecycleInv, LookUpInv, ListKept, reader' = reader,
         \/ UNCHANGED listVars
         \/ /\ list'.len = list.len + 1
            /\ list'.array = list.array \/ list'.array = Len(heap) + 1
            /\ \A a \in 1..Len(heap) : \A n \in 1..Len(heap[a]) :
                 \/ heap'[a][n] = heap[a][n]
                 \/ a = list.array /\ list'.array = list.array /\ n = list.len + 1
  PROVE  LookUpInv'
<1>1. CASE UNCHANGED listVars
  BY <1>1 DEF LookUpInv, listVars, Entry
<1>2. CASE ~UNCHANGED listVars
  <2> SUFFICES ASSUME reader.at = "walk", reader.alone
               PROVE  /\ reader.header.array = list'.array => reader.header.len <= list'.len
                      /\ ~reader.found =>
                           \E n \in reader.next..reader.header.len :
                             heap'[reader.header.array][n] = reader.target
    BY DEF LookUpInv, Entry
  <2>1. /\ reader.header.array \in 1..Len(heap) /\ reader.header.len \in Nat
        /\ reader.header.len <= Len(heap[reader.header.array]) /\ reader.next \in Nat \ {0}
    BY DEF LifecycleInv, LifecycleTypeOK, WalkTypeOK, LookUps, Idle, Headers, OverHeader, InsideArray
  <2>2. list.len \in Nat /\ list.array = Len(heap) /\ Len(heap) \in Nat
    BY HeapProperties
  <2>3. reader.header.array = list.array => reader.header.len <= list.len
    BY DEF LookUpInv
  <2>4. reader.header.array = list'.array => reader.header.len <= list'.len
    BY <1>2, <2>1, <2>2, <2>3
  <2>5. ASSUME ~reader.found
        PROVE  \E n \in reader.next..reader.header.len :
                 heap'[reader.header.array][n] = reader.target
    <3>1. PICK n \in reader.next..reader.header.len :
            heap[reader.header.array][n] = reader.target
      BY <2>5 DEF LookUpInv, Entry
    <3>2. n \in 1..Len(heap[reader.header.array])
      BY <2>1, HeapProperties
    <3>3. ~(reader.header.array = list.array /\ n = list.len + 1)
      BY <2>1, <2>2, <2>3
    <3> QED BY <1>2, <2>1, <3>1, <3>2, <3>3
  <2> QED BY <2>4, <2>5
<1> QED BY <1>1, <1>2

\* A look-up that learns of a removal claims nothing any more.
LEMMA LookUpCut ==
  ASSUME LifecycleInv, reader' = Shrunk(reader)
  PROVE  LookUpInv'
<1>1. reader'.at = "walk" => ~reader'.alone
  BY DEF LifecycleInv, LifecycleTypeOK, WalkTypeOK, LookUps, Idle, Shrunk
<1> QED BY <1>1 DEF LookUpInv

\* Every step keeps the invariant of the look-up.
LEMMA LookUpStep ==
  ASSUME LifecycleInv, [LifecycleNext]_lifecycleVars
  PROVE  LookUpInv'
<1>0. ListKept /\ LookUpInv
  BY ListStep DEF LifecycleInv
<1>1. ASSUME reader' = reader, UNCHANGED listVars PROVE LookUpInv'
  BY <1>0, <1>1, LookUpUnharmed
<1>2. CASE Elsewhere
  BY <1>1, <1>2 DEF Elsewhere, BeginService, Listen, AcceptCheck, GetTunnelService, StartClient, LoseClient,
     Serve, lifecycleVars
<1>3. CASE Accept
  <2>1. CASE UNCHANGED listVars
    BY <1>1, <1>3, <2>1 DEF Accept
  <2>2. CASE ~UNCHANGED listVars
    <3>1. accepted < MaxClients /\ accepted' = accepted + 1 /\ Append1(accepted + 1)
          /\ reader' = reader
      BY <1>3, <2>2 DEF Accept
    <3>2. accepted + 1 \in Clients
      <4>1. accepted \in 0..MaxClients /\ MaxClients \in Nat
        BY HeapProperties, LifecycleAssumption
      <4> QED BY <3>1, <4>1 DEF Clients
    <3> QED BY <1>0, <3>1, <3>2, AppendKeeps, LookUpUnharmed
  <2> QED BY <2>1, <2>2
<1>4. ASSUME NEW c \in Clients, Reap(c) PROVE LookUpInv'
  BY <1>4, LookUpCut DEF Reap
<1>5. ASSUME NEW c \in Clients, GetClientById(c) PROVE LookUpInv'
  <2>1. reader' = LookUp(c) /\ c \in Registered /\ UNCHANGED listVars
    BY <1>5 DEF GetClientById
  <2>2. PICK n \in 1..list.len : heap[list.array][n] = c
    BY <2>1 DEF Registered, Entry
  <2>3. list.len \in Nat
    BY HeapProperties
  <2> QED BY <2>1, <2>2, <2>3 DEF LookUpInv, LookUp, Entry, listVars
<1>6. CASE ReadEntry
  <2>1. /\ reader.at = "walk" /\ reader.next <= reader.header.len /\ ~reader.found
        /\ reader' = [reader EXCEPT !.next = reader.next + 1,
                        !.found = heap[reader.header.array][reader.next] = reader.target]
        /\ UNCHANGED listVars
    BY <1>6 DEF ReadEntry
  <2>2. reader \in [at : {"walk"}, header : Headers, next : 1..(MaxClients + 1),
                    alone : BOOLEAN, target : Clients, found : BOOLEAN]
    BY <2>1 DEF LifecycleInv, LifecycleTypeOK, WalkTypeOK, LookUps, Idle
  <2>3. /\ reader'.header = reader.header /\ reader'.target = reader.target
        /\ reader'.next = reader.next + 1 /\ reader'.alone = reader.alone
        /\ reader'.found = (heap[reader.header.array][reader.next] = reader.target)
    BY <2>1, <2>2
  <2>4. reader.next \in Nat /\ reader.header.len \in Nat
    BY <2>2 DEF Headers
  <2>5. ASSUME reader'.alone, ~reader'.found
        PROVE  \E n \in reader'.next..reader'.header.len :
                 heap'[reader'.header.array][n] = reader'.target
    <3>1. PICK n \in reader.next..reader.header.len :
            heap[reader.header.array][n] = reader.target
      BY <1>0, <2>1, <2>3, <2>5 DEF LookUpInv, Entry
    <3>2. n # reader.next
      BY <2>3, <2>5, <3>1
    <3>3. n \in (reader.next + 1)..reader.header.len
      BY <2>4, <3>1, <3>2
    <3> QED BY <2>1, <2>3, <3>1, <3>3 DEF listVars
  <2>6. reader'.alone /\ reader'.header.array = list'.array => reader'.header.len <= list'.len
    BY <1>0, <2>1, <2>3 DEF LookUpInv, listVars
  <2> QED BY <2>5, <2>6 DEF LookUpInv, Entry
<1>7. CASE ReadEnds
  BY <1>7 DEF ReadEnds, LookUpInv, Idle
<1>8. ASSUME NEW k \in Services, ServiceFails(k) \/ StopCloses(k) PROVE LookUpInv'
  BY <1>1, <1>8 DEF ServiceFails, StopCloses
<1>9. ASSUME NEW k \in Services, StopEntry(k) PROVE LookUpInv'
  <2>1. PICK c : /\ RemoveClient(c)
                 /\ reader' = IF c \in Registered THEN Shrunk(reader) ELSE reader
    <3> DEFINE c == heap[stopper[k].header.array][stopper[k].next]
    <3>1. /\ RemoveClient(c)
          /\ reader' = IF c \in Registered THEN Shrunk(reader) ELSE reader
      BY <1>9 DEF StopEntry
    <3> QED BY <3>1
  <2>2. CASE c \in Registered
    BY <2>1, <2>2, LookUpCut
  <2>3. CASE c \notin Registered
    BY <1>1, <2>1, <2>3 DEF RemoveClient
  <2> QED BY <2>2, <2>3
<1> QED BY <1>2, <1>3, <1>4, <1>5, <1>6, <1>7, <1>8, <1>9 DEF LifecycleNext, Elsewhere

\* The invariant of the server's life is inductive.
LEMMA LifecycleInductive ==
  /\ LifecycleInit => LifecycleInv
  /\ LifecycleInv /\ [LifecycleNext]_lifecycleVars => LifecycleInv'
<1>1. ASSUME LifecycleInit PROVE LifecycleInv
  <2> USE <1>1, LifecycleAssumption DEF LifecycleInit
  <2>1. ListTypeOK
    <3>1. heap = <<<<>>>> /\ <<>> \in Seq(Cells) /\ heap \in Seq(Seq(Cells)) /\ Len(heap) = 1
      OBVIOUS
    <3>2. heap[1] = <<>> /\ Len(heap[1]) = 0
      BY <3>1
    <3> QED BY <3>1, <3>2 DEF ListTypeOK, Headers, InsideArray, Cells
  <2>2. WalkTypeOK
    BY DEF WalkTypeOK, Walks, LookUps, Idle, OverHeader
  <2>3. RestTypeOK
    <3>1. 0 \in 0..NumServices /\ 0 \in 0..0 /\ 0 \in 0..(NumServices - 1) /\ 0 \in 0..MaxClients
      OBVIOUS
    <3>2. client \in [Clients -> ClientStates] /\ serving \subseteq Services
          /\ \A c \in Clients : client[c] = "none"
      BY DEF ClientStates
    <3>3. begun \in 0..NumServices /\ services \in 0..begun /\ startIndex \in 0..(NumServices - 1)
          /\ accepted \in 0..MaxClients
      BY <3>1
    <3> QED BY <3>2, <3>3 DEF RestTypeOK
  <2>4. LookUpInv
    BY DEF LookUpInv, Idle
  <2> QED BY <2>1, <2>2, <2>3, <2>4 DEF LifecycleInv, LifecycleTypeOK
<1>2. ASSUME LifecycleInv, [LifecycleNext]_lifecycleVars PROVE LifecycleInv'
  <2>1. ListTypeOK'
    BY <1>2, ListStep DEF ListKept, ListTypeOK, Headers, InsideArray, Cells, Clients
  <2> QED BY <1>2, <2>1, WalkTypeStep, RestTypeStep, LookUpStep DEF LifecycleInv, LifecycleTypeOK
<1> QED BY <1>1, <1>2

\* For any number of clients and services, the list of clients, the walks over
\* it and the services keep their types: no index is out of range but the one
\* GetTunnelService ends the process for.
THEOREM LifecycleTypeCorrect == LifecycleSpec => []LifecycleTypeOK
<1>1. LifecycleInv => LifecycleTypeOK
  BY DEF LifecycleInv
<1> QED BY LifecycleInductive, <1>1, PTL DEF LifecycleSpec

\* For any number of clients, however often the list grows out of its array: a
\* look-up misses a registered client only if an entry went while it walked.
THEOREM MissedOnlyWhenCutHolds == LifecycleSpec => []MissedOnlyWhenCut
<1>1. ASSUME LifecycleInv PROVE MissedOnlyWhenCut
  <2> SUFFICES ASSUME reader.at = "walk", reader.next > reader.header.len, ~reader.found,
                      reader.alone
               PROVE  FALSE
    BY DEF MissedOnlyWhenCut
  <2>1. \E n \in reader.next..reader.header.len : TRUE
    BY <1>1 DEF LifecycleInv, LookUpInv
  <2>2. reader.next \in Nat /\ reader.header.len \in Nat
    BY <1>1 DEF LifecycleInv, LifecycleTypeOK, WalkTypeOK, LookUps, Idle, Headers
  <2> QED BY <2>1, <2>2
<1> QED BY LifecycleInductive, <1>1, PTL DEF LifecycleSpec

-----------------------------------------------------------------------------
(* What the list holds while Stop, the reapers and the accept loop move its *)
(* entries.                                                                 *)

\* The entries of the list are different clients.
DistinctInv ==
  \A p \in 1..list.len :
    /\ Entry(list, p) \in 1..accepted
    /\ \A q \in 1..list.len : Entry(list, p) = Entry(list, q) => p = q

\* A client is listed as long as it is up.
RosterInv == \A c \in Clients : c \in Registered <=> client[c] \in {"new", "runs", "lost"}

\* What every step keeps, of the list and of the clients.
ExactInv == LifecycleInv /\ DistinctInv /\ RosterInv

\* What append does to the entries.
LEMMA AppendEntries ==
  ASSUME LifecycleInv, NEW c \in Clients, Append1(c)
  PROVE  /\ list'.len = list.len + 1
         /\ \/ /\ list'.array = list.array /\ list.len < Len(heap[list.array])
               /\ \A q \in 1..Len(heap[list.array]) :
                    heap'[list.array][q] = IF q = list.len + 1 THEN c ELSE heap[list.array][q]
            \/ /\ list'.array = Len(heap) + 1
               /\ \A q \in 1..(list.len + 1) :
                    heap'[list'.array][q] = IF q = list.len + 1 THEN c ELSE heap[list.array][q]
<1>0. list = [array |-> list.array, len |-> list.len] /\ heap \in Seq(Seq(Cells)) /\ c \in Cells
  BY DEF LifecycleInv, LifecycleTypeOK, ListTypeOK, Headers, Cells
<1>h. /\ Len(heap) \in Nat \ {0} /\ list.array = Len(heap) /\ list.len \in Nat
      /\ list.len <= Len(heap[list.array])
      /\ heap[list.array] \in Seq(Cells) /\ Len(heap[list.array]) \in Nat
  BY HeapProperties
<1>1. CASE list.len < Len(heap[list.array])
  <2> DEFINE array == [heap[list.array] EXCEPT ![list.len + 1] = c]
  <2>1. heap' = [heap EXCEPT ![list.array] = array] /\ list' = [list EXCEPT !.len = list.len + 1]
    BY <1>0, <1>h, <1>1 DEF Append1
  <2>2. list.len + 1 \in 1..Len(heap[list.array])
    BY <1>h, <1>1
  <2>3. \A n \in 1..Len(heap[list.array]) :
          array[n] = IF n = list.len + 1 THEN c ELSE heap[list.array][n]
    BY <1>0, <1>h, <2>2, ExceptSeq
  <2>4. array \in Seq(Cells)
    BY <1>0, <1>h, <2>2, ExceptSeq
  <2> HIDE DEF array
  <2>5. heap'[list.array] = array
    BY <1>0, <1>h, <2>1, <2>4, ExceptSeq
  <2>6. list'.array = list.array /\ list'.len = list.len + 1
    <3>1. list' = [array |-> list.array, len |-> list.len + 1]
      BY <1>0, <2>1
    <3> QED BY <3>1
  <2> QED BY <1>1, <2>3, <2>5, <2>6
<1>2. CASE ~(list.len < Len(heap[list.array]))
  <2> DEFINE size == IF list.len = 0 THEN 1 ELSE 2 * list.len
             array == [n \in 1..size |-> IF n <= list.len THEN heap[list.array][n]
                                         ELSE IF n = list.len + 1 THEN c ELSE None]
  <2>1. heap' = Append(heap, array) /\ list' = [array |-> Len(heap) + 1, len |-> list.len + 1]
    BY <1>h, <1>2 DEF Append1
  <2>2. \A q \in 1..(list.len + 1) :
          array[q] = IF q = list.len + 1 THEN c ELSE heap[list.array][q]
    <3>1. list.len + 1 <= size /\ size \in Nat
      BY <1>h
    <3> HIDE DEF size
    <3> QED BY <1>h, <3>1
  <2>3. array \in Seq(Cells)
    <3>1. size \in Nat
      BY <1>h
    <3>2. \A n \in 1..list.len : heap[list.array][n] \in Cells
      BY <1>h, ElementOfSeq
    <3>3. None \in Cells
      BY DEF Cells
    <3>4. array \in [1..size -> Cells]
      BY <1>0, <1>h, <3>1, <3>2, <3>3
    <3> HIDE DEF array, size
    <3> QED BY <3>1, <3>4, FunctionIsSeq, Zenon
  <2> HIDE DEF array
  <2>4. heap'[Len(heap) + 1] = array
    BY <1>0, <1>h, <2>1, <2>3
  <2> QED BY <1>h, <2>1, <2>2, <2>4
<1> QED BY <1>1, <1>2

\* What a removal does to the entries.
LEMMA RemoveEntries ==
  ASSUME LifecycleInv, NEW c, RemoveClient(c), c \in Registered
  PROVE  \E m \in 1..list.len :
           /\ heap[list.array][m] = c
           /\ list'.len = list.len - 1 /\ list'.array = list.array
           /\ \A q \in 1..Len(heap[list.array]) :
                heap'[list.array][q] = IF q \in m..(list.len - 1) THEN heap[list.array][q + 1]
                                       ELSE heap[list.array][q]
<1>0. list = [array |-> list.array, len |-> list.len] /\ heap \in Seq(Seq(Cells))
  BY DEF LifecycleInv, LifecycleTypeOK, ListTypeOK, Headers, Cells
<1>h. /\ Len(heap) \in Nat \ {0} /\ list.array = Len(heap) /\ list.len \in Nat
      /\ DOMAIN heap[list.array] = 1..Len(heap[list.array]) /\ DOMAIN heap = 1..Len(heap)
  BY HeapProperties
<1>1. PICK m \in 1..list.len : heap[list.array][m] = c /\ Cut(m)
  BY DEF RemoveClient, Entry
<1> DEFINE old == heap[list.array]
           array == [q \in 1..Len(old) |-> IF q \in m..(list.len - 1) THEN old[q + 1] ELSE old[q]]
<1>2. heap' = [heap EXCEPT ![list.array] = array] /\ list' = [list EXCEPT !.len = list.len - 1]
  BY <1>0, <1>h, <1>1 DEF Cut
<1>3. heap'[list.array] = array
  <2> HIDE DEF array
  <2> QED BY <1>0, <1>h, <1>2
<1>4. list'.len = list.len - 1 /\ list'.array = list.array
  <2>1. list' = [array |-> list.array, len |-> list.len - 1]
    BY <1>0, <1>2
  <2> QED BY <2>1
<1> QED BY <1>1, <1>3, <1>4

\* What a step does to the list and the clients: nothing, a change of who is
\* up, an append by Accept, or a removal by a reaper or by Stop.
LEMMA ListMoves ==
  ASSUME LifecycleInv, [LifecycleNext]_lifecycleVars
  PROVE  \/ /\ UNCHANGED listVars /\ accepted' = accepted
            /\ \/ client' = client
               \/ \E c \in Clients : StartClient(c) \/ LoseClient(c)
         \/ /\ Append1(accepted + 1) /\ accepted + 1 \in Clients /\ accepted' = accepted + 1
            /\ Becomes(accepted + 1, "new")
         \/ \E c \in Clients : Reap(c)
         \/ \E k \in Services : StopEntry(k)
<1>1. CASE Accept
  <2>1. CASE UNCHANGED <<listVars, client, accepted>>
    BY <2>1
  <2>2. CASE ~UNCHANGED <<listVars, client, accepted>>
    <3>1. /\ accepted < MaxClients /\ accepted' = accepted + 1 /\ Append1(accepted + 1)
          /\ Becomes(accepted + 1, "new")
      BY <1>1, <2>2 DEF Accept
    <3>2. accepted \in 0..MaxClients /\ MaxClients \in Nat
      BY HeapProperties, LifecycleAssumption
    <3>3. accepted + 1 \in Clients
      BY <3>1, <3>2 DEF Clients
    <3> QED BY <3>1, <3>3
  <2> QED BY <2>1, <2>2
<1>2. CASE Elsewhere \/ ReadEntry \/ ReadEnds
  <2>1. CASE \E c \in Clients : StartClient(c) \/ LoseClient(c)
    BY <2>1 DEF StartClient, LoseClient
  <2>2. CASE ~\E c \in Clients : StartClient(c) \/ LoseClient(c)
    <3>1. UNCHANGED listVars /\ accepted' = accepted /\ client' = client
      BY <1>2, <2>2 DEF Elsewhere, BeginService, Listen, AcceptCheck, GetTunnelService,
         Serve, ReadEntry, ReadEnds, lifecycleVars, listVars
    <3> QED BY <3>1
  <2> QED BY <2>1, <2>2
<1>3. ASSUME NEW c \in Clients, GetClientById(c)
      PROVE  UNCHANGED listVars /\ accepted' = accepted /\ client' = client
  BY <1>3 DEF GetClientById
<1>4. ASSUME NEW k \in Services, ServiceFails(k) \/ StopCloses(k)
      PROVE  UNCHANGED listVars /\ accepted' = accepted /\ client' = client
  BY <1>4 DEF ServiceFails, StopCloses
<1> QED BY <1>1, <1>2, <1>3, <1>4 DEF LifecycleNext, Elsewhere

\* Entries stay different.
LEMMA DistinctStep ==
  ASSUME LifecycleInv, DistinctInv, [LifecycleNext]_lifecycleVars
  PROVE  DistinctInv'
<1>h. /\ list.len \in Nat /\ accepted \in Nat /\ list.len <= Len(heap[list.array])
      /\ Len(heap[list.array]) \in Nat /\ MaxClients \in Nat
  BY HeapProperties, LifecycleAssumption
<1>1. CASE UNCHANGED listVars /\ accepted' = accepted
  BY <1>1 DEF DistinctInv, Entry, listVars
<1>2. CASE Append1(accepted + 1) /\ accepted + 1 \in Clients /\ accepted' = accepted + 1
  <2>1. /\ list'.len = list.len + 1
        /\ \A q \in 1..(list.len + 1) :
             heap'[list'.array][q] = IF q = list.len + 1 THEN accepted + 1
                                     ELSE heap[list.array][q]
    BY SMTT(30), <1>2, <1>h, AppendEntries
  <2>2. \A p \in 1..list.len : heap[list.array][p] \in 1..accepted
        /\ \A q \in 1..list.len : heap[list.array][p] = heap[list.array][q] => p = q
    BY DEF DistinctInv, Entry
  <2>3. \A p \in 1..(list.len + 1) : p \in 1..list.len \/ p = list.len + 1
    BY <1>h
  <2>4. \A p \in 1..(list.len + 1) :
          /\ heap'[list'.array][p] \in 1..(accepted + 1)
          /\ \A q \in 1..(list.len + 1) : heap'[list'.array][p] = heap'[list'.array][q] => p = q
    <3> SUFFICES ASSUME NEW p \in 1..(list.len + 1)
                 PROVE  /\ heap'[list'.array][p] \in 1..(accepted + 1)
                        /\ \A q \in 1..(list.len + 1) :
                             heap'[list'.array][p] = heap'[list'.array][q] => p = q
      OBVIOUS
    <3>1. CASE p = list.len + 1
      <4>1. heap'[list'.array][p] = accepted + 1
        BY <1>h, <2>1, <3>1
      <4>2. ASSUME NEW q \in 1..list.len
            PROVE  heap'[list'.array][q] \in 1..accepted /\ heap'[list'.array][q] # accepted + 1
        <5>1. heap'[list'.array][q] = heap[list.array][q]
          BY <1>h, <2>1
        <5>2. heap[list.array][q] \in 1..accepted
          BY <2>2
        <5> QED BY <1>h, <5>1, <5>2
      <4>3. accepted + 1 \in 1..(accepted + 1)
        BY <1>h
      <4> QED BY <2>3, <3>1, <4>1, <4>2, <4>3
    <3>2. CASE p \in 1..list.len
      BY SMTT(30), <1>h, <2>1, <2>2, <2>3, <3>2
    <3> QED BY <2>3, <3>1, <3>2
  <2> QED BY <1>2, <2>1, <2>4 DEF DistinctInv, Entry
<1>3. ASSUME NEW c, RemoveClient(c), accepted' = accepted
      PROVE  DistinctInv'
  <2>1. CASE c \notin Registered
    BY <1>1, <1>3, <2>1 DEF RemoveClient
  <2>2. CASE c \in Registered
    <3>1. PICK m \in 1..list.len :
            /\ list'.len = list.len - 1 /\ list'.array = list.array
            /\ \A q \in 1..Len(heap[list.array]) :
                 heap'[list.array][q] = IF q \in m..(list.len - 1) THEN heap[list.array][q + 1]
                                        ELSE heap[list.array][q]
      BY <1>3, <2>2, RemoveEntries
    <3> DEFINE From(q) == IF q \in m..(list.len - 1) THEN q + 1 ELSE q
    <3>2. \A q \in 1..list'.len : /\ From(q) \in 1..list.len
                                  /\ heap'[list'.array][q] = heap[list.array][From(q)]
      BY <1>h, <3>1
    <3>3. \A p, q \in 1..list'.len : From(p) = From(q) => p = q
      BY <1>h, <3>1
    <3> HIDE DEF From
    <3> QED BY <1>3, <3>2, <3>3 DEF DistinctInv, Entry
  <2> QED BY <2>1, <2>2
<1>4. ASSUME NEW c \in Clients, Reap(c) PROVE DistinctInv'
  BY <1>3, <1>4 DEF Reap
<1>5. ASSUME NEW k \in Services, StopEntry(k) PROVE DistinctInv'
  BY <1>3, <1>5 DEF StopEntry
<1> QED BY <1>1, <1>2, <1>4, <1>5, ListMoves

\* append lists one client more.
LEMMA AppendLists ==
  ASSUME LifecycleInv, NEW c \in Clients, Append1(c)
  PROVE  Registered' = Registered \cup {c}
<1>h. /\ list.len \in Nat /\ list.len <= Len(heap[list.array]) /\ Len(heap[list.array]) \in Nat
  BY HeapProperties
<1>1. /\ list'.len = list.len + 1
      /\ \A q \in 1..(list.len + 1) :
           heap'[list'.array][q] = IF q = list.len + 1 THEN c ELSE heap[list.array][q]
  BY SMTT(30), <1>h, AppendEntries
<1>2. 1..(list.len + 1) = 1..list.len \cup {list.len + 1} /\ list.len + 1 \notin 1..list.len
  BY <1>h
<1>3. Registered' = {heap'[list'.array][q] : q \in 1..(list.len + 1)}
  BY <1>1 DEF Registered, Entry
<1>4. Registered = {heap[list.array][q] : q \in 1..list.len}
  BY DEF Registered, Entry
<1> QED BY <1>1, <1>2, <1>3, <1>4

\* A removal lists one client less: it stood there once.
LEMMA RemoveUnlists ==
  ASSUME LifecycleInv, DistinctInv, NEW c, RemoveClient(c), c \in Registered
  PROVE  Registered' = Registered \ {c}
<1>h. /\ list.len \in Nat /\ list.len <= Len(heap[list.array]) /\ Len(heap[list.array]) \in Nat
  BY HeapProperties
<1>1. PICK m \in 1..list.len :
        /\ heap[list.array][m] = c
        /\ list'.len = list.len - 1 /\ list'.array = list.array
        /\ \A q \in 1..Len(heap[list.array]) :
             heap'[list.array][q] = IF q \in m..(list.len - 1) THEN heap[list.array][q + 1]
                                    ELSE heap[list.array][q]
  BY RemoveEntries
<1> DEFINE From(q) == IF q \in m..(list.len - 1) THEN q + 1 ELSE q
           To(p) == IF p > m THEN p - 1 ELSE p
<1>2. \A q \in 1..list'.len : /\ From(q) \in 1..list.len \ {m}
                              /\ heap'[list'.array][q] = heap[list.array][From(q)]
  BY <1>h, <1>1
<1>3. \A p \in 1..list.len \ {m} : To(p) \in 1..list'.len /\ From(To(p)) = p
  BY <1>h, <1>1
<1>4. \A p \in 1..list.len : heap[list.array][p] = c <=> p = m
  BY <1>1 DEF DistinctInv, Entry
<1>5. ASSUME NEW d \in Registered' PROVE d \in Registered \ {c}
  <2>1. PICK q \in 1..list'.len : d = heap'[list'.array][q]
    BY <1>5 DEF Registered, Entry
  <2> HIDE DEF From
  <2> QED BY <1>2, <1>4, <2>1 DEF Registered, Entry
<1>6. ASSUME NEW d \in Registered \ {c} PROVE d \in Registered'
  <2>1. PICK p \in 1..list.len : d = heap[list.array][p] /\ p # m
    BY <1>1, <1>6 DEF Registered, Entry
  <2>2. To(p) \in 1..list'.len /\ d = heap'[list'.array][To(p)]
    <3> HIDE DEF From, To
    <3> QED BY <1>2, <1>3, <2>1
  <2> HIDE DEF To
  <2> QED BY <2>2 DEF Registered, Entry
<1> QED BY <1>5, <1>6

\* A client stays listed as long as it is up.
LEMMA RosterStep ==
  ASSUME ExactInv, [LifecycleNext]_lifecycleVars
  PROVE  RosterInv'
<1> DEFINE Up == {"new", "runs", "lost"}
<1>0. /\ LifecycleInv /\ DistinctInv /\ client \in [Clients -> ClientStates]
      /\ \A c \in Clients : c \in Registered <=> client[c] \in Up
  BY DEF ExactInv, LifecycleInv, LifecycleTypeOK, RestTypeOK, RosterInv
<1>1. ASSUME UNCHANGED listVars, \A d \in Clients : client'[d] \in Up <=> client[d] \in Up
      PROVE  RosterInv'
  <2>1. Registered' = Registered
    BY <1>1 DEF Registered, Entry, listVars
  <2> QED BY <1>0, <1>1, <2>1 DEF RosterInv
<1>2. ASSUME NEW c \in Clients, StartClient(c) \/ LoseClient(c)
      PROVE  \A d \in Clients : client'[d] \in Up <=> client[d] \in Up
  <2>1. PICK state \in Up : client[c] \in Up /\ client' = [client EXCEPT ![c] = state]
    BY <1>2 DEF StartClient, LoseClient, Becomes
  <2> QED BY <1>0, <2>1
<1>3. CASE Append1(accepted + 1) /\ accepted + 1 \in Clients /\ Becomes(accepted + 1, "new")
  <2>1. Registered' = Registered \cup {accepted + 1}
    BY <1>0, <1>3, AppendLists
  <2>2. \A d \in Clients : client'[d] = IF d = accepted + 1 THEN "new" ELSE client[d]
    BY <1>0, <1>3 DEF Becomes
  <2> QED BY <1>0, <2>1, <2>2 DEF RosterInv
<1>4. ASSUME NEW c \in Registered, RemoveClient(c), Becomes(c, "gone")
      PROVE  RosterInv'
  <2>1. Registered' = Registered \ {c}
    BY <1>0, <1>4, RemoveUnlists
  <2>2. \A d \in Clients : client'[d] = IF d = c THEN "gone" ELSE client[d]
    BY <1>0, <1>4 DEF Becomes
  <2> QED BY <1>0, <2>1, <2>2 DEF RosterInv
<1>5. ASSUME NEW c \in Clients, Reap(c) PROVE RosterInv'
  <2>1. c \in Registered
    BY <1>0, <1>5 DEF Reap
  <2> QED BY <1>4, <1>5, <2>1 DEF Reap
<1>6. ASSUME NEW k \in Services, StopEntry(k) PROVE RosterInv'
  <2>1. PICK c : /\ RemoveClient(c)
                 /\ IF c \in Registered THEN Becomes(c, "gone") ELSE client' = client
    <3> DEFINE c == heap[stopper[k].header.array][stopper[k].next]
    <3>1. /\ RemoveClient(c)
          /\ IF c \in Registered THEN Becomes(c, "gone") ELSE client' = client
      BY <1>6 DEF StopEntry
    <3> HIDE DEF c
    <3> QED BY <3>1
  <2>2. CASE c \in Registered
    BY <1>4, <2>1, <2>2
  <2>3. CASE c \notin Registered
    BY <1>1, <2>1, <2>3 DEF RemoveClient
  <2> QED BY <2>2, <2>3
<1> QED BY <1>0, <1>1, <1>2, <1>3, <1>5, <1>6, ListMoves

\* For any number of clients, whatever Stop, the reapers and the accept loop do
\* to the list beside one another: it holds every client that is up exactly
\* once, and nobody else.
THEOREM ListIsExactHolds == LifecycleSpec => []ListIsExact
<1>1. LifecycleInit => ExactInv
  <2> SUFFICES ASSUME LifecycleInit PROVE ExactInv
    OBVIOUS
  <2>1. list.len = 0 /\ \A c \in Clients : client[c] = "none"
    BY DEF LifecycleInit
  <2> QED BY <2>1, LifecycleInductive DEF ExactInv, DistinctInv, RosterInv, Registered
<1>2. ExactInv /\ [LifecycleNext]_lifecycleVars => ExactInv'
  BY LifecycleInductive, DistinctStep, RosterStep DEF ExactInv
<1>3. ASSUME ExactInv PROVE ListIsExact
  <2>1. accepted \in 0..MaxClients /\ MaxClients \in Nat
    BY <1>3, HeapProperties, LifecycleAssumption DEF ExactInv
  <2>2. Registered \subseteq Clients
    BY <1>3, <2>1 DEF ExactInv, DistinctInv, Registered, Clients
  <2> QED BY <1>3, <2>2 DEF ExactInv, DistinctInv, RosterInv, ListIsExact
<1> QED BY <1>1, <1>2, <1>3, PTL DEF LifecycleSpec

=============================================================================
