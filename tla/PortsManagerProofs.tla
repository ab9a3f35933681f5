------------------------- MODULE PortsManagerProofs -------------------------
(***************************************************************************)
(* Proofs about PortsManager for any set of callers, any port range and    *)
(* any bound on the retries.                                               *)
(***************************************************************************)
EXTENDS PortsManager, TLAPS

\* The token and the program counters agree: a caller is between <-p.lock and
\* the deferred send exactly when it holds the token.
LockInv == \A c \in Callers : pc[c] \in Inside <=> lock = c

\* The retry counter has room for one more turn wherever Probe may add to it.
TriesInv == \A c \in Callers : pc[c] \in {"scan", "probe"} => tries < MaxTries

\* The candidate checked against the table is still absent from it when it is
\* written: only the token's holder changes the table.
MarkInv == \A c \in Callers : pc[c] = "mark" => cand \in Ports \ portsInUse

\* The inductive invariant behind mutual exclusion.
IInv == TypeOK /\ LockInv /\ TriesInv /\ MarkInv /\ Exclusive

\* No name of a program counter inside the call is "idle" or "wait".
LEMMA InsideNames == /\ "idle" \notin Inside /\ "wait" \notin Inside
                     /\ "loop" \in Inside /\ "scan" \in Inside
                     /\ "probe" \in Inside /\ "mark" \in Inside
  BY DEF Inside

\* The initial state satisfies the inductive invariant.
LEMMA InitIInv == Init => IInv
  BY NoCallerAssumption, RangeAssumption
  DEF Init, IInv, TypeOK, LockInv, TriesInv, MarkInv, Exclusive, Inside, Ports,
      Restricted

\* Every step of the manager keeps its variables in their types.
LEMMA TypeStep == IInv /\ [Next]_vars => TypeOK'
<1> SUFFICES ASSUME IInv, [Next]_vars PROVE TypeOK'
  OBVIOUS
<1> USE RangeAssumption DEF IInv, TypeOK, mgrVars, callVars, Ports
<1>1. CASE AddAllowedPort
  BY <1>1 DEF AddAllowedPort
<1>2. ASSUME NEW c \in Callers, CallReserve(c) PROVE TypeOK'
  BY <1>2 DEF CallReserve
<1>3. ASSUME NEW c \in Callers, Acquire(c) PROVE TypeOK'
  <2>1. Pool \subseteq Ports
    BY DEF Pool
  <2> QED BY <1>3, <2>1 DEF Acquire, Inside
<1>4. ASSUME NEW c \in Callers, Loop(c) PROVE TypeOK'
  <2>1. CASE Return(c)
    BY <1>4, <2>1 DEF Loop, Return, Inside
  <2>2. CASE /\ untried' = allowedPorts
             /\ cand' = 0
             /\ pc' = [pc EXCEPT ![c] = IF allowedPorts = {} THEN "probe" ELSE "scan"]
             /\ UNCHANGED <<lock, tries>>
    BY <1>4, <2>2 DEF Loop, Inside
  <2> QED BY <1>4, <2>1, <2>2 DEF Loop
<1>5. ASSUME NEW c \in Callers, Scan(c) PROVE TypeOK'
  <2>1. CASE Return(c)
    BY <1>5, <2>1 DEF Scan, Return, Inside
  <2>2. CASE ~Return(c)
    BY <1>5, <2>2 DEF Scan, Inside
  <2> QED BY <2>1, <2>2
<1>6. ASSUME NEW c \in Callers, Probe(c) PROVE TypeOK'
  <2>1. tries + 1 \in 0..MaxTries
    BY <1>6 DEF Probe, TriesInv
  <2>2. \A p \in FreePort(cand) : p \in Ports
    BY DEF FreePort
  <2>3. CASE Return(c)
    BY <1>6, <2>3 DEF Probe, Return, Inside
  <2>4. CASE ~Return(c)
    BY <1>6, <2>1, <2>2, <2>4 DEF Probe, Inside
  <2> QED BY <2>3, <2>4
<1>7. ASSUME NEW c \in Callers, Mark(c) PROVE TypeOK'
  <2>1. cand \in Ports
    BY <1>7 DEF Mark, MarkInv
  <2> QED BY <1>7, <2>1 DEF Mark, Return, Inside
<1>8. ASSUME NEW c \in Callers, NEW p \in Ports, ReleasePort(c, p) PROVE TypeOK'
  BY <1>8 DEF ReleasePort
<1>9. ASSUME NEW p \in Ports, OSBind(p) \/ OSUnbind(p) PROVE TypeOK'
  BY <1>9 DEF OSBind, OSUnbind
<1>10. CASE UNCHANGED vars
  BY <1>10 DEF vars
<1> QED BY <1>1, <1>2, <1>3, <1>4, <1>5, <1>6, <1>7, <1>8, <1>9, <1>10
        DEF Next, Step

\* Every step keeps the token, the counter and the candidate consistent.
LEMMA ControlStep == IInv /\ [Next]_vars => (LockInv /\ TriesInv /\ MarkInv)'
<1> SUFFICES ASSUME IInv, [Next]_vars PROVE (LockInv /\ TriesInv /\ MarkInv)'
  OBVIOUS
<1> USE RangeAssumption, NoCallerAssumption
    DEF IInv, TypeOK, LockInv, TriesInv, MarkInv, mgrVars, callVars, Inside
<1>1. CASE AddAllowedPort
  BY <1>1 DEF AddAllowedPort
<1>2. ASSUME NEW c \in Callers, CallReserve(c)
      PROVE (LockInv /\ TriesInv /\ MarkInv)'
  BY <1>2 DEF CallReserve
<1>3. ASSUME NEW c \in Callers, Acquire(c)
      PROVE (LockInv /\ TriesInv /\ MarkInv)'
  BY <1>3 DEF Acquire
<1>4. ASSUME NEW c \in Callers, Loop(c)
      PROVE (LockInv /\ TriesInv /\ MarkInv)'
  BY <1>4 DEF Loop, Return
<1>5. ASSUME NEW c \in Callers, Scan(c)
      PROVE (LockInv /\ TriesInv /\ MarkInv)'
  BY <1>5 DEF Scan, Return
<1>6. ASSUME NEW c \in Callers, Probe(c)
      PROVE (LockInv /\ TriesInv /\ MarkInv)'
  <2>1. \A p \in FreePort(cand) : p \in Ports
    BY DEF FreePort
  <2> QED BY <1>6, <2>1 DEF Probe, Return
<1>7. ASSUME NEW c \in Callers, Mark(c)
      PROVE (LockInv /\ TriesInv /\ MarkInv)'
  BY <1>7 DEF Mark, Return
<1>8. ASSUME NEW c \in Callers, NEW p \in Ports, ReleasePort(c, p)
      PROVE (LockInv /\ TriesInv /\ MarkInv)'
  BY <1>8 DEF ReleasePort
<1>9. ASSUME NEW p \in Ports, OSBind(p) \/ OSUnbind(p)
      PROVE (LockInv /\ TriesInv /\ MarkInv)'
  BY <1>9 DEF OSBind, OSUnbind
<1>10. CASE UNCHANGED vars
  BY <1>10 DEF vars
<1> QED BY <1>1, <1>2, <1>3, <1>4, <1>5, <1>6, <1>7, <1>8, <1>9, <1>10
        DEF Next, Step

\* Only Mark and ReleasePort touch the table or what callers hold, and both
\* keep them equal and the callers' shares disjoint.
LEMMA ExclusiveStep == IInv /\ [Next]_vars => Exclusive'
<1> SUFFICES ASSUME IInv, [Next]_vars PROVE Exclusive'
  OBVIOUS
<1> USE DEF IInv, TypeOK, Exclusive
<1>1. ASSUME UNCHANGED <<portsInUse, held>> PROVE Exclusive'
  BY <1>1
<1>2. ASSUME NEW c \in Callers, Mark(c) PROVE Exclusive'
  <2>1. cand \notin portsInUse
    BY <1>2 DEF Mark, MarkInv
  <2>2. /\ portsInUse' = portsInUse \cup {cand}
        /\ held' = [held EXCEPT ![c] = @ \cup {cand}]
    BY <1>2 DEF Mark
  <2>3. \A d \in Callers : cand \notin held[d]
    BY <2>1
  <2>4. \A d, e \in Callers : d # e => held'[d] \cap held'[e] = {}
    BY <2>2, <2>3
  <2>5. portsInUse' = UNION {held'[d] : d \in Callers}
    BY <2>2
  <2> QED BY <2>4, <2>5
<1>3. ASSUME NEW c \in Callers, NEW p \in Ports, ReleasePort(c, p)
      PROVE Exclusive'
  <2>1. /\ portsInUse' = portsInUse \ {p}
        /\ held' = [held EXCEPT ![c] = @ \ {p}]
        /\ p \in held[c] \/ p \notin portsInUse
    BY <1>3 DEF ReleasePort
  <2>2. \A d, e \in Callers : d # e => held'[d] \cap held'[e] = {}
    BY <2>1
  <2>3. \A d \in Callers : d # c => p \notin held[d]
    BY <2>1
  <2>4. portsInUse' = UNION {held'[d] : d \in Callers}
    BY <2>1, <2>3
  <2> QED BY <2>2, <2>4
<1>4. \/ UNCHANGED <<portsInUse, held>>
      \/ \E c \in Callers : Mark(c) \/ \E p \in Ports : ReleasePort(c, p)
  BY DEF Next, Step, vars, AddAllowedPort, CallReserve, Acquire, Loop, Scan,
         Probe, OSBind, OSUnbind
<1> QED BY <1>1, <1>2, <1>3, <1>4

\* The inductive invariant holds in every reachable state.
THEOREM IInvHolds == Spec => []IInv
<1>1. IInv /\ [Next]_vars => IInv'
  BY TypeStep, ControlStep, ExclusiveStep DEF IInv
<1> QED BY InitIInv, <1>1, PTL DEF Spec

\* Every variable of the manager keeps its type.
THEOREM TypeCorrect == Spec => []TypeOK
<1>1. IInv => TypeOK
  BY DEF IInv
<1> QED BY IInvHolds, <1>1, PTL

\* For any number of goroutines and any range, ReservePort never gives one
\* port to two callers and the table is exactly what callers hold.
THEOREM ExclusiveHolds == Spec => []Exclusive
<1>1. IInv => Exclusive
  BY DEF IInv
<1> QED BY IInvHolds, <1>1, PTL

-----------------------------------------------------------------------------
\* The table of allowed ports is the part of the range the loop has passed,
\* and no call starts before the loop is over.
TableInv == /\ allowedPorts = IF Restricted THEN LBound..(cursor - 1) ELSE {}
            /\ ~Restricted => Configured
            /\ \A c \in Callers : pc[c] # "idle" => Configured

\* While a call holds the token, what was free throughout it is still free.
FreshInv == lock # NoCaller => alwaysFree \subseteq Pool \ (portsInUse \cup osBound)

\* The scan has visited only ports that were, at some time, not available.
ScanInv == \A c \in Callers :
             pc[c] = "scan" => alwaysFree \subseteq untried /\ untried \subseteq allowedPorts

\* The inductive invariant behind NoFalseExhaustion.
SInv == IInv /\ TableInv /\ FreshInv /\ ScanInv

\* Every step keeps the scan honest.
LEMMA SInvStep == SInv /\ [Next]_vars => SInv'
<1> SUFFICES ASSUME SInv, [Next]_vars PROVE SInv'
  OBVIOUS
<1>0. IInv'
  BY TypeStep, ControlStep, ExclusiveStep DEF IInv, SInv
<1> USE RangeAssumption, NoCallerAssumption
    DEF SInv, IInv, TypeOK, TableInv, FreshInv, ScanInv, LockInv, mgrVars,
        callVars, Inside, Configured
<1>1. CASE AddAllowedPort
  BY <1>0, <1>1 DEF AddAllowedPort
<1>2. ASSUME NEW c \in Callers, CallReserve(c) PROVE SInv'
  BY <1>0, <1>2 DEF CallReserve
<1>3. ASSUME NEW c \in Callers, Acquire(c) PROVE SInv'
  BY <1>0, <1>3 DEF Acquire
<1>4. ASSUME NEW c \in Callers, Loop(c) PROVE SInv'
  <2>1. CASE Return(c)
    BY <1>0, <1>4, <2>1 DEF Loop, Return
  <2>2. CASE ~Return(c)
    <3>1. allowedPorts # {} => Pool \subseteq allowedPorts
      BY <1>4 DEF Loop, Pool, Ports
    <3> QED BY <1>0, <1>4, <2>2, <3>1 DEF Loop
  <2> QED BY <2>1, <2>2
<1>5. ASSUME NEW c \in Callers, Scan(c) PROVE SInv'
  <2>1. CASE Return(c)
    BY <1>0, <1>5, <2>1 DEF Scan, Return
  <2>2. CASE ~Return(c)
    <3>1. \A p \in untried : (p \in portsInUse \/ FreePort(p) = {}) => p \notin alwaysFree
      BY <1>5 DEF Scan, FreePort, Pool
    <3> QED BY <1>0, <1>5, <2>2, <3>1 DEF Scan
  <2> QED BY <2>1, <2>2
<1>6. ASSUME NEW c \in Callers, Probe(c) PROVE SInv'
  <2>1. CASE Return(c)
    BY <1>0, <1>6, <2>1 DEF Probe, Return
  <2>2. CASE ~Return(c)
    BY <1>0, <1>6, <2>2 DEF Probe
  <2> QED BY <2>1, <2>2
<1>7. ASSUME NEW c \in Callers, Mark(c) PROVE SInv'
  BY <1>0, <1>7 DEF Mark, Return
<1>8. ASSUME NEW c \in Callers, NEW p \in Ports, ReleasePort(c, p) PROVE SInv'
  BY <1>0, <1>8 DEF ReleasePort
<1>9. ASSUME NEW p \in Ports, OSBind(p) \/ OSUnbind(p) PROVE SInv'
  BY <1>0, <1>9 DEF OSBind, OSUnbind
<1>10. CASE UNCHANGED vars
  BY <1>0, <1>10 DEF vars
<1> QED BY <1>1, <1>2, <1>3, <1>4, <1>5, <1>6, <1>7, <1>8, <1>9, <1>10
        DEF Next, Step

\* The scan's invariant holds in every reachable state.
THEOREM SInvHolds == Spec => []SInv
<1>1. Init => SInv
  <2>1. Init => IInv
    BY InitIInv
  <2> QED BY <2>1, RangeAssumption, NoCallerAssumption
          DEF Init, SInv, TableInv, FreshInv, ScanInv, Configured, Restricted
<1> QED BY <1>1, SInvStep, PTL DEF Spec

\* ReservePort never reports that all allowed ports are unavailable while one
\* of them was free from the moment it took the token.
THEOREM NoFalseExhaustionHolds == Spec => NoFalseExhaustion
<1>1. SInv /\ [Next]_vars =>
        [\A c \in Callers : (pc[c] = "scan" /\ pc'[c] = "idle") => alwaysFree = {}]_vars
  <2> SUFFICES ASSUME SInv, Next, NEW c \in Callers, pc[c] = "scan", pc'[c] = "idle"
               PROVE alwaysFree = {}
    OBVIOUS
  <2> USE DEF SInv, IInv, TypeOK, LockInv, Inside
  <2>1. lock = c
    OBVIOUS
  <2>2. Scan(c)
    <3>1. \A d \in Callers : d # c => ~Step(d) /\ ~Acquire(d)
      BY <2>1, NoCallerAssumption DEF Step, Loop, Scan, Probe, Mark, Acquire
    <3>2. pc' # pc
      OBVIOUS
    <3>3. Acquire(c) \/ Step(c) \/ \E d \in Callers : CallReserve(d)
      BY <3>1, <3>2 DEF Next, AddAllowedPort, ReleasePort, OSBind, OSUnbind
    <3>4. ~\E d \in Callers : CallReserve(d)
      BY DEF CallReserve
    <3> QED BY <3>3, <3>4 DEF Acquire, Step, Loop, Probe, Mark
  <2>3. PICK p \in untried : untried = {p} /\ (p \in portsInUse \/ FreePort(p) = {})
    BY <2>2 DEF Scan
  <2>4. alwaysFree \subseteq {p} /\ alwaysFree \subseteq Ports \ (portsInUse \cup osBound)
    BY <2>1, <2>3, NoCallerAssumption DEF ScanInv, FreshInv, Pool
  <2> QED BY <2>3, <2>4 DEF FreePort
<1> QED BY <1>1, SInvHolds, PTL DEF Spec, NoFalseExhaustion

-----------------------------------------------------------------------------
\* Either there is no restriction, or port 0 is not part of the range: with
\* port 0 in the range the claims below are false (run zero_lower_bound).
ZeroExcluded == Restricted => LBound > 0

\* The candidate is an allowed port, or 0 when every port is allowed.
CandInv == \A c \in Callers :
             /\ pc[c] = "probe" => IF Restricted THEN cand \in allowedPorts ELSE cand = 0
             /\ pc[c] = "mark" => cand \in Pool

\* The inductive invariant behind WithinRange.
RInv == SInv /\ CandInv /\ WithinRange

\* Without port 0 in the range, every step keeps the ports within it.
LEMMA RInvStep == ASSUME ZeroExcluded PROVE RInv /\ [Next]_vars => RInv'
<1> SUFFICES ASSUME RInv, [Next]_vars PROVE RInv'
  OBVIOUS
<1>0. SInv'
  BY SInvStep DEF RInv
<1> USE RangeAssumption, NoCallerAssumption, ZeroExcluded
    DEF RInv, SInv, IInv, TypeOK, CandInv, WithinRange, LockInv, mgrVars,
        callVars, Inside, Ports
<1>1. CASE AddAllowedPort
  <2>1. \A c \in Callers : pc[c] = "idle"
    BY <1>1 DEF AddAllowedPort, TableInv, Configured
  <2> QED BY <1>0, <1>1, <2>1 DEF AddAllowedPort
<1>2. ASSUME NEW c \in Callers, CallReserve(c) PROVE RInv'
  BY <1>0, <1>2 DEF CallReserve
<1>3. ASSUME NEW c \in Callers, Acquire(c) PROVE RInv'
  BY <1>0, <1>3 DEF Acquire
<1>4. ASSUME NEW c \in Callers, Loop(c) PROVE RInv'
  <2>1. CASE Return(c)
    BY <1>0, <1>4, <2>1 DEF Loop, Return
  <2>2. CASE ~Return(c)
    <3>1. Restricted => allowedPorts # {}
      BY <1>4 DEF Loop, TableInv, Configured
    <3>2. ~Restricted => allowedPorts = {}
      BY DEF TableInv
    <3> QED BY <1>0, <1>4, <2>2, <3>1, <3>2 DEF Loop
  <2> QED BY <2>1, <2>2
<1>5. ASSUME NEW c \in Callers, Scan(c) PROVE RInv'
  <2>1. CASE Return(c)
    BY <1>0, <1>5, <2>1 DEF Scan, Return
  <2>2. CASE ~Return(c)
    <3>1. untried \subseteq allowedPorts
      BY <1>5 DEF Scan, ScanInv
    <3>2. untried # {} => Restricted
      BY <3>1 DEF TableInv
    <3> QED BY <1>0, <1>5, <2>2, <3>1, <3>2 DEF Scan
  <2> QED BY <2>1, <2>2
<1>6. ASSUME NEW c \in Callers, Probe(c) PROVE RInv'
  <2>1. CASE Return(c)
    BY <1>0, <1>6, <2>1 DEF Probe, Return
  <2>2. CASE ~Return(c)
    <3>1. \A p \in FreePort(cand) : p \in Pool
      <4>1. CASE Restricted
        <5>1. cand \in LBound..UBound /\ cand # 0
          BY <1>6, <4>1 DEF Probe, ZeroExcluded
        <5> QED BY <4>1, <5>1 DEF FreePort, Pool
      <4>2. CASE ~Restricted
        BY <4>2 DEF FreePort, Pool
      <4> QED BY <4>1, <4>2
    <3> QED BY <1>0, <1>6, <2>2, <3>1 DEF Probe
  <2> QED BY <2>1, <2>2
<1>7. ASSUME NEW c \in Callers, Mark(c) PROVE RInv'
  BY <1>0, <1>7 DEF Mark, Return
<1>8. ASSUME NEW c \in Callers, NEW p \in Ports, ReleasePort(c, p) PROVE RInv'
  BY <1>0, <1>8 DEF ReleasePort
<1>9. ASSUME NEW p \in Ports, OSBind(p) \/ OSUnbind(p) PROVE RInv'
  BY <1>0, <1>9 DEF OSBind, OSUnbind
<1>10. CASE UNCHANGED vars
  BY <1>0, <1>10 DEF vars
<1> QED BY <1>1, <1>2, <1>3, <1>4, <1>5, <1>6, <1>7, <1>8, <1>9, <1>10
        DEF Next, Step

\* The range invariant holds in every reachable state when port 0 is excluded.
LEMMA RInvHolds == ASSUME ZeroExcluded PROVE Spec => []RInv
<1>1. Init => SInv
  <2>1. Init => IInv
    BY InitIInv
  <2> QED BY <2>1, RangeAssumption, NoCallerAssumption
          DEF Init, SInv, TableInv, FreshInv, ScanInv, Configured, Restricted
<1>2. Init => RInv
  BY <1>1 DEF Init, RInv, CandInv, WithinRange
<1>3. RInv /\ [Next]_vars => RInv'
  BY ZeroExcluded, RInvStep
<1> QED BY <1>2, <1>3, PTL DEF Spec

\* Every reserved port lies within the configured range, provided the range
\* does not contain port 0.
THEOREM WithinRangeHolds == ASSUME ZeroExcluded PROVE Spec => []WithinRange
<1>1. RInv => WithinRange
  BY DEF RInv
<1>2. Spec => []RInv
  BY ZeroExcluded, RInvHolds
<1> QED BY <1>1, <1>2, PTL

-----------------------------------------------------------------------------
\* A port some caller holds is owned by that caller.
LEMMA OwnerIs == ASSUME Exclusive, NEW c \in Callers, NEW p \in held[c]
                 PROVE Owner(p) = c
  BY DEF Exclusive, Owner

\* The same in the next state.
LEMMA OwnerIsNext == ASSUME Exclusive', NEW c \in Callers, NEW p \in held'[c]
                     PROVE Owner(p)' = c
  BY DEF Exclusive, Owner

\* The ports manager implements the pool of owned ports: with port 0 excluded
\* every behaviour of Spec is, through Owner, a behaviour of PortPool.
THEOREM ManagerImplementsPool == ASSUME ZeroExcluded PROVE Spec => ImplementsPool
<1> DEFINE owner == [p \in Pool |-> Owner(p)]
<1>1. Init => PoolSpec!Init
  BY DEF Init, PoolSpec!Init, Owner
<1>2. RInv /\ RInv' /\ [Next]_vars => [PoolSpec!Next]_owner
  <2> SUFFICES ASSUME RInv, RInv', [Next]_vars
               PROVE PoolSpec!Next \/ UNCHANGED owner
    OBVIOUS
  <2> USE DEF RInv, SInv, IInv, TypeOK
  <2>1. ASSUME UNCHANGED held PROVE UNCHANGED owner
    BY <2>1 DEF Owner
  <2>2. ASSUME NEW c \in Callers, Mark(c) PROVE PoolSpec!Next
    <3>1. PICK q \in Pool : /\ q = cand
                           /\ held' = [held EXCEPT ![c] = @ \cup {q}]
      BY <2>2 DEF Mark, CandInv
    <3>2. \A d \in Callers : q \notin held[d]
      BY <2>2, <3>1 DEF Mark, MarkInv, Exclusive
    <3>3. owner[q] = NoCaller
      BY <3>2 DEF Owner
    <3>4. Owner(q)' = c
      BY <3>1, OwnerIsNext
    <3>5. \A p \in Pool : p # q => Owner(p)' = Owner(p)
      <4> SUFFICES ASSUME NEW p \in Pool, p # q PROVE Owner(p)' = Owner(p)
        OBVIOUS
      <4>1. \A d \in Callers : p \in held'[d] <=> p \in held[d]
        BY <3>1
      <4> QED BY <4>1 DEF Owner
    <3>6. owner' = [owner EXCEPT ![q] = c]
      BY <3>4, <3>5
    <3> QED BY <3>3, <3>6 DEF PoolSpec!Next, PoolSpec!Grant
  <2>3. ASSUME NEW c \in Callers, NEW p \in Ports, ReleasePort(c, p)
        PROVE PoolSpec!Next \/ UNCHANGED owner
    <3>1. held' = [held EXCEPT ![c] = @ \ {p}]
      BY <2>3 DEF ReleasePort
    <3>2. CASE p \notin held[c]
      <4>1. held' = held
        BY <3>1, <3>2
      <4> QED BY <4>1, <2>1
    <3>3. CASE p \in held[c]
      <4>1. p \in Pool
        BY <3>3 DEF WithinRange
      <4>2. Owner(p) = c
        BY <3>3, OwnerIs
      <4>3. \A d \in Callers : p \notin held'[d]
        BY <3>1, <3>3 DEF Exclusive
      <4>4. Owner(p)' = NoCaller
        BY <4>3 DEF Owner
      <4>5. \A q \in Pool : q # p => Owner(q)' = Owner(q)
        <5> SUFFICES ASSUME NEW q \in Pool, q # p PROVE Owner(q)' = Owner(q)
          OBVIOUS
        <5>1. \A d \in Callers : q \in held'[d] <=> q \in held[d]
          BY <3>1
        <5> QED BY <5>1 DEF Owner
      <4>6. owner' = [owner EXCEPT ![p] = NoCaller] /\ owner[p] = c
        BY <4>1, <4>2, <4>4, <4>5
      <4> QED BY <4>1, <4>6 DEF PoolSpec!Next, PoolSpec!GiveBack
    <3> QED BY <3>2, <3>3
  <2>4. \/ UNCHANGED held
        \/ \E c \in Callers : Mark(c) \/ \E p \in Ports : ReleasePort(c, p)
    BY DEF Next, Step, vars, AddAllowedPort, CallReserve, Acquire, Loop, Scan,
           Probe, OSBind, OSUnbind
  <2> QED BY <2>1, <2>2, <2>3, <2>4
<1>3. Spec => []RInv
  BY ZeroExcluded, RInvHolds
<1> QED BY <1>1, <1>2, <1>3, PTL DEF Spec, ImplementsPool, PoolSpec!Spec
=============================================================================
