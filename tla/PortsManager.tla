---------------------------- MODULE PortsManager ----------------------------
(***************************************************************************)
(* utils/ports_manager.go with utils.GetFreePort, and the client's         *)
(* SetAllowedPortRange that fills the table of allowed ports before the    *)
(* manager is shared.                                                      *)
(*                                                                         *)
(* The manager keeps two tables, portsInUse and allowedPorts, behind a     *)
(* one-token channel.  A call of ReservePort is split at every point where *)
(* the operating system or another goroutine may act in between: waiting   *)
(* for the token, one map entry of the scan at a time, the second probe,   *)
(* and the write of the table.                                             *)
(***************************************************************************)
EXTENDS Integers, FiniteSets

CONSTANTS Callers,      \* goroutines that share the manager
          NoCaller,     \* nobody holds the token
          MaxPort,      \* 65535 in the code
          LBound,       \* --allowed-port-lower-bound
          UBound,       \* --allowed-port-upper-bound
          MaxTries      \* 10000 in the code

ASSUME NoCallerAssumption == NoCaller \notin Callers
\* SetAllowedPortRange panics on any other range; there is no upper limit.
ASSUME RangeAssumption == /\ MaxPort \in Nat /\ MaxTries \in Nat
                          /\ LBound \in Nat /\ UBound \in Nat
                          /\ LBound <= UBound

VARIABLES
  allowedPorts,     \* keys of p.allowedPorts
  cursor,           \* loop variable of SetAllowedPortRange
  portsInUse,       \* keys of p.portsInUse
  lock,             \* caller that took the token of p.lock, or NoCaller
  pc,               \* where each caller is
  untried,          \* entries of p.allowedPorts the scan has not visited
  cand,             \* the port being considered by the token's holder
  tries,            \* the loop counter i of ReservePort
  held,             \* ports each caller was given and has not released
  osBound,          \* ports some process of the machine has bound
  alwaysFree        \* history: allowed ports free since the token was taken

mgrVars == <<allowedPorts, cursor>>
callVars == <<lock, untried, cand, tries>>
vars == <<allowedPorts, cursor, portsInUse, lock, pc, untried, cand, tries,
          held, osBound, alwaysFree>>

Ports == 1..MaxPort

\* client.go:89: the default flags mean "no restriction".
Restricted == ~(LBound = 0 /\ UBound = MaxPort)

\* The ports the documentation of the flags promises to stay within.
Pool == IF Restricted THEN Ports \cap (LBound..UBound) ELSE Ports

Inside == {"loop", "scan", "probe", "mark"}     \* between <-lock and lock<-

TypeOK ==
  /\ allowedPorts \subseteq LBound..UBound
  /\ cursor \in LBound..(UBound + 1)
  /\ portsInUse \subseteq Ports
  /\ lock \in Callers \cup {NoCaller}
  /\ pc \in [Callers -> {"idle", "wait"} \cup Inside]
  /\ untried \subseteq LBound..UBound
  /\ cand \in Ports \cup (LBound..UBound) \cup {0}
  /\ tries \in 0..MaxTries
  /\ held \in [Callers -> SUBSET Ports]
  /\ osBound \subseteq Ports
  /\ alwaysFree \subseteq Ports

Init ==
  /\ allowedPorts = {}
  /\ cursor = IF Restricted THEN LBound ELSE UBound + 1
  /\ portsInUse = {}
  /\ lock = NoCaller
  /\ pc = [c \in Callers |-> "idle"]
  /\ untried = {} /\ cand = 0 /\ tries = 0
  /\ held = [c \in Callers |-> {}]
  /\ osBound \in SUBSET Ports
  /\ alwaysFree = {}

-----------------------------------------------------------------------------
\* The ports GetFreePort(p, p) can return: p itself, or any free port when p
\* is 0.  The empty set is the error return, which is also what a port above
\* MaxPort gets (ResolveTCPAddr refuses it).
FreePort(p) == IF p = 0 THEN Ports \ osBound ELSE {p} \cap (Ports \ osBound)

\* Mutant: the loop runs one port too far.
MutAddAllowedOneMore ==
  /\ cursor <= UBound + 1
  /\ allowedPorts' = allowedPorts \cup {cursor}
  /\ cursor' = cursor + 1
  /\ UNCHANGED <<portsInUse, lock, pc, untried, cand, tries, held,
                 osBound, alwaysFree>>

\* One turn of the loop of SetAllowedPortRange.
AddAllowedPort ==
  /\ cursor <= UBound
  /\ allowedPorts' = allowedPorts \cup {cursor}
  /\ cursor' = cursor + 1
  /\ UNCHANGED <<portsInUse, lock, pc, untried, cand, tries, held,
                 osBound, alwaysFree>>

Configured == cursor = UBound + 1

CallReserve(c) ==
  /\ Configured /\ pc[c] = "idle"
  /\ pc' = [pc EXCEPT ![c] = "wait"]
  /\ UNCHANGED <<mgrVars, portsInUse, callVars, held, osBound,
                 alwaysFree>>

\* Mutant: the receive from p.lock is missing.
MutAcquireNoToken(c) ==
  /\ pc[c] = "wait"
  /\ lock' = c
  /\ pc' = [pc EXCEPT ![c] = "loop"]
  /\ tries' = 0
  /\ alwaysFree' = Pool \ (portsInUse \cup osBound)
  /\ UNCHANGED <<mgrVars, portsInUse, untried, cand, held, osBound>>

Acquire(c) ==
  /\ pc[c] = "wait" /\ lock = NoCaller
  /\ lock' = c
  /\ pc' = [pc EXCEPT ![c] = "loop"]
  /\ tries' = 0
  /\ alwaysFree' = Pool \ (portsInUse \cup osBound)
  /\ UNCHANGED <<mgrVars, portsInUse, untried, cand, held, osBound>>

\* Mutant: a return path that does not give the token back.
MutReturnKeepsToken(c) ==
  /\ lock' = lock
  /\ pc' = [pc EXCEPT ![c] = "idle"]
  /\ untried' = {} /\ cand' = 0 /\ tries' = 0

\* ReservePort returns: the deferred send gives the token back.
Return(c) ==
  /\ lock' = NoCaller
  /\ pc' = [pc EXCEPT ![c] = "idle"]
  /\ untried' = {} /\ cand' = 0 /\ tries' = 0

\* Mutant: the allowed ports are not consulted.
MutLoopIgnoresAllowed(c) ==
  /\ pc[c] = "loop"
  /\ \/ tries = MaxTries /\ Return(c)
     \/ /\ tries < MaxTries
        /\ cand' = 0
        /\ pc' = [pc EXCEPT ![c] = "probe"]
        /\ UNCHANGED <<lock, untried, tries>>
  /\ UNCHANGED <<mgrVars, portsInUse, held, osBound, alwaysFree>>

\* The head of the retry loop and the first test of getAllowedAndFreePort.
Loop(c) ==
  /\ pc[c] = "loop"
  /\ \/ /\ tries = MaxTries
        /\ Return(c)                 \* "Unable To Reserve A Free Port"
     \/ /\ tries < MaxTries
        /\ untried' = allowedPorts
        /\ cand' = 0
        /\ pc' = [pc EXCEPT ![c] = IF allowedPorts = {} THEN "probe" ELSE "scan"]
        /\ UNCHANGED <<lock, tries>>
  /\ UNCHANGED <<mgrVars, portsInUse, held, osBound, alwaysFree>>

\* Mutant: the first unavailable port ends the scan.
MutScanFirstOnly(c) ==
  /\ pc[c] = "scan"
  /\ \E p \in untried :
       \/ /\ p \notin portsInUse /\ FreePort(p) # {}
          /\ cand' = p
          /\ untried' = {}
          /\ pc' = [pc EXCEPT ![c] = "probe"]
          /\ UNCHANGED <<lock, tries>>
       \/ /\ p \in portsInUse \/ FreePort(p) = {}
          /\ Return(c)
  /\ UNCHANGED <<mgrVars, portsInUse, held, osBound, alwaysFree>>

\* One entry of "range p.allowedPorts", in Go's unspecified map order.
Scan(c) ==
  /\ pc[c] = "scan"
  /\ \E p \in untried :
       \/ /\ p \notin portsInUse /\ FreePort(p) # {}
          /\ cand' = p
          /\ untried' = {}
          /\ pc' = [pc EXCEPT ![c] = "probe"]
          /\ UNCHANGED <<lock, tries>>
       \/ /\ p \in portsInUse \/ FreePort(p) = {}
          /\ IF untried = {p}
             THEN Return(c)          \* "All allowed ports are unavailable"
             ELSE /\ untried' = untried \ {p}
                  /\ UNCHANGED <<lock, pc, cand, tries>>
  /\ UNCHANGED <<mgrVars, portsInUse, held, osBound, alwaysFree>>

\* Mutant: the result of the probe is not looked up in the table.
MutProbeNoLookup(c) ==
  /\ pc[c] = "probe"
  /\ \/ FreePort(cand) = {} /\ Return(c)
     \/ \E p \in FreePort(cand) :
          /\ cand' = p
          /\ pc' = [pc EXCEPT ![c] = "mark"]
          /\ UNCHANGED <<lock, untried, tries>>
  /\ UNCHANGED <<mgrVars, portsInUse, held, osBound, alwaysFree>>

\* The second GetFreePort, and the test of its result against the table.
Probe(c) ==
  /\ pc[c] = "probe"
  /\ \/ /\ FreePort(cand) = {}
        /\ Return(c)                 \* the error of ListenTCP
     \/ \E p \in FreePort(cand) :
          IF p \in portsInUse
          THEN /\ tries' = tries + 1
               /\ cand' = 0
               /\ untried' = {}
               /\ pc' = [pc EXCEPT ![c] = "loop"]
               /\ UNCHANGED <<lock>>
          ELSE /\ cand' = p
               /\ pc' = [pc EXCEPT ![c] = "mark"]
               /\ UNCHANGED <<lock, untried, tries>>
  /\ UNCHANGED <<mgrVars, portsInUse, held, osBound, alwaysFree>>

\* Mutant: the port is returned but not booked.
MutMarkForgets(c) ==
  /\ pc[c] = "mark"
  /\ held' = [held EXCEPT ![c] = @ \cup {cand}]
  /\ Return(c)
  /\ UNCHANGED <<mgrVars, portsInUse, osBound, alwaysFree>>

\* p.portsInUse[freePort] = true; return freePort, nil
Mark(c) ==
  /\ pc[c] = "mark"
  /\ portsInUse' = portsInUse \cup {cand}
  /\ held' = [held EXCEPT ![c] = @ \cup {cand}]
  /\ Return(c)
  /\ UNCHANGED <<mgrVars, osBound, alwaysFree>>

\* ReleasePort: nothing is visible between taking the token and giving it
\* back, so the call is one step.  A caller releases a port it was given, or
\* one it released before and nobody was given since (the error return).
ReleasePort(c, p) ==
  /\ Configured /\ pc[c] = "idle" /\ lock = NoCaller
  /\ p \in held[c] \/ p \notin portsInUse
  /\ portsInUse' = portsInUse \ {p}
  /\ held' = [held EXCEPT ![c] = @ \ {p}]
  /\ UNCHANGED <<mgrVars, callVars, pc, osBound, alwaysFree>>

\* Any process of the machine, this one included, binds or frees a port.
OSBind(p) ==
  /\ p \notin osBound
  /\ osBound' = osBound \cup {p}
  /\ alwaysFree' = alwaysFree \ {p}
  /\ UNCHANGED <<mgrVars, portsInUse, callVars, pc, held>>

OSUnbind(p) ==
  /\ p \in osBound
  /\ osBound' = osBound \ {p}
  /\ UNCHANGED <<mgrVars, portsInUse, callVars, pc, held, alwaysFree>>

Step(c) == Loop(c) \/ Scan(c) \/ Probe(c) \/ Mark(c)

Next ==
  \/ AddAllowedPort
  \/ \E c \in Callers :
       \/ CallReserve(c)
       \/ Acquire(c)
       \/ Step(c)
       \/ \E p \in Ports : ReleasePort(c, p)
  \/ \E p \in Ports : OSBind(p) \/ OSUnbind(p)

Spec == Init /\ [][Next]_vars

\* A goroutine holding the token keeps running, and Go queues the receivers
\* of a channel first-in first-out, so a waiting caller is not overtaken for
\* ever.
Fairness == \A c \in Callers : WF_vars(Step(c)) /\ SF_vars(Acquire(c))

FairSpec == Spec /\ Fairness

-----------------------------------------------------------------------------
\* No two callers hold one port, and the table portsInUse is exactly what the
\* callers hold: neither a leaked entry nor a port handed out but not booked
\* (ReservePort checks and writes the table in two steps, line 63 and 64).
Exclusive ==
  /\ \A c, d \in Callers : c # d => held[c] \cap held[d] = {}
  /\ portsInUse = UNION {held[c] : c \in Callers}

\* Every port ReservePort returned lies in the range the two flags name
\* (main.go:35-36), whatever the scan met in the tables and in the kernel.
WithinRange == \A c \in Callers : held[c] \subseteq Pool

\* "All allowed ports are unavailable" (line 50) is never said while some
\* allowed port was free in both the table and the kernel throughout the call.
NoFalseExhaustion ==
  [][\A c \in Callers :
       (pc[c] = "scan" /\ pc'[c] = "idle") => alwaysFree = {}]_vars

\* Every call of ReservePort returns, whatever other processes bind and free
\* meanwhile: the retry loop and the scan are bounded, the token comes back.
ReserveReturns == \A c \in Callers : pc[c] = "wait" ~> pc[c] = "idle"

\* The manager implements the pool of owned ports.
Owner(p) == IF \E c \in Callers : p \in held[c]
            THEN CHOOSE c \in Callers : p \in held[c]
            ELSE NoCaller

PoolSpec == INSTANCE PortPool WITH owner <- [p \in Pool |-> Owner(p)]

\* Every behaviour of the manager is one of the abstract pool: a port changes
\* hands only by a grant of a free one or by its owner giving it back.
ImplementsPool == PoolSpec!Spec
=============================================================================
