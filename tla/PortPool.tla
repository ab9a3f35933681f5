------------------------------ MODULE PortPool ------------------------------
(***************************************************************************)
(* What a PortsManager promises to the goroutines that share it: a pool of *)
(* ports, each owned by at most one caller, handed out one at a time and   *)
(* taken back only from its owner.  PortsManager.tla is shown to implement *)
(* this specification.                                                     *)
(***************************************************************************)
CONSTANTS Callers, Pool, NoCaller

VARIABLE owner      \* owner[p]: the caller port p is reserved for

Init == owner = [p \in Pool |-> NoCaller]

\* ReservePort returns p to caller c.
Grant(c, p) == /\ owner[p] = NoCaller
               /\ owner' = [owner EXCEPT ![p] = c]

\* ReleasePort(p) by the caller that owns it.
GiveBack(c, p) == /\ owner[p] = c
                  /\ owner' = [owner EXCEPT ![p] = NoCaller]

Next == \E c \in Callers, p \in Pool : Grant(c, p) \/ GiveBack(c, p)

Spec == Init /\ [][Next]_owner
=============================================================================
