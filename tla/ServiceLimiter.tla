--------------------------- MODULE ServiceLimiter ----------------------------
(***************************************************************************)
(* GostTunnel.Lock and UnLock, server/gost-tunnel.go: one request at a time *)
(* for a reverse SSH service, and a pause of up to ten seconds after the   *)
(* last use.  The clock counts ticks, any number of them to the second: the *)
(* time since the last use is a fraction, the pause whole seconds of it.   *)
(***************************************************************************)
EXTENDS Integers

CONSTANTS Users,     \* goroutines that build a tunnel through the service
          Pause,     \* seconds between two uses; 10 in the code
          PerSecond, \* ticks of the clock in a second
          MaxTime    \* bound of the clock, in ticks

ASSUME LimiterAssumption ==
  Pause \in Nat \ {0} /\ PerSecond \in Nat \ {0} /\ MaxTime \in Nat

VARIABLES now,       \* the clock, in ticks
          token,     \* the token is in tunnelsRequestLimiter
          lastServe, \* GostTunnel.lastServeTime
          user,      \* place of each goroutine
          wake,      \* when its pause ends
          released,  \* history: when the last UnLock gave the token back
          unstamped, \* history: the last to give it back, until it writes the time
          stale      \* history: the holder read the time while there was one

limiterVars == <<now, token, lastServe, user, wake, released, unstamped,
                 stale>>

LimiterInit ==
  /\ now = 0 /\ token = TRUE /\ lastServe = 0 /\ released = 0
  /\ unstamped = {} /\ stale = FALSE
  /\ user = [u \in Users |-> "idle"]
  /\ wake = [u \in Users |-> 0]

Tick ==
  /\ now < MaxTime
  /\ now' = now + 1
  /\ UNCHANGED <<token, lastServe, user, wake, released, unstamped, stale>>

Interval == PerSecond * Pause

\* Mutant: the seconds passed are counted up instead of down.
MutPauseLeft(diff) ==
  IF diff < Interval THEN PerSecond * (diff \div PerSecond) ELSE 0

\* time.Duration(10-diff) * time.Second: the rest of the pause without its
\* fraction of a second.
PauseLeft(diff) ==
  IF diff < Interval THEN PerSecond * ((Interval - diff) \div PerSecond) ELSE 0

\* Lock takes the token and computes its pause from lastServeTime, which the
\* last holder may not have written yet.
Lock(u) ==
  /\ user[u] = "idle" /\ token
  /\ token' = FALSE
  /\ user' = [user EXCEPT ![u] = "pause"]
  /\ wake' = [wake EXCEPT ![u] = now + PauseLeft(now - lastServe)]
  /\ stale' = (unstamped # {})
  /\ UNCHANGED <<now, lastServe, released, unstamped>>

\* The sleep is over: Lock returns.
LockReturns(u) ==
  /\ user[u] = "pause" /\ now >= wake[u]
  /\ user' = [user EXCEPT ![u] = "using"]
  /\ UNCHANGED <<now, token, lastServe, wake, released, unstamped, stale>>

\* UnLock gives the token back first ...
UnLock(u) ==
  /\ user[u] = "using"
  /\ token' = TRUE
  /\ user' = [user EXCEPT ![u] = "released"]
  /\ released' = now /\ unstamped' = {u}
  /\ UNCHANGED <<now, lastServe, wake, stale>>

\* ... and writes the time of use afterwards.
UnLockStamps(u) ==
  /\ user[u] = "released"
  /\ lastServe' = now
  /\ unstamped' = unstamped \ {u}
  /\ user' = [user EXCEPT ![u] = "idle"]
  /\ UNCHANGED <<now, token, wake, released, stale>>

LimiterNext ==
  \/ Tick
  \/ \E u \in Users : Lock(u) \/ LockReturns(u) \/ UnLock(u) \/ UnLockStamps(u)

LimiterSpec == LimiterInit /\ [][LimiterNext]_limiterVars

LimiterTypeOK ==
  /\ now \in 0..MaxTime /\ lastServe \in 0..now /\ released \in 0..now
  /\ token \in BOOLEAN /\ stale \in BOOLEAN
  /\ user \in [Users -> {"idle", "pause", "using", "released"}]
  /\ wake \in [Users -> 0..(MaxTime + Interval)]
  /\ unstamped \subseteq Users

\* One goroutine uses the service at a time, and it begins less than a second
\* short of the pause after the last use, the fraction that Lock cuts off
\* (gost-tunnel.go:98), unless it overtook the write of lastServeTime that
\* UnLock makes without the token (gost-tunnel.go:104).
UsesAreSpaced ==
  \A u \in Users : user[u] = "using" =>
    /\ \A v \in Users \ {u} : user[v] # "using"
    /\ stale \/ now + PerSecond > released + Interval
=============================================================================
