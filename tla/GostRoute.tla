------------------------------- MODULE GostRoute -------------------------------
(***************************************************************************)
(* How gost finds its way: a forwarding handler (forward.go) picks a       *)
(* target from its group, the chain (chain.go) a node from each of its     *)
(* groups, both with a filter that leaves out the nodes marked dead        *)
(* (selector.go), and the chain connects node after node to the target.    *)
(* The marks are shared by every connection; each tries a few times.       *)
(***************************************************************************)
EXTENDS Integers, Sequences, FiniteSets, SequencesExt

CONSTANTS Forwards,      \* connections to be forwarded, one goroutine each
          FirstNodes,    \* nodes of the chain's first group
          LastNodes,     \* nodes of its second group
          Targets,       \* addresses the handler forwards to
          RouteTries,    \* options.Retries
          FailLimit      \* MaxFails, 1 unless configured

ASSUME RouteAssumption ==
  {FirstNodes, LastNodes, Targets, RouteTries, FailLimit} \subseteq Nat \ {0}

VARIABLES setup,   \* handler, strategy, group the address bypasses (0: none), multiplex
          up,      \* the nodes that can be reached and work
          mark,    \* failMarker: fails counted, and whether the last one is recent
          turn,    \* RoundStrategy.counter, one per group
          session, \* the session of the multiplex node is there
          fwd,     \* per connection, how far its handler is
          calm     \* no node changed and no fail time-out expired so far

routeVars == <<setup, up, mark, turn, session, fwd, calm>>

TargetGroup == 3
GroupSize == <<FirstNodes, LastNodes, Targets>>
GroupNodes(g) == {<<g, i>> : i \in 1 .. GroupSize[g]}
RouteNodes == UNION {GroupNodes(g) : g \in 1 .. TargetGroup}
\* The counter is used modulo the length of the filtered list only.
Period == FirstNodes * LastNodes * Targets

NewForward == [pc |-> "target", tries |-> 0, dials |-> 0, target |-> <<>>, route |-> <<>>, hop |-> 1]

RouteInit ==
  /\ setup \in [handler : {"tcp", "udp", "rtcp"}, strategy : {"fifo", "round", "random"},
                bypass : {0, 2}, mux : BOOLEAN]
  /\ setup.handler # "tcp" => setup.bypass = 0 /\ ~setup.mux
  /\ up \in SUBSET RouteNodes /\ Cardinality(RouteNodes \ up) <= 2
  /\ mark = [n \in RouteNodes |-> [fails |-> 0, recent |-> FALSE]]
  /\ turn = [g \in 1 .. TargetGroup |-> 0]
  /\ session = FALSE
  /\ fwd = [w \in Forwards |-> NewForward]
  /\ calm = TRUE

--------------------------------------------------------------------------------
(* Selection. *)

\* FailFilter.Filter: the only node of a group is never left out.
Filter(g) ==
  {n \in GroupNodes(g) : GroupSize[g] = 1 \/ mark[n].fails < FailLimit \/ ~mark[n].recent}

\* Strategy.Apply on a list that is not empty: the nodes it may return, and the
\* counters once it was applied to the groups in gs.
Before(n, nodes) == Cardinality({m \in nodes : m[2] < n[2]})
Apply(g) ==
  LET nodes == Filter(g) IN
  CASE setup.strategy = "fifo"   -> {n \in nodes : Before(n, nodes) = 0}
    [] setup.strategy = "round"  -> {n \in nodes : Before(n, nodes) = turn[g] % Cardinality(nodes)}
    [] setup.strategy = "random" -> nodes
Applied(gs) == [g \in 1 .. TargetGroup |->
  IF setup.strategy = "round" /\ g \in gs THEN (turn[g] + 1) % Period ELSE turn[g]]

\* failMarker.Mark and Reset.  Bound: fails counts to one more than FailLimit.
Dead(n) == [fails |-> IF mark[n].fails <= FailLimit THEN mark[n].fails + 1 ELSE FailLimit + 1,
            recent |-> TRUE]
Unmarked == [fails |-> 0, recent |-> FALSE]

Put(w, f) == fwd' = [fwd EXCEPT ![w] = f]
DialsOf == IF setup.handler = "tcp" THEN RouteTries ELSE 1
TriesOf == IF setup.handler = "udp" THEN 1 ELSE RouteTries

\* Mutant: the handler does not mark the target.
MutDialFailed(w, m) ==
  LET f == fwd[w] IN
  /\ mark' = m
  /\ IF f.dials + 1 < DialsOf
     THEN Put(w, [f EXCEPT !.pc = "route", !.dials = @ + 1, !.route = <<>>, !.hop = 1])
     ELSE Put(w, [NewForward EXCEPT !.pc = IF f.tries + 1 < TriesOf THEN "target" ELSE "failed",
                                    !.tries = f.tries + 1])
\* A dial of the chain failed with the marks in m: the chain's loop tries
\* again, or the handler marks the target dead and picks another.
DialFailed(w, m) ==
  LET f == fwd[w] IN
  IF f.dials + 1 < DialsOf
  THEN /\ Put(w, [f EXCEPT !.pc = "route", !.dials = @ + 1, !.route = <<>>, !.hop = 1])
       /\ mark' = m
  ELSE /\ Put(w, [NewForward EXCEPT !.pc = IF f.tries + 1 < TriesOf THEN "target" ELSE "failed",
                                    !.tries = f.tries + 1])
       /\ mark' = [m EXCEPT ![f.target] = Dead(f.target)]

\* Handle: the next target; a handler that finds none gives up at once.
TakeTarget(w) ==
  /\ fwd[w].pc = "target"
  /\ IF Filter(TargetGroup) = {}
     THEN Put(w, [fwd[w] EXCEPT !.pc = "refused"]) /\ UNCHANGED turn
     ELSE \E n \in Apply(TargetGroup) :
            /\ Put(w, [fwd[w] EXCEPT !.target = n,
                                     !.pc = IF setup.handler = "rtcp" THEN "connect" ELSE "route"])
            /\ turn' = Applied({TargetGroup})
  /\ UNCHANGED <<setup, up, mark, session, calm>>

\* selectRouteFor, group after group: a group without a node ends the dial, a
\* node whose bypass holds the address ends the route before it.  Nodes of the
\* second group multiplex: their transporter dials the nodes before them only
\* when it has no session.
SelectRoute(w) ==
  LET f == fwd[w]
      empty == {g \in {1, 2} : Filter(g) = {}}
  IN
  /\ f.pc = "route"
  /\ IF empty # {}
     THEN DialFailed(w, mark) /\ turn' = Applied({1} \ empty)
     ELSE \E a \in Apply(1), b \in Apply(2) :
            /\ Put(w, [f EXCEPT !.pc = "hop", !.route = IF setup.bypass = 2 THEN <<a>> ELSE <<a, b>>,
                                !.hop = IF setup.mux /\ session /\ setup.bypass # 2 THEN 2 ELSE 1])
            /\ turn' = Applied({1, 2}) /\ UNCHANGED mark
  /\ UNCHANGED <<setup, up, session, calm>>
Multiplexed(f) == setup.mux /\ Len(f.route) = 2

\* getConn, one hop: dial or connect, then handshake.  A multiplex node is
\* marked as well when a node before it fails, for its own Dial failed.
ChainConn(w) ==
  LET f == fwd[w]
      n == f.route[f.hop]
      behind == IF Multiplexed(f) THEN {n, f.route[2]} ELSE {n}
  IN
  /\ f.pc = "hop"
  /\ IF n \in up
     THEN /\ mark' = [mark EXCEPT ![n] = Unmarked]
          /\ session' = (session \/ (Multiplexed(f) /\ f.hop = 2))
          /\ Put(w, [f EXCEPT !.hop = @ + 1, !.pc = IF f.hop = Len(f.route) THEN "connect" ELSE "hop"])
     ELSE /\ DialFailed(w, [k \in RouteNodes |-> IF k \in behind THEN Dead(k) ELSE mark[k]])
          /\ session' = (session /\ ~(Multiplexed(f) /\ f.hop = 2))
  /\ UNCHANGED <<setup, up, turn, calm>>

\* The last node connects to the target, or the handler itself does.
ConnectTarget(w) ==
  LET f == fwd[w] IN
  /\ f.pc = "connect"
  /\ IF f.target \in up
     THEN Put(w, [f EXCEPT !.pc = "joined"]) /\ mark' = [mark EXCEPT ![f.target] = Unmarked]
     ELSE DialFailed(w, mark)
  /\ UNCHANGED <<setup, up, turn, session, calm>>

\* FailTimeout has passed since the last failure of a node (this or a change
\* of a node happens once in a behaviour).
FailTimeoutPasses(n) ==
  /\ mark[n].recent /\ calm /\ calm' = FALSE
  /\ mark' = [mark EXCEPT ![n].recent = FALSE]
  /\ UNCHANGED <<setup, up, turn, session, fwd>>

\* A node goes down or comes back.
NodeChanges(n) ==
  /\ calm /\ calm' = FALSE
  /\ up' = IF n \in up THEN up \ {n} ELSE up \cup {n}
  /\ UNCHANGED <<setup, mark, turn, session, fwd>>

RouteNext ==
  \/ \E w \in Forwards : TakeTarget(w) \/ SelectRoute(w) \/ ChainConn(w) \/ ConnectTarget(w)
  \/ \E n \in RouteNodes : FailTimeoutPasses(n) \/ NodeChanges(n)

RouteSpec == RouteInit /\ [][RouteNext]_routeVars

--------------------------------------------------------------------------------
RouteTypeOK ==
  /\ up \subseteq RouteNodes
  /\ mark \in [RouteNodes -> [fails : 0 .. FailLimit + 1, recent : BOOLEAN]]
  /\ turn \in [1 .. TargetGroup -> 0 .. Period - 1]
  /\ session \in BOOLEAN /\ calm \in BOOLEAN
  /\ \A w \in Forwards :
       /\ fwd[w].pc \in {"target", "route", "hop", "connect", "joined", "failed", "refused"}
       /\ fwd[w].tries \in 0 .. RouteTries /\ fwd[w].dials \in 0 .. RouteTries
       /\ Len(fwd[w].route) < TargetGroup /\ ToSet(fwd[w].route) \subseteq RouteNodes

\* As long as no node changes and no fail time-out expires, a failure marks a
\* node dead (the default), and the multiplex node, which a failure before it
\* marks too, is alone in its group: a handler with more tries than there are
\* targets, and nodes of the chain, that do not work reaches a target whenever
\* each group has a node that works, however the other connections mark and
\* unmark the nodes they share: what a try left marked, the next one goes around.
Works(g) == \E n \in GroupNodes(g) : n \in up
Broken(gs) == {n \in RouteNodes : n \notin up /\ n[1] \in gs}
Enough == Cardinality(Broken({1, 2})) < RouteTries /\ Cardinality(Broken({TargetGroup})) < RouteTries
MarkedForGood == calm /\ FailLimit = 1 /\ (setup.mux => LastNodes = 1)
RetriesSuffice ==
  \A w \in Forwards :
    MarkedForGood /\ setup.handler # "udp" /\ (\A g \in 1 .. TargetGroup : Works(g)) /\ Enough
      => fwd[w].pc \notin {"failed", "refused"}

\* "A node is marked as dead if its failed count is greater than MaxFails"
\* (selector.go:172): a handler is told that no target is available only when
\* each has failed more often than that.  It is told earlier (197).
RefusedWhenAllFailed ==
  [][\A w \in Forwards :
       fwd[w].pc = "target" /\ fwd'[w].pc = "refused"
         => \A n \in GroupNodes(TargetGroup) : mark[n].fails > FailLimit]_routeVars
================================================================================
