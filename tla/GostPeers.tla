-------------------------------- MODULE GostPeers --------------------------------
(***************************************************************************)
(* A group of nodes extended by a file of peers that is read again when it *)
(* changes (peer.go): the selector is replaced, then the nodes, each with  *)
(* a bypass list that a goroutine of its own keeps up to date (cfg.go),    *)
(* and the lists of the nodes that were replaced are stopped.  The new     *)
(* nodes are appended to the slice of the base nodes: as far as its array  *)
(* has room, every reload writes into that array.                          *)
(***************************************************************************)
EXTENDS Integers, FiniteSets

CONSTANTS MaxConfigs,   \* versions of the file
          MaxNodes      \* peers in a version

ASSUME PeersAssumption == {MaxConfigs, MaxNodes} \subseteq Nat

VARIABLES peerSetup,    \* room behind the base nodes, peers and validity of each version
          slots,        \* which version's peer each place of that room holds, 0 for none
          group,        \* the peers in use: the array, the version and their number
          replaced,     \* the slice SetNodes gave back
          listRuns,     \* <<version, i>>: peers whose bypass list is kept up to date
          selector,     \* the version whose selector is in use
          reloading,    \* where Reload is
          config,       \* the version it reads
          peersStopped  \* the reloader was stopped

peerVars == <<peerSetup, slots, group, replaced, listRuns, selector, reloading, config, peersStopped>>

Configs == 1 .. MaxConfigs
NoPeers == [array |-> "own", version |-> 0, count |-> 0]

\* What a slice holds: one into the shared array shows what was written there last.
Node(g, i) == IF g.array = "base" THEN <<slots[i], i>> ELSE <<g.version, i>>
NodesOf(g) == {Node(g, i) : i \in 1 .. g.count}

PeersInit ==
  /\ peerSetup \in [room : 0 .. MaxNodes, peers : [Configs -> 0 .. MaxNodes], valid : [Configs -> BOOLEAN]]
  /\ slots = [i \in 1 .. MaxNodes |-> 0]
  /\ group = NoPeers /\ replaced = NoPeers /\ listRuns = {} /\ selector = 0
  /\ reloading = "idle" /\ config = 0 /\ peersStopped = FALSE

\* parse, then SetSelector.
SetSelector ==
  /\ reloading = "idle" /\ config < MaxConfigs /\ ~peersStopped
  /\ \E v \in config + 1 .. MaxConfigs : config' = v /\ selector' = v
  /\ reloading' = "parse"
  /\ UNCHANGED <<peerSetup, slots, group, replaced, listRuns, peersStopped>>

\* parseChainNode of each peer starts its bypass list; an invalid one, the
\* last here, ends Reload with the selector replaced and the nodes kept.
NewList(v, n) == IF n <= peerSetup.room THEN [array |-> "base", version |-> v, count |-> n]
                 ELSE [array |-> "own", version |-> v, count |-> n]
\* Every peer goes where there is room for it, before the array is left for a larger one.
Appended(n) == [i \in 1 .. MaxNodes |-> IF i <= n /\ i <= peerSetup.room THEN config ELSE slots[i]]
ParseNodes ==
  LET n == peerSetup.peers[config] IN
  /\ reloading = "parse"
  /\ IF peerSetup.valid[config]
     THEN /\ listRuns' = listRuns \cup {<<config, i>> : i \in 1 .. n}
          /\ slots' = Appended(n)
          /\ reloading' = "set"
     ELSE /\ listRuns' = listRuns \cup {<<config, i>> : i \in 1 .. n - 1}
          /\ slots' = Appended(n - 1)
          /\ reloading' = "idle"
  /\ UNCHANGED <<peerSetup, group, replaced, selector, config, peersStopped>>

SetNodes ==
  /\ reloading = "set"
  /\ replaced' = group /\ group' = NewList(config, peerSetup.peers[config])
  /\ reloading' = "stop"
  /\ UNCHANGED <<peerSetup, slots, listRuns, selector, config, peersStopped>>

\* The bypass lists of what the old slice holds are stopped.
MutStopReplaced ==
  /\ reloading = "stop"
  /\ listRuns' = listRuns \ NodesOf(group)
  /\ reloading' = "idle"
  /\ UNCHANGED <<peerSetup, slots, group, replaced, selector, config, peersStopped>>
StopReplaced ==
  /\ reloading = "stop"
  /\ listRuns' = listRuns \ NodesOf(replaced)
  /\ reloading' = "idle"
  /\ UNCHANGED <<peerSetup, slots, group, replaced, selector, config, peersStopped>>

StopPeers ==
  /\ ~peersStopped /\ peersStopped' = TRUE
  /\ UNCHANGED <<peerSetup, slots, group, replaced, listRuns, selector, reloading, config>>

PeersNext == SetSelector \/ ParseNodes \/ SetNodes \/ StopReplaced \/ StopPeers

PeersSpec == PeersInit /\ [][PeersNext]_peerVars

--------------------------------------------------------------------------------
PeersTypeOK ==
  /\ \A g \in {group, replaced} : g \in [array : {"own", "base"}, version : 0 .. MaxConfigs, count : 0 .. MaxNodes]
  /\ \A i \in 1 .. MaxNodes : slots[i] \in 0 .. MaxConfigs
  /\ listRuns \subseteq Configs \X (1 .. MaxNodes)
  /\ selector \in 0 .. MaxConfigs /\ config \in 0 .. MaxConfigs /\ peersStopped \in BOOLEAN
  /\ reloading \in {"idle", "parse", "set", "stop"}

\* The bypass list of every peer in use is kept up to date, and that of none
\* that was replaced.  It fails where the base nodes leave room in their array,
\* as three addresses of a node do: two reloads then share that array, and the
\* old slice shows the new nodes (peer.go:72 and 77).  Nor is an invalid file
\* cleaned up after: the peers before the invalid one keep their goroutines.
ListsOfPeersRun ==
  peerSetup.room = 0 /\ (\A v \in Configs : peerSetup.valid[v]) /\ reloading = "idle"
    => listRuns = NodesOf(group)
================================================================================
