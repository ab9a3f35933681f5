# Joebot: a TLA+ model of the control server and its port tunnels

Joebot is a control server and an agent. An agent connects to the server and
keeps one multiplexed connection open; the server asks it over that connection
to forward ports, through one of the server's reverse SSH services, so that an
operator can reach the agent's SSH server, web terminal, VNC or file browser at
a port of the server. The Go program is `src/src/joebot`; the trees beside it
(gost, filebrowser, gotty, hcl) are forks of general-purpose programs.

What can go wrong here is mostly bookkeeping under concurrency: a port of the
server is booked, handed to an agent, listed, released, booked again, by
goroutines that share a client's list of tunnels without a lock, while the
connection may fail at any moment. That is what the core of the project, checked
and proved, is about. Around it stand the other parts of the server, and the parts
of the forks that the agent runs or that carry the tunnels.

## Inventory

Paths are relative to `src/src/joebot`.

| Component | State it keeps | Operations | Hard parts |
|---|---|---|---|
| Ports manager, `utils/ports_manager.go`, `GetFreePort` in `utils/utils.go` | tables of used and allowed ports, a one-token channel | `AddAllowedPort`, `ReservePort`, `ReleasePort` | probes of the operating system race other processes; random order of the scan; six ways out of `ReservePort` |
| Tunnels of a client, `server/client.go` | session, list of tunnels, one pointer per feature | `Start`, `CreateSSHTunnel` and its three siblings, `CreateTunnel`, `ExitIfError`, `Stop`, `UpdateInfo` | list without lock; errors after the reservation; lost connection during a call; double stop |
| Registry and services, `server/server.go` | list of clients (a slice) with a one-token channel, 30 services with a round-robin index under a mutex | `AddClient`, `RemoveClient`, `GetClientById`, `GetClientsList`, `GetTunnelService`, `Start`, `Stop` | readers take no token; slices cut in place; `Stop` ranges over a list being cut |
| Limiter of a service, `server/gost-tunnel.go` | a one-token channel, time of last use | `Lock`, `UnLock`, `Serve`, `Stop` | every return must give the token back; time written after the token |
| Agent, `client/client.go`, `client/port_tunnel_task.go` | connection, list of forwarders with a one-token channel, its own ports manager | `Start`, `Stop`, `Reconnect`, `ExitIfError`, `AddTunnel`, `RemoveTunnel`, port-tunnel task | two error paths that both reconnect; remove before add |
| Requests, `task/task.go`, `handler/handler.go` | one stream per request | `Request`, `ReceiveObject`, `SendObject`, confirmation and its wait, accept loop | partial reads; time-out against late answer |
| Features, `client/*_task.go` | one server per feature | answer with a port, start a program behind it | a second request while the first starts |
| HTTP API, `handlers`, `routes`, `middleware` | none | list, create tunnel, bulk install, users | an object found may be stopped and removed before it is used |
| Users, `repository`, `models/users.go`, parts of `server.go` | one SQL table | create, login, look-ups, `InitDB` | statement sequences without a transaction |
| Bulk installation, `server.go`, `sshconnect/sshconnect.go` | ten slots, result channels | upload, run, collect | limits, time-outs, abandoned workers |
| Address ranges, `sshconnect/cfg.go` | none | pure functions | 32-bit arithmetic |
| Portal, `web_portal_html/app.js` | view state | polls the API | presentation |
| Gost, `../ginuerzh/gost` | pools of sessions, marks of nodes, maps of UDP senders, caches of names, devices | transports, listeners, chains, proxies, reverse forwarding | sessions shared by callers and dying between two of their steps; goroutines that hand errors to each other; headers cached with data; files read again while in use |
| Gotty, `../yudai/gotty` | counter of connections, timer, a process per browser | `Run`, websocket handlers, `WebTTY.Run` | who ends whom when the context, the browser or the process goes first |
| File browser, `../filebrowser` | database of users, settings and shared links | HTTP handlers | requests side by side over single transactions, and over files looked up by path |

Interaction, for one tunnel: the HTTP handler finds the client in the registry
and calls `CreateTunnel`; that takes the next service and its limiter's token,
looks the port up in the client's list, reserves a port from the ports manager,
sends a request over the session, waits for the agent's confirmation and appends
to the list. The client's own starter does the same once per feature. If the
session fails, the goroutine that accepts the client's streams stops the client,
which releases the ports of its list, and removes it from the registry, which
stops it again.

What makes each component correct:

- ports manager: one owner per port, ports from the configured range only, no
  false report of exhaustion, every call returns;
- tunnels: every booked port is accounted for exactly once, a tunnel the API
  reported is in the list that `Stop` releases, one tunnel per client port;
- registry and services: a lost client is removed, one worker per service, every
  call returns;
- agent: never without a successor, whichever goroutine notices a failure; what
  `Stop` leaves running was recorded too late; requests: a message is read whole, an answer belongs to
  its request; users: one row per name; bulk installation: every host yields two
  results and no worker is left behind;
- gost: a session that lives is the one the pool hands out; what one end of a
  connection reads is what the other wrote; a reverse tunnel and a device come back;
  a client that leaves leaves nothing; a new version of a file is put to use;
- gotty: a cancelled server ends with all its terminals; file browser: a listing
  shows each live link once, a file at rest is one body, its preview shows it.

The hazards of this code, with their lines and the properties that answer them,
are listed in `PROJECT.json`.

## Modules

- `PortPool.tla`: what a ports manager promises. Each port of a pool has one
  owner or none; a step grants a free port or returns an owned one.
- `PortsManager.tla`: `ports_manager.go` with `GetFreePort` and the loop of
  `SetAllowedPortRange`. `ReservePort` is cut wherever another goroutine or the
  operating system may act: `Acquire` (the token), `Loop` (a turn of the retry
  loop), `Scan` (one map entry, in any order, probed), `Probe` (the second
  probe), `Mark` (the write), `Return`. `OSBind` and `OSUnbind` are the other
  processes of the machine. `alwaysFree` is a history variable, the allowed
  ports free in table and kernel since the token was taken.
- `TunnelServer.tla`: the server's side of tunnels. A worker is a handler of the
  HTTP server or the starter of a client; `frame` holds the locals of its
  `CreateTunnel`, `pc` its place: `GetTunnelService`, `Lock`, `Check`, `Reserve`,
  `Request`, `Wait`, `Release` or `Load` and `Store`, `UnLock`. The append of Go is
  the two steps `Load` and `Store`, since nothing excludes other goroutines in
  between. A reaper is the goroutine that accepts the client's streams:
  `AcceptError` begins the first `Stop`, `StopReleases` is one turn of its loop,
  `StopClears` its end, `RemoveClient` the registry's part with the second `Stop`.
  The agent appears as `AgentConfirms`, the network as `Disconnect`. The ports
  manager is used by its contract, the one `PortsManager` is shown to implement:
  a reservation returns an unbooked port or fails, a release drops the booking,
  whoever made it.
- `Agent.tla`: the other end. Every attempt to reach the server is a fresh
  `Client`, an instance; two goroutines of it may find that it failed: the starter
  (`Dial`, `Update`, which is `UpdateClientInfo`) and the request loop (`Check`,
  `Accept`, `AcceptError`). Each calls `ExitIfError`, which is cut into
  `StopForwards` (the list of tunnels, under the token), two of `StopServer` (the
  servers of VNC and of the file browser) and `Reconnect` (cancel, token back, a
  sleeping goroutine); `Wake` is the end of the sleep. Handlers of requests run
  beside all this: `MakeForward` and `AddTunnel` are the port-tunnel task,
  `StartFeature`, `SetNovnc` and `SetFilebrowser` the features, `RemoveTunnel` and
  `GottyEnds` what runs on behind them. Two history variables: `late`, what was
  recorded after `Stop` had looked where it belongs, and `overtime`, requests
  accepted after the context was cancelled.
- `TunnelHandover.tla`: a port of the server from its reservation to the forwarder that
  binds it, over both programs and the SSH service between them. `CreateTunnel`
  probes the port, books it and sends the request; `HandleTunnel` is the agent's task,
  which starts a forwarder and confirms before anything is bound; `Bind` is the
  service's answer; `WaitFails` gives the port up after 60 seconds, `StopClient` with
  the session; `StopAgent` closes forwarders, which end only after their next accept
  (`SessionBreaks`). The history variable `rivals` remembers, at each reservation,
  which given-up calls might still bind the port.
- `ServerLifecycle.tla`: `Server.Start` and `Server.Stop`, the accept loop, the
  services and the registry as a Go slice: a header over a shared array. `Cut` moves
  the entries of the array, whoever walks it (`ReadEntry` of `GetClientById`,
  `StopEntry` of `Stop`) holds the header it began with. An index outside the slice,
  a nil listener and the stopping of a client that has no session yet set `crashed`.
- `ServiceLimiter.tla`: `Lock` and `UnLock` of `gost-tunnel.go` with a clock of
  `PerSecond` ticks to the second, since the time since the last use is a fraction and the
  pause, `PauseLeft`, is cut to whole seconds; `UnLockStamps` comes after the token was
  given back.
- `BulkInstall.tla`: the main loop with its slots, one worker per host, each part of
  its work in a goroutine raced against a timer.
- `UserStore.tla`: the statements that requests issue against the table of users,
  each atomic, over restarts of the process. When the table cannot be made, `InitDB` returns
  and the server runs on without it.
- `AddressRange.tla`: the expansion of `cfg.go` in signed integers of `Width` bits,
  with a reference definition. One turn of the code's loops is a step; `Pow` is the
  recursive function of powers of two. `MaxOut` cuts off the one loop that has no end,
  and lies beyond the address space.
- `Channel.tla`: the framing of one request and its reply; frames arrive one by one
  and each field is read by one `Read`.
- `GostSessions.tla`: the eight transporters that share sessions. `Dial` and
  `Handshake` are a step each, as each holds the mutex; sessions die in between.
- `GostListeners.tla`: the accept loops of the multiplexed listeners, `Server.Serve`
  with its delays, and the channels between them.
- `GostUdp.tla`: UDP associations, in a map that is set after the connection was queued.
- `GostReverseTunnel.tla`: the accept loop of a reverse tunnel over ssh or SOCKS5, its
  session, and the port at the far end.
- `GostRoute.tla`: targets and groups of nodes, the fail filter with its marks, the
  three strategies, retries. (The counters of the round-robin strategy are there because
  they decide which node `Apply` returns; no property is about them.)
- `GostSocks.tla`: one SOCKS connection from the negotiation to the last of the
  goroutines, pipes and sockets its command needs.
- `GostResolver.tla`: the resolver with servers and cache, `PeriodReload`, and the DNS
  listener.
- `GostHeaders.tla`, `GostObfsTls.tla`: headers written with the first data and taken off at
  the first read; the records of the TLS obfuscation and their incremental parser, a recursive
  function over the symbols of a read. A write is cut into two records at most (`MaxWrite`).
- `GostProxy.tla`: one request at a proxy's handler: check, decoy, attempts, answer,
  copying.
- `GostTun.tla`, `GostPeers.tla`: the loop of a TUN or TAP device; the group of peers that
  is read again from a file, over a shared array.
- `GottyTerminal.tla`: `Run`, handlers, readers and processes of a web terminal server.
- `FileShares.tla`: the database of shared links, and the listing that cuts expired ones
  out of the slice it ranges over.
- `FileUploads.tla`: requests that save, delete, copy, move and preview files, by path, on
  a file system where a path may name another file a step later.
- `PortsManagerProofs.tla`, `TunnelServerProofs.tla`, `AgentProofs.tla`,
  `ServerLifecycleProofs.tla`: theorems about the module each is named for.
- `ServerPartsProofs.tla`: theorems about the parts of `MCServerParts` and their
  composition; `GostProofs.tla`: about seven mechanisms of gost; `ForksProofs.tla`: about
  the other parts of `MCForks` and its composition; `ServicesProofs.tla`: about the parts of
  `MCServices` and its composition.
- `MCPortsManager.tla`, `MCTunnelServer.tla`, `MCAgent.tla`, `MCRoute.tla`: what only TLC
  needs (symmetry, and instances that are several smaller ones).
- `MCServerParts.tla`, `MCForks.tla`, `MCServices.tla`: each puts several modules into one
  run as alternatives: the variable `part` says which of them the behaviour runs, the
  others stand still in one initial state. The parts have no variable in common and
  in the code no state, so every reachable state of each alone is reached, and the
  product would add nothing. Where parts do share state in the code they share it
  in one module: `TunnelHandover` composes server, agent and SSH service for that reason.

Definitions named `Mut...` are not part of the model: each is a variant of the
action below it with a plausible mistake, and the property named beside it in
`PROJECT.json` fails when the variant takes the action's place.

## Runs

| Run | Checks | Instance |
|---|---|---|
| `restricted` | `TypeOK`, `Exclusive`, `WithinRange`, `NoFalseExhaustion`, `ReserveReturns`, `ImplementsPool` | 2 callers, ports 1..4, range 2..5, 2 tries |
| `zero_lower_bound` | `WithinRange`, violated | range 0..2 of 3 ports |
| `one_client` | `TypeOK`, `ServiceMutex`, `PortAccounting`, `AnsweredIsListed` | 1 client with 2 features, 1 handler, 2 services, 3 ports |
| `liveness` | `CallsReturn`, `LostClientsRemoved` | 1 service; 2 handlers and 1 client, or 2 clients without handlers |
| `duplicate_tunnel` | `OneTunnelPerClientPort`, violated | 2 handlers, 2 services |
| `instances` | `TypeOK`, `Recorded`, `OnlyLateSurvives`, `OneRequestOvertime`, `AgentsConserved` | 3 instances without requests, or 1 with 2 tunnels and 3 features |
| `recovery` | `Reconnects`, `StoppedCleansUp` | 1 instance, 2 tunnels, 2 features |
| `server_parts` | `PartsTypeOK`, `MissedOnlyWhenCut`, `ListIsExact`, `UsesAreSpaced`, `TokenFitsAddress`, `ExpansionExact`, `WholeWithinWindow`, `CallersReachTheirTunnel`, `LoopsEnd` | seven parts, bounds below |
| `forks` | `ForksTypeOK`, `SessionsArePooled`, `ListenersDeliver`, `RetriesSuffice`, `BytesArriveInOrder`, `ListsOfPeersRun`, `BrowserShowsWhatIsThere` | ten parts |
| `services` | `ServicesTypeOK`, `TerminalsEnd`, `LoopsComeBack`, `SocksReleases`, `ReloadLearns` | five parts, fair |
| `max_fails` | `RefusedWhenAllFailed`, violated | 2 connections, 2 targets, `FailLimit` 1 |
| `cancelled` | `CancelAborts`, violated | 1 browser at a terminal server, fair |

Why the bounds are enough. Two callers show every interference on the manager's token,
since a third would only wait; the range 2..5 over ports 1..4 has a port below it, ports
in it and an allowed number that is no port; two tries exercise the retry and its
exhaustion. In `one_client` two goroutines append to one list while a third clears it, and
there are fewer ports than calls that want one, so that reservation fails as well. That a
port released for one client may be booked for another while the first is still being
stopped, and that a manager without a range is sound, needs no run of its own: the
theorems below cover every number of clients and every range. `liveness` has more callers
than services, two handlers and the starter, so that calls queue; its specification bounds
the instance by `BusyOrMany`, several callers or several clients, since what removes a
client is its own reaper and the registry's token, and what a caller waits for is its
service. Fewer features in the larger instances only drop repetitions of the same call.
Three instances of the agent are enough for one that fails twice and both of its
successors, each of which may fail twice again; instances share nothing but the sleeping
goroutines, so `instances` lets either requests come or instances follow each other
(`RequestsOrSuccessors`), and what one has running is checked with a single one. Two
tunnels let one be recorded while the other is closed, and each feature differs from the
others in where it is recorded and what ends it; in `recovery` one of the two that
`StopServer` handles is left out.

In `server_parts`: three clients are the least for which `Stop` skips one and still
removes one; with one service the index is out of range as soon as the list is emptied;
two users of a service let one overtake the other's late time stamp, three ticks to the
second give every remainder that the pause loses, and 14 of them (`MaxTime`) are time for
two pauses of two seconds; three hosts for two slots make the main loop wait; two logins
overlap, or break off over a restart; numbers of four bits have every border that those of
32 have (the middle, both ends, networks of one, two, half and all addresses) and all
inputs of each form are tried; bodies of two frames are the least that arrive in pieces;
three calls of two agents for one port let it be given up and booked again twice.

In `forks`: two callers show every interleaving of dial and handshake, and two
sessions that a second one is opened; three streams overflow a queue of two; of three
UDP connections two may have one sender; two connections share the marks of groups
of two nodes, one and two, where two nodes work, and a node's failures are counted to one
beyond `FailLimit`, where the filter and its comment differ; three chunks from each end go
before, with and after a header; a write may be longer than a record and a read end
inside its header; three versions of a peers file let an array be written over twice;
three links let a listing skip one behind an expired one; two requests for two paths in
two seconds let each clean up, overwrite, move or preview what the other is writing.

In `services`: two browsers exceed a limit of one and let the first end the server for
the second (`Once`); a reverse tunnel has three sessions, so that it may be cut twice;
two peers come to a bound port, which takes one; two queries race a reload; a
device has three rounds.

The runs of `TunnelServer`, `Agent` and `GostRoute` and the composed ones do not check
deadlock: every connection of a finite instance may come to its end, and then nothing
is left to do.

What the four violations mean is in `PROJECT.json` under `findings`. In short:

- `zero_lower_bound`: a port range that begins at 0 is not respected, because 0 asks the
  system for any port;
- `duplicate_tunnel`: two requests for the same client port may both get a tunnel, because
  the check is made under the lock of a service and not of the client;
- `max_fails`: a node of a chain is dead once it failed `MaxFails` times, where the comment at
  `selector.go:172` says more often than that; the tests take the code's side;
- `cancelled`: the comment at `server.go:87` of gotty says that a cancelled context shuts the
  server down immediately and aborts connections; a browser that opened its websocket and
  says nothing keeps `Run` waiting for good.

### The condition `~raced`

`PortAccounting` and `AnsweredIsListed` cannot hold outright: an append that
overwrites a list changed since it was read loses tunnels, a `Stop` that clears
an entry it never walked over leaks its port, a tunnel appended to a client
already removed is released by nobody, and a request over a session not yet
assigned panics with its port booked. The history variable `raced` is set by
exactly these steps and nothing else, and the properties say that there is no
other way. That is worth knowing because there seem to be many: five ways out of
`CreateTunnel` after the reservation, loss of the client at each step, and a
`Stop` that runs twice and releases ports by number, where the second release
could hit the next owner of the port. It cannot, because the first `Stop`
empties the list before the second begins.

### What the agent's runs show

`AgentsConserved` counts what is, or will be, an agent the server can use. It never
becomes none: every path of `ExitIfError` ends in `Reconnect`. It does become more
than one: an instance whose `UpdateClientInfo` fails and whose request loop fails
too has two successors, which both register at the server, for good. The source
says nothing of the number of instances, so this is stated as what the program
does, in the term `Forked`, and not listed as a finding.

`OnlyLateSurvives` says how a tunnel or a server may outlive its instance: only if
it is recorded after `Stop` looked. Nothing closes it then, since the next instance
is a new `Client`. The field of a server and the list are looked at in different
steps, so each has its own moment from which a record is late.

### What the composed runs show

Several of their properties carry a condition, because the code does not keep the
promise outright. As with `raced`, each condition names the only ways out, and the
property says that there are no others:

- `CallersReachTheirTunnel`: a port that the server gave up while an agent was still
  about to bind it may be booked again and bound by the former agent, whose tunnel
  its callers then reach. The reservation's probe catches the forwarder that has bound
  it already. A refused forwarder is never asked again on its session, so the listed
  tunnel stays dead.
- `MissedOnlyWhenCut`: a look-up beside a removal may miss a client.
- `ListIsExact`: the list holds each client that connected and was not removed once, and no
  other, however `Stop`, the reapers and the accept loop cut and extend the array that
  walks are reading. It does not say that `Stop` stops all of them: `Stop` ranges over the
  list it cuts and leaves every second one, which no document speaks of.
- `UsesAreSpaced`: the pause holds unless a worker takes the token before the one
  before it has written the time. It is less than a second short, because
  `time.Duration(10-diff)` drops the fraction (`gost-tunnel.go:98`).
- `TokenFitsAddress`: token and address of a login are two statements; they fit
  unless logins of one user overlap or one breaks off.
- `ExpansionExact`: which ranges and networks expand wrongly (see the comment there);
  one that ends at 127.255.255.255 never ends.
- `SessionsArePooled` leaves HTTP/2 out: there the failed request of one caller removes
  the client of the others (`http2.go:180`).
- `ListenersDeliver`: a UDP connection closed between its queueing and its `Set`
  stays in the map, dead (`udp.go:116`).
- `RetriesSuffice`: while nothing changes outside, a handler with more tries than the
  chain has nodes that do not work, and than there are targets that do not, succeeds
  whenever each group has a node that works, whatever other connections mark. The nodes of
  both groups of a chain count together, because a try may fail at either hop. It needs two
  of the defaults: one failure marks a node (`FailLimit`), and a multiplexing node is alone in
  the last group, since a failing first hop marks the last node too and would use up the
  good ones there. A node is dead by the filter's comparison, `FailCount() < maxFails`;
  by its comment it would take one failure more, and so more tries (`max_fails`).
- `BytesArriveInOrder`: the TLS obfuscation loses the rest of a first server write
  longer than a record (`obfs.go:658`), and its parser goes wrong when a read ends
  inside a header (`obfs.go:425`): the set `mishaps` records these. The HTTP handlers
  drop what their buffered reader read ahead (`http.go:130`, `437`): a client that waits
  for the answer before it sends more does not meet that.
- `ListsOfPeersRun`: without spare room in the base nodes' array, and with valid files.
- `BrowserShowsWhatIsThere`: `LiveLinksListedOnce` (an expired link may be skipped, and
  one at the end behind a skipped entry makes the listing panic, state `panicked`; live
  links are listed once all the same), `SavedWhole` and `PreviewsFit`. A failed save
  removes whatever the path names by then, another request's file too, and the old file
  when a hook refuses (`http/resource.go:177`); a failed move removes its destination
  (`fileutils/file.go:22`); a failed copy leaves what it wrote, and two writers of one path
  mix their bodies: the history `spoiled` holds those files. A preview may be of another
  file changed in the same second, or of a later one read after the look at the time
  (`http/preview.go:88`, `110`; history `held`, `raced`).
- `TerminalsEnd`: a browser that opens its websocket and never sends its first message
  keeps `Run` from returning (`handlers.go:91`), which `cancelled` shows by itself.
- `LoopsComeBack`: a reverse tunnel over ssh is stuck once the server refuses the port
  on a session that goes on (`ssh.go:141`): the channel of connections is closed and each
  further accept fails at once. For devices it holds of a client that dials a
  chain; one that binds an address itself cannot bind it again, as nothing closes the
  connection of the round before (`tuntap.go:163`).
- `SocksReleases`: data that a client sends before the peer of a BIND has come blocks a
  pipe nobody reads (`socks.go:1081`), and a peer accepted beside a pipe that ended is
  never closed. Over a chain, the handlers of UDP shake hands with the last node with no
  deadline (`socks.go:1178`, `1442`): while that node is silent (stage `handshake`) they keep
  what they have, whatever the client does.
- `ReloadLearns`: a reload publishes servers before it initialises them
  (`resolver.go:517`), and a query in between panics (the state `crashed`). The first round
  of the poller only notes the time of the file, and a missing file ends it.

Where such a condition contradicts a comment, it has a run and a finding of its own
(`max_fails`, `cancelled`). Of the others no comment or test of the repository says
anything else, so they are stated here and in the properties. Two more things met on the way and not
modelled: `GET /clients` (`handlers/clients.go:14`) passes the method `GetClientsList` to the
encoder without calling it; a failed multiplexed handshake closes a connection that other
streams share (`chain.go:251`).

## Fairness

- `PortsManager`: weak fairness of every step of a call, strong fairness of
  taking the token. Goroutines that can run do, and the token is a Go channel,
  which serves its receivers first-in first-out. Nothing is assumed about other
  processes.
- `TunnelServer`: the same for calls, starters and reapers. `Wait` is among the
  fair steps because the wait has a deadline of 60 seconds; that a call waits for
  an answer in vain is one of its outcomes. A closed session fails its `Accept`,
  so `AcceptError` is fair once the session is closed. No fairness is assumed of
  connections, of HTTP requests, or of an agent's answer.
- `Agent`: weak fairness of the starter, the loop and the sleeping goroutines,
  strong fairness of the steps that take the token of `tunnelListLock`, again a Go
  channel. As on the server, `AcceptError` is possible always and fair once the
  session is closed. Shutting a server down has no deadline in the code; the model assumes
  that it ends, which a client of the file browser can put off for as long as its
  download lasts. Nothing is assumed of the network, or of what the server
  requests.
- `MCServerParts`: weak fairness of the main loop of a bulk installation, of collecting
  and of the timers, and of the goroutines of `Stop` and of the accept loop; a closed
  listener fails its `Accept`. No upload or session need ever answer.
- `MCServices`: weak fairness of goroutines that can run. A goroutine that reads is obliged
  only when what it reads was closed or has data: no fairness makes a browser send, an idle
  process end, a SOCKS client act, or a node of a chain answer the handshake of a UDP
  handler (`ChainHandshake`), which has no deadline; other requests over a chain have one. A
  process that was asked to end does, because it is killed after the close time-out. Strong
  fairness is assumed of two steps only, `Dials`: dialling and opening a session, which the
  network makes fail now and then but not for ever. `LoopsComeBack` is the one property that
  needs it.

## Proofs

TLAPS proves every invariant and every action property that a passing run checks, for
every value of the constants, from the assumptions the modules name. `PROJECT.json` lists
the theorems. In each case the property alone is not inductive; what follows is what
had to be added, and why.

### Ports, tunnels, agents

`PortsManagerProofs`. The inductive invariant `IInv` says, besides types, that
the token's holder is the one caller inside `ReservePort`, that the table is the
disjoint union of what callers hold, and that at `Mark` the candidate is not in
the table. `Exclusive` alone is not inductive: it breaks at `Mark` unless the
look-up at `Probe` is still true there, which is what the token gives. `SInv` adds
the scan: an allowed port that was free all along is either still to be visited
or taken, hence `NoFalseExhaustion`. `RInv` adds that candidates lie in the range;
it needs the assumption `ZeroExcluded` (the range is unrestricted or starts above
0), which the violated run shows to be necessary. `ManagerImplementsPool` maps
each port to the caller that holds it and shows every step to be a step of
`PortPool` or a stutter.

`TunnelServerProofs`. The control invariant `CInv` relates a worker's place to
what it has: between `Lock` and `UnLock` it has its service's token, it is
responsible for a port exactly from `Reserve` to `Release` or `Store`, and neither
the starter nor the reaper acts before the session exists. `ServiceMutex` follows.
`AInv` adds `PrefixInv`: while `Stop` walks its copy of the list, the copy is a
prefix of the list unless an update was lost, since appends go to the end.
Without it the release by number in `StopReleases` could not be known to hit the
first entry still standing, nor the clearing in `StopClears` to drop nothing.
`PortAccounting` follows from `AInv`. `LInv` adds, for `AnsweredIsListed`, that a starter
works on its own client, and that what a feature's pointer and a worker's answer name is
in the list from the moment of `Store` on.

`AgentProofs`. The invariant is stated of each instance, and a step of one instance
leaves every other as it was (`OthersSame`), but for `Wake`, which starts the next.
`TokenInv` ties the token to the locked part of `Stop`; `StopInv` says what is empty,
or late, at each place inside it and ever after, so that the second `Stop` of an
instance has nothing to find but late records; `JobInv` keeps what a handler has
made but not recorded apart from what is recorded, which `Recorded` needs to
survive `StopForwards`; `OvertimeInv` adds that after a late request the loop is
past its `Accept`. `AgentsConserved` counts sets of instances, with the cardinalities that
`FiniteSetTheorems` gives: each step that ends one instance is matched with one sleeping
goroutine more, but for the second failure of one instance.

### The other parts of the server

`ServerLifecycleProofs`. `LookUpInv`: a look-up that met no removal still has its client
before it, in the header it walks, because appends write behind that header or into
another array. For `ListIsExact`: no two entries of the list name one client
(`DistinctInv`), so that cutting one out unlists exactly its client, and who is in the
list is who runs, is new or was lost (`RosterInv`); what a walk of `Stop` reads is then of
no matter, because `RemoveClient` looks the client up again. Its lemmas are the laws of
cutting and extending a slice in place.

`ServerPartsProofs`, part by part. *Handover*: `RivalInv`, whatever may still bind the
port of a call that waits or is listed was known when the port was reserved; a reservation
remembers all there are, and later calls cannot reserve the port. *Limiter*: one user
holds the token (`HolderInv`), the last use is written or somebody is about to
(`StampInv`), and no pause ends a second early (`SpaceInv`, by the law of division
`Remainder`), unless the stamp that was read was stale. *Users*: the row of a user names
the writer of its token, who is the one still to write the address, or wrote it
(`WriterInv`), unless two logins overlap (`OverlapInv`). *Requests*: the bytes before the
handler are the fields yet to be read, in their order (`OrderInv`), and nothing comes back
before the handler has read (`ReplyInv`). *Bulk installation*: its types only; what it
promises is liveness. *Address ranges*: `ExpansionInv` gives the output after each turn,
and `ExpansionIs` compares the end with the reference, for every width. It rests on laws
of signed numbers (`SignedIs`, `Conversions`), of networks (`NetworkIs`) and of powers of
two.

### Gost and the other forks

`GostProofs`. *Sessions*: the pool holds the session that lives (`PoolInv`); for h2, whose
clients stay in the pool, also that whoever took one has the pool's. *Listeners*: a server
whose error was taken has ended and the channel stays quiet (`QuietInv`), so that `Accept`
never returns a connection that is none. *UDP*: what is mapped is open, or was closed too
early (`MapInv`); the size, which the code counts by itself, is what was put there less what
was closed (`SizeInv`). *Peers*: between `ParseNodes` and `StopReplaced` two sets of lists
run (`ListsInv`). *Routes*: `Faring`, no good node of a group with a choice is marked, and a
connection has lost no more tries than there are broken nodes marked, nor more dials than
there are such nodes off its route; `BlamedCount` bounds those. *Headers*: for each
direction one invariant (`UpInv`, `DownInv`): the header is cached, leads what is under way
or was taken off, and what is read, kept and under way is always one run of chunks.
*Proxies*: `ProxyInv`, what is on its way is the last of what was sent, what was handed on
is increasing and older than that, and the answer is first; with a client that waits nothing
was dropped in between.

`ForksProofs`. *Links*: `ListsOnce`, in the slice that a listing cuts while it ranges over
it each link it read that has not expired stands at one place; cutting out another entry
moves it, but keeps it there once (`CutKeepsOthers`). *Files*: paths name different files
(`Named`); a file has one writer, or is in `spoiled` (`SavedInv`); a cached preview was
`held` by its path in its second, or was read too late (`PreviewInv`). *TLS obfuscation*:
`RecordsInv` gives the records on the way to the server as consecutive pieces; `StreamInv`
says that the symbols on the way to the client take the parser from where it stands to the
beginning of a record (`Runs`), behind all the data written, and that until a mishap the
client has read the data before it. That the parser turns such symbols into the next data,
however they are cut, is an induction over the symbols.

`ServicesProofs`. What these services promise is liveness, which stays with TLC. What is
proved is what it rests on: types with the exact bounds, and that who waits waits for
somebody. *Terminals* (`TerminalsRelease`): the counter counts who is inside (`CountInv`),
so that `Run` returns only when all have left; neither goroutine of a terminal finds its
channel full. *Reverse tunnels* (`LoopsAreAnswered`): `SessionInv` relates both ends of a
session, the answer to its request and the port, so that the loop never waits for a
connection that cannot come. *SOCKS* (`SocksCloses`): `HeldInv` lists what is open at each
stage, and that only the peer that was accepted is. *Names* (`ReloadsAreUsed`): the servers
in use are of the version the poller saw last. *Devices* (also `LoopsAreAnswered`): the
errors of a round are as many as its goroutines that ended (`RoundInv`), so that a loop that
waits has one that runs, or an error to take.

### Compositions

A behaviour of `MCServerParts`, `MCForks` or `MCServices` is a behaviour of each part: in
each step a part takes one of its own or stutters (`PartsSteps`, `PartsRefine`, `PartsBehave`,
`ServiceSteps`). Hence the properties of the parts hold of the compositions
(`PartsCorrect`, `PartsTypeCorrect`, `ForksTypeCorrect`, `ServicesTypeCorrect`, and one theorem
for each property of `forks`).

### Induction

The library's induction theorems take an operator, which no installed prover instantiates.
Where an induction over numbers was needed, it is made of sets: a set of numbers with 0 and
every successor is `Nat`, because one that lacks a number lacks a least one (`Least`,
`Induction`, `InductionTo`). `PowUnfolds` and `PassesUnfolds` then show that the recursive
functions `Pow` and `Passes` exist and obey their equations, and what they compute follows
by the same means.

### Assumptions

They are the weakest the proofs went through with, and each holds of the code: numbers of
services, hosts, frames, widths, rounds, versions and sizes of queues are natural numbers, not
0 where the code has constants (`ServicesAssumption`, `LifecycleAssumption`, `BulkAssumption`,
`LimiterAssumption`, `FramesAssumption`, `SessionsAssumption`, `UdpAssumption`,
`PeersAssumption`, `RouteAssumption`, `HeadersAssumption`, `ProxyAssumption`,
`UploadsAssumption`, `ReverseAssumption`, `SocksAssumption`, `ResolverAssumption`,
`TunAssumption`); sets that are counted are finite (`FileSharesAssumption`,
`BrowsersAssumption`); what stands for nothing is none of the things (`NoCallerAssumption`,
`NoneAssumption`, `UsersAssumption`); there is an agent, a client, a port
(`HandoverAssumption`, `SomeAssumption`). Bounds that cap a counter for TLC (`MaxTime`,
`MaxChunks`, `MaxClients`, ...) are any number. Three are about sizes: the address space is
smaller than `MaxOut`, an address has two bits or more (`WidthAssumption`), and a write to the
TLS obfuscation is at most two records (`ObfsAssumption`), which keeps the model's `Write`
as it is.

### Only model-checked

What depends on fairness is beyond the prover: `ReserveReturns`, `CallsReturn`,
`LostClientsRemoved`, `Reconnects`, `StoppedCleansUp`, `LoopsEnd`, `TerminalsEnd`, `LoopsComeBack`,
`SocksReleases`, `ReloadLearns`; and the four violations, which are counterexamples.

## Not modelled, and the limits of what is

- In `TunnelServer` a slice header is read and written in one step. Go gives no such
  guarantee under a data race: a reader might see a new pointer with an old length.
  `GetClientById` is one step there; `ServerLifecycle` takes its walk apart, and
  `GetClientsList` is never called.
- In the agent: the outcome of `Confirm` and of `SendObject`, which the code only
  logs; two forwarders with the same server port, so that `RemoveTunnel` cutting the
  slice it ranges over removes one entry at most. The probe of a reservation keeps a second
  tunnel from getting a port that a forwarder has bound.
- `UpdateInfo` and the display fields it writes; the middleware, the static pages and
  the portal; reading host lists from files.
- A comment in `Server.Start` speaks of 100 services, the loop makes 30; the models have
  `NumServices`.
- Gost: cryptography and key exchange, wire formats, TLS certificates, the command line and
  configuration, permission and bypass matching (the models use their verdict), the
  exchange of one DNS query over its transports, SNI rewriting, and the kernel's side of
  devices and transparent proxies. Data is numbered chunks, bytes or records.
- The file browser beyond shared links, requests on single files and their previews:
  directories, users, settings and commands are a web application over a key-value
  store, which joebot only starts (with no authentication, and without thumbnails).
  Reading a file for its preview is one step.
- Hcl, a parser of a configuration format; joebot passes gotty its options and loads no
  such file.

## Plan

The modules above are the extent of the model, and every invariant and action property of
the runs is proved. What is left:

1. Action properties of parts that have invariants only, stated by a theorem: the table of
   users never loses a row, a mark of a node is only raised by a failure.
2. `ServiceLimiter` and `UserStore` against an abstract specification each, as
   `PortsManager` has one in `PortPool`.
3. Safety parts of the liveness properties, as `ServicesProofs` has them: for the calls of
   `TunnelServer`, that whoever waits for a token waits for a worker that can go on.
