------------------------------ MODULE GostResolver ------------------------------
(***************************************************************************)
(* Names: the resolver with its list of name servers and its cache         *)
(* (resolver.go), read again from its file while it is used (reload.go,    *)
(* the reloader of the host table, the bypass list and the users too), the *)
(* DNS listener that turns each query into a connection of its own and the *)
(* handler behind it (dns.go).                                             *)
(***************************************************************************)
EXTENDS Integers, Sequences, FiniteSets

CONSTANTS Queries,      \* queries and look-ups, all for one question
          MaxVersions,  \* versions of the file
          DnsBacklog    \* capacity of dnsListener.connChan

ASSUME ResolverAssumption == MaxVersions \in Nat \ {0} /\ DnsBacklog \in Nat

VARIABLES rsetup,     \* what the servers do, whether a ttl is set, how many servers a version has
          file,       \* the file: version, there or not, whether it asks for reloading
          servers,    \* the list in use: of which version, initialised or not
          reloads,    \* resolver.period is not zero
          poll,       \* PeriodReload
          lastMod,    \* the version whose time it remembers, 0 for none
          fileOpen,   \* the version it opened
          dnsStopped,    \* the reloader was stopped
          cached,     \* the cache's entry for the question
          query,      \* per query, its connection, its handler and what came of it
          crashed     \* a goroutine panicked: the process is gone

resolverVars == <<rsetup, file, servers, reloads, poll, lastMod, fileOpen, dnsStopped, cached, query, crashed>>

Outcomes == {"ips", "empty", "error", "garbled"}
NoEntry == [what |-> "nothing", expired |-> FALSE]
NewQuery == [pc |-> "new", at |-> 1, result |-> "none", answer |-> "none",
             conn |-> "open", serve |-> "none"]

ResolverInit ==
  /\ rsetup \in [behaves : [1 .. 2 -> Outcomes], ttl : {"none", "set", "negative"}, count : {0, 2},
                 kind : {"dns", "lookup"}]
  /\ file = [version |-> 1, there |-> TRUE, reload |-> TRUE]
  /\ servers = [version |-> 1, ready |-> TRUE]
  /\ reloads = TRUE
  /\ poll = "period" /\ lastMod = 0 /\ fileOpen = 0 /\ dnsStopped = FALSE
  /\ cached = NoEntry
  /\ query = [q \in Queries |-> NewQuery]
  /\ crashed = FALSE

\* The first version names two servers, later ones as many as the set-up says.
Count(v) == IF v = 1 THEN 2 ELSE rsetup.count

--------------------------------------------------------------------------------
(* PeriodReload and the file. *)

reloadVars == <<rsetup, cached, query, crashed>>

Edit ==
  /\ file.version < MaxVersions /\ file.there
  /\ \E r \in BOOLEAN : file' = [version |-> file.version + 1, there |-> TRUE, reload |-> r]
  /\ UNCHANGED <<servers, reloads, poll, lastMod, fileOpen, dnsStopped>> /\ UNCHANGED reloadVars
\* The file is replaced by removing it first.
RemoveFile ==
  /\ file.version = MaxVersions - 1 /\ file' = [file EXCEPT !.there = ~@]
  /\ UNCHANGED <<servers, reloads, poll, lastMod, fileOpen, dnsStopped>> /\ UNCHANGED reloadVars
StopReload ==
  /\ ~dnsStopped /\ dnsStopped' = TRUE
  /\ UNCHANGED <<file, servers, reloads, poll, lastMod, fileOpen>> /\ UNCHANGED reloadVars

\* One round: was it stopped, is the file there.  A file that is not ends it for good.
OpenFile ==
  /\ poll = "period"
  /\ IF dnsStopped \/ ~file.there THEN poll' = "ended" /\ UNCHANGED fileOpen
     ELSE poll' = "opened" /\ fileOpen' = file.version
  /\ UNCHANGED <<file, servers, reloads, lastMod, dnsStopped>> /\ UNCHANGED reloadVars

\* The first round only remembers the time of the file; a later one reads it
\* when its time changed.  Reload replaces the list, and Init makes the
\* servers usable in a critical section of its own.
MutReload ==
  /\ poll = "opened"
  /\ lastMod' = file.version
  /\ IF lastMod # 0 /\ lastMod > fileOpen /\ ~dnsStopped
     THEN /\ servers' = [version |-> fileOpen, ready |-> FALSE]
          /\ reloads' = file.reload /\ poll' = "init"
     ELSE poll' = "wait" /\ UNCHANGED <<servers, reloads>>
  /\ UNCHANGED <<file, fileOpen, dnsStopped>> /\ UNCHANGED reloadVars
Reload ==
  /\ poll = "opened"
  /\ lastMod' = fileOpen
  /\ IF lastMod # 0 /\ lastMod # fileOpen /\ ~dnsStopped
     THEN /\ servers' = [version |-> fileOpen, ready |-> FALSE]
          /\ \E r \in IF fileOpen = file.version THEN {file.reload} ELSE BOOLEAN : reloads' = r
          /\ poll' = "init"
     ELSE poll' = "wait" /\ UNCHANGED <<servers, reloads>>
  /\ UNCHANGED <<file, fileOpen, dnsStopped>> /\ UNCHANGED reloadVars
InitServers ==
  /\ poll = "init" /\ poll' = "wait"
  /\ servers' = [servers EXCEPT !.ready = TRUE]
  /\ UNCHANGED <<file, reloads, lastMod, fileOpen, dnsStopped>> /\ UNCHANGED reloadVars
\* A period of zero ends the reloading for good; dnsStopped, the next round ends it.
WaitPeriod ==
  /\ poll = "wait"
  /\ poll' = IF reloads \/ dnsStopped THEN "period" ELSE "ended"
  /\ UNCHANGED <<file, servers, reloads, lastMod, fileOpen, dnsStopped>> /\ UNCHANGED reloadVars

--------------------------------------------------------------------------------
(* Queries. *)

queryVars == <<rsetup, file, servers, reloads, poll, lastMod, fileOpen, dnsStopped>>
With(q, r) == query' = [query EXCEPT ![q] = r]
QueuedFor == {q \in Queries : query[q].pc = "queued"}

\* dnsListener.serve: a connection with the query in it, or no room for it.
\* A look-up of the chain comes without a connection.
Ask(q) ==
  /\ query[q].pc = "new"
  /\ With(q, IF rsetup.kind = "lookup" THEN [query[q] EXCEPT !.pc = "load"]
             ELSE IF Cardinality(QueuedFor) < DnsBacklog
                  THEN [query[q] EXCEPT !.pc = "queued", !.serve = "waits"]
                  ELSE [query[q] EXCEPT !.pc = "done", !.serve = "full"])
  /\ UNCHANGED <<cached, crashed>> /\ UNCHANGED queryVars
\* Accept and dnsHandler.Handle.
TakeQuery(q) ==
  /\ query[q].pc = "queued"
  /\ With(q, [query[q] EXCEPT !.pc = "load"])
  /\ UNCHANGED <<cached, crashed>> /\ UNCHANGED queryVars

\* loadCache: an entry that is too old is dropped.
Usable == cached.what # "nothing" /\ ~cached.expired
\* copyServers, then the servers in order (exchangeMsg on one that Init has
\* not reached panics, Resolve skips it; without any server Exchange packs a nil message).
LoadCache(q) ==
  /\ query[q].pc = "load"
  /\ cached' = IF Usable THEN cached ELSE NoEntry
  /\ IF Usable
     THEN With(q, [query[q] EXCEPT !.pc = "answer", !.result = cached.what]) /\ UNCHANGED crashed
     ELSE IF rsetup.kind = "dns" /\ (~servers.ready \/ Count(servers.version) = 0)
     THEN crashed' = TRUE /\ UNCHANGED query
     ELSE /\ With(q, IF servers.ready /\ Count(servers.version) > 0
                     THEN [query[q] EXCEPT !.pc = "exchange", !.at = 1]
                     ELSE [query[q] EXCEPT !.pc = "answer", !.result = "empty"])
          /\ UNCHANGED crashed
  /\ UNCHANGED queryVars

\* storeCache: a message is cached, one without addresses too, and so is what
\* was read of the last server's garbled one.
Store(what) == IF rsetup.ttl = "negative" THEN cached ELSE [what |-> what, expired |-> FALSE]

\* The next server's turn: an error goes on to the next one.  Resolve goes on
\* after an empty answer as well, but finds that in the cache by then.
Exchange(q) ==
  LET r == rsetup.behaves[query[q].at]
      last == query[q].at = 2
      next == [query[q] EXCEPT !.at = 2]
      over == [query[q] EXCEPT !.pc = "answer", !.result = r]
  IN
  /\ query[q].pc = "exchange"
  /\ IF r \in {"error", "garbled"}
     THEN /\ With(q, IF last THEN [over EXCEPT !.result = "error"] ELSE next)
          /\ cached' = IF last /\ r = "garbled" /\ rsetup.kind = "dns" THEN Store("garbled") ELSE cached
     ELSE /\ With(q, IF r = "empty" /\ ~last /\ rsetup.kind = "lookup" /\ rsetup.ttl = "negative"
                     THEN next ELSE over)
          /\ cached' = Store(r)
  /\ UNCHANGED crashed /\ UNCHANGED queryVars

\* Handle writes the answer and closes the connection; after an error it only
\* closes it.
HandlerAnswers(q) ==
  /\ query[q].pc = "answer"
  /\ With(q, [query[q] EXCEPT !.pc = "done", !.conn = "closed",
                !.answer = IF query[q].result = "error" THEN "none" ELSE query[q].result])
  /\ UNCHANGED <<cached, crashed>> /\ UNCHANGED queryVars
\* serve selects between the answer and the closed connection: it may find
\* both, and then takes either.
ServeSelects(q) ==
  /\ query[q].serve = "waits" /\ query[q].conn = "closed"
  /\ \/ query[q].answer # "none" /\ With(q, [query[q] EXCEPT !.serve = "written"])
     \/ With(q, [query[q] EXCEPT !.serve = "eof"])
  /\ UNCHANGED <<cached, crashed>> /\ UNCHANGED queryVars
\* The ttl of the cache, or that of an address, runs out: an entry without
\* addresses lasts for ever when no ttl is set.
EntryExpires ==
  /\ Usable /\ (rsetup.ttl = "set" \/ cached.what = "ips")
  /\ cached' = [cached EXCEPT !.expired = TRUE]
  /\ UNCHANGED <<query, crashed>> /\ UNCHANGED queryVars

ResolverNext ==
  ~crashed /\ ( \/ Edit \/ RemoveFile \/ StopReload \/ OpenFile \/ Reload \/ InitServers \/ WaitPeriod \/ EntryExpires
                \/ \E q \in Queries : \/ Ask(q) \/ TakeQuery(q) \/ LoadCache(q) \/ Exchange(q)
                                      \/ HandlerAnswers(q) \/ ServeSelects(q) )

--------------------------------------------------------------------------------
ResolverTypeOK ==
  /\ file \in [version : 1 .. MaxVersions, there : BOOLEAN, reload : BOOLEAN]
  /\ servers \in [version : 1 .. MaxVersions, ready : BOOLEAN]
  /\ {reloads, dnsStopped, crashed} \subseteq BOOLEAN
  /\ poll \in {"period", "opened", "init", "wait", "ended"}
  /\ lastMod \in 0 .. MaxVersions /\ fileOpen \in 0 .. MaxVersions
  /\ cached.what \in {"nothing", "ips", "empty", "garbled"}
  /\ \A q \in Queries :
       /\ query[q].pc \in {"new", "queued", "load", "exchange", "answer", "done"}
       /\ query[q].serve \in {"none", "waits", "full", "written", "eof"}

\* The poller has seen the file once, and what it last saw is in use; or it
\* has ended, as it does when stopped, when the file is not there or the file
\* says so; or the process has.
UpToDate == (lastMod = file.version /\ servers = [version |-> file.version, ready |-> TRUE])
            \/ poll = "ended" \/ crashed
================================================================================
