------------------------------- MODULE Agent --------------------------------
(***************************************************************************)
(* The agent: client/client.go with the request loop of handler/handler.go *)
(* and the tasks of client/ that leave something running behind a port.    *)
(*                                                                         *)
(* Every attempt to reach the server is a fresh Client, here an instance.  *)
(* Two goroutines of an instance may find out that it failed: the one that *)
(* runs Start (dialling, or UpdateClientInfo at its end), and the request  *)
(* loop (session.Accept).  Each then calls ExitIfError: Stop, and          *)
(* Reconnect, a goroutine that sleeps and starts the next instance.        *)
(*                                                                         *)
(* Stop closes what is recorded at that moment; handlers of requests go on *)
(* meanwhile and record what they started when they are done.  Stop leaves *)
(* the session open: only the network ends it.                             *)
(***************************************************************************)
EXTENDS Integers, FiniteSets

CONSTANTS MaxInstances,  \* bound: instances after which nothing is modelled
          Forwards,      \* port-tunnel requests of an instance, one server port each
          Features       \* of {"novnc", "filebrowser", "gotty"}, each asked for once

ASSUME InstancesAssumption == MaxInstances \in Nat \ {0}
ASSUME FeaturesAssumption ==
  /\ Features \subseteq {"novnc", "filebrowser", "gotty"}
  /\ Forwards \cap {"novnc", "filebrowser", "gotty"} = {}

VARIABLES
  at,          \* where the starter and the loop of each instance are
  session,     \* client.session
  cancelled,   \* client.ctx is done
  token,       \* which goroutine took the token of tunnelListLock in Stop
  listed,      \* client.gostTunnels
  pointers,    \* novncWebsocketServer and filebrowserServer, where not nil
  job,         \* the handler of each request
  open,        \* listeners of forwards not closed, servers not shut down
  serving,     \* forwards whose Serve goroutine has not called RemoveTunnel
  timers,      \* sleeping goroutines of Reconnect
  late,        \* history: recorded after Stop had looked
  overtime     \* history: requests accepted after the context was done

stopVars == <<token, listed, pointers, open>>
vars == <<at, session, cancelled, token, listed, pointers, job, open, serving,
          timers, late, overtime>>

Instances == 1..MaxInstances
Procs == {"starter", "loop"}
Requests == Forwards \cup Features
Services == Features \ {"gotty"}        \* recorded in a field of Client

Stopping == {"stop", "novnc", "filebrowser", "cancel"}
Labels == {"none", "dial", "update", "check", "accept", "ended", "gone"} \cup Stopping

TypeOK ==
  /\ at \in [Instances -> [Procs -> Labels]]
  /\ session \in [Instances -> {"none", "open", "closed"}]
  /\ cancelled \in [Instances -> BOOLEAN]
  /\ token \in [Instances -> Procs \cup {"free"}]
  /\ listed \in [Instances -> SUBSET Forwards]
  /\ pointers \in [Instances -> SUBSET Services]
  /\ job \in [Instances -> [Requests -> {"none", "accepted", "made", "done"}]]
  /\ open \in [Instances -> SUBSET Requests]
  /\ serving \in [Instances -> SUBSET Forwards]
  /\ timers \in [Instances -> 0..2]
  /\ late \in [Instances -> SUBSET Requests]
  /\ overtime \in [Instances -> 0..2]

Init ==
  /\ at = [i \in Instances |->
             [p \in Procs |-> IF i = 1 /\ p = "starter" THEN "dial" ELSE "none"]]
  /\ session = [i \in Instances |-> "none"]
  /\ cancelled = [i \in Instances |-> FALSE]
  /\ token = [i \in Instances |-> "free"]
  /\ listed = [i \in Instances |-> {}]
  /\ pointers = [i \in Instances |-> {}]
  /\ job = [i \in Instances |-> [r \in Requests |-> "none"]]
  /\ open = [i \in Instances |-> {}]
  /\ serving = [i \in Instances |-> {}]
  /\ timers = [i \in Instances |-> 0]
  /\ late = [i \in Instances |-> {}]
  /\ overtime = [i \in Instances |-> 0]

Goto(i, p, label) == at' = [at EXCEPT ![i][p] = label]

-----------------------------------------------------------------------------
(* Starting and the request loop.                                          *)

\* net.Dial and yamux.Client: the loop is started, or ExitIfError is called.
Dial(i) ==
  /\ at[i]["starter"] = "dial"
  /\ \/ /\ session' = [session EXCEPT ![i] = "open"]
        /\ at' = [at EXCEPT ![i]["starter"] = "update", ![i]["loop"] = "check"]
     \/ /\ Goto(i, "starter", "stop")
        /\ UNCHANGED session
  /\ UNCHANGED <<stopVars, cancelled, job, serving, timers, late, overtime>>

\* UpdateClientInfo: the request is written, or fails, which it may also do
\* while the session is open (the time-outs of yamux).
Update(i) ==
  /\ at[i]["starter"] = "update"
  /\ \/ session[i] = "open" /\ Goto(i, "starter", "ended")
     \/ Goto(i, "starter", "stop")
  /\ UNCHANGED <<stopVars, session, cancelled, job, serving, timers, late, overtime>>

\* Mutant: the loop does not look at the context.
MutCheckIgnoresContext(i) ==
  /\ at[i]["loop"] = "check"
  /\ Goto(i, "loop", "accept")
  /\ UNCHANGED <<stopVars, session, cancelled, job, serving, timers, late, overtime>>

\* The select of the loop: the context is done, or the default branch.
Check(i) ==
  /\ at[i]["loop"] = "check"
  /\ Goto(i, "loop", IF cancelled[i] THEN "ended" ELSE "accept")
  /\ UNCHANGED <<stopVars, session, cancelled, job, serving, timers, late, overtime>>

\* session.Accept returns a stream, whose handler is a goroutine of its own.
\* Bound: overtime counts to 2.
Accept(i, r) ==
  /\ at[i]["loop"] = "accept" /\ session[i] = "open" /\ job[i][r] = "none"
  /\ job' = [job EXCEPT ![i][r] = "accepted"]
  /\ overtime' = [overtime EXCEPT ![i] = IF cancelled[i] /\ @ < 2 THEN @ + 1 ELSE @]
  /\ Goto(i, "loop", "check")
  /\ UNCHANGED <<stopVars, session, cancelled, serving, timers, late>>

\* Mutant: the error of Accept is logged and the loop goes on.
MutAcceptErrorLogged(i) ==
  /\ at[i]["loop"] = "accept"
  /\ Goto(i, "loop", "check")
  /\ UNCHANGED <<stopVars, session, cancelled, job, serving, timers, late, overtime>>

\* session.Accept fails: the error callback, ExitIfError.  It fails once the
\* session is closed, and may before, when a stream cannot be acknowledged.
AcceptError(i) ==
  /\ at[i]["loop"] = "accept"
  /\ Goto(i, "loop", "stop")
  /\ UNCHANGED <<stopVars, session, cancelled, job, serving, timers, late, overtime>>

\* The connection fails.
Disconnect(i) ==
  /\ session[i] = "open"
  /\ session' = [session EXCEPT ![i] = "closed"]
  /\ UNCHANGED <<stopVars, at, cancelled, job, serving, timers, late, overtime>>

-----------------------------------------------------------------------------
(* Handlers of requests.                                                   *)

reqVars == <<at, session, cancelled, token, timers, overtime>>

\* The port-tunnel task: the forwarder's listener and its Serve goroutine run.
MakeForward(i, r) ==
  /\ r \in Forwards /\ job[i][r] = "accepted"
  /\ job' = [job EXCEPT ![i][r] = "made"]
  /\ open' = [open EXCEPT ![i] = @ \cup {r}]
  /\ serving' = [serving EXCEPT ![i] = @ \cup {r}]
  /\ UNCHANGED <<reqVars, listed, pointers, late>>

\* The server of a feature runs, or the handler gives up (no VNC server, no
\* free port, a failed configuration).  Gotty's is recorded nowhere.
StartFeature(i, r) ==
  /\ r \in Features /\ job[i][r] = "accepted"
  /\ \/ /\ job' = [job EXCEPT ![i][r] = IF r = "gotty" THEN "done" ELSE "made"]
        /\ open' = [open EXCEPT ![i] = @ \cup {r}]
     \/ /\ job' = [job EXCEPT ![i][r] = "done"]
        /\ UNCHANGED open
  /\ UNCHANGED <<reqVars, listed, pointers, serving, late>>

\* Stop has looked at the records of i, or nobody will look again.
Looked(i, r) ==
  \/ \E p \in Procs : at[i][p] = "gone"
  \/ \E p \in Procs : at[i][p] = "filebrowser" /\ r = "novnc"
  \/ \E p \in Procs : at[i][p] = "cancel"

\* Mutant: the forwarder is not added to the list.
MutAddTunnelMissing(i, r) ==
  /\ r \in Forwards /\ job[i][r] = "made" /\ token[i] = "free"
  /\ job' = [job EXCEPT ![i][r] = "done"]
  /\ UNCHANGED <<reqVars, listed, pointers, open, serving, late>>

\* AddTunnel, at the end of the port-tunnel task.
AddTunnel(i, r) ==
  /\ r \in Forwards /\ job[i][r] = "made" /\ token[i] = "free"
  /\ listed' = [listed EXCEPT ![i] = @ \cup {r}]
  /\ job' = [job EXCEPT ![i][r] = "done"]
  /\ late' = [late EXCEPT ![i] = IF Looked(i, r) THEN @ \cup {r} ELSE @]
  /\ UNCHANGED <<reqVars, pointers, open, serving>>

\* A field of Client is set, with no lock.
SetServer(i, r) ==
  /\ r \in Features /\ job[i][r] = "made"
  /\ pointers' = [pointers EXCEPT ![i] = @ \cup {r}]
  /\ job' = [job EXCEPT ![i][r] = "done"]
  /\ late' = [late EXCEPT ![i] = IF Looked(i, r) THEN @ \cup {r} ELSE @]
  /\ UNCHANGED <<reqVars, listed, open, serving>>

\* handleClient.novncWebsocketServer = websocketServer, at the end of its task.
SetNovnc(i) == SetServer(i, "novnc")

\* handleClient.filebrowserServer = filebrowserServer.
SetFilebrowser(i) == SetServer(i, "filebrowser")

\* Serve returns because the listener is closed: RemoveTunnel.
RemoveTunnel(i, r) ==
  /\ r \in serving[i] \ open[i] /\ token[i] = "free"
  /\ listed' = [listed EXCEPT ![i] = @ \ {r}]
  /\ serving' = [serving EXCEPT ![i] = @ \ {r}]
  /\ UNCHANGED <<reqVars, pointers, open, job, late>>

\* Gotty runs under the context.
GottyEnds(i) ==
  /\ cancelled[i] /\ "gotty" \in open[i]
  /\ open' = [open EXCEPT ![i] = @ \ {"gotty"}]
  /\ UNCHANGED <<reqVars, listed, pointers, job, serving, late>>

-----------------------------------------------------------------------------
(* ExitIfError: Stop, step by step, then Reconnect.                        *)

\* Under the token every listed forwarder is closed and the list emptied.
StopForwards(i, p) ==
  /\ at[i][p] = "stop" /\ token[i] = "free"
  /\ token' = [token EXCEPT ![i] = p]
  /\ open' = [open EXCEPT ![i] = @ \ listed[i]]
  /\ listed' = [listed EXCEPT ![i] = {}]
  /\ late' = [late EXCEPT ![i] = @ \ listed[i]]
  /\ Goto(i, p, "novnc")
  /\ UNCHANGED <<session, cancelled, pointers, job, serving, timers, overtime>>

\* Mutant: the server is not shut down.
MutStopKeepsServer(i, p, r, next) ==
  /\ at[i][p] = r
  /\ Goto(i, p, next)
  /\ UNCHANGED <<stopVars, session, cancelled, job, serving, timers, late, overtime>>

\* A server that is set is shut down and its field cleared.
StopServer(i, p, r, next) ==
  /\ at[i][p] = r
  /\ open' = [open EXCEPT ![i] = @ \ (pointers[i] \cap {r})]
  /\ pointers' = [pointers EXCEPT ![i] = @ \ {r}]
  /\ late' = [late EXCEPT ![i] = @ \ (pointers[i] \cap {r})]
  /\ Goto(i, p, next)
  /\ UNCHANGED <<session, cancelled, token, listed, job, serving, timers, overtime>>

StopServers(i, p) == \/ StopServer(i, p, "novnc", "filebrowser")
                     \/ StopServer(i, p, "filebrowser", "cancel")

\* Mutant: the instance is not replaced if the other goroutine cancelled it.
MutReconnectOnce(i, p) ==
  /\ at[i][p] = "cancel"
  /\ cancelled' = [cancelled EXCEPT ![i] = TRUE]
  /\ token' = [token EXCEPT ![i] = "free"]
  /\ timers' = [timers EXCEPT ![i] = IF cancelled[i] THEN @ ELSE @ + 1]
  /\ Goto(i, p, "gone")
  /\ UNCHANGED <<session, listed, pointers, job, open, serving, late, overtime>>

\* Mutant: Stop calls Reconnect as well.
MutReconnectTwice(i, p) ==
  /\ at[i][p] = "cancel"
  /\ cancelled' = [cancelled EXCEPT ![i] = TRUE]
  /\ token' = [token EXCEPT ![i] = "free"]
  /\ timers' = [timers EXCEPT ![i] = @ + 2]
  /\ Goto(i, p, "gone")
  /\ UNCHANGED <<session, listed, pointers, job, open, serving, late, overtime>>

\* Mutant: Stop keeps the token.
MutReconnectKeepsToken(i, p) ==
  /\ at[i][p] = "cancel"
  /\ cancelled' = [cancelled EXCEPT ![i] = TRUE]
  /\ timers' = [timers EXCEPT ![i] = @ + 1]
  /\ Goto(i, p, "gone")
  /\ UNCHANGED <<session, token, listed, pointers, job, open, serving, late, overtime>>

\* The context is cancelled, the token given back, Reconnect called.
Reconnect(i, p) ==
  /\ at[i][p] = "cancel"
  /\ cancelled' = [cancelled EXCEPT ![i] = TRUE]
  /\ token' = [token EXCEPT ![i] = "free"]
  /\ timers' = [timers EXCEPT ![i] = @ + 1]
  /\ Goto(i, p, "gone")
  /\ UNCHANGED <<session, listed, pointers, job, open, serving, late, overtime>>

\* The goroutine of Reconnect wakes up: NewClient and Start.
Wake(i) ==
  /\ timers[i] > 0
  /\ timers' = [timers EXCEPT ![i] = @ - 1]
  /\ \E j \in Instances :
       /\ at[j]["starter"] = "none" /\ \A k \in 1..(j - 1) : at[k]["starter"] # "none"
       /\ at' = [at EXCEPT ![j]["starter"] = "dial"]
  /\ UNCHANGED <<stopVars, session, cancelled, job, serving, late, overtime>>

-----------------------------------------------------------------------------
StopStep(i, p) == StopForwards(i, p) \/ StopServers(i, p) \/ Reconnect(i, p)

HandlerStep(i, r) == \/ MakeForward(i, r) \/ AddTunnel(i, r) \/ RemoveTunnel(i, r)
                     \/ StartFeature(i, r)

FieldStep(i) == SetNovnc(i) \/ SetFilebrowser(i)

Next ==
  \E i \in Instances :
    \/ Dial(i) \/ Update(i) \/ Check(i) \/ AcceptError(i)
    \/ Disconnect(i) \/ GottyEnds(i) \/ Wake(i) \/ FieldStep(i)
    \/ \E p \in Procs : StopStep(i, p)
    \/ \E r \in Requests : Accept(i, r) \/ HandlerStep(i, r)

Spec == Init /\ [][Next]_vars

\* Goroutines that can run do: dialling, writing and shutting a server down
\* come to an end, a sleep too.  The token is a Go channel: strong fairness.
\* Accept fails for sure on a closed session only.  Nothing is assumed of the
\* network or of the server's requests.
Fairness ==
  \A i \in Instances :
    /\ WF_vars(Dial(i)) /\ WF_vars(Update(i)) /\ WF_vars(Check(i))
    /\ WF_vars(session[i] = "closed" /\ AcceptError(i))
    /\ WF_vars(GottyEnds(i)) /\ WF_vars(Wake(i)) /\ WF_vars(FieldStep(i))
    /\ \A p \in Procs : SF_vars(StopStep(i, p))
    /\ \A r \in Requests : SF_vars(HandlerStep(i, r))

FairSpec == Spec /\ Fairness

-----------------------------------------------------------------------------
(* Properties.                                                             *)

Failing(i) == {p \in Procs : at[i][p] \in Stopping \cup {"gone"}}
Live == {i \in Instances : at[i]["starter"] # "none" /\ Failing(i) = {}}
Ending == {q \in Instances \X Procs : at[q[1]][q[2]] \in Stopping}
Sleeping == {q \in Instances \X {1, 2} : q[2] <= timers[q[1]]}
Forked == {i \in Instances : Failing(i) = Procs}

\* What may become, or is, an agent the server can use: live instances,
\* goroutines in Stop and sleeping ones.  It is never lost, whatever fails and
\* when: ExitIfError always ends in Reconnect (client.go:121-123).  And there is
\* one of it, except that an instance whose two goroutines both fail
\* (client.go:177 and 218) has two successors.
AgentsConserved ==
  Cardinality(Live) + Cardinality(Ending) + Cardinality(Sleeping)
    = 1 + Cardinality(Forked)

\* Everything that runs is recorded where Stop looks, or its handler is still
\* to record it, or its context ends it; and the list has no closed forwarder,
\* although RemoveTunnel and AddTunnel race (port_tunnel_task.go:63-70).
Recorded ==
  \A i \in Instances :
    /\ \A r \in open[i] : \/ r \in listed[i] \cup pointers[i]
                          \/ job[i][r] = "made"
                          \/ r = "gotty"
    /\ listed[i] \cup pointers[i] \subseteq open[i]

\* Once an instance is stopped, only what was recorded too late is still
\* recorded, and so still running: nobody will close it.
OnlyLateSurvives ==
  \A i \in Instances :
    cancelled[i] /\ (\A p \in Procs : at[i][p] \notin Stopping)
      => listed[i] \cup pointers[i] \subseteq late[i]

\* A stopped instance keeps its session, and a loop blocked in Accept serves
\* one more request, but never a second one (handler.go:56-61).
OneRequestOvertime == \A i \in Instances : overtime[i] <= 1

\* When the connection is lost an instance ends in a sleep before the next
\* attempt, or has made one already.
Reconnects ==
  \A i \in Instances : session[i] = "closed" ~> \E p \in Procs : at[i][p] = "gone"

\* What a stopped instance leaves behind is, in the end, what came too late.
StoppedCleansUp == \A i \in Instances : cancelled[i] ~> open[i] \subseteq late[i]
=============================================================================
