------------------------------ MODULE GottyTerminal ------------------------------
(***************************************************************************)
(* The web terminal of an agent (yudai/gotty): Server.Run with its timer   *)
(* and its counter of connections, the handler of a websocket from the     *)
(* request to the deferred calls, the two goroutines of WebTTY.Run and the *)
(* process behind the terminal.  The readers of a terminal go on until the *)
(* process and the connection they read are closed.                        *)
(***************************************************************************)
EXTENDS Integers, FiniteSets

CONSTANT Browsers   \* clients that open a terminal

ASSUME BrowsersAssumption == IsFiniteSet(Browsers)

VARIABLES ttyOptions,   \* once, max (0: no limit), timeout: whether a time-out is set
          runs,         \* Run: serving, waiting for the counter, returned
          accepts,      \* the listener takes requests
          cancelled,    \* the context of Run is done
          graceful,     \* the graceful context is done
          zeroTimer,    \* idle, armed, or fired: the goroutine has its value
          served,       \* the flag of Once
          connections,  \* the counter
          handler,      \* per browser, where its handler is
          shell,        \* per browser, its process: none, running, asked to end, dead
          reader,       \* per browser, the goroutines of Run and what they do
          errs,         \* per browser, the values in the channel errs
          browser       \* per browser, "open" or "gone": the other end of its connection

ttyVars == <<ttyOptions, runs, accepts, cancelled, graceful, zeroTimer, served,
             connections, handler, shell, reader, errs, browser>>
serverEnd == <<runs, accepts, graceful>>
terminal == <<shell, reader, errs>>

Ends == {"slave", "master"}
\* The channel errs has room for the value of either goroutine.
MutErrsRoom == 1
ErrsRoom == 2

TtyInit ==
  /\ ttyOptions \in [once : BOOLEAN, max : 0 .. 1, timeout : BOOLEAN]
  /\ runs = "serving" /\ accepts = TRUE /\ cancelled = FALSE /\ graceful = FALSE
  /\ zeroTimer = IF ttyOptions.timeout THEN "armed" ELSE "idle"
  /\ served = FALSE /\ connections = 0
  /\ handler = [b \in Browsers |-> "none"] /\ shell = [b \in Browsers |-> "none"]
  /\ reader = [b \in Browsers |-> [e \in Ends |-> "none"]]
  /\ errs = [b \in Browsers |-> 0]
  /\ browser = [b \in Browsers |-> "open"]

--------------------------------------------------------------------------------
(* Server.Run. *)

\* The caller cancels the context.
StopTerminal ==
  /\ ~cancelled /\ cancelled' = TRUE
  /\ UNCHANGED <<ttyOptions, serverEnd, zeroTimer, served, connections, handler, terminal, browser>>

\* The caller ends the graceful context: Shutdown closes the listener, Serve
\* returns ErrServerClosed, and Run goes on to wait without cancelling.
ShutDown ==
  /\ runs = "serving" /\ ~graceful /\ ~cancelled
  /\ graceful' = TRUE /\ accepts' = FALSE
  /\ UNCHANGED <<ttyOptions, runs, cancelled, zeroTimer, served, connections, handler, terminal, browser>>
ServeEnds ==
  /\ runs = "serving" /\ graceful
  /\ runs' = "waiting"
  /\ UNCHANGED <<ttyOptions, accepts, cancelled, graceful, zeroTimer, served, connections, handler,
                 terminal, browser>>

\* The listener fails: Run cancels its context.
ServeFails ==
  /\ runs = "serving" /\ ~graceful
  /\ accepts' = FALSE /\ cancelled' = TRUE /\ runs' = "waiting"
  /\ UNCHANGED <<ttyOptions, graceful, zeroTimer, served, connections, handler, terminal, browser>>

\* The context is done: the server is closed, but not the connections that
\* were taken over by their handlers.
RunCancelled ==
  /\ runs = "serving" /\ cancelled
  /\ accepts' = FALSE /\ runs' = "waiting"
  /\ UNCHANGED <<ttyOptions, cancelled, graceful, zeroTimer, served, connections, handler, terminal, browser>>

RunReturns ==
  /\ runs = "waiting" /\ connections = 0
  /\ runs' = "returned"
  /\ UNCHANGED <<ttyOptions, accepts, cancelled, graceful, zeroTimer, served, connections, handler,
                 terminal, browser>>

\* The timer of an idle server, and the goroutine that waits for it.
TimerFires ==
  /\ zeroTimer = "armed" /\ zeroTimer' = "fired"
  /\ UNCHANGED <<ttyOptions, serverEnd, cancelled, served, connections, handler, terminal, browser>>
IdleCancels ==
  /\ zeroTimer = "fired" /\ ~cancelled
  /\ zeroTimer' = "idle" /\ cancelled' = TRUE
  /\ UNCHANGED <<ttyOptions, serverEnd, served, connections, handler, terminal, browser>>

--------------------------------------------------------------------------------
(* The handler of a websocket. *)

Enter(b, at) == handler' = [handler EXCEPT ![b] = at]

\* A request arrives; with Once, only the first goes on.
Request(b) ==
  /\ accepts /\ handler[b] = "none"
  /\ IF ttyOptions.once /\ served
     THEN Enter(b, "refused") /\ UNCHANGED served
     ELSE Enter(b, "claimed") /\ served' = (served \/ ttyOptions.once)
  /\ UNCHANGED <<ttyOptions, serverEnd, cancelled, zeroTimer, connections, terminal, browser>>

\* counter.add: stops the timer, which does not take back what it has sent;
\* the limit is compared with the number add returned.
Admitted(num) == ttyOptions.max = 0 \/ num <= ttyOptions.max
MutCountIn(b) ==
  /\ handler[b] = "claimed"
  /\ connections' = IF Admitted(connections + 1) THEN connections + 1 ELSE connections
  /\ zeroTimer' = IF zeroTimer = "armed" THEN "idle" ELSE zeroTimer
  /\ Enter(b, IF Admitted(connections + 1) THEN "counted" ELSE "done")
  /\ UNCHANGED <<ttyOptions, serverEnd, cancelled, served, terminal, browser>>
CountIn(b) ==
  /\ handler[b] = "claimed"
  /\ connections' = connections + 1
  /\ zeroTimer' = IF zeroTimer = "armed" THEN "idle" ELSE zeroTimer
  /\ Enter(b, IF Admitted(connections') THEN "counted" ELSE "done")
  /\ UNCHANGED <<ttyOptions, serverEnd, cancelled, served, terminal, browser>>

\* The upgrade to a websocket, which fails for another method or a bad request.
Upgrade(b) ==
  /\ handler[b] = "counted"
  /\ \E at \in {"reads", "done"} : Enter(b, at)
  /\ UNCHANGED <<ttyOptions, serverEnd, cancelled, zeroTimer, served, connections, terminal, browser>>

\* The first message: refused, or the process cannot be started.  This read
\* does not watch the context.
Authenticate(b) ==
  /\ handler[b] = "reads"
  /\ \/ Enter(b, "closing") /\ UNCHANGED shell
     \/ /\ browser[b] = "open"
        /\ Enter(b, "starts") /\ shell' = [shell EXCEPT ![b] = "running"]
  /\ UNCHANGED <<ttyOptions, serverEnd, cancelled, zeroTimer, served, connections, reader, errs, browser>>

\* The title, the reconnection time and the preferences are written first.
Introduce(b) ==
  /\ handler[b] = "starts"
  /\ \/ /\ browser[b] = "open"
        /\ Enter(b, "runs") /\ reader' = [reader EXCEPT ![b] = [e \in Ends |-> "reads"]]
     \/ browser[b] = "gone" /\ Enter(b, "ends") /\ UNCHANGED reader
  /\ UNCHANGED <<ttyOptions, serverEnd, cancelled, zeroTimer, served, connections, shell, errs, browser>>

\* Run returns with the first error, or with the context.
TtyReturns(b) ==
  /\ handler[b] = "runs"
  /\ \/ cancelled /\ UNCHANGED errs
     \/ errs[b] > 0 /\ errs' = [errs EXCEPT ![b] = @ - 1]
  /\ Enter(b, "ends")
  /\ UNCHANGED <<ttyOptions, serverEnd, cancelled, zeroTimer, served, connections, shell, reader, browser>>

\* The deferred calls, last first: the process is asked to end and waited
\* for, the connection is closed, the counter is told, Once cancels.
CloseSlave(b) ==
  /\ handler[b] = "ends"
  /\ Enter(b, "waits")
  /\ shell' = [shell EXCEPT ![b] = IF @ = "running" THEN "asked" ELSE @]
  /\ UNCHANGED <<ttyOptions, serverEnd, cancelled, zeroTimer, served, connections, reader, errs, browser>>
SlaveClosed(b) ==
  /\ handler[b] = "waits" /\ shell[b] = "dead"
  /\ Enter(b, "closing")
  /\ UNCHANGED <<ttyOptions, serverEnd, cancelled, zeroTimer, served, connections, terminal, browser>>
CloseMaster(b) ==
  /\ handler[b] = "closing"
  /\ Enter(b, "done")
  /\ UNCHANGED <<ttyOptions, serverEnd, cancelled, zeroTimer, served, connections, terminal, browser>>
CountOut(b) ==
  /\ handler[b] = "done"
  /\ Enter(b, "left")
  /\ connections' = connections - 1
  /\ zeroTimer' = IF connections' = 0 /\ ttyOptions.timeout /\ zeroTimer # "fired"
                  THEN "armed" ELSE zeroTimer
  /\ cancelled' = (cancelled \/ ttyOptions.once)
  /\ UNCHANGED <<ttyOptions, serverEnd, served, terminal, browser>>

--------------------------------------------------------------------------------
(* The process, and the goroutines that read it and the connection. *)

\* It ends by itself, when asked, or killed after the close time-out.
ShellEnds(b) ==
  /\ shell[b] \in {"running", "asked"}
  /\ shell' = [shell EXCEPT ![b] = "dead"]
  /\ UNCHANGED <<ttyOptions, serverEnd, cancelled, zeroTimer, served, connections, handler, reader,
                 errs, browser>>
\* A browser leaves while the handler serves it.
BrowserLeaves(b) ==
  /\ handler[b] \in {"reads", "starts", "runs"}
  /\ browser[b] = "open" /\ browser' = [browser EXCEPT ![b] = "gone"]
  /\ UNCHANGED <<ttyOptions, serverEnd, cancelled, zeroTimer, served, connections, handler, terminal>>

MasterClosed(b) == browser[b] = "gone" \/ handler[b] \in {"done", "left"}
SlaveClosedFor(b) == shell[b] = "dead"

\* The message of a browser: written to the process, answered, applied to the
\* window, dropped, or an error that ends the terminal.
Commands == {"input", "ping", "resize", "malformed"}
Handled(b, c) ==
  CASE c = "input" -> ~SlaveClosedFor(b)
    [] c = "ping" -> ~MasterClosed(b)
    [] c = "resize" -> TRUE
    [] c = "malformed" -> FALSE
StopsReading(b, e) ==
  \/ SlaveClosedFor(b) /\ e = "slave"
  \/ MasterClosed(b)
  \/ e = "master" /\ \E c \in Commands : ~Handled(b, c)
ReadEnds(b, e) ==
  /\ reader[b][e] = "reads" /\ StopsReading(b, e)
  /\ reader' = [reader EXCEPT ![b][e] = "reports"]
  /\ UNCHANGED <<ttyOptions, serverEnd, cancelled, zeroTimer, served, connections, handler, shell,
                 errs, browser>>
Report(b, e) ==
  /\ reader[b][e] = "reports" /\ errs[b] < ErrsRoom
  /\ reader' = [reader EXCEPT ![b][e] = "ended"]
  /\ errs' = [errs EXCEPT ![b] = @ + 1]
  /\ UNCHANGED <<ttyOptions, serverEnd, cancelled, zeroTimer, served, connections, handler, shell, browser>>

HandlerStep(b) ==
  \/ Request(b) \/ CountIn(b) \/ Upgrade(b) \/ Authenticate(b) \/ Introduce(b) \/ TtyReturns(b)
  \/ CloseSlave(b) \/ SlaveClosed(b) \/ CloseMaster(b) \/ CountOut(b)

TtyNext ==
  \/ StopTerminal \/ ShutDown \/ ServeEnds \/ ServeFails \/ RunCancelled \/ RunReturns
  \/ TimerFires \/ IdleCancels
  \/ \E b \in Browsers :
       \/ HandlerStep(b) \/ ShellEnds(b) \/ BrowserLeaves(b)
       \/ \E e \in Ends : ReadEnds(b, e) \/ Report(b, e)

TtyTypeOK ==
  /\ runs \in {"serving", "waiting", "returned"} /\ zeroTimer \in {"idle", "armed", "fired"}
  /\ accepts \in BOOLEAN /\ cancelled \in BOOLEAN /\ graceful \in BOOLEAN /\ served \in BOOLEAN
  /\ connections \in 0 .. Cardinality(Browsers)
  /\ handler \in [Browsers -> {"none", "refused", "claimed", "counted", "reads", "starts", "runs",
                               "ends", "waits", "closing", "done", "left"}]
  /\ shell \in [Browsers -> {"none", "running", "asked", "dead"}]
  /\ reader \in [Browsers -> [Ends -> {"none", "reads", "reports", "ended"}]]
  /\ errs \in [Browsers -> 0 .. ErrsRoom] /\ browser \in [Browsers -> {"open", "gone"}]

\* Nothing of a terminal is left: Run has returned, the processes and goroutines have ended.
AllReleased ==
  /\ runs = "returned"
  /\ \A b \in Browsers : /\ shell[b] \in {"none", "dead"}
                         /\ \A e \in Ends : reader[b][e] \in {"none", "ended"}
=============================================================================
