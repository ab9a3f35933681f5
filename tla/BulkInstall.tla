----------------------------- MODULE BulkInstall ------------------------------
(***************************************************************************)
(* Server.BulkInstallJoebot, server/server.go, with UploadMyself and Dossh *)
(* of sshconnect/sshconnect.go.                                            *)
(*                                                                         *)
(* For each address one worker goroutine runs, as many at a time as        *)
(* chLimit has slots; it uploads the program and then starts it.  Either   *)
(* part is done by a goroutine of its own, raced against a timer, and      *)
(* leaves one result in the host's channel.  The results are collected     *)
(* once every worker has launched.                                            *)
(***************************************************************************)
EXTENDS Integers, Sequences, FiniteSets

CONSTANTS NumHosts,    \* addresses of the request
          Slots        \* capacity of chLimit; 10 in the code

ASSUME BulkAssumption == NumHosts \in Nat \ {0} /\ Slots \in Nat \ {0}

VARIABLES launched,  \* hosts whose worker was started
          holding,   \* workers that hold a slot of chLimit
          worker,    \* place of each worker
          job,       \* the goroutines of UploadMyself and Dossh, by host and part
          reports,   \* results waiting in the channel of each host
          collected  \* results taken out, by host

bulkVars == <<launched, holding, worker, job, reports, collected>>

Hosts == 1..NumHosts
Parts == {"upload", "dossh"}
ChannelCap == 2

BulkInit ==
  /\ launched = 0 /\ holding = {}
  /\ worker = [h \in Hosts |-> "none"]
  /\ job = [h \in Hosts |-> [p \in Parts |-> "none"]]
  /\ reports = [h \in Hosts |-> 0]
  /\ collected = [h \in Hosts |-> 0]

\* The main loop makes the host's channel, waits for a slot and starts the
\* worker, which begins with the upload.
BeginHost ==
  /\ launched < NumHosts /\ Cardinality(holding) < Slots
  /\ launched' = launched + 1
  /\ holding' = holding \cup {launched + 1}
  /\ worker' = [worker EXCEPT ![launched + 1] = "upload"]
  /\ job' = [job EXCEPT ![launched + 1]["upload"] = "running"]
  /\ UNCHANGED <<reports, collected>>

\* ch <- res, which blocks while the channel is full.
Report(h) ==
  /\ reports[h] < ChannelCap
  /\ reports' = [reports EXCEPT ![h] = @ + 1]

\* What the worker does after a part: Dossh follows the upload whatever came
\* of it; after Dossh the worker gives its slot back.
Follow(h, p, left) ==
  IF p = "upload"
  THEN /\ worker' = [worker EXCEPT ![h] = "dossh"]
       /\ job' = [job EXCEPT ![h]["upload"] = left, ![h]["dossh"] = "running"]
       /\ UNCHANGED holding
  ELSE /\ worker' = [worker EXCEPT ![h] = "done"]
       /\ job' = [job EXCEPT ![h]["dossh"] = left]
       /\ holding' = holding \ {h}

\* UploadMyself: the goroutine connected, opened the files and copied, or
\* failed at one of these; its result is received from chSSH and passed on.
UploadMyself(h) ==
  /\ worker[h] = "upload" /\ job[h]["upload"] = "running"
  /\ Report(h)
  /\ Follow(h, "upload", "none")
  /\ UNCHANGED <<launched, collected>>

\* Dossh: likewise for the commands of dossh_session.
Dossh(h) ==
  /\ worker[h] = "dossh" /\ job[h]["dossh"] = "running"
  /\ Report(h)
  /\ Follow(h, "dossh", "none")
  /\ UNCHANGED <<launched, collected>>

\* The timer wins: its result is passed on, and the goroutine is left behind.
TimesOut(h, p) ==
  /\ worker[h] = p
  /\ Report(h)
  /\ Follow(h, p, "left")
  /\ UNCHANGED <<launched, collected>>

\* A goroutine left behind ends up sending to a channel nobody receives from.
LeftBlocks(h, p) ==
  /\ job[h][p] = "left"
  /\ job' = [job EXCEPT ![h][p] = "blocked"]
  /\ UNCHANGED <<launched, holding, worker, reports, collected>>

\* Once all workers began, two results of each host are taken in order.
Collect(h) ==
  /\ launched = NumHosts
  /\ \A g \in 1..(h - 1) : collected[g] = 2
  /\ collected[h] < 2 /\ reports[h] > 0
  /\ reports' = [reports EXCEPT ![h] = @ - 1]
  /\ collected' = [collected EXCEPT ![h] = @ + 1]
  /\ UNCHANGED <<launched, holding, worker, job>>

BulkNext ==
  \/ BeginHost
  \/ \E h \in Hosts :
       \/ UploadMyself(h) \/ Dossh(h) \/ Collect(h)
       \/ \E p \in Parts : TimesOut(h, p) \/ LeftBlocks(h, p)

BulkSpec == BulkInit /\ [][BulkNext]_bulkVars

BulkReturned == \A h \in Hosts : collected[h] = 2

BulkTypeOK ==
  /\ launched \in 0..NumHosts /\ holding \subseteq Hosts
  /\ worker \in [Hosts -> {"none", "upload", "dossh", "done"}]
  /\ job \in [Hosts -> [Parts -> {"none", "running", "left", "blocked"}]]
  /\ reports \in [Hosts -> 0..ChannelCap] /\ collected \in [Hosts -> 0..2]
=============================================================================
