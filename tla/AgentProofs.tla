----------------------------- MODULE AgentProofs -----------------------------
(***************************************************************************)
(* Proofs about Agent for any number of instances, any set of forwarders   *)
(* and any of the features.                                                *)
(***************************************************************************)
EXTENDS Agent, FiniteSetTheorems, TLAPS

\* Both goroutines of an instance begin with a successful Dial.
StartInv(i) == at[i]["starter"] \in {"none", "dial"} => at[i]["loop"] = "none"

\* A goroutine calls Reconnect once, so it has left at most one sleeping.
TimersInv(i) ==
  \/ timers[i] = 0
  \/ timers[i] = 1 /\ \E p \in Procs : at[i][p] = "gone"
  \/ timers[i] = 2 /\ \A p \in Procs : at[i][p] = "gone"

\* The token is taken exactly by a goroutine inside the locked part of Stop.
Locked == {"novnc", "filebrowser", "cancel"}
TokenInv(i) == \A p \in Procs : at[i][p] \in Locked <=> token[i] = p

\* A handler that has made something but not recorded it: it runs (gotty is
\* not recorded).  What is recorded, was recorded by a handler that is done.
JobInv(i) ==
  \A r \in Requests :
    /\ job[i][r] = "made" => r \in open[i] /\ r # "gotty"
    /\ r \in listed[i] \cup pointers[i] => job[i][r] = "done"

RecordedAt(i) ==
  /\ \A r \in open[i] : \/ r \in listed[i] \cup pointers[i]
                        \/ job[i][r] = "made"
                        \/ r = "gotty"
  /\ listed[i] \cup pointers[i] \subseteq open[i]

\* What Stop has behind it is empty, or came late; and stays so afterwards.
StopInv(i) ==
  /\ \A p \in Procs :
       /\ at[i][p] \in Locked => listed[i] = {}
       /\ at[i][p] = "filebrowser" => pointers[i] \cap {"novnc"} \subseteq late[i]
       /\ at[i][p] = "cancel" => pointers[i] \subseteq late[i]
       /\ at[i][p] = "gone" => listed[i] \cup pointers[i] \subseteq late[i]
  /\ cancelled[i] => \E p \in Procs : at[i][p] = "gone"

\* After a request accepted over time the loop is on its way out.
OvertimeInv(i) ==
  overtime[i] = 0 \/ (overtime[i] = 1 /\ cancelled[i] /\ at[i]["loop"] # "accept")

IInv ==
  /\ TypeOK
  /\ \A i \in Instances : /\ StartInv(i) /\ TimersInv(i) /\ TokenInv(i)
                          /\ JobInv(i) /\ RecordedAt(i)
                          /\ StopInv(i) /\ OvertimeInv(i)

\* Names of features are not names of forwarders.
LEMMA Names ==
  /\ \A r \in Forwards : r \notin Features /\ r \notin Services
  /\ \A r \in Forwards : r # "novnc" /\ r # "filebrowser" /\ r # "gotty"
  /\ \A r \in Services : r = "novnc" \/ r = "filebrowser"
  /\ Services \subseteq Features
  BY FeaturesAssumption DEF Services

\* The initial state satisfies the inductive invariant.
LEMMA InitIInv == Init => IInv
<1> SUFFICES ASSUME Init PROVE IInv
  OBVIOUS
<1> USE DEF Init, Procs
<1>1. TypeOK
  BY InstancesAssumption DEF TypeOK, Instances, Labels
<1>2. ASSUME NEW i \in Instances
      PROVE  /\ StartInv(i) /\ TimersInv(i) /\ TokenInv(i) /\ JobInv(i)
             /\ RecordedAt(i) /\ StopInv(i) /\ OvertimeInv(i)
  BY DEF StartInv, TimersInv, TokenInv, JobInv, RecordedAt, StopInv, OvertimeInv, Locked
<1> QED BY <1>1, <1>2 DEF IInv

-----------------------------------------------------------------------------
\* What Goto does to the places of the goroutines.
LEMMA GotoType ==
  ASSUME TypeOK, NEW i \in Instances, NEW p \in Procs, NEW label \in Labels,
         Goto(i, p, label)
  PROVE  /\ at' \in [Instances -> [Procs -> Labels]]
         /\ \A j \in Instances, q \in Procs :
              at'[j][q] = IF j = i /\ q = p THEN label ELSE at[j][q]
  BY DEF TypeOK, Goto

\* Every label a goroutine may go to is one.
LEMMA LabelNames ==
  /\ {"none", "dial", "update", "check", "accept", "ended", "gone",
      "stop", "novnc", "filebrowser", "cancel"} = Labels
  /\ "starter" \in Procs /\ "loop" \in Procs
  BY DEF Labels, Stopping, Procs

\* Every step keeps the variables in their types.
LEMMA TypeStep == IInv /\ [Next]_vars => TypeOK'
<1> SUFFICES ASSUME IInv, [Next]_vars PROVE TypeOK'
  OBVIOUS
<1> USE DEF stopVars, reqVars
<1>0. TypeOK
  BY DEF IInv
<1> DEFINE Places == at' \in [Instances -> [Procs -> Labels]]
<1>1. CASE UNCHANGED vars
  BY <1>0, <1>1 DEF vars, TypeOK
<1>2. ASSUME NEW i \in Instances,
             Dial(i) \/ Update(i) \/ Check(i) \/ AcceptError(i) \/ Disconnect(i)
      PROVE  TypeOK'
  <2>1. CASE Dial(i)
    <3>1. Places
      <4>1. CASE at' = [at EXCEPT ![i]["starter"] = "update", ![i]["loop"] = "check"]
        <5>1. "update" \in Labels /\ "check" \in Labels
          BY LabelNames
        <5> QED BY <1>0, <4>1, <5>1, LabelNames DEF TypeOK
      <4>2. CASE Goto(i, "starter", "stop")
        BY <1>0, <4>2, LabelNames, GotoType
      <4> QED BY <2>1, <4>1, <4>2 DEF Dial
    <3> QED BY <1>0, <2>1, <3>1 DEF Dial, TypeOK
  <2>2. CASE Update(i)
    <3>1. Places
      BY <1>0, <2>2, LabelNames, GotoType DEF Update
    <3> QED BY <1>0, <2>2, <3>1 DEF Update, TypeOK
  <2>3. CASE Check(i)
    <3>1. Places
      BY <1>0, <2>3, LabelNames, GotoType DEF Check
    <3> QED BY <1>0, <2>3, <3>1 DEF Check, TypeOK
  <2>4. CASE AcceptError(i)
    <3>1. Places
      BY <1>0, <2>4, LabelNames, GotoType DEF AcceptError
    <3> QED BY <1>0, <2>4, <3>1 DEF AcceptError, TypeOK
  <2>5. CASE Disconnect(i)
    BY <1>0, <2>5 DEF Disconnect, TypeOK
  <2> QED BY <1>2, <2>1, <2>2, <2>3, <2>4, <2>5
<1>3. ASSUME NEW i \in Instances, GottyEnds(i) PROVE TypeOK'
  BY <1>0, <1>3 DEF GottyEnds, TypeOK
<1>4. ASSUME NEW i \in Instances, Wake(i) PROVE TypeOK'
  <2>1. Places
    BY <1>0, <1>4, LabelNames DEF Wake, TypeOK
  <2>2. timers' \in [Instances -> 0..2]
    BY <1>0, <1>4 DEF Wake, TypeOK
  <2> QED BY <1>0, <1>4, <2>1, <2>2 DEF Wake, TypeOK
<1>5. ASSUME NEW i \in Instances, NEW r \in {"novnc", "filebrowser"}, SetServer(i, r)
      PROVE  TypeOK'
  <2>1. r \in Services
    BY <1>5 DEF SetServer, Services
  <2> QED BY <1>0, <1>5, <2>1 DEF SetServer, Services, Requests, TypeOK
<1>6. ASSUME NEW i \in Instances, NEW p \in Procs, StopForwards(i, p) PROVE TypeOK'
  <2>1. Places
    BY <1>0, <1>6, LabelNames, GotoType DEF StopForwards
  <2> QED BY <1>0, <1>6, <2>1 DEF StopForwards, TypeOK
<1>7. ASSUME NEW i \in Instances, NEW p \in Procs, StopServers(i, p) PROVE TypeOK'
  <2>1. ASSUME NEW r, NEW next \in Labels, StopServer(i, p, r, next) PROVE TypeOK'
    <3>1. Places
      BY <1>0, <2>1, LabelNames, GotoType DEF StopServer
    <3> QED BY <1>0, <2>1, <3>1 DEF StopServer, TypeOK
  <2> QED BY <1>7, <2>1, LabelNames DEF StopServers
<1>8. ASSUME NEW i \in Instances, NEW p \in Procs, Reconnect(i, p) PROVE TypeOK'
  <2>1. timers[i] \in 0..1
    BY <1>0, <1>8 DEF Reconnect, IInv, TimersInv, TypeOK
  <2>2. Places
    BY <1>0, <1>8, LabelNames, GotoType DEF Reconnect
  <2>3. timers' \in [Instances -> 0..2]
    BY <1>0, <1>8, <2>1 DEF Reconnect, TypeOK
  <2>4. token' \in [Instances -> Procs \cup {"free"}]
    BY <1>0, <1>8 DEF Reconnect, TypeOK
  <2> QED BY <1>0, <1>8, <2>2, <2>3, <2>4 DEF Reconnect, TypeOK
<1>9. ASSUME NEW i \in Instances, NEW r \in Requests, Accept(i, r) PROVE TypeOK'
  <2>1. Places
    BY <1>0, <1>9, LabelNames, GotoType DEF Accept
  <2>2. overtime' \in [Instances -> 0..2]
    BY <1>0, <1>9 DEF Accept, TypeOK
  <2> QED BY <1>0, <1>9, <2>1, <2>2 DEF Accept, TypeOK
<1>10. ASSUME NEW i \in Instances, NEW r \in Requests, HandlerStep(i, r) PROVE TypeOK'
  <2>1. CASE MakeForward(i, r)
    BY <1>0, <2>1 DEF MakeForward, TypeOK
  <2>2. CASE StartFeature(i, r)
    <3>1. job' \in [Instances -> [Requests -> {"none", "accepted", "made", "done"}]]
      <4>1. \E label \in {"done", "made"} : job' = [job EXCEPT ![i][r] = label]
        BY <2>2 DEF StartFeature
      <4> QED BY <1>0, <4>1 DEF TypeOK
    <3>2. open' \in [Instances -> SUBSET Requests]
      BY <1>0, <2>2 DEF StartFeature, TypeOK
    <3> QED BY <1>0, <2>2, <3>1, <3>2 DEF StartFeature, TypeOK
  <2>3. CASE AddTunnel(i, r)
    BY <1>0, <2>3 DEF AddTunnel, TypeOK
  <2>4. CASE RemoveTunnel(i, r)
    BY <1>0, <2>4 DEF RemoveTunnel, TypeOK
  <2> QED BY <1>10, <2>1, <2>2, <2>3, <2>4 DEF HandlerStep
<1> QED
  BY <1>1, <1>2, <1>3, <1>4, <1>5, <1>6, <1>7, <1>8, <1>9, <1>10
  DEF Next, StopStep, FieldStep, SetNovnc, SetFilebrowser

-----------------------------------------------------------------------------
\* What the steps of instance i may be, apart from the waking of a goroutine.
OwnStep(i) ==
  \/ Dial(i) \/ Update(i) \/ Check(i) \/ AcceptError(i) \/ Disconnect(i)
  \/ GottyEnds(i) \/ FieldStep(i)
  \/ \E p \in Procs : StopStep(i, p)
  \/ \E r \in Requests : Accept(i, r) \/ HandlerStep(i, r)

Same(j) ==
  /\ at'[j] = at[j] /\ session'[j] = session[j] /\ cancelled'[j] = cancelled[j]
  /\ token'[j] = token[j] /\ listed'[j] = listed[j] /\ pointers'[j] = pointers[j]
  /\ job'[j] = job[j] /\ open'[j] = open[j] /\ serving'[j] = serving[j]
  /\ timers'[j] = timers[j] /\ late'[j] = late[j] /\ overtime'[j] = overtime[j]

\* An instance touches nothing of another one, except that it may start it.
LEMMA OthersSame ==
  ASSUME TypeOK, NEW i \in Instances, NEW j \in Instances \ {i}, OwnStep(i)
  PROVE  Same(j)
<1> USE DEF TypeOK, Same, stopVars, reqVars, Goto
<1>1. CASE Dial(i)
  BY <1>1 DEF Dial
<1>2. CASE Update(i) \/ Check(i) \/ AcceptError(i) \/ Disconnect(i)
  BY <1>2 DEF Update, Check, AcceptError, Disconnect
<1>3. CASE GottyEnds(i)
  BY <1>3 DEF GottyEnds
<1>4. CASE FieldStep(i)
  BY <1>4 DEF FieldStep, SetNovnc, SetFilebrowser, SetServer
<1>5. ASSUME NEW p \in Procs, StopStep(i, p) PROVE Same(j)
  <2>1. CASE StopForwards(i, p)
    BY <2>1 DEF StopForwards
  <2>2. CASE StopServers(i, p)
    BY <2>2 DEF StopServers, StopServer
  <2>3. CASE Reconnect(i, p)
    BY <2>3 DEF Reconnect
  <2> QED BY <1>5, <2>1, <2>2, <2>3 DEF StopStep
<1>6. ASSUME NEW r \in Requests, Accept(i, r) PROVE Same(j)
  BY <1>6 DEF Accept
<1>7. ASSUME NEW r \in Requests, HandlerStep(i, r) PROVE Same(j)
  <2>1. CASE MakeForward(i, r) \/ AddTunnel(i, r) \/ RemoveTunnel(i, r)
    BY <2>1 DEF MakeForward, AddTunnel, RemoveTunnel
  <2>2. CASE StartFeature(i, r)
    BY <2>2 DEF StartFeature
  <2> QED BY <1>7, <2>1, <2>2 DEF HandlerStep
<1> QED BY <1>1, <1>2, <1>3, <1>4, <1>5, <1>6, <1>7 DEF OwnStep

\* Waking up starts some instance, and changes nothing else of any instance
\* but its count of sleeping goroutines.
LEMMA WakeStarts ==
  ASSUME TypeOK, NEW i \in Instances, NEW j \in Instances, Wake(i)
  PROVE  /\ \/ at'[j] = at[j]
            \/ at[j]["starter"] = "none" /\ at'[j]["starter"] = "dial"
         /\ at'[j]["loop"] = at[j]["loop"]
         /\ timers'[j] \in {timers[j], timers[j] - 1}
         /\ timers'[j] # timers[j] => timers[j] > 0
<1>1. PICK k \in Instances : /\ at[k]["starter"] = "none"
                             /\ at' = [at EXCEPT ![k]["starter"] = "dial"]
  BY DEF Wake
<1>2. "starter" \in Procs /\ "loop" \in Procs
  BY LabelNames
<1>3. at'[j]["loop"] = at[j]["loop"]
  BY <1>1, <1>2 DEF TypeOK
<1>4. at'[j] = at[j] \/ (at[j]["starter"] = "none" /\ at'[j]["starter"] = "dial")
  BY <1>1, <1>2 DEF TypeOK
<1>5. timers'[j] = IF j = i THEN timers[j] - 1 ELSE timers[j]
  BY DEF Wake, TypeOK
<1> QED BY <1>3, <1>4, <1>5 DEF Wake

\* Every step is a waking, a stutter or a step of one instance.
LEMMA StepKinds ==
  [Next]_vars => UNCHANGED vars \/ \E i \in Instances : Wake(i) \/ OwnStep(i)
  BY DEF Next, OwnStep

-----------------------------------------------------------------------------
\* A step of an instance keeps the places of its goroutines, its token and its
\* sleeping goroutines in order.
LEMMA ControlStep ==
  ASSUME IInv, NEW i \in Instances, OwnStep(i)
  PROVE  StartInv(i)' /\ TimersInv(i)' /\ TokenInv(i)'
<1> DEFINE Goal == StartInv(i)' /\ TimersInv(i)' /\ TokenInv(i)'
<1> USE DEF stopVars, reqVars
<1>0. TypeOK /\ StartInv(i) /\ TimersInv(i) /\ TokenInv(i)
  BY DEF IInv
<1> USE <1>0, LabelNames DEF StartInv, TimersInv, TokenInv, Locked
<1>1. CASE Dial(i)
  <2>1. CASE at' = [at EXCEPT ![i]["starter"] = "update", ![i]["loop"] = "check"]
    <3>1. /\ at'[i]["starter"] = "update" /\ at'[i]["loop"] = "check"
          /\ at[i]["starter"] = "dial" /\ at[i]["loop"] = "none"
      BY <1>1, <2>1 DEF TypeOK, Dial
    <3> QED BY <1>1, <3>1 DEF Dial, Procs
  <2>2. CASE Goto(i, "starter", "stop")
    <3>1. /\ at'[i]["starter"] = "stop" /\ at'[i]["loop"] = "none"
          /\ at[i]["starter"] = "dial" /\ at[i]["loop"] = "none"
      BY <1>1, <2>2, GotoType DEF Dial
    <3> QED BY <1>1, <3>1 DEF Dial, Procs
  <2> QED BY <1>1, <2>1, <2>2 DEF Dial
<1>2. CASE Update(i)
  <2>1. PICK label \in {"ended", "stop"} : Goto(i, "starter", label)
    BY <1>2 DEF Update
  <2>2. at'[i]["starter"] = label /\ at'[i]["loop"] = at[i]["loop"]
    BY <2>1, GotoType DEF Procs
  <2> QED BY <1>2, <2>2 DEF Update, Procs
<1>3. CASE Check(i) \/ AcceptError(i) \/ \E r \in Requests : Accept(i, r)
  <2>1. PICK label \in {"ended", "accept", "stop", "check"} : Goto(i, "loop", label)
    BY <1>3 DEF Check, AcceptError, Accept
  <2>2. /\ at'[i]["loop"] = label /\ at'[i]["starter"] = at[i]["starter"]
        /\ at[i]["loop"] \in {"check", "accept"}
    BY <1>3, <2>1, GotoType DEF Procs, Check, AcceptError, Accept
  <2>3. UNCHANGED <<token, timers>>
    BY <1>3 DEF Check, AcceptError, Accept
  <2> QED BY <2>2, <2>3 DEF Procs
<1>4. CASE \/ Disconnect(i) \/ GottyEnds(i) \/ FieldStep(i)
           \/ \E r \in Requests : HandlerStep(i, r)
  <2>1. UNCHANGED <<at, token, timers>>
    BY <1>4 DEF Disconnect, GottyEnds, FieldStep, SetNovnc, SetFilebrowser, SetServer,
                HandlerStep, MakeForward, StartFeature, AddTunnel, RemoveTunnel
  <2> QED BY <2>1
<1>5. ASSUME NEW p \in Procs, StopForwards(i, p) PROVE Goal
  <2>1. \A q \in Procs : at'[i][q] = IF q = p THEN "novnc" ELSE at[i][q]
    BY <1>5, GotoType DEF StopForwards
  <2>2. at[i][p] = "stop" /\ token[i] = "free" /\ token'[i] = p
    BY <1>5 DEF StopForwards, TypeOK
  <2> QED BY <1>5, <2>1, <2>2 DEF StopForwards, Procs
<1>6. ASSUME NEW p \in Procs, StopServers(i, p) PROVE Goal
  <2>1. PICK next \in {"filebrowser", "cancel"} : Goto(i, p, next)
    BY <1>6 DEF StopServers, StopServer
  <2>2. at[i][p] \in Locked /\ UNCHANGED <<token, timers>>
    BY <1>6 DEF StopServers, StopServer
  <2>3. \A q \in Procs : at'[i][q] = IF q = p THEN next ELSE at[i][q]
    BY <2>1, GotoType
  <2> QED BY <2>2, <2>3 DEF Procs
<1>7. ASSUME NEW p \in Procs, Reconnect(i, p) PROVE Goal
  <2>1. \A q \in Procs : at'[i][q] = IF q = p THEN "gone" ELSE at[i][q]
    BY <1>7, GotoType DEF Reconnect
  <2>2. /\ at[i][p] = "cancel" /\ token[i] = p /\ token'[i] = "free"
        /\ timers'[i] = timers[i] + 1
    BY <1>7 DEF Reconnect, TypeOK
  <2>3. \A q \in Procs \ {p} : at[i][q] \notin Locked
    BY <2>2
  <2> QED BY <2>1, <2>2, <2>3 DEF Procs
<1> QED
  BY <1>1, <1>2, <1>3, <1>4, <1>5, <1>6, <1>7 DEF OwnStep, StopStep

-----------------------------------------------------------------------------
\* A step of an instance keeps what runs and what is recorded in agreement.
LEMMA RecordStep ==
  ASSUME IInv, NEW i \in Instances, OwnStep(i)
  PROVE  JobInv(i)' /\ RecordedAt(i)'
<1> DEFINE Goal == JobInv(i)' /\ RecordedAt(i)'
<1> USE DEF stopVars, reqVars
<1>0. TypeOK /\ JobInv(i) /\ RecordedAt(i)
  BY DEF IInv
<1>00. /\ listed[i] \subseteq Forwards /\ pointers[i] \subseteq Services
       /\ open[i] \subseteq Requests /\ serving[i] \subseteq Forwards
       /\ Forwards \subseteq Requests /\ Services \subseteq Requests
  BY <1>0 DEF TypeOK, Requests, Services
<1> USE <1>0, <1>00, Names DEF JobInv, RecordedAt
<1>1. CASE \/ Dial(i) \/ Update(i) \/ Check(i) \/ AcceptError(i) \/ Disconnect(i)
           \/ \E p \in Procs : Reconnect(i, p)
  <2>1. UNCHANGED <<listed, pointers, job, open>>
    BY <1>1 DEF Dial, Update, Check, AcceptError, Disconnect, Reconnect
  <2> QED BY <2>1
<1>2. CASE GottyEnds(i)
  <2>1. /\ open'[i] = open[i] \ {"gotty"}
        /\ UNCHANGED <<listed, pointers, job>>
    BY <1>2 DEF GottyEnds, TypeOK
  <2> QED BY <2>1
<1>3. ASSUME NEW r \in {"novnc", "filebrowser"}, SetServer(i, r) PROVE Goal
  <2>1. r \in Services /\ r \in Requests
    BY <1>3 DEF SetServer, Services, Requests
  <2>2. /\ job[i][r] = "made"
        /\ pointers'[i] = pointers[i] \cup {r}
        /\ \A q \in Requests : job'[i][q] = IF q = r THEN "done" ELSE job[i][q]
        /\ UNCHANGED <<listed, open>>
    BY <1>3, <2>1 DEF SetServer, TypeOK
  <2>3. JobInv(i)'
    BY <2>1, <2>2
  <2>4. r \in open[i] /\ listed'[i] = listed[i] /\ open'[i] = open[i]
    BY <2>1, <2>2
  <2>5. RecordedAt(i)'
    <3>1. ASSUME NEW q \in open[i], q # r
          PROVE  q \in listed'[i] \cup pointers'[i] \/ job'[i][q] = "made" \/ q = "gotty"
      BY <2>2, <2>4, <3>1
    <3>2. listed'[i] \cup pointers'[i] \subseteq open'[i]
      BY <2>2, <2>4
    <3> QED BY <2>2, <2>4, <3>1, <3>2
  <2> QED BY <2>3, <2>5
<1>4. ASSUME NEW p \in Procs, StopForwards(i, p) PROVE Goal
  <2>1. /\ open'[i] = open[i] \ listed[i]
        /\ listed'[i] = {}
        /\ UNCHANGED <<pointers, job>>
    BY <1>4 DEF StopForwards, TypeOK
  <2> QED BY <2>1
<1>5. ASSUME NEW p \in Procs, NEW r, NEW next, StopServer(i, p, r, next) PROVE Goal
  <2>1. /\ open'[i] = open[i] \ (pointers[i] \cap {r})
        /\ pointers'[i] = pointers[i] \ {r}
        /\ UNCHANGED <<listed, job>>
    BY <1>5 DEF StopServer, TypeOK
  <2> QED BY <2>1
<1>6. ASSUME NEW r \in Requests, Accept(i, r) PROVE Goal
  <2>1. /\ job[i][r] = "none"
        /\ \A q \in Requests : job'[i][q] = IF q = r THEN "accepted" ELSE job[i][q]
        /\ UNCHANGED <<listed, pointers, open>>
    BY <1>6 DEF Accept, TypeOK
  <2> QED BY <2>1
<1>7. ASSUME NEW r \in Requests, MakeForward(i, r) PROVE Goal
  <2>1. /\ job[i][r] = "accepted" /\ r \in Forwards
        /\ \A q \in Requests : job'[i][q] = IF q = r THEN "made" ELSE job[i][q]
        /\ open'[i] = open[i] \cup {r}
        /\ UNCHANGED <<listed, pointers>>
    BY <1>7 DEF MakeForward, TypeOK
  <2> QED BY <2>1
<1>8. ASSUME NEW r \in Requests, StartFeature(i, r) PROVE Goal
  <2>1. /\ job[i][r] = "accepted"
        /\ \A q \in Requests \ {r} : job'[i][q] = job[i][q]
        /\ UNCHANGED <<listed, pointers>>
    BY <1>8 DEF StartFeature, TypeOK
  <2>2. \/ /\ open'[i] = open[i] \cup {r}
           /\ job'[i][r] = IF r = "gotty" THEN "done" ELSE "made"
        \/ open'[i] = open[i] /\ job'[i][r] = "done"
    BY <1>8 DEF StartFeature, TypeOK
  <2>3. JobInv(i)'
    BY <2>1, <2>2
  <2>4. RecordedAt(i)'
    BY <2>1, <2>2
  <2> QED BY <2>3, <2>4
<1>9. ASSUME NEW r \in Requests, AddTunnel(i, r) PROVE Goal
  <2>1. /\ job[i][r] = "made"
        /\ listed'[i] = listed[i] \cup {r}
        /\ \A q \in Requests : job'[i][q] = IF q = r THEN "done" ELSE job[i][q]
        /\ UNCHANGED <<pointers, open>>
    BY <1>9 DEF AddTunnel, TypeOK
  <2> QED BY <2>1
<1>10. ASSUME NEW r \in Requests, RemoveTunnel(i, r) PROVE Goal
  <2>1. /\ r \notin open[i]
        /\ listed'[i] = listed[i] \ {r}
        /\ UNCHANGED <<pointers, open, job>>
    BY <1>10 DEF RemoveTunnel, TypeOK
  <2> QED BY <2>1
<1> QED
  BY <1>1, <1>2, <1>3, <1>4, <1>5, <1>6, <1>7, <1>8, <1>9, <1>10
  DEF OwnStep, StopStep, StopServers, HandlerStep, FieldStep, SetNovnc, SetFilebrowser

-----------------------------------------------------------------------------
\* A step outside Stop moves no goroutine into, or out of, the places StopInv
\* speaks of.
LEMMA OutsideStop ==
  ASSUME IInv, NEW i \in Instances,
         \/ Dial(i) \/ Update(i) \/ Check(i) \/ AcceptError(i) \/ Disconnect(i)
         \/ GottyEnds(i) \/ FieldStep(i)
         \/ \E r \in Requests : Accept(i, r) \/ HandlerStep(i, r)
  PROVE  /\ \A p \in Procs :
              \/ at'[i][p] = at[i][p]
              \/ /\ at[i][p] \notin Locked \cup {"gone"}
                 /\ at'[i][p] \notin Locked \cup {"gone"}
         /\ token' = token /\ cancelled' = cancelled
<1> USE DEF stopVars, reqVars
<1>0. TypeOK /\ StartInv(i)
  BY DEF IInv
<1> USE <1>0, LabelNames DEF StartInv, Locked
<1>1. CASE Dial(i)
  <2>1. CASE at' = [at EXCEPT ![i]["starter"] = "update", ![i]["loop"] = "check"]
    <3>1. /\ at'[i]["starter"] = "update" /\ at'[i]["loop"] = "check"
          /\ at[i]["starter"] = "dial" /\ at[i]["loop"] = "none"
      BY <1>1, <2>1 DEF TypeOK, Dial
    <3> QED BY <1>1, <3>1 DEF Dial, Procs
  <2>2. CASE Goto(i, "starter", "stop")
    BY <1>1, <2>2, GotoType DEF Dial
  <2> QED BY <1>1, <2>1, <2>2 DEF Dial
<1>2. CASE Update(i)
  <2>1. PICK label \in {"ended", "stop"} : Goto(i, "starter", label)
    BY <1>2 DEF Update
  <2> QED BY <1>2, <2>1, GotoType DEF Update
<1>3. CASE Check(i) \/ AcceptError(i) \/ \E r \in Requests : Accept(i, r)
  <2>1. PICK label \in {"ended", "accept", "stop", "check"} : Goto(i, "loop", label)
    BY <1>3 DEF Check, AcceptError, Accept
  <2>2. UNCHANGED <<token, cancelled>> /\ at[i]["loop"] \in {"check", "accept"}
    BY <1>3 DEF Check, AcceptError, Accept
  <2> QED BY <2>1, <2>2, GotoType
<1>4. CASE \/ Disconnect(i) \/ GottyEnds(i) \/ FieldStep(i)
           \/ \E r \in Requests : HandlerStep(i, r)
  BY <1>4 DEF Disconnect, GottyEnds, FieldStep, SetNovnc, SetFilebrowser, SetServer,
              HandlerStep, MakeForward, StartFeature, AddTunnel, RemoveTunnel
<1> QED BY <1>1, <1>2, <1>3, <1>4

\* A step of an instance keeps what Stop has behind it empty, or late.
LEMMA StopInvStep ==
  ASSUME IInv, NEW i \in Instances, OwnStep(i)
  PROVE  StopInv(i)'
<1> USE DEF stopVars, reqVars
<1>0. TypeOK /\ TokenInv(i) /\ StopInv(i) /\ JobInv(i)
  BY DEF IInv
<1>00. /\ listed[i] \subseteq Forwards /\ pointers[i] \subseteq Services
       /\ listed[i] \cap pointers[i] = {}
       /\ token[i] \in Procs \cup {"free"} /\ "free" \notin Procs
  BY <1>0, Names DEF TypeOK, Procs
<1> USE <1>0, <1>00 DEF StopInv, TokenInv, Locked
<1>1. CASE \/ Dial(i) \/ Update(i) \/ Check(i) \/ AcceptError(i) \/ Disconnect(i)
           \/ GottyEnds(i)
           \/ \E r \in Requests : Accept(i, r) \/ MakeForward(i, r) \/ StartFeature(i, r)
  <2>1. UNCHANGED <<listed, pointers, late>>
    BY <1>1 DEF Dial, Update, Check, AcceptError, Disconnect, GottyEnds, Accept,
                MakeForward, StartFeature
  <2> QED BY <1>1, <2>1, OutsideStop DEF HandlerStep
<1>2. ASSUME NEW r \in {"novnc", "filebrowser"}, SetServer(i, r) PROVE StopInv(i)'
  <2>1. /\ pointers'[i] = pointers[i] \cup {r}
        /\ late'[i] = IF Looked(i, r) THEN late[i] \cup {r} ELSE late[i]
        /\ UNCHANGED <<at, token, cancelled, listed>>
    BY <1>2 DEF SetServer, TypeOK
  <2> QED BY <2>1 DEF Looked
<1>3. ASSUME NEW r \in Requests, AddTunnel(i, r) PROVE StopInv(i)'
  <2>1. /\ token[i] = "free"
        /\ listed'[i] = listed[i] \cup {r}
        /\ late'[i] = IF Looked(i, r) THEN late[i] \cup {r} ELSE late[i]
        /\ UNCHANGED <<at, token, cancelled, pointers>>
    BY <1>3 DEF AddTunnel, TypeOK
  <2> QED BY <2>1 DEF Looked
<1>4. ASSUME NEW r \in Requests, RemoveTunnel(i, r) PROVE StopInv(i)'
  <2>1. /\ listed'[i] = listed[i] \ {r}
        /\ UNCHANGED <<at, token, cancelled, pointers, late>>
    BY <1>4 DEF RemoveTunnel, TypeOK
  <2> QED BY <2>1
<1>5. ASSUME NEW p \in Procs, StopForwards(i, p) PROVE StopInv(i)'
  <2>1. \A q \in Procs : at'[i][q] = IF q = p THEN "novnc" ELSE at[i][q]
    BY <1>5, GotoType, LabelNames DEF StopForwards
  <2>2. /\ at[i][p] = "stop" /\ token[i] = "free"
        /\ listed'[i] = {} /\ late'[i] = late[i] \ listed[i]
        /\ UNCHANGED <<pointers, cancelled>>
    BY <1>5 DEF StopForwards, TypeOK
  <2> QED BY <2>1, <2>2
<1>6. ASSUME NEW p \in Procs, StopServers(i, p) PROVE StopInv(i)'
  <2>1. PICK r \in {"novnc", "filebrowser"}, next \in {"filebrowser", "cancel"} :
          /\ StopServer(i, p, r, next)
          /\ r = "novnc" <=> next = "filebrowser"
    BY <1>6 DEF StopServers
  <2>2. \A q \in Procs : at'[i][q] = IF q = p THEN next ELSE at[i][q]
    BY <2>1, GotoType, LabelNames DEF StopServer
  <2>3. /\ at[i][p] = r /\ token[i] = p /\ listed[i] = {}
        /\ pointers'[i] = pointers[i] \ {r}
        /\ late'[i] = late[i] \ (pointers[i] \cap {r})
        /\ UNCHANGED <<listed, cancelled>>
    BY <2>1 DEF StopServer, TypeOK
  <2>4. \A q \in Procs \ {p} : at[i][q] \notin Locked
    BY <2>3
  <2>5. \A s \in pointers[i] : s = "novnc" \/ s = "filebrowser"
    BY Names
  <2>6. ASSUME NEW q \in Procs \ {p}
        PROVE  /\ at'[i][q] \notin Locked
               /\ at'[i][q] = "gone" => pointers'[i] \subseteq late'[i]
    BY <2>2, <2>3, <2>4
  <2>7. CASE r = "novnc"
    BY <2>1, <2>2, <2>3, <2>6, <2>7
  <2>8. CASE r = "filebrowser"
    BY <2>1, <2>2, <2>3, <2>5, <2>6, <2>8
  <2> QED BY <2>7, <2>8
<1>7. ASSUME NEW p \in Procs, Reconnect(i, p) PROVE StopInv(i)'
  <2>1. \A q \in Procs : at'[i][q] = IF q = p THEN "gone" ELSE at[i][q]
    BY <1>7, GotoType, LabelNames DEF Reconnect
  <2>2. /\ at[i][p] = "cancel" /\ token[i] = p /\ listed[i] = {}
        /\ UNCHANGED <<listed, pointers, late>>
    BY <1>7 DEF Reconnect
  <2> QED BY <2>1, <2>2
<1> QED
  BY <1>1, <1>2, <1>3, <1>4, <1>5, <1>6, <1>7
  DEF OwnStep, StopStep, HandlerStep, FieldStep, SetNovnc, SetFilebrowser

\* A step of an instance accepts at most one request over time.
LEMMA OvertimeStep ==
  ASSUME IInv, NEW i \in Instances, OwnStep(i)
  PROVE  OvertimeInv(i)'
<1> USE DEF stopVars, reqVars
<1>0. TypeOK /\ StopInv(i) /\ StartInv(i) /\ OvertimeInv(i)
  BY DEF IInv
<1> USE <1>0, LabelNames DEF OvertimeInv
<1>1. CASE \/ Disconnect(i) \/ GottyEnds(i) \/ FieldStep(i)
           \/ \E r \in Requests : HandlerStep(i, r)
  <2>1. UNCHANGED <<at, cancelled, overtime>>
    BY <1>1 DEF Disconnect, GottyEnds, FieldStep, SetNovnc, SetFilebrowser, SetServer,
                HandlerStep, MakeForward, StartFeature, AddTunnel, RemoveTunnel
  <2> QED BY <2>1
<1>2. CASE Dial(i)
  <2>1. at[i]["starter"] = "dial" /\ at[i]["loop"] = "none" /\ UNCHANGED <<cancelled, overtime>>
    BY <1>2 DEF Dial, StartInv
  <2>2. ~cancelled[i]
    BY <2>1 DEF StopInv, Procs
  <2> QED BY <2>1, <2>2
<1>3. CASE Update(i)
  <2>1. PICK label \in {"ended", "stop"} : Goto(i, "starter", label)
    BY <1>3 DEF Update
  <2>2. at'[i]["loop"] = at[i]["loop"]
    BY <2>1, GotoType
  <2> QED BY <1>3, <2>2 DEF Update
<1>4. CASE Check(i)
  <2>1. at'[i]["loop"] = IF cancelled[i] THEN "ended" ELSE "accept"
    BY <1>4, GotoType DEF Check
  <2> QED BY <1>4, <2>1 DEF Check
<1>5. CASE AcceptError(i)
  <2>1. at'[i]["loop"] = "stop"
    BY <1>5, GotoType DEF AcceptError
  <2> QED BY <1>5, <2>1 DEF AcceptError
<1>6. ASSUME NEW r \in Requests, Accept(i, r) PROVE OvertimeInv(i)'
  <2>1. at'[i]["loop"] = "check"
    BY <1>6, GotoType DEF Accept
  <2>2. at[i]["loop"] = "accept" /\ overtime[i] = 0 /\ cancelled' = cancelled
    BY <1>6 DEF Accept
  <2>3. overtime'[i] = IF cancelled[i] THEN 1 ELSE 0
    BY <1>6, <2>2 DEF Accept, TypeOK
  <2> QED BY <2>1, <2>2, <2>3
<1>7. ASSUME NEW p \in Procs, StopStep(i, p) PROVE OvertimeInv(i)'
  <2>1. PICK label \in {"novnc", "filebrowser", "cancel", "gone"} : Goto(i, p, label)
    BY <1>7 DEF StopStep, StopForwards, StopServers, StopServer, Reconnect
  <2>2. at'[i]["loop"] = at[i]["loop"] \/ at'[i]["loop"] = label
    BY <2>1, GotoType
  <2>3. overtime' = overtime /\ (cancelled[i] => cancelled'[i])
    BY <1>7 DEF StopStep, StopForwards, StopServers, StopServer, Reconnect, TypeOK
  <2> QED BY <2>2, <2>3
<1> QED BY <1>1, <1>2, <1>3, <1>4, <1>5, <1>6, <1>7 DEF OwnStep

-----------------------------------------------------------------------------
\* The invariant is inductive.
LEMMA NextIInv == IInv /\ [Next]_vars => IInv'
<1> SUFFICES ASSUME IInv, [Next]_vars PROVE IInv'
  OBVIOUS
<1> DEFINE Good(j) == /\ StartInv(j) /\ TimersInv(j) /\ TokenInv(j)
                      /\ JobInv(j) /\ RecordedAt(j) /\ StopInv(j) /\ OvertimeInv(j)
<1>0. TypeOK /\ TypeOK' /\ \A j \in Instances : Good(j)
  BY TypeStep DEF IInv
<1> USE DEF StartInv, TimersInv, TokenInv, JobInv, RecordedAt, StopInv, OvertimeInv
<1>1. ASSUME NEW j \in Instances, Same(j) PROVE Good(j)'
  BY <1>0, <1>1 DEF Same
<1>2. CASE UNCHANGED vars
  BY <1>1, <1>2, <1>0 DEF vars, Same, IInv
<1>3. ASSUME NEW i \in Instances, OwnStep(i) PROVE IInv'
  <2>1. Good(i)'
    BY <1>3, ControlStep, RecordStep, StopInvStep, OvertimeStep
  <2>2. ASSUME NEW j \in Instances \ {i} PROVE Good(j)'
    BY <1>0, <1>1, <1>3, OthersSame
  <2> QED BY <1>0, <2>1, <2>2 DEF IInv
<1>4. ASSUME NEW i \in Instances, Wake(i) PROVE IInv'
  <2>1. ASSUME NEW j \in Instances PROVE Good(j)'
    <3>1. \A p \in Procs : \/ at'[j][p] = at[j][p]
                           \/ at[j][p] = "none" /\ at'[j][p] = "dial"
      BY <1>0, <1>4, WakeStarts DEF Procs
    <3>2. UNCHANGED <<session, cancelled, token, listed, pointers, job, open, late, overtime>>
      BY <1>4 DEF Wake, stopVars
    <3>3. StartInv(j)' /\ OvertimeInv(j)'
      BY <1>0, <1>4, <3>2, WakeStarts
    <3>4. TimersInv(j)'
      <4>1. /\ timers'[j] \in {timers[j], timers[j] - 1}
            /\ timers'[j] # timers[j] => timers[j] > 0
        BY <1>0, <1>4, WakeStarts
      <4>2. \A p \in Procs : at[j][p] = "gone" => at'[j][p] = "gone"
        BY <3>1
      <4>3. timers[j] \in 0..2 /\ TimersInv(j)
        BY <1>0 DEF TypeOK
      <4>4. \E p \in Procs : TRUE
        BY LabelNames
      <4>5. CASE timers'[j] = timers[j]
        BY <4>2, <4>3, <4>5
      <4>6. CASE timers'[j] = timers[j] - 1 /\ timers[j] > 0
        BY <4>2, <4>3, <4>4, <4>6
      <4> QED BY <4>1, <4>5, <4>6
    <3>5. TokenInv(j)' /\ StopInv(j)'
      BY <1>0, <3>1, <3>2 DEF Locked
    <3>6. JobInv(j)' /\ RecordedAt(j)'
      BY <1>0, <3>2
    <3> QED BY <3>3, <3>4, <3>5, <3>6
  <2> QED BY <1>0, <2>1 DEF IInv
<1> QED BY <1>2, <1>3, <1>4, StepKinds

\* The inductive invariant holds.
THEOREM IInvHolds == Spec => []IInv
  BY InitIInv, NextIInv, PTL DEF Spec

\* The variables of Agent keep their types.
THEOREM TypeCorrect == Spec => []TypeOK
<1>1. IInv => TypeOK
  BY DEF IInv
<1> QED BY <1>1, IInvHolds, PTL

\* Everything an agent has running is recorded where Stop looks, about to be
\* recorded, or ended by the context; nothing closed is listed.
THEOREM RecordedHolds == Spec => []Recorded
<1>1. IInv => Recorded
  BY DEF IInv, Recorded, RecordedAt
<1> QED BY <1>1, IInvHolds, PTL

\* What is still recorded in a stopped instance was recorded too late.
THEOREM OnlyLateSurvivesHolds == Spec => []OnlyLateSurvives
<1>1. IInv => OnlyLateSurvives
  BY DEF IInv, OnlyLateSurvives, StopInv
<1> QED BY <1>1, IInvHolds, PTL

\* The loop of a stopped instance serves one more request at most.
THEOREM OneRequestOvertimeHolds == Spec => []OneRequestOvertime
<1>1. IInv => OneRequestOvertime
  BY DEF IInv, OneRequestOvertime, OvertimeInv
<1> QED BY <1>1, IInvHolds, PTL

-----------------------------------------------------------------------------
(* The agents that are, or may become, usable are counted.                 *)

\* The sets that are counted are finite.
LEMMA CountedFinite ==
  /\ IsFiniteSet(Live) /\ IsFiniteSet(Ending) /\ IsFiniteSet(Sleeping)
  /\ IsFiniteSet(Forked)
  /\ Cardinality(Live) \in Nat /\ Cardinality(Ending) \in Nat
  /\ Cardinality(Sleeping) \in Nat /\ Cardinality(Forked) \in Nat
<1>1. IsFiniteSet(Instances)
  BY InstancesAssumption, FS_Interval DEF Instances
<1>2. IsFiniteSet(Procs) /\ IsFiniteSet({1, 2})
  <2>1. IsFiniteSet({"starter"}) /\ IsFiniteSet({1})
    BY FS_Singleton
  <2>2. IsFiniteSet({"starter"} \cup {"loop"}) /\ IsFiniteSet({1} \cup {2})
    BY <2>1, FS_AddElement
  <2>3. Procs = {"starter"} \cup {"loop"} /\ {1, 2} = {1} \cup {2}
    BY DEF Procs
  <2> QED BY <2>2, <2>3
<1>3. IsFiniteSet(Instances \X Procs) /\ IsFiniteSet(Instances \X {1, 2})
  BY <1>1, <1>2, FS_Product
<1>4. /\ IsFiniteSet(Live) /\ IsFiniteSet(Ending) /\ IsFiniteSet(Sleeping)
      /\ IsFiniteSet(Forked)
  BY <1>1, <1>3, FS_Subset DEF Live, Ending, Sleeping, Forked
<1> QED BY <1>4, FS_CardinalityType

\* Where a goroutine fails, or none does, is all that the sets depend on.
LEMMA SameCounts ==
  ASSUME UNCHANGED timers,
         \A j \in Instances : at'[j]["starter"] # "none" <=> at[j]["starter"] # "none",
         \A j \in Instances, q \in Procs :
           /\ at'[j][q] \in Stopping <=> at[j][q] \in Stopping
           /\ at'[j][q] = "gone" <=> at[j][q] = "gone"
  PROVE  Live' = Live /\ Ending' = Ending /\ Sleeping' = Sleeping /\ Forked' = Forked
<1>1. \A j \in Instances : Failing(j)' = Failing(j)
  BY DEF Failing
<1>2. Ending' = Ending
  BY DEF Ending
<1> QED BY <1>1, <1>2 DEF Live, Sleeping, Forked

\* A goroutine of a live instance calls ExitIfError, or the second one of an
\* instance that fails already.
LEMMA CountsFail ==
  ASSUME IInv, AgentsConserved, NEW i \in Instances, NEW p \in Procs, Goto(i, p, "stop"),
         at[i][p] \notin Stopping \cup {"gone"}, at[i]["starter"] # "none",
         UNCHANGED timers
  PROVE  AgentsConserved'
<1>1. /\ \A j \in Instances, q \in Procs :
           at'[j][q] = IF j = i /\ q = p THEN "stop" ELSE at[j][q]
      /\ "stop" \in Stopping
  BY LabelNames, GotoType DEF IInv, Stopping
<1>2. /\ Failing(i)' = Failing(i) \cup {p} /\ p \notin Failing(i)
      /\ \A j \in Instances \ {i} : Failing(j)' = Failing(j)
  BY <1>1 DEF Failing
<1>3. \A j \in Instances : at'[j]["starter"] # "none" <=> at[j]["starter"] # "none"
  BY <1>1, LabelNames
<1>4. Cardinality(Ending') = Cardinality(Ending) + 1
  <2>1. Ending' = Ending \cup {<<i, p>>} /\ <<i, p>> \notin Ending
    BY <1>1 DEF Ending
  <2> QED BY <2>1, FS_AddElement, CountedFinite
<1>5. Sleeping' = Sleeping
  BY DEF Sleeping
<1>6. CASE Failing(i) = {}
  <2>1. Live' = Live \ {i} /\ i \in Live
    BY <1>2, <1>3, <1>6 DEF Live
  <2>2. Failing(i) # Procs /\ Failing(i)' # Procs
    BY <1>2, <1>6, LabelNames
  <2>3. Forked' = Forked
    BY <1>2, <2>2 DEF Forked
  <2>4. Cardinality(Live') = Cardinality(Live) - 1
    BY <2>1, FS_RemoveElement, CountedFinite
  <2> QED BY <1>4, <1>5, <2>3, <2>4, CountedFinite DEF AgentsConserved
<1>7. CASE Failing(i) # {}
  <2>1. Live' = Live
    BY <1>2, <1>3, <1>7 DEF Live
  <2>2. Failing(i)' = Procs
    BY <1>2, <1>7 DEF Failing, Procs
  <2>3. Forked' = Forked \cup {i} /\ i \notin Forked
    BY <1>2, <2>2 DEF Forked
  <2>4. Cardinality(Forked') = Cardinality(Forked) + 1
    BY <2>3, FS_AddElement, CountedFinite
  <2> QED BY <1>4, <1>5, <2>1, <2>4, CountedFinite DEF AgentsConserved
<1> QED BY <1>6, <1>7

\* Reconnect: a goroutine in Stop becomes a sleeping one.
LEMMA CountsReconnect ==
  ASSUME IInv, AgentsConserved, NEW i \in Instances, NEW p \in Procs, Reconnect(i, p)
  PROVE  AgentsConserved'
<1>0. TypeOK /\ timers[i] \in 0..1
  BY DEF IInv, TimersInv, Reconnect, TypeOK
<1>1. /\ \A j \in Instances, q \in Procs :
           at'[j][q] = IF j = i /\ q = p THEN "gone" ELSE at[j][q]
      /\ at[i][p] \in Stopping /\ "gone" \notin Stopping
  BY <1>0, LabelNames, GotoType DEF Reconnect, Stopping
<1>2. \A j \in Instances : Failing(j)' = Failing(j)
  BY <1>1 DEF Failing
<1>3. \A j \in Instances : at'[j]["starter"] # "none" <=> at[j]["starter"] # "none"
  BY <1>1, LabelNames DEF Stopping
<1>4. Live' = Live /\ Forked' = Forked
  BY <1>2, <1>3 DEF Live, Forked
<1>5. Ending' = Ending \ {<<i, p>>} /\ <<i, p>> \in Ending
  BY <1>1 DEF Ending
<1>6. /\ timers'[i] = timers[i] + 1
      /\ \A j \in Instances \ {i} : timers'[j] = timers[j]
  BY <1>0 DEF Reconnect, TypeOK
<1>7. /\ Sleeping' = Sleeping \cup {<<i, timers[i] + 1>>}
      /\ <<i, timers[i] + 1>> \notin Sleeping
  BY <1>0, <1>6 DEF Sleeping
<1>8. /\ Cardinality(Ending') = Cardinality(Ending) - 1
      /\ Cardinality(Sleeping') = Cardinality(Sleeping) + 1
  BY <1>5, <1>7, FS_AddElement, FS_RemoveElement, CountedFinite
<1> QED BY <1>4, <1>8, CountedFinite DEF AgentsConserved

\* Wake: a sleeping goroutine becomes a live instance.
LEMMA CountsWake ==
  ASSUME IInv, AgentsConserved, NEW i \in Instances, Wake(i)
  PROVE  AgentsConserved'
<1>0. TypeOK /\ timers[i] \in 1..2
  BY DEF IInv, Wake, TypeOK
<1>1. PICK j \in Instances : /\ at[j]["starter"] = "none"
                             /\ at' = [at EXCEPT ![j]["starter"] = "dial"]
  BY DEF Wake
<1>2. /\ at'[j]["starter"] = "dial" /\ at'[j]["loop"] = at[j]["loop"]
      /\ \A k \in Instances \ {j} : at'[k] = at[k]
  BY <1>0, <1>1, LabelNames DEF TypeOK
<1>3. Failing(j) = {} /\ Failing(j)' = {}
  <2>1. at[j]["loop"] = "none"
    BY <1>1 DEF IInv, StartInv
  <2> QED BY <1>1, <1>2, <2>1 DEF Failing, Stopping, Procs
<1>4. \A k \in Instances : Failing(k)' = Failing(k)
  <2> SUFFICES ASSUME NEW k \in Instances PROVE Failing(k)' = Failing(k)
    OBVIOUS
  <2>1. CASE k = j
    BY <1>3, <2>1
  <2>2. CASE k # j
    BY <1>2, <2>2 DEF Failing
  <2> QED BY <2>1, <2>2
<1>5. Live' = Live \cup {j} /\ j \notin Live
  BY <1>1, <1>2, <1>3, <1>4 DEF Live
<1>6. Forked' = Forked
  BY <1>4 DEF Forked
<1>7. Ending' = Ending
  BY <1>1, <1>2 DEF Ending, Stopping, Procs
<1>8. /\ timers'[i] = timers[i] - 1
      /\ \A k \in Instances \ {i} : timers'[k] = timers[k]
  BY <1>0 DEF Wake, TypeOK
<1>9. Sleeping' = Sleeping \ {<<i, timers[i]>>} /\ <<i, timers[i]>> \in Sleeping
  BY <1>0, <1>8 DEF Sleeping
<1>10. /\ Cardinality(Live') = Cardinality(Live) + 1
       /\ Cardinality(Sleeping') = Cardinality(Sleeping) - 1
  BY <1>5, <1>9, FS_AddElement, FS_RemoveElement, CountedFinite
<1> QED BY <1>6, <1>7, <1>10, CountedFinite DEF AgentsConserved

\* Every step counts: what is neither a failure, a Reconnect nor a Wake moves
\* no goroutine into, through or out of Stop.
LEMMA CountsStep == IInv /\ AgentsConserved /\ [Next]_vars => AgentsConserved'
<1> SUFFICES ASSUME IInv, AgentsConserved, [Next]_vars PROVE AgentsConserved'
  OBVIOUS
<1>0. TypeOK
  BY DEF IInv
<1>1. ASSUME Live' = Live /\ Ending' = Ending /\ Sleeping' = Sleeping /\ Forked' = Forked
      PROVE  AgentsConserved'
  BY <1>1 DEF AgentsConserved
<1>2. ASSUME UNCHANGED <<at, timers>> PROVE AgentsConserved'
  <2>1. Live' = Live /\ Ending' = Ending /\ Sleeping' = Sleeping /\ Forked' = Forked
    BY <1>2, SameCounts
  <2> QED BY <1>1, <2>1
<1>3. ASSUME NEW i \in Instances, NEW p \in Procs, NEW l \in Labels, Goto(i, p, l),
             UNCHANGED timers, l \in Stopping <=> at[i][p] \in Stopping,
             l # "gone", at[i][p] # "gone", l # "none", at[i][p] # "none"
      PROVE  AgentsConserved'
  <2>1. \A j \in Instances, q \in Procs :
          at'[j][q] = IF j = i /\ q = p THEN l ELSE at[j][q]
    BY <1>0, <1>3, GotoType
  <2>2. Live' = Live /\ Ending' = Ending /\ Sleeping' = Sleeping /\ Forked' = Forked
    BY <1>3, <2>1, LabelNames, SameCounts
  <2> QED BY <1>1, <2>2
<1>4. CASE UNCHANGED vars
  BY <1>2, <1>4 DEF vars
<1>5. ASSUME NEW i \in Instances, Dial(i) PROVE AgentsConserved'
  <2>1. CASE at' = [at EXCEPT ![i]["starter"] = "update", ![i]["loop"] = "check"]
    <3>1. at[i]["starter"] = "dial" /\ at[i]["loop"] = "none"
      BY <1>5 DEF Dial, IInv, StartInv
    <3>2. /\ at'[i]["starter"] = "update" /\ at'[i]["loop"] = "check"
          /\ \A j \in Instances \ {i} : at'[j] = at[j]
      BY <1>0, <2>1, LabelNames DEF TypeOK
    <3>3. Live' = Live /\ Ending' = Ending /\ Sleeping' = Sleeping /\ Forked' = Forked
      <4>1. UNCHANGED timers
        BY <1>5 DEF Dial
      <4>2. \A j \in Instances, q \in Procs :
              /\ at'[j][q] \in Stopping <=> at[j][q] \in Stopping
              /\ at'[j][q] = "gone" <=> at[j][q] = "gone"
        BY <3>1, <3>2 DEF Procs, Stopping
      <4>3. \A j \in Instances : at'[j]["starter"] # "none" <=> at[j]["starter"] # "none"
        BY <3>1, <3>2
      <4> QED BY <4>1, <4>2, <4>3, SameCounts
    <3> QED BY <1>1, <3>3
  <2>2. CASE Goto(i, "starter", "stop")
    BY <1>5, <2>2, LabelNames, CountsFail DEF Dial, Stopping
  <2> QED BY <1>5, <2>1, <2>2 DEF Dial
<1>6. ASSUME NEW i \in Instances, Update(i) PROVE AgentsConserved'
  <2>1. CASE Goto(i, "starter", "ended")
    BY <1>3, <1>6, <2>1, LabelNames DEF Update, Stopping
  <2>2. CASE Goto(i, "starter", "stop")
    BY <1>6, <2>2, LabelNames, CountsFail DEF Update, Stopping
  <2> QED BY <1>6, <2>1, <2>2 DEF Update
<1>7. ASSUME NEW i \in Instances, Check(i) \/ \E r \in Requests : Accept(i, r)
      PROVE  AgentsConserved'
  <2>1. PICK l \in {"ended", "accept", "check"} : Goto(i, "loop", l)
    BY <1>7 DEF Check, Accept
  <2>2. at[i]["loop"] \in {"check", "accept"} /\ UNCHANGED timers
    BY <1>7 DEF Check, Accept
  <2> QED BY <1>3, <2>1, <2>2, LabelNames DEF Stopping
<1>8. ASSUME NEW i \in Instances, AcceptError(i) PROVE AgentsConserved'
  <2>1. at[i]["starter"] # "none" /\ at[i]["loop"] = "accept"
    BY <1>8 DEF AcceptError, IInv, StartInv
  <2> QED BY <1>8, <2>1, LabelNames, CountsFail DEF AcceptError, Stopping
<1>9. ASSUME NEW i \in Instances,
             \/ Disconnect(i) \/ GottyEnds(i) \/ FieldStep(i)
             \/ \E r \in Requests : HandlerStep(i, r)
      PROVE  AgentsConserved'
  <2>1. UNCHANGED <<at, timers>>
    BY <1>9 DEF Disconnect, GottyEnds, FieldStep, SetNovnc, SetFilebrowser, SetServer,
                HandlerStep, MakeForward, StartFeature, AddTunnel, RemoveTunnel, reqVars
  <2> QED BY <1>2, <2>1
<1>10. ASSUME NEW i \in Instances, NEW p \in Procs, StopForwards(i, p) \/ StopServers(i, p)
       PROVE  AgentsConserved'
  <2>1. PICK l \in {"novnc", "filebrowser", "cancel"} : Goto(i, p, l)
    BY <1>10 DEF StopForwards, StopServers, StopServer
  <2>2. at[i][p] \in Stopping /\ UNCHANGED timers
    BY <1>10 DEF StopForwards, StopServers, StopServer, Stopping
  <2> QED BY <1>3, <2>1, <2>2, LabelNames DEF Stopping
<1>11. ASSUME NEW i \in Instances, NEW p \in Procs, Reconnect(i, p) PROVE AgentsConserved'
  BY <1>11, CountsReconnect
<1>12. ASSUME NEW i \in Instances, Wake(i) PROVE AgentsConserved'
  BY <1>12, CountsWake
<1> QED
  BY <1>4, <1>5, <1>6, <1>7, <1>8, <1>9, <1>10, <1>11, <1>12 DEF Next, StopStep

\* The first instance is the one agent there is.
LEMMA CountsInit == Init => AgentsConserved
<1> SUFFICES ASSUME Init PROVE AgentsConserved
  OBVIOUS
<1>1. 1 \in Instances
  BY InstancesAssumption DEF Instances
<1>2. \A i \in Instances : Failing(i) = {}
  BY DEF Init, Failing, Stopping
<1>3. Live = {1}
  BY <1>1, <1>2, LabelNames DEF Init, Live
<1>4. Forked = {}
  BY <1>2, LabelNames DEF Forked
<1>5. Ending = {} /\ Sleeping = {}
  BY DEF Init, Ending, Sleeping, Stopping
<1> QED BY <1>3, <1>4, <1>5, FS_EmptySet, FS_Singleton DEF AgentsConserved

\* Agents are conserved: for every number of instances, what is usable, in Stop
\* or asleep is one agent, and one more for each instance that failed twice.
THEOREM AgentsConservedHolds == Spec => []AgentsConserved
  BY IInvHolds, CountsInit, CountsStep, PTL DEF Spec
=============================================================================
