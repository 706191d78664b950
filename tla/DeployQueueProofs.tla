-------------------------- MODULE DeployQueueProofs --------------------------
(* The deployment queue keeps its promise for any number of stacks, hosts,  *)
(* goroutines, overlapping polls, deployments and restarts.                 *)
EXTENDS DeployQueue, TLAPS

USE DeployQueueAssumption DEF Dep, HostId, Finished, Busy

(* Nothing has happened yet: the first state satisfies the invariant.       *)
LEMMA InitIInv == Init => IInv
<1> SUFFICES ASSUME Init PROVE IInv
    OBVIOUS
<1> USE DEF Init, NoReq, NoPoll, NoRow
<1>1. TypeOK
    BY DEF TypeOK, Row, ReqState, Kind, Enqueuers, PollState
<1>2. FreshRows /\ RequestHasStack /\ HandedHasHost
    BY DEF FreshRows, RequestHasStack, HandedHasHost
<1>3. PollOwnsRow /\ SelectedIsOldest /\ ClaimedIsRunning /\ ClaimedOnce
    BY DEF PollOwnsRow, SelectedIsOldest, ClaimedIsRunning, ClaimedOnce
<1>4. HandedVerdict
    BY DEF HandedVerdict
<1> QED
    BY <1>1, <1>2, <1>3, <1>4 DEF IInv

(* The parts of the invariant that only speak of tables and agents follow   *)
(* from these variables alone: a goroutine's private step keeps them all.   *)
LEMMA PrivateStep ==
    ASSUME IInv, UNCHANGED <<deps, nextDep, poll, agentVars>>,
           req' \in [Req -> ReqState], RequestHasStack',
           stacks' \subseteq Stack, stackHost' \in [Stack -> HostId], keys' \subseteq Stack,
           crashes' = crashes
    PROVE  IInv'
BY DEF IInv, agentVars, TypeOK, FreshRows, HandedHasHost, PollOwnsRow, SelectedIsOldest,
       ClaimedIsRunning, ClaimedOnce, HandedVerdict

(* A goroutine that is given a well-formed state leaves all well formed.    *)
LEMMA SetReq ==
    ASSUME IInv, NEW r \in Req, NEW x \in ReqState,
           x.pc # "idle" => x.stack \in Stack,
           req' = [req EXCEPT ![r] = x]
    PROVE  req' \in [Req -> ReqState] /\ RequestHasStack'
BY DEF IInv, TypeOK, RequestHasStack

(* A request that ends leaves all goroutines well formed ...                *)
LEMMA SetDone ==
    ASSUME IInv, NEW r \in Req, Done(r)
    PROVE  req' \in [Req -> ReqState] /\ RequestHasStack'
<1>1. NoReq \in ReqState /\ NoReq.pc = "idle"
    BY DEF NoReq, ReqState, Kind, Enqueuers
<1> QED
    BY <1>1, SetReq DEF Done

(* ... and so does one that goes on to its next statement.                  *)
LEMMA SetGoto ==
    ASSUME IInv, NEW r \in Req, req[r].pc # "idle",
           NEW to \in {"check", "enqueue", "delkeys", "delrow", "insert"}, Goto(r, to)
    PROVE  req' \in [Req -> ReqState] /\ RequestHasStack'
<1> DEFINE x == [req[r] EXCEPT !.pc = to]
<1>1. req[r] \in ReqState /\ req[r].stack \in Stack
    BY DEF IInv, TypeOK, RequestHasStack
<1>2. x \in ReqState /\ x.stack \in Stack
    BY <1>1 DEF ReqState
<1>3. req' = [req EXCEPT ![r] = x]
    BY DEF Goto
<1> QED
    BY <1>2, <1>3, SetReq

(* Goroutines of the UI, the webhook receiver and the pollers.              *)
LEMMA HandlerIInv == ASSUME IInv, NEW r \in Req, Handler(r) PROVE IInv'
<1> USE DEF agentVars, stackVars, depVars
<1>0. TypeOK /\ req[r] \in ReqState /\ (req[r].pc # "idle" => req[r].stack \in Stack)
    BY DEF IInv, TypeOK, RequestHasStack
<1>1. ASSUME NEW k \in Kind, NEW s \in Stack, LoadStack(r, k, s) PROVE IInv'
    <2> DEFINE x == [pc |-> IF k = "apply" THEN "check" ELSE "enqueue",
                     kind |-> k, stack |-> s, host |-> stackHost[s]]
    <2>1. x \in ReqState /\ x.stack \in Stack
        BY <1>0 DEF ReqState, TypeOK
    <2>2. req' = [req EXCEPT ![r] = x]
        BY <1>1 DEF LoadStack
    <2>3. req' \in [Req -> ReqState] /\ RequestHasStack'
        BY <2>1, <2>2, SetReq
    <2> QED
        BY <1>0, <1>1, <2>3, PrivateStep DEF LoadStack, TypeOK
<1>2. ASSUME NEW s \in Stack, NEW k \in Kind, NEW to \in {"load", "check", "insert"},
             req' = [req EXCEPT ![r] = [pc |-> to, kind |-> k, stack |-> s, host |-> None]]
      PROVE  req' \in [Req -> ReqState] /\ RequestHasStack'
    <2> DEFINE x == [pc |-> to, kind |-> k, stack |-> s, host |-> None]
    <2>1. x \in ReqState /\ x.stack \in Stack
        BY DEF ReqState
    <2> QED
        BY <1>2, <2>1, SetReq
<1>3. ASSUME NEW s \in Stack, AutoCheck(r, s) PROVE IInv'
    BY <1>0, <1>2, <1>3, PrivateStep DEF AutoCheck, TypeOK, Kind, Enqueuers
<1>4. ASSUME NEW s \in Stack, CreateKeys(r, s) PROVE IInv'
    BY <1>0, <1>2, <1>4, PrivateStep DEF CreateKeys, TypeOK, Kind
<1>5. ASSUME NEW s \in Stack, DeleteLoad(r, s) PROVE IInv'
    BY <1>0, <1>2, <1>5, PrivateStep DEF DeleteLoad, TypeOK, Kind
<1>6. CASE ApplyCheck(r)
    BY <1>0, <1>6, SetDone, SetGoto, PrivateStep DEF ApplyCheck, TypeOK
<1>7. CASE AutoLoad(r)
    <2> DEFINE x == [req[r] EXCEPT !.pc = "enqueue", !.host = stackHost[req[r].stack]]
    <2>1. CASE Done(r)
        BY <1>0, <1>7, <2>1, SetDone, PrivateStep DEF AutoLoad, TypeOK
    <2>2. CASE ~Done(r)
        <3>1. req' = [req EXCEPT ![r] = x] /\ req[r].stack \in Stack
            BY <1>0, <1>7, <2>2 DEF AutoLoad
        <3>2. x \in ReqState /\ x.stack \in Stack
            BY <1>0, <3>1 DEF ReqState, TypeOK
        <3>3. req' \in [Req -> ReqState] /\ RequestHasStack'
            BY <3>1, <3>2, SetReq
        <3> QED
            BY <1>0, <1>7, <3>3, PrivateStep DEF AutoLoad, TypeOK
    <2> QED
        BY <2>1, <2>2
<1>8. CASE EnqueueFails(r) \/ CreateFails(r)
    BY <1>0, <1>8, SetDone, PrivateStep DEF EnqueueFails, CreateFails, TypeOK
<1>9. CASE EnqueueDeployment(r)
    <2> DEFINE row == [stack |-> req[r].stack, host |-> req[r].host, status |-> "queued",
                       action |-> IF req[r].kind = "undeploy" THEN "down" ELSE "up"]
    <2>1. /\ nextDep \in Dep /\ nextDep' = nextDep + 1
          /\ deps' = [deps EXCEPT ![nextDep] = row]
          /\ UNCHANGED <<stackVars, poll, agentVars, crashes>>
        BY <1>9 DEF EnqueueDeployment
    <2>2. req' \in [Req -> ReqState] /\ RequestHasStack'
        BY <1>9, SetDone DEF EnqueueDeployment
    <2>3. row \in Row
        BY <1>0, <1>9 DEF EnqueueDeployment, Row, ReqState
    <2>4. TypeOK'
        BY <1>0, <2>1, <2>2, <2>3 DEF TypeOK
    <2>5. deps[nextDep].status = "none" /\ outcome[nextDep] = "none" /\ nextDep \notin handed
        BY <2>1, <1>0 DEF IInv, FreshRows, TypeOK
    <2>6. /\ deps \in [Dep -> Row]
          /\ \A d \in Dep : d # nextDep => deps'[d] = deps[d]
          /\ deps'[nextDep].status = "queued"
        BY <1>0, <2>1 DEF TypeOK
    <2>7. FreshRows' /\ HandedHasHost' /\ HandedVerdict'
        BY <1>0, <2>1, <2>5, <2>6 DEF IInv, FreshRows, HandedHasHost, HandedVerdict, TypeOK
    <2>8. PollOwnsRow' /\ ClaimedIsRunning' /\ ClaimedOnce'
        BY <1>0, <2>1, <2>6 DEF IInv, PollOwnsRow, ClaimedIsRunning, ClaimedOnce, TypeOK, PollState
    <2>9. SelectedIsOldest'
        BY <1>0, <2>1, <2>6 DEF IInv, PollOwnsRow, SelectedIsOldest, TypeOK, PollState
    <2> QED
        BY <2>2, <2>4, <2>7, <2>8, <2>9 DEF IInv
<1>10. ASSUME NEW h \in HostId, CreateRow(r, h) PROVE IInv'
    BY <1>0, <1>10, SetDone, PrivateStep DEF CreateRow, TypeOK
<1>11. CASE DeleteCheck(r)
    BY <1>0, <1>11, SetDone, SetGoto, PrivateStep DEF DeleteCheck, TypeOK
<1>12. CASE DeleteKeys(r)
    BY <1>0, <1>12, SetGoto, PrivateStep DEF DeleteKeys, TypeOK
<1>13. CASE DeleteRow(r)
    <2>1. req' \in [Req -> ReqState] /\ RequestHasStack'
        BY <1>13, SetDone DEF DeleteRow
    <2>2. /\ stacks' \subseteq stacks
          /\ UNCHANGED <<stackHost, keys, nextDep, poll, agentVars, crashes>>
        BY <1>13 DEF DeleteRow
    <2>3. \/ deps' = deps
          \/ deps' = [d \in Dep |-> IF deps[d].stack = req[r].stack
                                     THEN Deleted(deps[d]) ELSE deps[d]]
        BY <1>13 DEF DeleteRow
    <2>4. /\ deps' \in [Dep -> Row]
          /\ \A d \in Dep : /\ deps'[d].host = deps[d].host
                            /\ deps'[d].status \in {deps[d].status, "none"}
        <3>1. ASSUME NEW row \in Row
              PROVE  /\ Deleted(row) \in Row
                     /\ Deleted(row).host = row.host
                     /\ Deleted(row).status = "none"
            BY <3>1 DEF Row, Deleted
        <3>2. deps \in [Dep -> Row]
            BY <1>0 DEF TypeOK
        <3> QED
            BY <2>3, <3>1, <3>2
    <2>5. TypeOK'
        BY <1>0, <2>1, <2>2, <2>4 DEF TypeOK
    <2>6. FreshRows' /\ HandedHasHost' /\ HandedVerdict'
        BY <1>0, <2>2, <2>4 DEF IInv, FreshRows, HandedHasHost, HandedVerdict, TypeOK
    <2>7. PollOwnsRow' /\ ClaimedOnce'
        BY <1>0, <2>2, <2>4 DEF IInv, PollOwnsRow, ClaimedOnce
    <2>8. ClaimedIsRunning'
        BY <1>0, <2>2, <2>4 DEF IInv, PollOwnsRow, ClaimedIsRunning
    <2>9. SelectedIsOldest'
        BY <1>0, <2>2, <2>4 DEF IInv, SelectedIsOldest
    <2> QED
        BY <2>1, <2>5, <2>6, <2>7, <2>8, <2>9 DEF IInv
<1> QED
    BY <1>1, <1>3, <1>4, <1>5, <1>6, <1>7, <1>8, <1>9, <1>10, <1>11, <1>12, <1>13 DEF Handler

(* The status of a row is all that a claim or a report changes.             *)
LEMMA SetStatus ==
    ASSUME IInv, NEW d \in Dep, NEW s \in Busy \union Finished,
           deps' = [deps EXCEPT ![d].status = s]
    PROVE  /\ deps' \in [Dep -> Row]
           /\ \A e \in Dep : deps'[e].host = deps[e].host
           /\ \A e \in Dep : e # d => deps'[e] = deps[e]
           /\ deps'[d].status = s
<1> DEFINE row == [deps[d] EXCEPT !.status = s]
<1>1. deps \in [Dep -> Row]
    BY DEF IInv, TypeOK
<1>2. row \in Row /\ row.host = deps[d].host /\ row.status = s
    BY <1>1 DEF Row
<1>3. deps' = [deps EXCEPT ![d] = row]
    OBVIOUS
<1> QED
    BY <1>1, <1>2, <1>3

(* Moving one poll on, or ending it, touches no other poll.                 *)
LEMMA SetPoll ==
    ASSUME IInv, NEW h \in Host, NEW i \in Slot, NEW x \in PollState,
           PollTo(h, i, x)
    PROVE  /\ poll' \in [Host -> [Slot -> PollState]]
           /\ poll'[h][i] = x
           /\ \A g \in Host, j \in Slot : (g # h \/ j # i) => poll'[g][j] = poll[g][j]
<1> DEFINE row == [poll[h] EXCEPT ![i] = x]
<1>1. poll \in [Host -> [Slot -> PollState]]
    BY DEF IInv, TypeOK
<1>2. poll' = [poll EXCEPT ![h] = row]
    BY DEF PollTo
<1>3. /\ row \in [Slot -> PollState]
      /\ row[i] = x
      /\ \A j \in Slot : j # i => row[j] = poll[h][j]
    BY <1>1
<1> HIDE DEF row
<1>4. /\ poll' \in [Host -> [Slot -> PollState]]
      /\ poll'[h] = row
      /\ \A g \in Host : g # h => poll'[g] = poll[g]
    BY <1>1, <1>2, <1>3
<1> QED
    BY <1>3, <1>4

(* A poll that is over is a poll in its first state.                        *)
LEMMA NoPollOK == NoPoll \in PollState /\ NoPoll.pc = "idle"
BY DEF NoPoll, PollState

(* A poll that ends without a trace in the tables.                          *)
LEMMA EndPoll ==
    ASSUME IInv, NEW h \in Host, NEW i \in Slot,
           PollTo(h, i, NoPoll),
           UNCHANGED <<stackVars, depVars, req, agentVars, crashes>>
    PROVE  IInv'
<1> USE DEF agentVars, stackVars, depVars
<1>2. /\ poll' \in [Host -> [Slot -> PollState]]
      /\ poll'[h][i].pc = "idle"
      /\ \A g \in Host, j \in Slot : (g # h \/ j # i) => poll'[g][j] = poll[g][j]
    BY NoPollOK, SetPoll
<1>3. TypeOK' /\ FreshRows' /\ RequestHasStack' /\ HandedHasHost' /\ HandedVerdict'
    BY <1>2 DEF IInv, TypeOK, FreshRows, RequestHasStack, HandedHasHost, HandedVerdict
<1>4. \A g \in Host, j \in Slot :
         poll'[g][j].pc # "idle" => (g # h \/ j # i) /\ poll'[g][j] = poll[g][j]
    BY <1>2
<1>5. PollOwnsRow'
    BY <1>4 DEF IInv, PollOwnsRow
<1>6. SelectedIsOldest'
    BY <1>4 DEF IInv, SelectedIsOldest
<1>7. ClaimedIsRunning'
    BY <1>4 DEF IInv, ClaimedIsRunning
<1>8. ClaimedOnce'
    BY <1>4 DEF IInv, ClaimedOnce
<1> QED
    BY <1>3, <1>5, <1>6, <1>7, <1>8 DEF IInv

(* Command polls.                                                           *)
LEMMA CommandsIInv == ASSUME IInv, NEW h \in Host, NEW i \in Slot, Commands(h, i) PROVE IInv'
<1> USE DEF agentVars, stackVars, depVars
<1> DEFINE d == poll[h][i].dep
<1>0. TypeOK /\ poll[h][i] \in PollState
    BY DEF IInv, TypeOK
<1>1. CASE ClaimSelect(h, i)
    <2>1. PICK e \in QueueOf(h) :
              /\ \A f \in QueueOf(h) : e <= f
              /\ PollTo(h, i, [pc |-> "selected", dep |-> e])
        BY <1>1 DEF ClaimSelect
    <2>2. /\ e \in Dep /\ e < nextDep
          /\ deps[e].host = h
          /\ \A f \in Dep : f < e /\ deps[f].host = h => deps[f].status # "queued"
        BY <2>1, <1>0 DEF QueueOf, IInv, FreshRows, TypeOK
    <2>3. [pc |-> "selected", dep |-> e] \in PollState
        BY <2>2 DEF PollState
    <2>4. /\ poll' \in [Host -> [Slot -> PollState]]
          /\ poll'[h][i] = [pc |-> "selected", dep |-> e]
          /\ \A g \in Host, j \in Slot : (g # h \/ j # i) => poll'[g][j] = poll[g][j]
        BY <2>1, <2>3, SetPoll
    <2>5. UNCHANGED <<stackVars, depVars, req, agentVars, crashes>>
        BY <1>1 DEF ClaimSelect
    <2>6. TypeOK' /\ FreshRows' /\ RequestHasStack' /\ HandedHasHost' /\ HandedVerdict'
        BY <2>4, <2>5 DEF IInv, TypeOK, FreshRows, RequestHasStack, HandedHasHost, HandedVerdict
    <2>7. PollOwnsRow'
        BY <2>2, <2>4, <2>5 DEF IInv, PollOwnsRow
    <2>8. SelectedIsOldest'
        BY <2>2, <2>4, <2>5 DEF IInv, SelectedIsOldest
    <2>9. ClaimedIsRunning' /\ ClaimedOnce'
        <3>1. \A g \in Host, j \in Slot : poll'[g][j].pc = "claimed" => poll'[g][j] = poll[g][j]
            BY <2>4
        <3> QED
            BY <3>1, <2>5 DEF IInv, ClaimedIsRunning, ClaimedOnce
    <2> QED
        BY <2>6, <2>7, <2>8, <2>9 DEF IInv
<1>2. CASE ClaimUpdate(h, i)
    <2>1. d \in Dep /\ d < nextDep /\ deps[d].host = h
        BY <1>2 DEF ClaimUpdate, IInv, PollOwnsRow
    <2>2. CASE deps[d].status # "queued"
        BY <1>2, <2>2, EndPoll DEF ClaimUpdate
    <2>3. CASE deps[d].status = "queued"
        <3>1. /\ deps' = [deps EXCEPT ![d].status = "running"]
              /\ PollTo(h, i, [pc |-> "claimed", dep |-> d])
              /\ UNCHANGED <<stackVars, nextDep, req, agentVars, crashes>>
            BY <1>2, <2>3 DEF ClaimUpdate
        <3>2. /\ deps' \in [Dep -> Row]
              /\ \A e \in Dep : deps'[e].host = deps[e].host
              /\ \A e \in Dep : e # d => deps'[e] = deps[e]
              /\ deps'[d].status = "running"
            BY <2>1, <3>1, SetStatus
        <3>3. [pc |-> "claimed", dep |-> d] \in PollState
            BY <1>0 DEF PollState
        <3>5. /\ poll' \in [Host -> [Slot -> PollState]]
              /\ poll'[h][i] = [pc |-> "claimed", dep |-> d]
              /\ \A g \in Host, j \in Slot : (g # h \/ j # i) => poll'[g][j] = poll[g][j]
            BY <3>1, <3>3, SetPoll
        <3>6. d \notin handed /\ outcome[d] = "none"
            BY <2>1, <2>3, <1>0 DEF IInv, HandedVerdict, TypeOK
        <3>7. \A g \in Host, j \in Slot : poll[g][j].pc = "claimed" => poll[g][j].dep # d
            BY <2>3 DEF IInv, ClaimedIsRunning
        <3>8. TypeOK' /\ FreshRows' /\ RequestHasStack'
            BY <2>1, <3>1, <3>2, <3>5, <1>0 DEF IInv, TypeOK, FreshRows, RequestHasStack
        <3>9. HandedHasHost' /\ HandedVerdict'
            BY <1>0, <3>1, <3>2, <3>6 DEF IInv, TypeOK, HandedHasHost, HandedVerdict
        <3>10. PollOwnsRow'
            BY <2>1, <3>1, <3>2, <3>5 DEF IInv, PollOwnsRow
        <3>11. SelectedIsOldest'
            BY <3>2, <3>5 DEF IInv, SelectedIsOldest
        <3>12. ClaimedIsRunning'
            BY <3>1, <3>2, <3>5, <3>6, <3>7 DEF IInv, PollOwnsRow, ClaimedIsRunning
        <3>13. ClaimedOnce'
            BY <3>5, <3>7 DEF IInv, ClaimedOnce
        <3> QED
            BY <3>8, <3>9, <3>10, <3>11, <3>12, <3>13 DEF IInv
    <2> QED
        BY <2>2, <2>3
<1>3. CASE CommandFails(h, i)
    <2>1. /\ d \in Dep /\ d < nextDep /\ deps[d].host = h
          /\ deps[d].status \in {"running", "none"} /\ d \notin handed
        BY <1>3 DEF CommandFails, IInv, PollOwnsRow, ClaimedIsRunning
    <2>2. /\ PollTo(h, i, NoPoll)
          /\ UNCHANGED <<stackVars, nextDep, req, agentVars, crashes>>
        BY <1>3 DEF CommandFails
    <2>3. CASE deps' = deps
        BY <2>2, <2>3, EndPoll
    <2>4. CASE deps' = [deps EXCEPT ![d].status = "failed"] /\ Exists(d)
        <3>1. /\ deps' \in [Dep -> Row]
              /\ \A e \in Dep : deps'[e].host = deps[e].host
              /\ \A e \in Dep : e # d => deps'[e] = deps[e]
              /\ deps'[d].status = "failed"
            BY <2>1, <2>4, SetStatus
        <3>2. /\ poll' \in [Host -> [Slot -> PollState]]
              /\ poll'[h][i].pc = "idle"
              /\ \A g \in Host, j \in Slot : (g # h \/ j # i) => poll'[g][j] = poll[g][j]
            BY <2>2, NoPollOK, SetPoll
        <3>3. \A g \in Host, j \in Slot :
                 poll'[g][j].pc = "claimed" => poll'[g][j] = poll[g][j] /\ poll[g][j].dep # d
            BY <1>3, <2>1, <3>2 DEF CommandFails, IInv, PollOwnsRow, ClaimedOnce
        <3>4. TypeOK' /\ FreshRows' /\ RequestHasStack'
            BY <1>0, <2>1, <2>2, <3>1, <3>2 DEF IInv, TypeOK, FreshRows, RequestHasStack
        <3>5. HandedHasHost' /\ HandedVerdict'
            BY <1>0, <2>1, <2>2, <3>1 DEF IInv, TypeOK, HandedHasHost, HandedVerdict
        <3>6. PollOwnsRow'
            BY <2>1, <2>2, <3>1, <3>2 DEF IInv, PollOwnsRow
        <3>7. SelectedIsOldest'
            BY <3>1, <3>2 DEF IInv, SelectedIsOldest
        <3>8. ClaimedIsRunning'
            BY <2>2, <3>1, <3>3 DEF IInv, PollOwnsRow, ClaimedIsRunning
        <3>9. ClaimedOnce'
            BY <3>3 DEF IInv, ClaimedOnce
        <3> QED
            BY <3>4, <3>5, <3>6, <3>7, <3>8, <3>9 DEF IInv
    <2> QED
        BY <1>3, <2>3, <2>4 DEF CommandFails, CompleteDeployment
<1>4. CASE CommandSent(h, i)
    <2>1. /\ d \in Dep /\ d < nextDep /\ deps[d].host = h
          /\ deps[d].status \in {"running", "none"} /\ d \notin handed
        BY <1>4 DEF CommandSent, IInv, PollOwnsRow, ClaimedIsRunning
    <2>2. /\ PollTo(h, i, NoPoll)
          /\ handed' = handed \union {d}
          /\ UNCHANGED <<stackVars, depVars, req, outcome, up, crashes>>
        BY <1>4 DEF CommandSent
    <2>3. /\ poll' \in [Host -> [Slot -> PollState]]
          /\ poll'[h][i].pc = "idle"
          /\ \A g \in Host, j \in Slot : (g # h \/ j # i) => poll'[g][j] = poll[g][j]
        BY <2>2, NoPollOK, SetPoll
    <2>4. \A g \in Host, j \in Slot :
             poll'[g][j].pc = "claimed" => poll'[g][j] = poll[g][j] /\ poll[g][j].dep # d
        BY <1>4, <2>1, <2>3 DEF CommandSent, IInv, PollOwnsRow, ClaimedOnce
    <2>5. TypeOK' /\ RequestHasStack'
        BY <1>0, <2>1, <2>2, <2>3 DEF IInv, TypeOK, RequestHasStack
    <2>9. FreshRows'
        <3>1. nextDep \in Nat /\ d \in Nat
            BY <1>0, <2>1 DEF TypeOK
        <3> HIDE DEF d
        <3> QED
            BY <2>1, <2>2, <3>1 DEF IInv, FreshRows
    <2>6. HandedHasHost' /\ HandedVerdict'
        BY <1>0, <2>1, <2>2 DEF IInv, TypeOK, HandedHasHost, HandedVerdict
    <2>7. PollOwnsRow' /\ SelectedIsOldest'
        <3>1. \A g \in Host, j \in Slot :
                 poll'[g][j].pc # "idle" => poll'[g][j] = poll[g][j]
            BY <2>3
        <3>2. PollOwnsRow'
            BY <2>2, <3>1 DEF IInv, PollOwnsRow
        <3>3. SelectedIsOldest'
            BY <2>2, <3>1 DEF IInv, SelectedIsOldest
        <3> QED
            BY <3>2, <3>3
    <2>8. ClaimedIsRunning' /\ ClaimedOnce'
        <3> HIDE DEF d
        <3>1. ClaimedIsRunning'
            BY <2>2, <2>4 DEF IInv, ClaimedIsRunning
        <3>2. ClaimedOnce'
            BY <2>4 DEF IInv, ClaimedOnce
        <3> QED
            BY <3>1, <3>2
    <2> QED
        BY <2>5, <2>6, <2>7, <2>8, <2>9 DEF IInv
<1>5. CASE CommandLost(h, i)
    BY <1>5, EndPoll DEF CommandLost
<1> QED
    BY <1>1, <1>2, <1>3, <1>4, <1>5 DEF Commands

(* The agent runs what it was handed and reports what it saw.               *)
LEMMA AgentIInv == ASSUME IInv, Agent PROVE IInv'
<1> USE DEF agentVars, stackVars, depVars
<1>0. TypeOK
    BY DEF IInv
<1>1. ASSUME NEW d \in Dep, NEW s \in Finished, AgentRuns(d, s) PROVE IInv'
    <2>1. /\ d \in handed /\ outcome[d] = "none"
          /\ outcome' = [outcome EXCEPT ![d] = s]
          /\ UNCHANGED <<stackVars, depVars, req, poll, handed, crashes>>
        BY <1>1 DEF AgentRuns
    <2>2. d < nextDep /\ deps[d].host \in Host
        BY <1>0, <2>1 DEF IInv, FreshRows, HandedHasHost, TypeOK
    <2>3. up' \in [Stack -> SUBSET Host]
        BY <1>0, <1>1, <2>2 DEF AgentRuns, TypeOK
    <2>4. TypeOK' /\ RequestHasStack' /\ HandedHasHost'
        BY <1>0, <2>1, <2>3 DEF IInv, TypeOK, RequestHasStack, HandedHasHost
    <2>5. FreshRows' /\ HandedVerdict'
        BY <1>0, <2>1, <2>2 DEF IInv, TypeOK, FreshRows, HandedVerdict
    <2>6. PollOwnsRow' /\ SelectedIsOldest' /\ ClaimedIsRunning' /\ ClaimedOnce'
        BY <2>1 DEF IInv, PollOwnsRow, SelectedIsOldest, ClaimedIsRunning, ClaimedOnce
    <2> QED
        BY <2>4, <2>5, <2>6 DEF IInv
<1>2. ASSUME NEW d \in Dep, ReportResult(d) PROVE IInv'
    <2>1. /\ outcome[d] # "none" /\ outcome[d] \in Finished /\ Exists(d)
          /\ deps' = [deps EXCEPT ![d].status = outcome[d]]
          /\ UNCHANGED <<stackVars, nextDep, req, poll, agentVars, crashes>>
        BY <1>0, <1>2 DEF ReportResult, CompleteDeployment, TypeOK
    <2>2. d \in handed /\ d < nextDep
        BY <1>0, <2>1 DEF IInv, HandedVerdict, FreshRows, TypeOK
    <2>3. /\ deps' \in [Dep -> Row]
          /\ \A e \in Dep : deps'[e].host = deps[e].host
          /\ \A e \in Dep : e # d => deps'[e] = deps[e]
          /\ deps'[d].status = outcome[d]
        BY <2>1, SetStatus
    <2>4. TypeOK' /\ RequestHasStack' /\ HandedHasHost'
        BY <1>0, <2>1, <2>3 DEF IInv, TypeOK, RequestHasStack, HandedHasHost
    <2>5. FreshRows' /\ HandedVerdict'
        BY <1>0, <2>1, <2>2, <2>3 DEF IInv, TypeOK, FreshRows, HandedVerdict
    <2>6. PollOwnsRow'
        BY <2>1, <2>3 DEF IInv, PollOwnsRow
    <2>7. SelectedIsOldest'
        BY <2>1, <2>3 DEF IInv, SelectedIsOldest
    <2>8. ClaimedIsRunning' /\ ClaimedOnce'
        BY <2>1, <2>2, <2>3 DEF IInv, PollOwnsRow, ClaimedIsRunning, ClaimedOnce
    <2> QED
        BY <2>4, <2>5, <2>6, <2>7, <2>8 DEF IInv
<1> QED
    BY <1>1, <1>2 DEF Agent

(* A restart takes the goroutines and leaves the tables.                    *)
LEMMA RestartIInv == ASSUME IInv, Restart PROVE IInv'
<1> USE DEF agentVars, stackVars, depVars
<1>1. NoReq \in ReqState /\ NoReq.pc = "idle"
    BY DEF NoReq, ReqState, Kind, Enqueuers
<1>2. /\ req' = [r \in Req |-> NoReq]
      /\ poll' = [h \in Host |-> [i \in Slot |-> NoPoll]]
      /\ crashes < MaxCrashes /\ crashes' = crashes + 1
      /\ UNCHANGED <<stackVars, depVars, agentVars>>
    BY DEF Restart
<1>3. \A h \in Host, i \in Slot : poll'[h][i].pc = "idle"
    BY <1>2, NoPollOK
<1>4. poll' \in [Host -> [Slot -> PollState]]
    BY <1>2, NoPollOK
<1>5. TypeOK'
    BY <1>1, <1>2, <1>4 DEF IInv, TypeOK
<1>6. FreshRows' /\ RequestHasStack' /\ HandedHasHost' /\ HandedVerdict'
    BY <1>1, <1>2 DEF IInv, FreshRows, RequestHasStack, HandedHasHost, HandedVerdict
<1>7. PollOwnsRow' /\ SelectedIsOldest' /\ ClaimedIsRunning' /\ ClaimedOnce'
    BY <1>3 DEF PollOwnsRow, SelectedIsOldest, ClaimedIsRunning, ClaimedOnce
<1> QED
    BY <1>5, <1>6, <1>7 DEF IInv

(* Every step keeps the invariant.                                          *)
LEMMA NextIInv == IInv /\ [Next]_vars => IInv'
<1> SUFFICES ASSUME IInv, [Next]_vars PROVE IInv'
    OBVIOUS
<1>1. CASE UNCHANGED vars
    BY <1>1 DEF vars, IInv, TypeOK, FreshRows, RequestHasStack, HandedHasHost, PollOwnsRow,
                SelectedIsOldest, ClaimedIsRunning, ClaimedOnce, HandedVerdict
<1>2. CASE Next
    BY <1>2, HandlerIInv, CommandsIInv, AgentIInv, RestartIInv DEF Next
<1> QED
    BY <1>1, <1>2

(* IInv is an invariant of the queue.                                       *)
THEOREM QueueInvariant == Spec => []IInv
<1>1. Init => IInv
    BY InitIInv
<1>2. IInv /\ [Next]_vars => IInv'
    BY NextIInv
<1> QED
    BY <1>1, <1>2, PTL DEF Spec

(* Every table and every goroutine keeps its shape: no handler ever leaves  *)
(* a status, a host or a program counter the rest of the code does not know. *)
THEOREM TypeCorrect == Spec => []TypeOK
<1>1. IInv => TypeOK
    BY DEF IInv
<1> QED
    BY <1>1, QueueInvariant, PTL

(* commandsHandler hands a deployment out once: no two command polls hold   *)
(* the same row, and none holds one that is queued or with the agent.       *)
THEOREM ClaimIsExclusive == Spec => []ExclusiveClaim
<1>1. IInv => ExclusiveClaim
    <2> SUFFICES ASSUME IInv, NEW d \in Dep, NEW h \in Host, NEW i \in Slot, Holds(h, i, d)
                 PROVE  /\ d \notin handed
                        /\ deps[d].status # "queued"
                        /\ \A g \in Host, j \in Slot : Holds(g, j, d) => g = h /\ j = i
        BY DEF ExclusiveClaim
    <2>1. d \notin handed /\ deps[d].status # "queued"
        BY DEF IInv, ClaimedIsRunning, Holds
    <2>2. \A g \in Host, j \in Slot : Holds(g, j, d) => g = h
        BY DEF IInv, PollOwnsRow, Holds
    <2>3. \A j \in Slot : Holds(h, j, d) => j = i
        BY DEF IInv, ClaimedOnce, Holds
    <2> QED
        BY <2>1, <2>2, <2>3
<1> QED
    BY <1>1, QueueInvariant, PTL

(* A step that leaves the deployments table alone is none of the ledger's.  *)
LEMMA LedgerStutter == ASSUME deps' = deps PROVE [Ledger!Next]_(Ledger!vars)
BY DEF Ledger!vars

(* A step that changes the status of one row, seen by the ledger.           *)
LEMMA LedgerStatus ==
    ASSUME IInv, NEW d \in Dep, NEW s \in Busy \union Finished,
           deps' = [deps EXCEPT ![d].status = s]
    PROVE  /\ [e \in Dep |-> deps'[e].host] = [e \in Dep |-> deps[e].host]
           /\ [e \in Dep |-> deps'[e].status]
                = [[e \in Dep |-> deps[e].status] EXCEPT ![d] = s]
<1>1. /\ \A e \in Dep : deps'[e].host = deps[e].host
      /\ \A e \in Dep : e # d => deps'[e] = deps[e]
      /\ deps'[d].status = s
    BY SetStatus
<1>2. [e \in Dep |-> deps'[e].host] = [e \in Dep |-> deps[e].host]
    BY <1>1
<1>3. \A e \in Dep : deps'[e].status = IF e = d THEN s ELSE deps[e].status
    BY <1>1
<1>4. [e \in Dep |-> deps'[e].status] = [[e \in Dep |-> deps[e].status] EXCEPT ![d] = s]
    BY <1>3
<1> QED
    BY <1>2, <1>4

(* A running row that ends is a ledger Finish, and one that already shows   *)
(* the same verdict does not change.                                        *)
LEMMA LedgerFinish ==
    ASSUME IInv, NEW d \in Dep, NEW s \in Finished,
           deps[d].status \in {"running", s},
           deps' = [deps EXCEPT ![d].status = s]
    PROVE  [Ledger!Next]_(Ledger!vars)
<1>1. /\ [e \in Dep |-> deps'[e].host] = [e \in Dep |-> deps[e].host]
      /\ [e \in Dep |-> deps'[e].status]
            = [[e \in Dep |-> deps[e].status] EXCEPT ![d] = s]
    BY LedgerStatus
<1>2. CASE deps[d].status = "running"
    <2>1. Ledger!Finish(d, s)
        BY <1>1, <1>2 DEF Ledger!Finish
    <2> QED
        BY <2>1 DEF Ledger!Next, Ledger!Finished
<1>3. CASE deps[d].status = s
    <2>1. [e \in Dep |-> deps'[e].status] = [e \in Dep |-> deps[e].status]
        BY <1>1, <1>3
    <2> QED
        BY <1>1, <2>1 DEF Ledger!vars
<1> QED
    BY <1>2, <1>3

(* Inserting the next row is a ledger Enqueue: nothing is younger.          *)
LEMMA LedgerEnqueue ==
    ASSUME IInv, NEW r \in Req, EnqueueDeployment(r)
    PROVE  [Ledger!Next]_(Ledger!vars)
<1>0. TypeOK /\ nextDep \in Dep /\ req[r].host \in HostId
    BY DEF IInv, TypeOK, EnqueueDeployment, ReqState
<1>1. PICK n \in Dep, h \in HostId : n = nextDep /\ h = req[r].host
    BY <1>0
<1>2. \A e \in Dep : e >= n => deps[e].status = "none"
    BY <1>1 DEF IInv, FreshRows
<1>3. /\ \A e \in Dep : e # n => deps'[e] = deps[e]
      /\ deps'[n].host = h /\ deps'[n].status = "queued"
    BY <1>0, <1>1 DEF EnqueueDeployment, TypeOK
<1>4. [e \in Dep |-> deps'[e].host] = [[e \in Dep |-> deps[e].host] EXCEPT ![n] = h]
    BY <1>1, <1>3
<1>5. [e \in Dep |-> deps'[e].status] = [[e \in Dep |-> deps[e].status] EXCEPT ![n] = "queued"]
    BY <1>1, <1>3
<1>6. /\ deps[n].status = "none"
      /\ \A e \in Dep : e > n => deps[e].status = "none"
    BY <1>1, <1>2
<1>7. Ledger!Enqueue(n, h)
    BY <1>1, <1>4, <1>5, <1>6 DEF Ledger!Enqueue
<1> QED
    BY <1>7 DEF Ledger!Next

(* Deleting the stack is a ledger Purge of its rows.                        *)
LEMMA LedgerPurge ==
    ASSUME IInv, NEW r \in Req, DeleteRow(r)
    PROVE  [Ledger!Next]_(Ledger!vars)
<1>0. PICK S \in SUBSET Dep : S = {d \in Dep : deps[d].stack = req[r].stack}
    OBVIOUS
<1>1. CASE deps' = deps
    BY <1>1, LedgerStutter
<1>2. CASE deps' = [d \in Dep |-> IF deps[d].stack = req[r].stack
                                  THEN Deleted(deps[d]) ELSE deps[d]]
    <2>1. ASSUME NEW row \in Row
          PROVE  Deleted(row).host = row.host /\ Deleted(row).status = "none"
        BY <2>1 DEF Row, Deleted
    <2>2. deps \in [Dep -> Row]
        BY DEF IInv, TypeOK
    <2>3. \A d \in Dep : /\ deps'[d].host = deps[d].host
                         /\ deps'[d].status = IF d \in S THEN "none" ELSE deps[d].status
        BY <1>0, <1>2, <2>1, <2>2
    <2>4. \A d \in Dep : deps[d].host \in HostId
        BY <2>2 DEF Row
    <2>5. Ledger!Purge(S)
        BY <2>3, <2>4 DEF Ledger!Purge
    <2> QED
        BY <2>5 DEF Ledger!Next
<1> QED
    BY <1>1, <1>2 DEF DeleteRow

(* A poll's UPDATE takes the oldest queued row of the host, because nothing *)
(* older can have been queued since its SELECT (SelectedIsOldest).          *)
LEMMA LedgerClaim ==
    ASSUME IInv, NEW h \in Host, NEW i \in Slot, ClaimUpdate(h, i)
    PROVE  [Ledger!Next]_(Ledger!vars)
<1>0. PICK d \in Dep : d = poll[h][i].dep
    BY DEF ClaimUpdate, IInv, PollOwnsRow
<1>1. CASE deps[d].status # "queued"
    BY <1>0, <1>1, LedgerStutter DEF ClaimUpdate
<1>2. CASE deps[d].status = "queued"
    <2>1. deps' = [deps EXCEPT ![d].status = "running"]
        BY <1>0, <1>2 DEF ClaimUpdate
    <2>2. /\ deps[d].host = h
          /\ \A e \in Dep : e < d /\ deps[e].host = h => deps[e].status # "queued"
        BY <1>0 DEF ClaimUpdate, IInv, PollOwnsRow, SelectedIsOldest
    <2>3. /\ [e \in Dep |-> deps'[e].host] = [e \in Dep |-> deps[e].host]
          /\ [e \in Dep |-> deps'[e].status]
                = [[e \in Dep |-> deps[e].status] EXCEPT ![d] = "running"]
        BY <2>1, LedgerStatus
    <2>4. Ledger!Claim(d)
        BY <1>2, <2>2, <2>3 DEF Ledger!Claim
    <2> QED
        BY <2>4 DEF Ledger!Next
<1> QED
    BY <1>1, <1>2

(* Every step of the queue is a step of the ledger or leaves it alone.      *)
LEMMA LedgerStep == IInv /\ [Next]_vars => [Ledger!Next]_(Ledger!vars)
<1> SUFFICES ASSUME IInv, [Next]_vars PROVE [Ledger!Next]_(Ledger!vars)
    OBVIOUS
<1> USE DEF depVars
<1>1. CASE UNCHANGED vars
    BY <1>1, LedgerStutter DEF vars
<1>2. ASSUME NEW r \in Req, Handler(r) PROVE [Ledger!Next]_(Ledger!vars)
    <2>1. CASE EnqueueDeployment(r)
        BY <2>1, LedgerEnqueue
    <2>2. CASE DeleteRow(r)
        BY <2>2, LedgerPurge
    <2>3. CASE deps' = deps
        BY <2>3, LedgerStutter
    <2> QED
        BY <1>2, <2>1, <2>2, <2>3
        DEF Handler, LoadStack, AutoCheck, CreateKeys, DeleteLoad, ApplyCheck, AutoLoad,
            EnqueueFails, CreateRow, CreateFails, DeleteCheck, DeleteKeys
<1>3. ASSUME NEW h \in Host, NEW i \in Slot, Commands(h, i) PROVE [Ledger!Next]_(Ledger!vars)
    <2>1. CASE ClaimUpdate(h, i)
        BY <2>1, LedgerClaim
    <2>2. CASE CommandFails(h, i)
        <3> DEFINE d == poll[h][i].dep
        <3>1. d \in Dep /\ deps[d].status \in {"running", "none"}
            BY <2>2 DEF CommandFails, IInv, PollOwnsRow, ClaimedIsRunning
        <3>2. \/ deps' = deps
              \/ Exists(d) /\ deps' = [deps EXCEPT ![d].status = "failed"]
            BY <2>2 DEF CommandFails, CompleteDeployment
        <3> HIDE DEF d
        <3> QED
            BY <3>1, <3>2, LedgerStutter, LedgerFinish DEF Exists
    <2>3. CASE deps' = deps
        BY <2>3, LedgerStutter
    <2> QED
        BY <1>3, <2>1, <2>2, <2>3 DEF Commands, ClaimSelect, CommandSent, CommandLost
<1>4. ASSUME NEW d \in Dep, ReportResult(d) PROVE [Ledger!Next]_(Ledger!vars)
    <2>1. /\ outcome[d] \in Finished /\ deps[d].status \in {"running", outcome[d]}
          /\ deps' = [deps EXCEPT ![d].status = outcome[d]]
        BY <1>4 DEF ReportResult, CompleteDeployment, Exists, IInv, TypeOK, HandedVerdict
    <2> QED
        BY <2>1, LedgerFinish
<1>5. ASSUME NEW d \in Dep, NEW s \in Finished, AgentRuns(d, s) PROVE [Ledger!Next]_(Ledger!vars)
    BY <1>5, LedgerStutter DEF AgentRuns
<1>6. CASE Restart
    BY <1>6, LedgerStutter DEF Restart
<1> QED
    BY <1>1, <1>2, <1>3, <1>4, <1>5, <1>6 DEF Next, Agent

(* The deployments table implements DeployLedger: rows are claimed in       *)
(* queueing order and once, finish once and keep their verdict, and go only *)
(* with their stack.                                                        *)
THEOREM QueueImplementsLedger == Spec => ImplementsLedger
<1>1. Init => Ledger!Init
    BY DEF Init, Ledger!Init, NoRow
<1>2. IInv /\ [Next]_vars => [Ledger!Next]_(Ledger!vars)
    BY LedgerStep
<1> QED
    BY <1>1, <1>2, QueueInvariant, PTL DEF Spec, ImplementsLedger, Ledger!Spec

-----------------------------------------------------------------------------
(* Three sentences of the code that overlapping requests refute, and the    *)
(* overlaps that are to blame: without those they hold, whatever else goes  *)
(* on at the same time.                                                     *)

(* Handler r has read stack s and is going to enqueue a deployment of it.   *)
Enqueuing(r, s) ==
    /\ req[r].stack = s
    /\ req[r].pc = "enqueue" \/ (req[r].pc = "check" /\ req[r].kind = "apply")

(* Handler r is deleting stack s: its deployments have been looked at.      *)
Deleting(r, s) == req[r].stack = s /\ req[r].pc \in {"delkeys", "delrow"}

(* A deployment of stack s is inserted.                                     *)
Enqueued(s) == \E d \in Dep : /\ deps[d].status = "none" /\ deps'[d].status = "queued"
                              /\ deps'[d].stack = s

(* No stack goes while a handler that read it is about to enqueue; no key   *)
(* pair is made for an id whose old keys were deleted and whose row is still *)
(* to go; nothing is enqueued for a stack that is being deleted, and        *)
(* nothing for one that already has a deployment in progress.               *)
DeletedBetweenEnqueues == [][\A s \in stacks \ stacks', r \in Req : ~Enqueuing(r, s)]_vars
KeysMadeApart ==
    [][\A s \in keys' \ keys, r \in Req : ~(req[r].stack = s /\ req[r].pc = "delrow")]_vars
EnqueuedApart == [][\A s \in Stack, r \in Req : Enqueued(s) => ~Deleting(r, s)]_vars
EnqueuedAlone ==
    [][\A s \in Stack, d \in Dep : Enqueued(s) /\ deps[d].stack = s => deps[d].status \notin Busy]_vars

(* Polls, agents and restarts keep the stacks, and every row with its       *)
(* stack; a row that is in progress was in progress before.                 *)
LEMMA RowsStay ==
    ASSUME IInv, (\E h \in Host, i \in Slot : Commands(h, i)) \/ Agent \/ Restart
    PROVE  /\ UNCHANGED stackVars
           /\ req' = req \/ req' = [r \in Req |-> NoReq]
           /\ \A d \in Dep : /\ deps'[d].stack = deps[d].stack
                             /\ deps'[d].status = "none" <=> deps[d].status = "none"
                             /\ deps'[d].status \in Busy => deps[d].status \in Busy
<1> USE DEF agentVars, depVars
<1>0. deps \in [Dep -> Row] /\ outcome \in [Dep -> {"none"} \union Finished]
    BY DEF IInv, TypeOK
<1> DEFINE Same == \A d \in Dep : /\ deps'[d].stack = deps[d].stack
                                  /\ deps'[d].status = "none" <=> deps[d].status = "none"
                                  /\ deps'[d].status \in Busy => deps[d].status \in Busy
<1>1. deps' = deps => Same
    OBVIOUS
<1>2. ASSUME NEW d \in Dep, NEW s \in Finished, CompleteDeployment(d, s) PROVE Same
    BY <1>0, <1>2 DEF CompleteDeployment, Exists, Row
<1> HIDE DEF Same
<1>3. ASSUME NEW h \in Host, NEW i \in Slot, Commands(h, i)
      PROVE  UNCHANGED stackVars /\ req' = req /\ Same
    <2>1. CASE ClaimUpdate(h, i)
        <3>1. UNCHANGED stackVars /\ req' = req
            BY <2>1 DEF ClaimUpdate
        <3>2. \/ deps' = deps
              \/ /\ poll[h][i].dep \in Dep /\ deps[poll[h][i].dep].status = "queued"
                 /\ deps' = [deps EXCEPT ![poll[h][i].dep].status = "running"]
            BY <2>1 DEF ClaimUpdate, IInv, PollOwnsRow
        <3>3. Same
            BY <1>0, <3>2 DEF Same, Row
        <3> QED
            BY <3>1, <3>3
    <2>2. CASE CommandFails(h, i)
        BY <1>2, <2>2 DEF CommandFails, IInv, PollOwnsRow
    <2>3. CASE ClaimSelect(h, i) \/ CommandSent(h, i) \/ CommandLost(h, i)
        BY <1>1, <2>3 DEF ClaimSelect, CommandSent, CommandLost
    <2> QED
        BY <1>3, <2>1, <2>2, <2>3 DEF Commands
<1>4. ASSUME Agent PROVE UNCHANGED stackVars /\ req' = req /\ Same
    <2>1. ASSUME NEW d \in Dep, ReportResult(d) PROVE UNCHANGED stackVars /\ req' = req /\ Same
        BY <1>0, <1>2, <2>1 DEF ReportResult
    <2>2. ASSUME NEW d \in Dep, NEW s \in Finished, AgentRuns(d, s)
          PROVE  UNCHANGED stackVars /\ req' = req /\ Same
        BY <1>1, <2>2 DEF AgentRuns
    <2> QED
        BY <1>4, <2>1, <2>2 DEF Agent
<1>5. CASE Restart
    BY <1>1, <1>5 DEF Restart, Same
<1> QED
    BY <1>3, <1>4, <1>5 DEF Same

(* Of the handlers, only two touch the deployments, only three the stacks   *)
(* and their keys.                                                          *)
LEMMA HandlersElsewhere ==
    ASSUME NEW r \in Req, Handler(r)
    PROVE  /\ EnqueueDeployment(r) \/ DeleteRow(r) \/ deps' = deps
           /\ DeleteRow(r) \/ stacks \subseteq stacks'
           /\ (\E s \in Stack : CreateKeys(r, s)) \/ keys' \subseteq keys
BY DEF Handler, LoadStack, AutoCheck, CreateKeys, DeleteLoad, ApplyCheck, AutoLoad, EnqueueDeployment,
       EnqueueFails, CreateRow, CreateFails, DeleteCheck, DeleteKeys, DeleteRow, stackVars, depVars

(* Every handler about to enqueue has its stack still.                      *)
EnqueuersHaveStack == \A r \in Req, s \in Stack : Enqueuing(r, s) => s \in stacks

(* A handler comes to enqueue only by having found the stack there.         *)
LEMMA EnqueuersFoundIt ==
    ASSUME IInv, EnqueuersHaveStack, NEW r \in Req, Handler(r),
           NEW q \in Req, NEW s \in Stack, Enqueuing(q, s)'
    PROVE  s \in stacks
<1> USE DEF Enqueuing, stackVars, depVars, agentVars
<1>0. req \in [Req -> ReqState]
    BY DEF IInv, TypeOK
<1>1. CASE q # r
    <2>1. req'[q] = req[q]
        BY <1>0, <1>1 DEF Handler, LoadStack, AutoCheck, CreateKeys, DeleteLoad, ApplyCheck, AutoLoad,
            EnqueueDeployment, EnqueueFails, CreateRow, CreateFails, DeleteCheck, DeleteKeys, DeleteRow,
            Done, Goto
    <2> QED
        BY <2>1 DEF EnqueuersHaveStack
<1>2. CASE q = r
    <2>1. ASSUME Done(r) PROVE FALSE
        BY <1>0, <1>2, <2>1 DEF Done, NoReq
    <2>2. ASSUME NEW k \in Kind, NEW t \in Stack, LoadStack(r, k, t) PROVE s \in stacks
        BY <1>0, <1>2, <2>2 DEF LoadStack
    <2>3. ASSUME NEW t \in Stack, AutoCheck(r, t) \/ CreateKeys(r, t) \/ DeleteLoad(r, t) PROVE s \in stacks
        BY <1>0, <1>2, <2>3 DEF AutoCheck, CreateKeys, DeleteLoad
    <2>4. CASE ApplyCheck(r)
        <3>1. Enqueuing(r, s)
            BY <1>0, <1>2, <2>1, <2>4 DEF ApplyCheck, Goto, ReqState
        <3> QED
            BY <3>1 DEF EnqueuersHaveStack
    <2>5. CASE AutoLoad(r)
        BY <1>0, <1>2, <2>1, <2>5 DEF AutoLoad, ReqState
    <2>6. CASE DeleteCheck(r) \/ DeleteKeys(r)
        BY <1>0, <1>2, <2>1, <2>6 DEF DeleteCheck, DeleteKeys, Goto, ReqState
    <2> QED
        BY <2>1, <2>2, <2>3, <2>4, <2>5, <2>6
        DEF Handler, EnqueueDeployment, EnqueueFails, CreateRow, CreateFails, DeleteRow
<1> QED
    BY <1>1, <1>2

(* "A row here always has a live stack" (ListRecentDeployments): a row      *)
(* loses its stack in one way only, which EnqueueDeployment could see and   *)
(* does not look for: the stack is deleted while a handler that has read it *)
(* is about to enqueue.  Any other overlap of handlers, polls, reports and  *)
(* restarts leaves the sentence true.                                       *)
THEOREM RowsHaveStacks == Spec /\ DeletedBetweenEnqueues => []DeploymentHasStack
<1> DEFINE Stands == DeploymentHasStack /\ EnqueuersHaveStack
<1>1. Init => Stands
    BY DEF Init, DeploymentHasStack, EnqueuersHaveStack, Enqueuing, Exists, NoRow, NoReq
<1>2. ASSUME IInv, Stands, [Next]_vars,
             [\A s \in stacks \ stacks', r \in Req : ~Enqueuing(r, s)]_vars
      PROVE  Stands'
    <2>0. deps \in [Dep -> Row] /\ req \in [Req -> ReqState]
        BY <1>2 DEF IInv, TypeOK
    <2>1. CASE UNCHANGED vars
        BY <1>2, <2>1 DEF vars, DeploymentHasStack, EnqueuersHaveStack, Enqueuing, Exists
    <2>2. CASE (\E h \in Host, i \in Slot : Commands(h, i)) \/ Agent \/ Restart
        BY <1>2, <2>0, <2>2, RowsStay
        DEF DeploymentHasStack, EnqueuersHaveStack, Enqueuing, Exists, stackVars, NoReq
    <2>3. ASSUME NEW r \in Req, Handler(r), ~UNCHANGED vars PROVE Stands'
        <3>0. \A s \in stacks \ stacks', q \in Req : ~Enqueuing(q, s)
            BY <1>2, <2>3
        <3>1. EnqueuersHaveStack'
            <4> SUFFICES ASSUME NEW q \in Req, NEW s \in Stack, Enqueuing(q, s)' PROVE s \in stacks'
                BY DEF EnqueuersHaveStack
            <4>1. s \in stacks
                BY <1>2, <2>3, EnqueuersFoundIt
            <4>2. ASSUME DeleteRow(r) PROVE s \in stacks'
                <5>1. q # r /\ req'[q] = req[q]
                    BY <2>0, <4>2 DEF DeleteRow, Done, NoReq, Enqueuing
                <5> QED
                    BY <3>0, <4>1, <5>1 DEF Enqueuing
            <4> QED
                BY <2>3, <4>1, <4>2, HandlersElsewhere
        <3>2. DeploymentHasStack'
            <4>1. CASE deps' = deps /\ stacks \subseteq stacks'
                BY <1>2, <4>1 DEF DeploymentHasStack, Exists
            <4>2. CASE EnqueueDeployment(r)
                <5>1. req[r].stack \in stacks
                    BY <1>2, <4>2 DEF EnqueueDeployment, EnqueuersHaveStack, Enqueuing, IInv, RequestHasStack
                <5> QED
                    BY <1>2, <2>0, <4>2, <5>1
                    DEF EnqueueDeployment, stackVars, DeploymentHasStack, Exists
            <4>3. CASE DeleteRow(r)
                <5>1. CASE req[r].stack \in stacks
                    BY <1>2, <2>0, <4>3, <5>1 DEF DeleteRow, Deleted, DeploymentHasStack, Exists, Row
                <5>2. CASE req[r].stack \notin stacks
                    BY <1>2, <4>3, <5>2 DEF DeleteRow, DeploymentHasStack, Exists
                <5> QED
                    BY <5>1, <5>2
            <4> QED
                BY <2>3, <4>1, <4>2, <4>3, HandlersElsewhere
        <3> QED
            BY <3>1, <3>2
    <2> QED
        BY <1>2, <2>1, <2>2, <2>3 DEF Next
<1> QED
    BY <1>1, <1>2, QueueInvariant, PTL DEF Spec, DeletedBetweenEnqueues

(* A handler that is to delete the row comes from deleting the keys.        *)
LEMMA DeletersCameFrom ==
    ASSUME IInv, NEW r \in Req, Handler(r), NEW q \in Req, NEW s \in Stack, Deleting(q, s)'
    PROVE  \/ Deleting(q, s) /\ req'[q] = req[q]
           \/ q = r /\ DeleteCheck(r) /\ req[r].stack = s /\ ~LatestBusy(s) /\ req'[q].pc = "delkeys"
           \/ q = r /\ DeleteKeys(r) /\ Deleting(r, s)
<1> USE DEF Deleting, stackVars, depVars, agentVars
<1>0. req \in [Req -> ReqState]
    BY DEF IInv, TypeOK
<1>1. CASE q # r
    BY <1>0, <1>1 DEF Handler, LoadStack, AutoCheck, CreateKeys, DeleteLoad, ApplyCheck, AutoLoad,
        EnqueueDeployment, EnqueueFails, CreateRow, CreateFails, DeleteCheck, DeleteKeys, DeleteRow,
        Done, Goto
<1>2. CASE q = r
    <2>1. ASSUME Done(r) PROVE FALSE
        BY <1>0, <1>2, <2>1 DEF Done, NoReq
    <2>2. ASSUME NEW k \in Kind, NEW t \in Stack, LoadStack(r, k, t) PROVE FALSE
        BY <1>0, <1>2, <2>2 DEF LoadStack
    <2>3. ASSUME NEW t \in Stack, AutoCheck(r, t) \/ CreateKeys(r, t) \/ DeleteLoad(r, t) PROVE FALSE
        BY <1>0, <1>2, <2>3 DEF AutoCheck, CreateKeys, DeleteLoad
    <2>4. ASSUME ApplyCheck(r) \/ AutoLoad(r) PROVE FALSE
        BY <1>0, <1>2, <2>1, <2>4 DEF ApplyCheck, AutoLoad, Goto, ReqState
    <2>5. CASE DeleteCheck(r)
        BY <1>0, <1>2, <2>1, <2>5 DEF DeleteCheck, Goto, ReqState
    <2>6. CASE DeleteKeys(r)
        BY <1>0, <1>2, <2>6 DEF DeleteKeys, Goto, ReqState
    <2> QED
        BY <2>1, <2>2, <2>3, <2>4, <2>5, <2>6
        DEF Handler, EnqueueDeployment, EnqueueFails, CreateRow, CreateFails, DeleteRow
<1> QED
    BY <1>1, <1>2

(* "Its keys must never outlive the stack that owned them"                  *)
(* (DeleteStackKeys), although keys and row are in two databases and a      *)
(* restart may come between: the row never goes before the keys, and only a *)
(* new key pair made for the same id in between could be left behind.       *)
THEOREM KeysNeverOutlive == Spec /\ KeysMadeApart => KeysGoWithStack
<1> DEFINE Stands == \A r \in Req : req[r].pc = "delrow" => req[r].stack \notin keys
           Apart == \A s \in keys' \ keys, r \in Req : ~(req[r].stack = s /\ req[r].pc = "delrow")
           Goes == \A s \in stacks \ stacks' :
                      s \in keys' => \E r \in Req : req[r].pc = "insert" /\ req[r].stack = s
<1>1. Init => Stands
    BY DEF Init, NoReq
<1>2. ASSUME IInv, Stands, [Next]_vars, [Apart]_vars
      PROVE  Stands'
    <2>0. req \in [Req -> ReqState] /\ keys \subseteq Stack
        BY <1>2 DEF IInv, TypeOK
    <2>1. CASE UNCHANGED vars
        BY <1>2, <2>1 DEF vars
    <2>2. CASE (\E h \in Host, i \in Slot : Commands(h, i)) \/ Agent \/ Restart
        BY <1>2, <2>0, <2>2, RowsStay DEF stackVars, NoReq
    <2>3. ASSUME NEW r \in Req, Handler(r), ~UNCHANGED vars PROVE Stands'
        <3> SUFFICES ASSUME NEW q \in Req, req'[q].pc = "delrow" PROVE req'[q].stack \notin keys'
            OBVIOUS
        <3>1. PICK s \in Stack : s = req'[q].stack
            BY <1>2, <2>3, HandlerIInv DEF IInv, RequestHasStack
        <3>2. Deleting(q, s)'
            BY <3>1 DEF Deleting
        <3>3. CASE req'[q] = req[q]
            BY <1>2, <2>3, <3>3
        <3>4. CASE DeleteKeys(r) /\ q = r
            BY <2>0, <3>4 DEF DeleteKeys, Goto, ReqState
        <3> QED
            BY <1>2, <2>3, <3>1, <3>2, <3>3, <3>4, DeletersCameFrom
    <2> QED
        BY <1>2, <2>1, <2>2, <2>3 DEF Next
<1>3. ASSUME IInv, Stands, [Next]_vars PROVE [Goes]_vars
    <2>1. CASE (\E h \in Host, i \in Slot : Commands(h, i)) \/ Agent \/ Restart
        BY <1>3, <2>1, RowsStay DEF stackVars
    <2>2. ASSUME NEW r \in Req, Handler(r) PROVE Goes
        BY <1>3, <2>2, HandlersElsewhere DEF DeleteRow
    <2> QED
        BY <1>3, <2>1, <2>2 DEF Next
<1> QED
    BY <1>1, <1>2, <1>3, QueueInvariant, PTL DEF Spec, KeysMadeApart, KeysGoWithStack

(* A deployment in progress is the newest of its stack ...                  *)
BusyIsLatest ==
    \A d, e \in Dep :
        deps[d].status \in Busy /\ Exists(e) /\ deps[e].stack = deps[d].stack => e <= d

(* ... and a stack being deleted has none.                                  *)
CheckedIsIdle ==
    \A r \in Req, d \in Dep : Deleting(r, deps[d].stack) => deps[d].status \notin Busy

(* A step of a handler keeps both, where deployments are enqueued alone.    *)
LEMMA HandlerSpares ==
    ASSUME IInv, BusyIsLatest, CheckedIsIdle, NEW r \in Req, Handler(r),
           \A s \in Stack, q \in Req : Enqueued(s) => ~Deleting(q, s),
           \A s \in Stack, d \in Dep : Enqueued(s) /\ deps[d].stack = s => deps[d].status \notin Busy
    PROVE  BusyIsLatest' /\ CheckedIsIdle'
<1>0. deps \in [Dep -> Row] /\ req \in [Req -> ReqState] /\ deps' \in [Dep -> Row]
    BY HandlerIInv DEF IInv, TypeOK
<1>1. CASE EnqueueDeployment(r)
    <2> DEFINE s == req[r].stack
    <2>1. /\ nextDep \in Dep /\ s \in Stack
          /\ deps[nextDep].status = "none"
          /\ deps'[nextDep].stack = s /\ deps'[nextDep].status = "queued"
          /\ \A d \in Dep : d # nextDep => deps'[d] = deps[d]
          /\ \A d \in Dep : d > nextDep => deps[d].status = "none"
        BY <1>0, <1>1 DEF EnqueueDeployment, IInv, RequestHasStack, FreshRows, TypeOK
    <2> HIDE DEF s
    <2>2. Enqueued(s)
        BY <2>1 DEF Enqueued
    <2>3. \A d \in Dep : deps[d].stack = s => deps[d].status \notin Busy
        BY <2>1, <2>2
    <2>4. \A q \in Req : ~Deleting(q, s)
        BY <2>1, <2>2
    <2>5. BusyIsLatest'
        BY <2>1, <2>3 DEF BusyIsLatest, Exists
    <2>6. \A q \in Req, t \in Stack : Deleting(q, t)' => Deleting(q, t)
        BY <1>0, <1>1 DEF Deleting, EnqueueDeployment, Done, NoReq
    <2>7. CheckedIsIdle'
        <3> SUFFICES ASSUME NEW q \in Req, NEW d \in Dep, Deleting(q, deps[d].stack)'
                     PROVE  deps'[d].status \notin Busy
            BY DEF CheckedIsIdle
        <3>1. deps'[d].stack \in Stack
            BY HandlerIInv DEF IInv, RequestHasStack, Deleting
        <3>2. Deleting(q, deps'[d].stack)
            BY <2>6, <3>1 DEF Deleting
        <3> QED
            BY <2>1, <2>4, <3>2 DEF CheckedIsIdle
    <2> QED
        BY <2>5, <2>7
<1>2. ASSUME ~EnqueueDeployment(r) PROVE BusyIsLatest' /\ CheckedIsIdle'
    <2>1. \A d \in Dep : /\ deps'[d].stack = deps[d].stack
                         /\ deps'[d].status # "none" => deps'[d] = deps[d]
        BY <1>0, <1>2, HandlersElsewhere DEF DeleteRow, Deleted, Row
    <2>2. BusyIsLatest'
        BY <2>1 DEF BusyIsLatest, Exists
    <2>3. CheckedIsIdle'
        <3> SUFFICES ASSUME NEW q \in Req, NEW d \in Dep, Deleting(q, deps[d].stack)',
                            deps'[d].status \in Busy
                     PROVE  FALSE
            BY DEF CheckedIsIdle
        <3>0. deps'[d].stack = deps[d].stack /\ deps'[d].stack \in Stack
            BY <2>1, HandlerIInv DEF IInv, RequestHasStack, Deleting
        <3>1. PICK s \in Stack : deps'[d] = deps[d] /\ deps'[d].stack = s
            BY <2>1, <3>0
        <3>3. Deleting(q, s)'
            BY <3>1 DEF Deleting
        <3>4. CASE Deleting(q, s)
            BY <3>1, <3>4 DEF CheckedIsIdle
        <3>5. CASE ~LatestBusy(s)
            <4>1. d \in LatestOf(s)
                BY <3>1 DEF LatestOf, RowsOf, Exists, BusyIsLatest
            <4> QED
                BY <3>1, <3>5, <4>1 DEF LatestBusy
        <3> QED
            BY <3>3, <3>4, <3>5, DeletersCameFrom
    <2> QED
        BY <2>2, <2>3
<1> QED
    BY <1>1, <1>2

(* deleteStackHandler "also refuses while a deployment is merely queued or  *)
(* running": it looks at the newest row only, and some statements before    *)
(* the rows go.  Those are the only two gaps: where no deployment is        *)
(* enqueued while another of its stack is in progress, nor while its stack  *)
(* is being deleted, a deletion never takes a deployment in progress along. *)
THEOREM OnlyIdleStacksGo == Spec /\ EnqueuedApart /\ EnqueuedAlone => DeleteSparesPending
<1> DEFINE Stands == BusyIsLatest /\ CheckedIsIdle
           Apart == \A s \in Stack, r \in Req : Enqueued(s) => ~Deleting(r, s)
           Alone == \A s \in Stack, d \in Dep :
                       Enqueued(s) /\ deps[d].stack = s => deps[d].status \notin Busy
           Spares == \A d \in Dep : deps[d].status \in Busy => deps'[d].status # "none"
<1>1. Init => Stands
    BY DEF Init, BusyIsLatest, CheckedIsIdle, Deleting, NoRow, NoReq
<1>2. ASSUME IInv, Stands, [Next]_vars, [Apart]_vars, [Alone]_vars PROVE Stands'
    <2>0. deps \in [Dep -> Row] /\ req \in [Req -> ReqState]
        BY <1>2 DEF IInv, TypeOK
    <2>1. CASE UNCHANGED vars
        BY <1>2, <2>1 DEF vars, BusyIsLatest, CheckedIsIdle, Deleting, Exists
    <2>2. CASE (\E h \in Host, i \in Slot : Commands(h, i)) \/ Agent \/ Restart
        BY <1>2, <2>0, <2>2, RowsStay DEF BusyIsLatest, CheckedIsIdle, Deleting, Exists, NoReq
    <2>3. ASSUME NEW r \in Req, Handler(r), ~UNCHANGED vars PROVE Stands'
        BY <1>2, <2>3, HandlerSpares
    <2> QED
        BY <1>2, <2>1, <2>2, <2>3 DEF Next
<1>3. ASSUME IInv, Stands, [Next]_vars PROVE [Spares]_vars
    <2>1. CASE (\E h \in Host, i \in Slot : Commands(h, i)) \/ Agent \/ Restart
        BY <1>3, <2>1, RowsStay
    <2>2. ASSUME NEW r \in Req, Handler(r) PROVE Spares
        <3> SUFFICES ASSUME NEW d \in Dep, deps[d].status \in Busy PROVE deps'[d].status # "none"
            OBVIOUS
        <3>0. deps \in [Dep -> Row]
            BY <1>3 DEF IInv, TypeOK
        <3>1. CASE DeleteRow(r)
            <4>1. deps[d].stack # req[r].stack
                BY <1>3, <3>1 DEF DeleteRow, CheckedIsIdle, Deleting
            <4> QED
                BY <3>0, <3>1, <4>1 DEF DeleteRow
        <3>2. CASE EnqueueDeployment(r)
            BY <3>0, <3>2 DEF EnqueueDeployment
        <3> QED
            BY <2>2, <3>1, <3>2, HandlersElsewhere
    <2> QED
        BY <1>3, <2>1, <2>2 DEF Next
<1> QED
    BY <1>1, <1>2, <1>3, QueueInvariant, PTL
    DEF Spec, EnqueuedApart, EnqueuedAlone, DeleteSparesPending
=============================================================================
