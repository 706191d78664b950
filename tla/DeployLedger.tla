---------------------------- MODULE DeployLedger ----------------------------
(***************************************************************************)
(* What the deployment queue promises, with no request handler in sight:   *)
(* a deployment is queued for one host, leaves the queue in one indivisible *)
(* step and in queueing order, finishes once, and only deleting its stack   *)
(* makes it disappear.  DeployQueue is shown to implement this.             *)
(***************************************************************************)
EXTENDS Naturals

CONSTANTS Dep,    \* deployment numbers, in order of insertion (rowid)
          HostId  \* the values a row's host_id can have

VARIABLES hostOf,  \* hostOf[d] : the host deployment d was queued for
          status   \* status[d] : where deployment d is in its life

vars == <<hostOf, status>>

Finished == {"succeeded", "failed"}
Status   == {"none", "queued", "running"} \union Finished

Init ==
    /\ hostOf \in [Dep -> HostId]
    /\ status = [d \in Dep |-> "none"]

(* A deployment enters at the back: everything already there is older. *)
Enqueue(d, h) ==
    /\ status[d] = "none"
    /\ \A e \in Dep : e > d => status[e] = "none"
    /\ hostOf' = [hostOf EXCEPT ![d] = h]
    /\ status' = [status EXCEPT ![d] = "queued"]

(* The host takes its oldest queued deployment, and nobody else does. *)
Claim(d) ==
    /\ status[d] = "queued"
    /\ \A e \in Dep : e < d /\ hostOf[e] = hostOf[d] => status[e] # "queued"
    /\ status' = [status EXCEPT ![d] = "running"]
    /\ UNCHANGED hostOf

(* A claimed deployment ends, once. *)
Finish(d, s) ==
    /\ status[d] = "running"
    /\ status' = [status EXCEPT ![d] = s]
    /\ UNCHANGED hostOf

(* Deleting a stack removes its history. *)
Purge(S) ==
    /\ status' = [d \in Dep |-> IF d \in S THEN "none" ELSE status[d]]
    /\ hostOf' \in [Dep -> HostId]
    /\ \A d \in Dep \ S : hostOf'[d] = hostOf[d]

Next ==
    \/ \E d \in Dep, h \in HostId : Enqueue(d, h)
    \/ \E d \in Dep : Claim(d)
    \/ \E d \in Dep, s \in Finished : Finish(d, s)
    \/ \E S \in SUBSET Dep : Purge(S)

Spec == Init /\ [][Next]_vars
=============================================================================
