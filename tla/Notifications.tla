--------------------------- MODULE Notifications ---------------------------
(***************************************************************************)
(* The five-minute check that reports hosts gone dark and software fallen   *)
(* behind, and the version check that feeds it.  A version is a number, 0   *)
(* for one that is unknown or no release.                                   *)
(***************************************************************************)
EXTENDS Naturals, FiniteSets

CONSTANTS Agent,         \* approved hosts
          Check,         \* checks in progress at once
          MaxRelease,    \* bound: releases published
          MaxDrops       \* bound: times a tunnel goes down, agents are updated, and restarts

ASSUME NotificationsAssumption == MaxRelease \in Nat \ {0} /\ MaxDrops \in Nat

VARIABLES
    tunnels,    \* hosts with a tunnel
    runs,       \* hosts.agent_version
    released,   \* the newest release of agent and controller
    latest,     \* the cache of it; both repositories move together here
    notifyLock, \* the check that holds notifyState.mu
    hostDown, agentOutdated, serverUpdateNotified,
    checks,     \* what each check is doing
    outages,    \* in this process: disconnections of each host, as they happened
    behind,     \* in this process: releases, and agents that went back to an older one
    lapped,     \* in this process: a check has begun during another
    said,       \* in this process: messages about each host, and the controller
    drops

notifyVars == <<tunnels, runs, released, latest, notifyLock, hostDown, agentOutdated,
                serverUpdateNotified, checks, outages, behind, lapped, said, drops>>

(* versions, newest : agent versions and latest release as the check read   *)
(* them; left : hosts it has still to look at.                              *)
NoCheck == [pc |-> "idle", versions |-> [h \in Agent |-> 0], newest |-> 0, left |-> {}]
CheckState == [pc : {"idle", "wait", "hosts"}, versions : [Agent -> 0 .. MaxRelease],
               newest : 0 .. MaxRelease, left : SUBSET Agent]
Said == [down : Nat, outdated : Nat]

(* semverLess: what is no release is never behind one.                      *)
SemverLess(a, b) == a # 0 /\ b # 0 /\ a < b

(* The controller's own version is 1 for as long as it runs.                *)
OwnVersion == 1

-----------------------------------------------------------------------------
(* What happens in the fleet.                                               *)

Connect(h) ==
    /\ h \notin tunnels
    /\ tunnels' = tunnels \union {h}
    /\ UNCHANGED <<runs, released, latest, notifyLock, hostDown, agentOutdated,
                   serverUpdateNotified, checks, outages, behind, lapped, said, drops>>

Disconnect(h) ==
    /\ h \in tunnels
    /\ drops < MaxDrops /\ drops' = drops + 1
    /\ tunnels' = tunnels \ {h}
    /\ outages' = [outages EXCEPT ![h] = @ + 1]
    /\ UNCHANGED <<runs, released, latest, notifyLock, hostDown, agentOutdated,
                   serverUpdateNotified, checks, behind, lapped, said>>

(* An agent reports another version: updated, or back to an older one.      *)
AgentReports(h, v) ==
    /\ h \in tunnels /\ v \in 1 .. released /\ v # runs[h]
    /\ drops < MaxDrops /\ drops' = drops + 1
    /\ runs' = [runs EXCEPT ![h] = v]
    /\ behind' = [behind EXCEPT ![h] = IF v < runs[h] THEN @ + 1 ELSE @]
    /\ UNCHANGED <<tunnels, released, latest, notifyLock, hostDown, agentOutdated,
                   serverUpdateNotified, checks, outages, lapped, said>>

Release ==
    /\ released < MaxRelease
    /\ released' = released + 1
    /\ behind' = [h \in Agent |-> behind[h] + 1]
    /\ UNCHANGED <<tunnels, runs, latest, notifyLock, hostDown, agentOutdated,
                   serverUpdateNotified, checks, outages, lapped, said, drops>>

(* Slip: a failed request clears what was known.                            *)
SetForgets(v) == latest' = v

(* latestVersions.set: nothing found (0) keeps what was known.              *)
Set(v) == latest' = IF v # 0 THEN v ELSE latest

(* checkLatestVersions, every six hours; GitHub may not answer.             *)
CheckLatestVersions(v) ==
    /\ v \in {0, released}
    /\ Set(v)
    /\ UNCHANGED <<tunnels, runs, released, notifyLock, hostDown, agentOutdated,
                   serverUpdateNotified, checks, outages, behind, lapped, said, drops>>

-----------------------------------------------------------------------------
(* checkNotifiableEvents.                                                   *)

(* Hosts and latest releases are read before the lock is taken.             *)
CheckReads(c) ==
    /\ checks[c].pc = "idle"
    /\ checks' = [checks EXCEPT ![c] = [pc |-> "wait", versions |-> runs, newest |-> latest, left |-> Agent]]
    /\ lapped' = (lapped \/ \E d \in Check \ {c} : checks[d] # NoCheck)
    /\ UNCHANGED <<tunnels, runs, released, latest, notifyLock, hostDown, agentOutdated,
                   serverUpdateNotified, outages, behind, said, drops>>

CheckLocks(c) ==
    /\ checks[c].pc = "wait" /\ notifyLock = {}
    /\ notifyLock' = {c}
    /\ checks' = [checks EXCEPT ![c].pc = "hosts"]
    /\ UNCHANGED <<tunnels, runs, released, latest, hostDown, agentOutdated,
                   serverUpdateNotified, outages, behind, lapped, said, drops>>

(* Reported when it begins to be seen, once.                                *)
Raises(cond, flags, h) == cond /\ h \notin flags

Flagged(cond, flags, h) == IF cond THEN flags \union {h} ELSE flags \ {h}

(* One host: is its tunnel there, is its agent behind?                      *)
CheckHost(c, h) ==
    LET down == h \notin tunnels
        outdated == SemverLess(checks[c].versions[h], checks[c].newest) IN
    /\ checks[c].pc = "hosts" /\ h \in checks[c].left
    /\ hostDown' = Flagged(down, hostDown, h)
    /\ agentOutdated' = Flagged(outdated, agentOutdated, h)
    /\ said' = [said EXCEPT ![h] = [down |-> @.down + IF Raises(down, hostDown, h) THEN 1 ELSE 0,
                                    outdated |-> @.outdated + IF Raises(outdated, agentOutdated, h) THEN 1 ELSE 0]]
    /\ checks' = [checks EXCEPT ![c].left = @ \ {h}]
    /\ UNCHANGED <<tunnels, runs, released, latest, notifyLock, serverUpdateNotified,
                   outages, behind, lapped, drops>>

(* The controller itself, and the end.                                      *)
CheckServer(c) ==
    /\ checks[c].pc = "hosts" /\ checks[c].left = {}
    /\ serverUpdateNotified' = (serverUpdateNotified \/ SemverLess(OwnVersion, checks[c].newest))
    /\ notifyLock' = {}
    /\ checks' = [checks EXCEPT ![c] = NoCheck]
    /\ UNCHANGED <<tunnels, runs, released, latest, hostDown, agentOutdated, outages, behind,
                   lapped, said, drops>>

(* A restart forgets what was said and what is known; every tunnel is down, *)
(* and what is wrong already counts as news.                                *)
NotifyRestart ==
    /\ drops < MaxDrops /\ drops' = drops + 1
    /\ tunnels' = {} /\ latest' = 0 /\ notifyLock' = {}
    /\ hostDown' = {} /\ agentOutdated' = {} /\ serverUpdateNotified' = FALSE
    /\ checks' = [c \in Check |-> NoCheck]
    /\ outages' = [h \in Agent |-> 1] /\ lapped' = FALSE
    /\ behind' = [h \in Agent |-> IF runs[h] < released THEN 1 ELSE 0]
    /\ said' = [h \in Agent |-> [down |-> 0, outdated |-> 0]]
    /\ UNCHANGED <<runs, released>>

-----------------------------------------------------------------------------
NotifyInit ==
    /\ tunnels = {}
    /\ runs = [h \in Agent |-> 1]
    /\ released = 1 /\ latest = 0
    /\ notifyLock = {}
    /\ hostDown = {} /\ agentOutdated = {} /\ serverUpdateNotified = FALSE
    /\ checks = [c \in Check |-> NoCheck]
    /\ outages = [h \in Agent |-> 1] /\ lapped = FALSE
    /\ behind = [h \in Agent |-> 0]
    /\ said = [h \in Agent |-> [down |-> 0, outdated |-> 0]]
    /\ drops = 0

NotifyNext ==
    \/ \E h \in Agent : Connect(h) \/ Disconnect(h) \/ \E v \in 1 .. MaxRelease : AgentReports(h, v)
    \/ Release
    \/ \E v \in 0 .. MaxRelease : CheckLatestVersions(v)
    \/ \E c \in Check : \/ CheckReads(c) \/ CheckLocks(c) \/ CheckServer(c)
                        \/ \E h \in Agent : CheckHost(c, h)
    \/ NotifyRestart

NotifySpec == NotifyInit /\ [][NotifyNext]_notifyVars

-----------------------------------------------------------------------------
(* Properties.                                                              *)

(* Fleet, cache, flags and counters stay well formed.                       *)
NotifyTypeOK ==
    /\ tunnels \subseteq Agent /\ hostDown \subseteq Agent /\ agentOutdated \subseteq Agent
    /\ runs \in [Agent -> 1 .. MaxRelease]
    /\ released \in 1 .. MaxRelease /\ latest \in 0 .. MaxRelease
    /\ notifyLock \subseteq Check /\ Cardinality(notifyLock) <= 1
    /\ serverUpdateNotified \in BOOLEAN /\ lapped \in BOOLEAN
    /\ checks \in [Check -> CheckState]
    /\ outages \in [Agent -> Nat] /\ behind \in [Agent -> Nat]
    /\ said \in [Agent -> Said]
    /\ drops \in 0 .. MaxDrops

(* A host that went down is reported once, not at every tick: there are     *)
(* never more messages than outages since the start, however checks         *)
(* overlap.  Nor is an agent reported outdated more often than releases     *)
(* appear or it is set back, whatever GitHub answers, unless a check that   *)
(* had read its versions waited for the next one to be over.                *)
NoRepeatedMessages ==
    \A h \in Agent : /\ said[h].down <= outages[h]
                     /\ lapped \/ said[h].outdated <= behind[h]
=============================================================================
