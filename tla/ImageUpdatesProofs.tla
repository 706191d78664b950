------------------------- MODULE ImageUpdatesProofs -------------------------
(* The rows of image_policies stay well formed and show no digest but one   *)
(* of their own reference, whatever resyncs overlap, those rows apart that  *)
(* were given a reference under another's hands; and a resync that started  *)
(* alone leaves the rows in step with the compose file on disk.             *)
EXTENDS ImageUpdates, TLAPS

-----------------------------------------------------------------------------
(* The inductive invariants.                                                *)

(* What a resync has still to do makes sense, and a digest it looked up is  *)
(* of the reference it asked about.                                         *)
WorkStands ==
    \A g \in Sync :
        /\ At(g, "upsert") => \A s \in sync[g].todo : sync[g].compose[s] \in Ref
        /\ At(g, "digest") => \A s \in sync[g].todo : sync[g].list[s] \in Ref
        /\ \A r \in Ref : sync[g].seen[r] # NoDigest => sync[g].seen[r][1] = r

(* The rows are still as a resync listed them, those apart that another one *)
(* changed before it.                                                       *)
ListIsCurrent ==
    \A g \in Sync : At(g, "digest") =>
        \A s \in sync[g].todo : s \notin outrun => rows[s].ref = sync[g].list[s]

(* Resyncs that did not overlap are under way one at a time.                *)
OneAtATime == ~overlapped => \A g, h \in Sync : At(g, "idle") \/ At(h, "idle") \/ g = h

(* The file reported on next is the one on disk.                            *)
PulledIsOnDisk == dep.state = "pulled" => disk = dep.compose

(* How far the rows are in step with the file a resync was given.           *)
InStep(g, s) ==
    LET c == sync[g].compose[s] IN
    /\ At(g, "upsert") /\ c \in Ref /\ s \notin sync[g].todo => rows[s].ref = c
    /\ At(g, "prune") /\ c \in Ref => rows[s].ref = c
    /\ At(g, "prune") /\ s \in sync[g].todo => c = NoRef
    /\ At(g, "prune") /\ c = NoRef => s \in sync[g].todo \/ rows[s].ref = NoRef
    /\ At(g, "digest") /\ c # Pin => rows[s].ref = c

(* Until a resync is cut short or overlapped, every file deployed has had   *)
(* its own.                                                                 *)
DiskStands ==
    ~overlapped /\ crashes = 0 =>
        \A g \in Sync : ~At(g, "idle") =>
            /\ dep.state # "pulled" => disk = sync[g].compose
            /\ \A s \in Service : InStep(g, s)

TypedIInv  == TypeOK /\ WorkStands
DigestIInv == ListIsCurrent /\ AppliedDescribesRef
InStepIInv == OneAtATime /\ PulledIsOnDisk /\ DiskStands /\ RowsMatchDisk

LEMMA Blanks ==
    /\ NoDigest \in Digests /\ NoRow \in Row /\ NoSync \in SyncState /\ NoPoll \in PollState
    /\ NoSync.pc = "idle" /\ \A r \in Ref : NoSync.seen[r] = NoDigest
<1>1. NoDigest \in Digests /\ NoneSeen \in [Ref -> Digests]
    BY DEF Digests, NoneSeen
<1>2. NoRow \in Row
    BY <1>1 DEF NoRow, Row, Policy
<1>3. NoSync \in SyncState
    BY <1>1 DEF NoSync, SyncState, Image
<1>4. NoPoll \in PollState
    BY <1>1, <1>2 DEF NoPoll, PollState
<1> QED
    BY <1>1, <1>2, <1>3, <1>4 DEF NoSync, NoneSeen

LEMMA DigestsOfRefs ==
    ASSUME NEW r \in Ref, NEW n \in 1 .. MaxPush
    PROVE  Digest(r, n) \in Digests /\ Digest(r, n) # NoDigest /\ Digest(r, n)[1] = r
BY DEF Digest, Digests, NoDigest

LEMMA InitTyped == Init => TypedIInv
<1> SUFFICES ASSUME Init PROVE TypedIInv
    OBVIOUS
<1> USE Blanks, ImageUpdatesAssumption
<1>1. TypeOK
    <2>1. registry \in [Ref -> 1 .. MaxPush] /\ crashes \in 0 .. MaxCrashes
        BY DEF Init
    <2>2. disk \in [Service -> Image] /\ running \in [Service -> Digests]
        BY DEF Init, Image
    <2>3. dep \in [state : {"idle", "queued", "pulled"}, compose : Compose]
        BY DEF Init
    <2>4. rows \in [Service -> Row] /\ sync \in [Sync -> SyncState] /\ poll \in PollState
        BY DEF Init
    <2>5. overlapped \in BOOLEAN /\ outrun \subseteq Service
        BY DEF Init
    <2> QED
        BY <2>1, <2>2, <2>3, <2>4, <2>5 DEF TypeOK
<1>2. WorkStands
    BY DEF Init, WorkStands, At
<1> QED
    BY <1>1, <1>2 DEF TypedIInv

LEMMA SyncFields ==
    ASSUME TypeOK, NEW g \in Sync
    PROVE  /\ sync[g] \in SyncState /\ sync[g].compose \in [Service -> Image]
           /\ sync[g].todo \subseteq Service /\ sync[g].list \in [Service -> Ref \union {NoRef}]
           /\ sync[g].seen \in [Ref -> Digests]
BY DEF TypeOK, SyncState

(* One resync moves on; its digests are those it had.                       *)
LEMMA SyncMoves ==
    ASSUME TypedIInv, NEW g \in Sync, NEW x \in SyncState, sync' = [sync EXCEPT ![g] = x],
           x.pc = "upsert" => \A s \in x.todo : x.compose[s] \in Ref,
           x.pc = "digest" => \A s \in x.todo : x.list[s] \in Ref,
           \A r \in Ref : x.seen[r] # NoDigest => x.seen[r][1] = r
    PROVE  sync' \in [Sync -> SyncState] /\ WorkStands'
<1>1. sync' \in [Sync -> SyncState] /\ sync'[g] = x /\ \A h \in Sync \ {g} : sync'[h] = sync[h]
    BY DEF TypedIInv, TypeOK
<1>2. WorkStands'
    BY <1>1 DEF WorkStands, At, TypedIInv
<1> QED
    BY <1>1, <1>2

LEMMA FinishTyped ==
    ASSUME TypedIInv, NEW g \in Sync, NEW s \in Service, Finish(g, s)
    PROVE  sync' \in [Sync -> SyncState] /\ WorkStands'
<1> DEFINE x == [sync[g] EXCEPT !.todo = @ \ {s}]
<1>1. /\ x \in SyncState /\ x.pc = sync[g].pc /\ x.todo = sync[g].todo \ {s}
      /\ x.compose = sync[g].compose /\ x.list = sync[g].list /\ x.seen = sync[g].seen
    BY SyncFields DEF TypedIInv, SyncState
<1>2. sync' = [sync EXCEPT ![g] = x]
    BY DEF Finish, TypedIInv, TypeOK
<1>3. /\ x.pc = "upsert" => \A t \in x.todo : x.compose[t] \in Ref
      /\ x.pc = "digest" => \A t \in x.todo : x.list[t] \in Ref
      /\ \A r \in Ref : x.seen[r] # NoDigest => x.seen[r][1] = r
    BY <1>1 DEF TypedIInv, WorkStands, At
<1> HIDE DEF x
<1> QED
    BY <1>1, <1>2, <1>3, SyncMoves

LEMMA ResyncTyped ==
    ASSUME TypedIInv, NEW g \in Sync, Resync(g), overlapped' \in BOOLEAN, outrun' \subseteq Service
    PROVE  TypedIInv'
<1>0. TypeOK /\ WorkStands
    BY DEF TypedIInv
<1> USE Blanks
<1>1. ASSUME sync' \in [Sync -> SyncState], WorkStands', rows' \in [Service -> Row],
             UNCHANGED <<registry, hostVars, dep, poll, crashes>>
      PROVE  TypedIInv'
    BY <1>0, <1>1 DEF TypedIInv, TypeOK, hostVars
<1>2. ASSUME NEW s \in Service PROVE rows[s] \in Row
    BY <1>0 DEF TypeOK
<1>3. ASSUME NEW s \in Service, SyncUpsert(g, s) PROVE TypedIInv'
    <2>1. sync[g].compose[s] \in Ref
        BY <1>0, <1>3 DEF SyncUpsert, WorkStands
    <2>2. Upserted(rows[s], sync[g].compose[s]) \in Row
        BY <1>2, <2>1 DEF Upserted, Row, Policy
    <2>3. rows' \in [Service -> Row]
        BY <1>0, <1>3, <2>2 DEF SyncUpsert, TypeOK
    <2> QED
        BY <1>0, <1>1, <1>3, <2>3, FinishTyped DEF SyncUpsert, TypeOK
<1>4. ASSUME NEW s \in Service, SyncPrune(g, s) PROVE TypedIInv'
    <2>1. rows' \in [Service -> Row]
        BY <1>0, <1>4 DEF SyncPrune, TypeOK
    <2> QED
        BY <1>0, <1>1, <1>4, <2>1, FinishTyped DEF SyncPrune, TypeOK
<1>6. ASSUME NEW s \in Service, SyncDigest(g, s) PROVE TypedIInv'
    <2> DEFINE r == sync[g].list[s]
               d == Digest(r, registry[r])
               x == [sync[g] EXCEPT !.seen = [sync[g].seen EXCEPT ![r] = d]]
    <2>1. r \in Ref /\ sync[g].pc = "digest"
        BY <1>0, <1>6 DEF SyncDigest, WorkStands, At
    <2>2. d \in Digests /\ d[1] = r
        BY <1>0, <2>1, DigestsOfRefs DEF TypeOK
    <2>3. sync' = [sync EXCEPT ![g] = x]
        BY <1>0, <1>6 DEF SyncDigest, TypeOK, SyncState
    <2> HIDE DEF d, r
    <2>4. [sync[g].seen EXCEPT ![r] = d] \in [Ref -> Digests]
        BY <1>0, <2>2, SyncFields
    <2>5. /\ x \in SyncState /\ x.pc = sync[g].pc /\ x.todo = sync[g].todo
          /\ x.compose = sync[g].compose /\ x.list = sync[g].list
          /\ x.seen = [sync[g].seen EXCEPT ![r] = d]
        BY <1>0, <2>4, SyncFields DEF SyncState
    <2> HIDE DEF x
    <2>6. \A t \in Ref : x.seen[t] # NoDigest => x.seen[t][1] = t
        BY <1>0, <2>1, <2>2, <2>5, SyncFields DEF WorkStands
    <2>7. sync' \in [Sync -> SyncState] /\ WorkStands'
        BY <1>0, <2>1, <2>3, <2>5, <2>6, SyncMoves DEF WorkStands, At
    <2> QED
        BY <1>0, <1>1, <1>6, <2>7 DEF SyncDigest, TypeOK
<1>7. ASSUME NEW s \in Service, SyncDigestFails(g, s) PROVE TypedIInv'
    BY <1>0, <1>1, <1>7, FinishTyped DEF SyncDigestFails, TypeOK
<1>8. ASSUME NEW s \in Service, SetAppliedDigest(g, s) PROVE TypedIInv'
    <2>1. sync[g].seen[sync[g].list[s]] \in Digests
        BY <1>0, <1>8, SyncFields DEF SetAppliedDigest, WorkStands
    <2>2. rows' \in [Service -> Row]
        BY <1>0, <1>8, <2>1 DEF SetAppliedDigest, TypeOK, Row
    <2> QED
        BY <1>0, <1>1, <1>8, <2>2, FinishTyped DEF SetAppliedDigest, TypeOK
<1>9. CASE SyncPruneSelect(g)
    <2> DEFINE x == [sync[g] EXCEPT !.pc = "prune", !.todo = Stale(g)]
    <2>1. sync' = [sync EXCEPT ![g] = x]
        BY <1>0, <1>9 DEF SyncPruneSelect, TypeOK, SyncState
    <2>2. x \in SyncState /\ x.pc = "prune" /\ x.seen = sync[g].seen
        BY <1>0, SyncFields DEF SyncState, Stale
    <2> HIDE DEF x
    <2>3. \A r \in Ref : x.seen[r] # NoDigest => x.seen[r][1] = r
        BY <1>0, <2>2 DEF WorkStands
    <2>4. sync' \in [Sync -> SyncState] /\ WorkStands'
        BY <2>1, <2>2, <2>3, SyncMoves
    <2> QED
        BY <1>0, <1>1, <1>9, <2>4 DEF SyncPruneSelect, TypeOK
<1>10. CASE SyncList(g)
    <2> DEFINE todo == {s \in Service : Exists(s)}
               list == [s \in Service |-> rows[s].ref]
               x == [sync[g] EXCEPT !.pc = "digest", !.todo = todo, !.list = list]
    <2>1. sync' = [sync EXCEPT ![g] = x]
        BY <1>0, <1>10 DEF SyncList, TypeOK, SyncState
    <2>2. todo \subseteq Service /\ list \in [Service -> Ref \union {NoRef}] /\ \A s \in todo : list[s] \in Ref
        BY <1>2 DEF Row, Exists
    <2> HIDE DEF todo, list
    <2>3. x \in SyncState /\ x.pc = "digest" /\ x.seen = sync[g].seen /\ x.todo = todo /\ x.list = list
        BY <1>0, <2>2, SyncFields DEF SyncState
    <2> HIDE DEF x
    <2>4. \A r \in Ref : x.seen[r] # NoDigest => x.seen[r][1] = r
        BY <1>0, <2>3 DEF WorkStands
    <2>5. sync' \in [Sync -> SyncState] /\ WorkStands'
        BY <2>1, <2>2, <2>3, <2>4, SyncMoves
    <2> QED
        BY <1>0, <1>1, <1>10, <2>5 DEF SyncList, TypeOK
<1>11. CASE SyncDone(g)
    BY <1>0, <1>1, <1>11, SyncMoves DEF SyncDone, TypeOK
<1> QED
    BY <1>3, <1>4, <1>6, <1>7, <1>8, <1>9, <1>10, <1>11 DEF Resync

LEMMA PollTyped ==
    ASSUME TypedIInv, PollImages, overlapped' \in BOOLEAN, outrun' \subseteq Service
    PROVE  TypedIInv'
<1>0. TypeOK /\ WorkStands
    BY DEF TypedIInv
<1> USE Blanks
<1>1. ASSUME poll' \in PollState, dep' \in [state : {"idle", "queued", "pulled"}, compose : Compose],
             UNCHANGED <<registry, rows, hostVars, sync, crashes>>
      PROVE  TypedIInv'
    BY <1>0, <1>1 DEF TypedIInv, TypeOK, hostVars, WorkStands, At
<1>2. poll \in PollState /\ dep \in [state : {"idle", "queued", "pulled"}, compose : Compose]
    BY <1>0 DEF TypeOK
<1>3. CASE PollList
    <2> DEFINE refs == {rows[s].ref : s \in {t \in Service : Exists(t) /\ rows[t].policy # "pinned"}}
    <2>1. refs \subseteq Ref
        BY <1>0 DEF TypeOK, Row, Exists
    <2>2. poll' = [NoPoll EXCEPT !.pc = "check", !.list = rows, !.refs = refs]
        BY <1>3 DEF PollList
    <2> HIDE DEF refs
    <2>3. poll' \in PollState
        BY <1>0, <2>1, <2>2 DEF PollState, TypeOK
    <2> QED
        BY <1>1, <1>2, <1>3, <2>3 DEF PollList
<1>4. ASSUME NEW r \in Ref, PollDigest(r) PROVE TypedIInv'
    <2>1. Digest(r, registry[r]) \in Digests
        BY <1>0, DigestsOfRefs DEF TypeOK
    <2>2. poll' \in PollState
        BY <1>2, <1>4, <2>1 DEF PollDigest, PollState
    <2> QED
        BY <1>1, <1>2, <1>4, <2>2 DEF PollDigest
<1>5. ASSUME NEW r \in Ref, PollDigestFails(r) PROVE TypedIInv'
    <2>1. poll' \in PollState
        BY <1>2, <1>5 DEF PollDigestFails, PollState
    <2> QED
        BY <1>1, <1>2, <1>5, <2>1 DEF PollDigestFails
<1>6. CASE PollDecide
    <2>1. poll' \in PollState
        BY <1>2, <1>6 DEF PollDecide, PollState
    <2> QED
        BY <1>1, <1>2, <1>6, <2>1 DEF PollDecide
<1>7. ASSUME NEW s \in Service, EnqueueImageUpdate(s) PROVE TypedIInv'
    <2>1. poll' \in PollState
        BY <1>2, <1>7 DEF EnqueueImageUpdate, PollState
    <2>2. dep' \in [state : {"idle", "queued", "pulled"}, compose : Compose]
        BY <1>2, <1>7 DEF EnqueueImageUpdate
    <2> QED
        BY <1>1, <1>7, <2>1, <2>2 DEF EnqueueImageUpdate
<1>8. CASE PollDone
    BY <1>1, <1>2, <1>8 DEF PollDone
<1> QED
    BY <1>3, <1>4, <1>5, <1>6, <1>7, <1>8 DEF PollImages

(* What is remembered of earlier resyncs has its type.                      *)
LEMMA PastTyped == TypeOK /\ [Next]_vars => overlapped' \in BOOLEAN /\ outrun' \subseteq Service
<1> SUFFICES ASSUME TypeOK, [Next]_vars PROVE overlapped' \in BOOLEAN /\ outrun' \subseteq Service
    OBVIOUS
<1>0. overlapped \in BOOLEAN /\ outrun \subseteq Service
    BY DEF TypeOK
<1>1. ASSUME NEW g \in Sync, NEW s \in Service, NEW ref PROVE OutrunBy(g, s, ref) \subseteq Service
    BY <1>0 DEF OutrunBy
<1>2. ASSUME NEW g \in Sync, Resync(g) PROVE overlapped' = overlapped /\ outrun' \subseteq Service
    BY <1>0, <1>1, <1>2 DEF Resync, SyncUpsert, SyncPrune, SyncDigest, SyncDigestFails, SetAppliedDigest,
                            SyncPruneSelect, SyncList, SyncDone, pastVars
<1>3. ASSUME NEW g \in Sync, Succeeded(g) PROVE overlapped' \in BOOLEAN /\ outrun' = outrun
    BY <1>3 DEF Succeeded
<1>4. CASE PollImages
    BY <1>4, <1>0 DEF PollImages, PollList, PollDigest, PollDigestFails, PollDecide, EnqueueImageUpdate,
                      PollDone, pastVars
<1>5. CASE UNCHANGED vars
    BY <1>0, <1>5 DEF vars
<1> QED
    BY <1>0, <1>2, <1>3, <1>4, <1>5 DEF Next, Report, Push, AgentDeploys, AgentFails, Deploy,
                                        SetImagePolicy, Restart, pastVars

LEMMA NextTyped == TypedIInv /\ [Next]_vars => TypedIInv'
<1> SUFFICES ASSUME TypedIInv, [Next]_vars PROVE TypedIInv'
    OBVIOUS
<1>0. TypeOK /\ WorkStands
    BY DEF TypedIInv
<1>p. overlapped' \in BOOLEAN /\ outrun' \subseteq Service
    BY <1>0, PastTyped
<1> USE Blanks, ImageUpdatesAssumption, <1>p
<1>1. ASSUME UNCHANGED <<sync, rows, poll, crashes>>, registry' \in [Ref -> 1 .. MaxPush],
             disk' \in [Service -> Image], running' \in [Service -> Digests],
             dep' \in [state : {"idle", "queued", "pulled"}, compose : Compose]
      PROVE  TypedIInv'
    BY <1>0, <1>1 DEF TypedIInv, TypeOK, WorkStands, At
<1>2. dep \in [state : {"idle", "queued", "pulled"}, compose : Compose] /\ dep.compose \in [Service -> Image]
    BY <1>0 DEF TypeOK
<1>3. ASSUME NEW r \in Ref, Push(r) PROVE TypedIInv'
    <2>1. registry' \in [Ref -> 1 .. MaxPush]
        BY <1>0, <1>3 DEF Push, TypeOK
    <2> QED
        BY <1>0, <1>1, <1>3, <2>1 DEF Push, TypeOK, hostVars
<1>4. CASE AgentDeploys
    <2>1. ASSUME NEW image \in Image PROVE Pulled(image) \in Digests
        <3>1. CASE image \in Ref
            BY <1>0, <3>1, DigestsOfRefs DEF Pulled, TypeOK
        <3>2. CASE image = Pin
            <4>1. Pulled(image) = Digest(Pin, 1)
                BY <3>2 DEF Pulled
            <4> QED
                BY <4>1 DEF Digests
        <3>3. CASE image = NoRef
            BY <3>3 DEF Pulled
        <3> QED
            BY <2>1, <3>1, <3>2, <3>3 DEF Image
    <2>2. running' \in [Service -> Digests]
        BY <1>2, <1>4, <2>1 DEF AgentDeploys
    <2>3. dep' \in [state : {"idle", "queued", "pulled"}, compose : Compose]
        BY <1>2, <1>4 DEF AgentDeploys
    <2> QED
        BY <1>0, <1>1, <1>2, <1>4, <2>2, <2>3 DEF AgentDeploys, TypeOK
<1>5. CASE AgentFails
    <2>1. dep' \in [state : {"idle", "queued", "pulled"}, compose : Compose]
        BY <1>2, <1>5 DEF AgentFails
    <2> QED
        BY <1>0, <1>1, <1>5, <2>1 DEF AgentFails, TypeOK, hostVars
<1>6. ASSUME NEW c \in Compose, Deploy(c) PROVE TypedIInv'
    <2>1. dep' \in [state : {"idle", "queued", "pulled"}, compose : Compose]
        BY <1>6 DEF Deploy
    <2> QED
        BY <1>0, <1>1, <1>6, <2>1 DEF Deploy, TypeOK, hostVars
<1>7. ASSUME NEW g \in Sync, Succeeded(g) PROVE TypedIInv'
    <2> DEFINE todo == {s \in Service : dep.compose[s] \in Ref}
               x == [NoSync EXCEPT !.pc = "upsert", !.compose = dep.compose, !.todo = todo]
    <2>1. sync' = [sync EXCEPT ![g] = x]
        BY <1>7 DEF Succeeded
    <2>2. todo \subseteq Service /\ \A s \in todo : dep.compose[s] \in Ref
        OBVIOUS
    <2> HIDE DEF todo
    <2>3. /\ x \in SyncState /\ x.pc = "upsert" /\ x.compose = dep.compose /\ x.todo = todo
          /\ x.seen = NoSync.seen
        BY <1>2, <2>2 DEF SyncState
    <2> HIDE DEF x
    <2>4. sync' \in [Sync -> SyncState] /\ WorkStands'
        BY <1>0, <2>1, <2>2, <2>3, SyncMoves
    <2>5. dep' \in [state : {"idle", "queued", "pulled"}, compose : Compose]
        BY <1>2, <1>7 DEF Succeeded
    <2> QED
        BY <1>0, <1>7, <2>4, <2>5 DEF Succeeded, TypedIInv, TypeOK, hostVars
<1>8. ASSUME NEW s \in Service, NEW p \in Policy, SetImagePolicy(s, p) PROVE TypedIInv'
    <2>1. rows' \in [Service -> Row]
        BY <1>0, <1>8 DEF SetImagePolicy, TypeOK, Row
    <2> QED
        BY <1>0, <1>8, <2>1 DEF SetImagePolicy, TypedIInv, TypeOK, hostVars, WorkStands, At
<1>9. CASE Restart
    <2>1. sync' \in [Sync -> SyncState] /\ poll' \in PollState /\ WorkStands'
        BY <1>9 DEF Restart, WorkStands, At
    <2>2. crashes' \in 0 .. MaxCrashes
        BY <1>0, <1>9 DEF Restart, TypeOK
    <2> QED
        BY <1>0, <1>9, <2>1, <2>2 DEF Restart, TypedIInv, TypeOK, hostVars
<1>10. CASE UNCHANGED vars
    BY <1>0, <1>10 DEF vars, hostVars, TypedIInv, TypeOK, WorkStands, At
<1> QED
    BY <1>3, <1>4, <1>5, <1>6, <1>7, <1>8, <1>9, <1>10, ResyncTyped, PollTyped DEF Next, Report

LEMMA TypedStands == Spec => []TypedIInv
<1> QED
    BY InitTyped, NextTyped, PTL DEF Spec

(* Rows, resyncs and polls keep their types, however many resyncs overlap.  *)
THEOREM TypeCorrect == Spec => []TypeOK
<1>1. TypedIInv => TypeOK
    BY DEF TypedIInv
<1> QED
    BY <1>1, TypedStands, PTL

-----------------------------------------------------------------------------
(* Digests, however many resyncs overlap.                                   *)

LEMMA InitDigests == Init => DigestIInv
BY Blanks DEF Init, DigestIInv, ListIsCurrent, AppliedDescribesRef, Describes, At, NoRow

LEMMA FinishFields ==
    ASSUME TypeOK, NEW g \in Sync, NEW s \in Service, Finish(g, s)
    PROVE  /\ sync'[g].pc = sync[g].pc /\ sync'[g].compose = sync[g].compose
           /\ sync'[g].list = sync[g].list /\ sync'[g].todo = sync[g].todo \ {s}
           /\ sync'[g].seen = sync[g].seen
           /\ \A h \in Sync \ {g} : sync'[h] = sync[h]
BY SyncFields DEF Finish, TypeOK, SyncState

(* A resync that has not listed the rows yet gives one a reference: its     *)
(* digest goes with the old one, and a resync about to write to it is       *)
(* remembered.                                                              *)
LEMMA RefGiven ==
    ASSUME TypeOK, DigestIInv, NEW g \in Sync, NEW s \in Service, NEW ref,
           Finish(g, s), ~At(g, "digest"), outrun' = OutrunBy(g, s, ref),
           \A t \in Service \ {s} : rows'[t] = rows[t],
           rows'[s].ref = ref,
           rows'[s].applied = NoDigest \/ (rows'[s].applied = rows[s].applied /\ rows[s].ref = ref)
    PROVE  DigestIInv'
<1>1. \A t \in Service \ {s} : t \in outrun' <=> t \in outrun
    BY DEF OutrunBy
<1>2. ASSUME s \notin outrun'
      PROVE  \/ rows[s].ref = ref /\ s \notin outrun
             \/ \A h \in Sync \ {g} : ~(At(h, "digest") /\ s \in sync[h].todo)
    BY <1>2 DEF OutrunBy
<1>3. ListIsCurrent'
    <2> SUFFICES ASSUME NEW h \in Sync, sync'[h].pc = "digest", NEW t \in sync'[h].todo, t \notin outrun'
                 PROVE  rows'[t].ref = sync'[h].list[t]
        BY DEF ListIsCurrent, At
    <2>1. h # g /\ sync'[h] = sync[h] /\ t \in Service
        BY FinishFields, SyncFields DEF At
    <2>2. CASE t # s
        BY <1>1, <2>1, <2>2 DEF DigestIInv, ListIsCurrent, At
    <2>3. CASE t = s
        BY <1>2, <2>1, <2>3 DEF DigestIInv, ListIsCurrent, At
    <2> QED
        BY <2>2, <2>3
<1>4. AppliedDescribesRef'
    <2> SUFFICES ASSUME NEW t \in Service, t \notin outrun', rows'[t].applied # NoDigest
                 PROVE  rows'[t].applied[1] = rows'[t].ref
        BY DEF AppliedDescribesRef, Describes
    <2>1. CASE t # s
        BY <1>1, <2>1 DEF DigestIInv, AppliedDescribesRef, Describes
    <2>2. CASE t = s
        <3>1. s \notin outrun /\ rows'[s].applied = rows[s].applied /\ rows'[s].ref = rows[s].ref
            BY <2>2 DEF OutrunBy
        <3> QED
            BY <2>2, <3>1 DEF DigestIInv, AppliedDescribesRef, Describes
    <2> QED
        BY <2>1, <2>2
<1> QED
    BY <1>3, <1>4 DEF DigestIInv

(* Nothing happens to the rows' references and digests, and no list is made.*)
LEMMA DigestsLeft ==
    ASSUME TypeOK, DigestIInv, UNCHANGED outrun,
           \A s \in Service : rows'[s].ref = rows[s].ref /\ rows'[s].applied = rows[s].applied,
           \A h \in Sync : sync'[h].pc = "digest" =>
               /\ sync[h].pc = "digest" /\ sync'[h].todo \subseteq sync[h].todo
               /\ sync'[h].list = sync[h].list
    PROVE  DigestIInv'
<1>1. \A h \in Sync : sync[h].todo \subseteq Service
    BY SyncFields
<1>2. ListIsCurrent'
    BY <1>1 DEF DigestIInv, ListIsCurrent, At
<1>3. AppliedDescribesRef'
    BY DEF DigestIInv, AppliedDescribesRef, Describes
<1> QED
    BY <1>2, <1>3 DEF DigestIInv

LEMMA ResyncDigests ==
    ASSUME TypedIInv, DigestIInv, NEW g \in Sync, Resync(g)
    PROVE  DigestIInv'
<1>0. TypeOK /\ WorkStands /\ ListIsCurrent /\ AppliedDescribesRef
    BY DEF TypedIInv, DigestIInv
<1>a. /\ sync \in [Sync -> SyncState] /\ sync[g] \in SyncState /\ rows \in [Service -> Row]
    BY <1>0 DEF TypeOK
<1>1. ASSUME NEW s \in Service, SyncUpsert(g, s) PROVE DigestIInv'
    <2>1. /\ ~At(g, "digest") /\ Finish(g, s) /\ outrun' = OutrunBy(g, s, sync[g].compose[s])
          /\ rows' = [rows EXCEPT ![s] = Upserted(rows[s], sync[g].compose[s])]
        BY <1>1 DEF SyncUpsert, At
    <2>2. /\ rows'[s].ref = sync[g].compose[s]
          /\ rows'[s].applied = IF rows[s].ref = sync[g].compose[s] THEN rows[s].applied ELSE NoDigest
          /\ \A t \in Service \ {s} : rows'[t] = rows[t]
        BY <1>a, <2>1 DEF Upserted
    <2> QED
        BY <1>0, <2>1, <2>2, RefGiven
<1>2. ASSUME NEW s \in Service, SyncPrune(g, s) PROVE DigestIInv'
    <2>1. /\ ~At(g, "digest") /\ Finish(g, s) /\ outrun' = OutrunBy(g, s, NoRef)
          /\ rows'[s] = NoRow /\ \A t \in Service \ {s} : rows'[t] = rows[t]
        BY <1>2, <1>a DEF SyncPrune, At
    <2>2. rows'[s].ref = NoRef /\ rows'[s].applied = NoDigest
        BY <2>1 DEF NoRow
    <2> QED
        BY <1>0, <2>1, <2>2, RefGiven
<1>3. ASSUME NEW s \in Service, SyncDigest(g, s) PROVE DigestIInv'
    <2>1. /\ sync[g].pc = "digest" /\ sync'[g].todo = sync[g].todo /\ sync'[g].list = sync[g].list
          /\ UNCHANGED <<rows, outrun>> /\ \A h \in Sync \ {g} : sync'[h] = sync[h]
        BY <1>3, <1>a DEF SyncDigest, At, SyncState, pastVars
    <2> QED
        BY <1>0, <2>1, DigestsLeft
<1>4. ASSUME NEW s \in Service, SyncDigestFails(g, s) PROVE DigestIInv'
    BY <1>0, <1>4, FinishFields, DigestsLeft DEF SyncDigestFails, pastVars
(* Unless the row was outrun, the digest is of the reference it still has.  *)
<1>5. ASSUME NEW s \in Service, SetAppliedDigest(g, s) PROVE DigestIInv'
    <2> DEFINE d == sync[g].seen[sync[g].list[s]]
    <2>1. /\ sync[g].pc = "digest" /\ s \in sync[g].todo /\ Finish(g, s) /\ d # NoDigest
          /\ rows' = IF Exists(s) THEN [rows EXCEPT ![s].applied = d] ELSE rows
          /\ outrun' = outrun
        BY <1>5 DEF SetAppliedDigest, At, pastVars
    <2>2. sync[g].list[s] \in Ref /\ (s \notin outrun => rows[s].ref = sync[g].list[s])
        BY <1>0, <2>1 DEF WorkStands, ListIsCurrent, At
    <2>3. s \notin outrun => d[1] = rows[s].ref
        BY <1>0, <2>1, <2>2 DEF WorkStands
    <2> HIDE DEF d
    <2>4. /\ \A t \in Service : rows'[t].ref = rows[t].ref
          /\ \A t \in Service : rows'[t].applied = rows[t].applied \/ (t = s /\ rows'[t].applied = d)
        BY <1>a, <2>1 DEF Row
    <2>5. ListIsCurrent'
        BY <1>0, <2>1, <2>4, FinishFields, SyncFields DEF ListIsCurrent, At
    <2>6. AppliedDescribesRef'
        BY <1>0, <2>1, <2>3, <2>4 DEF AppliedDescribesRef, Describes
    <2> QED
        BY <2>5, <2>6 DEF DigestIInv
<1>6. CASE SyncPruneSelect(g)
    <2>1. /\ sync'[g].pc = "prune" /\ UNCHANGED <<rows, outrun>>
          /\ \A h \in Sync \ {g} : sync'[h] = sync[h]
        BY <1>6, <1>a DEF SyncPruneSelect, SyncState, pastVars
    <2> QED
        BY <1>0, <2>1, DigestsLeft
<1>7. CASE SyncList(g)
    <2>1. /\ sync'[g].todo = {s \in Service : Exists(s)} /\ sync'[g].list = [s \in Service |-> rows[s].ref]
          /\ UNCHANGED <<rows, outrun>> /\ \A h \in Sync \ {g} : sync'[h] = sync[h]
        BY <1>7, <1>a DEF SyncList, SyncState, pastVars
    <2>2. ListIsCurrent' /\ AppliedDescribesRef'
        BY <1>0, <2>1 DEF ListIsCurrent, AppliedDescribesRef, Describes, At
    <2> QED
        BY <2>2 DEF DigestIInv
<1>8. CASE SyncDone(g)
    <2>1. sync'[g].pc = "idle" /\ UNCHANGED <<rows, outrun>> /\ \A h \in Sync \ {g} : sync'[h] = sync[h]
        BY <1>8, <1>a, Blanks DEF SyncDone, pastVars
    <2> QED
        BY <1>0, <2>1, DigestsLeft
<1> QED
    BY <1>1, <1>2, <1>3, <1>4, <1>5, <1>6, <1>7, <1>8 DEF Resync

LEMMA NextDigests == TypedIInv /\ DigestIInv /\ [Next]_vars => DigestIInv'
<1> SUFFICES ASSUME TypedIInv, DigestIInv, [Next]_vars PROVE DigestIInv'
    OBVIOUS
<1>0. TypeOK /\ rows \in [Service -> Row] /\ sync \in [Sync -> SyncState]
    BY DEF TypedIInv, TypeOK
<1>1. ASSUME UNCHANGED <<rows, sync, outrun>> PROVE DigestIInv'
    BY <1>0, <1>1, DigestsLeft
<1>2. ASSUME NEW g \in Sync, Succeeded(g) PROVE DigestIInv'
    <2>1. sync'[g].pc = "upsert" /\ UNCHANGED <<rows, outrun>> /\ \A h \in Sync \ {g} : sync'[h] = sync[h]
        BY <1>0, <1>2, Blanks DEF Succeeded, SyncState
    <2> QED
        BY <1>0, <2>1, DigestsLeft
<1>3. ASSUME NEW s \in Service, NEW p \in Policy, SetImagePolicy(s, p) PROVE DigestIInv'
    <2>1. \A t \in Service : rows'[t].ref = rows[t].ref /\ rows'[t].applied = rows[t].applied
        BY <1>0, <1>3 DEF SetImagePolicy, Row
    <2> QED
        BY <1>0, <1>3, <2>1, DigestsLeft DEF SetImagePolicy, pastVars
<1>4. CASE PollImages
    BY <1>1, <1>4 DEF PollImages, PollList, PollDigest, PollDigestFails, PollDecide, EnqueueImageUpdate,
                      PollDone, pastVars
<1>5. CASE Restart
    BY <1>0, <1>5, Blanks, DigestsLeft DEF Restart, pastVars
<1>6. CASE UNCHANGED vars
    BY <1>1, <1>6 DEF vars
<1>7. CASE AgentDeploys \/ AgentFails \/ (\E r \in Ref : Push(r)) \/ (\E c \in Compose : Deploy(c))
    BY <1>1, <1>7 DEF Push, AgentDeploys, AgentFails, Deploy, pastVars
<1> QED
    BY <1>2, <1>3, <1>4, <1>5, <1>6, <1>7, ResyncDigests DEF Next, Report

(* UpsertImagePolicy resets applied_digest with the reference, and what     *)
(* SetAppliedDigest writes long after the rows were listed is of the        *)
(* reference the row still has, however many resyncs overlap: for a row to  *)
(* show the digest of another image, one of them must have given it its     *)
(* reference while another had yet to write that digest.                    *)
THEOREM DigestsDescribe == Spec => []AppliedDescribesRef
<1>1. DigestIInv => AppliedDescribesRef
    BY DEF DigestIInv
<1> QED
    BY <1>1, InitDigests, NextDigests, TypedStands, PTL DEF Spec

-----------------------------------------------------------------------------
(* Rows in step with the disk, as long as resyncs do not overlap.           *)

LEMMA InitInStep == Init => InStepIInv
<1> SUFFICES ASSUME Init PROVE InStepIInv
    OBVIOUS
<1>1. OneAtATime /\ PulledIsOnDisk /\ DiskStands
    BY Blanks DEF Init, OneAtATime, PulledIsOnDisk, DiskStands, At
<1>2. RowsMatchDisk
    BY DEF Init, RowsMatchDisk, NeverOutOfStep, NoRow
<1> QED
    BY <1>1, <1>2 DEF InStepIInv

(* A step of a resync that goes on after it.                                *)
LEMMA ResyncGoesOn ==
    ASSUME TypedIInv, InStepIInv, NEW g \in Sync, UNCHANGED <<disk, dep, crashes, overlapped>>,
           sync[g].pc # "idle", sync'[g].pc # "idle", sync'[g].compose = sync[g].compose,
           \A h \in Sync \ {g} : sync'[h] = sync[h],
           (\A s \in Service : InStep(g, s)) => \A s \in Service : InStep(g, s)'
    PROVE  InStepIInv'
<1>1. OneAtATime'
    BY DEF InStepIInv, OneAtATime, At
<1>2. PulledIsOnDisk'
    BY DEF InStepIInv, PulledIsOnDisk
<1>3. DiskStands'
    BY <1>1 DEF InStepIInv, DiskStands, OneAtATime, At
<1>4. RowsMatchDisk'
    BY DEF RowsMatchDisk, NeverOutOfStep, Quiet, At
<1> QED
    BY <1>1, <1>2, <1>3, <1>4 DEF InStepIInv

LEMMA ResyncInStep ==
    ASSUME TypedIInv, InStepIInv, NEW g \in Sync, Resync(g)
    PROVE  InStepIInv'
<1>0. TypeOK /\ WorkStands /\ DiskStands /\ OneAtATime
    BY DEF TypedIInv, InStepIInv
<1>a. /\ sync \in [Sync -> SyncState] /\ sync[g] \in SyncState /\ sync[g].compose \in [Service -> Image]
      /\ sync[g].todo \subseteq Service /\ rows \in [Service -> Row]
    BY <1>0, SyncFields DEF TypeOK
<1> DEFINE Kept == (\A s \in Service : InStep(g, s)) => \A s \in Service : InStep(g, s)'
           Others == \A h \in Sync \ {g} : sync'[h] = sync[h]
<1> USE ImageUpdatesAssumption
<1>1. ASSUME NEW s \in Service, SyncUpsert(g, s) PROVE InStepIInv'
    <2>1. /\ sync[g].pc = "upsert" /\ s \in sync[g].todo /\ Finish(g, s)
          /\ rows' = [rows EXCEPT ![s] = Upserted(rows[s], sync[g].compose[s])]
        BY <1>1 DEF SyncUpsert, At
    <2>2. rows'[s].ref = sync[g].compose[s] /\ \A t \in Service \ {s} : rows'[t] = rows[t]
        BY <1>a, <2>1 DEF Upserted
    <2>3. Kept
        BY <1>0, <2>1, <2>2, FinishFields DEF InStep, At
    <2> QED
        BY <1>0, <1>1, <2>1, <2>3, FinishFields, ResyncGoesOn DEF SyncUpsert, hostVars
<1>2. ASSUME NEW s \in Service, SyncPrune(g, s) PROVE InStepIInv'
    <2>1. /\ sync[g].pc = "prune" /\ s \in sync[g].todo /\ Finish(g, s)
          /\ rows'[s].ref = NoRef /\ \A t \in Service \ {s} : rows'[t] = rows[t]
        BY <1>2, <1>a DEF SyncPrune, At, NoRow
    <2>2. Kept
        BY <1>0, <2>1, FinishFields DEF InStep, At
    <2> QED
        BY <1>0, <1>2, <2>1, <2>2, FinishFields, ResyncGoesOn DEF SyncPrune, hostVars
<1>3. ASSUME NEW s \in Service, SyncDigest(g, s) PROVE InStepIInv'
    <2>1. /\ sync[g].pc = "digest" /\ sync'[g].pc = "digest" /\ sync'[g].compose = sync[g].compose
          /\ rows' = rows /\ Others
        BY <1>3, <1>a DEF SyncDigest, At, SyncState
    <2>2. Kept
        BY <2>1 DEF InStep, At
    <2> QED
        BY <1>3, <2>1, <2>2, ResyncGoesOn DEF SyncDigest, hostVars, pastVars
<1>4. ASSUME NEW s \in Service, SyncDigestFails(g, s) PROVE InStepIInv'
    <2>1. sync[g].pc = "digest" /\ Finish(g, s) /\ rows' = rows
        BY <1>4 DEF SyncDigestFails, At
    <2>2. Kept
        BY <1>0, <2>1, FinishFields DEF InStep, At
    <2> QED
        BY <1>0, <1>4, <2>1, <2>2, FinishFields, ResyncGoesOn DEF SyncDigestFails, hostVars, pastVars
<1>5. ASSUME NEW s \in Service, SetAppliedDigest(g, s) PROVE InStepIInv'
    <2>1. sync[g].pc = "digest" /\ Finish(g, s) /\ \A t \in Service : rows'[t].ref = rows[t].ref
        BY <1>5, <1>a DEF SetAppliedDigest, At, Row
    <2>2. Kept
        BY <1>0, <2>1, FinishFields DEF InStep, At
    <2> QED
        BY <1>0, <1>5, <2>1, <2>2, FinishFields, ResyncGoesOn DEF SetAppliedDigest, hostVars, pastVars
<1>6. CASE SyncPruneSelect(g)
    <2>1. /\ sync[g].pc = "upsert" /\ sync[g].todo = {} /\ sync'[g].pc = "prune"
          /\ sync'[g].todo = Stale(g) /\ sync'[g].compose = sync[g].compose /\ rows' = rows /\ Others
        BY <1>6, <1>a DEF SyncPruneSelect, At, SyncState
    <2>2. Kept
        BY <2>1 DEF InStep, At, Stale, Exists
    <2> QED
        BY <1>6, <2>1, <2>2, ResyncGoesOn DEF SyncPruneSelect, hostVars, pastVars
<1>7. CASE SyncList(g)
    <2>1. /\ sync[g].pc = "prune" /\ sync[g].todo = {} /\ sync'[g].pc = "digest"
          /\ sync'[g].compose = sync[g].compose /\ rows' = rows /\ Others
        BY <1>7, <1>a DEF SyncList, At, SyncState
    <2>2. Kept
        BY <1>a, <2>1 DEF InStep, At, Image
    <2> QED
        BY <1>7, <2>1, <2>2, ResyncGoesOn DEF SyncList, hostVars, pastVars
(* The resync that ends, if it was alone, has brought every row in step.    *)
<1>8. CASE SyncDone(g)
    <2>1. /\ sync[g].pc = "digest" /\ sync'[g].pc = "idle" /\ Others
          /\ UNCHANGED <<rows, disk, dep, crashes, overlapped>>
        BY <1>8, <1>a, Blanks DEF SyncDone, At, hostVars, pastVars
    <2>2. OneAtATime' /\ PulledIsOnDisk'
        BY <1>0, <2>1 DEF InStepIInv, OneAtATime, PulledIsOnDisk, At
    <2>3. ASSUME NEW h \in Sync, h # g, NEW s \in Service PROVE InStep(h, s) => InStep(h, s)'
        BY <2>1, <2>3 DEF InStep, At
    <2>4. DiskStands'
        BY <1>0, <2>1, <2>3 DEF DiskStands, At
    <2>5. RowsMatchDisk'
        BY <1>0, <2>1 DEF RowsMatchDisk, NeverOutOfStep, Quiet, DiskStands, InStep, At
    <2> QED
        BY <2>2, <2>4, <2>5 DEF InStepIInv
<1> QED
    BY <1>1, <1>2, <1>3, <1>4, <1>5, <1>6, <1>7, <1>8 DEF Resync

LEMMA NextInStep == TypedIInv /\ InStepIInv /\ [Next]_vars => InStepIInv'
<1> SUFFICES ASSUME TypedIInv, InStepIInv, [Next]_vars PROVE InStepIInv'
    OBVIOUS
<1>0. TypeOK /\ OneAtATime /\ PulledIsOnDisk /\ DiskStands /\ RowsMatchDisk
    BY DEF TypedIInv, InStepIInv
<1>a. /\ dep \in [state : {"idle", "queued", "pulled"}, compose : Compose] /\ crashes \in Nat
      /\ rows \in [Service -> Row] /\ sync \in [Sync -> SyncState]
    BY <1>0, ImageUpdatesAssumption DEF TypeOK
(* What the poll, the operator and the registry do to the rows' references. *)
<1>1. ASSUME UNCHANGED <<sync, crashes, disk, overlapped>>, \A s \in Service : rows'[s].ref = rows[s].ref,
             dep.state = "pulled" => UNCHANGED dep, dep'.state = "pulled" => dep.state = "pulled"
      PROVE  InStepIInv'
    <2>1. OneAtATime' /\ PulledIsOnDisk'
        BY <1>0, <1>1 DEF OneAtATime, PulledIsOnDisk, At
    <2>2. ASSUME NEW g \in Sync, NEW s \in Service PROVE InStep(g, s) => InStep(g, s)'
        BY <1>1 DEF InStep, At
    <2>3. DiskStands'
        BY <1>0, <1>1, <2>2 DEF DiskStands, At
    <2>4. RowsMatchDisk'
        BY <1>0, <1>1 DEF RowsMatchDisk, NeverOutOfStep, Quiet, At
    <2> QED
        BY <2>1, <2>3, <2>4 DEF InStepIInv
<1>3. ASSUME NEW r \in Ref, Push(r) PROVE InStepIInv'
    BY <1>1, <1>3 DEF Push, hostVars, pastVars
<1>4. CASE AgentDeploys
    <2>1. /\ UNCHANGED <<rows, sync, crashes, overlapped>> /\ disk' = dep.compose
          /\ dep'.state = "pulled" /\ dep'.compose = dep.compose
        BY <1>4, <1>a DEF AgentDeploys, pastVars
    <2>2. OneAtATime' /\ PulledIsOnDisk'
        BY <1>0, <2>1 DEF OneAtATime, PulledIsOnDisk, At
    <2>3. ASSUME NEW g \in Sync, NEW s \in Service PROVE InStep(g, s) => InStep(g, s)'
        BY <2>1 DEF InStep, At
    <2>4. DiskStands'
        BY <1>0, <2>1, <2>3 DEF DiskStands, At
    <2>5. RowsMatchDisk'
        BY <2>1 DEF RowsMatchDisk, NeverOutOfStep, Quiet
    <2> QED
        BY <2>2, <2>4, <2>5 DEF InStepIInv
<1>5. CASE AgentFails
    BY <1>1, <1>5, <1>a DEF AgentFails, hostVars, pastVars
<1>6. ASSUME NEW c \in Compose, Deploy(c) PROVE InStepIInv'
    BY <1>1, <1>6 DEF Deploy, hostVars, pastVars
(* A resync that starts alone has the rows to itself, whatever they are.    *)
<1>7. ASSUME NEW g \in Sync, Succeeded(g) PROVE InStepIInv'
    <2>1. /\ sync'[g].pc = "upsert" /\ sync'[g].compose = dep.compose
          /\ sync'[g].todo = {s \in Service : dep.compose[s] \in Ref}
          /\ \A h \in Sync \ {g} : sync'[h] = sync[h]
        BY <1>7, <1>a, Blanks DEF Succeeded, SyncState
    <2>2. UNCHANGED <<rows, disk, crashes>> /\ dep.state = "pulled" /\ dep'.state = "idle"
        BY <1>7, <1>a DEF Succeeded, hostVars
    <2>3. ~overlapped' => \A h \in Sync \ {g} : sync'[h].pc = "idle"
        BY <1>7, <2>1 DEF Succeeded, At
    <2>4. \A s \in Service : InStep(g, s)'
        BY <2>1 DEF InStep, At
    <2>5. OneAtATime' /\ PulledIsOnDisk'
        BY <2>2, <2>3 DEF OneAtATime, PulledIsOnDisk, At
    <2>6. DiskStands'
        BY <1>0, <2>1, <2>2, <2>3, <2>4 DEF DiskStands, PulledIsOnDisk, At
    <2>7. RowsMatchDisk'
        BY <2>1 DEF RowsMatchDisk, NeverOutOfStep, Quiet, At
    <2> QED
        BY <2>5, <2>6, <2>7 DEF InStepIInv
<1>8. ASSUME NEW s \in Service, NEW p \in Policy, SetImagePolicy(s, p) PROVE InStepIInv'
    <2>1. \A t \in Service : rows'[t].ref = rows[t].ref
        BY <1>8, <1>a DEF SetImagePolicy, Row
    <2> QED
        BY <1>1, <1>8, <2>1 DEF SetImagePolicy, hostVars, pastVars
<1>9. CASE PollImages
    <2>1. UNCHANGED <<rows, sync, crashes, disk, overlapped>>
        BY <1>9 DEF PollImages, PollList, PollDigest, PollDigestFails, PollDecide, EnqueueImageUpdate,
                    PollDone, hostVars, pastVars
    <2>2. UNCHANGED dep \/ (dep.state = "idle" /\ dep'.state = "queued")
        BY <1>9, <1>a DEF PollImages, PollList, PollDigest, PollDigestFails, PollDecide,
                          EnqueueImageUpdate, PollDone
    <2> QED
        BY <1>1, <2>1, <2>2
<1>10. CASE Restart
    <2>1. /\ crashes' # 0 /\ UNCHANGED <<dep, disk, overlapped>> /\ \A g \in Sync : sync'[g].pc = "idle"
        BY <1>10, <1>a, Blanks DEF Restart, hostVars, pastVars
    <2> QED
        BY <1>0, <2>1 DEF InStepIInv, OneAtATime, PulledIsOnDisk, DiskStands, RowsMatchDisk,
                          NeverOutOfStep, At
<1>11. CASE UNCHANGED vars
    BY <1>1, <1>11 DEF vars
<1> QED
    BY <1>3, <1>4, <1>5, <1>6, <1>7, <1>8, <1>9, <1>10, <1>11, ResyncInStep DEF Next, Report

(* syncImagePolicies leaves the rows in step with the compose file on disk, *)
(* for any services, references and files, where no restart cut a resync    *)
(* short and the last one started alone, whatever overlapped before it;     *)
(* ImageUpdatesOverlap.cfg makes TLC show what two at once leave behind.    *)
THEOREM RowsAreInStep == Spec => []RowsMatchDisk
<1>1. InStepIInv => RowsMatchDisk
    BY DEF InStepIInv
<1> QED
    BY <1>1, InitInStep, NextInStep, TypedStands, PTL DEF Spec
=============================================================================
