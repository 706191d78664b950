---------------------------- MODULE TunnelProofs ----------------------------
(* The registry of live connections and the snapshot cache, proved.         *)
EXTENDS Tunnel, TLAPS

(* Connections are opened in order.                                         *)
OpenedInOrder ==
    \A b, c \in Conn : b < c /\ loop[c].pc # "unborn" => loop[b].pc # "unborn"

(* The registered connection is read, and the newest that is read is the    *)
(* registered one unless an older handler came late.                        *)
RegisteredIsOpen == registry # NoConn => Open(registry)
NewestHasIt == \A c \in Conn \ late : Open(c) /\ IsNewest(c) => registry = c

(* As long as connections never overlapped, one has a handler at a time,    *)
(* and what its cache remembers is what was written last.                   *)
Started(c) == loop[c].pc \in {"accepted", "read", "deliver"}
CachesStand ==
    apart =>
        /\ \A b, c \in Conn : Started(b) /\ Started(c) => b = c
        /\ \A c \in Conn : Open(c) => \A t \in Table : cache[c][t] # 0 => cache[c][t] = db[t]
        /\ \A c \in Conn : loop[c].pc \in {"unborn", "accepted"} => \A t \in Table : cache[c][t] = 0

IInv == TypeOK /\ OpenedInOrder /\ RegisteredIsOpen /\ NewestHasIt /\ CachesStand

LEMMA NoConnIsNone == NoConn \notin Conn
BY TunnelAssumption DEF NoConn, Conn

LEMMA MessageFields ==
    ASSUME NEW m \in Message
    PROVE  /\ m.type = "state" => m.v \in State
           /\ m.type = "command_result" => m.k \in Cmd
BY DEF Message, StateMsg, ResultMsg

LEMMA InitIInv == Init => IInv
<1> SUFFICES ASSUME Init PROVE IInv
    OBVIOUS
<1> USE TunnelAssumption
<1>1. \A c \in Conn : loop[c].pc = "unborn" /\ ~ Open(c) /\ ~ Started(c)
    BY DEF Init, Open, Started
<1>2. TypeOK
    BY DEF Init, TypeOK, State, LoopState, CmdState, NewCmd
<1>3. \A c \in Conn : \A t \in Table : cache[c][t] = 0
    BY DEF Init
<1> QED
    BY <1>1, <1>2, <1>3 DEF Init, IInv, OpenedInOrder, RegisteredIsOpen, NewestHasIt, CachesStand

(* A handler that goes on as it was: not started, accepted, read or ended.  *)
Alike(c) ==
    /\ loop'[c].pc = "unborn" <=> loop[c].pc = "unborn"
    /\ loop'[c].pc = "accepted" <=> loop[c].pc = "accepted"
    /\ loop'[c].pc = "ended" <=> loop[c].pc = "ended"

(* What a step may do to the loops, the registry and the caches and leave   *)
(* the invariant standing: a loop that is read goes on being read.          *)
LEMMA SameConnections ==
    ASSUME IInv, TypeOK', UNCHANGED <<registry, cache, db, apart, late>>,
           \A c \in Conn : Alike(c)
    PROVE  IInv'
<1>0. \A c \in Conn : /\ Open(c)' <=> Open(c)
                      /\ Started(c)' <=> Started(c)
                      /\ IsNewest(c)' <=> IsNewest(c)
    BY DEF IInv, TypeOK, LoopState, Open, Started, IsNewest, Alike
<1>1. OpenedInOrder'
    BY DEF IInv, OpenedInOrder, Alike
<1>2. RegisteredIsOpen'
    BY <1>0 DEF IInv, RegisteredIsOpen, TypeOK
<1>3. NewestHasIt'
    BY <1>0 DEF IInv, NewestHasIt
<1>4. CachesStand'
    <2>1. \A c \in Conn : loop'[c].pc \in {"unborn", "accepted"} <=> loop[c].pc \in {"unborn", "accepted"}
        BY DEF Alike
    <2> QED
        BY <1>0, <2>1 DEF IInv, CachesStand
<1> QED
    BY <1>1, <1>2, <1>3, <1>4 DEF IInv

LEMMA AgentIInv ==
    ASSUME IInv, StateChanges \/ AgentPushes \/ AgentDrops \/ \E k \in Cmd : AgentAnswers(k)
    PROVE  IInv'
<1> USE TunnelAssumption, NoConnIsNone
<1>0. TypeOK
    BY DEF IInv
<1>1. CASE StateChanges
    <2>1. TypeOK'
        BY <1>0, <1>1 DEF StateChanges, TypeOK, State, stateVars, history
    <2> QED
        BY <1>1, <2>1, SameConnections DEF StateChanges, stateVars, history, Alike
<1>2. CASE AgentDrops
    <2>1. TypeOK'
        BY <1>0, <1>2 DEF AgentDrops, TypeOK, stateVars, history
    <2> QED
        BY <1>2, <2>1, SameConnections DEF AgentDrops, stateVars, history, Alike
<1>3. ASSUME NEW m \in Message, link # NoConn, Post(link, m) PROVE wire' \in [Conn -> Seq(Message)]
    BY <1>0, <1>3 DEF Post, TypeOK
<1>4. CASE AgentPushes
    <2>1. StateMsg(state) \in Message
        BY <1>0 DEF TypeOK, Message
    <2>2. wire' \in [Conn -> Seq(Message)]
        BY <1>3, <1>4, <2>1 DEF AgentPushes
    <2>3. TypeOK'
        BY <1>0, <1>4, <2>2 DEF AgentPushes, TypeOK, stateVars, agentVars, history
    <2> QED
        BY <1>4, <2>3, SameConnections DEF AgentPushes, stateVars, history, Alike
<1>5. ASSUME NEW k \in Cmd, AgentAnswers(k) PROVE IInv'
    <2>1. ResultMsg(k) \in Message
        BY DEF Message
    <2>2. wire' \in [Conn -> Seq(Message)]
        <3>1. CASE link = NoConn
            <4>1. link \notin Conn /\ wire \in [Conn -> Seq(Message)]
                BY <1>0, <3>1 DEF TypeOK
            <4>2. wire' = [wire EXCEPT ![link] = Append(@, ResultMsg(k))]
                BY <1>5 DEF AgentAnswers, Post
            <4>3. \A w : [wire EXCEPT ![link] = w] = [c \in Conn |-> wire[c]]
                BY <4>1
            <4> QED
                BY <4>1, <4>2, <4>3
        <3>2. CASE link # NoConn
            BY <1>3, <1>5, <2>1, <3>2 DEF AgentAnswers
        <3> QED
            BY <3>1, <3>2
    <2>3. cmd' \in [Cmd -> CmdState]
        <3>1. [cmd[k] EXCEPT !.run = FALSE] \in CmdState /\ cmd \in [Cmd -> CmdState]
            BY <1>0 DEF TypeOK, CmdState
        <3>2. cmd' = [cmd EXCEPT ![k] = [cmd[k] EXCEPT !.run = FALSE]]
            BY <1>5 DEF AgentAnswers
        <3> QED
            BY <3>1, <3>2
    <2>4. TypeOK'
        BY <1>0, <1>5, <2>2, <2>3 DEF AgentAnswers, TypeOK, stateVars, agentVars, history
    <2> QED
        BY <1>5, <2>4, SameConnections DEF AgentAnswers, stateVars, history, Alike
<1> QED
    BY <1>1, <1>2, <1>4, <1>5

(* A connection that is accepted is not registered yet.                     *)
LEMMA AcceptIInv ==
    ASSUME IInv, NEW c \in Conn, Accept(c)
    PROVE  IInv'
<1> USE TunnelAssumption, NoConnIsNone
<1>0. TypeOK /\ loop \in [Conn -> LoopState]
    BY DEF IInv, TypeOK
<1>1. /\ loop'[c].pc = "accepted" /\ \A b \in Conn : b # c => loop'[b] = loop[b]
      /\ loop' \in [Conn -> LoopState]
    BY <1>0 DEF Accept, LoopState
<1>2. /\ registry' = registry /\ link' = c /\ cache' = cache /\ db' = db /\ loop[c].pc = "unborn"
      /\ apart' = (apart /\ \A b \in Conn : loop[b].pc \in {"unborn", "ended"}) /\ late' = late
    BY DEF Accept, stateVars
<1>3. apart' \in BOOLEAN
    BY <1>2
<1>4. TypeOK'
    BY <1>0, <1>1, <1>2, <1>3 DEF Accept, TypeOK, stateVars
<1>5. \A b \in Conn : (Open(b)' <=> Open(b)) /\ (IsNewest(b)' <=> IsNewest(b))
    BY <1>1, <1>2 DEF Open, IsNewest
<1>6. OpenedInOrder'
    BY <1>1, <1>2 DEF IInv, OpenedInOrder, Accept, Conn
<1>7. RegisteredIsOpen'
    BY <1>0, <1>2, <1>5 DEF IInv, RegisteredIsOpen, TypeOK
<1>8. NewestHasIt'
    BY <1>2, <1>5 DEF IInv, NewestHasIt
<1>9. CachesStand'
    <2>1. SUFFICES ASSUME apart' PROVE CachesStand'
        BY DEF CachesStand
    <2>2. \A b \in Conn : Started(b)' => b = c
        BY <1>1, <1>2, <2>1 DEF Started
    <2> QED
        BY <1>1, <1>2, <1>5, <2>1, <2>2 DEF IInv, CachesStand
<1> QED
    BY <1>4, <1>6, <1>7, <1>8, <1>9 DEF IInv

(* A connection that is registered replaces an older one, or makes every    *)
(* newer one that is read late.                                             *)
LEMMA RegisterIInv ==
    ASSUME IInv, NEW c \in Conn, Register(c)
    PROVE  IInv'
<1> USE TunnelAssumption, NoConnIsNone
<1>0. TypeOK /\ loop \in [Conn -> LoopState]
    BY DEF IInv, TypeOK
<1>1. /\ loop'[c].pc = "read" /\ Open(c)' /\ \A b \in Conn : b # c => loop'[b] = loop[b] /\ (Open(b)' <=> Open(b))
      /\ loop' \in [Conn -> LoopState]
    BY <1>0 DEF Register, Reading, Open, LoopState
<1>2. /\ registry' = c /\ link' = link /\ cache' = cache /\ db' = db /\ loop[c].pc = "accepted"
      /\ apart' = apart /\ late' = late \union {b \in Conn : b > c /\ Open(b)}
    BY DEF Register, agentVars, stateVars
<1>3. TypeOK'
    BY <1>0, <1>1, <1>2 DEF Register, TypeOK, agentVars, stateVars
<1>4. OpenedInOrder'
    BY <1>1, <1>2 DEF IInv, OpenedInOrder
<1>5. RegisteredIsOpen'
    BY <1>1, <1>2 DEF RegisteredIsOpen
<1>6. NewestHasIt'
    <2>1. SUFFICES ASSUME NEW d \in Conn, d \notin late', Open(d)', IsNewest(d)', d # c PROVE FALSE
        BY <1>2 DEF NewestHasIt
    <2>2. ~ d > c
        BY <1>1, <1>2, <2>1
    <2>3. ~ c > d
        BY <1>1, <2>1 DEF IsNewest
    <2> QED
        BY <2>1, <2>2, <2>3 DEF Conn
<1>7. CachesStand'
    <2>1. SUFFICES ASSUME apart PROVE CachesStand'
        BY <1>2 DEF CachesStand
    <2>2. \A b \in Conn : Started(b)' <=> Started(b)
        BY <1>1, <1>2 DEF Started
    <2>3. \A t \in Table : cache[c][t] = 0
        BY <1>2, <2>1 DEF IInv, CachesStand
    <2>4. \A b \in Conn : loop'[b].pc \in {"unborn", "accepted"} => loop[b].pc \in {"unborn", "accepted"}
        BY <1>1
    <2>5. \A b \in Conn : Open(b)' => b = c \/ Open(b)
        BY <1>1
    <2> QED
        BY <1>2, <2>1, <2>2, <2>3, <2>4, <2>5 DEF IInv, CachesStand
<1> QED
    BY <1>3, <1>4, <1>5, <1>6, <1>7 DEF IInv

(* A loop that ends takes back its own registration and no other.           *)
LEMMA EndIInv ==
    ASSUME IInv, NEW c \in Conn, EndLoop(c)
    PROVE  IInv'
<1> USE TunnelAssumption, NoConnIsNone
<1>0. TypeOK /\ loop \in [Conn -> LoopState] /\ registry \in Conn \union {NoConn}
    BY DEF IInv, TypeOK
<1>1. /\ loop'[c].pc = "ended" /\ ~ Open(c)' /\ \A b \in Conn : b # c => loop'[b] = loop[b] /\ (Open(b)' <=> Open(b))
      /\ loop' \in [Conn -> LoopState]
    BY <1>0 DEF EndLoop, Open, LoopState
<1>2. /\ registry' = IF registry = c THEN NoConn ELSE registry
      /\ link' = IF link = c THEN NoConn ELSE link
      /\ cache' = cache /\ db' = db /\ loop[c].pc = "read" /\ apart' = apart /\ late' = late
    BY DEF EndLoop, stateVars, history
<1>3. TypeOK'
    BY <1>0, <1>1, <1>2 DEF EndLoop, TypeOK, stateVars, history
<1>4. OpenedInOrder'
    BY <1>1, <1>2 DEF IInv, OpenedInOrder
<1>5. RegisteredIsOpen'
    BY <1>0, <1>1, <1>2 DEF IInv, RegisteredIsOpen
<1>6. NewestHasIt'
    <2>1. ASSUME NEW d \in Conn, d \notin late', Open(d)', IsNewest(d)' PROVE registry' = d
        <3>1. d # c /\ Open(d)
            BY <1>1, <2>1
        <3>2. IsNewest(d)
            BY <1>1, <2>1 DEF IsNewest
        <3>3. registry = d
            BY <1>2, <2>1, <3>1, <3>2 DEF IInv, NewestHasIt
        <3> QED
            BY <1>2, <3>1, <3>3
    <2> QED
        BY <2>1 DEF NewestHasIt
<1>7. CachesStand'
    <2>1. \A b \in Conn : Started(b)' => Started(b)
        BY <1>1, <1>2 DEF Started
    <2>2. \A b \in Conn : loop'[b].pc \in {"unborn", "accepted"} => loop[b].pc \in {"unborn", "accepted"}
        BY <1>1
    <2>3. \A b \in Conn : Open(b)' => Open(b)
        BY <1>1
    <2> QED
        BY <1>2, <2>1, <2>2, <2>3 DEF IInv, CachesStand
<1> QED
    BY <1>3, <1>4, <1>5, <1>6, <1>7 DEF IInv

(* applyState writes what it remembers, and forgets what it could not write. *)
LEMMA ApplyIInv ==
    ASSUME IInv, NEW c \in Conn, NEW done \in SUBSET Table, ApplyState(c, done)
    PROVE  IInv'
<1> USE TunnelAssumption, NoConnIsNone
<1> DEFINE v == Head(wire[c]).v
           row == [t \in Table |-> IF t \in {u \in Table : cache[c][u] # v} \ done THEN 0 ELSE v]
<1>0. /\ TypeOK /\ wire[c] \in Seq(Message) /\ cache \in [Conn -> [Table -> 0 .. MaxState + 1]]
      /\ db \in [Table -> 0 .. MaxState + 1] /\ wire \in [Conn -> Seq(Message)]
    BY DEF IInv, TypeOK
<1>1. Head(wire[c]) \in Message /\ Tail(wire[c]) \in Seq(Message)
    BY <1>0 DEF ApplyState
<1>2. v \in 1 .. MaxState + 1
    BY <1>1, MessageFields DEF ApplyState, State
<1>3. /\ db' = [t \in Table |-> IF t \in {u \in Table : cache[c][u] # v} \cap done THEN v ELSE db[t]]
      /\ cache' = [cache EXCEPT ![c] = row]
      /\ wire' = [wire EXCEPT ![c] = Tail(@)]
      /\ loop' = loop /\ registry' = registry /\ cmd' = cmd /\ apart' = apart /\ link' = link /\ late' = late
      /\ state' = state /\ loop[c].pc = "read"
    BY DEF ApplyState, agentVars, history
<1> HIDE DEF v
<1>4. /\ \A t \in Table : row[t] = IF cache[c][t] # v /\ t \notin done THEN 0 ELSE v
      /\ \A t \in Table : db'[t] = IF cache[c][t] # v /\ t \in done THEN v ELSE db[t]
      /\ row \in [Table -> 0 .. MaxState + 1] /\ db' \in [Table -> 0 .. MaxState + 1]
    <2>1. \A t \in Table : row[t] = IF cache[c][t] # v /\ t \notin done THEN 0 ELSE v
        OBVIOUS
    <2>2. \A t \in Table : db'[t] = IF cache[c][t] # v /\ t \in done THEN v ELSE db[t]
        BY <1>3
    <2>3. 0 \in 0 .. MaxState + 1 /\ v \in 0 .. MaxState + 1
        BY <1>2
    <2>4. row \in [Table -> 0 .. MaxState + 1]
        BY <2>3
    <2>5. db' \in [Table -> 0 .. MaxState + 1]
        BY <1>0, <1>3, <2>3
    <2> QED
        BY <2>1, <2>2, <2>4, <2>5
<1> HIDE DEF row
<1>5. /\ cache' \in [Conn -> [Table -> 0 .. MaxState + 1]] /\ cache'[c] = row
      /\ \A b \in Conn : b # c => cache'[b] = cache[b]
    BY <1>0, <1>3, <1>4
<1>6. wire' \in [Conn -> Seq(Message)]
    BY <1>0, <1>1, <1>3
<1>7. TypeOK'
    BY <1>0, <1>3, <1>4, <1>5, <1>6 DEF TypeOK
<1>8. OpenedInOrder' /\ RegisteredIsOpen' /\ NewestHasIt'
    BY <1>3 DEF IInv, OpenedInOrder, RegisteredIsOpen, NewestHasIt, IsNewest, Open
<1>9. CachesStand'
    <2>1. SUFFICES ASSUME apart PROVE CachesStand'
        BY <1>3 DEF CachesStand
    <2>2. Open(c) /\ \A b \in Conn : Open(b) => b = c
        BY <1>3, <2>1 DEF IInv, CachesStand, Open, Started
    <2>3. \A t \in Table : cache'[c][t] # 0 => cache'[c][t] = db'[t]
        <3>1. ASSUME NEW t \in Table, cache'[c][t] # 0 PROVE cache'[c][t] = db'[t]
            <4>1. cache'[c][t] = v
                BY <1>4, <1>5, <3>1
            <4>2. CASE cache[c][t] = v
                BY <1>2, <1>4, <2>1, <2>2, <4>1, <4>2 DEF IInv, CachesStand
            <4>3. CASE cache[c][t] # v
                BY <1>4, <1>5, <3>1, <4>1, <4>3
            <4> QED
                BY <4>2, <4>3
        <3> QED
            BY <3>1
    <2>4. \A b \in Conn : (Open(b)' <=> Open(b)) /\ (Started(b)' <=> Started(b)) /\ loop'[b].pc = loop[b].pc
        BY <1>3 DEF Open, Started
    <2>6. \A a, b \in Conn : Started(a) /\ Started(b) => a = b
        BY <2>1 DEF IInv, CachesStand
    <2>5. \A b \in Conn : loop[b].pc \in {"unborn", "accepted"} => \A t \in Table : cache'[b][t] = 0
        BY <1>3, <1>5, <2>1 DEF IInv, CachesStand
    <2> QED
        BY <2>2, <2>3, <2>4, <2>5, <2>6 DEF CachesStand
<1> QED
    BY <1>7, <1>8, <1>9 DEF IInv

LEMMA ReplyIInv ==
    ASSUME IInv, NEW c \in Conn, ReadResult(c) \/ Deliver(c)
    PROVE  IInv'
<1> USE TunnelAssumption, NoConnIsNone
<1>0. /\ TypeOK /\ wire[c] \in Seq(Message) /\ wire \in [Conn -> Seq(Message)]
      /\ loop \in [Conn -> LoopState] /\ cmd \in [Cmd -> CmdState]
    BY DEF IInv, TypeOK
<1>1. CASE ReadResult(c)
    <2>1. Head(wire[c]) \in Message /\ Tail(wire[c]) \in Seq(Message)
        BY <1>0, <1>1 DEF ReadResult
    <2>2. Head(wire[c]).k \in Cmd
        BY <1>1, <2>1, MessageFields DEF ReadResult
    <2>3. wire' \in [Conn -> Seq(Message)]
        BY <1>0, <1>1, <2>1 DEF ReadResult
    <2>4. /\ loop' \in [Conn -> LoopState]
          /\ \A b \in Conn : Alike(b)
        BY <1>0, <1>1, <2>2 DEF ReadResult, LoopState, Alike
    <2>5. TypeOK'
        BY <1>0, <1>1, <2>3, <2>4 DEF ReadResult, TypeOK, agentVars, stateVars, history
    <2> QED
        BY <1>1, <2>4, <2>5, SameConnections DEF ReadResult, stateVars, history
<1>2. CASE Deliver(c)
    <2>1. cmd' \in [Cmd -> CmdState]
        BY <1>0, <1>2 DEF Deliver, CmdState
    <2>2. /\ loop' \in [Conn -> LoopState]
          /\ \A b \in Conn : Alike(b)
        BY <1>0, <1>2 DEF Deliver, LoopState, Reading, Alike
    <2>3. TypeOK'
        BY <1>0, <1>2, <2>1, <2>2 DEF Deliver, TypeOK, agentVars, stateVars, history
    <2> QED
        BY <1>2, <2>2, <2>3, SameConnections DEF Deliver, stateVars, history
<1> QED
    BY <1>1, <1>2

LEMMA CommandIInv ==
    ASSUME IInv, NEW k \in Cmd, SendCommand(k) \/ Caller(k)
    PROVE  IInv'
<1> USE TunnelAssumption, NoConnIsNone
<1>0. /\ TypeOK /\ cmd \in [Cmd -> CmdState] /\ cmd[k] \in CmdState /\ registry \in Conn \union {NoConn}
    BY DEF IInv, TypeOK
<1>1. cmd' \in [Cmd -> CmdState]
    <2>1. CASE SendCommand(k)
        BY <1>0, <2>1 DEF SendCommand, CmdState, NewCmd
    <2>2. CASE WriteCommand(k)
        <3>1. (link = cmd[k].conn) \in BOOLEAN
            OBVIOUS
        <3> QED
            BY <1>0, <2>2, <3>1 DEF WriteCommand, CmdState
    <2>3. CASE ReceiveReply(k) \/ TimeOut(k)
        BY <1>0, <2>3 DEF ReceiveReply, TimeOut, CmdState
    <2> QED
        BY <2>1, <2>2, <2>3 DEF Caller
<1>2. UNCHANGED <<agentVars, wire, loop, stateVars, registry, history>>
    BY DEF SendCommand, Caller, WriteCommand, ReceiveReply, TimeOut
<1>3. TypeOK'
    BY <1>0, <1>1, <1>2 DEF TypeOK, agentVars, stateVars, history
<1> QED
    BY <1>2, <1>3, SameConnections DEF stateVars, history, Alike

LEMMA NextIInv == IInv /\ [Next]_vars => IInv'
<1> SUFFICES ASSUME IInv, [Next]_vars PROVE IInv'
    OBVIOUS
<1>1. CASE StateChanges \/ AgentPushes \/ AgentDrops \/ \E k \in Cmd : AgentAnswers(k)
    BY <1>1, AgentIInv
<1>2. ASSUME NEW k \in Cmd, SendCommand(k) \/ Caller(k) PROVE IInv'
    BY <1>2, CommandIInv
<1>3. ASSUME NEW c \in Conn, Accept(c) PROVE IInv'
    BY <1>3, AcceptIInv
<1>7. ASSUME NEW c \in Conn, Register(c) PROVE IInv'
    BY <1>7, RegisterIInv
<1>4. ASSUME NEW c \in Conn, EndLoop(c) PROVE IInv'
    BY <1>4, EndIInv
<1>5. ASSUME NEW c \in Conn, ReadLoop(c) PROVE IInv'
    BY <1>5, ApplyIInv, ReplyIInv DEF ReadLoop
<1>6. CASE UNCHANGED vars
    <2>1. TypeOK'
        BY <1>6 DEF IInv, TypeOK, vars
    <2> QED
        BY <1>6, <2>1, SameConnections DEF vars, Alike
<1> QED
    BY <1>1, <1>2, <1>3, <1>4, <1>5, <1>6, <1>7 DEF Next

LEMMA TunnelStands == Spec => []IInv
<1> QED
    BY InitIInv, NextIInv, PTL DEF Spec

(* tunnelRegistry.remove: "the newer connection must survive".  Whatever    *)
(* order the handlers of old and new connections register and end in, none  *)
(* but an open one is registered, and the newest that is read is, unless an *)
(* older one's handler came to tunnels.set after it.                        *)
THEOREM NewestSurvives == Spec => []NewestIsRegistered
<1>1. IInv => NewestIsRegistered
    BY DEF IInv, RegisteredIsOpen, NewestHasIt, NewestIsRegistered
<1> QED
    BY <1>1, TunnelStands, PTL

(* stateCache.unchanged "reports whether table's content is what was last   *)
(* written": so it is as long as the host's connections never overlapped,   *)
(* whatever writes failed.                                                  *)
THEOREM CacheIsHonestApart == Spec => [](apart => CacheIsWritten)
<1>1. IInv => (apart => CacheIsWritten)
    <2>1. SUFFICES ASSUME IInv, apart PROVE CacheIsWritten
        OBVIOUS
    <2>2. registry # NoConn => registry \in Conn /\ Open(registry)
        BY <2>1 DEF IInv, TypeOK, RegisteredIsOpen
    <2> QED
        BY <2>1, <2>2 DEF IInv, CachesStand, CacheIsWritten
<1> QED
    BY <1>1, TunnelStands, PTL
=============================================================================
