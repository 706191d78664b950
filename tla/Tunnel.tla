------------------------------- MODULE Tunnel -------------------------------
(***************************************************************************)
(* The persistent tunnel of one host (hosts share nothing here): the        *)
(* registry of live connections, the read loop of each, the snapshot tables *)
(* that state pushes rewrite through a per-connection cache, and the        *)
(* commands that wait for their result.                                     *)
(***************************************************************************)
EXTENDS Naturals, Sequences

CONSTANTS MaxConn,  \* bound: connections the agent ever opens
          Cmd,      \* commands (one random request id each)
          Table,    \* the snapshot tables: containers, images, volumes, networks
          MaxState, \* bound: times the host's state changes
          MaxWire   \* bound: messages under way on a connection

ASSUME TunnelAssumption ==
    /\ MaxConn \in Nat /\ 0 \notin Cmd
    /\ MaxState \in Nat /\ MaxWire \in Nat \ {0}

Conn == 1 .. MaxConn  \* connections, in order of opening
NoConn == 0

VARIABLES
    state,     \* the host's real state, a number
    link,      \* the connection the agent uses (NoConn: none)
    wire,      \* wire[c] : agent -> controller messages not read yet
    loop,      \* loop[c] : the read loop of connection c
    cache,     \* cache[c][t] : stateCache, the state last written (0: none)
    db,        \* db[t] : what table t says
    registry,  \* tunnelRegistry.conns[host]
    cmd,       \* cmd[k] : the sendWithin of command k
    apart,     \* history: no connection was accepted before the handlers of others had ended
    late       \* history: connections that an older one's delayed handler unregistered

vars == <<state, link, wire, loop, cache, db, registry, cmd, apart, late>>
agentVars == <<state, link>>
history == <<apart, late>>
stateVars == <<cache, db>>

State == 1 .. MaxState + 1
StateMsg(v) == [type |-> "state", v |-> v]
ResultMsg(k) == [type |-> "command_result", k |-> k]
Message == {StateMsg(v) : v \in State} \union {ResultMsg(k) : k \in Cmd}

(* A handler has accepted its connection, is reading, or holds the reply    *)
(* channel of a command.                                                    *)
LoopState == [pc : {"unborn", "accepted", "read", "deliver", "ended"}, k : Cmd \union {NoConn}]
Reading == [pc |-> "read", k |-> NoConn]

(* pending: the reply channel is in tc.pending; full: a reply lies in it.   *)
CmdState == [pc : {"new", "write", "wait", "over"}, conn : Conn \union {NoConn},
             pending : BOOLEAN, full : BOOLEAN, run : BOOLEAN, ok : BOOLEAN]
NewCmd == [pc |-> "new", conn |-> NoConn, pending |-> FALSE, full |-> FALSE,
           run |-> FALSE, ok |-> FALSE]

Open(c) == loop[c].pc \in {"read", "deliver"}
Room(c) == Len(wire[c]) < MaxWire
Post(c, m) == wire' = [wire EXCEPT ![c] = Append(@, m)]

-----------------------------------------------------------------------------
(* The agent (a separate program).                                          *)

StateChanges ==
    /\ state <= MaxState
    /\ state' = state + 1
    /\ UNCHANGED <<link, wire, loop, stateVars, registry, cmd, history>>

(* It pushes its whole state, again and again.                              *)
AgentPushes ==
    /\ link # NoConn /\ Room(link)
    /\ Post(link, StateMsg(state))
    /\ UNCHANGED <<agentVars, loop, stateVars, registry, cmd, history>>

AgentDrops ==
    /\ link # NoConn
    /\ link' = NoConn
    /\ UNCHANGED <<state, wire, loop, stateVars, registry, cmd, history>>

(* A command that was written on its connection is run once, and answered.  *)
AgentAnswers(k) ==
    /\ cmd[k].pc # "new" /\ cmd[k].run
    /\ link = cmd[k].conn /\ Room(link)
    /\ Post(link, ResultMsg(k))
    /\ cmd' = [cmd EXCEPT ![k].run = FALSE]
    /\ UNCHANGED <<agentVars, loop, stateVars, registry, history>>

-----------------------------------------------------------------------------
(* tunnelHandler.                                                           *)

(* websocket.Accept: the agent has its connection from here on.             *)
Accept(c) ==
    /\ link = NoConn
    /\ loop[c].pc = "unborn" /\ \A b \in Conn : b < c => loop[b].pc # "unborn"
    /\ link' = c
    /\ loop' = [loop EXCEPT ![c].pc = "accepted"]
    /\ apart' = (apart /\ \A b \in Conn : loop[b].pc \in {"unborn", "ended"})
    /\ UNCHANGED <<state, wire, stateVars, registry, cmd, late>>

(* The handler registers its connection, whichever is registered, and reads *)
(* with an empty cache.  Handlers of two connections may get here in either *)
(* order.                                                                   *)
Register(c) ==
    /\ loop[c].pc = "accepted"
    /\ loop' = [loop EXCEPT ![c] = Reading]
    /\ registry' = c
    /\ late' = late \union {b \in Conn : b > c /\ Open(b)}
    /\ UNCHANGED <<agentVars, wire, stateVars, cmd, apart>>

(* Slip: the registration is removed whoever holds it by now.               *)
EndLoopBlindly(c) ==
    /\ loop[c].pc = "read"
    /\ loop' = [loop EXCEPT ![c].pc = "ended"]
    /\ registry' = NoConn
    /\ link' = IF link = c THEN NoConn ELSE link
    /\ UNCHANGED <<state, wire, stateVars, cmd, history>>

(* The read fails: nothing more comes, or the connection broke.  Its        *)
(* registration is removed unless a newer one has replaced it.              *)
EndLoop(c) ==
    /\ loop[c].pc = "read"
    /\ loop' = [loop EXCEPT ![c].pc = "ended"]
    /\ registry' = IF registry = c THEN NoConn ELSE registry
    /\ link' = IF link = c THEN NoConn ELSE link
    /\ UNCHANGED <<state, wire, stateVars, cmd, history>>

(* Slip: the hash is remembered although the write failed.                  *)
ApplyStateEagerly(c, done) ==
    /\ loop[c].pc = "read" /\ wire[c] # <<>> /\ Head(wire[c]).type = "state"
    /\ LET v == Head(wire[c]).v
           todo == {t \in Table : cache[c][t] # v} IN
       /\ db' = [t \in Table |-> IF t \in todo \cap done THEN v ELSE db[t]]
       /\ cache' = [cache EXCEPT ![c] = [t \in Table |-> v]]
    /\ wire' = [wire EXCEPT ![c] = Tail(@)]
    /\ UNCHANGED <<agentVars, loop, registry, cmd, history>>

(* applyState: every table whose hash differs from the cached one is        *)
(* rewritten in a transaction of its own; done is the set of writes that    *)
(* succeed (retryOnBusy included).  A failed table is forgotten.            *)
ApplyState(c, done) ==
    /\ loop[c].pc = "read" /\ wire[c] # <<>> /\ Head(wire[c]).type = "state"
    /\ LET v == Head(wire[c]).v
           todo == {t \in Table : cache[c][t] # v} IN
       /\ db' = [t \in Table |-> IF t \in todo \cap done THEN v ELSE db[t]]
       /\ cache' = [cache EXCEPT ![c] = [t \in Table |-> IF t \in todo \ done THEN 0 ELSE v]]
    /\ wire' = [wire EXCEPT ![c] = Tail(@)]
    /\ UNCHANGED <<agentVars, loop, registry, cmd, history>>

(* A result: its reply channel is looked up under the lock ...              *)
ReadResult(c) ==
    /\ loop[c].pc = "read" /\ wire[c] # <<>> /\ Head(wire[c]).type = "command_result"
    /\ LET k == Head(wire[c]).k IN
       loop' = IF cmd[k].pending /\ cmd[k].conn = c
               THEN [loop EXCEPT ![c] = [pc |-> "deliver", k |-> k]] ELSE loop
    /\ wire' = [wire EXCEPT ![c] = Tail(@)]
    /\ UNCHANGED <<agentVars, stateVars, registry, cmd, history>>

(* Slip: an unbuffered channel takes a reply only while somebody waits.     *)
HasRoomUnbuffered(k) == cmd[k].pc = "wait"

(* The channel is buffered(1).                                              *)
HasRoom(k) == ~cmd[k].full

(* ... and the reply is put into it, which blocks while there is no room.   *)
Deliver(c) ==
    LET k == loop[c].k IN
    /\ loop[c].pc = "deliver"
    /\ HasRoom(k)
    /\ cmd' = [cmd EXCEPT ![k].full = TRUE]
    /\ loop' = [loop EXCEPT ![c] = Reading]
    /\ UNCHANGED <<agentVars, wire, stateVars, registry, history>>

-----------------------------------------------------------------------------
(* sendWithin, called with the connection tunnelRegistry.get returned.      *)

SendCommand(k) ==
    /\ cmd[k].pc = "new"
    /\ registry # NoConn
    /\ cmd' = [cmd EXCEPT ![k] = [NewCmd EXCEPT !.pc = "write", !.conn = registry, !.pending = TRUE]]
    /\ UNCHANGED <<agentVars, wire, loop, stateVars, registry, history>>

(* The write works as long as the connection is not known to be closed; the *)
(* agent gets it if it is still there.                                      *)
WriteCommand(k) ==
    LET c == cmd[k].conn IN
    /\ cmd[k].pc = "write"
    /\ IF Open(c)
       THEN cmd' = [cmd EXCEPT ![k].pc = "wait", ![k].run = (link = c)]
       ELSE cmd' = [cmd EXCEPT ![k].pc = "over", ![k].pending = FALSE]
    /\ UNCHANGED <<agentVars, wire, loop, stateVars, registry, history>>

ReceiveReply(k) ==
    /\ cmd[k].pc = "wait" /\ cmd[k].full
    /\ cmd' = [cmd EXCEPT ![k].pc = "over", ![k].pending = FALSE, ![k].full = FALSE, ![k].ok = TRUE]
    /\ UNCHANGED <<agentVars, wire, loop, stateVars, registry, history>>

(* The wait, or the browser's request, is over: the command may still run.  *)
TimeOut(k) ==
    /\ cmd[k].pc = "wait"
    /\ cmd' = [cmd EXCEPT ![k].pc = "over", ![k].pending = FALSE]
    /\ UNCHANGED <<agentVars, wire, loop, stateVars, registry, history>>

-----------------------------------------------------------------------------
Init ==
    /\ state = 1 /\ link = NoConn
    /\ wire = [c \in Conn |-> <<>>]
    /\ loop = [c \in Conn |-> [pc |-> "unborn", k |-> NoConn]]
    /\ cache = [c \in Conn |-> [t \in Table |-> 0]]
    /\ db = [t \in Table |-> 0]
    /\ registry = NoConn
    /\ cmd = [k \in Cmd |-> NewCmd]
    /\ apart = TRUE /\ late = {}

ReadLoop(c) ==
    \/ \E done \in SUBSET Table : ApplyState(c, done)
    \/ ReadResult(c) \/ Deliver(c)

Caller(k) == WriteCommand(k) \/ ReceiveReply(k) \/ TimeOut(k)

Next ==
    \/ StateChanges \/ AgentPushes \/ AgentDrops
    \/ \E k \in Cmd : AgentAnswers(k) \/ SendCommand(k) \/ Caller(k)
    \/ \E c \in Conn : Accept(c) \/ Register(c) \/ EndLoop(c) \/ ReadLoop(c)

Spec == Init /\ [][Next]_vars

(* The agent resends its state every 45 seconds, goroutines go on, and a    *)
(* table's write that is tried again and again succeeds in the end.         *)
Fairness ==
    /\ WF_vars(AgentPushes)
    /\ \A c \in Conn : WF_vars(Register(c)) /\ WF_vars(ReadLoop(c)) /\ SF_vars(ApplyState(c, Table))
    /\ \A k \in Cmd : WF_vars(Caller(k))

FairSpec == Spec /\ Fairness

-----------------------------------------------------------------------------
(* Properties.                                                              *)

(* Messages, read loops, caches and callers stay well formed: a command is  *)
(* new, being written, waited for or over.                                  *)
TypeOK ==
    /\ state \in State
    /\ link \in Conn \union {NoConn} /\ registry \in Conn \union {NoConn}
    /\ wire \in [Conn -> Seq(Message)]
    /\ loop \in [Conn -> LoopState]
    /\ cache \in [Conn -> [Table -> 0 .. MaxState + 1]]
    /\ db \in [Table -> 0 .. MaxState + 1]
    /\ cmd \in [Cmd -> CmdState]
    /\ apart \in BOOLEAN /\ late \subseteq Conn

(* Nothing newer than c has been registered.                                *)
IsNewest(c) == \A b \in Conn : b > c => loop[b].pc \in {"unborn", "accepted"}

(* tunnelRegistry.remove: "the newer connection must survive": whatever     *)
(* order old and new handlers register and end in, only an open connection  *)
(* can be reached, and the newest that is read can, unless the handler of   *)
(* an older one came to tunnels.set after it.                               *)
NewestIsRegistered ==
    /\ registry # NoConn => Open(registry)
    /\ \A c \in Conn \ late : Open(c) /\ IsNewest(c) => registry = c

(* The sentence without its exception: an older handler held up between     *)
(* websocket.Accept and tunnels.set takes the registration of a newer       *)
(* connection, and removes it when it ends.                                 *)
NewerSurvives ==
    \A c \in Conn : Open(c) /\ IsNewest(c) => registry = c

(* sendWithin: "a reply that arrives after a timeout still has somewhere to *)
(* land": a read loop that holds a reply gets rid of it and reads on.       *)
ReaderGoesOn ==
    \A c \in Conn : loop[c].pc = "deliver" ~> loop[c].pc # "deliver"

(* A snapshot settles: while the agent stays connected and its state stays  *)
(* as it is, every table ends up showing it, whatever writes failed before, *)
(* as long as the agent's connections did not overlap (CacheIsWritten says  *)
(* what happens when they do).                                              *)
StateIsStored ==
    \A c \in Conn, v \in State :
        (link = c /\ state = v /\ apart)
            ~> (link # c \/ state # v \/ ~apart \/ \A t \in Table : db[t] = v)

(* tunnel.go, stateCache.unchanged: "reports whether table's content is     *)
(* what was last written": what the cache of the host's registered          *)
(* connection remembers is what the table says.                             *)
CacheIsWritten ==
    \A t \in Table :
        registry # NoConn /\ cache[registry][t] # 0 => cache[registry][t] = db[t]
=============================================================================
