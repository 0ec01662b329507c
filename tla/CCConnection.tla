----------------------------- MODULE CCConnection -----------------------------
(***************************************************************************)
(* The websocket between a Claude Code session and the channel server:     *)
(* the client's connect loop and heartbeat (adapters/cc/channel.py), the   *)
(* server's table of connections (adapters/cc/adapter.py), and the saves,  *)
(* restarts and crashes of the server (app.py, core/persistence.py).       *)
(*                                                                         *)
(* The two ends of a connection see it end at different times: a handler   *)
(* that awaits a command, or has frames to read, closes its connection     *)
(* long after the client has opened the next one.                          *)
(***************************************************************************)
EXTENDS Naturals

CONSTANTS
  Client,    \* processes of channel.py
  Addr,      \* addresses of cc actors
  Instance,  \* the address each client registers (its instance_id)
  Sock,      \* connections that may be open, at either end, at one time
  None,
  MaxBreaks  \* bound: broken connections, ended clients, stops of the server

ASSUME ConnectionAssumption ==
  /\ Instance \in [Client -> Addr]
  /\ None \notin Sock \cup Addr
  /\ MaxBreaks \in Nat

VARIABLES
  client,       \* what each client does, on which connection, and its heartbeat
  up,           \* connections that still carry frames
  unread,       \* per connection, the address in a register frame still to be read
  acked,        \* connections with a "registered" frame the client has not read
  handling,     \* connections whose server-side handler runs
  wsToAddress,  \* _ws_to_address
  addressToWs,  \* _address_to_ws
  actor,        \* state of the actor at each address
  saved,        \* addresses in actors.json
  server,       \* "up" or "down"
  breaks        \* counter of MaxBreaks

table == <<wsToAddress, addressToWs, actor>>
vars == <<client, up, unread, acked, handling, table, saved, server, breaks>>

\* A client is dead, down (it waits to connect), registering (it waits for the
\* answer to its first frame) or looping; its heartbeat sleeps, or is over.
At(pc, s, beat) == [pc |-> pc, sock |-> s, heartbeat |-> beat]
Down == At("down", None, "off")
Dead == At("dead", None, "off")

Init ==
  /\ client = [c \in Client |-> Dead]
  /\ up = {} /\ acked = {} /\ handling = {}
  /\ unread = [s \in Sock |-> None]
  /\ wsToAddress = [s \in Sock |-> None]
  /\ addressToWs = [a \in Addr |-> None]
  /\ actor = [a \in Addr |-> "absent"]
  /\ saved = {}
  /\ server = "up"
  /\ breaks = 0

Live(a) == actor[a] \in {"suspended", "active"}
LiveAddrs == {a \in Addr : Live(a)}

Break == breaks < MaxBreaks /\ breaks' = breaks + 1

\* No end of a connection refers to s.
Unused(s) == s \notin handling /\ \A c \in Client : client[c].sock # s

-----------------------------------------------------------------------------
(* The client.                                                             *)

\* connect: the connection opens and the register frame goes out.
Connect(c, s) ==
  /\ client[c].pc = "down" /\ server = "up" /\ Unused(s)
  /\ client' = [client EXCEPT ![c] = At("registering", s, "off")]
  /\ up' = up \cup {s}
  /\ unread' = [unread EXCEPT ![s] = Instance[c]]
  /\ acked' = acked \ {s}
  /\ handling' = handling \cup {s}
  /\ UNCHANGED <<table, saved, server, breaks>>

\* The first answer ends _register and starts the heartbeat with the message
\* loop; an answer to the heartbeat is a frame the message loop does not know.
ReadAck(c) ==
  LET s == client[c].sock IN
  /\ s \in acked
  /\ acked' = acked \ {s}
  /\ LET beat == IF client[c].pc = "registering" THEN "asleep" ELSE client[c].heartbeat
     IN client' = [client EXCEPT ![c] = At("looping", s, beat)]
  /\ UNCHANGED <<up, unread, handling, table, saved, server, breaks>>

\* Mutant of Heartbeat: it only listens.
HeartbeatSilent(c) ==
  /\ client[c].pc = "looping" /\ client[c].heartbeat = "asleep"
  /\ client' = [client EXCEPT ![c] = At("looping", client[c].sock, "over")]
  /\ UNCHANGED <<up, unread, acked, handling, table, saved, server, breaks>>

\* The heartbeat registers again.  The message loop is in recv already, so the
\* recv of _register raises and _heartbeat returns: it never beats twice.
Heartbeat(c) ==
  LET s == client[c].sock IN
  /\ client[c].pc = "looping" /\ client[c].heartbeat = "asleep"
  /\ client' = [client EXCEPT ![c] = At("looping", client[c].sock, "over")]
  /\ unread' = IF s \in up THEN [unread EXCEPT ![s] = Instance[c]] ELSE unread
  /\ UNCHANGED <<up, acked, handling, table, saved, server, breaks>>

\* Mutant of SeeClosed: the heartbeat of the connection is left running.
SeeClosedKeepsBeat(c) ==
  /\ client[c].sock # None /\ client[c].sock \notin up
  /\ client' = [client EXCEPT ![c] = At("down", None, client[c].heartbeat)]
  /\ UNCHANGED <<up, unread, acked, handling, table, saved, server, breaks>>

\* The client sees its connection closed: heartbeat cancelled, retry in 3 s.
SeeClosed(c) ==
  /\ client[c].sock # None /\ client[c].sock \notin up
  /\ client' = [client EXCEPT ![c] = Down]
  /\ UNCHANGED <<up, unread, acked, handling, table, saved, server, breaks>>

\* A launcher starts the client of a session, in tmux or by hand.
StartClient(c) ==
  /\ client[c].pc = "dead"
  /\ client' = [client EXCEPT ![c] = Down]
  /\ UNCHANGED <<up, unread, acked, handling, table, saved, server, breaks>>

\* The process ends; the kernel closes its connection behind what it sent.
ExitClient(c) ==
  /\ client[c].pc # "dead" /\ Break
  /\ client' = [client EXCEPT ![c] = Dead]
  /\ up' = up \ {client[c].sock}
  /\ UNCHANGED <<unread, acked, handling, table, saved, server>>

\* A connection breaks under both ends (a ping that goes unanswered while an
\* event loop is blocked); the frame on its way may be lost.
Cut(s) ==
  /\ s \in up /\ Break
  /\ up' = up \ {s}
  /\ unread' \in {unread, [unread EXCEPT ![s] = None]}
  /\ acked' \in {acked, acked \ {s}}
  /\ UNCHANGED <<client, handling, table, saved, server>>

-----------------------------------------------------------------------------
(* The server.                                                             *)

\* Mutants of Register: a live actor is not attached to again; only a spawn is
\* answered.
RegisterSpawnsOnly(s, a) ==
  /\ wsToAddress' = [wsToAddress EXCEPT ![s] = a]
  /\ addressToWs' = [addressToWs EXCEPT ![a] = s]
  /\ actor' = [actor EXCEPT ![a] = IF Live(a) THEN @ ELSE "active"]
  /\ acked' = acked \cup {s}
RegisterAcksSpawn(s, a) ==
  /\ wsToAddress' = [wsToAddress EXCEPT ![s] = a]
  /\ addressToWs' = [addressToWs EXCEPT ![a] = s]
  /\ actor' = [actor EXCEPT ![a] = "active"]
  /\ acked' = IF Live(a) THEN acked ELSE acked \cup {s}

\* _handle_register takes the address from whoever had it, then spawns an actor
\* or attaches to the live one: it is active either way.
Register(s, a) ==
  /\ wsToAddress' = [wsToAddress EXCEPT ![s] = a]
  /\ addressToWs' = [addressToWs EXCEPT ![a] = s]
  /\ actor' = [actor EXCEPT ![a] = "active"]
  /\ acked' = acked \cup {s}

HandleRegister(s) ==
  /\ s \in handling /\ unread[s] # None
  /\ unread' = [unread EXCEPT ![s] = None]
  /\ Register(s, unread[s])
  /\ UNCHANGED <<client, up, handling, saved, server, breaks>>

\* Mutants of Unregister: the address keeps its connection; the actor is not
\* suspended.
UnregisterHalf(s, a) ==
  /\ wsToAddress' = [wsToAddress EXCEPT ![s] = None]
  /\ actor' = IF a # None /\ actor[a] = "active" THEN [actor EXCEPT ![a] = "suspended"] ELSE actor
  /\ UNCHANGED addressToWs
UnregisterOnly(s, a) ==
  /\ wsToAddress' = [wsToAddress EXCEPT ![s] = None]
  /\ addressToWs' = IF a = None THEN addressToWs ELSE [addressToWs EXCEPT ![a] = None]
  /\ UNCHANGED actor

\* handle_disconnect: the address a of s loses its connection, which may be a
\* newer one than s, and its actor is detached.
Unregister(s, a) ==
  /\ wsToAddress' = [wsToAddress EXCEPT ![s] = None]
  /\ addressToWs' = IF a = None THEN addressToWs ELSE [addressToWs EXCEPT ![a] = None]
  /\ actor' = IF a # None /\ actor[a] = "active" THEN [actor EXCEPT ![a] = "suspended"] ELSE actor

\* The handler of a closed connection has read what had arrived, and ends.
Disconnect(s) ==
  /\ s \in handling /\ s \notin up /\ unread[s] = None
  /\ handling' = handling \ {s}
  /\ Unregister(s, wsToAddress[s])
  /\ UNCHANGED <<client, up, unread, acked, saved, server, breaks>>

\* /spawn registers a suspended actor, whose client is still to start.
SpawnSession(a) ==
  /\ server = "up" /\ ~Live(a)
  /\ actor' = [actor EXCEPT ![a] = "suspended"]
  /\ UNCHANGED <<client, up, unread, acked, handling, wsToAddress, addressToWs, saved, server, breaks>>

\* /kill, or the error budget of the actor's loop, ends it.
StopSession(a) ==
  /\ server = "up" /\ Live(a)
  /\ actor' = [actor EXCEPT ![a] = "ended"]
  /\ UNCHANGED <<client, up, unread, acked, handling, wsToAddress, addressToWs, saved, server, breaks>>

\* _persist_loop
Save ==
  /\ server = "up"
  /\ saved' = LiveAddrs
  /\ UNCHANGED <<client, up, unread, acked, handling, table, server, breaks>>

\* The server stops, after a save, or dies where it is; nothing in memory stays.
StopServer(file) ==
  /\ server = "up" /\ Break
  /\ server' = "down"
  /\ saved' = file
  /\ up' = {} /\ handling' = {}
  /\ unread' = [s \in Sock |-> None]
  /\ wsToAddress' = [s \in Sock |-> None]
  /\ addressToWs' = [a \in Addr |-> None]
  /\ actor' = [a \in Addr |-> "absent"]
  /\ UNCHANGED <<client, acked>>

\* Every actor in the file starts suspended.
StartServer ==
  /\ server = "down"
  /\ server' = "up"
  /\ actor' = [a \in Addr |-> IF a \in saved THEN "suspended" ELSE "absent"]
  /\ UNCHANGED <<client, up, unread, acked, handling, wsToAddress, addressToWs, saved, breaks>>

-----------------------------------------------------------------------------
ClientStep(c) ==
  \/ \E s \in Sock : Connect(c, s)
  \/ ReadAck(c)
  \/ Heartbeat(c)
  \/ SeeClosed(c)

Next ==
  \/ \E c \in Client : ClientStep(c) \/ StartClient(c) \/ ExitClient(c)
  \/ \E s \in Sock : Cut(s) \/ HandleRegister(s) \/ Disconnect(s)
  \/ \E a \in Addr : SpawnSession(a) \/ StopSession(a)
  \/ Save
  \/ StopServer(saved) \/ StopServer(LiveAddrs)
  \/ StartServer

\* Clients retry and the event loops run; the service manager restarts the
\* server.  Nothing has to break, end, or be asked for.
Fairness ==
  /\ \A c \in Client :
       /\ WF_vars(\E s \in Sock : Connect(c, s))
       /\ WF_vars(ReadAck(c)) /\ WF_vars(Heartbeat(c)) /\ WF_vars(SeeClosed(c))
  /\ \A s \in Sock : WF_vars(HandleRegister(s)) /\ WF_vars(Disconnect(s))
  /\ WF_vars(StartServer)

Spec == Init /\ [][Next]_vars
FairSpec == Spec /\ Fairness

-----------------------------------------------------------------------------
(* Properties.                                                             *)

\* A client has a connection exactly while it registers or loops, and a
\* heartbeat exactly while it loops.
ClientState ==
  {x \in [pc : {"dead", "down", "registering", "looping"},
          sock : Sock \cup {None},
          heartbeat : {"off", "asleep", "over"}] :
     /\ x.sock # None <=> x.pc \in {"registering", "looping"}
     /\ x.heartbeat # "off" <=> x.pc = "looping"}

\* The tables of both ends hold what their types say.
TypeOK ==
  /\ client \in [Client -> ClientState]
  /\ up \subseteq Sock /\ acked \subseteq Sock /\ handling \subseteq Sock
  /\ unread \in [Sock -> Addr \cup {None}]
  /\ wsToAddress \in [Sock -> Addr \cup {None}]
  /\ addressToWs \in [Addr -> Sock \cup {None}]
  /\ actor \in [Addr -> {"absent", "suspended", "active", "ended"}]
  /\ saved \subseteq Addr
  /\ server \in {"up", "down"}
  /\ breaks \in 0..MaxBreaks

\* What push_to_cc finds for an address is a connection whose handler runs and
\* that registered this address, whatever other connections of the address came
\* and went in between.
PushReachesHandler ==
  \A a \in Addr :
    addressToWs[a] # None => addressToWs[a] \in handling /\ wsToAddress[addressToWs[a]] = a

\* An active actor has a connection: push_to_cc never drops the message of one
\* ("no WebSocket for actor"), although it is a handler's end, not the actor's,
\* that takes connections away.
ActiveIsBound == \A a \in Addr : actor[a] = "active" => addressToWs[a] # None

\* The first beat of a connection heals: a client that loops while its actor is
\* suspended, and has its heartbeat before it, sees the actor active again, or
\* loses the connection, or the actor ends.
FirstBeatHeals ==
  \A c \in Client :
    LET ghost == client[c].heartbeat = "asleep" /\ actor[Instance[c]] = "suspended" IN
    ghost ~> (actor[Instance[c]] \in {"active", "ended"} \/ client[c].pc # "looping")

\* A client that waits to connect ends up registered or dead, through lost
\* frames, restarts of the server, and handlers of its earlier connections that
\* have still to end.
Reconnects == \A c \in Client : client[c].pc = "down" ~> client[c].pc \in {"looping", "dead"}

\* The heartbeat docstring, with no word of the first beat only: "If the
\* transport was detached but our WS is still healthy, this wakes things up
\* within one heartbeat interval."
GhostDetachHeals ==
  \A c \in Client :
    LET a == Instance[c]
        ghost == client[c].pc = "looping" /\ actor[a] = "suspended" /\ addressToWs[a] = None
    IN ghost ~> (actor[a] \in {"active", "ended"} \/ client[c].pc # "looping")
=============================================================================
