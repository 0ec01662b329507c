--------------------------- MODULE ConnectionProofs ---------------------------
(***************************************************************************)
(* Proofs about CCConnection, for any number of clients, addresses and     *)
(* connections, and any number of broken connections and restarts.         *)
(***************************************************************************)
EXTENDS CCConnection, TLAPS

-----------------------------------------------------------------------------
(* The invariant.                                                          *)

\* A connection belongs to one client, and carries its address only.
SockOK ==
  /\ \A c, d \in Client :
       client[c].sock # None /\ client[c].sock = client[d].sock => c = d
  /\ \A c \in Client : client[c].sock # None =>
       /\ unread[client[c].sock] \in {None, Instance[c]}
       /\ wsToAddress[client[c].sock] \in {None, Instance[c]}

\* What is read from a connection agrees with what was read from it before, and
\* nothing is left of it when its handler ends.
FrameOK ==
  \A s \in Sock :
    /\ unread[s] # None /\ wsToAddress[s] # None => unread[s] = wsToAddress[s]
    /\ s \notin handling => unread[s] = None /\ wsToAddress[s] = None /\ s \notin up

ConnectionInv == TypeOK /\ SockOK /\ FrameOK /\ PushReachesHandler /\ ActiveIsBound

USE ConnectionAssumption

LEMMA InitInv == Init => ConnectionInv
<1> SUFFICES ASSUME Init PROVE ConnectionInv
  OBVIOUS
<1>1. Dead \in ClientState
  BY DEF Dead, At, ClientState
<1>2. TypeOK
  BY <1>1 DEF Init, TypeOK
<1>3. \A c \in Client : client[c].sock = None
  BY DEF Init, Dead, At
<1>4. SockOK /\ FrameOK
  BY <1>3 DEF Init, SockOK, FrameOK
<1>5. PushReachesHandler /\ ActiveIsBound
  BY DEF Init, PushReachesHandler, ActiveIsBound
<1>. QED
  BY <1>2, <1>4, <1>5 DEF ConnectionInv

\* A step of a client that leaves the server's table alone, and the frames of
\* connections it does not hold.
LEMMA ClientMoves ==
  ASSUME ConnectionInv, NEW c \in Client, NEW r \in ClientState,
         client' = [client EXCEPT ![c] = r],
         r.sock = None \/ r.sock = client[c].sock,
         unread' = unread \/ (/\ client[c].sock # None
                              /\ client[c].sock \in handling
                              /\ unread' = [unread EXCEPT ![client[c].sock] = Instance[c]]),
         up' \subseteq up, acked' \subseteq acked,
         UNCHANGED <<handling, table, saved, server>>,
         breaks' \in 0..MaxBreaks
  PROVE  ConnectionInv'
<1> USE DEF ConnectionInv, table
<1>1. client' \in [Client -> ClientState]
  BY DEF TypeOK
<1>2. unread' \in [Sock -> Addr \cup {None}]
  BY DEF TypeOK, ClientState
<1>3. TypeOK'
  BY <1>1, <1>2 DEF TypeOK
<1>4. \A d \in Client : client'[d].sock = None \/ client'[d].sock = client[d].sock
  BY DEF TypeOK
<1>5. \A d \in Client : client[d].sock \in Sock \cup {None}
  BY DEF TypeOK, ClientState
<1>6. SockOK'
  BY <1>4, <1>5 DEF SockOK, TypeOK
<1>7. FrameOK'
  BY <1>5 DEF SockOK, FrameOK, TypeOK
<1>8. PushReachesHandler' /\ ActiveIsBound'
  BY DEF PushReachesHandler, ActiveIsBound
<1>. QED
  BY <1>3, <1>6, <1>7, <1>8

LEMMA ClientStepInv ==
  ASSUME ConnectionInv, NEW c \in Client, ClientStep(c)
  PROVE  ConnectionInv'
<1> USE DEF ConnectionInv
<1>0. breaks \in 0..MaxBreaks /\ client[c] \in ClientState
  BY DEF TypeOK
<1>1. ASSUME NEW s \in Sock, Connect(c, s) PROVE ConnectionInv'
  <2> USE <1>1 DEF Connect, Unused
  <2> DEFINE r == At("registering", s, "off")
  <2>1. r \in ClientState /\ r.sock = s
    BY DEF ClientState, At
  <2>2. client' = [client EXCEPT ![c] = r]
    OBVIOUS
  <2> HIDE DEF r
  <2>3. client' \in [Client -> ClientState]
    BY <2>1, <2>2 DEF TypeOK
  <2>4. TypeOK'
    BY <2>3 DEF TypeOK, table
  <2>5. client'[c].sock = s /\ \A d \in Client \ {c} : client'[d].sock = client[d].sock /\ client[d].sock # s
    BY <2>1, <2>2 DEF TypeOK
  <2>6. \A d \in Client : client[d].sock \in Sock \cup {None}
    BY DEF TypeOK, ClientState
  <2>7. unread[s] = None /\ wsToAddress[s] = None
    BY DEF FrameOK
  <2>8. SockOK'
    <3>1. \A d, e \in Client : client'[d].sock # None /\ client'[d].sock = client'[e].sock => d = e
      BY <2>5 DEF SockOK
    <3>2. \A d \in Client : client'[d].sock # None =>
            /\ unread'[client'[d].sock] \in {None, Instance[d]}
            /\ wsToAddress'[client'[d].sock] \in {None, Instance[d]}
      BY <2>5, <2>6, <2>7 DEF SockOK, TypeOK, table
    <3>. QED
      BY <3>1, <3>2 DEF SockOK
  <2>9. FrameOK'
    BY <2>7 DEF FrameOK, TypeOK, table
  <2>10. PushReachesHandler' /\ ActiveIsBound'
    BY DEF PushReachesHandler, ActiveIsBound, table
  <2>. QED
    BY <2>4, <2>8, <2>9, <2>10
<1>2. CASE ReadAck(c)
  <2> USE <1>2 DEF ReadAck
  <2> DEFINE beat == IF client[c].pc = "registering" THEN "asleep" ELSE client[c].heartbeat
             r == At("looping", client[c].sock, beat)
  <2>1. client[c].sock \in Sock
    BY DEF TypeOK
  <2>2. r \in ClientState /\ r.sock = client[c].sock
    BY <1>0, <2>1 DEF ClientState, At
  <2>3. client' = [client EXCEPT ![c] = r]
    OBVIOUS
  <2> HIDE DEF r
  <2>. QED
    BY <1>0, <2>2, <2>3, ClientMoves
<1>3. CASE Heartbeat(c)
  <2> USE <1>3 DEF Heartbeat
  <2> DEFINE r == At("looping", client[c].sock, "over")
  <2>1. client[c].sock \in Sock
    BY <1>0 DEF ClientState
  <2>2. r \in ClientState /\ r.sock = client[c].sock
    BY <2>1 DEF ClientState, At
  <2>3. client' = [client EXCEPT ![c] = r]
    OBVIOUS
  <2>4. client[c].sock \in up => client[c].sock \in handling
    BY <2>1 DEF FrameOK
  <2>5. unread' = unread \/ (/\ client[c].sock # None
                            /\ client[c].sock \in handling
                            /\ unread' = [unread EXCEPT ![client[c].sock] = Instance[c]])
    BY <2>1, <2>4
  <2>6. up' \subseteq up /\ acked' \subseteq acked /\ UNCHANGED <<handling, table, saved, server>>
        /\ breaks' = breaks
    OBVIOUS
  <2> HIDE DEF r, Heartbeat
  <2>. QED
    BY <1>0, <2>2, <2>3, <2>5, <2>6, ClientMoves
<1>4. CASE SeeClosed(c)
  <2>1. Down \in ClientState /\ Down.sock = None
    BY DEF Down, At, ClientState
  <2>. QED
    BY <1>0, <1>4, <2>1, ClientMoves DEF SeeClosed
<1>. QED
  BY <1>1, <1>2, <1>3, <1>4 DEF ClientStep

\* A process that starts or ends, and a connection that breaks.
LEMMA OutsideInv ==
  ASSUME ConnectionInv,
         \/ \E c \in Client : StartClient(c) \/ ExitClient(c)
         \/ \E s \in Sock : Cut(s)
  PROVE  ConnectionInv'
<1> USE DEF ConnectionInv
<1>0. breaks \in 0..MaxBreaks
  BY DEF TypeOK
<1>1. ASSUME NEW c \in Client, StartClient(c) PROVE ConnectionInv'
  <2>1. Down \in ClientState /\ Down.sock = None
    BY DEF Down, At, ClientState
  <2>. QED
    BY <1>0, <1>1, <2>1, ClientMoves DEF StartClient
<1>2. ASSUME NEW c \in Client, ExitClient(c) PROVE ConnectionInv'
  <2>1. Dead \in ClientState /\ Dead.sock = None
    BY DEF Dead, At, ClientState
  <2>2. breaks' \in 0..MaxBreaks
    BY <1>0, <1>2 DEF ExitClient, Break
  <2>. QED
    BY <1>2, <2>1, <2>2, ClientMoves DEF ExitClient
<1>3. ASSUME NEW s \in Sock, Cut(s) PROVE ConnectionInv'
  <2> USE <1>3 DEF Cut, table
  <2>1. breaks' \in 0..MaxBreaks
    BY <1>0 DEF Break
  <2>2. unread' \in [Sock -> Addr \cup {None}]
    BY DEF TypeOK
  <2>3. TypeOK'
    BY <2>1, <2>2 DEF TypeOK
  <2>4. \A t \in Sock : unread'[t] \in {unread[t], None}
    BY DEF TypeOK
  <2>5. \A c \in Client : client[c].sock \in Sock \cup {None}
    BY DEF TypeOK, ClientState
  <2>6. SockOK' /\ FrameOK'
    BY <2>4, <2>5 DEF SockOK, FrameOK
  <2>7. PushReachesHandler' /\ ActiveIsBound'
    BY DEF PushReachesHandler, ActiveIsBound
  <2>. QED
    BY <2>3, <2>6, <2>7
<1>. QED
  BY <1>1, <1>2, <1>3

LEMMA HandleRegisterInv ==
  ASSUME ConnectionInv, NEW s \in Sock, HandleRegister(s)
  PROVE  ConnectionInv'
<1> USE DEF ConnectionInv, HandleRegister, Register
<1> DEFINE a == unread[s]
<1>1. a \in Addr /\ wsToAddress[s] \in {None, a}
  BY DEF TypeOK, FrameOK
<1>2. \A c \in Client : client[c].sock \in Sock \cup {None}
  BY DEF TypeOK, ClientState
<1>3. TypeOK'
  BY <1>1 DEF TypeOK
<1>4. SockOK'
  BY <1>2 DEF SockOK, TypeOK
<1>5. FrameOK'
  BY <1>1 DEF FrameOK, TypeOK
<1>6. PushReachesHandler'
  BY <1>1 DEF PushReachesHandler, TypeOK
<1>7. ActiveIsBound'
  BY <1>1 DEF ActiveIsBound, TypeOK
<1>. QED
  BY <1>3, <1>4, <1>5, <1>6, <1>7

LEMMA DisconnectInv ==
  ASSUME ConnectionInv, NEW s \in Sock, Disconnect(s)
  PROVE  ConnectionInv'
<1> USE DEF ConnectionInv, Disconnect, Unregister
<1>1. wsToAddress[s] \in Addr \cup {None}
  BY DEF TypeOK
<1>2. \A c \in Client : client[c].sock \in Sock \cup {None}
  BY DEF TypeOK, ClientState
<1>3. TypeOK'
  BY <1>1 DEF TypeOK
<1>4. SockOK' /\ FrameOK'
  BY <1>2 DEF SockOK, FrameOK, TypeOK
<1>5. \A b \in Addr : addressToWs'[b] # None => addressToWs'[b] = addressToWs[b] /\ b # wsToAddress[s]
  BY <1>1 DEF TypeOK
<1>6. \A b \in Addr : addressToWs'[b] # None => addressToWs[b] # s
  BY <1>5 DEF PushReachesHandler
<1>7. PushReachesHandler'
  BY <1>5, <1>6 DEF PushReachesHandler, TypeOK
<1>8. \A b \in Addr : actor'[b] = "active" => actor[b] = "active" /\ b # wsToAddress[s]
  BY <1>1 DEF TypeOK
<1>9. ActiveIsBound'
  BY <1>1, <1>8 DEF ActiveIsBound, TypeOK
<1>. QED
  BY <1>3, <1>4, <1>7, <1>9

\* What the server does to sessions and to its file.
LEMMA ServerInv ==
  ASSUME ConnectionInv,
         \/ \E a \in Addr : SpawnSession(a) \/ StopSession(a)
         \/ Save
         \/ StopServer(saved) \/ StopServer(LiveAddrs)
         \/ StartServer
  PROVE  ConnectionInv'
<1> USE DEF ConnectionInv
<1>1. \A c \in Client : client[c].sock \in Sock \cup {None}
  BY DEF TypeOK, ClientState
<1>2. ASSUME NEW a \in Addr, NEW st \in {"suspended", "ended"},
             actor' = [actor EXCEPT ![a] = st],
             UNCHANGED <<client, up, unread, acked, handling, wsToAddress, addressToWs, saved, server, breaks>>
      PROVE  ConnectionInv'
  <2>1. TypeOK'
    BY <1>2 DEF TypeOK
  <2>2. SockOK' /\ FrameOK' /\ PushReachesHandler'
    BY <1>2 DEF SockOK, FrameOK, PushReachesHandler
  <2>3. ActiveIsBound'
    BY <1>2 DEF ActiveIsBound, TypeOK
  <2>. QED
    BY <2>1, <2>2, <2>3
<1>3. ASSUME NEW a \in Addr, SpawnSession(a) \/ StopSession(a) PROVE ConnectionInv'
  BY <1>2, <1>3 DEF SpawnSession, StopSession
<1>4. CASE Save
  <2>1. TypeOK'
    BY <1>4 DEF Save, TypeOK, table, LiveAddrs
  <2>2. SockOK' /\ FrameOK' /\ PushReachesHandler' /\ ActiveIsBound'
    BY <1>4 DEF Save, table, SockOK, FrameOK, PushReachesHandler, ActiveIsBound
  <2>. QED
    BY <2>1, <2>2
<1>5. ASSUME NEW file \in SUBSET Addr, StopServer(file) PROVE ConnectionInv'
  <2> USE <1>5 DEF StopServer
  <2>1. TypeOK'
    BY DEF TypeOK, Break
  <2>2. SockOK' /\ FrameOK'
    BY <1>1 DEF SockOK, FrameOK
  <2>3. PushReachesHandler' /\ ActiveIsBound'
    BY DEF PushReachesHandler, ActiveIsBound
  <2>. QED
    BY <2>1, <2>2, <2>3
<1>6. saved \in SUBSET Addr /\ LiveAddrs \in SUBSET Addr
  BY DEF TypeOK, LiveAddrs
<1>7. CASE StartServer
  <2> USE <1>7 DEF StartServer
  <2>1. TypeOK'
    BY DEF TypeOK
  <2>2. SockOK' /\ FrameOK' /\ PushReachesHandler'
    BY DEF SockOK, FrameOK, PushReachesHandler
  <2>3. ActiveIsBound'
    BY DEF ActiveIsBound
  <2>. QED
    BY <2>1, <2>2, <2>3
<1>. QED
  BY <1>3, <1>4, <1>5, <1>6, <1>7

-----------------------------------------------------------------------------
(* The theorems.                                                           *)

LEMMA NextInv == ConnectionInv /\ [Next]_vars => ConnectionInv'
<1> SUFFICES ASSUME ConnectionInv, [Next]_vars PROVE ConnectionInv'
  OBVIOUS
<1>1. CASE Next
  BY <1>1, ClientStepInv, OutsideInv, HandleRegisterInv, DisconnectInv, ServerInv DEF Next
<1>2. CASE UNCHANGED vars
  BY <1>2 DEF vars, table, ConnectionInv, TypeOK, SockOK, FrameOK, PushReachesHandler,
              ActiveIsBound, ClientState
<1>. QED
  BY <1>1, <1>2

\* Every state the clients and the server reach satisfies the invariant.
THEOREM ConnectionInvariant == Spec => []ConnectionInv
<1>. QED
  BY InitInv, NextInv, PTL DEF Spec

\* The tables of both ends of every connection keep their types.
THEOREM ConnectionTypes == Spec => []TypeOK
<1>1. ConnectionInv => TypeOK
  BY DEF ConnectionInv
<1>. QED
  BY <1>1, ConnectionInvariant, PTL

\* push_to_cc finds, for any address, nothing or a connection that is handled and
\* that registered this address, however connections of it overlap.
THEOREM PushTarget == Spec => []PushReachesHandler
<1>1. ConnectionInv => PushReachesHandler
  BY DEF ConnectionInv
<1>. QED
  BY <1>1, ConnectionInvariant, PTL

\* An active actor has a connection: no message of one is dropped for want of a
\* WebSocket.
THEOREM ActiveReachesClient == Spec => []ActiveIsBound
<1>1. ConnectionInv => ActiveIsBound
  BY DEF ConnectionInv
<1>. QED
  BY <1>1, ConnectionInvariant, PTL
=============================================================================
