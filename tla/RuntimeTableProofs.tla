-------------------------- MODULE RuntimeTableProofs --------------------------
(***************************************************************************)
(* The runtime implements the actor table: every step of its tasks, calls  *)
(* and handlers is a step of the table, or none.  What each operation does *)
(* to the table is stated once, and used again for the order in which      *)
(* messages leave.                                                         *)
(***************************************************************************)
EXTENDS ActorRuntimeTable, ActorRuntimeProofs

-----------------------------------------------------------------------------
(* The table of a state.                                                   *)

\* The queues at the addresses, in the objects ob.
Boxes(ob) == [a \in Addr |-> IF actors[a] = None THEN <<>> ELSE ob[actors[a]].mailbox]

\* The table has the shape ActorTable gives it.
LEMMA TableTypes ==
  ASSUME RuntimeInv
  PROVE  /\ States \in [Addr -> {"absent", "suspended", "active", "ended"}]
         /\ Inboxes \in [Addr -> Seq(Message)]
         /\ Works \in [Addr -> Message \cup {None}]
         /\ Inboxes = Boxes(obj)
<1>0. TypeOK
  BY DEF RuntimeInv
<1>1. States \in [Addr -> {"absent", "suspended", "active", "ended"}]
  BY <1>0 DEF TypeOK, States, StateAt, ActorState
<1>2. Inboxes \in [Addr -> Seq(Message)]
  BY <1>0 DEF TypeOK, Inboxes, InboxAt, ActorState
<1>3. Works \in [Addr -> Message \cup {None}]
  BY <1>0 DEF TypeOK, Works, WorkAt, LoopState
<1>4. Inboxes = Boxes(obj)
  BY DEF Inboxes, InboxAt, Boxes
<1>. QED
  BY <1>1, <1>2, <1>3, <1>4

\* The actor of a running loop is the one in the table, active, and with the queue
\* the loop reads; its work is the loop's.
LEMMA LoopTable ==
  ASSUME RuntimeInv, NEW t \in Task, Running(t)
  PROVE  LET a == obj[task[t].owner].addr IN
         /\ a \in Addr /\ reg[a] = t /\ actors[a] = task[t].owner /\ actors[a] # None
         /\ States[a] = "active"
         /\ Inboxes[a] = obj[task[t].owner].mailbox
         /\ Works[a] = IF task[t].phase = "busy" THEN task[t].msg ELSE None
<1>1. /\ obj[task[t].owner].addr \in Addr /\ obj[task[t].owner].state = "active"
      /\ reg[obj[task[t].owner].addr] = t /\ task[t].owner \in Obj
      /\ actors[obj[task[t].owner].addr] = task[t].owner
  BY DEF RuntimeInv, SingleLoop, OwnerOK
<1>2. t # None /\ task[t].owner # None
  BY <1>1, RuntimeAssumption
<1>. QED
  BY <1>1, <1>2 DEF States, StateAt, Inboxes, InboxAt, Works, WorkAt

\* Only an active actor has work, and its loop is the one registered.
LEMMA WorkTable ==
  ASSUME RuntimeInv, NEW a \in Addr, Works[a] # None
  PROVE  /\ reg[a] \in Task /\ Running(reg[a]) /\ task[reg[a]].phase = "busy"
         /\ obj[task[reg[a]].owner].addr = a
         /\ States[a] = "active"
<1>1. reg[a] \in Task /\ task[reg[a]].phase = "busy"
  BY DEF RuntimeInv, TypeOK, Works, WorkAt
<1>2. Running(reg[a])
  BY <1>1 DEF Running
<1>3. obj[task[reg[a]].owner].addr = a
  BY <1>1, <1>2, RuntimeAssumption DEF RuntimeInv, SingleLoop, OwnerOK, RegOK
<1>. QED
  BY <1>1, <1>2, <1>3, LoopTable

\* A step that leaves the objects at the addresses alone leaves these columns alone.
LEMMA SameTable ==
  ASSUME TypeOK, UNCHANGED actors,
         \A o \in Obj : obj'[o].state = obj[o].state /\ obj'[o].mailbox = obj[o].mailbox
  PROVE  States' = States /\ Inboxes' = Inboxes
<1>1. \A a \in Addr : actors[a] # None => actors[a] \in Obj
  BY DEF TypeOK
<1>. QED
  BY <1>1 DEF States, StateAt, Inboxes, InboxAt

\* Starting a loop gives no work, cancelling takes it away.
LEMMA StartLoopWork ==
  ASSUME RuntimeInv, NEW a \in Addr, NEW o \in Obj, StartLoop(a, o)
  PROVE  Works' = Works
<1>0. TypeOK /\ RegOK
  BY DEF RuntimeInv
<1>1. CASE Looping(a)
  BY <1>1 DEF StartLoop, Works, WorkAt
<1>2. CASE ~Looping(a)
  <2>1. PICK t \in Task :
          /\ ~Running(t) /\ \A b \in Addr : reg[b] # t
          /\ reg' = [reg EXCEPT ![a] = t]
          /\ task' = [task EXCEPT ![t] = Loop(o, None, "new", NoMsg, 0)]
    BY <1>2 DEF StartLoop
  <2> DEFINE l == Loop(o, None, "new", NoMsg, 0)
  <2>2. l.phase = "new" /\ task' = [task EXCEPT ![t] = l]
    BY <2>1 DEF Loop
  <2> HIDE DEF l
  <2>3. task'[t].phase = "new" /\ \A u \in Task \ {t} : task'[u] = task[u]
    BY <1>0, <2>2 DEF TypeOK
  <2>4. reg'[a] = t /\ \A b \in Addr \ {a} : reg'[b] = reg[b] /\ reg[b] # t
    BY <1>0, <2>1 DEF TypeOK
  <2>5. WorkAt(a)' = None
    BY <2>3, <2>4 DEF WorkAt
  <2>6. WorkAt(a) = None
    BY <1>2 DEF WorkAt, Looping, Running
  <2>7. ASSUME NEW b \in Addr \ {a}
        PROVE  WorkAt(b)' = WorkAt(b)
    BY <1>0, <2>3, <2>4 DEF WorkAt, TypeOK
  <2>. QED
    BY <2>5, <2>6, <2>7 DEF Works
<1>. QED
  BY <1>1, <1>2

LEMMA CancelWork ==
  ASSUME RuntimeInv, NEW A \in SUBSET Addr, CancelTasks(A)
  PROVE  Works' = [a \in Addr |-> IF a \in A THEN None ELSE Works[a]]
<1>0. TypeOK /\ RegOK
  BY DEF RuntimeInv
<1>1. \A b \in Addr : reg'[b] = IF b \in A THEN None ELSE reg[b]
  BY DEF CancelTasks
<1>2. ASSUME NEW b \in Addr \ A, reg[b] # None
      PROVE  task'[reg[b]] = task[reg[b]]
  <2>1. reg[b] \in Task /\ ~\E a \in A : reg[a] = reg[b]
    BY <1>0, <1>2 DEF TypeOK, RegOK
  <2>. QED
    BY <2>1 DEF CancelTasks
<1>3. \A b \in Addr : WorkAt(b)' = IF b \in A THEN None ELSE WorkAt(b)
  BY <1>1, <1>2 DEF WorkAt
<1>. QED
  BY <1>3 DEF Works

-----------------------------------------------------------------------------
(* What the lifecycle operations do to the table.                          *)

LEMMA SpawnTable ==
  ASSUME RuntimeInv, NEW a \in Addr, NEW o \in Obj,
         NEW state \in {"active", "suspended"}, NEW wired \in BOOLEAN,
         Spawn(a, o, state, wired)
  PROVE  /\ States[a] \in {"absent", "ended"}
         /\ States' = [States EXCEPT ![a] = state]
         /\ Inboxes' = [Inboxes EXCEPT ![a] = <<>>]
         /\ Works' = Works
<1>0. TypeOK /\ AddrOK
  BY DEF RuntimeInv
<1> DEFINE new == NewActor(a, state, wired)
<1>1. States[a] \in {"absent", "ended"}
  BY DEF Spawn, Open, States, StateAt
<1>2. actors'[a] = o /\ \A b \in Addr \ {a} : actors'[b] = actors[b]
  BY <1>0 DEF Spawn, TypeOK
<1>3. obj'[o] = new /\ new.state = state /\ new.mailbox = <<>>
  BY DEF Spawn, NewActor
<1>4. ASSUME NEW b \in Addr \ {a}, actors[b] # None
      PROVE  obj'[actors[b]] = obj[actors[b]]
  <2>1. actors[b] \in Obj /\ actors[b] # o /\ actors[b] # actors[a]
    BY <1>0, <1>4 DEF Spawn, Unused, TypeOK, AddrOK
  <2>. QED
    BY <2>1 DEF Spawn
<1>5. o # None
  BY RuntimeAssumption
<1> HIDE DEF new
<1>6. States' = [States EXCEPT ![a] = state]
  <2>1. StateAt(a)' = state
    BY <1>2, <1>3, <1>5 DEF StateAt
  <2>2. \A b \in Addr \ {a} : StateAt(b)' = StateAt(b)
    BY <1>2, <1>4 DEF StateAt
  <2>. QED
    BY <2>1, <2>2 DEF States
<1>7. Inboxes' = [Inboxes EXCEPT ![a] = <<>>]
  <2>1. InboxAt(a)' = <<>>
    BY <1>2, <1>3, <1>5 DEF InboxAt
  <2>2. \A b \in Addr \ {a} : InboxAt(b)' = InboxAt(b)
    BY <1>2, <1>4 DEF InboxAt
  <2>. QED
    BY <2>1, <2>2 DEF Inboxes
<1>8. Works' = Works
  <2>1. CASE ~halted /\ state = "active"
    BY <2>1, StartLoopWork DEF Spawn
  <2>2. CASE ~(~halted /\ state = "active")
    BY <2>2 DEF Spawn, Works, WorkAt
  <2>. QED
    BY <2>1, <2>2
<1>. QED
  BY <1>1, <1>6, <1>7, <1>8

\* One actor of the table gets another state.
LEMMA OneState ==
  ASSUME TypeOK, AddrOK, NEW a \in Addr, actors[a] # None, UNCHANGED actors,
         NEW x, obj' = [obj EXCEPT ![actors[a]] = x],
         x.mailbox = obj[actors[a]].mailbox
  PROVE  /\ States' = [States EXCEPT ![a] = x.state]
         /\ Inboxes' = Inboxes
<1>1. actors[a] \in Obj
  BY DEF TypeOK
<1>2. \A b \in Addr \ {a} : actors[b] # None => actors[b] \in Obj \ {actors[a]}
  BY DEF TypeOK, AddrOK
<1>3. obj'[actors[a]] = x /\ \A o \in Obj \ {actors[a]} : obj'[o] = obj[o]
  BY <1>1 DEF TypeOK
<1>4. StateAt(a)' = x.state /\ \A b \in Addr \ {a} : StateAt(b)' = StateAt(b)
  BY <1>2, <1>3 DEF StateAt
<1>5. \A b \in Addr : InboxAt(b)' = InboxAt(b)
  BY <1>2, <1>3 DEF InboxAt
<1>. QED
  BY <1>4, <1>5 DEF States, Inboxes

LEMMA AttachTable ==
  ASSUME RuntimeInv, NEW a \in Addr, Attach(a)
  PROVE  /\ States[a] \in {"suspended", "active"}
         /\ States' = [States EXCEPT ![a] = "active"]
         /\ Inboxes' = Inboxes /\ Works' = Works
<1>0. TypeOK /\ AddrOK
  BY DEF RuntimeInv
<1>1. /\ actors[a] \in Obj /\ actors[a] # None
      /\ obj[actors[a]] \in ActorState /\ obj[actors[a]].state # "ended"
  BY <1>0 DEF TypeOK, Attach, Open
<1> DEFINE x == Resumed(obj[actors[a]])
<1>2. x.state = "active" /\ x.mailbox = obj[actors[a]].mailbox
  <2>1. x.mailbox = obj[actors[a]].mailbox
    BY <1>1 DEF Resumed, ActorState
  <2>. QED
    BY <1>1, <2>1, ResumedKeeps
<1>3. obj' = [obj EXCEPT ![actors[a]] = x] /\ UNCHANGED actors
  BY DEF Attach, AttachActor
<1> HIDE DEF x
<1>4. States' = [States EXCEPT ![a] = "active"] /\ Inboxes' = Inboxes
  BY <1>0, <1>1, <1>2, <1>3, OneState
<1>5. States[a] \in {"suspended", "active"}
  BY <1>1 DEF States, StateAt, ActorState
<1>. QED
  BY <1>1, <1>4, <1>5, StartLoopWork DEF Attach, AttachActor

LEMMA DetachTable ==
  ASSUME RuntimeInv, NEW a \in Addr, Detach(a)
  PROVE  /\ States[a] \in {"suspended", "active"}
         /\ States' = [States EXCEPT ![a] = "suspended"]
         /\ Inboxes' = Inboxes
         /\ Works' = [b \in Addr |-> IF b \in {a} THEN None ELSE Works[b]]
<1>0. TypeOK /\ AddrOK
  BY DEF RuntimeInv
<1>1. /\ actors[a] \in Obj /\ actors[a] # None
      /\ obj[actors[a]] \in ActorState /\ obj[actors[a]].state # "ended"
  BY <1>0 DEF TypeOK, Detach, Open
<1> DEFINE x == Suspended(obj[actors[a]])
<1>2. x.state = "suspended" /\ x.mailbox = obj[actors[a]].mailbox
  <2>1. x.mailbox = obj[actors[a]].mailbox
    BY <1>1 DEF Suspended, ActorState
  <2>. QED
    BY <1>1, <2>1, SuspendedKeeps
<1>3. obj' = [obj EXCEPT ![actors[a]] = x] /\ UNCHANGED actors
  BY DEF Detach, DetachActor
<1> HIDE DEF x
<1>4. States' = [States EXCEPT ![a] = "suspended"] /\ Inboxes' = Inboxes
  BY <1>0, <1>1, <1>2, <1>3, OneState
<1>5. States[a] \in {"suspended", "active"}
  BY <1>1 DEF States, StateAt, ActorState
<1>6. CancelTasks({a}) /\ {a} \in SUBSET Addr
  BY DEF Detach, DetachActor
<1>. QED
  BY <1>4, <1>5, <1>6, CancelWork

LEMMA WireTable ==
  ASSUME RuntimeInv, NEW a \in Addr, Wire(a)
  PROVE  States' = States /\ Inboxes' = Inboxes /\ Works' = Works
<1>0. TypeOK
  BY DEF RuntimeInv
<1>1. \A x \in ActorState : /\ [x EXCEPT !.wired = TRUE].state = x.state
                            /\ [x EXCEPT !.wired = TRUE].mailbox = x.mailbox
  BY DEF ActorState
<1>2. \A o \in Obj : obj'[o].state = obj[o].state /\ obj'[o].mailbox = obj[o].mailbox
  BY <1>0, <1>1 DEF Wire, TypeOK
<1>. QED
  BY <1>0, <1>2, SameTable DEF Wire, Works, WorkAt

\* The end of stop ends actors of the table and takes work away.
EndsSome ==
  \E A, B \in SUBSET Addr :
    /\ \A a \in A : States[a] \in {"suspended", "active"}
    /\ States' = [a \in Addr |-> IF a \in A THEN "ended" ELSE States[a]]
    /\ Inboxes' = Inboxes
    /\ Works' = [a \in Addr |-> IF a \in A \cup B THEN None ELSE Works[a]]

LEMMA EndActorsTable ==
  ASSUME RuntimeInv, NEW S \in SUBSET Obj, \A o \in S : obj[o].addr \in Addr,
         EndActors(S), UNCHANGED actors
  PROVE  EndsSome
<1>0. TypeOK /\ AddrOK
  BY DEF RuntimeInv
<1> DEFINE B == {obj[o].addr : o \in S}
           A == {a \in Addr : actors[a] \in S /\ States[a] \in {"suspended", "active"}}
<1>1. B \in SUBSET Addr /\ A \in SUBSET Addr /\ CancelTasks(B)
  BY DEF EndActors
<1>2. A \subseteq B
  <2>1. \A a \in A : actors[a] # None /\ obj[actors[a]].addr = a
    BY <1>0, RuntimeAssumption DEF AddrOK
  <2>. QED
    BY <2>1
<1>3. \A o \in Obj : /\ obj'[o].state = IF o \in S THEN "ended" ELSE obj[o].state
                     /\ obj'[o].mailbox = obj[o].mailbox
  <2>1. \A x \in ActorState : /\ [x EXCEPT !.state = "ended"].state = "ended"
                              /\ [x EXCEPT !.state = "ended"].mailbox = x.mailbox
    BY DEF ActorState
  <2>. QED
    BY <1>0, <2>1 DEF EndActors, TypeOK
<1>4. ASSUME NEW a \in Addr
      PROVE  /\ StateAt(a)' = IF a \in A THEN "ended" ELSE StateAt(a)
             /\ InboxAt(a)' = InboxAt(a)
  <2>1. CASE actors[a] = None
    BY <2>1, RuntimeAssumption DEF StateAt, InboxAt
  <2>2. CASE actors[a] # None
    <3>1. actors[a] \in Obj /\ obj[actors[a]].state \in {"active", "suspended", "ended"}
      BY <1>0, <2>2 DEF TypeOK, ActorState
    <3>2. States[a] = obj[actors[a]].state
      BY <2>2 DEF States, StateAt
    <3>. QED
      BY <1>3, <2>2, <3>1, <3>2 DEF StateAt, InboxAt
  <2>. QED
    BY <2>1, <2>2
<1> HIDE DEF A, B
<1>5. States' = [a \in Addr |-> IF a \in A THEN "ended" ELSE States[a]]
  BY <1>4 DEF States
<1>6. Inboxes' = Inboxes
  BY <1>4 DEF Inboxes
<1>7. Works' = [a \in Addr |-> IF a \in A \cup B THEN None ELSE Works[a]]
  BY <1>1, <1>2, CancelWork
<1>8. \A a \in A : States[a] \in {"suspended", "active"}
  BY DEF A
<1>. QED
  BY <1>1, <1>5, <1>6, <1>7, <1>8 DEF EndsSome

LEMMA FinishStopTable ==
  ASSUME RuntimeInv, NEW c \in StopCalls, FinishStop(c)
  PROVE  EndsSome
<1> DEFINE S == {call[c].target, call[c].outer} \ {None}
<1>1. S \in SUBSET Obj /\ \A o \in S : obj[o].addr \in Addr
  BY CallObjects DEF RuntimeInv, CallOK
<1>2. EndActors(S) /\ UNCHANGED actors
  BY DEF FinishStop
<1> HIDE DEF S
<1>. QED
  BY <1>1, <1>2, EndActorsTable

LEMMA BeginStopTable ==
  ASSUME RuntimeInv, NEW c \in StopCalls, NEW a \in Addr, BeginStop(c, a)
  PROVE  EndsSome \/ (States' = States /\ Inboxes' = Inboxes /\ Works' = Works)
<1>0. TypeOK /\ AddrOK
  BY DEF RuntimeInv
<1>1. actors[a] \in Obj /\ obj[actors[a]].addr = a /\ UNCHANGED actors
  BY <1>0 DEF BeginStop, Open, TypeOK, AddrOK
<1>2. CASE EndActors({actors[a]})
  BY <1>1, <1>2, EndActorsTable
<1>3. CASE UNCHANGED <<obj, reg, task, robbed>>
  BY <1>0, <1>1, <1>3, SameTable DEF Works, WorkAt
<1>. QED
  BY <1>2, <1>3 DEF BeginStop

LEMMA ShutdownTable ==
  ASSUME RuntimeInv, Shutdown
  PROVE  EndsSome
<1>1. CancelTasks(Addr) /\ UNCHANGED <<actors, obj>>
  BY DEF Shutdown
<1>2. Works' = [a \in Addr |-> IF a \in Addr THEN None ELSE Works[a]]
  BY <1>1, CancelWork
<1>3. States' = States /\ Inboxes' = Inboxes
  BY <1>1, SameTable DEF RuntimeInv
<1>4. States = [a \in Addr |-> IF a \in {} THEN "ended" ELSE States[a]]
  BY DEF States
<1>5. {} \in SUBSET Addr /\ Addr \in SUBSET Addr /\ {} \cup Addr = Addr
  OBVIOUS
<1>. QED
  BY <1>2, <1>3, <1>4, <1>5 DEF EndsSome

-----------------------------------------------------------------------------
(* What messages do to the table.                                          *)

\* send() on the objects is Post on the table.
LEMMA PutTable ==
  ASSUME RuntimeInv, NEW ob, SameBut(obj, ob), NEW to \in Addr, NEW m \in Message
  PROVE  Boxes(Put(ob, to, m)) = Table!Post(Boxes(ob), to, m)
<1>0. TypeOK /\ AddrOK
  BY DEF RuntimeInv
<1>1. ob \in [Obj -> ActorState] /\ \A o \in Obj : ob[o].state = obj[o].state
  BY DEF SameBut
<1>2. CASE actors[to] = None \/ ob[actors[to]].state = "ended"
  <2>1. ~Table!Alive(to)
    BY <1>0, <1>1, <1>2 DEF Table!Alive, States, StateAt, TypeOK
  <2>. QED
    BY <1>2, <2>1 DEF Put, Table!Post
<1>3. CASE ~(actors[to] = None \/ ob[actors[to]].state = "ended")
  <2>1. actors[to] \in Obj
    BY <1>0, <1>3 DEF TypeOK
  <2>2. Table!Alive(to)
    <3>1. ob[actors[to]].state \in {"active", "suspended"}
      BY <1>1, <1>3, <2>1 DEF ActorState
    <3>. QED
      BY <1>1, <1>3, <2>1, <3>1 DEF Table!Alive, States, StateAt
  <2> DEFINE x == [ob[actors[to]] EXCEPT !.mailbox = Append(ob[actors[to]].mailbox, m)]
  <2>3. x.mailbox = Append(ob[actors[to]].mailbox, m)
    BY <1>1, <2>1 DEF ActorState
  <2>4. Put(ob, to, m) = [ob EXCEPT ![actors[to]] = x]
    BY <1>3 DEF Put
  <2> HIDE DEF x
  <2>5. \A b \in Addr \ {to} : actors[b] # None => actors[b] \in Obj \ {actors[to]}
    BY <1>0, <1>3 DEF TypeOK, AddrOK
  <2>6. /\ Boxes(Put(ob, to, m))[to] = Append(Boxes(ob)[to], m)
        /\ \A b \in Addr \ {to} : Boxes(Put(ob, to, m))[b] = Boxes(ob)[b]
    BY <1>1, <1>3, <2>1, <2>3, <2>4, <2>5 DEF Boxes
  <2>7. Boxes(Put(ob, to, m)) = [Boxes(ob) EXCEPT ![to] = Append(@, m)]
    BY <2>6 DEF Boxes
  <2>. QED
    BY <2>2, <2>7 DEF Table!Post
<1>. QED
  BY <1>2, <1>3

\* What the handler of a sends on when it relays m, or when it raises.
Relayed(new, in, a, m) == new = in \/ (Relays(a, m) /\ new = Table!Post(in, Peer[a], m))
Notified(new, in, a) ==
  new = in \/ \E b \in Addr : new = Table!Post(in, b, [from |-> a, id |-> 0])

LEMMA RelayTable ==
  ASSUME RuntimeInv, NEW ob, SameBut(obj, ob), NEW o \in Obj, NEW m \in Message,
         obj[o].addr \in Addr
  PROVE  Relayed(Boxes(Relay(ob, o, m)), Boxes(ob), obj[o].addr, m)
<1>1. Peer[obj[o].addr] \in Addr
  BY RuntimeAssumption
<1>. QED
  BY <1>1, PutTable DEF Relay, Relayed

LEMMA NotifyTable ==
  ASSUME RuntimeInv, NEW ob, SameBut(obj, ob), NEW o \in Obj, obj[o].addr \in Addr
  PROVE  Notified(Boxes(Notify(ob, o)), Boxes(ob), obj[o].addr)
<1> DEFINE a == obj[o].addr
<1>1. [from |-> a, id |-> 0] \in Message
  BY RuntimeAssumption DEF Message
<1>2. CASE Parent[a] # Nobody
  <2>1. Parent[a] \in Addr
    BY <1>2, RuntimeAssumption
  <2>. QED
    BY <1>1, <1>2, <2>1, PutTable DEF Notify, Notified
<1>3. CASE Parent[a] = Nobody
  BY <1>3 DEF Notify, Notified
<1>. QED
  BY <1>2, <1>3

LEMMA SendInTable ==
  ASSUME RuntimeInv, NEW a \in Addr, SendIn(a)
  PROVE  LET m == [from |-> IF a \in Chat THEN User ELSE a, id |-> sent + 1] IN
         /\ m \in Message
         /\ States' = States /\ Works' = Works
         /\ Inboxes' = Table!Post(Inboxes, a, m)
<1> DEFINE m == [from |-> IF a \in Chat THEN User ELSE a, id |-> sent + 1]
<1>0. TypeOK
  BY DEF RuntimeInv
<1>1. m \in Message /\ obj' = Put(obj, a, m) /\ UNCHANGED <<actors, reg, task>>
  BY <1>0, RuntimeAssumption DEF SendIn, TypeOK, Message
<1> HIDE DEF m
<1>2. SameBut(obj, obj) /\ SameBut(obj, obj')
  BY <1>0, <1>1, PutKeeps DEF TypeOK, SameBut
<1>3. Inboxes' = Boxes(obj')
  BY <1>1 DEF Inboxes, InboxAt, Boxes
<1>4. Inboxes' = Table!Post(Inboxes, a, m)
  BY <1>1, <1>2, <1>3, TableTypes, PutTable
<1>5. States' = States
  <2>1. \A b \in Addr : actors[b] # None => actors[b] \in Obj
    BY <1>0 DEF TypeOK
  <2>. QED
    BY <1>1, <1>2, <2>1 DEF States, StateAt, SameBut
<1>6. Works' = Works
  BY <1>1 DEF Works, WorkAt
<1>. QED
  BY <1>1, <1>4, <1>5, <1>6 DEF m

LEMMA LoopStartTable ==
  ASSUME RuntimeInv, NEW t \in Task, LoopStart(t)
  PROVE  States' = States /\ Inboxes' = Inboxes /\ Works' = Works
<1>0. TypeOK /\ Running(t)
  BY DEF RuntimeInv, LoopStart, Running
<1>1. UNCHANGED <<actors, obj, reg>>
  BY DEF LoopStart
<1>2. \A u \in Task : u # t => task'[u] = task[u]
  BY <1>0 DEF LoopStart, TypeOK
<1>3. task[t].phase = "new" /\ task'[t].phase # "busy"
  BY <1>0 DEF LoopStart, TypeOK, Loop, NoLoop
<1>4. \A a \in Addr : WorkAt(a)' = WorkAt(a)
  BY <1>0, <1>1, <1>2, <1>3 DEF WorkAt, TypeOK
<1>5. Works' = Works
  BY <1>4 DEF Works
<1>. QED
  BY <1>0, <1>1, <1>5, SameTable

\* A loop that changes its own state changes the work of its address only.
LEMMA LoopWork ==
  ASSUME RuntimeInv, NEW t \in Task, Running(t), UNCHANGED reg,
         NEW l, task' = [task EXCEPT ![t] = l]
  PROVE  Works' = [Works EXCEPT ![obj[task[t].owner].addr] =
                     IF l.phase = "busy" THEN l.msg ELSE None]
<1>0. TypeOK /\ RegOK
  BY DEF RuntimeInv
<1>1. PICK a \in Addr : a = obj[task[t].owner].addr /\ reg[a] = t /\ t # None
  BY LoopTable, RuntimeAssumption
<1>2. task'[t] = l /\ \A u \in Task \ {t} : task'[u] = task[u]
  BY <1>0 DEF TypeOK
<1>3. \A b \in Addr \ {a} : reg[b] # None => reg[b] \in Task \ {t}
  BY <1>0, <1>1 DEF TypeOK, RegOK
<1>4. WorkAt(a)' = IF l.phase = "busy" THEN l.msg ELSE None
  BY <1>1, <1>2 DEF WorkAt
<1>5. \A b \in Addr \ {a} : WorkAt(b)' = WorkAt(b)
  BY <1>2, <1>3 DEF WorkAt
<1>6. Works' = [Works EXCEPT ![a] = IF l.phase = "busy" THEN l.msg ELSE None]
  BY <1>1, <1>4, <1>5 DEF Works
<1>. QED
  BY <1>1, <1>6

\* A message handled without an error.
LEMMA SucceedTable ==
  ASSUME RuntimeInv, NEW t \in Task, task[t].phase \in {"wait", "busy"},
         NEW ob, SameBut(obj, ob), Succeed(t, ob), UNCHANGED <<actors, reg>>
  PROVE  /\ States' = States /\ Inboxes' = Boxes(ob)
         /\ Works' = [Works EXCEPT ![obj[task[t].owner].addr] = None]
<1> DEFINE o == task[t].owner
           l == Loop(o, task[t].box, "wait", NoMsg, 0)
           x == [ob[o] EXCEPT !.streak = 0]
<1>0. TypeOK /\ Running(t)
  BY DEF RuntimeInv, Running
<1>1. o \in Obj /\ obj[o].state = "active"
  BY <1>0, LoopFacts
<1>2. task' = [task EXCEPT ![t] = l] /\ obj' = [ob EXCEPT ![o] = x]
  BY <1>1 DEF Succeed
<1>3. l.phase = "wait"
  BY DEF Loop
<1>4. x.state = ob[o].state /\ x.mailbox = ob[o].mailbox
  BY <1>1 DEF SameBut, ActorState
<1> HIDE DEF l, x
<1>5. Works' = [Works EXCEPT ![obj[o].addr] = None]
  BY <1>0, <1>2, <1>3, LoopWork
<1>6. \A y \in Obj : obj'[y].state = obj[y].state /\ obj'[y].mailbox = ob[y].mailbox
  BY <1>1, <1>2, <1>4 DEF SameBut
<1>7. \A b \in Addr : actors[b] # None => actors[b] \in Obj
  BY <1>0 DEF TypeOK
<1>8. States' = States
  BY <1>6, <1>7 DEF States, StateAt
<1>9. Inboxes' = Boxes(ob)
  BY <1>6, <1>7 DEF Inboxes, InboxAt, Boxes
<1>. QED
  BY <1>5, <1>8, <1>9

\* A handler that raised: the parent is told, and the actor may end.
LEMMA FailTable ==
  ASSUME RuntimeInv, NEW t \in Task, task[t].phase \in {"wait", "busy"},
         NEW ob, SameBut(obj, ob), Fail(t, ob), UNCHANGED <<actors, reg>>
  PROVE  LET a == obj[task[t].owner].addr IN
         /\ States' = States \/ States' = [States EXCEPT ![a] = "ended"]
         /\ Notified(Inboxes', Boxes(ob), a)
         /\ Works' = [Works EXCEPT ![a] = None]
<1> DEFINE o == task[t].owner
           n == task[t].errors + 1
           spent == n >= MaxErrors
           l == IF spent THEN NoLoop ELSE Loop(o, task[t].box, "wait", NoMsg, n)
           ob2 == Notify(ob, o)
           r == Failed(ob2[o], spent)
<1>0. TypeOK /\ AddrOK /\ Running(t)
  BY DEF RuntimeInv, Running
<1>1. PICK a \in Addr : /\ a = obj[o].addr /\ actors[a] = o /\ o # None
                       /\ o \in Obj /\ obj[o].state = "active"
  BY <1>0, LoopFacts, RuntimeAssumption
<1>2. task' = [task EXCEPT ![t] = l] /\ obj' = [ob2 EXCEPT ![o] = r]
  BY <1>1 DEF Fail
<1>3. l.phase # "busy"
  BY DEF NoLoop, Loop
<1>4. Notified(Boxes(ob2), Boxes(ob), a)
  BY <1>1, NotifyTable
<1>5. SameBut(obj, ob2)
  <2>1. SameBut(ob, ob2)
    BY <1>0, <1>1, NotifyKeeps DEF SameBut, TypeOK
  <2>. QED
    BY <2>1, SameButTrans
<1>6. spent \in BOOLEAN
  OBVIOUS
<1> HIDE DEF ob2, spent, l
<1>7. Works' = [Works EXCEPT ![a] = None]
  BY <1>0, <1>1, <1>2, <1>3, LoopWork
<1>8. ob2 \in [Obj -> ActorState] /\ \A x \in Obj : ob2[x].state = obj[x].state
  BY <1>5 DEF SameBut
<1>9. r.state \in {"active", "ended"}
  BY <1>1, <1>6, <1>8, FailedKeeps
<1>10. r.mailbox = ob2[o].mailbox
  BY <1>1, <1>8 DEF Failed, ActorState
<1> HIDE DEF r
<1>11. obj'[o] = r /\ \A x \in Obj \ {o} : obj'[x] = ob2[x]
  BY <1>1, <1>2, <1>8
<1>12. \A b \in Addr \ {a} : actors[b] # None => actors[b] \in Obj \ {o}
  BY <1>0, <1>1 DEF TypeOK, AddrOK
<1>13. Inboxes' = Boxes(ob2)
  BY <1>1, <1>10, <1>11, <1>12 DEF Inboxes, InboxAt, Boxes
<1>14. StateAt(a)' = r.state /\ StateAt(a) = "active"
       /\ \A b \in Addr \ {a} : StateAt(b)' = StateAt(b)
  BY <1>1, <1>8, <1>11, <1>12 DEF StateAt
<1>15. States' = States \/ States' = [States EXCEPT ![a] = "ended"]
  BY <1>1, <1>9, <1>14 DEF States
<1>. QED
  BY <1>1, <1>4, <1>7, <1>13, <1>15

\* A message leaves the queue of its actor.
LEMMA PopTable ==
  ASSUME RuntimeInv, NEW t \in Task, Running(t)
  PROVE  LET o == task[t].owner IN
         Boxes([obj EXCEPT ![o].mailbox = Tail(@)]) = [Inboxes EXCEPT ![obj[o].addr] = Tail(@)]
<1> DEFINE o == task[t].owner
           a == obj[o].addr
           x == [obj[o] EXCEPT !.mailbox = Tail(obj[o].mailbox)]
<1>0. TypeOK /\ AddrOK
  BY DEF RuntimeInv
<1>1. o \in Obj /\ a \in Addr /\ actors[a] = o /\ o # None
  BY LoopFacts, RuntimeAssumption
<1>2. x.mailbox = Tail(obj[o].mailbox)
  BY <1>0, <1>1 DEF TypeOK, ActorState
<1>3. [obj EXCEPT ![o].mailbox = Tail(@)] = [obj EXCEPT ![o] = x]
  OBVIOUS
<1> HIDE DEF x
<1> DEFINE ob == [obj EXCEPT ![o] = x]
<1>4. ob[o] = x /\ \A y \in Obj \ {o} : ob[y] = obj[y]
  BY <1>0, <1>1 DEF TypeOK
<1>5. \A b \in Addr \ {a} : actors[b] # None => actors[b] \in Obj \ {o}
  BY <1>0, <1>1 DEF TypeOK, AddrOK
<1> HIDE DEF ob
<1>6. Boxes(ob) = [Inboxes EXCEPT ![a] = Tail(@)]
  <2>1. Boxes(ob)[a] = Tail(Inboxes[a])
    BY <1>1, <1>2, <1>4 DEF Boxes, Inboxes, InboxAt
  <2>2. \A b \in Addr \ {a} : Boxes(ob)[b] = Inboxes[b]
    BY <1>4, <1>5 DEF Boxes, Inboxes, InboxAt
  <2> HIDE DEF a
  <2>. QED
    BY <2>1, <2>2 DEF Boxes, Inboxes
<1>. QED
  BY <1>3, <1>6 DEF ob

\* How handling m ends at a, the inboxes being in: what it sent on went out, or it
\* raised.
Handled(in, a, m) ==
  /\ Works' = [Works EXCEPT ![a] = None]
  /\ \/ States' = States /\ Relayed(Inboxes', in, a, m)
     \/ /\ States' = States \/ States' = [States EXCEPT ![a] = "ended"]
        /\ Notified(Inboxes', in, a)

\* Take: the oldest message of an active actor without work.
LEMMA TakeTable ==
  ASSUME RuntimeInv, NEW t \in Task, Take(t)
  PROVE  \E a \in Addr :
           LET m == Head(Inboxes[a])
               in == [Inboxes EXCEPT ![a] = Tail(@)] IN
           /\ States[a] = "active" /\ Works[a] = None /\ Inboxes[a] # <<>>
           /\ m \in Message
           /\ \/ /\ Works' = [Works EXCEPT ![a] = m]
                 /\ Inboxes' = in /\ States' = States
                 /\ pushed' = IF Relays(a, m) \/ m.id = 0 THEN pushed
                              ELSE [pushed EXCEPT ![a] = Append(@, m.id)]
              \/ Handled(in, a, m) /\ UNCHANGED pushed
<1> DEFINE o == task[t].owner
           m == Head(obj[o].mailbox)
           a == obj[o].addr
           ob == [obj EXCEPT ![o].mailbox = Tail(@)]
           l == Loop(o, o, "busy", m, task[t].errors)
           in == [Inboxes EXCEPT ![a] = Tail(@)]
<1>0. TypeOK /\ Running(t) /\ task[t].phase = "wait"
  BY DEF RuntimeInv, Take, Running
<1>1. o \in Obj /\ a \in Addr /\ obj[o].state = "active" /\ task[t].box = o
  BY <1>0, LoopFacts
<1>2. obj[o].mailbox # <<>> /\ UNCHANGED <<actors, reg>>
  BY <1>1 DEF Take
<1>3. SameBut(obj, ob) /\ m \in Message
  BY <1>0, <1>1, <1>2, PopKeeps DEF TypeOK
<1>4. States[a] = "active" /\ Works[a] = None /\ Inboxes[a] = obj[o].mailbox
  BY <1>0, LoopTable
<1>5. Boxes(ob) = in
  BY <1>0, PopTable
<1>6. CASE /\ obj' = ob /\ task' = [task EXCEPT ![t] = l]
           /\ pushed' = IF Relays(a, m) \/ m.id = 0 THEN pushed
                        ELSE [pushed EXCEPT ![a] = Append(@, m.id)]
  <2>1. l.phase = "busy" /\ l.msg = m
    BY DEF Loop
  <2> HIDE DEF l, ob, m
  <2>2. Works' = [Works EXCEPT ![a] = m]
    BY <1>0, <1>2, <1>6, <2>1, LoopWork
  <2>3. Inboxes' = Boxes(ob)
    BY <1>2, <1>6 DEF Inboxes, InboxAt, Boxes
  <2>4. States' = States
    <3>1. \A b \in Addr : actors[b] # None => actors[b] \in Obj
      BY <1>0 DEF TypeOK
    <3>. QED
      BY <1>2, <1>3, <1>6, <3>1 DEF States, StateAt, SameBut
  <2> HIDE DEF in
  <2>5. m = Head(Inboxes[a])
    BY <1>4 DEF m
  <2> HIDE DEF a
  <2>. QED
    BY <1>1, <1>2, <1>3, <1>4, <1>5, <1>6, <2>2, <2>3, <2>4, <2>5 DEF in
<1>7. CASE Succeed(t, Relay(ob, o, m)) /\ UNCHANGED pushed
  <2> HIDE DEF ob, m, in
  <2>1. SameBut(ob, Relay(ob, o, m))
    BY <1>0, <1>1, <1>3, RelayKeeps DEF SameBut, TypeOK
  <2>2. SameBut(obj, Relay(ob, o, m))
    BY <1>3, <2>1, SameButTrans
  <2>3. /\ States' = States /\ Inboxes' = Boxes(Relay(ob, o, m))
        /\ Works' = [Works EXCEPT ![a] = None]
    BY <1>0, <1>2, <1>7, <2>2, SucceedTable
  <2>4. Relayed(Inboxes', in, a, m)
    BY <1>1, <1>3, <1>5, <2>3, RelayTable
  <2>5. m = Head(Inboxes[a])
    BY <1>4 DEF m
  <2>6. Handled(in, a, m)
    BY <2>3, <2>4 DEF Handled
  <2> HIDE DEF a
  <2>. QED
    BY <1>1, <1>2, <1>3, <1>4, <1>7, <2>5, <2>6 DEF in
<1>8. CASE Fail(t, ob) /\ UNCHANGED pushed
  <2>1. m = Head(Inboxes[a])
    BY <1>4
  <2> HIDE DEF ob, m, in
  <2>2. Handled(in, a, m)
    BY <1>0, <1>2, <1>3, <1>5, <1>8, FailTable DEF Handled
  <2> HIDE DEF a
  <2>. QED
    BY <1>1, <1>2, <1>3, <1>4, <1>8, <2>1, <2>2 DEF in
<1>. QED
  BY <1>1, <1>6, <1>7, <1>8 DEF Take

\* Resume: the work of an active actor is over.
LEMMA ResumeTable ==
  ASSUME RuntimeInv, NEW t \in Task, Resume(t)
  PROVE  \E a \in Addr :
           /\ States[a] = "active" /\ Works[a] \in Message
           /\ Handled(Inboxes, a, Works[a])
           /\ UNCHANGED pushed
<1> DEFINE o == task[t].owner
           a == obj[o].addr
           m == task[t].msg
<1>0. TypeOK /\ Running(t) /\ task[t].phase = "busy"
  BY DEF RuntimeInv, Resume, Running
<1>1. o \in Obj /\ a \in Addr /\ m \in Message
  BY <1>0, LoopFacts DEF LoopState
<1>2. States[a] = "active" /\ Works[a] = m
  BY <1>0, LoopTable
<1>3. UNCHANGED <<actors, reg, pushed>>
  BY DEF Resume
<1>4. SameBut(obj, obj) /\ Boxes(obj) = Inboxes
  BY <1>0, TableTypes DEF SameBut, TypeOK
<1>5. CASE Succeed(t, Relay(obj, o, m))
  <2>1. SameBut(obj, Relay(obj, o, m))
    BY <1>0, <1>1, RelayKeeps DEF TypeOK
  <2>2. /\ States' = States /\ Inboxes' = Boxes(Relay(obj, o, m))
        /\ Works' = [Works EXCEPT ![a] = None]
    BY <1>0, <1>3, <1>5, <2>1, SucceedTable
  <2>3. Relayed(Inboxes', Inboxes, a, m)
    BY <1>1, <1>4, <2>2, RelayTable
  <2> HIDE DEF a, m
  <2>. QED
    BY <1>1, <1>2, <1>3, <2>2, <2>3 DEF Handled
<1>6. CASE Fail(t, obj)
  <2>1. Handled(Inboxes, a, m)
    BY <1>0, <1>3, <1>4, <1>6, FailTable DEF Handled
  <2> HIDE DEF a, m
  <2>. QED
    BY <1>1, <1>2, <1>3, <2>1
<1>. QED
  BY <1>5, <1>6 DEF Resume

-----------------------------------------------------------------------------
(* Every step of the runtime is a step of the table, or none.              *)

TableStays == States' = States /\ Inboxes' = Inboxes /\ Works' = Works

\* The empty runtime is the empty table.
LEMMA InitTable == Init => Table!Init
  BY DEF Init, Table!Init, States, StateAt, Inboxes, InboxAt, Works, WorkAt

\* A post to an actor that is alive is seen in its inbox.
LEMMA PostOutcome ==
  ASSUME NEW in \in [Addr -> Seq(Message)], NEW b \in Addr, NEW m \in Message,
         Inboxes' = Table!Post(in, b, m)
  PROVE  \/ Inboxes' = in
         \/ \E c \in {x \in Addr : Table!Alive(x) /\ Inboxes'[x] # in[x]} :
              \E n \in Message : Inboxes' = Table!Post(in, c, n)
<1>1. CASE Table!Alive(b)
  <2>1. Inboxes'[b] = Append(in[b], m)
    BY <1>1 DEF Table!Post
  <2>2. Append(in[b], m) # in[b]
    <3>1. in[b] \in Seq(Message)
      OBVIOUS
    <3>. QED
      BY <3>1
  <2>. QED
    BY <1>1, <2>1, <2>2
<1>2. CASE ~Table!Alive(b)
  BY <1>2 DEF Table!Post
<1>. QED
  BY <1>1, <1>2

\* However the handling of a message ends, it is an outcome of the table.
LEMMA HandledOutcome ==
  ASSUME NEW in \in [Addr -> Seq(Message)], NEW a \in Addr, NEW m \in Message,
         Handled(in, a, m)
  PROVE  Table!Outcome(a, in)
<1>1. Inboxes' = in \/ \E b \in Addr, n \in Message : Inboxes' = Table!Post(in, b, n)
  <2>1. Peer[a] \in Addr /\ [from |-> a, id |-> 0] \in Message
    BY RuntimeAssumption DEF Message
  <2>. QED
    BY <2>1 DEF Handled, Relayed, Notified
<1>2. \/ Inboxes' = in
      \/ \E c \in {x \in Addr : Table!Alive(x) /\ Inboxes'[x] # in[x]} :
           \E n \in Message : Inboxes' = Table!Post(in, c, n)
  BY <1>1, PostOutcome
<1>3. States' = States \/ States' = [States EXCEPT ![a] = "ended"]
  BY DEF Handled
<1>. QED
  BY <1>2, <1>3 DEF Table!Outcome

LEMMA SpawnRefines ==
  ASSUME RuntimeInv, NEW a \in Addr, NEW o \in Obj,
         NEW state \in {"active", "suspended"}, NEW wired \in BOOLEAN,
         Spawn(a, o, state, wired)
  PROVE  Table!Next
<1>1. Table!Spawn(a, state)
  BY SpawnTable DEF Table!Spawn, Table!Alive
<1>. QED
  BY <1>1 DEF Table!Next

\* A reconnect of an active session changes nothing in the table.
LEMMA AttachRefines ==
  ASSUME RuntimeInv, NEW a \in Addr, Attach(a)
  PROVE  Table!Next \/ TableStays
<1>1. CASE States[a] = "suspended"
  <2>1. Table!Resume(a)
    BY <1>1, AttachTable DEF Table!Resume
  <2>. QED
    BY <2>1 DEF Table!Next
<1>2. CASE States[a] = "active"
  BY <1>2, AttachTable, TableTypes DEF TableStays
<1>. QED
  BY <1>1, <1>2, AttachTable

\* A suspended actor has no work to lose.
LEMMA DetachRefines ==
  ASSUME RuntimeInv, NEW a \in Addr, Detach(a)
  PROVE  Table!Next \/ TableStays
<1>1. CASE States[a] = "active"
  <2>1. Table!Suspend(a)
    BY <1>1, DetachTable DEF Table!Suspend, Table!Interrupt
  <2>. QED
    BY <2>1 DEF Table!Next
<1>2. CASE States[a] = "suspended"
  <2>1. Works[a] = None
    BY <1>2, WorkTable
  <2>. QED
    BY <1>2, <2>1, DetachTable, TableTypes DEF TableStays
<1>. QED
  BY <1>1, <1>2, DetachTable

LEMMA SendInRefines ==
  ASSUME RuntimeInv, NEW a \in Addr, SendIn(a)
  PROVE  Table!Next
<1>1. PICK m \in Message : /\ States' = States /\ Works' = Works
                           /\ Inboxes' = Table!Post(Inboxes, a, m)
  BY SendInTable
<1>2. Table!Send(a, m)
  BY <1>1 DEF Table!Send
<1>. QED
  BY <1>2 DEF Table!Next

\* The end of a stop, early or late, and shutdown.
LEMMA EndsRefine == EndsSome => Table!Next
<1> SUFFICES ASSUME EndsSome PROVE Table!Next
  OBVIOUS
<1>1. PICK A \in SUBSET Addr, B \in SUBSET Addr :
        /\ \A a \in A : States[a] \in {"suspended", "active"}
        /\ States' = [a \in Addr |-> IF a \in A THEN "ended" ELSE States[a]]
        /\ Inboxes' = Inboxes
        /\ Works' = [a \in Addr |-> IF a \in A \cup B THEN None ELSE Works[a]]
  BY DEF EndsSome
<1>2. Table!End(A, B)
  BY <1>1 DEF Table!End, Table!Interrupt, Table!Alive
<1>. QED
  BY <1>2 DEF Table!Next

\* A loop that takes a message puts it in work, or is through with it at once.
LEMMA TakeRefines ==
  ASSUME RuntimeInv, NEW t \in Task, Take(t)
  PROVE  Table!Next
<1>1. PICK a \in Addr :
        /\ States[a] = "active" /\ Works[a] = None /\ Inboxes[a] # <<>>
        /\ Head(Inboxes[a]) \in Message
        /\ \/ /\ Works' = [Works EXCEPT ![a] = Head(Inboxes[a])]
              /\ Inboxes' = [Inboxes EXCEPT ![a] = Tail(@)] /\ States' = States
           \/ Handled([Inboxes EXCEPT ![a] = Tail(@)], a, Head(Inboxes[a]))
  BY TakeTable
<1>2. CASE /\ Works' = [Works EXCEPT ![a] = Head(Inboxes[a])]
           /\ Inboxes' = [Inboxes EXCEPT ![a] = Tail(@)] /\ States' = States
  <2>1. Table!Accept(a)
    BY <1>1, <1>2 DEF Table!Accept
  <2>. QED
    BY <2>1 DEF Table!Next
<1>3. CASE Handled([Inboxes EXCEPT ![a] = Tail(@)], a, Head(Inboxes[a]))
  <2>1. [Inboxes EXCEPT ![a] = Tail(@)] \in [Addr -> Seq(Message)]
    <3>1. Inboxes \in [Addr -> Seq(Message)]
      BY TableTypes
    <3>2. Tail(Inboxes[a]) \in Seq(Message)
      BY <1>1, <3>1
    <3>. QED
      BY <3>1, <3>2
  <2>2. Table!Outcome(a, [Inboxes EXCEPT ![a] = Tail(@)])
    BY <1>1, <1>3, <2>1, HandledOutcome
  <2>3. Works' = Works
    BY <1>1, <1>3, TableTypes DEF Handled
  <2>4. Table!AcceptAndFinish(a)
    BY <1>1, <2>2, <2>3 DEF Table!AcceptAndFinish
  <2>. QED
    BY <2>4 DEF Table!Next
<1>. QED
  BY <1>1, <1>2, <1>3

LEMMA ResumeRefines ==
  ASSUME RuntimeInv, NEW t \in Task, Resume(t)
  PROVE  Table!Next
<1>1. PICK a \in Addr : /\ States[a] = "active" /\ Works[a] \in Message
                        /\ Handled(Inboxes, a, Works[a])
  BY ResumeTable
<1>2. Inboxes \in [Addr -> Seq(Message)]
  BY TableTypes
<1>3. Table!Outcome(a, Inboxes)
  BY <1>1, <1>2, HandledOutcome
<1>4. Table!Finish(a)
  BY <1>1, <1>3, IdleAssumption DEF Table!Finish, Handled
<1>. QED
  BY <1>4 DEF Table!Next

LEMMA NextRefines == RuntimeInv /\ [Next]_vars => [Table!Next]_Table!tableVars
<1> SUFFICES ASSUME RuntimeInv, [Next]_vars
             PROVE  Table!Next \/ TableStays
  BY DEF TableStays, Table!tableVars
<1>1. CASE UNCHANGED vars
  BY <1>1 DEF vars, TableStays, States, StateAt, Inboxes, InboxAt, Works, WorkAt
<1>2. ASSUME NEW a \in Addr, NEW o \in Obj, NEW s \in {"active", "suspended"},
             NEW w \in BOOLEAN, Spawn(a, o, s, w)
      PROVE  Table!Next
  BY <1>2, SpawnRefines
<1>3. ASSUME NEW a \in Addr, Attach(a)
      PROVE  Table!Next \/ TableStays
  BY <1>3, AttachRefines
<1>4. ASSUME NEW a \in Addr, Detach(a)
      PROVE  Table!Next \/ TableStays
  BY <1>4, DetachRefines
<1>5. ASSUME NEW a \in Addr, Wire(a)
      PROVE  TableStays
  BY <1>5, WireTable DEF TableStays
<1>6. ASSUME NEW a \in Addr, SendIn(a)
      PROVE  Table!Next
  BY <1>6, SendInRefines
<1>7. ASSUME NEW a \in Addr, NEW c \in StopCalls, BeginStop(c, a)
      PROVE  Table!Next \/ TableStays
  BY <1>7, BeginStopTable, EndsRefine DEF TableStays
<1>8. ASSUME NEW c \in StopCalls, FinishStop(c)
      PROVE  Table!Next
  BY <1>8, FinishStopTable, EndsRefine
<1>9. CASE Shutdown
  BY <1>9, ShutdownTable, EndsRefine
<1>10. ASSUME NEW t \in Task, Step(t)
       PROVE  Table!Next \/ TableStays
  BY <1>10, LoopStartTable, TakeRefines, ResumeRefines DEF Step, TableStays
<1>. QED
  BY <1>1, <1>2, <1>3, <1>4, <1>5, <1>6, <1>7, <1>8, <1>9, <1>10 DEF Next

\* The runtime implements the actor table, for any actors, tasks and calls: tasks,
\* awaits, cancellations and the reuse of addresses together amount to one actor
\* per address that handles its messages in order, one at a time, while it is
\* active, and loses at most the one in work (runtime.py:180-240).
THEOREM RuntimeImplementsTable == Spec => ImplementsTable
<1>1. Init => Table!Init
  BY InitTable
<1>2. RuntimeInv /\ [Next]_vars => [Table!Next]_Table!tableVars
  BY NextRefines
<1>. QED
  BY <1>1, <1>2, RuntimeInvariant, PTL DEF Spec, ImplementsTable, Table!TableSpec
=============================================================================
