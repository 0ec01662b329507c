-------------------------- MODULE ActorRuntimeProofs --------------------------
(***************************************************************************)
(* Proofs about ActorRuntime, for any number of actors, loop tasks and     *)
(* concurrent calls of stop, and any number of messages.                   *)
(***************************************************************************)
EXTENDS ActorRuntime, TLAPS

-----------------------------------------------------------------------------
(* What the message operators leave alone.                                 *)

\* Two versions of the objects that differ in mailboxes only.
SameBut(ob, new) ==
  /\ new \in [Obj -> ActorState]
  /\ \A o \in Obj : /\ new[o].addr = ob[o].addr
                    /\ new[o].state = ob[o].state
                    /\ new[o].attached = ob[o].attached
                    /\ new[o].wired = ob[o].wired
                    /\ new[o].streak = ob[o].streak

\* send() changes one mailbox at most, and keeps its shape.
LEMMA PutKeeps ==
  ASSUME NEW ob \in [Obj -> ActorState], NEW to \in Addr, NEW m \in Message,
         actors \in [Addr -> Obj \cup {None}]
  PROVE  SameBut(ob, Put(ob, to, m))
<1>1. CASE actors[to] = None \/ ob[actors[to]].state = "ended"
  BY <1>1 DEF Put, SameBut
<1>2. CASE ~(actors[to] = None \/ ob[actors[to]].state = "ended")
  <2>1. actors[to] \in Obj
    BY <1>2
  <2>2. Append(ob[actors[to]].mailbox, m) \in Seq(Message)
    BY <2>1 DEF ActorState
  <2> DEFINE x == actors[to]
             r == [ob[x] EXCEPT !.mailbox = Append(ob[x].mailbox, m)]
  <2>3. Put(ob, to, m) = [ob EXCEPT ![x] = r]
    BY <1>2 DEF Put
  <2>4. ob[x] \in ActorState
    BY <2>1
  <2>5. /\ r \in ActorState
        /\ r.addr = ob[x].addr /\ r.state = ob[x].state
        /\ r.attached = ob[x].attached /\ r.wired = ob[x].wired
        /\ r.streak = ob[x].streak
    BY <2>2, <2>4 DEF ActorState
  <2>. QED
    <3> HIDE DEF r, x
    <3> QED BY <2>1, <2>3, <2>5 DEF SameBut, x
<1>. QED
  BY <1>1, <1>2

\* Relaying a message downstream changes mailboxes only.
LEMMA RelayKeeps ==
  ASSUME NEW ob \in [Obj -> ActorState], NEW o \in Obj, NEW m \in Message,
         obj[o].addr \in Addr, actors \in [Addr -> Obj \cup {None}]
  PROVE  SameBut(ob, Relay(ob, o, m))
<1>1. Peer[obj[o].addr] \in Addr
  BY RuntimeAssumption
<1>2. SameBut(ob, Put(ob, Peer[obj[o].addr], m))
  BY <1>1, PutKeeps
<1>3. SameBut(ob, ob)
  BY DEF SameBut
<1>. QED
  BY <1>2, <1>3 DEF Relay

\* Telling the parent of an error changes mailboxes only.
LEMMA NotifyKeeps ==
  ASSUME NEW ob \in [Obj -> ActorState], NEW o \in Obj,
         obj[o].addr \in Addr, actors \in [Addr -> Obj \cup {None}]
  PROVE  SameBut(ob, Notify(ob, o))
<1> DEFINE a == obj[o].addr
           m == [from |-> a, id |-> 0]
<1>1. m \in Message
  BY RuntimeAssumption DEF Message
<1>2. CASE Parent[a] = Nobody
  BY <1>2 DEF Notify, SameBut
<1>3. CASE Parent[a] # Nobody
  <2>1. Parent[a] \in Addr
    BY <1>3, RuntimeAssumption
  <2>2. SameBut(ob, Put(ob, Parent[a], m))
    BY <1>1, <2>1, PutKeeps
  <2>. QED
    BY <1>3, <2>2 DEF Notify
<1>. QED
  BY <1>2, <1>3

-----------------------------------------------------------------------------
(* The inductive invariant.                                                *)

\* The object at an address bears that address.
AddrOK == \A a \in Addr : actors[a] # None => obj[actors[a]].addr = a

\* A task is registered under one address.
RegOK == \A a, b \in Addr : reg[a] # None /\ reg[a] = reg[b] => a = b

\* A running loop has an actor.
OwnerOK == \A t \in Task : Running(t) =>
             task[t].owner \in Obj /\ obj[task[t].owner].addr \in Addr

\* The objects a call of stop will end have an address.
CallOK == \A c \in StopCalls : \A o \in {call[c].target, call[c].outer} \ {None} :
            obj[o].addr \in Addr

RuntimeInv ==
  /\ TypeOK
  /\ AddrOK /\ RegOK /\ OwnerOK /\ CallOK
  /\ SingleLoop /\ LoopReadsOwnMailbox
  /\ ActiveIsAttached /\ ActiveHasLoop

\* The values the loops and the objects start from have the right shape.
LEMMA Blank ==
  /\ NoMsg \in Message
  /\ NoActor \in ActorState
  /\ NoLoop \in LoopState
  /\ NoStop \in StopState
<1>1. NoMsg \in Message
  BY RuntimeAssumption DEF NoMsg, Message
<1>2. <<>> \in Seq(Message)
  OBVIOUS
<1>3. NoActor \in ActorState
  BY <1>2, RuntimeAssumption DEF NoActor, NewActor, ActorState
<1>4. NoLoop \in LoopState
  BY <1>1, RuntimeAssumption DEF NoLoop, Loop, LoopState
<1>5. NoStop \in StopState
  BY DEF NoStop, StopState
<1>. QED
  BY <1>1, <1>3, <1>4, <1>5

\* The empty runtime satisfies the invariant.
LEMMA InitInv == Init => RuntimeInv
<1> SUFFICES ASSUME Init PROVE RuntimeInv
  OBVIOUS
<1>1. TypeOK
  <2>1. 0 \in 0..MaxSent /\ <<>> \in Seq(0..MaxSent)
    BY RuntimeAssumption
  <2>2. pushed \in [Addr -> Seq(0..MaxSent)]
    BY <2>1 DEF Init
  <2>3. /\ obj \in [Obj -> ActorState] /\ task \in [Task -> LoopState]
        /\ call \in [StopCalls -> StopState]
    BY Blank DEF Init
  <2>. QED
    BY <2>1, <2>2, <2>3 DEF Init, TypeOK
<1>2. \A t \in Task : ~Running(t)
  BY DEF Init, Running, NoLoop, Loop
<1>3. AddrOK /\ RegOK /\ OwnerOK /\ SingleLoop
  BY <1>2 DEF Init, AddrOK, RegOK, OwnerOK, SingleLoop
<1>4. LoopReadsOwnMailbox
  BY DEF Init, LoopReadsOwnMailbox, NoLoop, Loop
<1>5. ActiveIsAttached /\ ActiveHasLoop
  BY DEF Init, ActiveIsAttached, ActiveHasLoop, Active
<1>6. CallOK
  BY DEF Init, CallOK, NoStop
<1>. QED
  BY <1>1, <1>3, <1>4, <1>5, <1>6 DEF RuntimeInv

\* What _maybe_start_loop does: the address has a loop afterwards, and any
\* running loop is an old one, registered as before, or the new one.
LEMMA StartLoopFacts ==
  ASSUME RuntimeInv, NEW a \in Addr, NEW o \in Obj, StartLoop(a, o)
  PROVE  /\ reg' \in [Addr -> Task \cup {None}]
         /\ task' \in [Task -> LoopState]
         /\ RegOK'
         /\ Looping(a)'
         /\ \A b \in Addr \ {a} : reg'[b] = reg[b] /\ (Looping(b) => Looping(b)')
         /\ \A t \in Task : Running(t)' =>
              \/ Running(t) /\ task'[t] = task[t] /\ \A b \in Addr : reg[b] = t => reg'[b] = t
              \/ ~Looping(a) /\ reg'[a] = t /\ task'[t].owner = o /\ task'[t].phase = "new"
<1> USE DEF Running, Looping
<1>0. TypeOK /\ RegOK
  BY DEF RuntimeInv
<1>1. CASE Looping(a)
  BY <1>0, <1>1 DEF StartLoop, TypeOK, RegOK
<1>2. CASE ~Looping(a)
  <2>1. PICK t \in Task :
          /\ ~Running(t) /\ \A b \in Addr : reg[b] # t
          /\ reg' = [reg EXCEPT ![a] = t]
          /\ task' = [task EXCEPT ![t] = Loop(o, None, "new", NoMsg, 0)]
    BY <1>2 DEF StartLoop
  <2> DEFINE l == Loop(o, None, "new", NoMsg, 0)
  <2>2. l \in LoopState /\ l.owner = o /\ l.phase = "new"
    BY Blank, RuntimeAssumption DEF LoopState, Loop
  <2>3. task' = [task EXCEPT ![t] = l]
    BY <2>1
  <2> HIDE DEF l
  <2>4. reg' \in [Addr -> Task \cup {None}] /\ task' \in [Task -> LoopState]
    BY <1>0, <2>1, <2>2, <2>3 DEF TypeOK
  <2>5. t # None
    BY RuntimeAssumption
  <2>6. RegOK'
    BY <1>0, <2>1 DEF TypeOK, RegOK
  <2>7. reg'[a] = t /\ task'[t] = l /\ \A b \in Addr \ {a} : reg'[b] = reg[b] /\ reg[b] # t
    BY <1>0, <2>1, <2>3 DEF TypeOK
  <2>8. \A u \in Task : u # t => task'[u] = task[u]
    BY <1>0, <2>3 DEF TypeOK
  <2>9. Looping(a)'
    BY <2>2, <2>5, <2>7
  <2>10. \A b \in Addr \ {a} : Looping(b) => Looping(b)'
    BY <1>0, <2>7, <2>8 DEF TypeOK
  <2>11. ASSUME NEW u \in Task, Running(u)'
         PROVE  \/ Running(u) /\ task'[u] = task[u] /\ \A b \in Addr : reg[b] = u => reg'[b] = u
                \/ ~Looping(a) /\ reg'[a] = u /\ task'[u].owner = o /\ task'[u].phase = "new"
    <3>1. CASE u = t
      BY <1>2, <2>2, <2>7, <3>1
    <3>2. CASE u # t
      <4>1. Running(u) /\ task'[u] = task[u]
        BY <2>8, <2>11, <3>2
      <4>2. reg[a] # u
        BY <1>2, <4>1, RuntimeAssumption
      <4>. QED
        BY <2>7, <4>1, <4>2
    <3>. QED
      BY <3>1, <3>2
  <2>. QED
    BY <2>4, <2>6, <2>7, <2>9, <2>10, <2>11
<1>. QED
  BY <1>1, <1>2

\* What _cancel_task does at the addresses of A: their loops are over, and the
\* others are untouched.
LEMMA CancelFacts ==
  ASSUME RuntimeInv, NEW A \in SUBSET Addr, CancelTasks(A)
  PROVE  /\ reg' \in [Addr -> Task \cup {None}]
         /\ task' \in [Task -> LoopState]
         /\ RegOK'
         /\ \A b \in Addr \ A : reg'[b] = reg[b] /\ (Looping(b) => Looping(b)')
         /\ \A t \in Task : Running(t)' =>
              Running(t) /\ task'[t] = task[t] /\ \A b \in Addr : reg[b] = t => b \notin A /\ reg'[b] = t
<1> USE DEF Running, Looping
<1>0. TypeOK /\ RegOK /\ OwnerOK /\ SingleLoop
  BY DEF RuntimeInv
<1>1. reg' \in [Addr -> Task \cup {None}] /\ \A b \in Addr : reg'[b] = IF b \in A THEN None ELSE reg[b]
  BY <1>0 DEF CancelTasks, TypeOK
<1>2. task' \in [Task -> LoopState]
  BY <1>0, Blank DEF CancelTasks, TypeOK
<1>3. RegOK'
  BY <1>0, <1>1 DEF RegOK
<1>4. \A t \in Task : task'[t] = IF \E a \in A : reg[a] = t THEN NoLoop ELSE task[t]
  BY DEF CancelTasks
<1>5. \A t \in Task : Running(t)' =>
        Running(t) /\ task'[t] = task[t] /\ ~\E a \in A : reg[a] = t
  BY <1>4 DEF NoLoop, Loop
<1>6. ASSUME NEW b \in Addr \ A, Looping(b)
      PROVE  Looping(b)'
  <2>1. reg[b] \in Task /\ Running(reg[b]) /\ reg'[b] = reg[b]
    BY <1>0, <1>1, <1>6 DEF TypeOK
  <2>2. ~\E a \in A : reg[a] = reg[b]
    BY <1>0, <1>6, <2>1, RuntimeAssumption DEF RegOK
  <2>. QED
    BY <1>0, <1>4, <2>1, <2>2, RuntimeAssumption
<1>. QED
  BY <1>1, <1>2, <1>3, <1>5, <1>6

-----------------------------------------------------------------------------
(* Every operation keeps the invariant.                                    *)

\* spawn: the new actor and its loop are the only ones of the address.
LEMMA SpawnInv ==
  ASSUME RuntimeInv, NEW a \in Addr, NEW o \in Obj,
         NEW state \in {"active", "suspended"}, NEW wired \in BOOLEAN,
         Spawn(a, o, state, wired)
  PROVE  RuntimeInv'
<1> USE DEF Running, Looping
<1> DEFINE new == NewActor(a, state, wired)
           old == NewActor(a, "ended", FALSE)
<1>0. /\ TypeOK /\ AddrOK /\ RegOK /\ OwnerOK /\ CallOK /\ SingleLoop
      /\ LoopReadsOwnMailbox /\ ActiveIsAttached /\ ActiveHasLoop
  BY DEF RuntimeInv
<1>3. new \in ActorState /\ old \in ActorState
  <2>1. <<>> \in Seq(Message) /\ 0 \in 0..MaxErrors
    BY RuntimeAssumption
  <2>. QED
    BY <2>1 DEF ActorState, NewActor
<1>4. \A x \in Obj : obj'[x] = IF x = o THEN new ELSE IF x = actors[a] THEN old ELSE obj[x]
  BY DEF Spawn
<1>5. /\ new.addr = a /\ new.state = state /\ new.attached = (state = "active")
      /\ old.addr = a /\ old.state = "ended"
  BY DEF NewActor
<1>6. obj' \in [Obj -> ActorState]
  BY <1>0, <1>3 DEF Spawn, TypeOK
<1> HIDE DEF new, old
<1>7. /\ actors' \in [Addr -> Obj \cup {None}]
      /\ actors'[a] = o /\ \A b \in Addr \ {a} : actors'[b] = actors[b] /\ actors[b] # o
  BY <1>0 DEF Spawn, Unused, TypeOK
<1>8. ASSUME NEW b \in Addr \ {a}, actors[b] # None
      PROVE  obj'[actors[b]] = obj[actors[b]]
  <2>1. actors[b] \in Obj /\ actors[b] # o /\ actors[b] # None
    BY <1>0, <1>7, <1>8 DEF TypeOK
  <2>2. actors[b] # actors[a]
    BY <1>0, <1>8 DEF AddrOK
  <2>. QED
    BY <1>4, <2>1, <2>2
<1>9. ASSUME NEW t \in Task, Running(t)
      PROVE  /\ task[t].owner # o /\ obj'[task[t].owner] = obj[task[t].owner]
             /\ obj[task[t].owner].addr # a
             /\ reg[a] # t
  <2>1. task[t].owner # o /\ task[t].owner # actors[a]
    <3>1. task[t].owner # o
      BY <1>9 DEF Spawn, Unused
    <3>2. obj[task[t].owner].state = "active" /\ task[t].owner \in Obj
      BY <1>0, <1>9 DEF SingleLoop, OwnerOK
    <3>3. actors[a] = None \/ obj[actors[a]].state = "ended"
      BY DEF Spawn, Open
    <3>. QED
      BY <3>1, <3>2, <3>3, RuntimeAssumption
  <2>2. obj[task[t].owner].addr # a
    BY <1>0, <1>9, <2>1 DEF SingleLoop
  <2>. QED
    BY <1>0, <1>4, <1>9, <2>1, <2>2, RuntimeAssumption DEF OwnerOK, SingleLoop, RegOK
<1>10. ~Looping(a)
  BY <1>0, <1>9 DEF TypeOK
<1>11. UNCHANGED <<call, halted, sent, pushed>> /\ robbed' = robbed \ {a}
  BY DEF Spawn
<1>12. /\ reg' \in [Addr -> Task \cup {None}]
       /\ task' \in [Task -> LoopState]
       /\ RegOK'
       /\ \A b \in Addr \ {a} : Looping(b) => Looping(b)'
       /\ (state = "active" /\ ~halted) => Looping(a)'
       /\ \A t \in Task : Running(t)' =>
            \/ Running(t) /\ task'[t] = task[t] /\ \A b \in Addr : reg[b] = t => reg'[b] = t
            \/ reg'[a] = t /\ task'[t].owner = o /\ task'[t].phase = "new" /\ state = "active"
  <2>1. CASE ~halted /\ state = "active"
    BY <2>1, StartLoopFacts DEF Spawn
  <2>2. CASE ~(~halted /\ state = "active")
    BY <1>0, <2>2 DEF Spawn, TypeOK, RegOK
  <2>. QED
    BY <2>1, <2>2
<1>13. TypeOK'
  BY <1>0, <1>6, <1>7, <1>11, <1>12 DEF TypeOK
<1>14. AddrOK'
  BY <1>0, <1>4, <1>5, <1>7, <1>8 DEF AddrOK
<1>15. OwnerOK' /\ SingleLoop'
  <2> SUFFICES ASSUME NEW t \in Task, Running(t)'
               PROVE  /\ task'[t].owner \in Obj /\ obj'[task'[t].owner].addr \in Addr
                      /\ reg'[obj'[task'[t].owner].addr] = t
                      /\ actors'[obj'[task'[t].owner].addr] = task'[t].owner
                      /\ obj'[task'[t].owner].state = "active"
    BY DEF OwnerOK, SingleLoop
  <2>1. CASE Running(t) /\ task'[t] = task[t] /\ \A b \in Addr : reg[b] = t => reg'[b] = t
    BY <1>0, <1>7, <1>9, <2>1 DEF OwnerOK, SingleLoop
  <2>2. CASE reg'[a] = t /\ task'[t].owner = o /\ state = "active"
    BY <1>4, <1>5, <1>7, <2>2
  <2>. QED
    BY <1>12, <2>1, <2>2
<1>16. LoopReadsOwnMailbox'
  BY <1>0, <1>12 DEF LoopReadsOwnMailbox
<1>17. ActiveIsAttached'
  <2> SUFFICES ASSUME NEW b \in Addr, actors'[b] # None, obj'[actors'[b]].state = "active"
               PROVE  obj'[actors'[b]].attached
    BY DEF ActiveIsAttached, Active
  <2>1. CASE b = a
    BY <1>4, <1>5, <1>7, <2>1
  <2>2. CASE b # a
    BY <1>0, <1>7, <1>8, <2>2 DEF ActiveIsAttached, Active
  <2>. QED
    BY <2>1, <2>2
<1>18. ActiveHasLoop'
  BY <1>0, <1>4, <1>5, <1>7, <1>8, <1>11, <1>12 DEF ActiveHasLoop, Active
<1>19. CallOK'
  <2> SUFFICES ASSUME NEW c \in StopCalls, NEW x \in {call[c].target, call[c].outer} \ {None}
               PROVE  obj'[x].addr \in Addr
    BY <1>11 DEF CallOK
  <2>1. x \in Obj /\ x # o /\ obj[x].addr \in Addr
    BY <1>0 DEF TypeOK, StopState, CallOK, Spawn, Unused
  <2>. QED
    BY <1>4, <1>5, <2>1
<1>. QED
  BY <1>12, <1>13, <1>14, <1>15, <1>16, <1>17, <1>18, <1>19 DEF RuntimeInv

\* What a step may do to a loop that still runs after it: go on with its actor,
\* which is still active, having looked up that actor's mailbox or none yet; or
\* be the loop just started for an active actor.
Goes(t) ==
  \/ /\ Running(t)
     /\ task'[t].owner = task[t].owner
     /\ obj'[task[t].owner].state = "active"
     /\ task'[t].phase = "new" \/ task'[t].box = task[t].owner
     /\ \A b \in Addr : reg[b] = t => reg'[b] = t
  \/ \E b \in Addr : /\ actors[b] # None /\ task'[t].owner = actors[b]
                     /\ reg'[b] = t /\ task'[t].phase = "new"
                     /\ obj'[actors[b]].state = "active"

\* Every operation but spawn leaves each object at its address: then it keeps
\* the invariant if the loops it leaves running go on as above, and an actor it
\* leaves active is attached and has its loop.
LEMMA FrameInv ==
  ASSUME RuntimeInv, TypeOK', RegOK', CallOK', UNCHANGED actors,
         \A o \in Obj : obj'[o].addr = obj[o].addr,
         \A t \in Task : Running(t)' => Goes(t),
         ActiveIsAttached', ActiveHasLoop'
  PROVE  RuntimeInv'
<1>0. TypeOK /\ AddrOK /\ OwnerOK /\ SingleLoop
  BY DEF RuntimeInv
<1>1. AddrOK'
  BY <1>0 DEF AddrOK, TypeOK
<1>2. ASSUME NEW t \in Task, Running(t)'
      PROVE  /\ task'[t].owner \in Obj /\ obj'[task'[t].owner].addr \in Addr
             /\ reg'[obj'[task'[t].owner].addr] = t
             /\ actors'[obj'[task'[t].owner].addr] = task'[t].owner
             /\ obj'[task'[t].owner].state = "active"
             /\ task'[t].phase \in {"wait", "busy"} => task'[t].box = task'[t].owner
  <2>1. CASE /\ Running(t)
             /\ task'[t].owner = task[t].owner
             /\ obj'[task[t].owner].state = "active"
             /\ task'[t].phase = "new" \/ task'[t].box = task[t].owner
             /\ \A b \in Addr : reg[b] = t => reg'[b] = t
    BY <1>0, <2>1 DEF OwnerOK, SingleLoop
  <2>2. ASSUME NEW b \in Addr, actors[b] # None, task'[t].owner = actors[b],
               reg'[b] = t, task'[t].phase = "new", obj'[actors[b]].state = "active"
        PROVE  /\ task'[t].owner \in Obj /\ obj'[task'[t].owner].addr = b
               /\ task'[t].phase \notin {"wait", "busy"}
    BY <1>0, <2>2 DEF AddrOK, TypeOK
  <2>. QED
    BY <1>2, <2>1, <2>2 DEF Goes
<1>3. OwnerOK' /\ SingleLoop'
  BY <1>2 DEF OwnerOK, SingleLoop
<1>4. LoopReadsOwnMailbox'
  BY <1>2 DEF LoopReadsOwnMailbox, Running
<1>. QED
  BY <1>1, <1>3, <1>4 DEF RuntimeInv

\* A detached actor is the actor it was, suspended.
LEMMA SuspendedKeeps ==
  ASSUME NEW x \in ActorState
  PROVE  Suspended(x) \in ActorState /\ Suspended(x).addr = x.addr
         /\ Suspended(x).state = "suspended"
<1> DEFINE y == [x EXCEPT !.attached = FALSE]
<1>1. y \in ActorState /\ y.addr = x.addr
  BY DEF ActorState
<1>2. Suspended(x) = [y EXCEPT !.state = "suspended"]
  BY DEF Suspended
<1> HIDE DEF y
<1>3. [y EXCEPT !.state = "suspended"] \in ActorState
      /\ [y EXCEPT !.state = "suspended"].addr = y.addr
      /\ [y EXCEPT !.state = "suspended"].state = "suspended"
  BY <1>1 DEF ActorState
<1>. QED
  BY <1>1, <1>2, <1>3

\* An attached actor is the actor it was, with a transport, and not suspended.
LEMMA ResumedKeeps ==
  ASSUME NEW x \in ActorState, x.state # "ended"
  PROVE  Resumed(x) \in ActorState /\ Resumed(x).addr = x.addr
         /\ Resumed(x).state = "active" /\ Resumed(x).attached = TRUE
<1> DEFINE y == [x EXCEPT !.attached = TRUE]
           s == IF x.state = "suspended" THEN "active" ELSE x.state
<1>1. y \in ActorState /\ y.addr = x.addr /\ y.attached = TRUE
  BY DEF ActorState
<1>2. s = "active"
  BY DEF ActorState
<1>3. Resumed(x) = [y EXCEPT !.state = s]
  BY DEF Resumed
<1> HIDE DEF y, s
<1>4. [y EXCEPT !.state = s] \in ActorState
      /\ [y EXCEPT !.state = s].addr = y.addr
      /\ [y EXCEPT !.state = s].state = s
      /\ [y EXCEPT !.state = s].attached = y.attached
  BY <1>1, <1>2 DEF ActorState
<1>. QED
  BY <1>1, <1>2, <1>3, <1>4

\* A loop that is left alone goes on if its actor is left active.
LEMMA LeftAlone ==
  ASSUME RuntimeInv, NEW t \in Task, Running(t), task'[t] = task[t],
         obj'[task[t].owner].state = "active",
         \A b \in Addr : reg[b] = t => reg'[b] = t
  PROVE  Goes(t)
<1>1. task[t].phase \in {"new", "wait", "busy"}
  BY DEF RuntimeInv, TypeOK, LoopState, Running
<1>. QED
  BY <1>1 DEF Goes, RuntimeInv, LoopReadsOwnMailbox

\* attach: the loop it starts is the only one, because _maybe_start_loop looks.
LEMMA AttachInv ==
  ASSUME RuntimeInv, NEW a \in Addr, Attach(a)
  PROVE  RuntimeInv'
<1> USE DEF Looping
<1> DEFINE o == actors[a]
<1>0. /\ TypeOK /\ AddrOK /\ RegOK /\ OwnerOK /\ CallOK /\ SingleLoop
      /\ ActiveIsAttached /\ ActiveHasLoop
  BY DEF RuntimeInv
<1>1. o \in Obj /\ o # None /\ obj[o].addr = a /\ obj[o].state \in {"active", "suspended"}
  <2>1. o \in Obj /\ o # None
    BY <1>0 DEF Attach, Open, TypeOK
  <2>2. obj[o] \in ActorState /\ obj[o].state # "ended"
    BY <1>0, <2>1 DEF Attach, Open, TypeOK
  <2>. QED
    BY <1>0, <2>1, <2>2 DEF AddrOK, ActorState
<1>2. UNCHANGED <<actors, call, halted, sent, pushed>> /\ robbed' = robbed \ {a}
      /\ StartLoop(a, o)
  BY DEF Attach, AttachActor
<1>3. /\ obj' \in [Obj -> ActorState]
      /\ \A x \in Obj \ {o} : obj'[x] = obj[x]
      /\ obj'[o].addr = a /\ obj'[o].state = "active" /\ obj'[o].attached = TRUE
  <2> DEFINE r == Resumed(obj[o])
  <2>1. obj' = [obj EXCEPT ![o] = r]
    BY DEF Attach, AttachActor
  <2>2. /\ r \in ActorState
        /\ r.addr = a /\ r.state = "active" /\ r.attached = TRUE
    BY <1>0, <1>1, ResumedKeeps DEF TypeOK
  <2> HIDE DEF r
  <2>. QED
    BY <1>0, <1>1, <2>1, <2>2 DEF TypeOK
<1> HIDE DEF o
<1>4. /\ reg' \in [Addr -> Task \cup {None}] /\ task' \in [Task -> LoopState] /\ RegOK'
      /\ Looping(a)' /\ \A b \in Addr \ {a} : Looping(b) => Looping(b)'
      /\ \A t \in Task : Running(t)' =>
              \/ Running(t) /\ task'[t] = task[t] /\ \A b \in Addr : reg[b] = t => reg'[b] = t
              \/ reg'[a] = t /\ task'[t].owner = o /\ task'[t].phase = "new"
  BY <1>1, <1>2, StartLoopFacts
<1>5. TypeOK'
  BY <1>0, <1>2, <1>3, <1>4 DEF TypeOK
<1>6. \A x \in Obj : obj'[x].addr = obj[x].addr /\ (obj[x].state = "active" => obj'[x].state = "active")
  BY <1>1, <1>3
<1>7. CallOK'
  BY <1>0, <1>2, <1>6 DEF CallOK, TypeOK, StopState
<1>8. ASSUME NEW t \in Task, Running(t)'
      PROVE  Goes(t)
  <2>1. CASE Running(t) /\ task'[t] = task[t] /\ \A b \in Addr : reg[b] = t => reg'[b] = t
    BY <1>0, <1>6, <2>1, LeftAlone DEF OwnerOK, SingleLoop
  <2>2. CASE reg'[a] = t /\ task'[t].owner = o /\ task'[t].phase = "new"
    BY <1>1, <1>3, <2>2 DEF Goes, o
  <2>. QED
    BY <1>4, <1>8, <2>1, <2>2
<1>9. \A b \in Addr \ {a} : actors[b] # None => actors[b] \in Obj \ {o}
  BY <1>0, <1>1 DEF AddrOK, TypeOK
<1>10. ActiveIsAttached'
  BY <1>0, <1>2, <1>3, <1>9 DEF ActiveIsAttached, Active, o
<1>11. ActiveHasLoop'
  BY <1>0, <1>2, <1>3, <1>4, <1>9 DEF ActiveHasLoop, Active
<1>. QED
  BY <1>2, <1>4, <1>5, <1>6, <1>7, <1>8, <1>10, <1>11, FrameInv

\* detach: the actor is not active any more and its loop is over.
LEMMA DetachInv ==
  ASSUME RuntimeInv, NEW a \in Addr, Detach(a)
  PROVE  RuntimeInv'
<1> USE DEF Looping
<1> DEFINE o == actors[a]
<1>0. /\ TypeOK /\ AddrOK /\ RegOK /\ OwnerOK /\ CallOK /\ SingleLoop
      /\ ActiveIsAttached /\ ActiveHasLoop
  BY DEF RuntimeInv
<1>1. o \in Obj /\ o # None /\ obj[o].addr = a
  BY <1>0 DEF Detach, Open, TypeOK, AddrOK
<1>2. UNCHANGED <<actors, call, halted, sent, pushed>> /\ robbed' = robbed \ {a}
      /\ CancelTasks({a})
  BY DEF Detach, DetachActor
<1>3. /\ obj' \in [Obj -> ActorState]
      /\ \A x \in Obj \ {o} : obj'[x] = obj[x]
      /\ obj'[o].addr = a /\ obj'[o].state = "suspended"
  <2> DEFINE r == Suspended(obj[o])
  <2>1. obj' = [obj EXCEPT ![o] = r]
    BY DEF Detach, DetachActor
  <2>2. r \in ActorState /\ r.addr = a /\ r.state = "suspended"
    BY <1>0, <1>1, SuspendedKeeps DEF TypeOK
  <2> HIDE DEF r
  <2>. QED
    BY <1>0, <1>1, <2>1, <2>2 DEF TypeOK
<1> HIDE DEF o
<1>4. /\ reg' \in [Addr -> Task \cup {None}] /\ task' \in [Task -> LoopState] /\ RegOK'
      /\ \A b \in Addr \ {a} : Looping(b) => Looping(b)'
      /\ \A t \in Task : Running(t)' =>
           Running(t) /\ task'[t] = task[t] /\ reg[a] # t /\ \A b \in Addr : reg[b] = t => reg'[b] = t
  BY <1>2, CancelFacts
<1>5. TypeOK'
  BY <1>0, <1>2, <1>3, <1>4 DEF TypeOK
<1>6. \A x \in Obj : obj'[x].addr = obj[x].addr
  BY <1>1, <1>3
<1>7. CallOK'
  BY <1>0, <1>2, <1>6 DEF CallOK, TypeOK, StopState
<1>8. ASSUME NEW t \in Task, Running(t)'
      PROVE  Goes(t)
  <2>1. task[t].owner \in Obj \ {o}
    BY <1>0, <1>1, <1>4, <1>8 DEF OwnerOK, SingleLoop
  <2>. QED
    BY <1>0, <1>3, <1>4, <1>8, <2>1, LeftAlone DEF SingleLoop
<1>9. \A b \in Addr \ {a} : actors[b] # None => actors[b] \in Obj \ {o}
  BY <1>0, <1>1 DEF AddrOK, TypeOK
<1>10. ActiveIsAttached'
  BY <1>0, <1>2, <1>3, <1>9 DEF ActiveIsAttached, Active, o
<1>11. ActiveHasLoop'
  BY <1>0, <1>2, <1>3, <1>4, <1>9 DEF ActiveHasLoop, Active, o
<1>. QED
  BY <1>2, <1>4, <1>5, <1>6, <1>7, <1>8, <1>10, <1>11, FrameInv

\* Two versions of the objects that differ in mailboxes only have the same
\* active actors: such a step, if it leaves the tasks alone, keeps the invariant.
LEMMA QuietInv ==
  ASSUME RuntimeInv, TypeOK', CallOK', UNCHANGED <<actors, reg, task, halted, robbed>>,
         \A o \in Obj : /\ obj'[o].addr = obj[o].addr
                       /\ obj'[o].state = obj[o].state
                       /\ obj'[o].attached = obj[o].attached
  PROVE  RuntimeInv'
<1>0. /\ TypeOK /\ RegOK /\ OwnerOK /\ SingleLoop /\ ActiveIsAttached /\ ActiveHasLoop
  BY DEF RuntimeInv
<1>1. ASSUME NEW t \in Task, Running(t)'
      PROVE  Goes(t)
  <2>1. Running(t) /\ task'[t] = task[t]
    BY <1>1 DEF Running
  <2>. QED
    BY <1>0, <2>1, LeftAlone DEF OwnerOK, SingleLoop
<1>2. RegOK'
  BY <1>0 DEF RegOK
<1>3. \A a \in Addr : actors[a] # None => actors[a] \in Obj
  BY <1>0 DEF TypeOK
<1>4. ActiveIsAttached' /\ ActiveHasLoop'
  BY <1>0, <1>3 DEF ActiveIsAttached, ActiveHasLoop, Active, Looping, Running
<1>. QED
  BY <1>1, <1>2, <1>4, FrameInv

\* wire changes a downstream only.
LEMMA WireInv ==
  ASSUME RuntimeInv, NEW a \in Addr, Wire(a)
  PROVE  RuntimeInv'
<1>0. TypeOK /\ CallOK
  BY DEF RuntimeInv
<1>1. actors[a] \in Obj
  BY <1>0 DEF Wire, TypeOK
<1> DEFINE r == [obj[actors[a]] EXCEPT !.wired = TRUE]
<1>2. obj' = [obj EXCEPT ![actors[a]] = r]
  BY DEF Wire
<1>3. /\ r \in ActorState /\ r.addr = obj[actors[a]].addr
      /\ r.state = obj[actors[a]].state /\ r.attached = obj[actors[a]].attached
  <2>1. obj[actors[a]] \in ActorState
    BY <1>0, <1>1 DEF TypeOK
  <2>. QED
    BY <2>1 DEF ActorState
<1> HIDE DEF r
<1>4. /\ obj' \in [Obj -> ActorState]
      /\ \A o \in Obj : /\ obj'[o].addr = obj[o].addr
                        /\ obj'[o].state = obj[o].state
                        /\ obj'[o].attached = obj[o].attached
  BY <1>0, <1>1, <1>2, <1>3 DEF TypeOK
<1>5. UNCHANGED <<actors, reg, task, call, halted, sent, pushed, robbed>>
  BY DEF Wire
<1>6. TypeOK'
  BY <1>0, <1>4, <1>5 DEF TypeOK
<1>7. CallOK'
  BY <1>0, <1>4, <1>5 DEF CallOK, TypeOK, StopState
<1>. QED
  BY <1>4, <1>5, <1>6, <1>7, QuietInv

\* send from outside changes one mailbox.
LEMMA SendInInv ==
  ASSUME RuntimeInv, NEW a \in Addr, SendIn(a)
  PROVE  RuntimeInv'
<1>0. TypeOK /\ CallOK
  BY DEF RuntimeInv
<1> DEFINE m == [from |-> IF a \in Chat THEN User ELSE a, id |-> sent + 1]
<1>1. m \in Message /\ sent' \in 0..MaxSent
  BY <1>0, RuntimeAssumption DEF SendIn, TypeOK, Message
<1>2. obj' = Put(obj, a, m)
  BY DEF SendIn
<1> HIDE DEF m
<1>3. SameBut(obj, obj')
  BY <1>0, <1>1, <1>2, PutKeeps DEF TypeOK
<1>4. UNCHANGED <<actors, reg, task, call, halted, pushed, robbed>>
  BY DEF SendIn
<1>5. TypeOK'
  BY <1>0, <1>1, <1>3, <1>4 DEF TypeOK, SameBut
<1>6. CallOK'
  BY <1>0, <1>3, <1>4 DEF CallOK, TypeOK, StopState, SameBut
<1>. QED
  BY <1>3, <1>4, <1>5, <1>6, QuietInv DEF SameBut

\* The end of stop: the ended actors have no loop any more, and an active actor
\* that lost its loop with them is one of robbed.
LEMMA EndActorsInv ==
  ASSUME RuntimeInv, NEW S \in SUBSET Obj, \A o \in S : obj[o].addr \in Addr,
         EndActors(S), UNCHANGED <<actors, halted, sent, pushed>>,
         call' \in [StopCalls -> StopState],
         \A c \in StopCalls : \A o \in {call'[c].target, call'[c].outer} \ {None} :
            obj[o].addr \in Addr
  PROVE  RuntimeInv'
<1> USE DEF Looping
<1> DEFINE A == {obj[o].addr : o \in S}
<1>0. /\ TypeOK /\ AddrOK /\ RegOK /\ OwnerOK /\ SingleLoop
      /\ ActiveIsAttached /\ ActiveHasLoop
  BY DEF RuntimeInv
<1>1. A \in SUBSET Addr
  OBVIOUS
<1>2. /\ obj' = [o \in Obj |-> IF o \in S THEN [obj[o] EXCEPT !.state = "ended"] ELSE obj[o]]
      /\ CancelTasks(A)
      /\ robbed' = {a \in A : actors[a] \notin S /\ obj[actors[a]].state = "active"}
                      \cup (robbed \ A)
  BY DEF EndActors
<1>3. /\ obj' \in [Obj -> ActorState]
      /\ \A o \in Obj : /\ obj'[o].addr = obj[o].addr
                        /\ obj'[o].attached = obj[o].attached
                        /\ obj'[o].state = IF o \in S THEN "ended" ELSE obj[o].state
  <2>1. ASSUME NEW o \in Obj
        PROVE  LET r == [obj[o] EXCEPT !.state = "ended"]
               IN r \in ActorState /\ r.addr = obj[o].addr /\ r.attached = obj[o].attached
                  /\ r.state = "ended"
    BY <1>0 DEF TypeOK, ActorState
  <2>. QED
    BY <1>0, <1>2, <2>1 DEF TypeOK
<1>4. /\ reg' \in [Addr -> Task \cup {None}] /\ task' \in [Task -> LoopState] /\ RegOK'
      /\ \A b \in Addr \ A : Looping(b) => Looping(b)'
      /\ \A t \in Task : Running(t)' =>
           Running(t) /\ task'[t] = task[t] /\ \A b \in Addr : reg[b] = t => b \notin A /\ reg'[b] = t
  BY <1>1, <1>2, CancelFacts
<1>5. robbed' \in SUBSET Addr
  BY <1>0, <1>1, <1>2 DEF TypeOK
<1> HIDE DEF A
<1>6. TypeOK'
  BY <1>0, <1>3, <1>4, <1>5 DEF TypeOK
<1>7. CallOK'
  BY <1>0, <1>3 DEF CallOK, StopState
<1>8. ASSUME NEW t \in Task, Running(t)'
      PROVE  Goes(t)
  <2>1. Running(t) /\ task[t].owner \in Obj /\ obj[task[t].owner].addr \in Addr
        /\ reg[obj[task[t].owner].addr] = t /\ obj[task[t].owner].state = "active"
    BY <1>0, <1>4, <1>8 DEF OwnerOK, SingleLoop
  <2>2. task[t].owner \notin S
    BY <1>4, <1>8, <2>1 DEF A
  <2>. QED
    BY <1>3, <1>4, <1>8, <2>1, <2>2, LeftAlone
<1>9. \A b \in Addr : actors[b] # None => actors[b] \in Obj
  BY <1>0 DEF TypeOK
<1>10. ActiveIsAttached'
  BY <1>0, <1>3, <1>9 DEF ActiveIsAttached, Active
<1>11. ASSUME NEW b \in Addr, Active(b)', ~halted'
       PROVE  Looping(b)' \/ b \in robbed'
  <2>1. actors[b] \notin S /\ Active(b)
    BY <1>3, <1>9, <1>11 DEF Active
  <2>2. Looping(b) \/ b \in robbed
    BY <1>0, <1>11, <2>1 DEF ActiveHasLoop
  <2>. QED
    BY <1>2, <1>4, <2>1, <2>2 DEF Active
<1>. QED
  BY <1>3, <1>4, <1>6, <1>7, <1>8, <1>10, <1>11, FrameInv DEF ActiveHasLoop

\* The objects of the calls of stop are known objects.
LEMMA CallObjects ==
  ASSUME RuntimeInv, NEW c \in StopCalls
  PROVE  {call[c].target, call[c].outer} \ {None} \in SUBSET Obj
BY DEF RuntimeInv, TypeOK, StopState

\* stop up to its first await: the call remembers actors that have an address, or
\* there was nothing to await and the actor ends at once.
LEMMA BeginStopInv ==
  ASSUME RuntimeInv, NEW c \in StopCalls, NEW a \in Addr, BeginStop(c, a)
  PROVE  RuntimeInv'
<1> DEFINE o == actors[a]
           p == actors[Peer[a]]
<1>0. TypeOK /\ AddrOK /\ CallOK
  BY DEF RuntimeInv
<1>1. o \in Obj /\ obj[o].addr = a
  BY <1>0 DEF BeginStop, Open, TypeOK, AddrOK
<1>2. Peer[a] \in Addr
  BY RuntimeAssumption
<1>3. UNCHANGED <<actors, halted, sent, pushed>>
  BY DEF BeginStop
<1>4. ASSUME NEW s \in StopState, call' = [call EXCEPT ![c] = s],
             \A x \in {s.target, s.outer} \ {None} : obj[x].addr \in Addr,
             UNCHANGED <<obj, reg, task, robbed>>
      PROVE  RuntimeInv'
  <2>1. TypeOK'
    BY <1>0, <1>3, <1>4 DEF TypeOK
  <2>2. \A d \in StopCalls : call'[d] = IF d = c THEN s ELSE call[d]
    BY <1>0, <1>4 DEF TypeOK
  <2>3. CallOK'
    BY <1>0, <1>4, <2>2 DEF CallOK
  <2>. QED
    BY <1>3, <1>4, <2>1, <2>3, QuietInv
<1>5. CASE /\ call' = [call EXCEPT ![c] = [target |-> o, outer |-> None]]
           /\ UNCHANGED <<obj, reg, task, robbed>>
  <2> DEFINE s == [target |-> o, outer |-> None]
  <2>2. call' = [call EXCEPT ![c] = s]
    BY <1>5
  <2>3. s \in StopState /\ \A x \in {s.target, s.outer} \ {None} : obj[x].addr \in Addr
    BY <1>1 DEF StopState
  <2> HIDE DEF s
  <2>. QED
    BY <1>4, <1>5, <2>2, <2>3
<1>6. CASE /\ Open(Peer[a]) /\ call' = [call EXCEPT ![c] = [target |-> p, outer |-> o]]
           /\ UNCHANGED <<obj, reg, task, robbed>>
  <2> DEFINE s == [target |-> p, outer |-> o]
  <2>1. p \in Obj /\ obj[p].addr \in Addr
    BY <1>0, <1>2, <1>6 DEF Open, TypeOK, AddrOK
  <2>2. s \in StopState /\ \A x \in {s.target, s.outer} \ {None} : obj[x].addr \in Addr
    BY <1>1, <2>1 DEF StopState
  <2>3. call' = [call EXCEPT ![c] = s]
    BY <1>6
  <2> HIDE DEF s
  <2>. QED
    BY <1>4, <1>6, <2>2, <2>3
<1>7. CASE EndActors({o}) /\ UNCHANGED call
  <2>1. \A d \in StopCalls : \A x \in {call'[d].target, call'[d].outer} \ {None} :
          obj[x].addr \in Addr
    BY <1>0, <1>7 DEF CallOK
  <2>2. call' \in [StopCalls -> StopState]
    BY <1>0, <1>7 DEF TypeOK
  <2>. QED
    BY <1>1, <1>3, <1>7, <2>1, <2>2, EndActorsInv
<1>. QED
  BY <1>5, <1>6, <1>7 DEF BeginStop

\* stop after its awaits.
LEMMA FinishStopInv ==
  ASSUME RuntimeInv, NEW c \in StopCalls, FinishStop(c)
  PROVE  RuntimeInv'
<1>0. TypeOK /\ CallOK
  BY DEF RuntimeInv
<1> DEFINE S == {call[c].target, call[c].outer} \ {None}
<1>1. S \in SUBSET Obj /\ \A o \in S : obj[o].addr \in Addr
  BY <1>0, CallObjects DEF CallOK
<1>2. EndActors(S) /\ call' = [call EXCEPT ![c] = NoStop] /\ UNCHANGED <<actors, halted, sent, pushed>>
  BY DEF FinishStop
<1>3. call' \in [StopCalls -> StopState]
  BY <1>0, <1>2, Blank DEF TypeOK
<1>4. \A d \in StopCalls : call'[d] = IF d = c THEN NoStop ELSE call[d]
  BY <1>0, <1>2 DEF TypeOK
<1>5. \A d \in StopCalls : \A x \in {call'[d].target, call'[d].outer} \ {None} :
        obj[x].addr \in Addr
  BY <1>0, <1>4 DEF CallOK, NoStop
<1> HIDE DEF S
<1>. QED
  BY <1>1, <1>2, <1>3, <1>5, EndActorsInv

\* shutdown: no loop is left.
LEMMA ShutdownInv == ASSUME RuntimeInv, Shutdown PROVE RuntimeInv'
<1>0. TypeOK /\ CallOK /\ OwnerOK /\ SingleLoop /\ ActiveIsAttached
  BY DEF RuntimeInv
<1>1. CancelTasks(Addr) /\ halted' = TRUE /\ UNCHANGED <<actors, obj, call, sent, pushed, robbed>>
  BY DEF Shutdown
<1>2. /\ reg' \in [Addr -> Task \cup {None}] /\ task' \in [Task -> LoopState] /\ RegOK'
      /\ \A t \in Task : Running(t)' =>
           Running(t) /\ \A b \in Addr : reg[b] = t => b \notin Addr
  <2>1. Addr \in SUBSET Addr
    OBVIOUS
  <2>. QED
    BY <1>1, <2>1, CancelFacts
<1>3. \A t \in Task : ~Running(t)'
  BY <1>0, <1>2 DEF OwnerOK, SingleLoop
<1>4. TypeOK' /\ CallOK'
  BY <1>0, <1>1, <1>2 DEF TypeOK, CallOK
<1>5. ActiveIsAttached' /\ ActiveHasLoop'
  BY <1>0, <1>1 DEF ActiveIsAttached, ActiveHasLoop, Active
<1>. QED
  BY <1>1, <1>2, <1>3, <1>4, <1>5, FrameInv

\* A step of loop t replaces its local state by l; its actor is left active and
\* the loop goes on, or its actor is ended and the loop is over.
LEMMA LoopStepInv ==
  ASSUME RuntimeInv, NEW t \in Task, Running(t), NEW l \in LoopState,
         task' = [task EXCEPT ![t] = l],
         obj' \in [Obj -> ActorState],
         \A x \in Obj : obj'[x].addr = obj[x].addr /\ obj'[x].attached = obj[x].attached,
         \A x \in Obj \ {task[t].owner} : obj'[x].state = obj[x].state,
         \/ obj'[task[t].owner].state = "active" /\ l.owner = task[t].owner
            /\ l.box = task[t].owner /\ l.phase # "done"
         \/ obj'[task[t].owner].state = "ended" /\ l.phase = "done",
         UNCHANGED <<actors, reg, call, halted, sent, robbed>>,
         pushed' \in [Addr -> Seq(0..MaxSent)]
  PROVE  RuntimeInv'
<1> DEFINE o == task[t].owner
<1>0. /\ TypeOK /\ RegOK /\ CallOK /\ OwnerOK /\ SingleLoop
      /\ ActiveIsAttached /\ ActiveHasLoop
  BY DEF RuntimeInv
<1>1. /\ o \in Obj /\ obj[o].addr \in Addr /\ reg[obj[o].addr] = t
      /\ actors[obj[o].addr] = o /\ obj[o].state = "active"
  BY <1>0 DEF OwnerOK, SingleLoop
<1>2. TypeOK'
  BY <1>0 DEF TypeOK
<1>3. RegOK'
  BY <1>0 DEF RegOK
<1>4. CallOK'
  BY <1>0, CallObjects DEF CallOK
<1>5. \A u \in Task : task'[u] = IF u = t THEN l ELSE task[u]
  BY <1>0 DEF TypeOK
<1>6. ASSUME NEW u \in Task, Running(u)'
      PROVE  Goes(u)
  <2>1. CASE u = t
    BY <1>5, <1>6, <2>1 DEF Goes, Running
  <2>2. CASE u # t
    <3>1. Running(u) /\ task'[u] = task[u]
      BY <1>5, <1>6, <2>2 DEF Running
    <3>2. task[u].owner \in Obj \ {o} /\ obj[task[u].owner].state = "active"
      BY <1>0, <1>1, <2>2, <3>1 DEF OwnerOK, SingleLoop
    <3>. QED
      BY <3>1, <3>2, LeftAlone
  <2>. QED
    BY <2>1, <2>2
<1>7. \A b \in Addr : actors[b] # None => actors[b] \in Obj
  BY <1>0 DEF TypeOK
<1>8. \A b \in Addr : Active(b)' => Active(b)
  BY <1>1, <1>7 DEF Active
<1>9. ActiveIsAttached'
  BY <1>0, <1>7, <1>8 DEF ActiveIsAttached, Active
<1>10. ASSUME NEW b \in Addr, Active(b)', ~halted'
       PROVE  Looping(b)' \/ b \in robbed'
  <2>1. Looping(b) \/ b \in robbed
    BY <1>0, <1>8, <1>10 DEF ActiveHasLoop
  <2>2. CASE reg[b] = t
    <3>1. b = obj[o].addr
      BY <1>0, <1>1, <2>2, RuntimeAssumption DEF RegOK
    <3>2. l.phase # "done"
      BY <1>1, <1>10, <3>1 DEF Active
    <3>. QED
      BY <1>5, <2>2, <3>2, RuntimeAssumption DEF Looping, Running
  <2>3. CASE reg[b] # t
    BY <1>0, <1>5, <2>1, <2>3 DEF Looping, Running, TypeOK
  <2>. QED
    BY <2>2, <2>3
<1>. QED
  BY <1>2, <1>3, <1>4, <1>6, <1>9, <1>10, FrameInv DEF ActiveHasLoop

\* The loop of an actor whose mailbox it knows: what a step of it may assume.
LEMMA LoopFacts ==
  ASSUME RuntimeInv, NEW t \in Task, Running(t)
  PROVE  /\ task[t] \in LoopState /\ task[t].owner \in Obj
         /\ obj[task[t].owner] \in ActorState
         /\ obj[task[t].owner].addr \in Addr /\ obj[task[t].owner].state = "active"
         /\ actors[obj[task[t].owner].addr] = task[t].owner
         /\ task[t].phase \in {"wait", "busy"} => task[t].box = task[t].owner
BY DEF RuntimeInv, TypeOK, OwnerOK, SingleLoop, LoopReadsOwnMailbox

\* The first step of a loop.
LEMMA LoopStartInv ==
  ASSUME RuntimeInv, NEW t \in Task, LoopStart(t)
  PROVE  RuntimeInv'
<1> DEFINE o == task[t].owner
           l == Loop(o, o, "wait", NoMsg, 0)
<1>0. TypeOK /\ Running(t)
  BY DEF RuntimeInv, LoopStart, Running
<1>1. /\ o \in Obj /\ obj[o].state = "active" /\ actors[obj[o].addr] = o
  BY <1>0, LoopFacts
<1>2. task' = [task EXCEPT ![t] = l] /\ UNCHANGED <<actors, obj, reg, call, halted, sent, pushed, robbed>>
  BY <1>1 DEF LoopStart
<1>3. l \in LoopState /\ l.owner = o /\ l.box = o /\ l.phase # "done"
  BY <1>1, Blank, RuntimeAssumption DEF Loop, LoopState
<1> HIDE DEF l
<1>. QED
  BY <1>0, <1>1, <1>2, <1>3, LoopStepInv DEF TypeOK

\* A message handled without an error, whatever it sent on.
LEMMA SucceedInv ==
  ASSUME RuntimeInv, NEW t \in Task, task[t].phase \in {"wait", "busy"},
         NEW ob, SameBut(obj, ob), Succeed(t, ob),
         UNCHANGED <<actors, reg, call, halted, sent, robbed>>,
         pushed' \in [Addr -> Seq(0..MaxSent)]
  PROVE  RuntimeInv'
<1> DEFINE o == task[t].owner
           l == Loop(o, o, "wait", NoMsg, 0)
           r == [ob[o] EXCEPT !.streak = 0]
<1>0. TypeOK /\ Running(t)
  BY DEF RuntimeInv, Running
<1>1. o \in Obj /\ obj[o].state = "active" /\ task[t].box = o
  BY <1>0, LoopFacts
<1>2. task' = [task EXCEPT ![t] = l] /\ obj' = [ob EXCEPT ![o] = r]
  BY <1>1 DEF Succeed
<1>3. l \in LoopState /\ l.owner = o /\ l.box = o /\ l.phase # "done"
  BY <1>1, Blank, RuntimeAssumption DEF Loop, LoopState
<1>4. /\ r \in ActorState /\ r.addr = ob[o].addr
      /\ r.state = ob[o].state /\ r.attached = ob[o].attached
  <2>1. ob[o] \in ActorState /\ 0 \in 0..MaxErrors
    BY <1>1, RuntimeAssumption DEF SameBut
  <2>. QED
    BY <2>1 DEF ActorState
<1> HIDE DEF l, r
<1>5. /\ obj' \in [Obj -> ActorState]
      /\ \A x \in Obj : /\ obj'[x].addr = obj[x].addr
                        /\ obj'[x].attached = obj[x].attached
                        /\ obj'[x].state = obj[x].state
  BY <1>1, <1>2, <1>4 DEF SameBut
<1>. QED
  BY <1>0, <1>1, <1>2, <1>3, <1>5, LoopStepInv

\* One more failure of an actor.
LEMMA FailedKeeps ==
  ASSUME NEW x \in ActorState, NEW spent \in BOOLEAN
  PROVE  /\ Failed(x, spent) \in ActorState
         /\ Failed(x, spent).addr = x.addr /\ Failed(x, spent).attached = x.attached
         /\ Failed(x, spent).state = IF spent THEN "ended" ELSE x.state
<1> DEFINE n == IF x.streak < MaxErrors THEN x.streak + 1 ELSE x.streak
           e == IF spent THEN "ended" ELSE x.state
           y == [x EXCEPT !.streak = n]
<1>1. n \in 0..MaxErrors
  BY RuntimeAssumption DEF ActorState
<1>2. e \in {"active", "suspended", "ended"}
  BY DEF ActorState
<1>3. Failed(x, spent) = [y EXCEPT !.state = e]
  BY DEF Failed
<1> HIDE DEF n, e
<1>4. y \in ActorState /\ y.addr = x.addr /\ y.attached = x.attached
  BY <1>1 DEF ActorState
<1> HIDE DEF y
<1>5. /\ [y EXCEPT !.state = e] \in ActorState
      /\ [y EXCEPT !.state = e].addr = y.addr
      /\ [y EXCEPT !.state = e].attached = y.attached
      /\ [y EXCEPT !.state = e].state = e
  BY <1>2, <1>4 DEF ActorState
<1>. QED
  BY <1>3, <1>4, <1>5 DEF e

\* Differing in mailboxes only is transitive.
LEMMA SameButTrans ==
  ASSUME NEW x, NEW y, NEW z, SameBut(x, y), SameBut(y, z)
  PROVE  SameBut(x, z)
BY DEF SameBut

\* A failure is counted, and either the loop goes on or the actor ends with it.
LEMMA FailInv ==
  ASSUME RuntimeInv, NEW t \in Task, task[t].phase \in {"wait", "busy"},
         NEW ob, SameBut(obj, ob), Fail(t, ob),
         UNCHANGED <<actors, reg, call, halted, sent, robbed>>,
         pushed' \in [Addr -> Seq(0..MaxSent)]
  PROVE  RuntimeInv'
<1> DEFINE o == task[t].owner
           n == task[t].errors + 1
           spent == n >= MaxErrors
           l == IF spent THEN NoLoop ELSE Loop(o, o, "wait", NoMsg, n)
           ob2 == Notify(ob, o)
           r == Failed(ob2[o], spent)
<1>0. TypeOK /\ Running(t)
  BY DEF RuntimeInv, Running
<1>1. o \in Obj /\ obj[o].addr \in Addr /\ obj[o].state = "active" /\ task[t].box = o
  BY <1>0, LoopFacts
<1>2. task' = [task EXCEPT ![t] = l] /\ obj' = [ob2 EXCEPT ![o] = r]
  BY <1>1 DEF Fail
<1>3. task[t].errors \in 0..MaxErrors
  BY <1>0, LoopFacts DEF LoopState
<1>4. l \in LoopState /\ \/ spent /\ l.phase = "done"
                         \/ ~spent /\ l.owner = o /\ l.box = o /\ l.phase # "done"
  BY <1>1, <1>3, Blank, RuntimeAssumption DEF NoLoop, Loop, LoopState
<1>5. SameBut(obj, ob2)
  <2>1. SameBut(ob, ob2)
    BY <1>0, <1>1, NotifyKeeps DEF SameBut, TypeOK
  <2>. QED
    BY <2>1, SameButTrans
<1>6. spent \in BOOLEAN
  OBVIOUS
<1> HIDE DEF ob2, spent, l
<1>7. /\ r \in ActorState /\ r.addr = ob2[o].addr /\ r.attached = ob2[o].attached
      /\ r.state = IF spent THEN "ended" ELSE ob2[o].state
  BY <1>1, <1>5, <1>6, FailedKeeps DEF SameBut
<1> HIDE DEF r
<1>8. /\ obj' \in [Obj -> ActorState]
      /\ \A x \in Obj : obj'[x].addr = obj[x].addr /\ obj'[x].attached = obj[x].attached
      /\ \A x \in Obj \ {o} : obj'[x].state = obj[x].state
      /\ obj'[o].state = IF spent THEN "ended" ELSE "active"
  BY <1>1, <1>2, <1>5, <1>7 DEF SameBut
<1>. QED
  BY <1>0, <1>1, <1>2, <1>4, <1>8, LoopStepInv

\* A message leaves the mailbox: nothing else changes in the objects.
LEMMA PopKeeps ==
  ASSUME obj \in [Obj -> ActorState], NEW b \in Obj, obj[b].mailbox # <<>>
  PROVE  /\ SameBut(obj, [obj EXCEPT ![b].mailbox = Tail(@)])
         /\ Head(obj[b].mailbox) \in Message
<1> DEFINE r == [obj[b] EXCEPT !.mailbox = Tail(obj[b].mailbox)]
<1>1. obj[b] \in ActorState /\ obj[b].mailbox \in Seq(Message)
  BY DEF ActorState
<1>2. Tail(obj[b].mailbox) \in Seq(Message) /\ Head(obj[b].mailbox) \in Message
  BY <1>1
<1>3. /\ r \in ActorState /\ r.addr = obj[b].addr /\ r.state = obj[b].state
      /\ r.attached = obj[b].attached /\ r.wired = obj[b].wired
      /\ r.streak = obj[b].streak
  BY <1>1, <1>2 DEF ActorState
<1>4. [obj EXCEPT ![b].mailbox = Tail(@)] = [obj EXCEPT ![b] = r]
  OBVIOUS
<1> HIDE DEF r
<1>. QED
  BY <1>2, <1>3, <1>4 DEF SameBut

\* A message is taken and handled up to the first await, or to the end.
LEMMA TakeInv ==
  ASSUME RuntimeInv, NEW t \in Task, Take(t)
  PROVE  RuntimeInv'
<1> DEFINE o == task[t].owner
           m == Head(obj[o].mailbox)
           a == obj[o].addr
           ob == [obj EXCEPT ![o].mailbox = Tail(@)]
           l == Loop(o, o, "busy", m, task[t].errors)
<1>0. TypeOK /\ Running(t) /\ task[t].phase = "wait"
  BY DEF RuntimeInv, Take, Running
<1>1. /\ o \in Obj /\ a \in Addr /\ obj[o].state = "active" /\ task[t].box = o
      /\ task[t].errors \in 0..MaxErrors
  BY <1>0, LoopFacts DEF LoopState
<1>2. obj[o].mailbox # <<>>
  BY <1>1 DEF Take
<1>3. SameBut(obj, ob) /\ m \in Message
  BY <1>0, <1>1, <1>2, PopKeeps DEF TypeOK
<1>4. UNCHANGED <<actors, reg, call, halted, sent, robbed>>
  BY DEF Take
<1>5. CASE /\ obj' = ob /\ task' = [task EXCEPT ![t] = l]
           /\ pushed' = IF Relays(a, m) \/ m.id = 0 THEN pushed
                        ELSE [pushed EXCEPT ![a] = Append(@, m.id)]
  <2>1. l \in LoopState /\ l.owner = o /\ l.box = o /\ l.phase # "done"
    BY <1>1, <1>3 DEF Loop, LoopState
  <2>2. pushed' \in [Addr -> Seq(0..MaxSent)]
    <3>1. m.id \in 0..MaxSent
      BY <1>3 DEF Message
    <3> HIDE DEF m, a
    <3>. QED
      BY <1>0, <1>1, <1>5, <3>1 DEF TypeOK
  <2> HIDE DEF ob, l
  <2>. QED
    BY <1>0, <1>1, <1>3, <1>4, <1>5, <2>1, <2>2, LoopStepInv DEF SameBut
<1>6. CASE Succeed(t, Relay(ob, o, m)) /\ UNCHANGED pushed
  <2> HIDE DEF ob, m
  <2>1. SameBut(ob, Relay(ob, o, m))
    BY <1>0, <1>1, <1>3, RelayKeeps DEF SameBut, TypeOK
  <2>2. SameBut(obj, Relay(ob, o, m))
    BY <1>3, <2>1, SameButTrans
  <2>. QED
    BY <1>0, <1>4, <1>6, <2>2, SucceedInv DEF TypeOK
<1>7. CASE Fail(t, ob) /\ UNCHANGED pushed
  <2> HIDE DEF ob
  <2>. QED
    BY <1>0, <1>3, <1>4, <1>7, FailInv DEF TypeOK
<1>. QED
  BY <1>1, <1>5, <1>6, <1>7 DEF Take

\* The awaited callback of a loop returns, or raises.
LEMMA ResumeInv ==
  ASSUME RuntimeInv, NEW t \in Task, Resume(t)
  PROVE  RuntimeInv'
<1> DEFINE o == task[t].owner
<1>0. TypeOK /\ Running(t) /\ task[t].phase = "busy"
  BY DEF RuntimeInv, Resume, Running
<1>1. o \in Obj /\ obj[o].addr \in Addr /\ task[t].msg \in Message
  BY <1>0, LoopFacts DEF LoopState
<1>2. UNCHANGED <<actors, reg, call, halted, sent, pushed, robbed>>
  BY DEF Resume
<1>3. pushed' \in [Addr -> Seq(0..MaxSent)]
  BY <1>0, <1>2 DEF TypeOK
<1>4. CASE Succeed(t, Relay(obj, o, task[t].msg))
  <2>1. SameBut(obj, Relay(obj, o, task[t].msg))
    BY <1>0, <1>1, RelayKeeps DEF TypeOK
  <2>. QED
    BY <1>0, <1>2, <1>3, <1>4, <2>1, SucceedInv
<1>5. CASE Fail(t, obj)
  <2>1. SameBut(obj, obj)
    BY <1>0 DEF SameBut, TypeOK
  <2>. QED
    BY <1>0, <1>2, <1>3, <1>5, <2>1, FailInv
<1>. QED
  BY <1>4, <1>5 DEF Resume

-----------------------------------------------------------------------------
(* The theorems.                                                           *)

\* Whatever the next operation, the invariant is kept.
LEMMA NextInv == RuntimeInv /\ [Next]_vars => RuntimeInv'
<1> SUFFICES ASSUME RuntimeInv, [Next]_vars
             PROVE  RuntimeInv'
  OBVIOUS
<1>1. ASSUME NEW a \in Addr, NEW o \in Obj, NEW s \in {"active", "suspended"},
             NEW w \in BOOLEAN, Spawn(a, o, s, w)
      PROVE  RuntimeInv'
  BY <1>1, SpawnInv
<1>2. ASSUME NEW a \in Addr, Attach(a) \/ Detach(a) \/ Wire(a) \/ SendIn(a)
      PROVE  RuntimeInv'
  BY <1>2, AttachInv, DetachInv, WireInv, SendInInv
<1>3. ASSUME NEW c \in StopCalls,
             FinishStop(c) \/ \E a \in Addr : BeginStop(c, a)
      PROVE  RuntimeInv'
  BY <1>3, BeginStopInv, FinishStopInv
<1>4. CASE Shutdown
  BY <1>4, ShutdownInv
<1>5. ASSUME NEW t \in Task, Step(t)
      PROVE  RuntimeInv'
  BY <1>5, LoopStartInv, TakeInv, ResumeInv DEF Step
<1>6. CASE UNCHANGED vars
  <2>1. TypeOK'
    BY <1>6 DEF vars, RuntimeInv, TypeOK
  <2>2. CallOK'
    BY <1>6 DEF vars, RuntimeInv, CallOK
  <2>. QED
    BY <1>6, <2>1, <2>2, QuietInv DEF vars
<1>. QED
  BY <1>1, <1>2, <1>3, <1>4, <1>5, <1>6 DEF Next

\* The invariant holds in every state the runtime can reach.
THEOREM RuntimeInvariant == Spec => []RuntimeInv
<1>. QED
  BY InitInv, NextInv, PTL DEF Spec

\* Every variable keeps the shape the runtime gives it.
THEOREM TypeCorrect == Spec => []TypeOK
<1>1. RuntimeInv => TypeOK
  BY DEF RuntimeInv
<1>. QED
  BY <1>1, RuntimeInvariant, PTL

\* There is one loop per actor, and it is registered: an address never has two
\* tasks that handle its messages, however attach, detach, stop and spawn mix.
THEOREM OneLoopPerActor == Spec => []SingleLoop
<1>1. RuntimeInv => SingleLoop
  BY DEF RuntimeInv
<1>. QED
  BY <1>1, RuntimeInvariant, PTL

\* A loop, which finds its mailbox by address, finds that of its own actor.
THEOREM OwnMailbox == Spec => []LoopReadsOwnMailbox
<1>1. RuntimeInv => LoopReadsOwnMailbox
  BY DEF RuntimeInv
<1>. QED
  BY <1>1, RuntimeInvariant, PTL

\* No actor is left active without a loop, but by a late stop or a shutdown.
THEOREM NoZombie == Spec => []ActiveHasLoop
<1>1. RuntimeInv => ActiveHasLoop
  BY DEF RuntimeInv
<1>. QED
  BY <1>1, RuntimeInvariant, PTL

\* An active actor has a transport.
THEOREM ActiveHasTransport == Spec => []ActiveIsAttached
<1>1. RuntimeInv => ActiveIsAttached
  BY DEF RuntimeInv
<1>. QED
  BY <1>1, RuntimeInvariant, PTL

-----------------------------------------------------------------------------
(* The error budget.                                                       *)

\* A loop has counted no more errors than its actor had failures in a row: both are
\* reset by a success, and a new loop counts from zero.
ErrorsOK == \A t \in Task : task[t].phase \in {"wait", "busy"} =>
              task[t].errors <= obj[task[t].owner].streak

\* A loop past its first step, and its actor's failures in a row, are as before.
Untouched(t) == task'[t].phase \in {"wait", "busy"} =>
                  task'[t] = task[t] /\ obj'[task[t].owner].streak = obj[task[t].owner].streak

\* A step that leaves every such loop alone keeps the count right.
LEMMA UntouchedErrors ==
  ASSUME ErrorsOK, \A t \in Task : Untouched(t)
  PROVE  ErrorsOK'
BY DEF ErrorsOK, Untouched

\* Starting or cancelling loops leaves those past their first step alone.
LEMMA StartLoopUntouched ==
  ASSUME RuntimeInv, NEW a \in Addr, NEW o \in Obj, StartLoop(a, o),
         \A x \in Obj : obj'[x].streak = obj[x].streak
  PROVE  \A t \in Task : Untouched(t)
<1> SUFFICES ASSUME NEW t \in Task, task'[t].phase \in {"wait", "busy"}
             PROVE  task'[t] = task[t] /\ obj'[task[t].owner].streak = obj[task[t].owner].streak
  BY DEF Untouched
<1>1. Running(t) /\ task'[t] = task[t]
  <2>1. Running(t)'
    BY DEF Running
  <2>. QED
    BY <2>1, StartLoopFacts
<1>. QED
  BY <1>1 DEF RuntimeInv, OwnerOK

LEMMA CancelUntouched ==
  ASSUME RuntimeInv, NEW A \in SUBSET Addr, CancelTasks(A),
         \A x \in Obj : obj'[x].streak = obj[x].streak
  PROVE  \A t \in Task : Untouched(t)
<1> SUFFICES ASSUME NEW t \in Task, task'[t].phase \in {"wait", "busy"}
             PROVE  task'[t] = task[t] /\ obj'[task[t].owner].streak = obj[task[t].owner].streak
  BY DEF Untouched
<1>1. Running(t) /\ task'[t] = task[t]
  <2>1. Running(t)'
    BY DEF Running
  <2>. QED
    BY <2>1, CancelFacts
<1>. QED
  BY <1>1 DEF RuntimeInv, OwnerOK

\* The objects a running loop does not own may be replaced.
LEMMA SpawnErrors ==
  ASSUME RuntimeInv, ErrorsOK, NEW a \in Addr, NEW o \in Obj,
         NEW state \in {"active", "suspended"}, NEW wired \in BOOLEAN,
         Spawn(a, o, state, wired)
  PROVE  ErrorsOK'
<1> SUFFICES ASSUME NEW t \in Task, task'[t].phase \in {"wait", "busy"}
             PROVE  task'[t] = task[t] /\ obj'[task[t].owner] = obj[task[t].owner]
  BY UntouchedErrors DEF Untouched
<1>1. Running(t)'
  BY DEF Running
<1>2. Running(t) /\ task'[t] = task[t]
  <2>1. CASE ~halted /\ state = "active"
    BY <1>1, <2>1, StartLoopFacts DEF Spawn
  <2>2. CASE ~(~halted /\ state = "active")
    BY <1>1, <2>2 DEF Spawn, Running
  <2>. QED
    BY <2>1, <2>2
<1>3. task[t].owner \in Obj /\ obj[task[t].owner].state = "active"
  BY <1>2, LoopFacts
<1>4. task[t].owner # o
  BY <1>2 DEF Spawn, Unused
<1>5. task[t].owner # actors[a]
  BY <1>3, RuntimeAssumption DEF Spawn, Open
<1>. QED
  BY <1>2, <1>3, <1>4, <1>5 DEF Spawn

LEMMA AttachErrors ==
  ASSUME RuntimeInv, ErrorsOK, NEW a \in Addr, Attach(a)
  PROVE  ErrorsOK'
<1>1. actors[a] \in Obj
  BY DEF RuntimeInv, TypeOK, Attach, Open
<1>2. \A x \in Obj : obj'[x].streak = obj[x].streak
  <2>1. \A x \in ActorState : Resumed(x).streak = x.streak
    BY DEF Resumed, ActorState
  <2> HIDE DEF Resumed
  <2>. QED
    BY <1>1, <2>1 DEF RuntimeInv, TypeOK, Attach, AttachActor
<1>. QED
  BY <1>1, <1>2, StartLoopUntouched, UntouchedErrors DEF Attach, AttachActor

LEMMA DetachErrors ==
  ASSUME RuntimeInv, ErrorsOK, NEW a \in Addr, Detach(a)
  PROVE  ErrorsOK'
<1>1. actors[a] \in Obj
  BY DEF RuntimeInv, TypeOK, Detach, Open
<1>2. \A x \in Obj : obj'[x].streak = obj[x].streak
  <2>1. \A x \in ActorState : Suspended(x).streak = x.streak
    BY DEF Suspended, ActorState
  <2> HIDE DEF Suspended
  <2>. QED
    BY <1>1, <2>1 DEF RuntimeInv, TypeOK, Detach, DetachActor
<1>3. {a} \in SUBSET Addr
  OBVIOUS
<1>. QED
  BY <1>2, <1>3, CancelUntouched, UntouchedErrors DEF Detach, DetachActor

\* Nothing but mailboxes or downstreams changes, and no task does.
LEMMA QuietErrors ==
  ASSUME RuntimeInv, ErrorsOK, UNCHANGED task,
         \A x \in Obj : obj'[x].streak = obj[x].streak
  PROVE  ErrorsOK'
<1>1. \A t \in Task : task[t].phase \in {"wait", "busy"} => task[t].owner \in Obj
  BY DEF RuntimeInv, OwnerOK, Running
<1>. QED
  BY <1>1 DEF ErrorsOK

LEMMA WireErrors ==
  ASSUME RuntimeInv, ErrorsOK, NEW a \in Addr, Wire(a)
  PROVE  ErrorsOK'
<1>1. actors[a] \in Obj
  BY DEF RuntimeInv, TypeOK, Wire
<1>2. \A x \in Obj : obj'[x].streak = obj[x].streak
  <2>1. \A x \in ActorState : [x EXCEPT !.wired = TRUE].streak = x.streak
    BY DEF ActorState
  <2>. QED
    BY <1>1, <2>1 DEF RuntimeInv, TypeOK, Wire
<1>. QED
  BY <1>2, QuietErrors DEF Wire

LEMMA SendInErrors ==
  ASSUME RuntimeInv, ErrorsOK, NEW a \in Addr, SendIn(a)
  PROVE  ErrorsOK'
<1> DEFINE m == [from |-> IF a \in Chat THEN User ELSE a, id |-> sent + 1]
<1>1. m \in Message
  BY RuntimeAssumption DEF RuntimeInv, SendIn, TypeOK, Message
<1>2. obj' = Put(obj, a, m)
  BY DEF SendIn
<1> HIDE DEF m
<1>3. SameBut(obj, obj')
  BY <1>1, <1>2, PutKeeps DEF RuntimeInv, TypeOK
<1>. QED
  BY <1>3, QuietErrors DEF SendIn, SameBut

LEMMA EndActorsErrors ==
  ASSUME RuntimeInv, ErrorsOK, NEW S \in SUBSET Obj, \A o \in S : obj[o].addr \in Addr,
         EndActors(S)
  PROVE  ErrorsOK'
<1> DEFINE A == {obj[o].addr : o \in S}
<1>1. A \in SUBSET Addr /\ CancelTasks(A)
  BY DEF EndActors
<1>2. \A x \in Obj : obj'[x].streak = obj[x].streak
  <2>1. \A x \in ActorState : [x EXCEPT !.state = "ended"].streak = x.streak
    BY DEF ActorState
  <2>. QED
    BY <2>1 DEF RuntimeInv, TypeOK, EndActors
<1> HIDE DEF A
<1>. QED
  BY <1>1, <1>2, CancelUntouched, UntouchedErrors

LEMMA StopErrors ==
  ASSUME RuntimeInv, ErrorsOK, NEW c \in StopCalls,
         FinishStop(c) \/ \E a \in Addr : BeginStop(c, a)
  PROVE  ErrorsOK'
<1>0. TypeOK /\ AddrOK /\ CallOK
  BY DEF RuntimeInv
<1>1. CASE FinishStop(c)
  <2> DEFINE S == {call[c].target, call[c].outer} \ {None}
  <2>1. S \in SUBSET Obj /\ \A o \in S : obj[o].addr \in Addr
    BY <1>0, CallObjects DEF CallOK
  <2>2. EndActors(S)
    BY <1>1 DEF FinishStop
  <2> HIDE DEF S
  <2>. QED
    BY <2>1, <2>2, EndActorsErrors
<1>2. ASSUME NEW a \in Addr, BeginStop(c, a)
      PROVE  ErrorsOK'
  <2>1. actors[a] \in Obj /\ obj[actors[a]].addr = a
    BY <1>0, <1>2 DEF BeginStop, Open, TypeOK, AddrOK
  <2>2. CASE EndActors({actors[a]})
    BY <2>1, <2>2, EndActorsErrors
  <2>3. CASE UNCHANGED <<obj, reg, task, robbed>>
    BY <2>3, QuietErrors
  <2>. QED
    BY <1>2, <2>2, <2>3 DEF BeginStop
<1>. QED
  BY <1>1, <1>2

LEMMA ShutdownErrors == ASSUME RuntimeInv, ErrorsOK, Shutdown PROVE ErrorsOK'
<1>1. Addr \in SUBSET Addr
  OBVIOUS
<1>. QED
  BY <1>1, CancelUntouched, UntouchedErrors DEF Shutdown

\* Loops have actors of their own.
LEMMA OwnersDiffer ==
  ASSUME RuntimeInv, NEW t \in Task, NEW u \in Task \ {t}, Running(t), Running(u)
  PROVE  task[t].owner # task[u].owner
BY DEF RuntimeInv, SingleLoop

\* A step of loop t changes the count of t and the failures of its actor only.
LEMMA LoopStepErrors ==
  ASSUME RuntimeInv, ErrorsOK, NEW t \in Task, Running(t),
         \A u \in Task \ {t} : task'[u] = task[u],
         \A x \in Obj \ {task[t].owner} : obj'[x].streak = obj[x].streak,
         task'[t].phase \in {"wait", "busy"} =>
           /\ task'[t].owner = task[t].owner
           /\ task'[t].errors <= obj'[task[t].owner].streak
  PROVE  ErrorsOK'
<1> SUFFICES ASSUME NEW u \in Task, task'[u].phase \in {"wait", "busy"}
             PROVE  task'[u].errors <= obj'[task'[u].owner].streak
  BY DEF ErrorsOK
<1>1. CASE u = t
  BY <1>1
<1>2. CASE u # t
  <2>1. Running(u) /\ task'[u] = task[u]
    BY <1>2 DEF Running
  <2>2. task[u].owner \in Obj \ {task[t].owner}
    BY <1>2, <2>1, LoopFacts, OwnersDiffer
  <2>. QED
    BY <2>1, <2>2 DEF ErrorsOK
<1>. QED
  BY <1>1, <1>2

LEMMA LoopStartErrors ==
  ASSUME RuntimeInv, ErrorsOK, NEW t \in Task, LoopStart(t)
  PROVE  ErrorsOK'
<1> DEFINE o == task[t].owner
           l == Loop(o, o, "wait", NoMsg, 0)
<1>0. TypeOK /\ Running(t)
  BY DEF RuntimeInv, LoopStart, Running
<1>1. o \in Obj /\ obj[o].state = "active" /\ actors[obj[o].addr] = o
  BY <1>0, LoopFacts
<1>2. task' = [task EXCEPT ![t] = l] /\ UNCHANGED obj
  BY <1>1 DEF LoopStart
<1>3. l.owner = o /\ l.errors = 0
  BY DEF Loop
<1>4. obj[o].streak \in Nat
  BY <1>0, <1>1, RuntimeAssumption DEF TypeOK, ActorState
<1> HIDE DEF l
<1>5. task'[t] = l /\ \A u \in Task \ {t} : task'[u] = task[u]
  BY <1>0, <1>2 DEF TypeOK
<1>6. 0 <= obj'[o].streak
  BY <1>2, <1>4
<1>. QED
  BY <1>0, <1>2, <1>3, <1>5, <1>6, LoopStepErrors

\* A success resets both counts.
LEMMA SucceedErrors ==
  ASSUME RuntimeInv, ErrorsOK, NEW t \in Task, task[t].phase \in {"wait", "busy"},
         NEW ob, SameBut(obj, ob), Succeed(t, ob)
  PROVE  ErrorsOK'
<1> DEFINE o == task[t].owner
           l == Loop(o, task[t].box, "wait", NoMsg, 0)
<1>0. TypeOK /\ Running(t)
  BY DEF RuntimeInv, Running
<1>1. o \in Obj /\ obj[o].state = "active"
  BY <1>0, LoopFacts
<1>2. task' = [task EXCEPT ![t] = l] /\ obj' = [ob EXCEPT ![o].streak = 0]
  BY <1>1 DEF Succeed
<1>3. l.owner = o /\ l.errors = 0
  BY DEF Loop
<1>4. ob \in [Obj -> ActorState] /\ \A x \in Obj : ob[x].streak = obj[x].streak
  BY DEF SameBut
<1>5. obj'[o].streak = 0 /\ \A x \in Obj \ {o} : obj'[x].streak = obj[x].streak
  <2>1. [ob[o] EXCEPT !.streak = 0].streak = 0
    BY <1>1, <1>4 DEF ActorState
  <2>. QED
    BY <1>1, <1>2, <1>4, <2>1
<1> HIDE DEF l
<1>6. task'[t] = l /\ \A u \in Task \ {t} : task'[u] = task[u]
  BY <1>0, <1>2 DEF TypeOK
<1>. QED
  BY <1>0, <1>3, <1>5, <1>6, LoopStepErrors

\* What a failure adds to the failures in a row, which saturate at the budget.
LEMMA FailedStreak ==
  ASSUME NEW x \in ActorState, NEW spent \in BOOLEAN
  PROVE  Failed(x, spent).streak = IF x.streak < MaxErrors THEN x.streak + 1 ELSE x.streak
<1> DEFINE n == IF x.streak < MaxErrors THEN x.streak + 1 ELSE x.streak
           e == IF spent THEN "ended" ELSE x.state
           y == [x EXCEPT !.streak = n]
<1>1. Failed(x, spent) = [y EXCEPT !.state = e]
  BY DEF Failed
<1>2. n \in 0..MaxErrors
  BY RuntimeAssumption DEF ActorState
<1> HIDE DEF n, e
<1>3. y \in ActorState /\ y.streak = n
  BY <1>2 DEF ActorState
<1> HIDE DEF y
<1>4. [y EXCEPT !.state = e].streak = y.streak
  BY <1>3 DEF ActorState
<1>. QED
  BY <1>1, <1>3, <1>4 DEF n

\* A failure is one more for both, and spends the budget only after as many in a row.
LEMMA FailErrors ==
  ASSUME RuntimeInv, ErrorsOK, NEW t \in Task, task[t].phase \in {"wait", "busy"},
         NEW ob, SameBut(obj, ob), Fail(t, ob)
  PROVE  /\ ErrorsOK'
         /\ \A x \in Obj : obj[x].state # "ended" /\ obj'[x].state = "ended" =>
              obj'[x].streak = MaxErrors
<1> DEFINE o == task[t].owner
           n == task[t].errors + 1
           spent == n >= MaxErrors
           l == IF spent THEN NoLoop ELSE Loop(o, task[t].box, "wait", NoMsg, n)
           ob2 == Notify(ob, o)
           r == Failed(ob2[o], spent)
<1>0. TypeOK /\ Running(t)
  BY DEF RuntimeInv, Running
<1>1. o \in Obj /\ obj[o].addr \in Addr /\ obj[o].state = "active"
  BY <1>0, LoopFacts
<1>2. task' = [task EXCEPT ![t] = l] /\ obj' = [ob2 EXCEPT ![o] = r]
  BY <1>1 DEF Fail
<1>3. task[t].errors \in 0..MaxErrors /\ task[t].errors <= obj[o].streak
  BY <1>0, LoopFacts DEF LoopState, ErrorsOK
<1>4. l.phase # "done" => ~spent /\ l.owner = o /\ l.errors = n
  BY DEF NoLoop, Loop
<1>5. SameBut(obj, ob2)
  <2>1. SameBut(ob, ob2)
    BY <1>0, <1>1, NotifyKeeps DEF SameBut, TypeOK
  <2>. QED
    BY <2>1, SameButTrans
<1>6. spent \in BOOLEAN /\ (spent <=> n >= MaxErrors)
  OBVIOUS
<1> HIDE DEF ob2, spent, l
<1>7. /\ ob2 \in [Obj -> ActorState]
      /\ \A x \in Obj : ob2[x].streak = obj[x].streak /\ ob2[x].state = obj[x].state
  BY <1>5 DEF SameBut
<1>8. /\ r.state = IF spent THEN "ended" ELSE "active"
      /\ r.streak = IF obj[o].streak < MaxErrors THEN obj[o].streak + 1 ELSE obj[o].streak
  BY <1>1, <1>6, <1>7, FailedKeeps, FailedStreak
<1>9. obj[o].streak \in 0..MaxErrors
  BY <1>0, <1>1 DEF TypeOK, ActorState
<1>10. spent => r.streak = MaxErrors
  BY <1>3, <1>6, <1>8, <1>9, RuntimeAssumption
<1>11. ~spent => n <= r.streak
  BY <1>3, <1>6, <1>8, <1>9, RuntimeAssumption
<1> HIDE DEF r, n
<1>12. obj'[o] = r /\ \A x \in Obj \ {o} : obj'[x] = ob2[x]
  BY <1>1, <1>2, <1>7
<1>13. task'[t] = l /\ \A u \in Task \ {t} : task'[u] = task[u]
  BY <1>0, <1>2 DEF TypeOK
<1>14. ErrorsOK'
  BY <1>0, <1>4, <1>7, <1>11, <1>12, <1>13, LoopStepErrors
<1>. QED
  BY <1>7, <1>8, <1>10, <1>12, <1>14

\* Handling a message ends an actor only when its budget is spent.
LEMMA HandleErrors ==
  ASSUME RuntimeInv, ErrorsOK, NEW t \in Task, Take(t) \/ Resume(t)
  PROVE  /\ ErrorsOK'
         /\ \A x \in Obj : obj[x].state # "ended" /\ obj'[x].state = "ended" =>
              obj'[x].streak = MaxErrors
<1> DEFINE o == task[t].owner
<1>0. TypeOK /\ Running(t) /\ task[t].phase \in {"wait", "busy"}
  BY DEF RuntimeInv, Running, Take, Resume
<1>1. /\ o \in Obj /\ obj[o].addr \in Addr /\ obj[o].state = "active"
      /\ task[t].box = o /\ task[t].msg \in Message
  BY <1>0, LoopFacts DEF LoopState
<1>2. ASSUME NEW ob, NEW m \in Message, SameBut(obj, ob), Succeed(t, Relay(ob, o, m))
      PROVE  /\ ErrorsOK'
             /\ \A x \in Obj : obj[x].state # "ended" => obj'[x].state # "ended"
  <2>1. SameBut(ob, Relay(ob, o, m))
    BY <1>0, <1>1, <1>2, RelayKeeps DEF SameBut, TypeOK
  <2> DEFINE ob2 == Relay(ob, o, m)
  <2>2. SameBut(obj, ob2) /\ Succeed(t, ob2)
    BY <1>2, <2>1, SameButTrans
  <2> HIDE DEF ob2
  <2>3. \A x \in Obj : obj'[x].state = ob2[x].state
    <3>1. [ob2[o] EXCEPT !.streak = 0].state = ob2[o].state
      BY <1>1, <2>2 DEF SameBut, ActorState
    <3>. QED
      BY <1>1, <2>2, <3>1 DEF Succeed, SameBut
  <2>. QED
    BY <1>0, <2>2, <2>3, SucceedErrors DEF SameBut
<1>3. CASE Resume(t)
  <2>1. SameBut(obj, obj)
    BY <1>0 DEF SameBut, TypeOK
  <2>. QED
    BY <1>0, <1>1, <1>2, <1>3, <2>1, FailErrors DEF Resume
<1>4. CASE Take(t)
  <2> DEFINE m == Head(obj[o].mailbox)
             ob == [obj EXCEPT ![o].mailbox = Tail(@)]
             l == Loop(o, o, "busy", m, task[t].errors)
  <2>1. SameBut(obj, ob) /\ m \in Message
    BY <1>0, <1>1, <1>4, PopKeeps DEF TypeOK, Take
  <2>2. CASE obj' = ob /\ task' = [task EXCEPT ![t] = l]
    <3>1. l.owner = o /\ l.errors = task[t].errors
      BY DEF Loop
    <3> HIDE DEF l, ob
    <3>2. task'[t] = l /\ \A u \in Task \ {t} : task'[u] = task[u]
      BY <1>0, <2>2 DEF TypeOK
    <3>3. \A x \in Obj : obj'[x].streak = obj[x].streak /\ obj'[x].state = obj[x].state
      BY <2>1, <2>2 DEF SameBut
    <3>4. l.errors <= obj'[o].streak
      BY <1>0, <1>1, <3>1, <3>3 DEF ErrorsOK
    <3>. QED
      BY <1>0, <3>1, <3>2, <3>3, <3>4, LoopStepErrors
  <2>3. CASE Succeed(t, Relay(ob, o, m))
    <3> HIDE DEF m, ob
    <3>. QED
      BY <1>2, <2>1, <2>3
  <2>4. CASE Fail(t, ob)
    <3> HIDE DEF m, ob
    <3>. QED
      BY <1>0, <2>1, <2>4, FailErrors
  <2>. QED
    BY <1>1, <1>4, <2>2, <2>3, <2>4 DEF Take
<1>. QED
  BY <1>3, <1>4

LEMMA NextErrors == RuntimeInv /\ ErrorsOK /\ [Next]_vars => ErrorsOK'
<1> SUFFICES ASSUME RuntimeInv, ErrorsOK, [Next]_vars
             PROVE  ErrorsOK'
  OBVIOUS
<1>1. ASSUME NEW a \in Addr, NEW o \in Obj, NEW s \in {"active", "suspended"},
             NEW w \in BOOLEAN, Spawn(a, o, s, w)
      PROVE  ErrorsOK'
  BY <1>1, SpawnErrors
<1>2. ASSUME NEW a \in Addr, Attach(a) \/ Detach(a) \/ Wire(a) \/ SendIn(a)
      PROVE  ErrorsOK'
  BY <1>2, AttachErrors, DetachErrors, WireErrors, SendInErrors
<1>3. ASSUME NEW c \in StopCalls,
             FinishStop(c) \/ \E a \in Addr : BeginStop(c, a)
      PROVE  ErrorsOK'
  BY <1>3, StopErrors
<1>4. CASE Shutdown
  BY <1>4, ShutdownErrors
<1>5. ASSUME NEW t \in Task, Step(t)
      PROVE  ErrorsOK'
  BY <1>5, LoopStartErrors, HandleErrors DEF Step
<1>6. CASE UNCHANGED vars
  BY <1>6, QuietErrors DEF vars
<1>. QED
  BY <1>1, <1>2, <1>3, <1>4, <1>5, <1>6 DEF Next

\* An actor that has a loop ends without its loop being cancelled: what one step
\* of BudgetSpent says.
Spends ==
  \A o \in Obj :
    (/\ obj[o].state # "ended" /\ obj'[o].state = "ended"
     /\ \E t \in Task : Running(t) /\ task[t].owner = o
     /\ reg' = reg)
      => obj'[o].streak = MaxErrors

\* stop takes the loop of every actor it ends out of the registry.
LEMMA EndActorsSpends ==
  ASSUME RuntimeInv, NEW S \in SUBSET Obj, \A o \in S : obj[o].addr \in Addr,
         EndActors(S)
  PROVE  Spends
<1> SUFFICES ASSUME NEW o \in Obj, obj[o].state # "ended", obj'[o].state = "ended",
                    NEW t \in Task, Running(t), task[t].owner = o, reg' = reg
             PROVE  FALSE
  BY DEF Spends
<1>1. o \in S
  BY DEF EndActors
<1>2. reg[obj[o].addr] = t /\ obj[o].addr \in Addr
  BY DEF RuntimeInv, SingleLoop, OwnerOK
<1>3. reg'[obj[o].addr] = None
  BY <1>1, <1>2 DEF EndActors, CancelTasks
<1>. QED
  BY <1>2, <1>3, RuntimeAssumption

\* An operation that ends nobody spends nothing.
LEMMA QuietSpends ==
  ASSUME \A o \in Obj : obj'[o].state = "ended" => obj[o].state = "ended"
  PROVE  Spends
BY DEF Spends

LEMMA NextSpends == RuntimeInv /\ ErrorsOK /\ [Next]_vars => Spends
<1> SUFFICES ASSUME RuntimeInv, ErrorsOK, [Next]_vars
             PROVE  Spends
  OBVIOUS
<1>0. TypeOK /\ AddrOK /\ CallOK
  BY DEF RuntimeInv
<1>1. ASSUME NEW a \in Addr, NEW o \in Obj, NEW s \in {"active", "suspended"},
             NEW w \in BOOLEAN, Spawn(a, o, s, w)
      PROVE  Spends
  <2> SUFFICES ASSUME NEW x \in Obj, obj[x].state # "ended", obj'[x].state = "ended",
                      NEW t \in Task, Running(t), task[t].owner = x
               PROVE  FALSE
    BY DEF Spends
  <2>1. x # o
    BY <1>1 DEF Spawn, Unused
  <2>2. x # actors[a]
    BY <1>1, RuntimeAssumption DEF Spawn, Open
  <2>. QED
    BY <1>1, <2>1, <2>2 DEF Spawn
<1>2. ASSUME NEW a \in Addr, Attach(a)
      PROVE  Spends
  <2>1. actors[a] \in Obj /\ obj[actors[a]] \in ActorState /\ obj[actors[a]].state # "ended"
    BY <1>0, <1>2 DEF TypeOK, Attach, Open
  <2>2. Resumed(obj[actors[a]]).state = "active"
    BY <2>1, ResumedKeeps
  <2>. QED
    BY <1>0, <1>2, <2>1, <2>2, QuietSpends DEF TypeOK, Attach, AttachActor
<1>3. ASSUME NEW a \in Addr, Detach(a)
      PROVE  Spends
  <2>1. actors[a] \in Obj /\ obj[actors[a]] \in ActorState
    BY <1>0, <1>3 DEF TypeOK, Detach, Open
  <2>2. Suspended(obj[actors[a]]).state = "suspended"
    BY <2>1, SuspendedKeeps
  <2>. QED
    BY <1>0, <1>3, <2>1, <2>2, QuietSpends DEF TypeOK, Detach, DetachActor
<1>4. ASSUME NEW a \in Addr, Wire(a)
      PROVE  Spends
  <2>1. \A x \in ActorState : [x EXCEPT !.wired = TRUE].state = x.state
    BY DEF ActorState
  <2>. QED
    BY <1>0, <1>4, <2>1, QuietSpends DEF Wire, TypeOK
<1>5. ASSUME NEW a \in Addr, SendIn(a)
      PROVE  Spends
  <2> DEFINE m == [from |-> IF a \in Chat THEN User ELSE a, id |-> sent + 1]
  <2>1. m \in Message /\ obj' = Put(obj, a, m)
    BY <1>0, <1>5, RuntimeAssumption DEF SendIn, TypeOK, Message
  <2> HIDE DEF m
  <2>. QED
    BY <1>0, <2>1, PutKeeps, QuietSpends DEF TypeOK, SameBut
<1>6. ASSUME NEW c \in StopCalls, FinishStop(c)
      PROVE  Spends
  <2> DEFINE S == {call[c].target, call[c].outer} \ {None}
  <2>1. S \in SUBSET Obj /\ \A o \in S : obj[o].addr \in Addr
    BY <1>0, CallObjects DEF CallOK
  <2>2. EndActors(S)
    BY <1>6 DEF FinishStop
  <2> HIDE DEF S
  <2>. QED
    BY <2>1, <2>2, EndActorsSpends
<1>7. ASSUME NEW c \in StopCalls, NEW a \in Addr, BeginStop(c, a)
      PROVE  Spends
  <2>1. actors[a] \in Obj /\ obj[actors[a]].addr = a
    BY <1>0, <1>7 DEF BeginStop, Open, TypeOK, AddrOK
  <2>2. CASE EndActors({actors[a]})
    BY <2>1, <2>2, EndActorsSpends
  <2>3. CASE UNCHANGED <<obj, reg, task, robbed>>
    BY <2>3, QuietSpends
  <2>. QED
    BY <1>7, <2>2, <2>3 DEF BeginStop
<1>8. CASE Shutdown
  BY <1>8, QuietSpends DEF Shutdown
<1>9. ASSUME NEW t \in Task, Step(t)
      PROVE  Spends
  <2>1. CASE LoopStart(t)
    BY <2>1, QuietSpends DEF LoopStart
  <2>2. CASE Take(t) \/ Resume(t)
    BY <2>2, HandleErrors DEF Spends
  <2>. QED
    BY <1>9, <2>1, <2>2 DEF Step
<1>10. CASE UNCHANGED vars
  BY <1>10, QuietSpends DEF vars
<1>. QED
  BY <1>1, <1>2, <1>3, <1>4, <1>5, <1>6, <1>7, <1>8, <1>9, <1>10 DEF Next

\* A loop ends its actor only after as many failures in a row as the budget has.
THEOREM BudgetOfFailures == Spec => BudgetSpent
<1>1. Init => ErrorsOK
  BY DEF Init, ErrorsOK, NoLoop, Loop
<1>2. RuntimeInv /\ ErrorsOK /\ [Next]_vars => [Spends]_vars
  BY NextSpends
<1>3. BudgetSpent <=> [][Spends]_vars
  BY DEF BudgetSpent, Spends
<1>. QED
  BY <1>1, <1>2, <1>3, NextErrors, RuntimeInvariant, PTL DEF Spec
=============================================================================
