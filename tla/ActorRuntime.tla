----------------------------- MODULE ActorRuntime -----------------------------
(***************************************************************************)
(* The actor runtime of the channel server (channel_server/core/runtime.py *)
(* with the cc_session and feishu_inbound handlers): the table of actors,  *)
(* their mailboxes, the asyncio task that drains each mailbox, and the     *)
(* lifecycle operations spawn, stop, attach, detach, wire and shutdown.    *)
(*                                                                         *)
(* Everything runs on one asyncio event loop, so code is atomic from one   *)
(* await to the next: an action below is one such segment.  A task that is *)
(* cancelled runs no further code of ours: CancelledError is raised at the *)
(* await it is parked on and leaves the loop (runtime.py:225), so it is    *)
(* over, for every other actor, from the moment of the cancel.             *)
(*                                                                         *)
(* An address outlives the actors that bear it (an ended actor's address   *)
(* may be spawned again), so an actor OBJECT has an identity of its own,   *)
(* and so has a loop task.  Identities nothing refers to are used again.   *)
(***************************************************************************)
EXTENDS Naturals, Sequences

CONSTANTS
  CC,         \* addresses of cc_session actors
  Chat,       \* addresses of feishu_inbound actors with a feishu_thread transport
  Peer,       \* Peer[a]: the one address a can have as its downstream
  Parent,     \* Parent[a]: the address told of a's handler errors, or Nobody
  Nobody,
  User,       \* the sender of what arrives from Feishu ("feishu_user:...")
  StopCalls,  \* coroutines that may be inside ActorRuntime.stop at one time
  MaxErrors,  \* max_errors of _actor_loop (10 in the code)
  Obj,        \* identities of Actor objects
  Task,       \* identities of loop tasks
  None,       \* no object, no task
  MaxSent     \* bound: messages entering from outside

Addr == CC \cup Chat

ASSUME RuntimeAssumption ==
  /\ CC \cap Chat = {}
  /\ Peer \in [Addr -> Addr]
  /\ Parent \in [Addr -> Addr \cup {Nobody}]
  /\ Nobody \notin Addr
  /\ User \notin Addr
  /\ MaxErrors \in Nat \ {0}
  /\ None \notin Obj \cup Task
  /\ MaxSent \in Nat

\* A session and a thread are each other's only downstream (spawn.py:71,84).
ASSUME PairAssumption ==
  /\ \A a \in Addr : a \in CC <=> Peer[a] \in Chat
  /\ \A a, b \in Addr : Peer[a] = Peer[b] => a = b

\* A message: who sent it, and its number (0 for an error notice).
Message == [from : Addr \cup {User}, id : 0..MaxSent]

-----------------------------------------------------------------------------
VARIABLES
  actors,    \* runtime.actors: address -> object, or None
  obj,       \* the Actor objects, with the queue created for each
  reg,       \* runtime._tasks: address -> loop task, or None
  task,      \* the loop tasks
  call,      \* the calls of stop() awaiting an on_stop action
  halted,    \* runtime._stop_event.is_set()
  sent,      \* messages sent from outside so far
  pushed,    \* history: ids each address handed to its transport, in order
  robbed     \* history: addresses whose loop was cancelled for another actor

vars == <<actors, obj, reg, task, call, halted, sent, pushed, robbed>>

NoMsg   == [from |-> User, id |-> 0]
NewActor(a, state, wired) ==
  [addr |-> a, state |-> state, attached |-> (state = "active"),
   wired |-> wired, mailbox |-> <<>>, streak |-> 0]
NoActor == NewActor(Nobody, "ended", FALSE)
Loop(o, b, phase, m, n) ==
  [owner |-> o, box |-> b, phase |-> phase, msg |-> m, errors |-> n]
NoLoop  == Loop(None, None, "done", NoMsg, 0)
NoStop  == [target |-> None, outer |-> None]

Init ==
  /\ actors = [a \in Addr |-> None]
  /\ obj = [o \in Obj |-> NoActor]
  /\ reg = [a \in Addr |-> None]
  /\ task = [t \in Task |-> NoLoop]
  /\ call = [c \in StopCalls |-> NoStop]
  /\ halted = FALSE
  /\ sent = 0
  /\ pushed = [a \in Addr |-> <<>>]
  /\ robbed = {}

-----------------------------------------------------------------------------
(* The actor table and the task registry.                                  *)

Open(a)    == actors[a] # None /\ obj[actors[a]].state # "ended"
Active(a)  == actors[a] # None /\ obj[actors[a]].state = "active"
Running(t) == task[t].phase # "done"
Looping(a) == reg[a] # None /\ Running(reg[a])

\* Nothing refers to object o any more.
Unused(o) ==
  /\ \A a \in Addr : actors[a] # o
  /\ \A t \in Task : Running(t) => task[t].owner # o
  /\ \A c \in StopCalls : call[c].target # o /\ call[c].outer # o

\* Mutant of StartLoop: a new loop each time, running or not.
StartLoopAgain(a, o) ==
  \E t \in Task :
    /\ ~Running(t) /\ \A b \in Addr : reg[b] # t
    /\ reg' = [reg EXCEPT ![a] = t]
    /\ task' = [task EXCEPT ![t] = Loop(o, None, "new", NoMsg, 0)]

\* _maybe_start_loop for object o at address a: not if one is running.
StartLoop(a, o) ==
  IF Looping(a)
  THEN UNCHANGED <<reg, task>>
  ELSE \E t \in Task :
         /\ ~Running(t) /\ \A b \in Addr : reg[b] # t
         /\ reg' = [reg EXCEPT ![a] = t]
         /\ task' = [task EXCEPT ![t] = Loop(o, None, "new", NoMsg, 0)]

\* _cancel_task for each address of A.
CancelTasks(A) ==
  /\ reg' = [a \in Addr |-> IF a \in A THEN None ELSE reg[a]]
  /\ task' = [t \in Task |->
                IF \E a \in A : reg[a] = t THEN NoLoop ELSE task[t]]

\* An actor with a transport, and one without.
Resumed(x)   == [x EXCEPT !.attached = TRUE,
                          !.state = IF x.state = "suspended" THEN "active" ELSE x.state]
Suspended(x) == [x EXCEPT !.attached = FALSE, !.state = "suspended"]

-----------------------------------------------------------------------------
(* Lifecycle operations.                                                   *)

\* Mutant of Spawn: whoever has the address is replaced, its state not looked at.
SpawnOver(a, o, state, wired) ==
  /\ Unused(o) /\ a \in CC /\ state = "active" /\ ~wired
  /\ actors' = [actors EXCEPT ![a] = o]
  /\ obj' = [obj EXCEPT ![o] = NewActor(a, state, wired)]
  /\ StartLoop(a, o)
  /\ UNCHANGED <<call, halted, sent, pushed, robbed>>

\* spawn: a new object with a new queue, unless a live actor has the address
\* (ValueError).  The object that had it is dropped.  A chat actor is spawned
\* active and wired; a cc_session either suspended, with or without its thread
\* downstream, or active on its websocket with no downstream.
Spawn(a, o, state, wired) ==
  /\ ~Open(a)
  /\ Unused(o)
  /\ IF a \in Chat THEN state = "active" /\ wired
                   ELSE state = "active" => ~wired
  /\ actors' = [actors EXCEPT ![a] = o]
  /\ obj' = [x \in Obj |->
               IF x = o THEN NewActor(a, state, wired)
               ELSE IF x = actors[a] THEN NewActor(a, "ended", FALSE)
               ELSE obj[x]]
  /\ IF ~halted /\ state = "active"
     THEN StartLoop(a, o)
     ELSE UNCHANGED <<reg, task>>
  /\ robbed' = robbed \ {a}
  /\ UNCHANGED <<call, halted, sent, pushed>>

\* Mutant of AttachActor: no loop is started.
AttachNoLoop(a) ==
  /\ obj' = [obj EXCEPT ![actors[a]].attached = TRUE, ![actors[a]].state = "active"]
  /\ robbed' = robbed \ {a}
  /\ UNCHANGED <<actors, reg, task, call, halted, sent, pushed>>

\* attach: give the actor a transport, resume it, make sure its loop runs.
AttachActor(a) ==
  /\ obj' = [obj EXCEPT ![actors[a]] = Resumed(@)]
  /\ StartLoop(a, actors[a])
  /\ robbed' = robbed \ {a}
  /\ UNCHANGED <<actors, call, halted, sent, pushed>>

\* A session registers, or its heartbeat does: an ended actor is not attached.
Attach(a) == a \in CC /\ Open(a) /\ AttachActor(a)

\* Mutant of DetachActor: the actor is not suspended.
DetachActive(a) ==
  /\ obj' = [obj EXCEPT ![actors[a]].attached = FALSE]
  /\ CancelTasks({a})
  /\ robbed' = robbed \ {a}
  /\ UNCHANGED <<actors, call, halted, sent, pushed>>

\* detach: take the transport away, suspend the actor, cancel its loop.
DetachActor(a) ==
  /\ obj' = [obj EXCEPT ![actors[a]] = Suspended(@)]
  /\ CancelTasks({a})
  /\ robbed' = robbed \ {a}
  /\ UNCHANGED <<actors, call, halted, sent, pushed>>

\* Mutant of Detach: whatever the state of the actor.
DetachEnded(a) == a \in CC /\ actors[a] # None /\ DetachActor(a)

\* A session's websocket closes: an ended actor is not detached.
Detach(a) == a \in CC /\ Open(a) /\ DetachActor(a)

\* wire: append the peer to the downstream of a cc_session.
Wire(a) ==
  /\ a \in CC /\ actors[a] # None
  /\ ~obj[actors[a]].wired
  /\ obj' = [obj EXCEPT ![actors[a]].wired = TRUE]
  /\ UNCHANGED <<actors, reg, task, call, halted, sent, pushed, robbed>>

\* Mutant of EndActors: a state no reader of Actor.state knows.
EndActorsMisnamed(S) ==
  /\ obj' = [o \in Obj |-> IF o \in S THEN [obj[o] EXCEPT !.state = "stopped"]
                                      ELSE obj[o]]
  /\ CancelTasks({obj[o].addr : o \in S})
  /\ UNCHANGED robbed

\* The end of stop for the objects in S: state ended, then _cancel_task of
\* the ADDRESS, whichever actor's loop is registered there by now.
EndActors(S) ==
  LET A == {obj[o].addr : o \in S} IN
  /\ obj' = [o \in Obj |-> IF o \in S THEN [obj[o] EXCEPT !.state = "ended"]
                                      ELSE obj[o]]
  /\ CancelTasks(A)
  /\ robbed' = {a \in A : actors[a] \notin S /\ obj[actors[a]].state = "active"}
                 \cup (robbed \ A)

\* stop(a) up to its first await.  The on_stop of a chat actor awaits Feishu
\* (unpin, update_anchor).  The on_stop of a cc_session stops its downstream:
\* it awaits that actor's on_stop when there is one to run, and else ends here.
BeginStop(c, a) ==
  LET o == actors[a]
      p == actors[Peer[a]]
      nested == a \in CC /\ obj[o].wired /\ Open(Peer[a])
  IN
  /\ call[c] = NoStop
  /\ Open(a)
  /\ \/ /\ a \in Chat
        /\ call' = [call EXCEPT ![c] = [target |-> o, outer |-> None]]
        /\ UNCHANGED <<obj, reg, task, robbed>>
     \/ /\ nested
        /\ call' = [call EXCEPT ![c] = [target |-> p, outer |-> o]]
        /\ UNCHANGED <<obj, reg, task, robbed>>
     \/ /\ a \in CC /\ ~nested
        /\ EndActors({o})
        /\ UNCHANGED call
  /\ UNCHANGED <<actors, halted, sent, pushed>>

\* The awaited on_stop actions are over: the inner actor ends, then the outer.
FinishStop(c) ==
  /\ call[c] # NoStop
  /\ EndActors({call[c].target, call[c].outer} \ {None})
  /\ call' = [call EXCEPT ![c] = NoStop]
  /\ UNCHANGED <<actors, halted, sent, pushed>>

\* shutdown: cancel every loop, set the stop event.
Shutdown ==
  /\ ~halted
  /\ halted' = TRUE
  /\ CancelTasks(Addr)
  /\ UNCHANGED <<actors, obj, call, sent, pushed, robbed>>

-----------------------------------------------------------------------------
(* Messages.                                                               *)

\* send: append to the mailbox of a live actor, active or suspended; else drop.
Put(ob, to, m) ==
  IF actors[to] = None \/ ob[actors[to]].state = "ended"
  THEN ob
  ELSE [ob EXCEPT ![actors[to]].mailbox = Append(@, m)]

\* An adapter delivers a message: a Feishu user's to a chat actor, or a frame
\* of the session's own websocket to its cc_session actor.
SendIn(a) ==
  /\ sent < MaxSent
  /\ sent' = sent + 1
  /\ obj' = Put(obj, a, [from |-> IF a \in Chat THEN User ELSE a, id |-> sent + 1])
  /\ UNCHANGED <<actors, reg, task, call, halted, pushed, robbed>>

\* What a handler does with m.  cc_session relays its own session's message
\* and pushes any other over its transport; feishu_inbound acknowledges and
\* then relays a user's message and pushes any other.
Relays(a, m) == IF a \in CC THEN m.from = a ELSE m.from = User
Awaits(a, m) == a \in Chat \/ m.from # a

Relay(ob, o, m) ==
  LET a == obj[o].addr IN
  IF Relays(a, m) /\ ob[o].wired THEN Put(ob, Peer[a], m) ELSE ob

\* The parent of an actor whose handler raised is sent the error.
Notify(ob, o) ==
  LET a == obj[o].addr IN
  IF Parent[a] = Nobody THEN ob ELSE Put(ob, Parent[a], [from |-> a, id |-> 0])

-----------------------------------------------------------------------------
(* The loop of an actor (_actor_loop), from await to await.                *)

\* The loop's first step: it looks its mailbox up by address.
LoopStart(t) ==
  LET o == task[t].owner IN
  /\ task[t].phase = "new"
  /\ task' = [task EXCEPT ![t] =
                IF obj[o].state = "active"
                THEN Loop(o, actors[obj[o].addr], "wait", NoMsg, 0)
                ELSE NoLoop]
  /\ UNCHANGED <<actors, obj, reg, call, halted, sent, pushed, robbed>>

\* Mutant of Succeed: error_count is kept.
SucceedKeepsErrors(t, ob) ==
  /\ obj' = [ob EXCEPT ![task[t].owner].streak = 0]
  /\ task' = [task EXCEPT ![t].phase = "wait", ![t].msg = NoMsg]

\* All actions of the message were executed: error_count is reset.
Succeed(t, ob) ==
  LET o == task[t].owner IN
  /\ obj' = [ob EXCEPT ![o].streak = 0]
  /\ task' = [task EXCEPT ![t] =
                IF obj[o].state = "active"
                THEN Loop(o, task[t].box, "wait", NoMsg, 0)
                ELSE NoLoop]

\* An actor after one more failure, which spends its budget or does not.
Failed(x, spent) ==
  [x EXCEPT !.streak = IF x.streak < MaxErrors THEN x.streak + 1 ELSE x.streak,
            !.state = IF spent THEN "ended" ELSE x.state]

\* The handler or one of its actions raised; at max_errors the actor ends.
Fail(t, ob) ==
  LET o == task[t].owner
      n == task[t].errors + 1
      spent == n >= MaxErrors
  IN
  /\ obj' = [Notify(ob, o) EXCEPT ![o] = Failed(@, spent)]
  /\ task' = [task EXCEPT ![t] =
                IF ~spent /\ obj[o].state = "active"
                THEN Loop(o, task[t].box, "wait", NoMsg, n)
                ELSE NoLoop]

\* Mutant of Take: the message is read but left in the mailbox.
TakePeeks(t) ==
  LET o == task[t].owner
      m == Head(obj[task[t].box].mailbox)
      a == obj[o].addr
  IN
  /\ task[t].phase = "wait"
  /\ obj[task[t].box].mailbox # <<>>
  /\ Awaits(a, m) /\ obj[o].attached
  /\ task' = [task EXCEPT ![t].phase = "busy", ![t].msg = m]
  /\ pushed' = IF Relays(a, m) \/ m.id = 0 THEN pushed
               ELSE [pushed EXCEPT ![a] = Append(@, m.id)]
  /\ UNCHANGED <<actors, obj, reg, call, halted, sent, robbed>>

\* One message is taken from the mailbox and its handler runs to the first
\* await of a transport callback, or to the end when there is none.
Take(t) ==
  LET o == task[t].owner
      b == task[t].box
      m == Head(obj[b].mailbox)
      a == obj[o].addr
      popped == [obj EXCEPT ![b].mailbox = Tail(@)]
      awaits == Awaits(a, m) /\ obj[o].attached
  IN
  /\ task[t].phase = "wait"
  /\ obj[b].mailbox # <<>>
  /\ \/ /\ awaits
        /\ obj' = popped
        /\ task' = [task EXCEPT ![t] = Loop(o, b, "busy", m, task[t].errors)]
        /\ pushed' = IF Relays(a, m) \/ m.id = 0 THEN pushed
                     ELSE [pushed EXCEPT ![a] = Append(@, m.id)]
     \/ /\ ~awaits
        /\ Succeed(t, Relay(popped, o, m))
        /\ UNCHANGED pushed
     \/ /\ Fail(t, popped)
        /\ UNCHANGED pushed
  /\ UNCHANGED <<actors, reg, call, halted, sent, robbed>>

\* The awaited callback returned, or raised.
Resume(t) ==
  LET o == task[t].owner IN
  /\ task[t].phase = "busy"
  /\ \/ Succeed(t, Relay(obj, o, task[t].msg))
     \/ Fail(t, obj)
  /\ UNCHANGED <<actors, reg, call, halted, sent, pushed, robbed>>

Step(t) == LoopStart(t) \/ Take(t) \/ Resume(t)

Next ==
  \/ \E a \in Addr :
       \/ \E o \in Obj, s \in {"active", "suspended"}, w \in BOOLEAN : Spawn(a, o, s, w)
       \/ Attach(a)
       \/ Detach(a)
       \/ Wire(a)
       \/ SendIn(a)
       \/ \E c \in StopCalls : BeginStop(c, a)
  \/ \E c \in StopCalls : FinishStop(c)
  \/ Shutdown
  \/ \E t \in Task : Step(t)

\* asyncio runs every ready task again and again, and every callback returns.
Fairness == \A t \in Task : WF_vars(Step(t))

Spec == Init /\ [][Next]_vars
FairSpec == Spec /\ Fairness

-----------------------------------------------------------------------------
(* Properties.                                                             *)

ActorState == [addr : Addr \cup {Nobody}, state : {"active", "suspended", "ended"},
               attached : BOOLEAN, wired : BOOLEAN,
               mailbox : Seq(Message), streak : 0..MaxErrors]
LoopState  == [owner : Obj \cup {None}, box : Obj \cup {None},
               phase : {"new", "wait", "busy", "done"},
               msg : Message, errors : 0..MaxErrors]
StopState  == [target : Obj \cup {None}, outer : Obj \cup {None}]

\* Every variable keeps the shape the runtime gives it (runtime.py:27-34).
TypeOK ==
  /\ actors \in [Addr -> Obj \cup {None}]
  /\ obj \in [Obj -> ActorState]
  /\ reg \in [Addr -> Task \cup {None}]
  /\ task \in [Task -> LoopState]
  /\ call \in [StopCalls -> StopState]
  /\ halted \in BOOLEAN
  /\ sent \in 0..MaxSent
  /\ pushed \in [Addr -> Seq(0..MaxSent)]
  /\ robbed \in SUBSET Addr

\* One loop per actor: whatever sequence of attach, detach, stop and spawn led
\* here, a loop that still runs is the one _tasks holds for its address, and its
\* actor is an active one that has the address now.  Two loops on one mailbox
\* would handle an actor's messages concurrently (runtime.py:313-327).
SingleLoop ==
  \A t \in Task : Running(t) =>
    /\ reg[obj[task[t].owner].addr] = t
    /\ actors[obj[task[t].owner].addr] = task[t].owner
    /\ obj[task[t].owner].state = "active"

\* A loop finds its mailbox by address, a turn of the event loop after it was
\* created (runtime.py:188): it never drains the mailbox of another actor that
\* was spawned on the address in between.
LoopReadsOwnMailbox ==
  \A t \in Task : task[t].phase \in {"wait", "busy"} => task[t].box = task[t].owner

\* An actor left active without a loop handles nothing (the zombie attach guards
\* against, runtime.py:131): it happens only when a late stop of an EARLIER actor
\* of the address cancelled the loop, or after shutdown.
ActiveHasLoop ==
  \A a \in Addr : Active(a) /\ ~halted => Looping(a) \/ a \in robbed

\* An active actor always has a transport, so what its loop takes from the
\* mailbox is never dropped for want of one (runtime.py:253).
ActiveIsAttached ==
  \A a \in Addr : Active(a) => obj[actors[a]].attached

\* Messages leave an address in the order in which they came into the server,
\* each at most once, across reconnects, kills and respawns.
InOrderAtMostOnce ==
  \A a \in Addr : \A i, j \in DOMAIN pushed[a] :
    i < j => pushed[a][i] < pushed[a][j]

\* A loop ends its actor only when the last MaxErrors messages the actor handled
\* all failed: a success in between gives the whole budget back (runtime.py:204).
BudgetSpent ==
  [][\A o \in Obj :
       (/\ obj[o].state # "ended" /\ obj'[o].state = "ended"
        /\ \E t \in Task : Running(t) /\ task[t].owner = o
        /\ reg' = reg)
         => obj'[o].streak = MaxErrors]_vars

\* stop() "runs on_stop lifecycle, sets state to ended, cancels loop" of the
\* actor it was called for (runtime.py:78): its end cancels no other's loop.
StopEndsOnlyItsActor ==
  [][\A c \in StopCalls, t \in Task :
       (call[c] # NoStop /\ call'[c] = NoStop /\ Running(t) /\ ~Running(t)')
         => task[t].owner \in {call[c].target, call[c].outer}]_vars

\* A message stays queued for ever only at an actor that is not active for
\* ever, or whose loop was cancelled for another actor, or after shutdown: what
\* was queued while a session was suspended is flushed once it stays attached.
QueuedIsHandled ==
  \A a \in Addr :
    <>[](Active(a) /\ obj[actors[a]].mailbox # <<>>) => []<>(halted \/ a \in robbed)
=============================================================================
