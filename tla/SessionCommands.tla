---------------------------- MODULE SessionCommands ----------------------------
(***************************************************************************)
(* The commands /spawn and /kill of one user in one chat, with the         *)
(* registrations of the sessions' websocket clients                        *)
(* (channel_server/commands/builtin/{spawn,kill}.py and                    *)
(* adapters/cc/adapter.py).                                                *)
(*                                                                         *)
(* Every Feishu event that is a command runs as a task of its own          *)
(* (adapters/feishu/adapter.py:407), so commands interleave at each await. *)
(* The actors are those of ActorTable, here with the identity an address   *)
(* does not give them: a spawn numbers what it creates, its anchor         *)
(* message, its thread actor and its cc actor.                             *)
(*                                                                         *)
(* Commands of one session may overlap, and any client may register: what  *)
(* then goes astray is recorded in late, raised and stuck, variables that  *)
(* no guard reads and that the properties name as the only ways it can.    *)
(***************************************************************************)
EXTENDS Naturals, FiniteSets

CONSTANTS
  Session,      \* session names
  Cmd,          \* tasks that may be executing a command at one time
  Main,         \* the caller of a command typed in the main chat
  Nobody,
  MaxChildren,  \* _MAX_CHILDREN of spawn.py
  MaxBorn       \* bound: spawns, by a command or by a registration

ASSUME CommandsAssumption ==
  /\ IsFiniteSet(Session) /\ IsFiniteSet(Cmd) /\ Cmd # {}
  /\ Nobody \notin Session \cup {Main}
  /\ MaxChildren \in Nat \ {0}
  /\ MaxBorn \in Nat

\* Who a command is dispatched for: the main chat, a session's thread actor, or
\* its cc actor (a command sent over the websocket).
Caller == {Main} \cup ({"cc", "thread"} \X Session)

VARIABLES
  cc,      \* the actor at cc:user.s
  thread,  \* the actor at feishu:app:chat:thread:s
  tmux,    \* sessions with a client, in its tmux window or started by hand
  boot,    \* sessions whose on_spawn task is still to run
  pinned,  \* anchors pinned in the chat: the session and the spawn
  born,    \* spawns so far
  cmd,     \* the commands being executed
  late,    \* history: threads ended by the second stop of a kill or a rollback
  raised,  \* history: spawns that found a live actor at an address (ValueError)
  stuck    \* history: anchors whose unpin Feishu refused

vars == <<cc, thread, tmux, boot, pinned, born, cmd, late, raised, stuck>>

NoActor == [id |-> 0, state |-> "absent", parent |-> Nobody, wired |-> FALSE]

\* A command: what it is waiting for, for which session and caller, the number
\* of what it creates or kills, the actors its stop holds, and its answer.
Task(pc, s, f, n, held, answer) ==
  [pc |-> pc, name |-> s, caller |-> f, num |-> n, held |-> held, answer |-> answer]
Idle(answer) == Task("idle", Nobody, Nobody, 0, [cc |-> 0, thread |-> 0], answer)
NoneHeld     == [cc |-> 0, thread |-> 0]

Init ==
  /\ cc = [s \in Session |-> NoActor]
  /\ thread = [s \in Session |-> NoActor]
  /\ tmux = {}
  /\ boot = {}
  /\ pinned = {}
  /\ born = 0
  /\ cmd = [c \in Cmd |-> Idle("none")]
  /\ late = {} /\ raised = {} /\ stuck = {}

Live(x) == x.state \in {"suspended", "active"}
\* Mutant of Ended: a state no check of Actor.state knows.
EndedMisnamed(x) == [x EXCEPT !.state = "stopped"]
Ended(x) == [x EXCEPT !.state = "ended"]

Goto(c, t) == cmd' = [cmd EXCEPT ![c] = t]

-----------------------------------------------------------------------------
(* stop, as the commands call it: cc first, then the thread by address.    *)

\* Mutant of StopSession: the cc actor is left to its own on_stop, only the thread
\* is stopped.
StopThreadOnly(c, now, s, f, n, answer) ==
  IF Live(thread[s])
  THEN /\ Goto(c, Task("stopThread", s, f, n, [cc |-> 0, thread |-> thread[s].id], answer))
       /\ cc' = now
  ELSE Goto(c, Idle(answer)) /\ cc' = now

\* now is the table of cc actors as this segment has changed it so far.  The
\* on_stop of a cc actor stops its thread, which awaits Feishu (unpin, update of
\* the card); with no live thread the cc actor ends at once.
StopSession(c, now, s, f, n, answer) ==
  LET th == thread[s] IN
  IF Live(now[s]) /\ now[s].wired /\ Live(th)
  THEN /\ Goto(c, Task("stopCC", s, f, n, [cc |-> now[s].id, thread |-> th.id], answer))
       /\ cc' = now
  ELSE /\ cc' = [now EXCEPT ![s] = IF Live(@) THEN Ended(@) ELSE @]
       /\ IF now[s].wired /\ Live(th)
          THEN Goto(c, Task("stopThread", s, f, n, [cc |-> 0, thread |-> th.id], answer))
          ELSE Goto(c, Idle(answer))

\* Mutants of EndHeld: the actor the on_stop stops does not end, the one that was
\* to be stopped does not, or the anchor is not unpinned.
EndOuterOnly(h, s) ==
  /\ cc' = [cc EXCEPT ![s] = IF @.id = h.cc /\ h.cc # 0 THEN Ended(@) ELSE @]
  /\ pinned' = pinned \ {<<s, h.thread>>}
  /\ UNCHANGED <<thread, stuck>>
EndInnerOnly(h, s) ==
  /\ thread' = [thread EXCEPT ![s] = IF @.id = h.thread THEN Ended(@) ELSE @]
  /\ pinned' = pinned \ {<<s, h.thread>>}
  /\ UNCHANGED <<cc, stuck>>
EndKeepsPin(h, s) ==
  /\ cc' = [cc EXCEPT ![s] = IF @.id = h.cc /\ h.cc # 0 THEN Ended(@) ELSE @]
  /\ thread' = [thread EXCEPT ![s] = IF @.id = h.thread THEN Ended(@) ELSE @]
  /\ UNCHANGED <<pinned, stuck>>

\* The objects a stop held end, whoever has their addresses by now.  The answer of
\* unpin_message is not looked at.
EndHeld(h, s) ==
  /\ cc' = [cc EXCEPT ![s] = IF @.id = h.cc /\ h.cc # 0 THEN Ended(@) ELSE @]
  /\ thread' = [thread EXCEPT ![s] = IF @.id = h.thread THEN Ended(@) ELSE @]
  /\ \/ /\ pinned' = pinned \ {<<s, h.thread>>}
        /\ UNCHANGED stuck
     \/ /\ <<s, h.thread>> \in pinned
        /\ stuck' = stuck \cup {h.thread}
        /\ UNCHANGED pinned

\* stop(cc) is over; stop(thread_addr) takes the actor that has the address NOW.
StopThread(c) ==
  LET k == cmd[c] IN
  /\ k.pc = "stopCC"
  /\ EndHeld(k.held, k.name)
  /\ LET th == thread'[k.name] IN
     IF Live(th)
     THEN Goto(c, [k EXCEPT !.pc = "stopThread", !.held = [cc |-> 0, thread |-> th.id]])
     ELSE Goto(c, Idle(k.answer))
  /\ UNCHANGED <<tmux, boot, born, late, raised>>

StopDone(c) ==
  LET k == cmd[c] IN
  /\ k.pc = "stopThread"
  /\ EndHeld(k.held, k.name)
  /\ Goto(c, Idle(k.answer))
  /\ late' = late \cup {k.held.thread}
  /\ UNCHANGED <<tmux, boot, born, raised>>

-----------------------------------------------------------------------------
(* /spawn                                                                  *)

\* Who can type or send a command: a caller's actor has to be there.
CanCall(f) ==
  \/ f = Main
  \/ \E s \in Session : f = <<"thread", s>> /\ Live(thread[s])
  \/ \E s \in Session : f = <<"cc", s>> /\ cc[s].state = "active"

\* What counts against the limit: in the main chat the user's cc actors, else
\* the caller's children, thread actors and cc actors alike.
Children(f) ==
  IF f = Main
  THEN Cardinality({s \in Session : Live(cc[s])})
  ELSE Cardinality({s \in Session : Live(cc[s]) /\ cc[s].parent = f})
         + Cardinality({s \in Session : Live(thread[s]) /\ thread[s].parent = f})

\* Mutant of SpawnBegin: one child too many passes.
SpawnAtLimit(c, s, f) ==
  /\ cmd[c].pc = "idle" /\ born < MaxBorn /\ CanCall(f)
  /\ Children(f) <= MaxChildren
  /\ ~Live(cc[s])
  /\ born' = born + 1
  /\ Goto(c, Task("anchor", s, f, born + 1, NoneHeld, "none"))
  /\ UNCHANGED <<cc, thread, tmux, boot, pinned, late, raised, stuck>>

\* The checks, up to the await of create_thread_anchor.
SpawnBegin(c, s, f) ==
  /\ cmd[c].pc = "idle" /\ born < MaxBorn /\ CanCall(f)
  /\ Children(f) < MaxChildren
  /\ ~Live(cc[s])
  /\ born' = born + 1
  /\ Goto(c, Task("anchor", s, f, born + 1, NoneHeld, "none"))
  /\ UNCHANGED <<cc, thread, tmux, boot, pinned, late, raised, stuck>>

SpawnRefused(c, f) ==
  /\ cmd[c].pc = "idle" /\ CanCall(f)
  /\ Children(f) >= MaxChildren
  /\ Goto(c, [Idle("limit") EXCEPT !.caller = f])
  /\ UNCHANGED <<cc, thread, tmux, boot, pinned, born, late, raised, stuck>>

\* The segment after the last await of Feishu: register the thread actor if there
\* is an anchor, then the cc actor, each unless a live actor has its address
\* (ValueError: the command is over), then start tmux; if that fails, stop both.
Enroll(c, anchored) ==
  LET k == cmd[c]
      s == k.name
      new == [id |-> k.num, state |-> "suspended", parent |-> k.caller, wired |-> anchored]
      newThread == [id |-> k.num, state |-> "active", parent |-> k.caller, wired |-> TRUE]
  IN
  \/ /\ anchored /\ Live(thread[s])
     /\ raised' = raised \cup {k.num}
     /\ Goto(c, Idle("error"))
     /\ UNCHANGED <<cc, thread, tmux>>
  \/ /\ ~(anchored /\ Live(thread[s]))
     /\ thread' = IF anchored THEN [thread EXCEPT ![s] = newThread] ELSE thread
     /\ \/ /\ Live(cc[s])
           /\ raised' = raised \cup {k.num}
           /\ Goto(c, Idle("error"))
           /\ UNCHANGED <<cc, tmux>>
        \/ /\ ~Live(cc[s])
           /\ cc' = [cc EXCEPT ![s] = new]
           /\ tmux' = tmux \cup {s}
           /\ Goto(c, Idle("started"))
           /\ UNCHANGED raised
        \/ /\ ~Live(cc[s])
           /\ UNCHANGED <<tmux, raised>>
           /\ IF anchored
              THEN /\ cc' = [cc EXCEPT ![s] = new]
                   /\ Goto(c, Task("stopCC", s, k.caller, k.num,
                                   [cc |-> k.num, thread |-> k.num], "failed"))
              ELSE /\ cc' = [cc EXCEPT ![s] = Ended(new)]
                   /\ Goto(c, Idle("failed"))

\* create_thread_anchor answers: the message of the anchor, or None.
AnchorPosted(c) ==
  /\ cmd[c].pc = "anchor"
  /\ \/ /\ Goto(c, [cmd[c] EXCEPT !.pc = "pin"])
        /\ UNCHANGED <<cc, thread, tmux, raised>>
     \/ Enroll(c, FALSE)
  /\ UNCHANGED <<boot, pinned, born, late, stuck>>

\* pin_message answers; its answer is not looked at.
AnchorPinned(c) ==
  /\ cmd[c].pc = "pin"
  /\ pinned' \in {pinned, pinned \cup {<<cmd[c].name, cmd[c].num>>}}
  /\ Enroll(c, TRUE)
  /\ UNCHANGED <<boot, born, late, stuck>>

-----------------------------------------------------------------------------
(* /kill                                                                   *)

\* An ended session is looked up too.  kill_cc_process fails silently.
Kill(c, s) ==
  /\ cmd[c].pc = "idle"
  /\ cc[s].state # "absent"
  /\ tmux' \in {tmux, tmux \ {s}}
  /\ StopSession(c, cc, s, Main, cc[s].id, "killed")
  /\ UNCHANGED <<thread, boot, pinned, born, late, raised, stuck>>

-----------------------------------------------------------------------------
(* The websocket of a session.                                             *)

\* Somebody starts a client for the session outside tmux (channel.py by hand).
Launch(s) ==
  /\ s \notin tmux
  /\ tmux' = tmux \cup {s}
  /\ UNCHANGED <<cc, thread, boot, pinned, born, cmd, late, raised, stuck>>

\* register: resume the cc actor, or spawn one that has no thread.
Register(s) ==
  /\ s \in tmux
  /\ \/ /\ Live(cc[s])
        /\ cc' = [cc EXCEPT ![s].state = "active"]
        /\ UNCHANGED <<boot, born>>
     \/ /\ ~Live(cc[s])
        /\ born < MaxBorn
        /\ born' = born + 1
        /\ cc' = [cc EXCEPT ![s] = [id |-> born + 1, state |-> "active",
                                    parent |-> Nobody, wired |-> FALSE]]
        /\ boot' = boot \cup {s}
  /\ UNCHANGED <<thread, tmux, pinned, cmd, late, raised, stuck>>

\* The on_spawn task of an actor spawned with a websocket starts tmux again.
OnSpawn(s) ==
  /\ s \in boot
  /\ boot' = boot \ {s}
  /\ tmux' \in {tmux, tmux \cup {s}}
  /\ UNCHANGED <<cc, thread, pinned, born, cmd, late, raised, stuck>>

Disconnect(s) ==
  /\ cc[s].state = "active"
  /\ cc' = [cc EXCEPT ![s].state = "suspended"]
  /\ UNCHANGED <<thread, tmux, boot, pinned, born, cmd, late, raised, stuck>>

Command ==
  \E c \in Cmd :
    \/ \E s \in Session : (\E f \in Caller : SpawnBegin(c, s, f)) \/ Kill(c, s)
    \/ \E f \in Caller : SpawnRefused(c, f)
    \/ AnchorPosted(c) \/ AnchorPinned(c) \/ StopThread(c) \/ StopDone(c)

Client == \E s \in Session : Launch(s) \/ Register(s) \/ OnSpawn(s) \/ Disconnect(s)

Next == Command \/ Client

Spec == Init /\ [][Next]_vars

-----------------------------------------------------------------------------
(* Properties: for every overlap of commands and every registration.      *)

ActorRecord == [id : 0..MaxBorn, state : {"absent", "suspended", "active", "ended"},
                parent : Caller \cup {Nobody}, wired : BOOLEAN]

\* Every variable keeps the shape the commands give it (spawn.py:30-102).
TypeOK ==
  /\ cc \in [Session -> ActorRecord] /\ thread \in [Session -> ActorRecord]
  /\ tmux \subseteq Session /\ boot \subseteq Session
  /\ pinned \subseteq Session \X (1..MaxBorn) /\ born \in 0..MaxBorn
  /\ cmd \in [Cmd -> [pc : {"idle", "anchor", "pin", "stopCC", "stopThread"},
                      name : Session \cup {Nobody}, caller : Caller \cup {Nobody},
                      num : 0..MaxBorn, held : [cc : 0..MaxBorn, thread : 0..MaxBorn],
                      answer : {"none", "limit", "error", "started", "failed", "killed"}]]
  /\ late \subseteq 0..MaxBorn /\ raised \subseteq 0..MaxBorn /\ stuck \subseteq 0..MaxBorn

\* A session and its thread: live actors of one spawn.
Paired(s) ==
  /\ Live(cc[s]) /\ cc[s].wired
  /\ Live(thread[s]) /\ thread[s].id = cc[s].id

\* "Stop child actors (feishu_thread) when CC session ends" (cc.py:89), and not
\* before, or the session's replies go nowhere: a live session spawned with a
\* thread has the thread of that very spawn, unless the second stop of a kill or
\* of a rollback (kill.py:39, spawn.py:99) took it, awaiting Feishu too long to
\* know whose it was.
SessionKeepsThread ==
  \A s \in Session : Live(cc[s]) /\ cc[s].wired => Paired(s) \/ cc[s].id \in late

\* A live thread actor has the session of its own spawn, which answers in the
\* thread: else its users talk to a session that answers elsewhere, or to nobody,
\* and no /spawn of the name can get a thread again.  The exception is the spawn
\* that raised because a session of the name had come up while it awaited Feishu
\* (spawn.py:79): the thread it had registered is left behind.
ThreadHasSession ==
  \A s \in Session : Live(thread[s]) => Paired(s) \/ thread[s].id \in raised

\* An anchor pinned in the chat is that of a live thread; killed sessions and failed
\* spawns leave no pin, except where the spawn raised, or Feishu refused the unpin
\* and nobody looked (feishu/adapter.py:832-847).
PinsAreLive ==
  \A s \in Session, n \in 1..MaxBorn : <<s, n>> \in pinned =>
    (Live(thread[s]) /\ thread[s].id = n) \/ n \in raised \cup stuck

\* The actors of a number are gone.
Gone(s, n) ==
  /\ ~(Live(cc[s]) /\ cc[s].id = n)
  /\ ~(Live(thread[s]) /\ thread[s].id = n)

\* A spawn whose tmux failed has rolled back both actors when it answers, whatever
\* other commands did meanwhile (spawn.py:94-100).
FailedSpawnLeavesNothing ==
  [][\A c \in Cmd, s \in Session, n \in 1..MaxBorn :
       (/\ cmd[c].pc # "idle" /\ cmd[c].name = s /\ cmd[c].num = n
        /\ cmd'[c].pc = "idle" /\ cmd'[c].answer = "failed")
         => Gone(s, n)']_vars

\* When a kill answers (kill.py:41), the session it found and the thread of that
\* session are not alive, whatever was spawned, killed or registered meanwhile.
KillEndsSession ==
  [][\A c \in Cmd, s \in Session, n \in 1..MaxBorn :
       (/\ cmd[c].pc # "idle" /\ cmd[c].name = s /\ cmd[c].num = n
        /\ cmd'[c].pc = "idle" /\ cmd'[c].answer = "killed")
         => Gone(s, n)']_vars

\* A command that has passed the limit and has not yet registered its session.
Spawning(t) == t.pc \in {"anchor", "pin"}
Spawned  == {s \in Session : Live(cc[s]) /\ cc[s].parent = Main}
Spawners == {c \in Cmd : Spawning(cmd[c]) /\ cmd[c].caller = Main}

\* "Enforce child limit" (spawn.py:35) is a check before the awaits of a spawn, so
\* commands that run at a time all pass it, but never more than they are: of the
\* main chat's sessions at most MaxChildren are alive or on their way, and one for
\* each other command that may be running.
LimitOvershoot ==
  Cardinality(Spawned) + Cardinality(Spawners) <= MaxChildren + Cardinality(Cmd) - 1
=============================================================================
