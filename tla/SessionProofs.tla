----------------------------- MODULE SessionProofs -----------------------------
(***************************************************************************)
(* Proofs about SessionCommands, for any sessions, commands and limit.     *)
(***************************************************************************)
EXTENDS SessionCommands, FiniteSetTheorems, TLAPS

-----------------------------------------------------------------------------
(* The invariants.                                                         *)

\* A command under way is about a session, and a spawn has a number and a caller.
ShapeOK ==
  \A c \in Cmd :
    /\ cmd[c].pc = "idle" <=> cmd[c].name = Nobody
    /\ Spawning(cmd[c]) => /\ cmd[c].caller \in Caller
                           /\ cmd[c].num # 0 /\ cmd[c].answer = "none"

USE CommandsAssumption

TaskType ==
  [pc : {"idle", "anchor", "pin", "stopCC", "stopThread"},
   name : Session \cup {Nobody}, caller : Caller \cup {Nobody},
   num : 0..MaxBorn, held : [cc : 0..MaxBorn, thread : 0..MaxBorn],
   answer : {"none", "limit", "error", "started", "failed", "killed"}]

LEMMA ActorFacts ==
  /\ NoActor \in ActorRecord /\ ~Live(NoActor) /\ NoActor.id = 0
  /\ \A x \in ActorRecord :
       /\ Ended(x) \in ActorRecord /\ ~Live(Ended(x))
       /\ Ended(x).id = x.id /\ Ended(x).parent = x.parent /\ Ended(x).wired = x.wired
       /\ [x EXCEPT !.state = "active"] \in ActorRecord
       /\ [x EXCEPT !.state = "suspended"] \in ActorRecord
<1>1. NoActor \in ActorRecord /\ ~Live(NoActor) /\ NoActor.id = 0
  BY DEF NoActor, ActorRecord, Live
<1>2. \A x \in ActorRecord :
        /\ Ended(x) \in ActorRecord /\ ~Live(Ended(x))
        /\ Ended(x).id = x.id /\ Ended(x).parent = x.parent /\ Ended(x).wired = x.wired
  BY DEF Ended, ActorRecord, Live
<1>3. \A x \in ActorRecord :
        /\ [x EXCEPT !.state = "active"] \in ActorRecord
        /\ [x EXCEPT !.state = "suspended"] \in ActorRecord
  BY DEF ActorRecord
<1> QED
  BY <1>1, <1>2, <1>3

LEMMA TaskFacts ==
  /\ \A a \in {"none", "limit", "error", "started", "failed", "killed"} :
       Idle(a) \in TaskType /\ Idle(a).pc = "idle" /\ Idle(a).answer = a
         /\ Idle(a).name = Nobody /\ Idle(a).num = 0
  /\ NoneHeld \in [cc : 0..MaxBorn, thread : 0..MaxBorn]
  /\ \A pc \in {"idle", "anchor", "pin", "stopCC", "stopThread"},
        s \in Session \cup {Nobody}, f \in Caller \cup {Nobody}, n \in 0..MaxBorn,
        h \in [cc : 0..MaxBorn, thread : 0..MaxBorn],
        a \in {"none", "limit", "error", "started", "failed", "killed"} :
          Task(pc, s, f, n, h, a) \in TaskType
  /\ Main \in Caller
<1>1. 0 \in 0..MaxBorn
  OBVIOUS
<1> QED
  BY <1>1 DEF Idle, Task, TaskType, NoneHeld, Caller

LEMMA Types ==
  ASSUME TypeOK
  PROVE  /\ cc \in [Session -> ActorRecord] /\ thread \in [Session -> ActorRecord]
         /\ cmd \in [Cmd -> TaskType]
         /\ born \in 0..MaxBorn
BY DEF TypeOK, TaskType

\* What StopSession does: the cc actor of s may end, and the command stops the pair,
\* stops the thread, or is over.
StopEffect(c, now, s, f, n, answer) ==
  /\ cc' \in [Session -> ActorRecord] /\ cmd' \in [Cmd -> TaskType]
  /\ \A x \in Session \ {s} : cc'[x] = now[x]
  /\ \A d \in Cmd \ {c} : cmd'[d] = cmd[d]
  /\ \/ /\ cc' = now
        /\ Live(now[s]) /\ now[s].wired /\ Live(thread[s])
        /\ cmd'[c] = Task("stopCC", s, f, n,
                          [cc |-> now[s].id, thread |-> thread[s].id], answer)
     \/ /\ cc'[s] = IF Live(now[s]) THEN Ended(now[s]) ELSE now[s]
        /\ ~(Live(now[s]) /\ now[s].wired /\ Live(thread[s]))
        /\ \/ /\ now[s].wired /\ Live(thread[s])
              /\ cmd'[c] = Task("stopThread", s, f, n,
                                [cc |-> 0, thread |-> thread[s].id], answer)
           \/ ~(now[s].wired /\ Live(thread[s])) /\ cmd'[c] = Idle(answer)

LEMMA StopFacts ==
  ASSUME TypeOK, NEW c \in Cmd, NEW now \in [Session -> ActorRecord], NEW s \in Session,
         NEW f \in Caller, NEW n \in 0..MaxBorn,
         NEW answer \in {"failed", "killed"}, StopSession(c, now, s, f, n, answer)
  PROVE  StopEffect(c, now, s, f, n, answer)
<1>1. /\ cmd \in [Cmd -> TaskType] /\ thread[s].id \in 0..MaxBorn /\ now[s].id \in 0..MaxBorn
      /\ now[s] \in ActorRecord
  BY Types DEF ActorRecord
<1>2. /\ [cc |-> now[s].id, thread |-> thread[s].id] \in [cc : 0..MaxBorn, thread : 0..MaxBorn]
      /\ [cc |-> 0, thread |-> thread[s].id] \in [cc : 0..MaxBorn, thread : 0..MaxBorn]
  BY <1>1
<1>3. /\ Task("stopCC", s, f, n, [cc |-> now[s].id, thread |-> thread[s].id], answer) \in TaskType
      /\ Task("stopThread", s, f, n, [cc |-> 0, thread |-> thread[s].id], answer) \in TaskType
      /\ Idle(answer) \in TaskType
  BY <1>2, TaskFacts
<1>4. CASE Live(now[s]) /\ now[s].wired /\ Live(thread[s])
  <2>1. /\ cmd' = [cmd EXCEPT ![c] = Task("stopCC", s, f, n,
                                 [cc |-> now[s].id, thread |-> thread[s].id], answer)]
        /\ cc' = now
    BY <1>4 DEF StopSession, Goto
  <2> QED
    BY <1>1, <1>3, <1>4, <2>1 DEF StopEffect
<1>5. CASE ~(Live(now[s]) /\ now[s].wired /\ Live(thread[s]))
  <2>1. /\ cc' = [now EXCEPT ![s] = IF Live(@) THEN Ended(@) ELSE @]
        /\ IF now[s].wired /\ Live(thread[s])
           THEN cmd' = [cmd EXCEPT ![c] = Task("stopThread", s, f, n,
                                               [cc |-> 0, thread |-> thread[s].id], answer)]
           ELSE cmd' = [cmd EXCEPT ![c] = Idle(answer)]
    BY <1>5 DEF StopSession, Goto
  <2>2. Ended(now[s]) \in ActorRecord
    BY <1>1, ActorFacts
  <2>3. cc' \in [Session -> ActorRecord] /\ \A x \in Session \ {s} : cc'[x] = now[x]
    BY <1>1, <2>1, <2>2
  <2>4. cc'[s] = IF Live(now[s]) THEN Ended(now[s]) ELSE now[s]
    BY <2>1
  <2>5. CASE now[s].wired /\ Live(thread[s])
    BY <1>1, <1>3, <1>5, <2>1, <2>3, <2>4, <2>5 DEF StopEffect
  <2>6. CASE ~(now[s].wired /\ Live(thread[s]))
    BY <1>1, <1>3, <1>5, <2>1, <2>3, <2>4, <2>6 DEF StopEffect
  <2> QED
    BY <2>5, <2>6
<1> QED
  BY <1>4, <1>5

\* What EndHeld does: the two actors held end, if they are still there, and the
\* anchor is unpinned or stuck.
EndEffect(h, s) ==
  /\ cc' \in [Session -> ActorRecord] /\ thread' \in [Session -> ActorRecord]
  /\ \A x \in Session \ {s} : cc'[x] = cc[x] /\ thread'[x] = thread[x]
  /\ cc'[s] = IF cc[s].id = h.cc /\ h.cc # 0 THEN Ended(cc[s]) ELSE cc[s]
  /\ thread'[s] = IF thread[s].id = h.thread THEN Ended(thread[s]) ELSE thread[s]
  /\ pinned' \subseteq pinned /\ stuck' \subseteq stuck \cup {h.thread}
  /\ stuck \subseteq stuck'
  /\ <<s, h.thread>> \in pinned' => h.thread \in stuck'

LEMMA EndFacts ==
  ASSUME TypeOK, NEW s \in Session, NEW h, EndHeld(h, s)
  PROVE  EndEffect(h, s)
<1>1. Ended(cc[s]) \in ActorRecord /\ Ended(thread[s]) \in ActorRecord
  BY Types, ActorFacts
<1>2. /\ cc' = [cc EXCEPT ![s] = IF @.id = h.cc /\ h.cc # 0 THEN Ended(@) ELSE @]
      /\ thread' = [thread EXCEPT ![s] = IF @.id = h.thread THEN Ended(@) ELSE @]
      /\ \/ pinned' = pinned \ {<<s, h.thread>>} /\ stuck' = stuck
         \/ stuck' = stuck \cup {h.thread} /\ pinned' = pinned
  BY DEF EndHeld
<1> QED
  BY <1>1, <1>2, Types DEF EndEffect

\* What Enroll does.
New(k, anchored) ==
  [id |-> k.num, state |-> "suspended", parent |-> k.caller, wired |-> anchored]
NewThread(k) == [id |-> k.num, state |-> "active", parent |-> k.caller, wired |-> TRUE]

EnrollEffect(c, s, anchored) ==
  /\ cc' \in [Session -> ActorRecord] /\ thread' \in [Session -> ActorRecord]
  /\ cmd' \in [Cmd -> TaskType] /\ tmux' \in {tmux, tmux \cup {s}}
  /\ \A x \in Session \ {s} : cc'[x] = cc[x] /\ thread'[x] = thread[x]
  /\ \A d \in Cmd \ {c} : cmd'[d] = cmd[d]
  /\ New(cmd[c], anchored) \in ActorRecord /\ Live(New(cmd[c], anchored))
  /\ NewThread(cmd[c]) \in ActorRecord /\ Live(NewThread(cmd[c]))
  /\ \/ /\ anchored /\ Live(thread[s])
        /\ cmd'[c] = Idle("error") /\ UNCHANGED <<cc, thread, tmux>>
        /\ raised' = raised \cup {cmd[c].num}
     \/ /\ ~(anchored /\ Live(thread[s]))
        /\ thread'[s] = IF anchored THEN NewThread(cmd[c]) ELSE thread[s]
        /\ \/ /\ Live(cc[s]) /\ cmd'[c] = Idle("error") /\ UNCHANGED <<cc, tmux>>
              /\ raised' = raised \cup {cmd[c].num}
           \/ /\ ~Live(cc[s]) /\ cc'[s] = New(cmd[c], anchored)
              /\ cmd'[c] = Idle("started") /\ UNCHANGED raised
           \/ /\ ~Live(cc[s]) /\ UNCHANGED <<tmux, raised>>
              /\ anchored /\ cc'[s] = New(cmd[c], anchored)
              /\ cmd'[c] = Task("stopCC", s, cmd[c].caller, cmd[c].num,
                                [cc |-> cmd[c].num, thread |-> cmd[c].num], "failed")
           \/ /\ ~Live(cc[s]) /\ UNCHANGED <<tmux, raised>>
              /\ ~anchored /\ cc'[s] = Ended(New(cmd[c], anchored))
              /\ cmd'[c] = Idle("failed")

LEMMA EnrollFacts ==
  ASSUME TypeOK, ShapeOK, NEW c \in Cmd, NEW anchored \in BOOLEAN, Spawning(cmd[c]),
         NEW s \in Session, s = cmd[c].name, Enroll(c, anchored)
  PROVE  EnrollEffect(c, s, anchored)
<1> DEFINE k == cmd[c]
<1>1. /\ k \in TaskType /\ k.caller \in Caller /\ k.num \in 0..MaxBorn
  BY Types DEF ShapeOK, TaskType
<1>2. /\ New(k, anchored) \in ActorRecord /\ Live(New(k, anchored))
      /\ NewThread(k) \in ActorRecord /\ Live(NewThread(k))
  BY <1>1 DEF New, NewThread, ActorRecord, Live
<1>3. Ended(New(k, anchored)) \in ActorRecord
  BY <1>2, ActorFacts
<1>4. /\ Task("stopCC", s, k.caller, k.num, [cc |-> k.num, thread |-> k.num], "failed") \in TaskType
      /\ Idle("error") \in TaskType /\ Idle("started") \in TaskType /\ Idle("failed") \in TaskType
  <2>1. [cc |-> k.num, thread |-> k.num] \in [cc : 0..MaxBorn, thread : 0..MaxBorn]
    BY <1>1
  <2> QED
    BY <1>1, <2>1, TaskFacts
<1>5. \/ /\ anchored /\ Live(thread[s])
         /\ cmd' = [cmd EXCEPT ![c] = Idle("error")] /\ UNCHANGED <<cc, thread, tmux>>
         /\ raised' = raised \cup {k.num}
      \/ /\ ~(anchored /\ Live(thread[s]))
         /\ thread' = IF anchored THEN [thread EXCEPT ![s] = NewThread(k)] ELSE thread
         /\ \/ /\ Live(cc[s]) /\ cmd' = [cmd EXCEPT ![c] = Idle("error")]
               /\ UNCHANGED <<cc, tmux>> /\ raised' = raised \cup {k.num}
            \/ /\ ~Live(cc[s]) /\ cc' = [cc EXCEPT ![s] = New(k, anchored)]
               /\ tmux' = tmux \cup {s}
               /\ cmd' = [cmd EXCEPT ![c] = Idle("started")] /\ UNCHANGED raised
            \/ /\ ~Live(cc[s]) /\ UNCHANGED <<tmux, raised>>
               /\ anchored /\ cc' = [cc EXCEPT ![s] = New(k, anchored)]
               /\ cmd' = [cmd EXCEPT ![c] = Task("stopCC", s, k.caller, k.num,
                                 [cc |-> k.num, thread |-> k.num], "failed")]
            \/ /\ ~Live(cc[s]) /\ UNCHANGED <<tmux, raised>>
               /\ ~anchored /\ cc' = [cc EXCEPT ![s] = Ended(New(k, anchored))]
               /\ cmd' = [cmd EXCEPT ![c] = Idle("failed")]
  BY Zenon DEF Enroll, New, NewThread, Goto
<1> HIDE DEF k
<1>6. cc \in [Session -> ActorRecord] /\ thread \in [Session -> ActorRecord] /\ cmd \in [Cmd -> TaskType]
  BY Types
<1>7. /\ thread' \in [Session -> ActorRecord]
      /\ \A x \in Session \ {s} : thread'[x] = thread[x]
      /\ ~(anchored /\ Live(thread[s])) => thread'[s] = IF anchored THEN NewThread(k) ELSE thread[s]
  BY <1>2, <1>5, <1>6
<1>8. /\ cc' \in [Session -> ActorRecord]
      /\ \A x \in Session \ {s} : cc'[x] = cc[x]
  BY <1>2, <1>3, <1>5, <1>6
<1>9. /\ cmd' \in [Cmd -> TaskType]
      /\ \A d \in Cmd \ {c} : cmd'[d] = cmd[d]
  BY <1>4, <1>5, <1>6
<1> USE DEF k
<1>10. tmux' \in {tmux, tmux \cup {s}}
  BY <1>5
<1>11. \/ /\ anchored /\ Live(thread[s])
          /\ cmd'[c] = Idle("error") /\ UNCHANGED <<cc, thread, tmux>>
          /\ raised' = raised \cup {k.num}
       \/ /\ ~(anchored /\ Live(thread[s]))
          /\ \/ /\ Live(cc[s]) /\ cmd'[c] = Idle("error") /\ UNCHANGED <<cc, tmux>>
                /\ raised' = raised \cup {k.num}
             \/ /\ ~Live(cc[s]) /\ cc'[s] = New(k, anchored)
                /\ cmd'[c] = Idle("started") /\ UNCHANGED raised
             \/ /\ ~Live(cc[s]) /\ UNCHANGED <<tmux, raised>>
                /\ anchored /\ cc'[s] = New(k, anchored)
                /\ cmd'[c] = Task("stopCC", s, k.caller, k.num,
                                  [cc |-> k.num, thread |-> k.num], "failed")
             \/ /\ ~Live(cc[s]) /\ UNCHANGED <<tmux, raised>>
                /\ ~anchored /\ cc'[s] = Ended(New(k, anchored))
                /\ cmd'[c] = Idle("failed")
  BY <1>5, <1>6
<1> QED
  BY <1>2, <1>7, <1>8, <1>9, <1>10, <1>11 DEF EnrollEffect

-----------------------------------------------------------------------------
(* Types.                                                                  *)

LEMMA TypeStep ==
  ASSUME TypeOK, ShapeOK, [Next]_vars
  PROVE  TypeOK' /\ ShapeOK'
<1>t. /\ cc \in [Session -> ActorRecord] /\ thread \in [Session -> ActorRecord]
      /\ cmd \in [Cmd -> TaskType] /\ born \in 0..MaxBorn
      /\ tmux \subseteq Session /\ boot \subseteq Session /\ MaxBorn \in Nat
      /\ pinned \subseteq Session \X (1..MaxBorn)
      /\ late \subseteq 0..MaxBorn /\ raised \subseteq 0..MaxBorn /\ stuck \subseteq 0..MaxBorn
  BY Types DEF TypeOK
\* Enough to keep TypeOK: what a step changes has its type.
<1>k. ASSUME cc' \in [Session -> ActorRecord], thread' \in [Session -> ActorRecord],
             cmd' \in [Cmd -> TaskType], born' \in 0..MaxBorn, tmux' \subseteq Session,
             boot' \subseteq Session, pinned' \subseteq Session \X (1..MaxBorn),
             late' \subseteq 0..MaxBorn, raised' \subseteq 0..MaxBorn,
             stuck' \subseteq 0..MaxBorn
      PROVE  TypeOK'
  BY <1>k DEF TypeOK, TaskType
<1>i. \A a \in {"none", "limit", "error", "started", "failed", "killed"} :
        /\ Idle(a).pc = "idle" /\ Idle(a).name = Nobody
        /\ Idle(a) \in TaskType
  BY TaskFacts
\* Enough to keep ShapeOK: the command that takes a step has its shape.
<1>s. ASSUME NEW c \in Cmd, \A d \in Cmd \ {c} : cmd'[d] = cmd[d],
             cmd'[c].pc = "idle" <=> cmd'[c].name = Nobody,
             Spawning(cmd'[c]) => /\ cmd'[c].caller \in Caller
                                  /\ cmd'[c].num # 0 /\ cmd'[c].answer = "none"
      PROVE  ShapeOK'
  BY <1>s DEF ShapeOK
<1>u. ASSUME UNCHANGED cmd PROVE ShapeOK'
  BY <1>u DEF ShapeOK
<1>1. ASSUME NEW c \in Cmd, NEW s \in Session, NEW f \in Caller, SpawnBegin(c, s, f)
      PROVE  TypeOK' /\ ShapeOK'
  <2> DEFINE t == Task("anchor", s, f, born + 1, NoneHeld, "none")
  <2>1. /\ cmd' = [cmd EXCEPT ![c] = t] /\ born' = born + 1 /\ born < MaxBorn
        /\ UNCHANGED <<cc, thread, tmux, boot, pinned, late, raised, stuck>>
    BY <1>1 DEF SpawnBegin, Goto
  <2>2. born' \in 0..MaxBorn /\ born' # 0
    BY <1>t, <2>1
  <2>3. t \in TaskType
    BY <2>1, <2>2, TaskFacts
  <2>4. t.pc = "anchor" /\ t.name # Nobody /\ t.caller \in Caller /\ t.num # 0 /\ t.answer = "none"
    BY <2>1, <2>2 DEF Task
  <2> HIDE DEF t
  <2>5. cmd' \in [Cmd -> TaskType] /\ cmd'[c] = t /\ \A d \in Cmd \ {c} : cmd'[d] = cmd[d]
    BY <1>t, <2>1, <2>3
  <2> QED
    BY <1>t, <1>k, <1>s, <2>1, <2>2, <2>4, <2>5
<1>2. ASSUME NEW c \in Cmd, NEW f \in Caller, SpawnRefused(c, f)
      PROVE  TypeOK' /\ ShapeOK'
  <2> DEFINE t == [Idle("limit") EXCEPT !.caller = f]
  <2>1. /\ cmd' = [cmd EXCEPT ![c] = t]
        /\ UNCHANGED <<cc, thread, tmux, boot, pinned, born, late, raised, stuck>>
    BY <1>2 DEF SpawnRefused, Goto
  <2>2. t \in TaskType /\ t.pc = "idle" /\ t.name = Nobody
    BY TaskFacts DEF Idle, Task, TaskType
  <2> HIDE DEF t
  <2>3. cmd' \in [Cmd -> TaskType] /\ cmd'[c] = t /\ \A d \in Cmd \ {c} : cmd'[d] = cmd[d]
    BY <1>t, <2>1, <2>2
  <2> QED
    BY <1>t, <1>k, <1>s, <2>1, <2>2, <2>3 DEF Spawning
<1>e. ASSUME NEW c \in Cmd, NEW a \in BOOLEAN, Spawning(cmd[c]), Enroll(c, a),
             boot' = boot, born' = born, pinned' \subseteq Session \X (1..MaxBorn),
             late' = late, stuck' = stuck
      PROVE  TypeOK' /\ ShapeOK'
  <2> DEFINE s == cmd[c].name
  <2>1. s \in Session
    BY <1>e, <1>t DEF ShapeOK, Spawning, TaskType
  <2>0. EnrollEffect(c, s, a)
    BY <1>e, <2>1, EnrollFacts
  <2>2. /\ cc' \in [Session -> ActorRecord] /\ thread' \in [Session -> ActorRecord]
        /\ cmd' \in [Cmd -> TaskType] /\ tmux' \in {tmux, tmux \cup {s}}
        /\ \A d \in Cmd \ {c} : cmd'[d] = cmd[d]
        /\ \/ cmd'[c] = Idle("error") \/ cmd'[c] = Idle("started") \/ cmd'[c] = Idle("failed")
           \/ cmd'[c] = Task("stopCC", s, cmd[c].caller, cmd[c].num,
                             [cc |-> cmd[c].num, thread |-> cmd[c].num], "failed")
    BY <2>0, Zenon DEF EnrollEffect
  <2>3. ~Spawning(cmd'[c]) /\ (cmd'[c].pc = "idle" <=> cmd'[c].name = Nobody)
    <3>1. CASE cmd'[c] = Task("stopCC", s, cmd[c].caller, cmd[c].num,
                             [cc |-> cmd[c].num, thread |-> cmd[c].num], "failed")
      BY <2>1, <3>1 DEF Task, Spawning
    <3>2. CASE \E b \in {"error", "started", "failed"} : cmd'[c] = Idle(b)
      BY <1>i, <3>2 DEF Spawning
    <3> QED
      BY <2>2, <3>1, <3>2
  <2>4. raised' \subseteq 0..MaxBorn
    <3>1. raised' = raised \/ raised' = raised \cup {cmd[c].num}
      BY <2>0, Zenon DEF EnrollEffect
    <3>2. cmd[c].num \in 0..MaxBorn
      BY <1>t DEF TaskType
    <3> QED
      BY <1>t, <3>1, <3>2
  <2> QED
    BY <1>e, <1>t, <1>k, <1>s, <2>1, <2>2, <2>3, <2>4
<1>3. ASSUME NEW c \in Cmd, AnchorPosted(c) PROVE TypeOK' /\ ShapeOK'
  <2>1. CASE /\ cmd' = [cmd EXCEPT ![c] = [cmd[c] EXCEPT !.pc = "pin"]]
             /\ UNCHANGED <<cc, thread, tmux, raised>>
    <3> DEFINE t == [cmd[c] EXCEPT !.pc = "pin"]
    <3>1. /\ t \in TaskType /\ t.pc = "pin" /\ t.name = cmd[c].name
          /\ t.caller = cmd[c].caller /\ t.num = cmd[c].num /\ t.answer = cmd[c].answer
      BY <1>t DEF TaskType
    <3>2. cmd[c].pc = "anchor" /\ UNCHANGED <<boot, pinned, born, late, stuck>>
      BY <1>3 DEF AnchorPosted
    <3> HIDE DEF t
    <3>3. cmd' \in [Cmd -> TaskType] /\ cmd'[c] = t /\ \A d \in Cmd \ {c} : cmd'[d] = cmd[d]
      BY <1>t, <2>1, <3>1 DEF t
    <3>4. /\ cmd[c].name # Nobody /\ cmd[c].caller \in Caller
          /\ cmd[c].num # 0 /\ cmd[c].answer = "none"
      BY <3>2 DEF ShapeOK, Spawning
    <3> QED
      BY <1>t, <1>k, <1>s, <2>1, <3>1, <3>2, <3>3, <3>4
  <2>2. CASE Enroll(c, FALSE)
    BY <1>3, <1>e, <1>t, <2>2 DEF AnchorPosted, Spawning
  <2> QED
    BY <1>3, <2>1, <2>2 DEF AnchorPosted, Goto
<1>4. ASSUME NEW c \in Cmd, AnchorPinned(c) PROVE TypeOK' /\ ShapeOK'
  <2>1. cmd[c].pc = "pin" /\ Spawning(cmd[c])
    BY <1>4 DEF AnchorPinned, Spawning
  <2>2. cmd[c].name \in Session /\ cmd[c].num \in 1..MaxBorn
    BY <1>t, <2>1 DEF ShapeOK, TaskType
  <2>3. pinned' \subseteq Session \X (1..MaxBorn)
    BY <1>4, <1>t, <2>2 DEF AnchorPinned
  <2> QED
    BY <1>4, <1>e, <2>1, <2>3 DEF AnchorPinned
<1>5. ASSUME NEW c \in Cmd, NEW s \in Session, Kill(c, s) PROVE TypeOK' /\ ShapeOK'
  <2>1. /\ StopSession(c, cc, s, Main, cc[s].id, "killed") /\ tmux' \subseteq tmux
        /\ UNCHANGED <<thread, boot, pinned, born, late, raised, stuck>>
    BY <1>5 DEF Kill
  <2>2. cc[s].id \in 0..MaxBorn /\ Main \in Caller
    BY <1>t, TaskFacts DEF ActorRecord
  <2>0. StopEffect(c, cc, s, Main, cc[s].id, "killed")
    BY <1>t, <2>1, <2>2, StopFacts
  <2>3. /\ cc' \in [Session -> ActorRecord] /\ cmd' \in [Cmd -> TaskType]
        /\ \A d \in Cmd \ {c} : cmd'[d] = cmd[d]
        /\ \/ \E h : cmd'[c] = Task("stopCC", s, Main, cc[s].id, h, "killed")
           \/ \E h : cmd'[c] = Task("stopThread", s, Main, cc[s].id, h, "killed")
           \/ cmd'[c] = Idle("killed")
    <3>1. /\ cc' \in [Session -> ActorRecord] /\ cmd' \in [Cmd -> TaskType]
          /\ \A d \in Cmd \ {c} : cmd'[d] = cmd[d]
      BY <2>0, Zenon DEF StopEffect
    <3>2. \/ cmd'[c] = Task("stopCC", s, Main, cc[s].id,
                            [cc |-> cc[s].id, thread |-> thread[s].id], "killed")
          \/ cmd'[c] = Task("stopThread", s, Main, cc[s].id,
                            [cc |-> 0, thread |-> thread[s].id], "killed")
          \/ cmd'[c] = Idle("killed")
      BY <2>0, Zenon DEF StopEffect
    <3> QED
      BY <3>1, <3>2
  <2>4. ~Spawning(cmd'[c]) /\ (cmd'[c].pc = "idle" <=> cmd'[c].name = Nobody)
    BY <1>i, <2>3 DEF Task, Spawning
  <2> QED
    BY <1>t, <1>k, <1>s, <2>1, <2>3, <2>4
<1>6. ASSUME NEW c \in Cmd, StopThread(c) \/ StopDone(c) PROVE TypeOK' /\ ShapeOK'
  <2> DEFINE k == cmd[c]
  <2>1. /\ k.pc \in {"stopCC", "stopThread"} /\ EndHeld(k.held, k.name)
        /\ UNCHANGED <<tmux, boot, born, raised>>
        /\ late' = late \/ late' = late \cup {k.held.thread}
        /\ \/ cmd' = [cmd EXCEPT ![c] = Idle(k.answer)]
           \/ cmd' = [cmd EXCEPT ![c] = [k EXCEPT !.pc = "stopThread",
                                         !.held = [cc |-> 0, thread |-> thread'[k.name].id]]]
    BY <1>6 DEF StopThread, StopDone, Goto
  <2>2. k \in TaskType /\ k.name \in Session
    BY <1>t, <2>1 DEF ShapeOK, TaskType
  <2>3. /\ cc' \in [Session -> ActorRecord] /\ thread' \in [Session -> ActorRecord]
        /\ pinned' \subseteq pinned /\ stuck' \subseteq stuck \cup {k.held.thread}
    BY <2>1, <2>2, EndFacts DEF EndEffect
  <2>10. late' \subseteq 0..MaxBorn /\ stuck' \subseteq 0..MaxBorn
    <3>1. k.held.thread \in 0..MaxBorn
      BY <2>2 DEF TaskType
    <3> QED
      BY <1>t, <2>1, <2>3, <3>1
  <2>4. thread'[k.name].id \in 0..MaxBorn
    BY <2>2, <2>3 DEF ActorRecord
  <2> DEFINE t == [k EXCEPT !.pc = "stopThread", !.held = [cc |-> 0, thread |-> thread'[k.name].id]]
  <2>5. t \in TaskType /\ t.pc = "stopThread" /\ t.name = k.name
    <3>1. [cc |-> 0, thread |-> thread'[k.name].id] \in [cc : 0..MaxBorn, thread : 0..MaxBorn]
      BY <2>4
    <3> QED
      BY <2>2, <3>1 DEF TaskType
  <2>6. Idle(k.answer) \in TaskType /\ Idle(k.answer).pc = "idle" /\ Idle(k.answer).name = Nobody
    <3>1. k.answer \in {"none", "limit", "error", "started", "failed", "killed"}
      BY <2>2 DEF TaskType
    <3> QED
      BY <1>i, <3>1
  <2>7. cmd' = [cmd EXCEPT ![c] = Idle(k.answer)] \/ cmd' = [cmd EXCEPT ![c] = t]
    BY <2>1
  <2> HIDE DEF t
  <2>8. /\ cmd' \in [Cmd -> TaskType] /\ \A d \in Cmd \ {c} : cmd'[d] = cmd[d]
        /\ cmd'[c] = Idle(k.answer) \/ cmd'[c] = t
    BY <1>t, <2>5, <2>6, <2>7
  <2>9. ~Spawning(cmd'[c]) /\ (cmd'[c].pc = "idle" <=> cmd'[c].name = Nobody)
    BY <2>2, <2>5, <2>6, <2>8 DEF Spawning
  <2> QED
    BY <1>t, <1>k, <1>s, <2>1, <2>3, <2>8, <2>9, <2>10
<1>7. ASSUME NEW s \in Session, Register(s) PROVE TypeOK' /\ ShapeOK'
  <2>1. UNCHANGED <<thread, tmux, pinned, cmd, late, raised, stuck>>
    BY <1>7 DEF Register
  <2>2. cc' \in [Session -> ActorRecord] /\ boot' \subseteq Session /\ born' \in 0..MaxBorn
    <3> DEFINE fresh == [id |-> born + 1, state |-> "active", parent |-> Nobody, wired |-> FALSE]
    <3>1. CASE cc' = [cc EXCEPT ![s].state = "active"] /\ UNCHANGED <<boot, born>>
      <4>1. cc' = [cc EXCEPT ![s] = [cc[s] EXCEPT !.state = "active"]]
        BY <3>1
      <4>2. [cc[s] EXCEPT !.state = "active"] \in ActorRecord
        BY <1>t, ActorFacts
      <4>3. cc' \in [Session -> ActorRecord]
        BY <1>t, <4>1, <4>2
      <4> QED
        BY <1>t, <3>1, <4>3
    <3>2. CASE /\ born < MaxBorn /\ born' = born + 1 /\ boot' = boot \cup {s}
               /\ cc' = [cc EXCEPT ![s] = fresh]
      <4>1. fresh \in ActorRecord
        BY <1>t, <3>2 DEF ActorRecord
      <4>2. cc' \in [Session -> ActorRecord]
        BY <1>t, <3>2, <4>1
      <4>3. boot' \subseteq Session
        BY <1>t, <3>2
      <4>4. born' \in 0..MaxBorn
        BY <1>t, <3>2
      <4> QED
        BY <4>2, <4>3, <4>4
    <3> HIDE DEF fresh
    <3>3. \/ cc' = [cc EXCEPT ![s].state = "active"] /\ UNCHANGED <<boot, born>>
          \/ /\ born < MaxBorn /\ born' = born + 1 /\ boot' = boot \cup {s}
             /\ cc' = [cc EXCEPT ![s] = fresh]
      BY <1>7, Zenon DEF Register, fresh
    <3> QED
      BY <3>1, <3>2, <3>3, Zenon
  <2> QED
    BY <1>t, <1>k, <1>u, <2>1, <2>2
<1>8. ASSUME NEW s \in Session, OnSpawn(s) \/ Launch(s) PROVE TypeOK' /\ ShapeOK'
  BY <1>8, <1>t, <1>k, <1>u DEF OnSpawn, Launch
<1>9. ASSUME NEW s \in Session, Disconnect(s) PROVE TypeOK' /\ ShapeOK'
  <2>1. cc' = [cc EXCEPT ![s] = [cc[s] EXCEPT !.state = "suspended"]]
    BY <1>9 DEF Disconnect
  <2>2. cc' \in [Session -> ActorRecord]
    BY <1>t, <2>1, ActorFacts
  <2> QED
    BY <1>9, <1>t, <1>k, <1>u, <2>2 DEF Disconnect
<1>10. CASE UNCHANGED vars
  BY <1>10, <1>t, <1>k, <1>u DEF vars
<1> QED
  BY <1>1, <1>2, <1>3, <1>4, <1>5, <1>6, <1>7, <1>8, <1>9, <1>10 DEF Next, Command, Client

LEMMA InitType == Init => TypeOK /\ ShapeOK
<1> SUFFICES ASSUME Init PROVE TypeOK /\ ShapeOK
  OBVIOUS
<1>1. TypeOK
  BY ActorFacts, TaskFacts DEF Init, TypeOK, TaskType
<1>2. ShapeOK
  BY TaskFacts DEF Init, ShapeOK, Spawning
<1> QED
  BY <1>1, <1>2

-----------------------------------------------------------------------------
(* The limit.                                                              *)

\* Sets that can only shrink keep within the limit.
LEMMA LimitKept ==
  ASSUME TypeOK, LimitOvershoot, Spawned' \subseteq Spawned, Spawners' \subseteq Spawners
  PROVE  LimitOvershoot'
<1>1. IsFiniteSet(Spawned) /\ IsFiniteSet(Spawners)
  BY FS_Subset DEF Spawned, Spawners
<1>2. /\ Cardinality(Spawned') <= Cardinality(Spawned)
      /\ Cardinality(Spawners') <= Cardinality(Spawners)
      /\ IsFiniteSet(Spawned') /\ IsFiniteSet(Spawners')
  BY <1>1, FS_Subset
<1>3. /\ Cardinality(Spawned') \in Nat /\ Cardinality(Spawners') \in Nat
      /\ Cardinality(Spawned) \in Nat /\ Cardinality(Spawners) \in Nat
      /\ Cardinality(Cmd) \in Nat /\ MaxChildren \in Nat
  BY <1>1, <1>2, FS_CardinalityType
<1> QED
  BY <1>2, <1>3 DEF LimitOvershoot

\* A spawn that is not from the main chat, and every other command, leaves the
\* spawns from the main chat as they are.
LEMMA NotMain ==
  ASSUME NEW c \in Cmd, \A d \in Cmd \ {c} : cmd'[d] = cmd[d],
         ~(Spawning(cmd'[c]) /\ cmd'[c].caller = Main)
  PROVE  Spawners' = Spawners \ {c}
BY DEF Spawners

\* Only live sessions of the main chat count.
LEMMA OneSession ==
  ASSUME NEW s \in Session, \A x \in Session \ {s} : cc'[x] = cc[x]
  PROVE  /\ Spawned' \subseteq Spawned \cup {s}
         /\ (Live(cc'[s]) /\ cc'[s].parent = Main => Live(cc[s]) /\ cc[s].parent = Main)
              => Spawned' \subseteq Spawned
BY DEF Spawned

LEMMA LimitStep ==
  ASSUME TypeOK, ShapeOK, LimitOvershoot, [Next]_vars
  PROVE  LimitOvershoot'
<1>t. /\ cc \in [Session -> ActorRecord] /\ thread \in [Session -> ActorRecord]
      /\ cmd \in [Cmd -> TaskType] /\ born \in 0..MaxBorn
  BY Types
<1>f. /\ IsFiniteSet(Spawned) /\ IsFiniteSet(Spawners)
      /\ IsFiniteSet(Spawned') /\ IsFiniteSet(Spawners')
  <2>1. /\ Spawned \subseteq Session /\ Spawners \subseteq Cmd
        /\ Spawned' \subseteq Session /\ Spawners' \subseteq Cmd
    BY DEF Spawned, Spawners
  <2> QED
    BY <2>1, FS_Subset
<1>n. /\ Cardinality(Spawned') \in Nat /\ Cardinality(Spawners') \in Nat
      /\ Cardinality(Spawned) \in Nat /\ Cardinality(Spawners) \in Nat
      /\ Cardinality(Cmd) \in Nat /\ MaxChildren \in Nat /\ Nobody # Main
  BY <1>f, FS_CardinalityType
\* Commands that leave the cc actors alone.
<1>1. ASSUME NEW c \in Cmd, NEW s \in Session, NEW f \in Caller, SpawnBegin(c, s, f)
      PROVE  LimitOvershoot'
  <2>1. /\ cmd' = [cmd EXCEPT ![c] = Task("anchor", s, f, born + 1, NoneHeld, "none")]
        /\ cmd[c].pc = "idle" /\ Children(f) < MaxChildren /\ UNCHANGED cc
    BY <1>1 DEF SpawnBegin, Goto
  <2>2. Spawned' = Spawned
    BY <2>1 DEF Spawned
  <2>3. CASE f = Main
    <3>1. /\ Spawned \subseteq {x \in Session : Live(cc[x])}
          /\ Cardinality({x \in Session : Live(cc[x])}) < MaxChildren
      BY <2>1, <2>3 DEF Children, Spawned
    <3>2. IsFiniteSet({x \in Session : Live(cc[x])})
      BY FS_Subset
    <3>3. /\ Cardinality(Spawned) <= Cardinality({x \in Session : Live(cc[x])})
          /\ Cardinality({x \in Session : Live(cc[x])}) \in Nat
      BY <3>1, <3>2, FS_Subset, FS_CardinalityType
    <3>4. Spawners' \subseteq Cmd
      BY DEF Spawners
    <3>5. Cardinality(Spawners') <= Cardinality(Cmd)
      BY <3>4, FS_Subset
    <3> QED
      BY <1>n, <2>2, <3>1, <3>3, <3>5 DEF LimitOvershoot
  <2>4. CASE f # Main
    <3>1. Spawners' \subseteq Spawners
      BY <1>t, <2>1, <2>4 DEF Spawners, Spawning, Task
    <3> QED
      BY <2>2, <3>1, LimitKept
  <2> QED
    BY <2>3, <2>4
<1>2. ASSUME NEW c \in Cmd, NEW f \in Caller, SpawnRefused(c, f)
      PROVE  LimitOvershoot'
  <2>1. cmd' = [cmd EXCEPT ![c] = [Idle("limit") EXCEPT !.caller = f]] /\ UNCHANGED cc
    BY <1>2 DEF SpawnRefused, Goto
  <2>2. Spawned' \subseteq Spawned
    BY <2>1 DEF Spawned
  <2>3. Spawners' \subseteq Spawners
    BY <1>t, <2>1 DEF Spawners, Spawning, Idle, Task
  <2> QED
    BY <2>2, <2>3, LimitKept
<1>e. ASSUME NEW c \in Cmd, NEW a \in BOOLEAN, Spawning(cmd[c]), Enroll(c, a)
      PROVE  LimitOvershoot'
  <2> DEFINE s == cmd[c].name
  <2>1. s \in Session
    BY <1>e, <1>t DEF ShapeOK, Spawning, TaskType
  <2>0. EnrollEffect(c, s, a)
    BY <1>e, <2>1, EnrollFacts
  <2>2. /\ \A x \in Session \ {s} : cc'[x] = cc[x]
        /\ \A d \in Cmd \ {c} : cmd'[d] = cmd[d]
    BY <2>0, Zenon DEF EnrollEffect
  <2>3. ~Spawning(cmd'[c])
    <3>1. \/ cmd'[c] = Idle("error") \/ cmd'[c] = Idle("started") \/ cmd'[c] = Idle("failed")
          \/ cmd'[c] = Task("stopCC", s, cmd[c].caller, cmd[c].num,
                            [cc |-> cmd[c].num, thread |-> cmd[c].num], "failed")
      BY <2>0, Zenon DEF EnrollEffect
    <3> QED
      BY <3>1 DEF Idle, Task, Spawning
  <2>4. Spawners' = Spawners \ {c}
    BY <2>2, <2>3, NotMain
  <2>5. CASE cmd[c].caller = Main
    <3>1. c \in Spawners
      BY <1>e, <2>5 DEF Spawners
    <3>2. Cardinality(Spawners') = Cardinality(Spawners) - 1
      BY <1>f, <2>4, <3>1, FS_RemoveElement
    <3>3. Spawned' \subseteq Spawned \cup {s}
      BY <2>1, <2>2, OneSession
    <3>4. /\ IsFiniteSet(Spawned \cup {s})
          /\ Cardinality(Spawned \cup {s}) \in {Cardinality(Spawned), Cardinality(Spawned) + 1}
      BY <1>f, FS_AddElement
    <3>5. Cardinality(Spawned') <= Cardinality(Spawned \cup {s})
      BY <3>3, <3>4, FS_Subset
    <3> QED
      BY <1>n, <3>2, <3>4, <3>5 DEF LimitOvershoot
  <2>6. CASE cmd[c].caller # Main
    <3>1. /\ New(cmd[c], a).parent # Main
          /\ \/ cc'[s] = cc[s] \/ cc'[s] = New(cmd[c], a)
             \/ cc'[s] = Ended(New(cmd[c], a))
          /\ ~Live(Ended(New(cmd[c], a)))
      <4>1. New(cmd[c], a) \in ActorRecord
        BY <2>0, Zenon DEF EnrollEffect
      <4>2. cc'[s] = cc[s] \/ cc'[s] = New(cmd[c], a) \/ cc'[s] = Ended(New(cmd[c], a))
        BY <2>0, Zenon DEF EnrollEffect
      <4> QED
        BY <2>6, <4>1, <4>2, ActorFacts DEF New
    <3>2. Spawned' \subseteq Spawned
      BY <2>1, <2>2, <3>1, OneSession
    <3> QED
      BY <2>4, <3>2, LimitKept
  <2> QED
    BY <2>5, <2>6
<1>3. ASSUME NEW c \in Cmd, AnchorPosted(c) PROVE LimitOvershoot'
  <2>1. CASE cmd' = [cmd EXCEPT ![c] = [cmd[c] EXCEPT !.pc = "pin"]] /\ UNCHANGED cc
    <3>1. cmd[c].pc = "anchor"
      BY <1>3 DEF AnchorPosted
    <3>2. Spawned' \subseteq Spawned
      BY <2>1 DEF Spawned
    <3>3. Spawners' \subseteq Spawners
      BY <1>t, <2>1, <3>1 DEF Spawners, Spawning, TaskType
    <3> QED
      BY <3>2, <3>3, LimitKept
  <2>2. CASE Enroll(c, FALSE)
    BY <1>3, <1>e, <2>2 DEF AnchorPosted, Spawning
  <2> QED
    BY <1>3, <2>1, <2>2 DEF AnchorPosted, Goto
<1>4. ASSUME NEW c \in Cmd, AnchorPinned(c) PROVE LimitOvershoot'
  BY <1>4, <1>e DEF AnchorPinned, Spawning
<1>5. ASSUME NEW c \in Cmd, NEW s \in Session, Kill(c, s) PROVE LimitOvershoot'
  <2>1. StopSession(c, cc, s, Main, cc[s].id, "killed")
    BY <1>5 DEF Kill
  <2>2. cc[s].id \in 0..MaxBorn /\ Main \in Caller
    BY <1>t, TaskFacts DEF ActorRecord
  <2>0. StopEffect(c, cc, s, Main, cc[s].id, "killed")
    BY <1>t, <2>1, <2>2, StopFacts
  <2>3. /\ \A x \in Session \ {s} : cc'[x] = cc[x]
        /\ \A d \in Cmd \ {c} : cmd'[d] = cmd[d]
    BY <2>0, Zenon DEF StopEffect
  <2>4. cc' = cc \/ cc'[s] = IF Live(cc[s]) THEN Ended(cc[s]) ELSE cc[s]
    BY <2>0, Zenon DEF StopEffect
  <2>5. \/ cmd'[c] = Task("stopCC", s, Main, cc[s].id,
                          [cc |-> cc[s].id, thread |-> thread[s].id], "killed")
        \/ cmd'[c] = Task("stopThread", s, Main, cc[s].id,
                          [cc |-> 0, thread |-> thread[s].id], "killed")
        \/ cmd'[c] = Idle("killed")
    BY <2>0, Zenon DEF StopEffect
  <2>6. ~Spawning(cmd'[c])
    BY <2>5 DEF Idle, Task, Spawning
  <2>7. Live(cc'[s]) => cc'[s] = cc[s]
    <3>1. cc[s] \in ActorRecord /\ ~Live(Ended(cc[s]))
      BY <1>t, ActorFacts
    <3> QED
      BY <2>4, <3>1
  <2>8. Spawned' \subseteq Spawned
    BY <2>3, <2>7, OneSession
  <2> QED
    BY <2>3, <2>6, <2>8, NotMain, LimitKept
<1>6. ASSUME NEW c \in Cmd, StopThread(c) \/ StopDone(c) PROVE LimitOvershoot'
  <2> DEFINE k == cmd[c]
  <2>1. /\ k.pc \in {"stopCC", "stopThread"} /\ EndHeld(k.held, k.name)
        /\ \/ cmd' = [cmd EXCEPT ![c] = Idle(k.answer)]
           \/ cmd' = [cmd EXCEPT ![c] = [k EXCEPT !.pc = "stopThread",
                                         !.held = [cc |-> 0, thread |-> thread'[k.name].id]]]
    BY <1>6 DEF StopThread, StopDone, Goto
  <2>2. k \in TaskType /\ k.name \in Session
    BY <1>t, <2>1 DEF ShapeOK, TaskType
  <2>3. /\ \A x \in Session \ {k.name} : cc'[x] = cc[x]
        /\ cc'[k.name] = IF cc[k.name].id = k.held.cc /\ k.held.cc # 0
                         THEN Ended(cc[k.name]) ELSE cc[k.name]
    <3>1. EndEffect(k.held, k.name)
      BY <2>1, <2>2, EndFacts, Zenon
    <3> QED
      BY <3>1, Zenon DEF EndEffect
  <2>4. Spawned' \subseteq Spawned
    <3>1. Live(cc'[k.name]) => cc'[k.name] = cc[k.name]
      BY <1>t, <2>2, <2>3, ActorFacts
    <3> QED
      BY <2>2, <2>3, <3>1, OneSession
  <2> DEFINE t == [k EXCEPT !.pc = "stopThread", !.held = [cc |-> 0, thread |-> thread'[k.name].id]]
  <2>5. /\ ~Spawning(Idle(k.answer)) /\ ~Spawning(t)
        /\ cmd' = [cmd EXCEPT ![c] = Idle(k.answer)] \/ cmd' = [cmd EXCEPT ![c] = t]
    BY <2>1, <2>2 DEF Idle, Task, Spawning, TaskType
  <2> HIDE DEF t
  <2>6. \A d \in Cmd \ {c} : cmd'[d] = cmd[d]
    BY <1>t, <2>5
  <2>7. ~Spawning(cmd'[c])
    BY <1>t, <2>5
  <2> QED
    BY <2>4, <2>6, <2>7, NotMain, LimitKept
<1>7. ASSUME NEW s \in Session, Register(s) PROVE LimitOvershoot'
  <2>1. UNCHANGED cmd
    BY <1>7 DEF Register
  <2>2. \/ Live(cc[s]) /\ cc' = [cc EXCEPT ![s] = [cc[s] EXCEPT !.state = "active"]]
        \/ cc' = [cc EXCEPT ![s] = [id |-> born + 1, state |-> "active",
                                    parent |-> Nobody, wired |-> FALSE]]
    BY <1>7, Zenon DEF Register
  <2>3. \A x \in Session \ {s} : cc'[x] = cc[x]
    BY <1>t, <2>2
  <2>4. Live(cc'[s]) /\ cc'[s].parent = Main => Live(cc[s]) /\ cc[s].parent = Main
    BY <1>t, <1>n, <2>2 DEF ActorRecord
  <2> QED
    BY <2>1, <2>3, <2>4, OneSession, LimitKept DEF Spawners
<1>8. ASSUME NEW s \in Session, OnSpawn(s) \/ Launch(s) PROVE LimitOvershoot'
  BY <1>8, LimitKept DEF OnSpawn, Launch, Spawned, Spawners
<1>9. ASSUME NEW s \in Session, Disconnect(s) PROVE LimitOvershoot'
  <2>1. /\ cc' = [cc EXCEPT ![s] = [cc[s] EXCEPT !.state = "suspended"]]
        /\ cc[s].state = "active" /\ UNCHANGED cmd
    BY <1>9 DEF Disconnect
  <2>2. \A x \in Session \ {s} : cc'[x] = cc[x]
    BY <1>t, <2>1
  <2>3. Live(cc'[s]) /\ cc'[s].parent = Main => Live(cc[s]) /\ cc[s].parent = Main
    BY <1>t, <2>1 DEF ActorRecord, Live
  <2> QED
    BY <2>1, <2>2, <2>3, OneSession, LimitKept DEF Spawners
<1>10. CASE UNCHANGED vars
  BY <1>10, LimitKept DEF vars, Spawned, Spawners
<1> QED
  BY <1>1, <1>2, <1>3, <1>4, <1>5, <1>6, <1>7, <1>8, <1>9, <1>10 DEF Next, Command, Client

LEMMA InitLimit == Init => LimitOvershoot
<1> SUFFICES ASSUME Init PROVE LimitOvershoot
  OBVIOUS
<1>1. Spawned = {} /\ Spawners = {}
  BY ActorFacts, TaskFacts DEF Init, Spawned, Spawners, Spawning
<1> QED
  BY <1>1, FS_EmptySet, FS_CardinalityType DEF LimitOvershoot

\* The commands and the registrations keep the shape of every variable.
THEOREM SessionTypes == Spec => []TypeOK
<1>1. Init => TypeOK /\ ShapeOK
  BY InitType
<1>2. TypeOK /\ ShapeOK /\ [Next]_vars => TypeOK' /\ ShapeOK'
  BY TypeStep
<1> QED
  BY <1>1, <1>2, PTL DEF Spec

\* The limit of spawn.py:35 is passed by at most the commands running beside one:
\* every spawn that has passed it is counted until it has registered its session.
THEOREM BoundedOvershoot == Spec => []LimitOvershoot
<1>1. Init => TypeOK /\ ShapeOK /\ LimitOvershoot
  BY InitType, InitLimit
<1>2. TypeOK /\ ShapeOK /\ LimitOvershoot /\ [Next]_vars
        => (TypeOK /\ ShapeOK /\ LimitOvershoot)'
  BY TypeStep, LimitStep
<1> QED
  BY <1>1, <1>2, PTL DEF Spec

-----------------------------------------------------------------------------
(* Sessions, threads and pins.                                             *)

\* The number of a spawn under way is nobody else's; an actor has a number.
NumbersOK ==
  /\ \A s \in Session : /\ cc[s].id <= born /\ thread[s].id <= born
                        /\ Live(cc[s]) => cc[s].id # 0
  /\ \A c \in Cmd : cmd[c].num <= born /\ cmd[c].held.cc <= born /\ cmd[c].held.thread <= born
  /\ \A n \in raised : n <= born
Fresh(c, n) ==
  /\ \A s \in Session : cc[s].id # n /\ thread[s].id # n
  /\ \A d \in Cmd \ {c} : cmd[d].num # n /\ cmd[d].held.cc # n /\ cmd[d].held.thread # n
  /\ n \notin raised
FreshOK == \A c \in Cmd : Spawning(cmd[c]) =>
  Fresh(c, cmd[c].num) /\ cmd[c].held.cc = 0 /\ cmd[c].held.thread = 0

\* One session: what the three properties say of it, and that the session of a spawn
\* that raised never came to be.
PairOK(s) ==
  /\ Live(cc[s]) /\ cc[s].wired =>
       \/ Live(thread[s]) /\ thread[s].id = cc[s].id
       \/ cc[s].id \in late
  /\ Live(thread[s]) =>
       \/ Live(cc[s]) /\ cc[s].wired /\ thread[s].id = cc[s].id
       \/ thread[s].id \in raised
  /\ cc[s].id \notin raised
  /\ \A n \in 1..MaxBorn : <<s, n>> \in pinned =>
       (Live(thread[s]) /\ thread[s].id = n) \/ n \in raised \cup stuck

\* One stop: it ends the cc actor it was called for, with the thread of that very
\* spawn or with one that has another session; then only a thread is left to it.
StopOK(c) ==
  LET k == cmd[c] IN
  /\ k.pc = "stopCC" =>
       /\ k.held.cc = k.num /\ k.num # 0
       /\ k.held.thread # k.num =>
            cc[k.name].id # k.held.thread /\ thread[k.name].id # k.num
  /\ k.pc = "stopThread" => k.held.cc = 0 /\ Gone(k.name, k.num)

SessionInv ==
  /\ TypeOK /\ ShapeOK /\ NumbersOK /\ FreshOK
  /\ \A s \in Session : PairOK(s)
  /\ \A c \in Cmd : StopOK(c)

\* What a command that answers has to have done.
Answered(c) ==
  \A s \in Session, n \in 1..MaxBorn :
    /\ cmd[c].pc # "idle" /\ cmd[c].name = s /\ cmd[c].num = n
    /\ cmd'[c].pc = "idle" /\ cmd'[c].answer \in {"failed", "killed"}
    => Gone(s, n)'

LEMMA Numbers ==
  ASSUME TypeOK
  PROVE  /\ born \in Nat /\ MaxBorn \in Nat
         /\ \A s \in Session : cc[s].id \in Nat /\ thread[s].id \in Nat
         /\ \A c \in Cmd : /\ cmd[c].num \in Nat /\ cmd[c].held.cc \in Nat
                           /\ cmd[c].held.thread \in Nat
         /\ \A n \in raised : n \in Nat
BY Types DEF TypeOK, ActorRecord, TaskType

\* A step that leaves every actor as it is but for suspended against active.
Calm ==
  /\ \A s \in Session :
       /\ cc'[s].id = cc[s].id /\ cc'[s].wired = cc[s].wired /\ (Live(cc'[s]) <=> Live(cc[s]))
       /\ thread'[s].id = thread[s].id /\ (Live(thread'[s]) <=> Live(thread[s]))
  /\ UNCHANGED <<pinned, born, late, raised, stuck>>

LEMMA CalmActors ==
  ASSUME SessionInv, Calm
  PROVE  \A s \in Session : PairOK(s)'
<1> TAKE s \in Session
<1>1. PairOK(s)
  BY DEF SessionInv
<1> QED
  BY <1>1 DEF PairOK, Calm

LEMMA CalmCommand ==
  ASSUME SessionInv, Calm, NEW c \in Cmd, cmd'[c] = cmd[c]
  PROVE  StopOK(c)' /\ Answered(c)
<1>1. StopOK(c) /\ cmd[c] \in TaskType
  BY Types DEF SessionInv
<1>2. ASSUME cmd[c].pc # "idle" PROVE cmd[c].name \in Session
  BY <1>1, <1>2 DEF SessionInv, ShapeOK, TaskType
<1>3. StopOK(c)'
  BY <1>1, <1>2 DEF StopOK, Gone, Calm
<1>4. Answered(c)
  BY DEF Answered
<1> QED
  BY <1>3, <1>4

\* The step of one command, or of none, on calm actors.
LEMMA CalmStep ==
  ASSUME SessionInv, Calm, TypeOK', ShapeOK', NEW c \in Cmd,
         \A d \in Cmd \ {c} : cmd'[d] = cmd[d],
         \/ cmd'[c] = cmd[c]
         \/ /\ cmd'[c].pc = "idle" /\ cmd'[c].num = 0
            /\ cmd'[c].held.cc = 0 /\ cmd'[c].held.thread = 0
            /\ cmd[c].pc = "idle"
         \/ /\ Spawning(cmd[c]) /\ Spawning(cmd'[c]) /\ cmd'[c].num = cmd[c].num
            /\ cmd'[c].held = cmd[c].held
  PROVE  SessionInv' /\ \A d \in Cmd : Answered(d)
<1>1. \A s \in Session : PairOK(s)'
  BY CalmActors
<1>2. \A d \in Cmd \ {c} : StopOK(d)' /\ Answered(d)
  BY CalmCommand
<1>3. StopOK(c)' /\ Answered(c)
  <2>1. CASE cmd'[c] = cmd[c]
    BY <2>1, CalmCommand
  <2>2. CASE cmd'[c].pc = "idle" /\ cmd[c].pc = "idle"
    BY <2>2 DEF StopOK, Answered
  <2>3. CASE Spawning(cmd'[c])
    BY <2>3 DEF Spawning, StopOK, Answered
  <2> QED
    BY <2>1, <2>2, <2>3
<1>4. NumbersOK'
  <2>1. \A d \in Cmd : /\ cmd'[d].num \in {0, cmd[d].num}
                       /\ cmd'[d].held.cc \in {0, cmd[d].held.cc}
                       /\ cmd'[d].held.thread \in {0, cmd[d].held.thread}
    OBVIOUS
  <2> QED
    BY <2>1, Numbers DEF NumbersOK, Calm, SessionInv
<1>5. FreshOK'
  <2> SUFFICES ASSUME NEW d \in Cmd, Spawning(cmd'[d])
               PROVE  Fresh(d, cmd[d].num)' /\ cmd'[d].held.cc = 0 /\ cmd'[d].held.thread = 0
    BY DEF FreshOK
  <2>1. /\ Spawning(cmd[d]) /\ cmd'[d].num = cmd[d].num /\ cmd'[d].held = cmd[d].held
        /\ cmd[d].num # 0
    BY DEF Spawning, SessionInv, ShapeOK
  <2>2. Fresh(d, cmd[d].num) /\ cmd[d].held.cc = 0 /\ cmd[d].held.thread = 0
    BY <2>1 DEF SessionInv, FreshOK
  <2>3. \A e \in Cmd : /\ cmd'[e].num \in {0, cmd[e].num}
                       /\ cmd'[e].held.cc \in {0, cmd[e].held.cc}
                       /\ cmd'[e].held.thread \in {0, cmd[e].held.thread}
    OBVIOUS
  <2> QED
    BY <2>1, <2>2, <2>3 DEF Fresh, Calm
<1> QED
  BY <1>1, <1>2, <1>3, <1>4, <1>5 DEF SessionInv

\* A step of command c on session s, in which an actor may appear with the fresh
\* number n and the others may only end.
StepOn(c, s, n) ==
  /\ \A d \in Cmd \ {c} : cmd'[d] = cmd[d]
  /\ \A x \in Session \ {s} : cc'[x] = cc[x] /\ thread'[x] = thread[x]
  /\ \/ cc'[s].id = cc[s].id /\ (Live(cc'[s]) => Live(cc[s]))
     \/ cc'[s].id = n /\ n # 0
  /\ \/ thread'[s].id = thread[s].id /\ (Live(thread'[s]) => Live(thread[s]))
     \/ thread'[s].id = n
  /\ late \subseteq late' /\ stuck \subseteq stuck'
  /\ raised \subseteq raised' /\ raised' \subseteq raised \cup {n}
  /\ \A x \in Session \ {s}, m \in 1..MaxBorn : <<x, m>> \in pinned' => <<x, m>> \in pinned

\* It leaves the other sessions and the other commands in order.
LEMMA Elsewhere ==
  ASSUME SessionInv, NEW c \in Cmd, NEW s \in Session, NEW n \in Nat,
         Fresh(c, n), StepOn(c, s, n)
  PROVE  /\ \A x \in Session \ {s} : PairOK(x)'
         /\ \A d \in Cmd \ {c} : StopOK(d)' /\ Answered(d)
<1>1. ASSUME NEW x \in Session \ {s} PROVE PairOK(x)'
  <2>1. PairOK(x) /\ cc[x].id # n
    BY DEF SessionInv, Fresh
  <2>2. cc'[x] = cc[x] /\ thread'[x] = thread[x]
    BY DEF StepOn
  <2>3. late \subseteq late' /\ stuck \subseteq stuck' /\ raised \subseteq raised'
        /\ raised' \subseteq raised \cup {n}
        /\ \A m \in 1..MaxBorn : <<x, m>> \in pinned' => <<x, m>> \in pinned
    BY DEF StepOn
  <2> QED
    BY <2>1, <2>2, <2>3 DEF PairOK
<1>2. ASSUME NEW d \in Cmd \ {c} PROVE StopOK(d)' /\ Answered(d)
  <2>1. cmd'[d] = cmd[d] /\ StopOK(d) /\ cmd[d] \in TaskType
    BY Types DEF StepOn, SessionInv
  <2>2. cmd[d].num # n /\ cmd[d].held.thread # n
    BY DEF Fresh
  <2>3. \A x \in Session :
          /\ \/ cc'[x].id = cc[x].id /\ (Live(cc'[x]) => Live(cc[x]))
             \/ cc'[x].id = n
          /\ \/ thread'[x].id = thread[x].id /\ (Live(thread'[x]) => Live(thread[x]))
             \/ thread'[x].id = n
    BY DEF StepOn
  <2>4. cmd[d].pc # "idle" => cmd[d].name \in Session
    BY <2>1 DEF SessionInv, ShapeOK, TaskType
  <2>5. StopOK(d)'
    BY <2>1, <2>2, <2>3, <2>4 DEF StopOK, Gone
  <2> QED
    BY <2>1, <2>5 DEF Answered
<1> QED
  BY <1>1, <1>2

\* It leaves the numbers in order, if the command uses only numbers it may know.
LEMMA NumbersKept ==
  ASSUME SessionInv, TypeOK', ShapeOK', NEW c \in Cmd, NEW s \in Session, NEW n \in Nat,
         Fresh(c, n), StepOn(c, s, n), born <= born',
         n <= born' \/ (cc'[s].id # n /\ thread'[s].id # n /\ raised' = raised),
         \A m \in {cmd'[c].num, cmd'[c].held.cc, cmd'[c].held.thread} :
           m <= born' /\ m \in {0, n, cmd[c].num, cc[s].id, thread[s].id},
         Spawning(cmd'[c]) =>
           /\ cmd'[c].num = n /\ cc'[s].id # n /\ thread'[s].id # n /\ n \notin raised'
           /\ cmd'[c].held.cc = 0 /\ cmd'[c].held.thread = 0
  PROVE  NumbersOK' /\ FreshOK'
<1>n. /\ born \in Nat /\ born' \in Nat
      /\ \A x \in Session : cc[x].id \in Nat /\ thread[x].id \in Nat
      /\ \A d \in Cmd : cmd[d].num \in Nat /\ cmd[d].held.cc \in Nat /\ cmd[d].held.thread \in Nat
      /\ \A m \in raised : m \in Nat
  BY Numbers, Types DEF SessionInv, TypeOK
<1>i. \A x \in Session : /\ cc'[x].id \in {cc[x].id, n} /\ thread'[x].id \in {thread[x].id, n}
                         /\ x # s => cc'[x] = cc[x] /\ thread'[x] = thread[x]
  BY DEF StepOn
<1>1. NumbersOK'
  <2>0. NumbersOK
    BY DEF SessionInv
  <2>1. \A x \in Session : cc'[x].id <= born' /\ thread'[x].id <= born'
    BY <1>n, <1>i, <2>0 DEF NumbersOK
  <2>2. \A x \in Session : Live(cc'[x]) => cc'[x].id # 0
    BY <1>i, <2>0 DEF NumbersOK, StepOn
  <2>3. \A d \in Cmd : /\ cmd'[d].num <= born' /\ cmd'[d].held.cc <= born'
                       /\ cmd'[d].held.thread <= born'
    <3>1. ASSUME NEW d \in Cmd \ {c}
          PROVE  /\ cmd'[d].num <= born' /\ cmd'[d].held.cc <= born'
                 /\ cmd'[d].held.thread <= born'
      <4>1. cmd'[d] = cmd[d]
        BY DEF StepOn
      <4> QED
        BY <1>n, <2>0, <4>1 DEF NumbersOK
    <3>2. /\ cmd'[c].num <= born' /\ cmd'[c].held.cc <= born'
          /\ cmd'[c].held.thread <= born'
      OBVIOUS
    <3> QED
      BY <3>1, <3>2
  <2>4. ASSUME NEW m \in raised' PROVE m <= born'
    <3>1. m \in raised \/ (m = n /\ raised' # raised)
      BY DEF StepOn
    <3>2. m \in raised => m <= born
      BY <2>0 DEF NumbersOK
    <3> QED
      BY <1>n, <3>1, <3>2
  <2> QED
    BY <2>1, <2>2, <2>3, <2>4 DEF NumbersOK
<1>2. ASSUME NEW d \in Cmd, Spawning(cmd'[d])
      PROVE  Fresh(d, cmd[d].num)' /\ cmd'[d].held.cc = 0 /\ cmd'[d].held.thread = 0
  <2>1. CASE d = c
    BY <1>2, <1>i, <2>1 DEF Fresh, StepOn
  <2>2. CASE d # c
    <3>1. cmd'[d] = cmd[d] /\ Spawning(cmd[d]) /\ cmd[d].num # 0
      BY <1>2, <2>2 DEF StepOn, SessionInv, ShapeOK
    <3>2. Fresh(d, cmd[d].num) /\ cmd[d].held.cc = 0 /\ cmd[d].held.thread = 0
      BY <3>1 DEF SessionInv, FreshOK
    <3>3. cmd[d].num # n
      BY <2>2 DEF Fresh
    <3>4. \A x \in Session : cc'[x].id # cmd[d].num /\ thread'[x].id # cmd[d].num
      BY <1>i, <3>2, <3>3 DEF Fresh
    <3>5. cmd[c].num # cmd[d].num /\ cc[s].id # cmd[d].num /\ thread[s].id # cmd[d].num
      BY <2>2, <3>2 DEF Fresh
    <3>6. \A e \in Cmd \ {d} : /\ cmd'[e].num # cmd[d].num /\ cmd'[e].held.cc # cmd[d].num
                               /\ cmd'[e].held.thread # cmd[d].num
      <4>1. /\ cmd'[c].num # cmd[d].num /\ cmd'[c].held.cc # cmd[d].num
            /\ cmd'[c].held.thread # cmd[d].num
        BY <3>1, <3>3, <3>5
      <4> QED
        BY <3>2, <4>1 DEF Fresh, StepOn
    <3>7. cmd[d].num \notin raised'
      BY <3>2, <3>3 DEF Fresh, StepOn
    <3> QED
      BY <3>1, <3>2, <3>4, <3>6, <3>7 DEF Fresh
  <2> QED
    BY <2>1, <2>2
<1> QED
  BY <1>1, <1>2 DEF FreshOK

\* The number after the last is fresh, and so is that of a spawn under way.
LEMMA FreshNumbers ==
  ASSUME SessionInv, NEW c \in Cmd
  PROVE  /\ Fresh(c, born + 1) /\ born + 1 \in Nat /\ born + 1 # 0
         /\ \A s \in Session : cc[s].id # born + 1 /\ thread[s].id # born + 1
         /\ Spawning(cmd[c]) => Fresh(c, cmd[c].num)
<1>1. /\ born \in Nat
      /\ \A s \in Session : cc[s].id \in Nat /\ thread[s].id \in Nat
      /\ \A d \in Cmd : cmd[d].num \in Nat /\ cmd[d].held.cc \in Nat /\ cmd[d].held.thread \in Nat
      /\ \A n \in raised : n \in Nat
  BY Numbers DEF SessionInv
<1>2. \A s \in Session : cc[s].id # born + 1 /\ thread[s].id # born + 1
  BY <1>1 DEF SessionInv, NumbersOK
<1>3. \A d \in Cmd : /\ cmd[d].num # born + 1 /\ cmd[d].held.cc # born + 1
                     /\ cmd[d].held.thread # born + 1
  BY <1>1 DEF SessionInv, NumbersOK
<1>4. born + 1 \notin raised
  BY <1>1 DEF SessionInv, NumbersOK
<1>5. Spawning(cmd[c]) => Fresh(c, cmd[c].num)
  BY DEF SessionInv, FreshOK
<1> QED
  BY <1>1, <1>2, <1>3, <1>4, <1>5 DEF Fresh

\* A step on one session keeps the invariant if it leaves that session and the
\* command in order.
LEMMA StepKeeps ==
  ASSUME SessionInv, TypeOK', ShapeOK', NEW c \in Cmd, NEW s \in Session, NEW n \in Nat,
         Fresh(c, n), StepOn(c, s, n), NumbersOK', FreshOK', PairOK(s)', StopOK(c)', Answered(c)
  PROVE  SessionInv' /\ \A d \in Cmd : Answered(d)
<1>1. /\ \A x \in Session \ {s} : PairOK(x)'
      /\ \A d \in Cmd \ {c} : StopOK(d)' /\ Answered(d)
  BY Elsewhere
<1> QED
  BY <1>1 DEF SessionInv

\* A spawn registers what it has numbered, or raises.
LEMMA EnrollStep ==
  ASSUME SessionInv, TypeOK', ShapeOK', NEW c \in Cmd, NEW a \in BOOLEAN,
         Spawning(cmd[c]), Enroll(c, a), UNCHANGED <<born, late, stuck>>,
         a => pinned' \subseteq pinned \cup {<<cmd[c].name, cmd[c].num>>},
         ~a => pinned' = pinned
  PROVE  SessionInv' /\ \A d \in Cmd : Answered(d)
<1>1. PICK s \in Session : s = cmd[c].name
  BY Types DEF SessionInv, ShapeOK, Spawning, TaskType
<1>2. PICK n \in Nat : n = cmd[c].num
  BY Types DEF SessionInv, TaskType
<1>0. EnrollEffect(c, s, a)
  BY <1>1, EnrollFacts DEF SessionInv
<1>3. /\ n # 0 /\ n <= born /\ born \in Nat /\ Fresh(c, n)
      /\ cmd[c].held.cc = 0 /\ cmd[c].held.thread = 0
  BY <1>2, Numbers DEF SessionInv, ShapeOK, NumbersOK, FreshOK
<1>4. /\ \A x \in Session \ {s} : cc'[x] = cc[x] /\ thread'[x] = thread[x]
      /\ \A d \in Cmd \ {c} : cmd'[d] = cmd[d]
  BY <1>0, Zenon DEF EnrollEffect
<1>5. PICK new : /\ new = New(cmd[c], a) /\ new.id = n /\ new.wired = a /\ Live(new)
                 /\ Ended(new).id = n /\ ~Live(Ended(new))
  <2>1. New(cmd[c], a) \in ActorRecord /\ Live(New(cmd[c], a))
    BY <1>0, Zenon DEF EnrollEffect
  <2>2. New(cmd[c], a).id = n /\ New(cmd[c], a).wired = a
    BY <1>2 DEF New
  <2>3. Ended(New(cmd[c], a)).id = New(cmd[c], a).id /\ ~Live(Ended(New(cmd[c], a)))
    BY <2>1, ActorFacts
  <2> QED
    BY <2>1, <2>2, <2>3
<1>6. PICK nt : nt = NewThread(cmd[c]) /\ nt.id = n /\ Live(nt)
  <2>1. Live(NewThread(cmd[c]))
    BY <1>0, Zenon DEF EnrollEffect
  <2>2. NewThread(cmd[c]).id = n
    BY <1>2 DEF NewThread
  <2> QED
    BY <2>1, <2>2
<1>7. PICK over : /\ over.pc = "idle" /\ over.num = 0 /\ over.held.cc = 0 /\ over.held.thread = 0
                  /\ \A b \in {"error", "started", "failed"} :
                       /\ Idle(b).pc = over.pc /\ Idle(b).num = over.num
                       /\ Idle(b).held = over.held /\ Idle(b).answer = b
  BY DEF Idle, Task
<1>8. PICK roll : /\ roll = Task("stopCC", s, cmd[c].caller, cmd[c].num,
                                 [cc |-> cmd[c].num, thread |-> cmd[c].num], "failed")
                  /\ roll.pc = "stopCC" /\ roll.num = n /\ roll.name = s
                  /\ roll.held.cc = n /\ roll.held.thread = n
  <2> DEFINE r == Task("stopCC", s, cmd[c].caller, cmd[c].num,
                       [cc |-> cmd[c].num, thread |-> cmd[c].num], "failed")
  <2>1. r.pc = "stopCC" /\ r.num = n /\ r.name = s /\ r.held.cc = n /\ r.held.thread = n
    BY <1>2 DEF Task
  <2> QED
    BY <2>1, Zenon
<1>9. \/ /\ a /\ Live(thread[s]) /\ cc'[s] = cc[s] /\ thread'[s] = thread[s]
         /\ raised' = raised \cup {n} /\ cmd'[c] = Idle("error")
      \/ /\ ~(a /\ Live(thread[s]))
         /\ thread'[s] = IF a THEN nt ELSE thread[s]
         /\ \/ /\ Live(cc[s]) /\ cc'[s] = cc[s]
               /\ raised' = raised \cup {n} /\ cmd'[c] = Idle("error")
            \/ /\ ~Live(cc[s]) /\ cc'[s] = new /\ raised' = raised
               /\ cmd'[c] = Idle("started")
            \/ /\ ~Live(cc[s]) /\ a /\ cc'[s] = new /\ raised' = raised
               /\ cmd'[c] = roll
            \/ /\ ~Live(cc[s]) /\ ~a /\ cc'[s] = Ended(new) /\ raised' = raised
               /\ cmd'[c] = Idle("failed")
  BY <1>0, <1>2, <1>5, <1>6, <1>8, Zenon DEF EnrollEffect
<1>10. /\ cmd'[c] = roll \/ (cmd'[c].pc = "idle" /\ cmd'[c].num = 0
                              /\ cmd'[c].held.cc = 0 /\ cmd'[c].held.thread = 0)
       /\ ~Spawning(cmd'[c])
  BY <1>7, <1>8, <1>9 DEF Spawning
<1>11. /\ late' = late /\ stuck' = stuck /\ born' = born
       /\ \A x \in Session, m \in 1..MaxBorn :
            <<x, m>> \in pinned' => <<x, m>> \in pinned \/ (x = s /\ m = n /\ a)
  BY <1>1, <1>2
<1>12. StepOn(c, s, n)
  BY <1>3, <1>4, <1>5, <1>6, <1>9, <1>11 DEF StepOn
<1>13. NumbersOK' /\ FreshOK'
  <2>1. \A m \in {cmd'[c].num, cmd'[c].held.cc, cmd'[c].held.thread} :
          m <= born' /\ m \in {0, n, cmd[c].num, cc[s].id, thread[s].id}
    BY <1>3, <1>8, <1>10, <1>11
  <2> QED
    BY <1>3, <1>10, <1>11, <1>12, <2>1, NumbersKept
<1>14. PairOK(s)'
  <2>1. PairOK(s)
    BY DEF SessionInv
  <2>2. cc[s].id # n /\ thread[s].id # n
    BY <1>3 DEF Fresh
  <2>3. /\ Live(cc'[s]) /\ cc'[s].wired =>
              \/ Live(thread'[s]) /\ thread'[s].id = cc'[s].id
              \/ cc'[s].id \in late'
        /\ Live(thread'[s]) =>
              \/ Live(cc'[s]) /\ cc'[s].wired /\ thread'[s].id = cc'[s].id
              \/ thread'[s].id \in raised'
        /\ cc'[s].id \notin raised'
    BY <1>3, <1>5, <1>6, <1>9, <1>11, <2>1, <2>2 DEF PairOK, Fresh
  <2>4. ASSUME NEW m \in 1..MaxBorn, <<s, m>> \in pinned'
        PROVE  (Live(thread'[s]) /\ thread'[s].id = m) \/ m \in raised' \cup stuck'
    <3>1. CASE <<s, m>> \in pinned
      BY <1>9, <1>11, <2>1, <3>1 DEF PairOK
    <3>2. CASE m = n /\ a
      BY <1>6, <1>9, <3>2
    <3> QED
      BY <1>11, <2>4, <3>1, <3>2
  <2> QED
    BY <2>3, <2>4 DEF PairOK
<1>15. StopOK(c)'
  BY <1>3, <1>8, <1>10 DEF StopOK
<1>16. Answered(c)
  <2> SUFFICES ASSUME NEW x \in Session, NEW m \in 1..MaxBorn,
                      cmd[c].name = x, cmd[c].num = m, cmd'[c].pc = "idle",
                      cmd'[c].answer \in {"failed", "killed"}
               PROVE  Gone(x, m)'
    BY DEF Answered
  <2>1. x = s /\ m = n
    BY <1>1, <1>2
  <2>2. cc'[s] = Ended(new) /\ thread'[s] = thread[s]
    BY <1>7, <1>8, <1>9
  <2>3. thread[s].id # n
    BY <1>3 DEF Fresh
  <2> QED
    BY <1>5, <2>1, <2>2, <2>3 DEF Gone
<1> QED
  BY <1>3, <1>12, <1>13, <1>14, <1>15, <1>16, StepKeeps

\* A kill takes hold of its session and the thread.
LEMMA KillStep ==
  ASSUME SessionInv, TypeOK', ShapeOK', NEW c \in Cmd, NEW s \in Session, Kill(c, s)
  PROVE  SessionInv' /\ \A d \in Cmd : Answered(d)
<1>1. /\ cmd[c].pc = "idle" /\ UNCHANGED <<thread, pinned, born, late, raised, stuck>>
      /\ StopSession(c, cc, s, Main, cc[s].id, "killed")
  BY DEF Kill
<1>t. cc[s] \in ActorRecord /\ thread[s] \in ActorRecord /\ born \in Nat
  BY Types, Numbers DEF SessionInv
<1>2. StopEffect(c, cc, s, Main, cc[s].id, "killed")
  <2>1. cc[s].id \in 0..MaxBorn /\ Main \in Caller /\ cc \in [Session -> ActorRecord]
    BY <1>t, Types, TaskFacts DEF ActorRecord, SessionInv
  <2> QED
    BY <1>1, <2>1, StopFacts DEF SessionInv
<1>3. PICK i, j, k :
        /\ i = Task("stopCC", s, Main, cc[s].id, [cc |-> cc[s].id, thread |-> thread[s].id], "killed")
        /\ i.pc = "stopCC" /\ i.name = s /\ i.num = cc[s].id
        /\ i.held.cc = cc[s].id /\ i.held.thread = thread[s].id
        /\ j = Task("stopThread", s, Main, cc[s].id, [cc |-> 0, thread |-> thread[s].id], "killed")
        /\ j.pc = "stopThread" /\ j.name = s /\ j.num = cc[s].id
        /\ j.held.cc = 0 /\ j.held.thread = thread[s].id
        /\ k = Idle("killed") /\ k.pc = "idle" /\ k.num = 0 /\ k.held.cc = 0 /\ k.held.thread = 0
  <2> DEFINE i == Task("stopCC", s, Main, cc[s].id, [cc |-> cc[s].id, thread |-> thread[s].id], "killed")
             j == Task("stopThread", s, Main, cc[s].id, [cc |-> 0, thread |-> thread[s].id], "killed")
             k == Idle("killed")
  <2>1. /\ i.pc = "stopCC" /\ i.name = s /\ i.num = cc[s].id
        /\ i.held.cc = cc[s].id /\ i.held.thread = thread[s].id
    BY DEF Task
  <2>2. /\ j.pc = "stopThread" /\ j.name = s /\ j.num = cc[s].id
        /\ j.held.cc = 0 /\ j.held.thread = thread[s].id
    BY DEF Task
  <2>3. k.pc = "idle" /\ k.num = 0 /\ k.held.cc = 0 /\ k.held.thread = 0
    BY DEF Idle, Task
  <2> QED
    BY <2>1, <2>2, <2>3, Zenon
<1>4. /\ \A x \in Session \ {s} : cc'[x] = cc[x]
      /\ \A d \in Cmd \ {c} : cmd'[d] = cmd[d]
      /\ \/ cc' = cc /\ Live(cc[s]) /\ cmd'[c] = i
         \/ /\ cc'[s] = IF Live(cc[s]) THEN Ended(cc[s]) ELSE cc[s]
            /\ ~(Live(cc[s]) /\ cc[s].wired /\ Live(thread[s]))
            /\ cmd'[c] = j \/ cmd'[c] = k
  BY <1>2, <1>3, Zenon DEF StopEffect
<1>5. /\ cc'[s].id = cc[s].id /\ cc'[s].wired = cc[s].wired
      /\ Live(cc'[s]) => Live(cc[s]) /\ cmd'[c] = i
  BY <1>4, <1>t, ActorFacts
<1>6. Fresh(c, born + 1) /\ born + 1 \in Nat /\ cc[s].id # born + 1 /\ thread[s].id # born + 1
  BY FreshNumbers
<1>7. StepOn(c, s, born + 1)
  BY <1>1, <1>4, <1>5 DEF StepOn
<1>9. NumbersOK' /\ FreshOK'
  <2>1. \A m \in {cmd'[c].num, cmd'[c].held.cc, cmd'[c].held.thread} :
          m \in {0, cc[s].id, thread[s].id}
    BY <1>3, <1>4
  <2>2. 0 <= born /\ cc[s].id <= born /\ thread[s].id <= born
    BY <1>t DEF SessionInv, NumbersOK
  <2>3. ~Spawning(cmd'[c])
    BY <1>3, <1>4 DEF Spawning
  <2> QED
    BY <1>1, <1>t, <1>5, <1>6, <1>7, <2>1, <2>2, <2>3, NumbersKept
<1>10. PairOK(s)'
  <2>1. PairOK(s)
    BY DEF SessionInv
  <2> QED
    BY <1>1, <1>4, <1>5, <2>1 DEF PairOK
<1>11. StopOK(c)'
  <2>1. CASE cmd'[c] = i
    <3>1. cc[s].id # 0 /\ cc' = cc /\ thread' = thread
      BY <1>1, <1>3, <1>4, <2>1 DEF SessionInv, NumbersOK
    <3> QED
      BY <1>3, <2>1, <3>1 DEF StopOK
  <2>2. CASE cmd'[c] = j
    <3>1. ~Live(cc'[s]) /\ cmd'[c] # i
      BY <1>3, <1>5, <2>2
    <3>2. ~(Live(thread[s]) /\ thread[s].id = cc[s].id)
      <4>1. PairOK(s)
        BY DEF SessionInv
      <4> QED
        BY <1>3, <1>4, <2>2, <4>1 DEF PairOK
    <3> QED
      BY <1>1, <1>3, <2>2, <3>1, <3>2 DEF StopOK, Gone
  <2>3. CASE cmd'[c] = k
    BY <1>3, <2>3 DEF StopOK
  <2> QED
    BY <1>4, <2>1, <2>2, <2>3
<1>12. Answered(c)
  BY <1>1 DEF Answered
<1> QED
  BY <1>6, <1>7, <1>9, <1>10, <1>11, <1>12, StepKeeps

\* A stop ends the actors it holds, and may go on to the thread that is there now.
LEMMA EndStep ==
  ASSUME SessionInv, TypeOK', ShapeOK', NEW c \in Cmd, StopThread(c) \/ StopDone(c)
  PROVE  SessionInv' /\ \A d \in Cmd : Answered(d)
<1>1. PICK k : k = cmd[c]
  OBVIOUS
<1>2. /\ k.pc \in {"stopCC", "stopThread"} /\ EndHeld(k.held, k.name)
      /\ UNCHANGED <<born, raised>>
      /\ late' = IF k.pc = "stopThread" THEN late \cup {k.held.thread} ELSE late
      /\ \/ cmd' = [cmd EXCEPT ![c] = Idle(k.answer)]
         \/ cmd' = [cmd EXCEPT ![c] = [k EXCEPT !.pc = "stopThread",
                                       !.held = [cc |-> 0, thread |-> thread'[k.name].id]]]
  BY <1>1 DEF StopThread, StopDone, Goto
<1>3. k \in TaskType /\ cmd \in [Cmd -> TaskType]
  BY <1>1, Types DEF SessionInv
<1>4. PICK s \in Session : s = k.name
  BY <1>1, <1>2, <1>3 DEF SessionInv, ShapeOK, TaskType
<1>5. EndEffect(k.held, s)
  BY <1>2, <1>4, EndFacts, Zenon DEF SessionInv
<1>6. PICK a \in Nat, b \in Nat, m \in Nat : a = k.held.cc /\ b = k.held.thread /\ m = k.num
  BY <1>3 DEF TaskType
<1>7. /\ \A x \in Session \ {s} : cc'[x] = cc[x] /\ thread'[x] = thread[x]
      /\ cc'[s] = IF cc[s].id = a /\ a # 0 THEN Ended(cc[s]) ELSE cc[s]
      /\ thread'[s] = IF thread[s].id = b THEN Ended(thread[s]) ELSE thread[s]
      /\ pinned' \subseteq pinned /\ stuck \subseteq stuck'
      /\ <<s, b>> \in pinned' => b \in stuck'
  BY <1>5, <1>6, Zenon DEF EndEffect
<1>8. /\ cc'[s].id = cc[s].id /\ cc'[s].wired = cc[s].wired /\ thread'[s].id = thread[s].id
      /\ Live(cc'[s]) => cc'[s] = cc[s] /\ ~(cc[s].id = a /\ a # 0)
      /\ Live(thread'[s]) => thread'[s] = thread[s] /\ thread[s].id # b
      /\ thread[s].id # b => thread'[s] = thread[s]
  <2>1. /\ Ended(cc[s]).id = cc[s].id /\ Ended(cc[s]).wired = cc[s].wired
        /\ Ended(thread[s]).id = thread[s].id
        /\ ~Live(Ended(cc[s])) /\ ~Live(Ended(thread[s]))
    BY Types, ActorFacts DEF SessionInv
  <2>2. cc'[s] = cc[s] \/ (cc'[s] = Ended(cc[s]) /\ cc[s].id = a /\ a # 0)
    BY <1>7
  <2>3. thread'[s] = thread[s] \/ thread'[s] = Ended(thread[s])
    BY <1>7
  <2> QED
    BY <1>7, <2>1, <2>2, <2>3
<1>9. PICK go : /\ go = [k EXCEPT !.pc = "stopThread",
                              !.held = [cc |-> 0, thread |-> thread'[k.name].id]]
                /\ go.pc = "stopThread" /\ go.name = s /\ go.num = m
                /\ go.held.cc = 0 /\ go.held.thread = thread[s].id
  <2> DEFINE g == [k EXCEPT !.pc = "stopThread",
                            !.held = [cc |-> 0, thread |-> thread'[k.name].id]]
  <2>1. /\ g.pc = "stopThread" /\ g.name = s /\ g.num = m
        /\ g.held.cc = 0 /\ g.held.thread = thread[s].id
    BY <1>3, <1>4, <1>6, <1>8 DEF TaskType
  <2> QED
    BY <2>1, Zenon
<1>10. PICK over : /\ over = Idle(k.answer) /\ over.pc = "idle" /\ over.num = 0
                   /\ over.held.cc = 0 /\ over.held.thread = 0
  <2>1. /\ Idle(k.answer).pc = "idle" /\ Idle(k.answer).num = 0
        /\ Idle(k.answer).held.cc = 0 /\ Idle(k.answer).held.thread = 0
    BY DEF Idle, Task
  <2> QED
    BY <2>1, Zenon
<1>11. /\ cmd'[c] = over \/ cmd'[c] = go
       /\ \A d \in Cmd \ {c} : cmd'[d] = cmd[d]
  BY <1>2, <1>3, <1>9, <1>10
<1>12. /\ Fresh(c, born + 1) /\ born + 1 \in Nat /\ born \in Nat
       /\ cc[s].id # born + 1 /\ thread[s].id # born + 1
  BY FreshNumbers, Numbers DEF SessionInv
<1>13. StepOn(c, s, born + 1)
  BY <1>2, <1>7, <1>8, <1>11 DEF StepOn
<1>14. NumbersOK' /\ FreshOK'
  <2>1. \A x \in {cmd'[c].num, cmd'[c].held.cc, cmd'[c].held.thread} :
          x \in {0, cmd[c].num, thread[s].id}
    BY <1>1, <1>6, <1>9, <1>10, <1>11
  <2>2. 0 <= born /\ cmd[c].num <= born /\ thread[s].id <= born
    BY <1>12 DEF SessionInv, NumbersOK
  <2>3. ~Spawning(cmd'[c])
    BY <1>9, <1>10, <1>11 DEF Spawning
  <2> QED
    BY <1>2, <1>8, <1>12, <1>13, <2>1, <2>2, <2>3, NumbersKept
\* What is known of the stop.
<1>15. /\ k.pc = "stopCC" => a = m /\ a # 0 /\ (b # a => cc[s].id # b /\ thread[s].id # a)
       /\ k.pc = "stopThread" => a = 0 /\ Gone(s, m)
  BY <1>1, <1>4, <1>6 DEF SessionInv, StopOK
<1>16. PairOK(s)'
  <2>1. PairOK(s)
    BY DEF SessionInv
  <2>2. Live(cc'[s]) /\ cc'[s].wired =>
          \/ Live(thread'[s]) /\ thread'[s].id = cc'[s].id
          \/ cc'[s].id \in late'
    <3>1. CASE k.pc = "stopCC"
      BY <1>2, <1>8, <1>15, <2>1, <3>1 DEF PairOK
    <3>2. CASE k.pc = "stopThread"
      BY <1>2, <1>6, <1>8, <2>1, <3>2 DEF PairOK
    <3> QED
      BY <1>2, <3>1, <3>2
  <2>3. Live(thread'[s]) =>
          \/ Live(cc'[s]) /\ cc'[s].wired /\ thread'[s].id = cc'[s].id
          \/ thread'[s].id \in raised'
    <3>1. cc[s].id # a \/ a = 0 => cc'[s] = cc[s]
      BY <1>7
    <3>2. CASE k.pc = "stopCC"
      BY <1>2, <1>8, <1>15, <2>1, <3>1, <3>2 DEF PairOK
    <3>3. CASE k.pc = "stopThread"
      BY <1>2, <1>8, <1>15, <2>1, <3>1, <3>3 DEF PairOK
    <3> QED
      BY <1>2, <3>2, <3>3
  <2>4. cc'[s].id \notin raised'
    BY <1>2, <1>8, <2>1 DEF PairOK
  <2>5. ASSUME NEW n \in 1..MaxBorn, <<s, n>> \in pinned'
        PROVE  (Live(thread'[s]) /\ thread'[s].id = n) \/ n \in raised' \cup stuck'
    <3>1. CASE n = b
      BY <1>7, <2>5, <3>1
    <3>2. CASE n # b
      BY <1>2, <1>7, <1>8, <2>1, <2>5, <3>2 DEF PairOK
    <3> QED
      BY <3>1, <3>2
  <2> QED
    BY <2>2, <2>3, <2>4, <2>5 DEF PairOK
<1>17. Gone(s, m)'
  <2>1. CASE k.pc = "stopCC"
    BY <1>8, <1>15, <2>1 DEF Gone
  <2>2. CASE k.pc = "stopThread"
    BY <1>8, <1>15, <2>2 DEF Gone
  <2> QED
    BY <1>2, <2>1, <2>2
<1>18. StopOK(c)'
  BY <1>9, <1>10, <1>11, <1>17 DEF StopOK
<1>19. Answered(c)
  BY <1>1, <1>4, <1>6, <1>17 DEF Answered
<1> QED
  BY <1>12, <1>13, <1>14, <1>16, <1>18, <1>19, StepKeeps

\* A spawn takes the next number.
LEMMA BeginStep ==
  ASSUME SessionInv, TypeOK', ShapeOK', NEW c \in Cmd, NEW s \in Session, NEW f \in Caller,
         SpawnBegin(c, s, f)
  PROVE  SessionInv' /\ \A d \in Cmd : Answered(d)
<1>1. PICK t : /\ t = Task("anchor", s, f, born + 1, NoneHeld, "none")
               /\ t.pc = "anchor" /\ t.num = born + 1 /\ t.held.cc = 0 /\ t.held.thread = 0
  <2> DEFINE r == Task("anchor", s, f, born + 1, NoneHeld, "none")
  <2>1. r.pc = "anchor" /\ r.num = born + 1 /\ r.held.cc = 0 /\ r.held.thread = 0
    BY DEF Task, NoneHeld
  <2> QED
    BY <2>1, Zenon
<1>2. /\ cmd' = [cmd EXCEPT ![c] = t] /\ cmd[c].pc = "idle" /\ born' = born + 1
      /\ UNCHANGED <<cc, thread, pinned, late, raised, stuck>>
  BY <1>1 DEF SpawnBegin, Goto
<1>3. cmd'[c] = t /\ \A d \in Cmd \ {c} : cmd'[d] = cmd[d]
  BY <1>2, Types DEF SessionInv
<1>4. /\ Fresh(c, born + 1) /\ born + 1 \in Nat /\ born \in Nat
      /\ cc[s].id # born + 1 /\ thread[s].id # born + 1
  BY FreshNumbers, Numbers DEF SessionInv
<1>5. StepOn(c, s, born + 1)
  BY <1>2, <1>3 DEF StepOn
<1>6. NumbersOK' /\ FreshOK'
  <2>1. \A m \in {cmd'[c].num, cmd'[c].held.cc, cmd'[c].held.thread} :
          m <= born' /\ m \in {0, born + 1}
    BY <1>1, <1>2, <1>3, <1>4
  <2>2. born + 1 \notin raised'
    BY <1>2, <1>4 DEF Fresh
  <2> QED
    BY <1>1, <1>2, <1>3, <1>4, <1>5, <2>1, <2>2, NumbersKept
<1>7. PairOK(s)'
  BY <1>2 DEF SessionInv, PairOK
<1>8. StopOK(c)' /\ Answered(c)
  BY <1>1, <1>2, <1>3 DEF StopOK, Answered
<1> QED
  BY <1>4, <1>5, <1>6, <1>7, <1>8, StepKeeps

\* A client registers and finds no session of its name.
LEMMA WalkInStep ==
  ASSUME SessionInv, TypeOK', ShapeOK', NEW s \in Session, ~Live(cc[s]), born' = born + 1,
         cc' = [cc EXCEPT ![s] = [id |-> born + 1, state |-> "active",
                                  parent |-> Nobody, wired |-> FALSE]],
         UNCHANGED <<thread, pinned, cmd, late, raised, stuck>>, NEW c \in Cmd
  PROVE  SessionInv' /\ \A d \in Cmd : Answered(d)
<1>1. /\ cc'[s].id = born + 1 /\ cc'[s].wired = FALSE
      /\ \A x \in Session \ {s} : cc'[x] = cc[x]
  BY Types DEF SessionInv
<1>2. /\ Fresh(c, born + 1) /\ born + 1 \in Nat /\ born \in Nat /\ born + 1 # 0
      /\ cc[s].id # born + 1 /\ thread[s].id # born + 1
  BY FreshNumbers, Numbers DEF SessionInv
<1>3. StepOn(c, s, born + 1)
  BY <1>1, <1>2 DEF StepOn
<1>n. /\ \A x \in Session : cc[x].id \in Nat /\ thread[x].id \in Nat
      /\ \A d \in Cmd : cmd[d].num \in Nat /\ cmd[d].held.cc \in Nat /\ cmd[d].held.thread \in Nat
      /\ \A n \in raised : n \in Nat
  BY Numbers DEF SessionInv
<1>4. NumbersOK'
  <2>0. NumbersOK
    BY DEF SessionInv
  <2>1. \A x \in Session : /\ cc'[x].id <= born' /\ thread'[x].id <= born'
                           /\ Live(cc'[x]) => cc'[x].id # 0
    BY <1>1, <1>2, <1>n, <2>0 DEF NumbersOK
  <2>2. \A d \in Cmd : /\ cmd'[d].num <= born' /\ cmd'[d].held.cc <= born'
                       /\ cmd'[d].held.thread <= born'
    BY <1>2, <1>n, <2>0 DEF NumbersOK
  <2>3. \A n \in raised' : n <= born'
    BY <1>2, <1>n, <2>0 DEF NumbersOK
  <2> QED
    BY <2>1, <2>2, <2>3 DEF NumbersOK
<1>5. FreshOK'
  <2> SUFFICES ASSUME NEW d \in Cmd, Spawning(cmd[d])
               PROVE  Fresh(d, cmd[d].num)' /\ cmd[d].held.cc = 0 /\ cmd[d].held.thread = 0
    BY DEF FreshOK
  <2>1. Fresh(d, cmd[d].num) /\ cmd[d].held.cc = 0 /\ cmd[d].held.thread = 0
    BY DEF SessionInv, FreshOK
  <2>2. cmd[d].num # born + 1
    BY <1>2, <1>n DEF SessionInv, NumbersOK
  <2> QED
    BY <1>1, <2>1, <2>2 DEF Fresh
<1>6. PairOK(s)'
  <2>1. PairOK(s) /\ born + 1 \notin raised
    BY <1>2 DEF SessionInv, Fresh
  <2> QED
    BY <1>1, <2>1 DEF PairOK
<1>7. StopOK(c)'
  <2>1. StopOK(c) /\ cmd[c] \in TaskType
    BY Types DEF SessionInv
  <2>2. cmd[c].pc # "idle" => cmd[c].name \in Session
    BY <2>1 DEF SessionInv, ShapeOK, TaskType
  <2>3. cmd[c].num # born + 1 /\ cmd[c].held.thread # born + 1
    BY <1>2, <1>n DEF SessionInv, NumbersOK
  <2>4. \A x \in Session : cc'[x].id = born + 1 \/ cc'[x] = cc[x]
    BY <1>1
  <2> QED
    BY <2>1, <2>2, <2>3, <2>4 DEF StopOK, Gone
<1>8. Answered(c)
  BY DEF Answered
<1> QED
  BY <1>2, <1>3, <1>4, <1>5, <1>6, <1>7, <1>8, StepKeeps

LEMMA SessionStep ==
  ASSUME SessionInv, [Next]_vars
  PROVE  SessionInv' /\ \A d \in Cmd : Answered(d)
<1>0. TypeOK' /\ ShapeOK'
  BY TypeStep DEF SessionInv
<1>t. /\ cc \in [Session -> ActorRecord] /\ thread \in [Session -> ActorRecord]
      /\ cmd \in [Cmd -> TaskType]
  BY Types DEF SessionInv
<1>c. PICK any \in Cmd : TRUE
  OBVIOUS
<1>1. ASSUME NEW c \in Cmd, NEW s \in Session, NEW f \in Caller, SpawnBegin(c, s, f)
      PROVE  SessionInv' /\ \A d \in Cmd : Answered(d)
  BY <1>0, <1>1, BeginStep
<1>2. ASSUME NEW c \in Cmd, NEW f \in Caller, SpawnRefused(c, f)
      PROVE  SessionInv' /\ \A d \in Cmd : Answered(d)
  <2> DEFINE t == [Idle("limit") EXCEPT !.caller = f]
  <2>1. /\ cmd' = [cmd EXCEPT ![c] = t] /\ cmd[c].pc = "idle"
        /\ UNCHANGED <<cc, thread, pinned, born, late, raised, stuck>>
    BY <1>2 DEF SpawnRefused, Goto
  <2>2. t.pc = "idle" /\ t.num = 0 /\ t.held.cc = 0 /\ t.held.thread = 0
    BY DEF Idle, Task
  <2> HIDE DEF t
  <2>3. cmd'[c] = t /\ \A d \in Cmd \ {c} : cmd'[d] = cmd[d]
    BY <1>t, <2>1
  <2>4. Calm
    BY <2>1 DEF Calm
  <2> QED
    BY <1>0, <2>1, <2>2, <2>3, <2>4, CalmStep
<1>3. ASSUME NEW c \in Cmd, AnchorPosted(c)
      PROVE  SessionInv' /\ \A d \in Cmd : Answered(d)
  <2>1. cmd[c].pc = "anchor" /\ UNCHANGED <<boot, pinned, born, late, stuck>>
    BY <1>3 DEF AnchorPosted
  <2>2. CASE /\ cmd' = [cmd EXCEPT ![c] = [cmd[c] EXCEPT !.pc = "pin"]]
             /\ UNCHANGED <<cc, thread, raised>>
    <3> DEFINE t == [cmd[c] EXCEPT !.pc = "pin"]
    <3>1. t.pc = "pin" /\ t.num = cmd[c].num /\ t.held = cmd[c].held
      BY <1>t DEF TaskType
    <3> HIDE DEF t
    <3>2. cmd'[c] = t /\ \A d \in Cmd \ {c} : cmd'[d] = cmd[d]
      BY <1>t, <2>2 DEF t
    <3>3. Calm
      BY <2>1, <2>2 DEF Calm
    <3>4. Spawning(cmd[c]) /\ Spawning(cmd'[c])
      BY <2>1, <3>1, <3>2 DEF Spawning
    <3> QED
      BY <1>0, <3>1, <3>2, <3>3, <3>4, CalmStep
  <2>3. CASE Enroll(c, FALSE)
    BY <1>0, <2>1, <2>3, EnrollStep DEF Spawning
  <2> QED
    BY <1>3, <2>2, <2>3 DEF AnchorPosted, Goto
<1>4. ASSUME NEW c \in Cmd, AnchorPinned(c)
      PROVE  SessionInv' /\ \A d \in Cmd : Answered(d)
  BY <1>0, <1>4, EnrollStep DEF AnchorPinned, Spawning
<1>5. ASSUME NEW c \in Cmd, NEW s \in Session, Kill(c, s)
      PROVE  SessionInv' /\ \A d \in Cmd : Answered(d)
  BY <1>0, <1>5, KillStep
<1>6. ASSUME NEW c \in Cmd, StopThread(c) \/ StopDone(c)
      PROVE  SessionInv' /\ \A d \in Cmd : Answered(d)
  BY <1>0, <1>6, EndStep
<1>7. ASSUME NEW s \in Session, Register(s)
      PROVE  SessionInv' /\ \A d \in Cmd : Answered(d)
  <2>1. UNCHANGED <<thread, pinned, cmd, late, raised, stuck>>
    BY <1>7 DEF Register
  <2>2. CASE Live(cc[s]) /\ cc' = [cc EXCEPT ![s].state = "active"] /\ born' = born
    <3>1. cc' = [cc EXCEPT ![s] = [cc[s] EXCEPT !.state = "active"]]
      BY <2>2
    <3>2. /\ \A x \in Session \ {s} : cc'[x] = cc[x]
          /\ cc'[s].id = cc[s].id /\ cc'[s].wired = cc[s].wired /\ Live(cc'[s])
      BY <1>t, <3>1 DEF ActorRecord, Live
    <3>3. Calm
      BY <2>1, <2>2, <3>2 DEF Calm
    <3> QED
      BY <1>0, <1>c, <2>1, <3>3, CalmStep
  <2>3. CASE /\ ~Live(cc[s]) /\ born' = born + 1
             /\ cc' = [cc EXCEPT ![s] = [id |-> born + 1, state |-> "active",
                                         parent |-> Nobody, wired |-> FALSE]]
    BY <1>0, <1>c, <2>1, <2>3, WalkInStep
  <2> QED
    BY <1>7, <2>2, <2>3, Zenon DEF Register
<1>8. ASSUME NEW s \in Session, OnSpawn(s) \/ Launch(s)
      PROVE  SessionInv' /\ \A d \in Cmd : Answered(d)
  <2>1. Calm /\ UNCHANGED cmd
    BY <1>8 DEF OnSpawn, Launch, Calm
  <2> QED
    BY <1>0, <1>c, <2>1, CalmStep
<1>9. ASSUME NEW s \in Session, Disconnect(s)
      PROVE  SessionInv' /\ \A d \in Cmd : Answered(d)
  <2>1. /\ cc' = [cc EXCEPT ![s] = [cc[s] EXCEPT !.state = "suspended"]]
        /\ cc[s].state = "active"
        /\ UNCHANGED <<thread, pinned, born, cmd, late, raised, stuck>>
    BY <1>9 DEF Disconnect
  <2>2. /\ \A x \in Session \ {s} : cc'[x] = cc[x]
        /\ cc'[s].id = cc[s].id /\ cc'[s].wired = cc[s].wired /\ Live(cc'[s]) /\ Live(cc[s])
    BY <1>t, <2>1 DEF ActorRecord, Live
  <2>3. Calm
    BY <2>1, <2>2 DEF Calm
  <2> QED
    BY <1>0, <1>c, <2>1, <2>3, CalmStep
<1>10. CASE UNCHANGED vars
  <2>1. Calm /\ UNCHANGED cmd
    BY <1>10 DEF vars, Calm
  <2> QED
    BY <1>0, <1>c, <2>1, CalmStep
<1> QED
  BY <1>1, <1>2, <1>3, <1>4, <1>5, <1>6, <1>7, <1>8, <1>9, <1>10 DEF Next, Command, Client

LEMMA SessionInvariant == Spec => []SessionInv
<1>1. Init => SessionInv
  <2> SUFFICES ASSUME Init PROVE SessionInv
    OBVIOUS
  <2>1. TypeOK /\ ShapeOK
    BY InitType
  <2>2. \A s \in Session : cc[s] = NoActor /\ thread[s] = NoActor
    BY DEF Init
  <2>3. NoActor.id = 0 /\ ~Live(NoActor)
    BY ActorFacts
  <2>4. \A c \in Cmd : /\ cmd[c].pc = "idle" /\ cmd[c].num = 0
                       /\ cmd[c].held.cc = 0 /\ cmd[c].held.thread = 0
    BY DEF Init, Idle, Task
  <2>5. NumbersOK
    BY <2>2, <2>3, <2>4 DEF Init, NumbersOK
  <2>6. FreshOK /\ \A c \in Cmd : StopOK(c)
    BY <2>4 DEF FreshOK, Spawning, StopOK
  <2>7. \A s \in Session : PairOK(s)
    BY <2>2, <2>3 DEF Init, PairOK
  <2> QED
    BY <2>1, <2>5, <2>6, <2>7 DEF SessionInv
<1>2. SessionInv /\ [Next]_vars => SessionInv'
  BY SessionStep
<1> QED
  BY <1>1, <1>2, PTL DEF Spec

\* A live session has the thread of its own spawn, whatever commands overlap on it,
\* unless the second stop of a kill or of a rollback took the thread.
THEOREM SessionsKeepThreads == Spec => []SessionKeepsThread
<1>1. SessionInv => SessionKeepsThread
  BY DEF SessionInv, PairOK, SessionKeepsThread, Paired
<1> QED
  BY <1>1, SessionInvariant, PTL

\* A live thread has the session of its own spawn, unless that spawn raised.
THEOREM ThreadsHaveSessions == Spec => []ThreadHasSession
<1>1. SessionInv => ThreadHasSession
  BY DEF SessionInv, PairOK, ThreadHasSession, Paired
<1> QED
  BY <1>1, SessionInvariant, PTL

\* A pin outlives its thread only if the spawn raised or the unpin was refused.
THEOREM NoPinLeft == Spec => []PinsAreLive
<1>1. SessionInv => PinsAreLive
  BY DEF SessionInv, PairOK, PinsAreLive
<1> QED
  BY <1>1, SessionInvariant, PTL

\* When /kill answers (kill.py:32-41), the session it found and its thread have
\* ended, whatever other commands and clients did while it awaited Feishu.
THEOREM KillsEnd == Spec => KillEndsSession
<1>1. SessionInv /\ [Next]_vars => [\A c \in Cmd : Answered(c)]_vars
  BY SessionStep
<1>2. [\A c \in Cmd : Answered(c)]_vars
        => [\A c \in Cmd, s \in Session, n \in 1..MaxBorn :
              (/\ cmd[c].pc # "idle" /\ cmd[c].name = s /\ cmd[c].num = n
               /\ cmd'[c].pc = "idle" /\ cmd'[c].answer = "killed")
                => Gone(s, n)']_vars
  BY DEF Answered
<1> QED
  BY <1>1, <1>2, SessionInvariant, PTL DEF Spec, KillEndsSession

\* A spawn that answers that tmux failed (spawn.py:94-100) has left neither actor.
THEOREM FailedSpawnRollsBack == Spec => FailedSpawnLeavesNothing
<1>1. SessionInv /\ [Next]_vars => [\A c \in Cmd : Answered(c)]_vars
  BY SessionStep
<1>2. [\A c \in Cmd : Answered(c)]_vars
        => [\A c \in Cmd, s \in Session, n \in 1..MaxBorn :
              (/\ cmd[c].pc # "idle" /\ cmd[c].name = s /\ cmd[c].num = n
               /\ cmd'[c].pc = "idle" /\ cmd'[c].answer = "failed")
                => Gone(s, n)']_vars
  BY DEF Answered
<1> QED
  BY <1>1, <1>2, SessionInvariant, PTL DEF Spec, FailedSpawnLeavesNothing
=============================================================================
