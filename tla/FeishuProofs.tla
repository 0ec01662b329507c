------------------------------ MODULE FeishuProofs ------------------------------
(***************************************************************************)
(* Proofs about FeishuChat, for any messages, threads and bounds.          *)
(***************************************************************************)
EXTENDS FeishuChat, TLAPS

-----------------------------------------------------------------------------
(* The invariant.                                                          *)

\* An actor awaiting the answer to its reaction is there, and the message it reacts
\* to is in its slot; one that takes its reaction away has one.
SlotOK ==
  \A a \in Actor :
    /\ loop[a].pc = "acking" => /\ Present(a)
                                /\ loop[a].mail.kind # "reply"
                                /\ actor[a].ackMsg = loop[a].mail.id
    /\ loop[a].pc = "clearing" => Present(a) /\ actor[a].ackMsg # Nothing

\* Where an actor has a message: at 0 in its loop, from 1 on in its mailbox.
Holds(a, i, m) ==
  \/ i = 0 /\ loop[a] = At("acking", Mail("message", m))
  \/ i \in DOMAIN mailbox[a] /\ mailbox[a][i] = Mail("message", m)

\* A message whose id is remembered, or was never seen: there is one copy of it as
\* long as it has not been handed over, and none afterwards.
OneCopy ==
  \A m \in Msg \ forgotten :
    /\ \A a \in Actor, i \in Nat :
         Holds(a, i, m) => m \in dedup /\ handed[m] = 0
    /\ \A a, b \in Actor, i, j \in Nat :
         Holds(a, i, m) /\ Holds(b, j, m) => a = b /\ i = j
    /\ handed[m] <= 1
    /\ handed[m] > 0 => m \in dedup

\* A message is with the actor of its place or with the chat's; a thread it was
\* posted in has had an actor.
Placed ==
  /\ \A m \in Msg, a \in Actor, i \in Nat : Holds(a, i, m) => a \in {Main, Place[m]}
  /\ \A m \in dedup \cup forgotten : Place[m] # Main => actor[Place[m]].state # "absent"

Mailed == OneCopy /\ Placed /\ MessageKept
ChatInv == TypeOK /\ SlotOK /\ TypingAccounted /\ Mailed

USE ChatAssumption DEF Actor, Id

-----------------------------------------------------------------------------
(* Mail and mailboxes.                                                     *)

LEMMA MailFacts ==
  /\ \A x \in MailType :
       /\ x = Mail(x.kind, x.id)
       /\ x.kind \in {"message", "reaction", "reply"}
       /\ x.kind = "message" => x.id \in Msg
       /\ x.kind # "reply" => x.id \in Id
  /\ \A m \in Msg : Mail("message", m) \in MailType
  /\ \A id \in Id : Mail("reaction", id) \in MailType
  /\ Mail("reply", Nothing) \in MailType
  /\ Idle \in [pc : {"idle", "acking", "clearing", "pushing"}, mail : MailType]
  /\ Idle.pc = "idle"
BY SMT DEF MailType, Mail, Idle, At

LEMMA AppendMail ==
  ASSUME NEW s \in Seq(MailType), NEW y \in MailType
  PROVE  /\ Append(s, y) \in Seq(MailType)
         /\ DOMAIN Append(s, y) = DOMAIN s \cup {Len(s) + 1}
         /\ Len(s) + 1 \notin DOMAIN s /\ Len(s) + 1 \in Nat \ {0}
         /\ Append(s, y)[Len(s) + 1] = y
         /\ \A i \in DOMAIN s : Append(s, y)[i] = s[i]
OBVIOUS

LEMMA TailMail ==
  ASSUME NEW s \in Seq(MailType), s # <<>>
  PROVE  /\ Tail(s) \in Seq(MailType)
         /\ Head(s) \in MailType /\ 1 \in DOMAIN s /\ Head(s) = s[1]
         /\ DOMAIN s \subseteq Nat \ {0}
         /\ \A i \in DOMAIN Tail(s) : i \in Nat /\ i + 1 \in DOMAIN s /\ Tail(s)[i] = s[i + 1]
         /\ \A i \in DOMAIN s \ {1} : i - 1 \in DOMAIN Tail(s) /\ Tail(s)[i - 1] = s[i]
OBVIOUS

LEMMA SlotFacts ==
  /\ NewActor \in ActorType /\ NoActor \in ActorType
  /\ [NoActor EXCEPT !.state = "ended"] \in ActorType
BY DEF NewActor, NoActor, ActorType

Loops == [Actor -> [pc : {"idle", "acking", "clearing", "pushing"}, mail : MailType]]

LEMMA LoopFacts ==
  ASSUME loop \in Loops, NEW a \in Actor
  PROVE  /\ \A x \in MailType, pc \in {"idle", "acking", "clearing", "pushing"} :
              [loop EXCEPT ![a] = At(pc, x)] \in Loops
         /\ [loop EXCEPT ![a] = Idle] \in Loops
         /\ [loop EXCEPT ![a].pc = "pushing"] \in Loops
BY MailFacts DEF Loops, At

LEMMA MetadataFacts ==
  ASSUME actor \in [Actor -> ActorType], NEW a \in Actor
  PROVE  /\ \A id \in Id : /\ [actor EXCEPT ![a].ackMsg = id] \in [Actor -> ActorType]
                           /\ [actor EXCEPT ![a].ackReaction = id] \in [Actor -> ActorType]
         /\ \A id \in Own : [actor EXCEPT ![a].sent = @ \cup {id}] \in [Actor -> ActorType]
         /\ [actor EXCEPT ![a].ackMsg = Nothing, ![a].ackReaction = Nothing]
              \in [Actor -> ActorType]
<1> DEFINE r == actor[a]
<1>1. r \in ActorType
  OBVIOUS
<1>2. \A x \in ActorType : [actor EXCEPT ![a] = x] \in [Actor -> ActorType]
  OBVIOUS
<1> HIDE DEF r
<1>3. \A id \in Id : /\ [r EXCEPT !.ackMsg = id] \in ActorType
                     /\ [r EXCEPT !.ackReaction = id] \in ActorType
  BY <1>1 DEF ActorType
<1>4. \A id \in Own : [r EXCEPT !.sent = @ \cup {id}] \in ActorType
  BY <1>1 DEF ActorType
<1>5. [r EXCEPT !.ackMsg = Nothing, !.ackReaction = Nothing] \in ActorType
  BY <1>1 DEF ActorType
<1> QED
  BY <1>2, <1>3, <1>4, <1>5, Zenon DEF r

-----------------------------------------------------------------------------
(* Types.                                                                  *)

LEMMA InitType == Init => TypeOK
<1> SUFFICES ASSUME Init PROVE TypeOK
  OBVIOUS
<1>1. table \in Seq(Actor)
  <2>1. <<>> \in Seq(Actor) /\ <<Main>> \in Seq(Actor)
    OBVIOUS
  <2> QED
    BY <2>1 DEF Init
<1>2. actor \in [Actor -> ActorType]
  BY SlotFacts DEF Init
<1>3. session \in [Actor -> {"absent", "suspended", "active", "ended"}]
  BY DEF Init
<1>4. mailbox \in [Actor -> Seq(MailType)]
  <2>1. <<>> \in Seq(MailType)
    OBVIOUS
  <2> QED
    BY <2>1 DEF Init
<1>5. loop \in [Actor -> [pc : {"idle", "acking", "clearing", "pushing"}, mail : MailType]]
  BY MailFacts DEF Init
<1>6. /\ dedup \subseteq Msg /\ typing \subseteq Id /\ posted \subseteq Own
      /\ ran \in [Msg -> Nat] /\ handed \in [Msg -> Nat]
      /\ forgotten \subseteq Msg /\ dropped \subseteq Msg /\ excused \subseteq Id
      /\ events \in 0..MaxEvents /\ restarts \in 0..MaxRestarts
  BY DEF Init
<1> QED
  BY <1>1, <1>2, <1>3, <1>4, <1>5, <1>6 DEF TypeOK

\* What comes in: an id is kept, a message appended, an actor spawned.
LEMMA RouteType ==
  ASSUME TypeOK, NEW m \in Msg, Route(m)
  PROVE  /\ Target(m) \in Actor
         /\ table' \in Seq(Actor) /\ actor' \in [Actor -> ActorType]
         /\ mailbox' \in [Actor -> Seq(MailType)]
         /\ dedup' \subseteq Msg /\ forgotten' \subseteq Msg /\ dropped' \subseteq Msg
<1> DEFINE a == Target(m)
<1>1. a \in Actor
  BY DEF Target
<1>2. table' \in Seq(Actor) /\ actor' \in [Actor -> ActorType]
  <2>1. Ensure(a)
    BY DEF Route
  <2> HIDE DEF a
  <2>2. table \in Seq(Actor) /\ actor \in [Actor -> ActorType]
    BY DEF TypeOK
  <2>3. CASE Present(a)
    BY <2>1, <2>2, <2>3 DEF Ensure
  <2>4. CASE ~Present(a)
    <3>1. Append(table, a) \in Seq(Actor)
      BY <2>2, <1>1
    <3> QED
      BY <2>1, <2>2, <2>4, <3>1, <1>1, SlotFacts DEF Ensure
  <2> QED
    BY <2>3, <2>4
<1>3. /\ mailbox' \in [Actor -> Seq(MailType)]
      /\ dedup' \subseteq Msg /\ forgotten' \subseteq Msg /\ dropped' \subseteq Msg
  <2>1. CASE m \in dedup
    BY <2>1 DEF Route, TypeOK
  <2>2. CASE m \notin dedup
    <3>1. Remember(m) /\ Put(a, Mail("message", m)) /\ dropped' = dropped \ {m}
      BY <2>2 DEF Route
    <3>2. mailbox' \in [Actor -> Seq(MailType)]
      <4> HIDE DEF a
      <4>1. mailbox \in [Actor -> Seq(MailType)] /\ Mail("message", m) \in MailType
        BY MailFacts DEF TypeOK
      <4>2. Append(mailbox[a], Mail("message", m)) \in Seq(MailType)
        BY <4>1, <1>1, AppendMail
      <4> QED
        BY <3>1, <4>1, <4>2, <1>1 DEF Put
    <3>3. dedup' \subseteq Msg /\ forgotten' \subseteq Msg /\ dropped' \subseteq Msg
      BY <3>1 DEF Remember, TypeOK
    <3> QED
      BY <3>2, <3>3
  <2> QED
    BY <2>1, <2>2
<1> QED
  BY <1>1, <1>2, <1>3

\* Something that is no message is put into some mailbox.
LEMMA PutType ==
  ASSUME TypeOK, NEW k, NEW y \in MailType, Put(k, y)
  PROVE  mailbox' \in [Actor -> Seq(MailType)]
<1>1. mailbox \in [Actor -> Seq(MailType)]
  BY DEF TypeOK
<1>2. CASE k \in Actor
  <2>1. Append(mailbox[k], y) \in Seq(MailType)
    BY <1>1, <1>2, AppendMail
  <2> QED
    BY <1>1, <1>2, <2>1 DEF Put
<1>3. CASE k \notin Actor
  <2>1. mailbox' = mailbox
    BY <1>1, <1>3 DEF Put
  <2> QED
    BY <1>1, <2>1
<1> QED
  BY <1>2, <1>3

LEMMA CutOffType ==
  ASSUME TypeOK, NEW A \in SUBSET Actor, CutOff(A), SlotOK
  PROVE  /\ mailbox' \in [Actor -> Seq(MailType)]
         /\ loop' \in Loops
         /\ typing' \subseteq Id
         /\ \A a \in Actor : loop'[a] = IF a \in A THEN Idle ELSE loop[a]
         /\ \A a \in Actor : mailbox'[a] = IF a \in A THEN <<>> ELSE mailbox[a]
<1>1. mailbox' \in [Actor -> Seq(MailType)]
  <2>1. <<>> \in Seq(MailType)
    OBVIOUS
  <2>2. mailbox \in [Actor -> Seq(MailType)]
    BY DEF TypeOK
  <2> QED
    BY <2>1, <2>2 DEF CutOff
<1>2. loop' \in Loops
  BY MailFacts DEF CutOff, TypeOK, Loops
<1>3. typing' \subseteq Id
  <2>1. PICK done \in SUBSET A :
          typing' = (typing \cup {loop[a].mail.id : a \in {b \in done : loop[b].pc = "acking"}})
                    \ {actor[a].ackMsg : a \in {b \in done : loop[b].pc = "clearing"
                                                    /\ actor[b].ackMsg = actor[b].ackReaction}}
    BY DEF CutOff
  <2>2. \A a \in Actor : loop[a].pc = "acking" => loop[a].mail.id \in Id
    <3> SUFFICES ASSUME NEW a \in Actor, loop[a].pc = "acking" PROVE loop[a].mail.id \in Id
      OBVIOUS
    <3>1. loop[a].mail \in MailType
      BY DEF TypeOK
    <3> QED
      BY <3>1, MailFacts DEF SlotOK
  <2>3. typing \subseteq Id
    BY DEF TypeOK
  <2> QED
    BY <2>1, <2>2, <2>3
<1>4. /\ \A a \in Actor : loop'[a] = IF a \in A THEN Idle ELSE loop[a]
      /\ \A a \in Actor : mailbox'[a] = IF a \in A THEN <<>> ELSE mailbox[a]
  BY DEF CutOff
<1> QED
  BY <1>1, <1>2, <1>3, <1>4

LEMMA TypeStep ==
  ASSUME TypeOK, SlotOK, [Next]_vars
  PROVE  TypeOK'
<1> USE DEF network, history
<1>t. /\ mailbox \in [Actor -> Seq(MailType)] /\ actor \in [Actor -> ActorType]
      /\ loop \in Loops
      /\ typing \subseteq Id
  BY DEF TypeOK, Loops
<1>1. ASSUME NEW m \in Msg, OnFeishuEvent(m) PROVE TypeOK'
  <2>1. /\ Receive(m)
        /\ UNCHANGED <<session, loop, typing, posted, restarts, handed, excused>>
    BY <1>1 DEF OnFeishuEvent
  <2>2. events' \in 0..MaxEvents
    BY <2>1 DEF Receive, TypeOK
  <2>3. CASE IsCommand(m)
    <3>1. Dispatch(m) /\ UNCHANGED <<table, actor, mailbox, dedup, forgotten, dropped>>
      BY <1>1, <2>3 DEF OnFeishuEvent
    <3>2. ran' \in [Msg -> Nat]
      BY <3>1 DEF Dispatch, TypeOK
    <3> QED
      BY <2>1, <2>2, <3>1, <3>2 DEF TypeOK
  <2>4. CASE ~IsCommand(m)
    <3>1. Route(m) /\ UNCHANGED ran
      BY <1>1, <2>4 DEF OnFeishuEvent
    <3> QED
      BY <2>1, <2>2, <3>1, RouteType DEF TypeOK
  <2> QED
    BY <2>3, <2>4
<1>2. ASSUME NEW id \in Id, OnFeishuReaction(id) PROVE TypeOK'
  <2>1. /\ events' \in 0..MaxEvents
        /\ UNCHANGED <<table, actor, session, loop, dedup, typing, posted, restarts,
                       ran, handed, forgotten, dropped, excused>>
    BY <1>2 DEF OnFeishuReaction, Emoji, TypeOK
  <2>2. mailbox' \in [Actor -> Seq(MailType)]
    <3>1. UNCHANGED mailbox \/ \E k : Put(k, Mail("reaction", id))
      BY <1>2 DEF OnFeishuReaction
    <3> QED
      BY <1>t, <3>1, PutType, MailFacts
  <2> QED
    BY <2>1, <2>2 DEF TypeOK, Loops
<1>3. ASSUME NEW a \in Actor, Reply(a) PROVE TypeOK'
  <2>1. /\ events' \in 0..MaxEvents
        /\ UNCHANGED <<table, actor, session, loop, dedup, typing, posted, restarts,
                       ran, handed, forgotten, dropped, excused>>
        /\ Put(a, Mail("reply", Nothing))
    BY <1>3 DEF Reply, TypeOK
  <2>2. mailbox' \in [Actor -> Seq(MailType)]
    BY <2>1, PutType, MailFacts
  <2> QED
    BY <2>1, <2>2 DEF TypeOK, Loops
<1>4. ASSUME NEW a \in Actor, Take(a) PROVE TypeOK'
  <2> DEFINE x == Head(mailbox[a])
  <2>1. mailbox[a] \in Seq(MailType) /\ mailbox[a] # <<>>
    BY <1>4, <1>t DEF Take
  <2>2. x \in MailType /\ Tail(mailbox[a]) \in Seq(MailType)
    BY <2>1, TailMail
  <2> HIDE DEF x
  <2>3. /\ mailbox' = [mailbox EXCEPT ![a] = Tail(@)]
        /\ UNCHANGED <<table, session, dedup, typing, posted, events, restarts,
                       ran, handed, forgotten, dropped>>
        /\ \/ /\ \/ loop' = [loop EXCEPT ![a] = At("clearing", x)]
                 \/ loop' = [loop EXCEPT ![a] = At("pushing", x)]
                 \/ loop' = loop
              /\ UNCHANGED <<actor, excused>>
           \/ /\ x.kind # "reply"
              /\ loop' = [loop EXCEPT ![a] = At("acking", x)]
              /\ actor' = [actor EXCEPT ![a].ackMsg = x.id]
              /\ excused' = excused \cup (Standing(actor[a]) \ {x.id})
    BY <1>4 DEF Take, x
  <2>4. mailbox' \in [Actor -> Seq(MailType)]
    BY <1>t, <2>2, <2>3
  <2>5. loop' \in Loops
    <3>1. \A pc \in {"clearing", "pushing", "acking"} : [loop EXCEPT ![a] = At(pc, x)] \in Loops
      BY <1>t, <2>2, LoopFacts
    <3>2. /\ [loop EXCEPT ![a] = At("clearing", x)] \in Loops
          /\ [loop EXCEPT ![a] = At("pushing", x)] \in Loops
          /\ [loop EXCEPT ![a] = At("acking", x)] \in Loops
      BY <3>1
    <3> QED
      BY <1>t, <2>3, <3>2, Zenon
  <2>6. actor' \in [Actor -> ActorType] /\ excused' \subseteq Id
    <3>1. x.kind # "reply" => x.id \in Id
      BY <2>2, MailFacts
    <3>2. Standing(actor[a]) \subseteq Id
      BY <1>t DEF Standing, ActorType
    <3>3. excused \subseteq Id
      BY DEF TypeOK
    <3>4. x.id \in Id => [actor EXCEPT ![a].ackMsg = x.id] \in [Actor -> ActorType]
      BY <1>t, MetadataFacts, Zenon
    <3>5. actor' \in [Actor -> ActorType]
      BY <1>t, <2>3, <3>1, <3>4, Zenon
    <3>6. excused' \subseteq Id
      BY <2>3, <3>2, <3>3
    <3> QED
      BY <3>5, <3>6
  <2> QED
    BY <2>3, <2>4, <2>5, <2>6 DEF TypeOK, Loops
<1>5. ASSUME NEW a \in Actor, Acked(a) PROVE TypeOK'
  <2> DEFINE x == loop[a].mail
  <2>1. x \in MailType /\ x.kind # "reply"
    BY <1>5, <1>t DEF Acked, SlotOK, Loops
  <2>2. x.id \in Id /\ (x.kind = "message" => x.id \in Msg)
    BY <2>1, MailFacts
  <2>3. /\ typing' \in {typing, typing \cup {x.id}}
        /\ actor' = actor \/ actor' = [actor EXCEPT ![a].ackReaction = x.id]
        /\ excused' \in {excused, excused \cup {x.id}}
        /\ handed' = IF x.kind = "message" /\ session[a] \notin {"absent", "ended"}
                     THEN [handed EXCEPT ![x.id] = @ + 1] ELSE handed
        /\ loop' = [loop EXCEPT ![a] = Idle]
        /\ UNCHANGED <<table, session, mailbox, dedup, posted, events, restarts, ran, forgotten,
                       dropped>>
    BY <1>5 DEF Acked
  <2> HIDE DEF x
  <2>4. typing' \subseteq Id /\ excused' \subseteq Id
    BY <2>2, <2>3 DEF TypeOK
  <2>5. actor' \in [Actor -> ActorType]
    <3>1. [actor EXCEPT ![a].ackReaction = x.id] \in [Actor -> ActorType]
      BY <1>t, <2>2, MetadataFacts, Zenon
    <3> QED
      BY <1>t, <2>3, <3>1, Zenon
  <2>6. handed' \in [Msg -> Nat]
    <3>1. handed \in [Msg -> Nat]
      BY DEF TypeOK
    <3>2. CASE x.kind = "message" /\ session[a] \notin {"absent", "ended"}
      BY <2>2, <2>3, <3>1, <3>2
    <3>3. CASE ~(x.kind = "message" /\ session[a] \notin {"absent", "ended"})
      BY <2>3, <3>1, <3>3
    <3> QED
      BY <3>2, <3>3
  <2>7. loop' \in Loops
    BY <1>t, <2>3, LoopFacts
  <2> QED
    BY <2>3, <2>4, <2>5, <2>6, <2>7 DEF TypeOK, Loops
<1>6. ASSUME NEW a \in Actor, Cleared(a) PROVE TypeOK'
  <2> DEFINE m == actor[a].ackMsg
  <2>1. /\ \/ UNCHANGED <<typing, excused>>
           \/ /\ actor[a].ackReaction = m
              /\ typing' \in {typing, typing \ {m}} /\ excused' \in {excused, excused \cup {m}}
        /\ actor' = [actor EXCEPT ![a].ackMsg = Nothing, ![a].ackReaction = Nothing]
        /\ loop' = [loop EXCEPT ![a].pc = "pushing"]
        /\ UNCHANGED <<table, session, mailbox, dedup, posted, events, restarts,
                       ran, handed, forgotten, dropped>>
    BY <1>6 DEF Cleared
  <2>2. m \in Id
    BY <1>6, <1>t DEF Cleared, SlotOK, ActorType
  <2> HIDE DEF m
  <2>3. typing' \subseteq Id /\ excused' \subseteq Id
    BY <2>1, <2>2 DEF TypeOK
  <2>4. actor' \in [Actor -> ActorType]
    BY <1>t, <2>1, MetadataFacts
  <2>5. loop' \in Loops
    BY <1>t, <2>1, LoopFacts
  <2> QED
    BY <2>1, <2>3, <2>4, <2>5 DEF TypeOK, Loops
<1>7. ASSUME NEW a \in Actor, Pushed(a) PROVE TypeOK'
  <2>1. /\ loop' = [loop EXCEPT ![a] = Idle]
        /\ UNCHANGED <<table, session, mailbox, dedup, typing, events, restarts,
                       ran, handed, forgotten, dropped, excused>>
        /\ \/ UNCHANGED <<posted, actor>>
           \/ \E id \in Own \ posted :
                /\ posted' = posted \cup {id}
                /\ actor' = actor \/ actor' = [actor EXCEPT ![a].sent = @ \cup {id}]
    BY <1>7 DEF Pushed
  <2>2. loop' \in Loops
    BY <1>t, <2>1, LoopFacts
  <2>3. posted' \subseteq Own /\ actor' \in [Actor -> ActorType]
    <3>1. posted \subseteq Own
      BY DEF TypeOK
    <3>2. posted' \subseteq Own
      BY <2>1, <3>1
    <3>3. actor' \in [Actor -> ActorType]
      <4>1. CASE actor' = actor
        BY <1>t, <4>1
      <4>2. CASE actor' # actor
        <5>1. PICK id \in Own : actor' = [actor EXCEPT ![a].sent = @ \cup {id}]
          BY <2>1, <4>2
        <5> QED
          BY <1>t, <5>1, MetadataFacts, Zenon
      <4> QED
        BY <4>1, <4>2
    <3> QED
      BY <3>2, <3>3
  <2> QED
    BY <2>1, <2>2, <2>3 DEF TypeOK, Loops
<1>8. ASSUME NEW t \in Thread, OpenThread(t) PROVE TypeOK'
  <2>1. Append(table, t) \in Seq(Actor)
    BY DEF TypeOK
  <2>2. actor' \in [Actor -> ActorType]
    BY <1>8, <1>t, SlotFacts DEF OpenThread
  <2>3. session' \in [Actor -> {"absent", "suspended", "active", "ended"}]
    BY <1>8 DEF OpenThread, TypeOK
  <2> QED
    BY <1>8, <2>1, <2>2, <2>3 DEF OpenThread, TypeOK, Loops
<1>9. ASSUME NEW t \in Thread, Connect(t) \/ Disconnect(t) PROVE TypeOK'
  <2>1. session' \in [Actor -> {"absent", "suspended", "active", "ended"}]
    BY <1>9 DEF Connect, Disconnect, TypeOK
  <2> QED
    BY <1>9, <2>1 DEF Connect, Disconnect, TypeOK, Loops
<1>10. ASSUME NEW t \in Thread, EndThread(t) PROVE TypeOK'
  <2>1. CutOff({t}) /\ {t} \in SUBSET Actor
    BY <1>10 DEF EndThread
  <2>2. actor' \in [Actor -> ActorType]
    BY <1>10, <1>t, SlotFacts DEF EndThread
  <2>3. session' \in [Actor -> {"absent", "suspended", "active", "ended"}]
    BY <1>10 DEF EndThread, TypeOK
  <2>4. excused' \subseteq Id
    <3>1. Standing(actor[t]) \subseteq Id
      BY <1>t DEF Standing, ActorType
    <3> QED
      BY <1>10, <3>1 DEF EndThread, TypeOK
  <2> QED
    BY <1>10, <2>1, <2>2, <2>3, <2>4, CutOffType DEF EndThread, TypeOK, Loops
<1>11. CASE Restart
  <2>1. CutOff(Actor) /\ Actor \in SUBSET Actor
    BY <1>11 DEF Restart
  <2>2. session' \in [Actor -> {"absent", "suspended", "active", "ended"}]
    BY <1>11 DEF Restart, TypeOK
  <2>3. excused' \subseteq Id
    <3>1. \A b \in Actor : loop[b].pc = "acking" => loop[b].mail.id \in Id
      <4> SUFFICES ASSUME NEW b \in Actor, loop[b].pc = "acking" PROVE loop[b].mail.id \in Id
        OBVIOUS
      <4>1. loop[b].mail \in MailType
        BY <1>t DEF Loops
      <4> QED
        BY <4>1, MailFacts DEF SlotOK
    <3>2. excused \subseteq Id
      BY DEF TypeOK
    <3> QED
      BY <1>11, <3>1, <3>2 DEF Restart
  <2>4. restarts' \in 0..MaxRestarts /\ dedup' \subseteq Msg /\ forgotten' \subseteq Msg
        /\ dropped' \subseteq Msg
    BY <1>11 DEF Restart, TypeOK
  <2> QED
    BY <1>11, <2>1, <2>2, <2>3, <2>4, CutOffType DEF Restart, TypeOK, Loops
<1>12. CASE UNCHANGED vars
  BY <1>12 DEF vars, TypeOK
<1> QED
  BY <1>1, <1>2, <1>3, <1>4, <1>5, <1>6, <1>7, <1>8, <1>9, <1>10, <1>11, <1>12
  DEF Next, Handle

-----------------------------------------------------------------------------
(* The slot and the reactions.                                             *)

\* What a step does to the metadata and the loop of the actors: a slot changes when its
\* loop awaits no answer for it, and an actor that awaits one stays.
LEMMA SlotStep ==
  ASSUME TypeOK, SlotOK, [Next]_vars
  PROVE  SlotOK'
<1>t. /\ mailbox \in [Actor -> Seq(MailType)] /\ actor \in [Actor -> ActorType]
      /\ loop \in Loops
  BY DEF TypeOK, Loops
<1>i. \A k \in Actor : Idle.pc = "idle" /\ loop[k].pc \in {"idle", "acking", "clearing", "pushing"}
  BY <1>t DEF Loops, Idle, At
<1>s. ASSUME UNCHANGED <<actor, loop>> PROVE SlotOK'
  BY <1>s DEF SlotOK, Present
<1>1. ASSUME NEW m \in Msg, OnFeishuEvent(m) PROVE SlotOK'
  <2>1. UNCHANGED loop /\ (UNCHANGED actor \/ Ensure(Target(m)))
    BY <1>1 DEF OnFeishuEvent, Route
  <2>2. ASSUME NEW k, Ensure(k) PROVE SlotOK'
    <3>1. \A b \in Actor : actor'[b] = actor[b] \/ (~Present(b) /\ b = k)
      BY <2>2, <1>t DEF Ensure
    <3> QED
      BY <2>1, <3>1 DEF SlotOK, Present
  <2> QED
    BY <2>1, <2>2, <1>s
<1>2. ASSUME NEW id \in Id, OnFeishuReaction(id) PROVE SlotOK'
  BY <1>2, <1>s DEF OnFeishuReaction
<1>3. ASSUME NEW a \in Actor, Reply(a) PROVE SlotOK'
  BY <1>3, <1>s DEF Reply
<1>4. ASSUME NEW a \in Actor, Take(a) PROVE SlotOK'
  <2> DEFINE x == Head(mailbox[a])
  <2> HIDE DEF x
  <2>1. /\ Present(a)
        /\ \/ UNCHANGED <<actor, loop>>
           \/ /\ loop' = [loop EXCEPT ![a] = At("clearing", x)] /\ actor[a].ackMsg # Nothing
              /\ UNCHANGED actor
           \/ /\ loop' = [loop EXCEPT ![a] = At("pushing", x)] /\ UNCHANGED actor
           \/ /\ x.kind # "reply"
              /\ loop' = [loop EXCEPT ![a] = At("acking", x)]
              /\ actor' = [actor EXCEPT ![a].ackMsg = x.id]
    BY <1>4 DEF Take, x
  <2>2. \A b \in Actor \ {a} : loop'[b] = loop[b] /\ actor'[b] = actor[b]
    BY <2>1, <1>t DEF Loops
  <2>3. \/ UNCHANGED <<actor, loop>>
        \/ loop'[a].pc = "clearing" /\ actor[a].ackMsg # Nothing /\ actor'[a] = actor[a]
        \/ loop'[a].pc = "pushing" /\ actor'[a] = actor[a]
        \/ /\ loop'[a].pc = "acking" /\ loop'[a].mail = x /\ x.kind # "reply"
           /\ actor'[a].ackMsg = x.id /\ actor'[a].state = actor[a].state
    BY <2>1, <1>t DEF Loops, At, ActorType
  <2> QED
    BY <2>1, <2>2, <2>3 DEF SlotOK, Present
<1>5. ASSUME NEW a \in Actor, Acked(a) \/ Cleared(a) \/ Pushed(a) PROVE SlotOK'
  <2>1. \A b \in Actor \ {a} : loop'[b] = loop[b] /\ actor'[b] = actor[b]
    BY <1>5, <1>t DEF Acked, Cleared, Pushed, Loops
  <2>2. loop'[a].pc \in {"idle", "pushing"}
    BY <1>5, <1>t, <1>i DEF Acked, Cleared, Pushed, Loops
  <2> QED
    BY <2>1, <2>2 DEF SlotOK, Present
<1>6. ASSUME NEW t \in Thread, OpenThread(t) PROVE SlotOK'
  <2>1. \A b \in Actor : actor'[b] = actor[b] \/ (~Present(b) /\ b = t)
    BY <1>6, <1>t DEF OpenThread, Present
  <2> QED
    BY <1>6, <2>1 DEF OpenThread, SlotOK, Present
<1>7. ASSUME NEW t \in Thread, Connect(t) \/ Disconnect(t) PROVE SlotOK'
  BY <1>7, <1>s DEF Connect, Disconnect
<1>8. ASSUME NEW t \in Thread, EndThread(t) PROVE SlotOK'
  <2>1. \A b \in Actor \ {t} : actor'[b] = actor[b]
    BY <1>8, <1>t DEF EndThread
  <2>2. \A b \in Actor : loop'[b] = IF b = t THEN Idle ELSE loop[b]
    BY <1>8 DEF EndThread, CutOff
  <2> QED
    BY <2>1, <2>2, <1>i DEF SlotOK, Present
<1>9. CASE Restart
  <2>1. \A b \in Actor : loop'[b] = Idle
    BY <1>9, CutOffType DEF Restart
  <2> QED
    BY <2>1, <1>i DEF SlotOK
<1>10. CASE UNCHANGED vars
  BY <1>10, <1>s DEF vars
<1> QED
  BY <1>1, <1>2, <1>3, <1>4, <1>5, <1>6, <1>7, <1>8, <1>9, <1>10 DEF Next, Handle

LEMMA TypingStep ==
  ASSUME TypeOK, SlotOK, TypingAccounted, [Next]_vars
  PROVE  TypingAccounted'
<1>t. /\ mailbox \in [Actor -> Seq(MailType)] /\ actor \in [Actor -> ActorType]
      /\ loop \in Loops /\ typing \subseteq Id /\ Nothing \notin Id
  BY DEF TypeOK, Loops
<1>s. ASSUME UNCHANGED <<actor, typing, excused>> PROVE TypingAccounted'
  BY <1>s DEF TypingAccounted, Present
\* The slot that held m is as it was, or m may stay.
<1>k. ASSUME typing' \subseteq typing, excused \subseteq excused',
             \A a \in Actor : \A m \in typing \ excused' :
               Present(a) /\ actor[a].ackMsg = m /\ actor[a].ackReaction = m =>
                 \/ actor'[a].state = actor[a].state /\ actor'[a].ackMsg = m
                      /\ actor'[a].ackReaction = m
                 \/ m \notin typing'
      PROVE  TypingAccounted'
  BY <1>k DEF TypingAccounted, Present
<1>1. ASSUME NEW m \in Msg, OnFeishuEvent(m) PROVE TypingAccounted'
  <2>1. UNCHANGED <<typing, excused>> /\ (UNCHANGED actor \/ Ensure(Target(m)))
    BY <1>1 DEF OnFeishuEvent, Route
  <2>2. ASSUME NEW k, Ensure(k) PROVE TypingAccounted'
    <3>1. \A b \in Actor : actor'[b] = actor[b] \/ ~Present(b)
      BY <2>2, <1>t DEF Ensure
    <3> QED
      BY <2>1, <3>1, <1>k
  <2> QED
    BY <2>1, <2>2, <1>s
<1>2. ASSUME NEW id \in Id, OnFeishuReaction(id) PROVE TypingAccounted'
  BY <1>2, <1>s DEF OnFeishuReaction, history
<1>3. ASSUME NEW a \in Actor, Reply(a) PROVE TypingAccounted'
  BY <1>3, <1>s DEF Reply, history
<1>4. ASSUME NEW a \in Actor, Take(a) PROVE TypingAccounted'
  <2> DEFINE x == Head(mailbox[a])
  <2> HIDE DEF x
  <2>1. /\ UNCHANGED typing
        /\ \/ UNCHANGED <<actor, excused>>
           \/ /\ actor' = [actor EXCEPT ![a].ackMsg = x.id]
              /\ excused' = excused \cup (Standing(actor[a]) \ {x.id})
    BY <1>4 DEF Take, x
  <2>2. CASE UNCHANGED <<actor, excused>>
    BY <2>1, <2>2, <1>s
  <2>3. ASSUME actor' = [actor EXCEPT ![a].ackMsg = x.id],
               excused' = excused \cup (Standing(actor[a]) \ {x.id})
        PROVE  TypingAccounted'
    <3>1. \A b \in Actor \ {a} : actor'[b] = actor[b]
      BY <2>3, <1>t
    <3>2. /\ actor'[a].ackMsg = x.id /\ actor'[a].state = actor[a].state
          /\ actor'[a].ackReaction = actor[a].ackReaction
      BY <2>3, <1>t DEF ActorType
    <3>3. \A m \in typing \ excused' : actor[a].ackMsg = m => m = x.id
      BY <2>3, <1>t DEF Standing
    <3> QED
      BY <2>1, <2>3, <3>1, <3>2, <3>3, <1>k
  <2> QED
    BY <2>1, <2>2, <2>3
<1>5. ASSUME NEW a \in Actor, Acked(a) PROVE TypingAccounted'
  <2> DEFINE y == loop[a].mail.id
  <2>1. Present(a) /\ actor[a].ackMsg = y
    BY <1>5 DEF Acked, SlotOK
  <2> HIDE DEF y
  <2>2. \/ UNCHANGED <<typing, actor, excused>>
        \/ UNCHANGED actor /\ typing' = typing \cup {y} /\ excused' = excused \cup {y}
        \/ /\ actor' = [actor EXCEPT ![a].ackReaction = y]
           /\ typing' = typing \cup {y} /\ UNCHANGED excused
    BY <1>5 DEF Acked, Outcome, y
  <2>3. CASE UNCHANGED <<typing, actor, excused>>
    BY <2>3, <1>s
  <2>4. CASE UNCHANGED actor /\ typing' = typing \cup {y} /\ excused' = excused \cup {y}
    BY <2>4 DEF TypingAccounted, Present
  <2>5. ASSUME actor' = [actor EXCEPT ![a].ackReaction = y],
               typing' = typing \cup {y}, UNCHANGED excused
        PROVE  TypingAccounted'
    <3>1. \A b \in Actor \ {a} : actor'[b] = actor[b]
      BY <2>5, <1>t
    <3>2. /\ actor'[a].ackMsg = y /\ actor'[a].state = "active"
          /\ actor'[a].ackReaction = y
      BY <2>1, <2>5, <1>t DEF ActorType, Present
    <3> QED
      BY <2>1, <2>5, <3>1, <3>2 DEF TypingAccounted, Present
  <2> QED
    BY <2>2, <2>3, <2>4, <2>5
<1>6. ASSUME NEW a \in Actor, Cleared(a) PROVE TypingAccounted'
  <2> DEFINE m == actor[a].ackMsg
  <2>1. /\ \/ UNCHANGED <<typing, excused>> /\ actor[a].ackReaction # m
           \/ UNCHANGED typing /\ excused' = excused \cup {m}
           \/ typing' = typing \ {m} /\ UNCHANGED excused
        /\ actor' = [actor EXCEPT ![a].ackMsg = Nothing, ![a].ackReaction = Nothing]
    BY <1>6 DEF Cleared, Outcome
  <2>2. \A b \in Actor \ {a} : actor'[b] = actor[b]
    BY <2>1, <1>t
  <2> QED
    BY <2>1, <2>2, <1>k
<1>7. ASSUME NEW a \in Actor, Pushed(a) PROVE TypingAccounted'
  <2>1. /\ UNCHANGED <<typing, excused>>
        /\ \/ UNCHANGED actor
           \/ \E id \in Own : actor' = [actor EXCEPT ![a].sent = @ \cup {id}]
    BY <1>7 DEF Pushed, history
  <2>2. \A b \in Actor : /\ actor'[b].state = actor[b].state
                         /\ actor'[b].ackMsg = actor[b].ackMsg
                         /\ actor'[b].ackReaction = actor[b].ackReaction
    <3>1. CASE UNCHANGED actor
      BY <3>1
    <3>2. ASSUME NEW id \in Own, actor' = [actor EXCEPT ![a].sent = @ \cup {id}],
                 NEW b \in Actor
          PROVE  /\ actor'[b].state = actor[b].state
                 /\ actor'[b].ackMsg = actor[b].ackMsg
                 /\ actor'[b].ackReaction = actor[b].ackReaction
      <4>1. actor'[b] = IF b = a THEN [actor[a] EXCEPT !.sent = @ \cup {id}] ELSE actor[b]
        BY <3>2, <1>t
      <4>2. actor[a] \in ActorType
        BY <1>t
      <4> QED
        BY <4>1, <4>2 DEF ActorType
    <3> QED
      BY <2>1, <3>1, <3>2
  <2> QED
    BY <2>1, <2>2, <1>k
<1>8. ASSUME NEW t \in Thread, OpenThread(t) PROVE TypingAccounted'
  <2>1. \A b \in Actor : actor'[b] = actor[b] \/ ~Present(b)
    BY <1>8, <1>t DEF OpenThread, Present
  <2>2. UNCHANGED <<typing, excused>>
    BY <1>8 DEF OpenThread, history
  <2> QED
    BY <2>1, <2>2, <1>k
<1>9. ASSUME NEW t \in Thread, Connect(t) \/ Disconnect(t) PROVE TypingAccounted'
  BY <1>9, <1>s DEF Connect, Disconnect, history
<1>10. ASSUME NEW t \in Thread, EndThread(t) PROVE TypingAccounted'
  <2>1. \A b \in Actor \ {t} : actor'[b] = actor[b]
    BY <1>10, <1>t DEF EndThread
  <2>2. /\ excused' = excused \cup Standing(actor[t])
        /\ CutOff({t})
    BY <1>10 DEF EndThread
  <2>3. \A m \in typing' : m \in typing \/ (loop[t].pc = "acking" /\ m = loop[t].mail.id)
    BY <2>2 DEF CutOff
  <2>4. loop[t].pc = "acking" => loop[t].mail.id \in Standing(actor[t])
    <3>1. CASE loop[t].pc = "acking"
      <4>1. loop[t].mail \in MailType /\ loop[t].mail.kind # "reply"
            /\ actor[t].ackMsg = loop[t].mail.id
        BY <1>t, <3>1 DEF SlotOK, Loops
      <4>2. loop[t].mail.id \in Id
        BY <4>1, MailFacts
      <4> QED
        BY <4>1, <4>2 DEF Standing
    <3> QED
      BY <3>1
  <2>5. \A m \in typing \ excused' : actor[t].ackMsg # m
    BY <2>2, <1>t DEF Standing
  <2> QED
    BY <2>1, <2>2, <2>3, <2>4, <2>5 DEF TypingAccounted, Present
<1>11. CASE Restart
  <2>1. /\ UNCHANGED actor /\ CutOff(Actor)
        /\ excused' = excused \cup {loop[a].mail.id : a \in {b \in Actor : loop[b].pc = "acking"}}
    BY <1>11 DEF Restart
  <2>2. typing' \subseteq typing \cup excused'
    BY <2>1 DEF CutOff
  <2> QED
    BY <2>1, <2>2 DEF TypingAccounted, Present
<1>12. CASE UNCHANGED vars
  BY <1>12, <1>s DEF vars, history
<1> QED
  BY <1>1, <1>2, <1>3, <1>4, <1>5, <1>6, <1>7, <1>8, <1>9, <1>10, <1>11, <1>12
  DEF Next, Handle

-----------------------------------------------------------------------------
(* The messages.                                                           *)

LEMMA WaitingHolds ==
  ASSUME TypeOK, NEW a \in Actor, NEW m \in Msg
  PROVE  Waiting(a, m) <=> \E i \in Nat : Holds(a, i, m)
<1>1. mailbox[a] \in Seq(MailType)
  BY DEF TypeOK
<1>2. DOMAIN mailbox[a] \subseteq Nat
  BY <1>1
<1> QED
  BY <1>2 DEF Waiting, Holds

\* A step that copies nothing, hands nothing over and forgets nothing, by which an
\* actor's messages may move up by one, keeps the copies in order.
LEMMA CopiesCarry ==
  ASSUME OneCopy, Placed, NEW s \in [Actor -> {0, 1}],
         \A a \in Actor, i \in Nat, m \in Msg : Holds(a, i, m)' => Holds(a, i + s[a], m),
         UNCHANGED <<dedup, handed, forgotten>>,
         \A a \in Actor : actor[a].state # "absent" => actor'[a].state # "absent",
         dedup \subseteq Msg, forgotten \subseteq Msg
  PROVE  OneCopy' /\ Placed'
<1>1. ASSUME NEW a \in Actor, NEW i \in Nat PROVE i + s[a] \in Nat
  <2>1. s[a] = 0 \/ s[a] = 1
    OBVIOUS
  <2> QED
    BY <2>1
<1>4. \A m \in Msg \ forgotten :
        /\ \A a \in Actor, i \in Nat : Holds(a, i, m) => m \in dedup /\ handed[m] = 0
        /\ \A a, b \in Actor, i, j \in Nat : Holds(a, i, m) /\ Holds(b, j, m) => a = b /\ i = j
        /\ handed[m] <= 1
        /\ handed[m] > 0 => m \in dedup
  BY Zenon DEF OneCopy
<1>2. OneCopy'
  <2> SUFFICES ASSUME NEW m \in Msg \ forgotten
               PROVE  /\ \A a \in Actor, i \in Nat :
                           Holds(a, i, m)' => m \in dedup /\ handed[m] = 0
                      /\ \A a, b \in Actor, i, j \in Nat :
                           Holds(a, i, m)' /\ Holds(b, j, m)' => a = b /\ i = j
                      /\ handed[m] <= 1
                      /\ handed[m] > 0 => m \in dedup
    BY DEF OneCopy
  <2>1. ASSUME NEW a \in Actor, NEW i \in Nat, Holds(a, i, m)'
        PROVE  m \in dedup /\ handed[m] = 0
    <3>1. Holds(a, i + s[a], m) /\ i + s[a] \in Nat
      BY <1>1, <2>1
    <3> QED
      BY <1>4, <3>1, Zenon
  <2>2. ASSUME NEW a \in Actor, NEW b \in Actor, NEW i \in Nat, NEW j \in Nat,
               Holds(a, i, m)', Holds(b, j, m)'
        PROVE  a = b /\ i = j
    <3>1. /\ Holds(a, i + s[a], m) /\ Holds(b, j + s[b], m)
          /\ i + s[a] \in Nat /\ j + s[b] \in Nat
      BY <1>1, <2>2
    <3>2. a = b /\ i + s[a] = j + s[b]
      BY <1>4, <3>1, Zenon
    <3>3. s[a] = 0 \/ s[a] = 1
      OBVIOUS
    <3> QED
      BY <3>2, <3>3
  <2> QED
    BY <1>4, <2>1, <2>2
<1>3. Placed'
  <2>1. ASSUME NEW m \in Msg, NEW a \in Actor, NEW i \in Nat, Holds(a, i, m)'
        PROVE  a \in {Main, Place[m]}
    <3>1. Holds(a, i + s[a], m) /\ i + s[a] \in Nat
      BY <1>1, <2>1
    <3> QED
      BY <3>1, Zenon DEF Placed
  <2>2. \A m \in dedup \cup forgotten : Place[m] \in Actor
    OBVIOUS
  <2> QED
    BY <2>1, <2>2 DEF Placed
<1> QED
  BY <1>2, <1>3

LEMMA KeptCarry ==
  ASSUME MessageKept, UNCHANGED <<dedup, forgotten, dropped, handed>>,
         dedup \subseteq Msg, forgotten \subseteq Msg,
         \A a \in Actor, m \in Msg : Waiting(a, m) => Waiting(a, m)',
         \A a \in Actor : session[a] \in {"absent", "ended"} => session'[a] \in {"absent", "ended"}
  PROVE  MessageKept'
BY DEF MessageKept

\* A step that moves no message.
LEMMA StillCarry ==
  ASSUME TypeOK, Mailed,
         \A a \in Actor, i \in Nat, m \in Msg : Holds(a, i, m)' <=> Holds(a, i, m),
         TypeOK',
         UNCHANGED <<dedup, handed, forgotten, dropped>>,
         \A a \in Actor : actor[a].state # "absent" => actor'[a].state # "absent",
         \A a \in Actor : session[a] \in {"absent", "ended"} => session'[a] \in {"absent", "ended"}
  PROVE  Mailed'
<1>1. [a \in Actor |-> 0] \in [Actor -> {0, 1}]
  OBVIOUS
<1>2. \A a \in Actor, i \in Nat, m \in Msg :
        Holds(a, i, m)' => Holds(a, i + [b \in Actor |-> 0][a], m)
  OBVIOUS
<1>3. dedup \subseteq Msg /\ forgotten \subseteq Msg
  BY DEF TypeOK
<1>4. OneCopy' /\ Placed'
  BY <1>1, <1>2, <1>3, CopiesCarry DEF Mailed
<1>5. \A a \in Actor, m \in Msg : Waiting(a, m) => Waiting(a, m)'
  <2> SUFFICES ASSUME NEW a \in Actor, NEW m \in Msg, Waiting(a, m) PROVE Waiting(a, m)'
    OBVIOUS
  <2>1. PICK i \in Nat : Holds(a, i, m)
    BY WaitingHolds
  <2>2. Holds(a, i, m)'
    BY <2>1
  <2> QED
    BY <2>2 DEF Waiting, Holds
<1>6. MessageKept'
  BY <1>3, <1>5, KeptCarry DEF Mailed
<1> QED
  BY <1>4, <1>6 DEF Mailed

LEMMA AckedCopies ==
  ASSUME TypeOK, Mailed, TypeOK', NEW a \in Actor, Acked(a)
  PROVE  Mailed'
<1> DEFINE x == loop[a].mail
<1>1. /\ loop[a] = At("acking", x) /\ x \in MailType
      /\ loop' = [loop EXCEPT ![a] = Idle]
      /\ UNCHANGED <<session, mailbox, dedup, forgotten, dropped>>
  BY DEF Acked, TypeOK, At
<1>2. handed' = IF x.kind = "message" /\ session[a] \notin {"absent", "ended"}
                THEN [handed EXCEPT ![x.id] = @ + 1] ELSE handed
  BY DEF Acked
<1>3. x = Mail(x.kind, x.id) /\ (x.kind = "message" => x.id \in Msg)
  BY <1>1, MailFacts
<1> HIDE DEF x
<1>4. /\ loop \in [Actor -> [pc : {"idle", "acking", "clearing", "pushing"}, mail : MailType]]
      /\ handed \in [Msg -> Nat] /\ dedup \subseteq Msg /\ forgotten \subseteq Msg
      /\ actor \in [Actor -> ActorType]
  BY DEF TypeOK
<1>5. loop'[a] = Idle /\ \A b \in Actor \ {a} : loop'[b] = loop[b]
  BY <1>1, <1>4
<1>6. \A b \in Actor, i \in Nat, m \in Msg :
        Holds(b, i, m)' <=> /\ Holds(b, i, m)
                            /\ b = a /\ x = Mail("message", m) => i # 0
  <2> SUFFICES ASSUME NEW b \in Actor, NEW i \in Nat, NEW m \in Msg
               PROVE  Holds(b, i, m)' <=> /\ Holds(b, i, m)
                                          /\ b = a /\ x = Mail("message", m) => i # 0
    OBVIOUS
  <2>1. mailbox[b] \in Seq(MailType)
    BY DEF TypeOK
  <2>2. 0 \notin DOMAIN mailbox[b]
    BY <2>1
  <2>3. Idle # At("acking", Mail("message", m))
    BY DEF Idle, At
  <2>4. At("acking", x) = At("acking", Mail("message", m)) <=> x = Mail("message", m)
    BY DEF At
  <2>5. UNCHANGED mailbox
    BY <1>1
  <2> QED
    BY <1>1, <1>5, <2>2, <2>3, <2>4, <2>5 DEF Holds
<1>7. \A b \in Actor : actor'[b].state = actor[b].state
  <2>1. actor' = actor \/ actor' = [actor EXCEPT ![a].ackReaction = x.id]
    BY DEF Acked, x
  <2>2. CASE actor' = [actor EXCEPT ![a].ackReaction = x.id]
    BY <2>2, <1>4 DEF ActorType
  <2> QED
    BY <2>1, <2>2
<1>8. CASE x.kind = "message"
  <2> DEFINE n == x.id
  <2>1. n \in Msg /\ x = Mail("message", n) /\ \A m \in Msg \ {n} : x # Mail("message", m)
    BY <1>3, <1>8 DEF Mail
  <2> HIDE DEF n
  <2>2. Holds(a, 0, n)
    BY <1>1, <2>1 DEF Holds
  <2>3. a \in {Main, Place[n]}
    BY <2>1, <2>2 DEF Mailed, Placed
  <2>4. /\ \A m \in Msg \ {n} : handed'[m] = handed[m]
        /\ handed'[n] = IF session[a] \notin {"absent", "ended"} THEN handed[n] + 1 ELSE handed[n]
    BY <1>2, <1>4, <1>8, <2>1 DEF n
  <2>5. OneCopy'
    <3> SUFFICES ASSUME NEW m \in Msg \ forgotten
                 PROVE  /\ \A b \in Actor, i \in Nat :
                             Holds(b, i, m)' => m \in dedup /\ handed'[m] = 0
                        /\ \A b, c \in Actor, i, j \in Nat :
                             Holds(b, i, m)' /\ Holds(c, j, m)' => b = c /\ i = j
                        /\ handed'[m] <= 1
                        /\ handed'[m] > 0 => m \in dedup
      BY <1>1 DEF OneCopy
    <3>0. /\ \A b \in Actor, i \in Nat :
               Holds(b, i, m) => m \in dedup /\ handed[m] = 0
          /\ \A b, c \in Actor, i, j \in Nat :
               Holds(b, i, m) /\ Holds(c, j, m) => b = c /\ i = j
          /\ handed[m] <= 1
          /\ handed[m] > 0 => m \in dedup
      BY DEF Mailed, OneCopy
    <3>1. CASE m = n
      <4>1. m \in dedup /\ handed[m] = 0
        BY <2>2, <3>0, <3>1
      <4>2. \A b \in Actor, i \in Nat : ~Holds(b, i, m)'
        BY <1>6, <2>1, <2>2, <3>0, <3>1
      <4> QED
        BY <2>4, <3>1, <4>1, <4>2
    <3>2. CASE m # n
      BY <1>6, <2>4, <3>0, <3>2
    <3> QED
      BY <3>1, <3>2
  <2>6. Placed'
    <3>1. \A m \in Msg, b \in Actor, i \in Nat : Holds(b, i, m)' => b \in {Main, Place[m]}
      BY <1>6 DEF Mailed, Placed
    <3>2. \A m \in dedup \cup forgotten : Place[m] \in Actor
      BY <1>4
    <3> QED
      BY <1>1, <1>7, <3>1, <3>2 DEF Mailed, Placed
  <2>7. MessageKept'
    <3> SUFFICES ASSUME NEW m \in (dedup \cup forgotten) \ dropped
                 PROVE  \/ handed'[m] > 0
                        \/ \E b \in Actor : Waiting(b, m)'
                        \/ \E b \in {Main, Place[m]} : session[b] \in {"absent", "ended"}
      BY <1>1 DEF MessageKept
    <3>1. CASE m = n
      <4>1. CASE session[a] \in {"absent", "ended"}
        BY <2>3, <3>1, <4>1
      <4>2. CASE session[a] \notin {"absent", "ended"}
        BY <1>4, <2>1, <2>4, <3>1, <4>2
      <4> QED
        BY <4>1, <4>2
    <3>2. CASE m # n
      <4>1. m \in Msg \ {n}
        BY <1>4, <3>2
      <4>2. \A b \in Actor : Waiting(b, m) => Waiting(b, m)'
        <5> SUFFICES ASSUME NEW b \in Actor, Waiting(b, m) PROVE Waiting(b, m)'
          OBVIOUS
        <5>1. PICK i \in Nat : Holds(b, i, m)
          BY <4>1, WaitingHolds
        <5>2. Holds(b, i, m)'
          BY <1>6, <2>1, <4>1, <5>1
        <5> QED
          BY <5>2 DEF Waiting, Holds
      <4> QED
        BY <2>4, <4>1, <4>2 DEF Mailed, MessageKept
    <3> QED
      BY <3>1, <3>2
  <2> QED
    BY <2>5, <2>6, <2>7 DEF Mailed
<1>9. CASE x.kind # "message"
  <2>1. \A m \in Msg : x # Mail("message", m)
    BY <1>9 DEF Mail
  <2>2. UNCHANGED handed
    BY <1>2, <1>9
  <2> QED
    BY <1>1, <1>6, <1>7, <2>1, <2>2, StillCarry
<1> QED
  BY <1>8, <1>9

LEMMA TakeCopies ==
  ASSUME TypeOK, Mailed, NEW a \in Actor, Take(a)
  PROVE  Mailed'
<1> DEFINE x == Head(mailbox[a])
           s == [b \in Actor |-> IF b = a THEN 1 ELSE 0]
<1>1. /\ mailbox \in [Actor -> Seq(MailType)] /\ actor \in [Actor -> ActorType]
      /\ loop \in [Actor -> [pc : {"idle", "acking", "clearing", "pushing"}, mail : MailType]]
      /\ dedup \subseteq Msg /\ forgotten \subseteq Msg
  BY DEF TypeOK
<1>2. mailbox[a] \in Seq(MailType) /\ mailbox[a] # <<>>
  BY <1>1 DEF Take
<1>3. /\ x \in MailType /\ 1 \in DOMAIN mailbox[a] /\ x = mailbox[a][1]
      /\ DOMAIN mailbox[a] \subseteq Nat \ {0}
      /\ \A i \in DOMAIN Tail(mailbox[a]) :
           i \in Nat /\ i + 1 \in DOMAIN mailbox[a] /\ Tail(mailbox[a])[i] = mailbox[a][i + 1]
      /\ \A i \in DOMAIN mailbox[a] \ {1} :
           i - 1 \in DOMAIN Tail(mailbox[a]) /\ Tail(mailbox[a])[i - 1] = mailbox[a][i]
  BY <1>2, TailMail
<1>4. /\ loop[a].pc = "idle" /\ UNCHANGED <<session, dedup, handed, forgotten, dropped>>
      /\ mailbox' = [mailbox EXCEPT ![a] = Tail(@)]
      /\ \/ x.kind = "reply" /\ UNCHANGED actor
            /\ \/ loop' = [loop EXCEPT ![a] = At("clearing", x)]
               \/ loop' = [loop EXCEPT ![a] = At("pushing", x)]
         \/ x.id \in actor[a].sent /\ UNCHANGED <<actor, loop>>
         \/ /\ loop' = [loop EXCEPT ![a] = At("acking", x)]
            /\ actor' = [actor EXCEPT ![a].ackMsg = x.id]
  BY DEF Take
<1> HIDE DEF x
<1>5. /\ mailbox'[a] = Tail(mailbox[a])
      /\ \A b \in Actor \ {a} : mailbox'[b] = mailbox[b] /\ loop'[b] = loop[b]
      /\ \A b \in Actor : actor'[b].state = actor[b].state
  <2>1. mailbox'[a] = Tail(mailbox[a]) /\ \A b \in Actor \ {a} : mailbox'[b] = mailbox[b]
    BY <1>1, <1>4
  <2>2. \A b \in Actor \ {a} : loop'[b] = loop[b]
    BY <1>1, <1>4
  <2>3. CASE UNCHANGED actor
    BY <2>1, <2>2, <2>3
  <2>4. CASE actor' = [actor EXCEPT ![a].ackMsg = x.id]
    BY <2>1, <2>2, <2>4, <1>1 DEF ActorType
  <2> QED
    BY <2>3, <2>4, <1>4
<1>6. \A m \in Msg : loop'[a] = At("acking", Mail("message", m)) <=> x = Mail("message", m)
  <2> SUFFICES ASSUME NEW m \in Msg
               PROVE  loop'[a] = At("acking", Mail("message", m)) <=> x = Mail("message", m)
    OBVIOUS
  <2>1. CASE x.kind = "reply"
    <3>1. x # Mail("message", m)
      BY <2>1 DEF Mail
    <3>2. actor[a].sent \subseteq Own
      BY <1>1 DEF ActorType
    <3>3. loop'[a].pc # "acking" \/ loop'[a] = At("acking", x)
      BY <1>1, <1>4 DEF At
    <3> QED
      BY <3>1, <3>3 DEF At
  <2>2. CASE x.kind # "reply" /\ x.id \in actor[a].sent /\ UNCHANGED loop
    <3>1. actor[a].sent \subseteq Own
      BY <1>1 DEF ActorType
    <3>2. x # Mail("message", m)
      BY <2>2, <3>1 DEF Mail
    <3>3. loop[a] # At("acking", Mail("message", m))
      BY <1>4 DEF At
    <3> QED
      BY <2>2, <3>2, <3>3
  <2>3. CASE loop' = [loop EXCEPT ![a] = At("acking", x)]
    <3>1. loop'[a] = At("acking", x)
      BY <1>1, <2>3
    <3> QED
      BY <3>1 DEF At
  <2> QED
    BY <1>4, <2>1, <2>2, <2>3
<1>7. s \in [Actor -> {0, 1}]
  OBVIOUS
<1>8. ASSUME NEW b \in Actor, NEW i \in Nat, NEW m \in Msg, Holds(b, i, m)'
      PROVE  Holds(b, i + s[b], m)
  <2>1. CASE b = a
    <3>1. CASE i = 0
      <4>0. 0 \notin DOMAIN Tail(mailbox[a])
        BY <1>2, TailMail
      <4>1. x = Mail("message", m)
        BY <1>5, <1>6, <1>8, <2>1, <3>1, <4>0 DEF Holds
      <4>2. i + s[b] = 1
        BY <2>1, <3>1
      <4>3. Holds(b, 1, m)
        BY <1>3, <2>1, <4>1 DEF Holds
      <4> QED
        BY <4>2, <4>3
    <3>2. CASE i # 0
      <4>1. i \in DOMAIN Tail(mailbox[a]) /\ Tail(mailbox[a])[i] = Mail("message", m)
        BY <1>5, <1>8, <2>1, <3>2 DEF Holds
      <4> QED
        BY <1>3, <2>1, <4>1 DEF Holds
    <3> QED
      BY <3>1, <3>2
  <2>2. CASE b # a
    BY <1>5, <1>8, <2>2 DEF Holds
  <2> QED
    BY <2>1, <2>2
<1>9. ASSUME NEW b \in Actor, NEW m \in Msg, Waiting(b, m)
      PROVE  Waiting(b, m)'
  <2>1. CASE b = a
    <3>1. loop[a] # At("acking", Mail("message", m))
      BY <1>4 DEF At
    <3>2. PICK i \in DOMAIN mailbox[a] : mailbox[a][i] = Mail("message", m)
      BY <1>9, <2>1, <3>1 DEF Waiting
    <3>3. CASE i = 1
      BY <1>3, <1>6, <2>1, <3>2, <3>3 DEF Waiting
    <3>4. CASE i # 1
      <4>1. i - 1 \in DOMAIN mailbox'[a] /\ mailbox'[a][i - 1] = Mail("message", m)
        BY <1>3, <1>5, <3>2, <3>4
      <4> QED
        BY <2>1, <4>1 DEF Waiting
    <3> QED
      BY <3>3, <3>4
  <2>2. CASE b # a
    BY <1>5, <1>9, <2>2 DEF Waiting
  <2> QED
    BY <2>1, <2>2
<1> HIDE DEF s
<1>10. OneCopy' /\ Placed'
  BY <1>1, <1>4, <1>5, <1>7, <1>8, CopiesCarry DEF Mailed
<1>11. MessageKept'
  BY <1>1, <1>4, <1>9, KeptCarry DEF Mailed
<1> QED
  BY <1>10, <1>11 DEF Mailed

LEMMA RouteCopies ==
  ASSUME TypeOK, Mailed, TypeOK', NEW m \in Msg, Route(m),
         Place[m] # Main => actor[Place[m]].state # "absent",
         UNCHANGED <<loop, session, handed>>
  PROVE  Mailed'
<1>k. Target(m) \in Actor /\ Target(m) \in {Main, Place[m]}
  BY DEF Target
<1>1. PICK k \in Actor : k = Target(m) /\ k \in {Main, Place[m]}
  BY <1>k
<1> DEFINE l == Len(mailbox[k]) + 1
<1>2. \A b \in Actor : actor[b].state # "absent" => actor'[b].state # "absent"
  <2>1. actor \in [Actor -> ActorType] /\ Ensure(k)
    BY <1>1 DEF TypeOK, Route
  <2>2. \A b \in Actor : actor'[b] = actor[b] \/ actor'[b] = NewActor
    BY <2>1 DEF Ensure
  <2>3. NewActor.state = "active"
    BY DEF NewActor
  <2> QED
    BY <2>2, <2>3
<1>t. /\ mailbox \in [Actor -> Seq(MailType)] /\ dedup \subseteq Msg /\ forgotten \subseteq Msg
      /\ handed \in [Msg -> Nat]
  BY DEF TypeOK
<1>3. CASE m \in dedup
  <2>1. UNCHANGED <<mailbox, dedup, forgotten, dropped>>
    BY <1>3 DEF Route
  <2> QED
    BY <1>2, <2>1, StillCarry DEF Holds
<1>4. CASE m \notin dedup
  <2>1. /\ Remember(m) /\ dropped' = dropped \ {m}
        /\ mailbox' = [mailbox EXCEPT ![k] = Append(@, Mail("message", m))]
    BY <1>1, <1>4 DEF Route, Put
  <2>2. /\ dedup' \subseteq dedup \cup {m}
        /\ dedup \cup {m} \subseteq dedup' \cup forgotten'
        /\ forgotten \subseteq forgotten'
        /\ forgotten' \subseteq forgotten \cup dedup \cup {m}
    BY <2>1 DEF Remember
  <2>3. mailbox[k] \in Seq(MailType) /\ Mail("message", m) \in MailType
    BY <1>1, <1>t, MailFacts
  <2>4. /\ DOMAIN mailbox'[k] = DOMAIN mailbox[k] \cup {l}
        /\ l \notin DOMAIN mailbox[k] /\ l \in Nat \ {0}
        /\ mailbox'[k][l] = Mail("message", m)
        /\ \A i \in DOMAIN mailbox[k] : mailbox'[k][i] = mailbox[k][i]
        /\ \A b \in Actor \ {k} : mailbox'[b] = mailbox[b]
    <3>1. mailbox'[k] = Append(mailbox[k], Mail("message", m))
      BY <1>1, <1>t, <2>1
    <3>2. \A b \in Actor \ {k} : mailbox'[b] = mailbox[b]
      BY <1>1, <1>t, <2>1
    <3> QED
      BY <2>3, <3>1, <3>2, AppendMail
  <2> HIDE DEF l
  <2>5. \A b \in Actor, i \in Nat, n \in Msg :
          Holds(b, i, n)' <=> Holds(b, i, n) \/ (b = k /\ i = l /\ n = m)
    <3> SUFFICES ASSUME NEW b \in Actor, NEW i \in Nat, NEW n \in Msg
                 PROVE  Holds(b, i, n)' <=> Holds(b, i, n) \/ (b = k /\ i = l /\ n = m)
      OBVIOUS
    <3>1. Mail("message", m) = Mail("message", n) <=> m = n
      BY DEF Mail
    <3>2. UNCHANGED loop
      OBVIOUS
    <3>3. CASE b = k
      BY <2>4, <3>1, <3>2, <3>3 DEF Holds
    <3>4. CASE b # k
      BY <2>4, <3>2, <3>4 DEF Holds
    <3> QED
      BY <3>3, <3>4
  <2>6. OneCopy'
    <3> SUFFICES ASSUME NEW n \in Msg \ forgotten'
                 PROVE  /\ \A b \in Actor, i \in Nat :
                             Holds(b, i, n)' => n \in dedup' /\ handed[n] = 0
                        /\ \A b, c \in Actor, i, j \in Nat :
                             Holds(b, i, n)' /\ Holds(c, j, n)' => b = c /\ i = j
                        /\ handed[n] <= 1
                        /\ handed[n] > 0 => n \in dedup'
      BY DEF OneCopy
    <3>0. /\ \A b \in Actor, i \in Nat : Holds(b, i, n) => n \in dedup /\ handed[n] = 0
          /\ \A b, c \in Actor, i, j \in Nat :
               Holds(b, i, n) /\ Holds(c, j, n) => b = c /\ i = j
          /\ handed[n] <= 1
          /\ handed[n] > 0 => n \in dedup
      BY <2>2 DEF Mailed, OneCopy
    <3>1. handed[n] \in Nat /\ (n \in dedup' <=> n \in dedup \cup {m})
      BY <1>t, <2>2
    <3>2. CASE n = m
      <4>1. (\A b \in Actor, i \in Nat : ~Holds(b, i, n)) /\ handed[n] = 0
        BY <1>4, <3>0, <3>1, <3>2
      <4>2. \A b \in Actor, i \in Nat : Holds(b, i, n)' => b = k /\ i = l
        BY <2>5, <4>1
      <4>3. n \in dedup'
        BY <3>1, <3>2
      <4> QED
        BY <4>1, <4>2, <4>3
    <3>3. CASE n # m
      BY <2>5, <3>0, <3>1, <3>3
    <3> QED
      BY <3>2, <3>3
  <2>7. Placed'
    <3>1. \A n \in Msg, b \in Actor, i \in Nat : Holds(b, i, n)' => b \in {Main, Place[n]}
      BY <1>1, <2>5 DEF Mailed, Placed
    <3>2. \A n \in dedup' \cup forgotten' : Place[n] # Main => actor[Place[n]].state # "absent"
      BY <2>2 DEF Mailed, Placed
    <3>3. \A n \in dedup' \cup forgotten' : Place[n] \in Actor
      BY <1>t, <2>2
    <3> QED
      BY <1>2, <3>1, <3>2, <3>3 DEF Placed
  <2>8. MessageKept'
    <3> SUFFICES ASSUME NEW n \in (dedup' \cup forgotten') \ dropped'
                 PROVE  \/ handed[n] > 0
                        \/ \E b \in Actor : Waiting(b, n)'
                        \/ \E b \in {Main, Place[n]} : session[b] \in {"absent", "ended"}
      BY DEF MessageKept
    <3>1. CASE n = m
      <4>1. Waiting(k, n)'
        BY <2>4, <3>1 DEF Waiting
      <4> QED
        BY <1>1, <4>1
    <3>2. CASE n # m
      <4>1. n \in (dedup \cup forgotten) \ dropped /\ n \in Msg
        BY <1>t, <2>1, <2>2, <3>2
      <4>2. \A b \in Actor : Waiting(b, n) => Waiting(b, n)'
        <5> SUFFICES ASSUME NEW b \in Actor, Waiting(b, n) PROVE Waiting(b, n)'
          OBVIOUS
        <5>1. PICK i \in Nat : Holds(b, i, n)
          BY <4>1, WaitingHolds
        <5>2. Holds(b, i, n)'
          BY <2>5, <4>1, <5>1
        <5> QED
          BY <5>2 DEF Waiting, Holds
      <4> QED
        BY <4>1, <4>2 DEF Mailed, MessageKept
    <3> QED
      BY <3>1, <3>2
  <2> QED
    BY <2>6, <2>7, <2>8 DEF Mailed
<1> QED
  BY <1>3, <1>4

\* A thread's actor ends with what it had to do; nobody else's messages were there.
LEMMA EndThreadCopies ==
  ASSUME TypeOK, Mailed, NEW t \in Thread, EndThread(t)
  PROVE  Mailed'
<1>1. /\ CutOff({t}) /\ UNCHANGED <<dedup, handed, forgotten, dropped>>
      /\ actor' = [actor EXCEPT ![t] = [NoActor EXCEPT !.state = "ended"]]
      /\ session' = [session EXCEPT ![t] = "ended"]
  BY DEF EndThread
<1>t. /\ actor \in [Actor -> ActorType] /\ dedup \subseteq Msg /\ forgotten \subseteq Msg
      /\ session \in [Actor -> {"absent", "suspended", "active", "ended"}]
  BY DEF TypeOK
<1>2. \A b \in Actor : /\ loop'[b] = IF b = t THEN Idle ELSE loop[b]
                       /\ mailbox'[b] = IF b = t THEN <<>> ELSE mailbox[b]
  BY <1>1 DEF CutOff
<1>3. [a \in Actor |-> 0] \in [Actor -> {0, 1}]
  OBVIOUS
<1>4. ASSUME NEW b \in Actor, NEW i \in Nat, NEW m \in Msg, Holds(b, i, m)'
      PROVE  Holds(b, i, m)
  <2>1. DOMAIN <<>> = {}
    OBVIOUS
  <2>2. Idle # At("acking", Mail("message", m))
    BY DEF Idle, At
  <2> QED
    BY <1>2, <1>4, <2>1, <2>2 DEF Holds
<1>5. \A a \in Actor, i \in Nat, m \in Msg :
        Holds(a, i, m)' => Holds(a, i + [b \in Actor |-> 0][a], m)
  BY <1>4
<1>6. \A a \in Actor : actor[a].state # "absent" => actor'[a].state # "absent"
  <2>1. [NoActor EXCEPT !.state = "ended"].state = "ended"
    BY DEF NoActor, NewActor
  <2> QED
    BY <1>1, <1>t, <2>1
<1>7. OneCopy' /\ Placed'
  BY <1>1, <1>t, <1>3, <1>5, <1>6, CopiesCarry DEF Mailed
<1>8. MessageKept'
  <2> SUFFICES ASSUME NEW m \in (dedup \cup forgotten) \ dropped
               PROVE  \/ handed[m] > 0
                      \/ \E a \in Actor : Waiting(a, m)'
                      \/ \E a \in {Main, Place[m]} : session'[a] \in {"absent", "ended"}
    BY <1>1 DEF MessageKept
  <2>1. m \in Msg /\ Place[m] \in Actor
    BY <1>t
  <2>2. \A a \in Actor : session[a] \in {"absent", "ended"} => session'[a] \in {"absent", "ended"}
    BY <1>1, <1>t
  <2>3. \A a \in Actor \ {t} : Waiting(a, m) => Waiting(a, m)'
    BY <1>2 DEF Waiting
  <2>4. Waiting(t, m) => session'[t] = "ended" /\ t \in {Main, Place[m]}
    <3>1. ASSUME Waiting(t, m) PROVE t \in {Main, Place[m]}
      <4>1. PICK i \in Nat : Holds(t, i, m)
        BY <2>1, <3>1, WaitingHolds
      <4> QED
        BY <2>1, <4>1 DEF Mailed, Placed
    <3>2. session'[t] = "ended"
      BY <1>1, <1>t
    <3> QED
      BY <3>1, <3>2
  <2>5. \/ handed[m] > 0
        \/ \E a \in Actor : Waiting(a, m)
        \/ \E a \in {Main, Place[m]} : session[a] \in {"absent", "ended"}
    BY DEF Mailed, MessageKept
  <2> QED
    BY <2>1, <2>2, <2>3, <2>4, <2>5
<1> QED
  BY <1>7, <1>8 DEF Mailed

\* Nothing is remembered after a restart, and what is not remembered was never seen;
\* what the actors had is dropped.
LEMMA RestartCopies ==
  ASSUME TypeOK, Mailed, Restart
  PROVE  Mailed'
<1>1. /\ CutOff(Actor) /\ UNCHANGED <<actor, handed>>
      /\ dedup' = {} /\ forgotten' = forgotten \cup dedup
      /\ dropped' = dropped \cup {m \in Msg : \E a \in Actor : Waiting(a, m)}
      /\ \A a \in Actor :
           session[a] \in {"absent", "ended"} => session'[a] \in {"absent", "ended"}
  BY DEF Restart
<1>t. handed \in [Msg -> Nat] /\ dedup \subseteq Msg /\ forgotten \subseteq Msg
  BY DEF TypeOK
<1>2. \A b \in Actor : loop'[b] = Idle /\ mailbox'[b] = <<>>
  BY <1>1 DEF CutOff
<1>3. \A b \in Actor, i \in Nat, m \in Msg : ~Holds(b, i, m)'
  <2> SUFFICES ASSUME NEW b \in Actor, NEW i \in Nat, NEW m \in Msg PROVE ~Holds(b, i, m)'
    OBVIOUS
  <2>1. DOMAIN <<>> = {}
    OBVIOUS
  <2>2. Idle # At("acking", Mail("message", m))
    BY DEF Idle, At
  <2> QED
    BY <1>2, <2>1, <2>2 DEF Holds
<1>4. \A m \in Msg \ forgotten' : handed[m] = 0
  <2> SUFFICES ASSUME NEW m \in Msg \ forgotten' PROVE handed[m] = 0
    OBVIOUS
  <2>1. m \in Msg \ forgotten /\ m \notin dedup /\ handed[m] \in Nat
    BY <1>1, <1>t
  <2> QED
    BY <2>1 DEF Mailed, OneCopy
<1>5. OneCopy'
  <2> SUFFICES ASSUME NEW m \in Msg \ forgotten'
               PROVE  /\ \A b \in Actor, i \in Nat :
                           Holds(b, i, m)' => m \in dedup' /\ handed'[m] = 0
                      /\ \A b, c \in Actor, i, j \in Nat :
                           Holds(b, i, m)' /\ Holds(c, j, m)' => b = c /\ i = j
                      /\ handed'[m] <= 1
                      /\ handed'[m] > 0 => m \in dedup'
    BY DEF OneCopy
  <2>1. handed'[m] = 0
    BY <1>1, <1>4
  <2> QED
    BY <1>3, <2>1
<1>6. Placed'
  BY <1>1, <1>3 DEF Mailed, Placed
<1>7. MessageKept'
  <2> SUFFICES ASSUME NEW m \in (dedup \cup forgotten) \ dropped,
                      \A a \in Actor : ~Waiting(a, m)
               PROVE  \/ handed[m] > 0
                      \/ \E a \in {Main, Place[m]} : session'[a] \in {"absent", "ended"}
    BY <1>1, <1>t DEF MessageKept
  <2>1. \/ handed[m] > 0
        \/ \E a \in {Main, Place[m]} : session[a] \in {"absent", "ended"}
    BY DEF Mailed, MessageKept
  <2> QED
    BY <1>1, <1>t, <2>1
<1> QED
  BY <1>5, <1>6, <1>7 DEF Mailed

\* No message the runtime remembers was posted in a thread that is yet to be opened.
LEMMA OpenThreadCopies ==
  ASSUME TypeOK, Mailed, NEW t \in Thread, OpenThread(t)
  PROVE  Mailed'
<1>1. /\ UNCHANGED <<mailbox, loop, dedup, handed, forgotten, dropped>>
      /\ actor[t].state = "absent"
      /\ actor' = [actor EXCEPT ![t] = NewActor]
      /\ session' = [session EXCEPT ![t] = "suspended"]
  BY DEF OpenThread, history
<1>t. /\ actor \in [Actor -> ActorType] /\ dedup \subseteq Msg /\ forgotten \subseteq Msg
      /\ session \in [Actor -> {"absent", "suspended", "active", "ended"}]
  BY DEF TypeOK
<1>2. \A a \in Actor : actor[a].state # "absent" => actor'[a].state # "absent"
  BY <1>1, <1>t
<1>3. [a \in Actor |-> 0] \in [Actor -> {0, 1}]
  OBVIOUS
<1>4. \A a \in Actor, i \in Nat, m \in Msg :
        Holds(a, i, m)' => Holds(a, i + [b \in Actor |-> 0][a], m)
  BY <1>1 DEF Holds
<1>5. OneCopy' /\ Placed'
  BY <1>1, <1>t, <1>2, <1>3, <1>4, CopiesCarry DEF Mailed
<1>6. MessageKept'
  <2> SUFFICES ASSUME NEW m \in (dedup \cup forgotten) \ dropped
               PROVE  \/ handed[m] > 0
                      \/ \E a \in Actor : Waiting(a, m)'
                      \/ \E a \in {Main, Place[m]} : session'[a] \in {"absent", "ended"}
    BY <1>1 DEF MessageKept
  <2>1. Place[m] # Main => actor[Place[m]].state # "absent"
    BY DEF Mailed, Placed
  <2>2. Place[m] # t /\ Main # t /\ Place[m] \in Actor
    BY <1>1, <1>t, <2>1
  <2>3. \A a \in {Main, Place[m]} : session'[a] = session[a]
    BY <1>1, <1>t, <2>2
  <2>4. \A a \in Actor : Waiting(a, m) => Waiting(a, m)'
    BY <1>1 DEF Waiting
  <2> QED
    BY <2>3, <2>4 DEF Mailed, MessageKept
<1> QED
  BY <1>5, <1>6 DEF Mailed

LEMMA MailedStep ==
  ASSUME TypeOK, Mailed, TypeOK', [Next]_vars
  PROVE  Mailed'
<1>t. /\ mailbox \in [Actor -> Seq(MailType)] /\ actor \in [Actor -> ActorType]
      /\ loop \in [Actor -> [pc : {"idle", "acking", "clearing", "pushing"}, mail : MailType]]
      /\ session \in [Actor -> {"absent", "suspended", "active", "ended"}]
  BY DEF TypeOK
\* A step that puts something that is no message into a mailbox, or nothing.
<1>p. ASSUME UNCHANGED <<actor, session, loop, dedup, handed, forgotten, dropped>>,
             UNCHANGED mailbox \/ \E k : \E y \in MailType : Put(k, y) /\ y.kind # "message"
      PROVE  Mailed'
  <2>1. CASE UNCHANGED mailbox
    BY <1>p, <2>1, StillCarry DEF Holds
  <2>2. ASSUME NEW k, NEW y \in MailType, Put(k, y), y.kind # "message" PROVE Mailed'
    <3>1. ASSUME NEW b \in Actor, NEW i \in Nat, NEW m \in Msg
          PROVE  Holds(b, i, m)' <=> Holds(b, i, m)
      <4>1. UNCHANGED loop
        BY <1>p
      <4>2. CASE b = k
        <5>1. mailbox'[b] = Append(mailbox[b], y) /\ mailbox[b] \in Seq(MailType)
          BY <1>t, <2>2, <4>2 DEF Put
        <5>2. y # Mail("message", m)
          BY <2>2 DEF Mail
        <5> QED
          BY <4>1, <5>1, <5>2, AppendMail DEF Holds
      <4>3. CASE b # k
        BY <1>t, <2>2, <4>1, <4>3 DEF Put, Holds
      <4> QED
        BY <4>2, <4>3
    <3> QED
      BY <1>p, <3>1, StillCarry
  <2> QED
    BY <1>p, <2>1, <2>2
<1>1. ASSUME NEW m \in Msg, OnFeishuEvent(m) PROVE Mailed'
  <2>1. CASE IsCommand(m)
    BY <1>1, <1>p, <2>1 DEF OnFeishuEvent
  <2>2. CASE ~IsCommand(m)
    BY <1>1, <2>2, RouteCopies DEF OnFeishuEvent, Receive
  <2> QED
    BY <2>1, <2>2
<1>2. ASSUME NEW id \in Id, OnFeishuReaction(id) PROVE Mailed'
  <2>1. Mail("reaction", id) \in MailType /\ Mail("reaction", id).kind # "message"
    BY MailFacts DEF Mail
  <2>2. /\ UNCHANGED <<actor, session, loop, dedup, handed, forgotten, dropped>>
        /\ UNCHANGED mailbox \/ \E k : Put(k, Mail("reaction", id))
    BY <1>2 DEF OnFeishuReaction, history
  <2> QED
    BY <1>p, <2>1, <2>2
<1>3. ASSUME NEW a \in Actor, Reply(a) PROVE Mailed'
  <2>1. Mail("reply", Nothing) \in MailType /\ Mail("reply", Nothing).kind # "message"
    BY MailFacts DEF Mail
  <2>2. /\ UNCHANGED <<actor, session, loop, dedup, handed, forgotten, dropped>>
        /\ Put(a, Mail("reply", Nothing))
    BY <1>3 DEF Reply, history
  <2> QED
    BY <1>p, <2>1, <2>2
<1>4. ASSUME NEW a \in Actor, Cleared(a) \/ Pushed(a) PROVE Mailed'
  <2>1. /\ UNCHANGED <<session, mailbox, dedup, handed, forgotten, dropped>>
        /\ loop[a].pc # "acking" /\ loop'[a].pc # "acking"
        /\ \A b \in Actor \ {a} : loop'[b] = loop[b]
    <3>1. CASE Cleared(a)
      BY <3>1, <1>t DEF Cleared
    <3>2. CASE Pushed(a)
      BY <3>2, <1>t, MailFacts DEF Pushed, history
    <3> QED
      BY <1>4, <3>1, <3>2
  <2>2. \A b \in Actor : actor[b].state # "absent" => actor'[b].state # "absent"
    <3>1. CASE Cleared(a)
      <4>1. actor' = [actor EXCEPT ![a].ackMsg = Nothing, ![a].ackReaction = Nothing]
        BY <3>1 DEF Cleared
      <4> QED
        BY <1>t, <4>1 DEF ActorType
    <3>2. CASE Pushed(a)
      <4>1. actor' = actor \/ \E id \in Own : actor' = [actor EXCEPT ![a].sent = @ \cup {id}]
        BY <3>2 DEF Pushed
      <4> QED
        BY <1>t, <4>1 DEF ActorType
    <3> QED
      BY <1>4, <3>1, <3>2
  <2>3. ASSUME NEW b \in Actor, NEW i \in Nat, NEW m \in Msg
        PROVE  Holds(b, i, m)' <=> Holds(b, i, m)
    <3>1. At("acking", Mail("message", m)).pc = "acking"
      BY DEF At
    <3> QED
      BY <2>1, <3>1 DEF Holds
  <2> QED
    BY <2>1, <2>2, <2>3, StillCarry
<1>5. ASSUME NEW t \in Thread, Connect(t) \/ Disconnect(t) PROVE Mailed'
  <2>1. /\ UNCHANGED <<actor, mailbox, loop, dedup, handed, forgotten, dropped>>
        /\ \A a \in Actor :
             session[a] \in {"absent", "ended"} => session'[a] \in {"absent", "ended"}
    BY <1>5, <1>t DEF Connect, Disconnect, history
  <2> QED
    BY <2>1, StillCarry DEF Holds
<1>6. CASE UNCHANGED vars
  BY <1>6, <1>p DEF vars, history
<1> QED
  BY <1>1, <1>2, <1>3, <1>4, <1>5, <1>6, TakeCopies, AckedCopies, OpenThreadCopies,
     EndThreadCopies, RestartCopies DEF Next, Handle

-----------------------------------------------------------------------------
(* The theorems.                                                           *)

LEMMA InitInv == Init => ChatInv
<1> SUFFICES ASSUME Init PROVE ChatInv
  OBVIOUS
<1>1. TypeOK
  BY InitType
<1>2. SlotOK
  BY MailFacts DEF Init, SlotOK
<1>3. TypingAccounted
  BY DEF Init, TypingAccounted
<1>4. \A b \in Actor, i \in Nat, m \in Msg : ~Holds(b, i, m)
  <2> SUFFICES ASSUME NEW b \in Actor, NEW i \in Nat, NEW m \in Msg PROVE ~Holds(b, i, m)
    OBVIOUS
  <2>1. DOMAIN <<>> = {}
    OBVIOUS
  <2>2. Idle # At("acking", Mail("message", m))
    BY DEF Idle, At
  <2> QED
    BY <2>1, <2>2 DEF Holds, Init
<1>5. Mailed
  BY <1>4 DEF Init, Mailed, OneCopy, Placed, MessageKept
<1> QED
  BY <1>1, <1>2, <1>3, <1>5 DEF ChatInv

\* The inductive invariant: where each message is, and what is in each slot.
THEOREM ChatInvariant == Spec => []ChatInv
<1>1. Init => ChatInv
  BY InitInv
<1>2. ChatInv /\ [Next]_vars => ChatInv'
  <2> SUFFICES ASSUME ChatInv, [Next]_vars PROVE ChatInv'
    OBVIOUS
  <2>1. TypeOK /\ SlotOK /\ TypingAccounted /\ Mailed
    BY DEF ChatInv
  <2>2. TypeOK'
    BY <2>1, TypeStep
  <2>3. SlotOK' /\ TypingAccounted' /\ Mailed'
    BY <2>1, <2>2, SlotStep, TypingStep, MailedStep
  <2> QED
    BY <2>2, <2>3 DEF ChatInv
<1> QED
  BY <1>1, <1>2, PTL DEF Spec

\* The variables keep their types (adapter.py, runtime.py, handlers/feishu.py).
THEOREM ChatTypes == Spec => []TypeOK
<1>1. ChatInv => TypeOK
  BY DEF ChatInv
<1> QED
  BY <1>1, ChatInvariant, PTL

\* However events and redeliveries, connects and kills of threads interleave, the
\* chat's and the threads' actors hand a remembered message over once (runtime.send,
\* _route_to_actor_pipeline).
THEOREM HandOverOnce == Spec => []HandedOnce
<1>1. ChatInv => HandedOnce
  <2> SUFFICES ASSUME ChatInv, NEW m \in Msg, handed[m] > 1 PROVE m \in forgotten
    BY DEF HandedOnce
  <2>1. handed[m] \in Nat
    BY DEF ChatInv, TypeOK
  <2> QED
    BY <2>1 DEF ChatInv, Mailed, OneCopy
<1> QED
  BY <1>1, ChatInvariant, PTL

\* The one slot for the reaction to take away covers every reaction that stands, up to
\* the ones a later message, a failed call or a stop has excused (_handle_inbound,
\* _handle_outbound).
THEOREM ReactionsAccounted == Spec => []TypingAccounted
<1>1. ChatInv => TypingAccounted
  BY DEF ChatInv
<1> QED
  BY <1>1, ChatInvariant, PTL

\* A message the runtime has taken was handed over, or is with an actor, or has no
\* session to go to; only a restart loses one, and only one an actor still had
\* (runtime.send, FeishuInboundHandler._handle_inbound, _execute_transport_send).
THEOREM NoMessageLost == Spec => []MessageKept
<1>1. ChatInv => MessageKept
  BY DEF ChatInv, Mailed
<1> QED
  BY <1>1, ChatInvariant, PTL
=============================================================================
