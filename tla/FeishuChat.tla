------------------------------ MODULE FeishuChat ------------------------------
(***************************************************************************)
(* One Feishu chat with its topic threads: how an event of the Feishu      *)
(* connection becomes a command or a message in an actor's mailbox         *)
(* (adapters/feishu/adapter.py, commands/), and what the chat's actors     *)
(* make of it (core/handlers/feishu.py): the "Typing" reaction that        *)
(* acknowledges a message, the hand-over to the session, the reply that    *)
(* takes the reaction away again.                                          *)
(*                                                                         *)
(* Feishu delivers an event late, out of order and, when the callback was  *)
(* slow to return, again.  The callback runs in a thread of its own and    *)
(* only reads; what it schedules on the event loop runs to its first       *)
(* await, and that is one action here.  Each actor's loop takes one        *)
(* message at a time and awaits Feishu in the middle of it.                *)
(***************************************************************************)
EXTENDS Naturals, FiniteSets, Sequences

CONSTANTS
  Msg,            \* messages people post
  Own,            \* messages the bot posts
  Main,           \* the chat's own actor, and messages outside any thread
  Thread,         \* threads, each one the actor whose root_id it is
  Place,          \* Place[m]: where m was posted
  Text,           \* Text[m]: the lines of m
  Quote,          \* Quote[m]: the lines of the message m replies to, or <<>>
  Nothing,        \* no message
  DedupMax,       \* _dedup_max of the runtime (10000)
  DedupDrop,      \* the ids it drops when it has more (_dedup_max // 2)
  Liked,          \* bound: the messages people put an emoji on
  MaxEvents,      \* bound: deliveries of events, and replies of the sessions
  MaxRestarts     \* bound: restarts of the server, everything saved

Actor == {Main} \cup Thread
Id == Msg \cup Own
Line == {"blank", "plain", "known", "misused", "unknown", "unclosed"}

ASSUME ChatAssumption ==
  /\ Msg \cap Own = {} /\ Nothing \notin Id
  /\ Main \notin Thread
  /\ Liked \subseteq Id
  /\ Place \in [Msg -> Actor]
  /\ Text \in [Msg -> Seq(Line)] /\ Quote \in [Msg -> Seq(Line)]
  /\ {DedupMax, DedupDrop, MaxEvents, MaxRestarts} \subseteq Nat
  /\ DedupDrop <= DedupMax + 1

VARIABLES
  table,      \* the chat's actors in the order of runtime.actors
  actor,      \* per actor: its state and its metadata
  session,    \* per actor: the state of its downstream
  mailbox,    \* per actor: what it has still to handle
  loop,       \* per actor: what it awaits, for which message
  dedup,      \* runtime._dedup
  typing,     \* messages with the bot's "Typing" reaction
  posted,     \* messages of the bot in the chat
  events, restarts,  \* counts for the bounds
  ran,        \* history: executions of a command, by message
  handed,     \* history: hand-overs to a session, by message
  forgotten,  \* history: messages whose ids were dropped from _dedup
  dropped,    \* history: messages a restart took from an actor, not delivered since
  excused     \* history: reactions that may stay, for a reason that is over

network == <<events, restarts>>
history == <<ran, handed, forgotten, dropped, excused>>
vars == <<table, actor, session, mailbox, loop, dedup, typing, posted, network, history>>

\* An actor's metadata: ack_msg_id, ack_reaction_id (named by the message it is on)
\* and sent_msg_ids.
NewActor == [state |-> "active", ackMsg |-> Nothing, ackReaction |-> Nothing, sent |-> {}]
NoActor  == [NewActor EXCEPT !.state = "absent"]
At(pc, x) == [pc |-> pc, mail |-> x]
Mail(kind, id) == [kind |-> kind, id |-> id]
Idle == At("idle", Mail("reply", Nothing))

\* The chat is the administrator's, whose actor is wired to the admin actor when the
\* server starts, or one the server has not heard of.
Init ==
  /\ \/ /\ table = <<Main>>
        /\ actor = [a \in Actor |-> IF a = Main THEN NewActor ELSE NoActor]
        /\ session = [a \in Actor |-> IF a = Main THEN "active" ELSE "absent"]
     \/ /\ table = <<>>
        /\ actor = [a \in Actor |-> NoActor]
        /\ session = [a \in Actor |-> "absent"]
  /\ mailbox = [a \in Actor |-> <<>>]
  /\ loop = [a \in Actor |-> Idle]
  /\ dedup = {} /\ typing = {} /\ posted = {}
  /\ events = 0 /\ restarts = 0
  /\ ran = [m \in Msg |-> 0] /\ handed = [m \in Msg |-> 0]
  /\ forgotten = {} /\ dropped = {} /\ excused = {}

-----------------------------------------------------------------------------
(* What an event says (_build_inbound_event, commands/parse.py).           *)

\* A reply is preceded by what it quotes, marked on its first line only.
EventText(m) ==
  (IF Quote[m] = <<>> THEN <<>> ELSE <<"plain">> \o Tail(Quote[m])) \o Text[m]

\* The last line that is not blank decides; a text without one is not dispatched.
LastLine(lines) ==
  LET said == {i \in DOMAIN lines : lines[i] # "blank"} IN
  IF said = {} THEN "blank" ELSE lines[CHOOSE i \in said : \A j \in said : j <= i]

IsCommand(m) == LastLine(EventText(m)) \notin {"blank", "plain"}

-----------------------------------------------------------------------------
(* The way in.                                                             *)

Present(a) == actor[a].state = "active"
Put(a, x) == mailbox' = [mailbox EXCEPT ![a] = Append(@, x)]

\* The actor a message goes to: its thread's, while the session of that is there.
Target(m) ==
  IF Place[m] # Main /\ Present(Place[m]) /\ session[Place[m]] = "active"
  THEN Place[m] ELSE Main

\* _route_to_actor_pipeline for the chat's own actor: spawned when it is missing.
Ensure(a) ==
  IF Present(a)
  THEN UNCHANGED <<table, actor>>
  ELSE /\ table' = Append(table, a)
       /\ actor' = [actor EXCEPT ![a] = NewActor]

\* Mutant of Remember: no id is kept once the set is full.
RememberFirst(m) ==
  LET seen == dedup \cup {m} IN
  dedup' = (IF Cardinality(seen) > DedupMax THEN dedup ELSE seen) /\ UNCHANGED forgotten

\* send: the id is kept, and half of the ids dropped once there are too many, in the
\* order of a Python set, which is none.
Remember(m) ==
  LET seen == dedup \cup {m} IN
  IF Cardinality(seen) > DedupMax
  THEN \E out \in SUBSET seen :
         /\ Cardinality(out) = DedupDrop
         /\ dedup' = seen \ out
         /\ forgotten' = forgotten \cup out
  ELSE dedup' = seen /\ UNCHANGED forgotten

\* An id seen before is skipped, after the actor has been found or spawned.
Route(m) ==
  LET a == Target(m) IN
  /\ Ensure(a)
  /\ IF m \in dedup
     THEN UNCHANGED <<mailbox, dedup, forgotten, dropped>>
     ELSE /\ Remember(m)
          /\ Put(a, Mail("message", m))
          /\ dropped' = dropped \ {m}

\* The callback of the connection (on_message): an event of a message, once more,
\* late, or in whatever order.
Receive(m) ==
  /\ events < MaxEvents
  /\ Place[m] # Main => actor[Place[m]].state # "absent"
  /\ events' = events + 1

\* dispatch_from_adapter: a command runs, or is answered with an error; one whose
\* quotes do not close ends the task, unanswered.
Dispatch(m) ==
  ran' = IF LastLine(EventText(m)) = "known" THEN [ran EXCEPT ![m] = @ + 1] ELSE ran

\* on_feishu_event: what is no command goes to an actor.
OnFeishuEvent(m) ==
  /\ Receive(m)
  /\ IF IsCommand(m)
     THEN Dispatch(m) /\ UNCHANGED <<table, actor, mailbox, dedup, forgotten, dropped>>
     ELSE Route(m) /\ UNCHANGED ran
  /\ UNCHANGED <<session, loop, typing, posted, restarts, handed, excused>>

\* The callbacks on_reaction_created and on_reaction_deleted.
Emoji(id) ==
  /\ events < MaxEvents
  /\ id \in Liked \cap (Msg \cup posted)
  /\ events' = events + 1

\* on_feishu_reaction: an emoji on any message goes to the first actor of the table
\* that has not ended.
OnFeishuReaction(id) ==
  /\ Emoji(id)
  /\ LET live == {i \in DOMAIN table : Present(table[i])} IN
     IF live = {}
     THEN UNCHANGED mailbox
     ELSE Put(table[CHOOSE i \in live : \A j \in live : i <= j], Mail("reaction", id))
  /\ UNCHANGED <<table, actor, session, loop, dedup, typing, posted, restarts, history>>

\* A session, or the administrator's actor, sends the actor something to push.
Reply(a) ==
  /\ events < MaxEvents
  /\ Present(a)
  /\ a = Main \/ session[a] = "active"
  /\ events' = events + 1
  /\ Put(a, Mail("reply", Nothing))
  /\ UNCHANGED <<table, actor, session, loop, dedup, typing, posted, restarts, history>>

-----------------------------------------------------------------------------
(* The loop of an actor (FeishuInboundHandler.handle and its actions).     *)

\* What the Feishu API may do with a call: carry it out, and answer or not, or fail.
Outcome == {"done", "unheard", "failed"}

Standing(x) == {x.ackMsg, x.ackReaction} \ {Nothing}

\* The message is with the actor: in its mailbox, or acknowledged and on its way.
Waiting(a, m) ==
  LET x == Mail("message", m) IN
  loop[a] = At("acking", x) \/ \E i \in DOMAIN mailbox[a] : mailbox[a][i] = x

\* Mutant of Take: an actor waits for its session's client.
TakeConnected(a) ==
  /\ Present(a) /\ loop[a].pc = "idle" /\ mailbox[a] # <<>>
  /\ Head(mailbox[a]).kind = "message" /\ session[a] = "active"
  /\ mailbox' = [mailbox EXCEPT ![a] = Tail(@)]
  /\ loop' = [loop EXCEPT ![a] = At("acking", Head(mailbox[a]))]
  /\ actor' = [actor EXCEPT ![a].ackMsg = Head(mailbox[a]).id]
  /\ excused' = excused \cup (Standing(actor[a]) \ {Head(mailbox[a]).id})
  /\ UNCHANGED <<table, session, dedup, typing, posted, network, ran, handed, forgotten, dropped>>

\* What is there to do for the message at the head; nothing, for the actor's own.
Take(a) ==
  /\ Present(a) /\ loop[a].pc = "idle" /\ mailbox[a] # <<>>
  /\ mailbox' = [mailbox EXCEPT ![a] = Tail(@)]
  /\ LET x == Head(mailbox[a]) IN
     IF x.kind = "reply"
     THEN /\ loop' = [loop EXCEPT ![a] =
                        At(IF actor[a].ackMsg # Nothing THEN "clearing" ELSE "pushing", x)]
          /\ UNCHANGED <<actor, excused>>
     ELSE IF x.id \in actor[a].sent
     THEN UNCHANGED <<loop, actor, excused>>
     ELSE /\ loop' = [loop EXCEPT ![a] = At("acking", x)]
          /\ actor' = [actor EXCEPT ![a].ackMsg = x.id]
          /\ excused' = excused \cup (Standing(actor[a]) \ {x.id})
  /\ UNCHANGED <<table, session, dedup, typing, posted, network,
                 ran, handed, forgotten, dropped>>

\* Mutant of Acked: without a reaction there is no hand-over.
AckedOrLost(a) ==
  LET x == loop[a].mail IN
  /\ loop[a].pc = "acking"
  /\ \/ /\ UNCHANGED <<typing, actor, handed>>
     \/ /\ typing' = typing \cup {x.id}
        /\ actor' = [actor EXCEPT ![a].ackReaction = x.id]
        /\ handed' = IF x.kind = "message" /\ session[a] \notin {"absent", "ended"}
                     THEN [handed EXCEPT ![x.id] = @ + 1] ELSE handed
  /\ loop' = [loop EXCEPT ![a] = Idle]
  /\ UNCHANGED <<table, session, mailbox, dedup, posted, network, ran, forgotten, dropped, excused>>

\* The reaction is on, or not; the message goes to the session either way.
Acked(a) ==
  LET x == loop[a].mail IN
  /\ loop[a].pc = "acking"
  /\ \E o \in Outcome :
       /\ typing' = IF o = "failed" THEN typing ELSE typing \cup {x.id}
       /\ actor' = IF o = "done" THEN [actor EXCEPT ![a].ackReaction = x.id] ELSE actor
       /\ excused' = IF o = "unheard" THEN excused \cup {x.id} ELSE excused
  /\ handed' = IF x.kind = "message" /\ session[a] \notin {"absent", "ended"}
               THEN [handed EXCEPT ![x.id] = @ + 1] ELSE handed
  /\ loop' = [loop EXCEPT ![a] = Idle]
  /\ UNCHANGED <<table, session, mailbox, dedup, posted, network, ran, forgotten, dropped>>

\* Mutant of Cleared: the slot is emptied and the call left out.
ClearedUnsaid(a) ==
  /\ loop[a].pc = "clearing"
  /\ actor' = [actor EXCEPT ![a].ackMsg = Nothing, ![a].ackReaction = Nothing]
  /\ loop' = [loop EXCEPT ![a].pc = "pushing"]
  /\ UNCHANGED <<table, session, mailbox, dedup, typing, posted, network, history>>

\* The reaction in the slot is taken off the message in the slot, which Feishu refuses
\* when it is another's; then the slot is emptied.
Cleared(a) ==
  LET m == actor[a].ackMsg IN
  /\ loop[a].pc = "clearing"
  /\ IF actor[a].ackReaction = m
     THEN \E o \in Outcome :
            /\ typing' = IF o = "failed" THEN typing ELSE typing \ {m}
            /\ excused' = IF o = "failed" THEN excused \cup {m} ELSE excused
     ELSE UNCHANGED <<typing, excused>>
  /\ actor' = [actor EXCEPT ![a].ackMsg = Nothing, ![a].ackReaction = Nothing]
  /\ loop' = [loop EXCEPT ![a].pc = "pushing"]
  /\ UNCHANGED <<table, session, mailbox, dedup, posted, network,
                 ran, handed, forgotten, dropped>>

\* The reply is in the chat, or not; its id is kept, to know it again.
Pushed(a) ==
  /\ loop[a].pc = "pushing"
  /\ \/ UNCHANGED <<posted, actor>>
     \/ \E id \in Own \ posted :
          /\ posted' = posted \cup {id}
          /\ actor' \in {actor, [actor EXCEPT ![a].sent = @ \cup {id}]}
  /\ loop' = [loop EXCEPT ![a] = Idle]
  /\ UNCHANGED <<table, session, mailbox, dedup, typing, network, history>>

-----------------------------------------------------------------------------
(* The threads, the sessions, and the server.                              *)

\* /spawn: a new thread; its session's client is still to connect.
OpenThread(t) ==
  /\ actor[t].state = "absent"
  /\ table' = Append(table, t)
  /\ actor' = [actor EXCEPT ![t] = NewActor]
  /\ session' = [session EXCEPT ![t] = "suspended"]
  /\ UNCHANGED <<mailbox, loop, dedup, typing, posted, network, history>>

\* Mutant of Disconnect: a state no check of Actor.state knows.
DisconnectMisnamed(t) ==
  /\ session[t] = "active"
  /\ session' = [session EXCEPT ![t] = "detached"]
  /\ UNCHANGED <<table, actor, mailbox, loop, dedup, typing, posted, network, history>>

\* The client connects, or its connection is lost.
Connect(t) ==
  /\ session[t] = "suspended"
  /\ session' = [session EXCEPT ![t] = "active"]
  /\ UNCHANGED <<table, actor, mailbox, loop, dedup, typing, posted, network, history>>
Disconnect(t) ==
  /\ session[t] = "active"
  /\ session' = [session EXCEPT ![t] = "suspended"]
  /\ UNCHANGED <<table, actor, mailbox, loop, dedup, typing, posted, network, history>>

\* The loops of A are cancelled, and what they had to do is lost; the calls under way
\* may have been carried out.
CutOff(A) ==
  /\ \E done \in SUBSET A :
       typing' = (typing \cup {loop[a].mail.id : a \in {b \in done : loop[b].pc = "acking"}})
                 \ {actor[a].ackMsg : a \in {b \in done : loop[b].pc = "clearing"
                                                 /\ actor[b].ackMsg = actor[b].ackReaction}}
  /\ loop' = [a \in Actor |-> IF a \in A THEN Idle ELSE loop[a]]
  /\ mailbox' = [a \in Actor |-> IF a \in A THEN <<>> ELSE mailbox[a]]

\* /kill: the session ends, and the thread's actor, with what it has acknowledged.
EndThread(t) ==
  /\ Present(t)
  /\ actor' = [actor EXCEPT ![t] = [NoActor EXCEPT !.state = "ended"]]
  /\ session' = [session EXCEPT ![t] = "ended"]
  /\ CutOff({t})
  /\ excused' = excused \cup Standing(actor[t])
  /\ UNCHANGED <<table, dedup, posted, network, ran, handed, forgotten, dropped>>

\* The server stops and is started again: the actors that have not ended come back
\* from actors.json, those of the chat active at once, the sessions to be connected
\* to.  The ids seen are forgotten.
Restart ==
  /\ restarts < MaxRestarts
  /\ restarts' = restarts + 1
  /\ UNCHANGED table  \* less the ended actors, which nobody finds in it anyway
  /\ session' = [a \in Actor |->
                   IF a \in Thread /\ session[a] = "active" THEN "suspended" ELSE session[a]]
  /\ dedup' = {} /\ forgotten' = forgotten \cup dedup
  /\ dropped' = dropped \cup {m \in Msg : \E a \in Actor : Waiting(a, m)}
  /\ CutOff(Actor)
  /\ excused' = excused \cup {loop[a].mail.id : a \in {b \in Actor : loop[b].pc = "acking"}}
  /\ UNCHANGED <<actor, posted, events, ran, handed>>

Handle(a) == Take(a) \/ Acked(a) \/ Cleared(a) \/ Pushed(a)

Next ==
  \/ \E m \in Msg : OnFeishuEvent(m)
  \/ \E id \in Id : OnFeishuReaction(id)
  \/ \E a \in Actor : Reply(a) \/ Handle(a)
  \/ \E t \in Thread : OpenThread(t) \/ Connect(t) \/ Disconnect(t) \/ EndThread(t)
  \/ Restart

Spec == Init /\ [][Next]_vars

\* The event loop runs every actor's loop, and every call to Feishu returns.
FairSpec == Spec /\ \A a \in Actor : WF_vars(Handle(a))

-----------------------------------------------------------------------------
(* Properties.                                                             *)

MailType ==
  [kind : {"message"}, id : Msg] \cup [kind : {"reaction"}, id : Id]
    \cup [kind : {"reply"}, id : {Nothing}]
ActorType ==
  [state : {"absent", "active", "ended"}, ackMsg : Id \cup {Nothing},
   ackReaction : Id \cup {Nothing}, sent : SUBSET Own]

TypeOK ==
  /\ table \in Seq(Actor)
  /\ actor \in [Actor -> ActorType]
  /\ session \in [Actor -> {"absent", "suspended", "active", "ended"}]
  /\ mailbox \in [Actor -> Seq(MailType)]
  /\ loop \in [Actor -> [pc : {"idle", "acking", "clearing", "pushing"}, mail : MailType]]
  /\ dedup \subseteq Msg /\ typing \subseteq Id /\ posted \subseteq Own
  /\ ran \in [Msg -> Nat] /\ handed \in [Msg -> Nat]
  /\ forgotten \subseteq Msg /\ dropped \subseteq Msg /\ excused \subseteq Id
  /\ events \in 0..MaxEvents /\ restarts \in 0..MaxRestarts

\* However often Feishu delivers it, and whichever actor each delivery finds, a
\* message is handed to a session once, as long as the runtime remembers its id.
HandedOnce == \A m \in Msg : handed[m] > 1 => m \in forgotten

\* No "Typing" reaction is left behind: it is in the slot of an actor that will take
\* it away, unless a later message took the slot, Feishu failed
\* a call, or the actor or the server was stopped.
TypingAccounted ==
  \A m \in typing \ excused :
    \E a \in Actor : Present(a) /\ actor[a].ackMsg = m /\ actor[a].ackReaction = m

\* A message the runtime has taken, whether or not it still remembers the id, has
\* reached a session or is on its way there, or there is no session: neither a reply
\* that comes in between, nor a client that is away, nor a call to Feishu that fails
\* loses it.  Only a restart does, which keeps no mailbox, and then only what an actor
\* still had: a delivery after it is taken like the first.
MessageKept ==
  \A m \in (dedup \cup forgotten) \ dropped :
    \/ handed[m] > 0
    \/ \E a \in Actor : Waiting(a, m)
    \/ \E a \in {Main, Place[m]} : session[a] \in {"absent", "ended"}

\* Whatever comes in, and whatever Feishu answers, every actor gets through with it:
\* with MessageKept, a message no restart takes away reaches its session in the end.
ActorsGetThrough ==
  <>[](\A a \in Actor : mailbox[a] = <<>> /\ loop[a] = Idle)

\* on_feishu_event: "dedup and echo prevention are handled downstream": a command is
\* executed once.
CommandOnce == \A m \in Msg : ran[m] <= 1
=============================================================================
