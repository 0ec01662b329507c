----------------------------- MODULE SidecarProofs -----------------------------
(***************************************************************************)
(* Proofs about SidecarAccess, for any people, any number of concurrent    *)
(* requests, joins, leaves and faults, and whatever is asked for.          *)
(***************************************************************************)
EXTENDS SidecarAccess, TLAPS

-----------------------------------------------------------------------------
(* One step may replace another worker's change of a binding only if it    *)
(* patches a configuration it did not read.                                *)

LEMMA PatchIsOwn ==
  ASSUME NEW w \in Worker, PatchConfig(w), NEW p \in Peer, bindings[p] # bindings'[p]
  PROVE  work[w].user = p /\ work[w].pc = "patch"
BY DEF PatchConfig, Rebound

\* A peer's bindings change only by work on that peer: with the configuration
\* compared to the one read (baseHash), replacing the whole array of bindings
\* undoes nothing, however requests and reconciler interleave.
THEOREM OwnBinding == Spec => PatchTouchesOwn
<1>1. [Next]_vars =>
        \A p \in Peer : bindings[p] # bindings'[p] =>
          \E w \in Worker : work[w].user = p /\ work[w].pc = "patch"
  <2> SUFFICES ASSUME [Next]_vars, NEW p \in Peer, bindings[p] # bindings'[p]
               PROVE  \E w \in Worker : work[w].user = p /\ work[w].pc = "patch"
    OBVIOUS
  <2>1. PICK w \in Worker : PatchConfig(w)
    <3>1. ~UNCHANGED bindings
      OBVIOUS
    <3>2. \A v \in Worker : Work(v) => PatchConfig(v)
      BY <3>1 DEF Work, Select, Insert, ReadFlags, WriteFlags, ResolveSender, FindAgent,
                  Lookup, GetConfig, CallFails, Record
    <3>3. ~Reconcile /\ ~Crash
      BY <3>1 DEF Reconcile, Wake, Fetch, ListPermissions, Grant, Revoke, EndRound, Crash
    <3>4. \A r \in Request : ~Ask(r)
      BY <3>1 DEF Ask, Deliver, Message, BatchProvision, AdminReset, GroupMessage
    <3>. QED
      BY <3>1, <3>2, <3>3, <3>4 DEF Next, Change, BotComes, BotLeaves, Disband, Chatter, vars
  <2>. QED
    BY <2>1, PatchIsOwn
<1>. QED
  BY <1>1, PTL DEF Spec, PatchTouchesOwn

-----------------------------------------------------------------------------
(* The invariant.                                                          *)

Early == {"select", "insert", "read", "write"}
Late == {"lookup", "config", "patch", "record"}
Operation == {"provision", "suspend", "restore", "reset", "archive"}
Membership == {"added", "removed"}

\* Whoever works, works on somebody; only a request handles an event, a real one,
\* and only one about a person touches flags; an agent is looked up, or a binding
\* read, only to change it.
Handles(job) ==
  /\ job.event \in DOMAIN changes
  /\ job.op = changes[job.event].kind /\ job.user = changes[job.event].user
WorkOK ==
  \A w \in Worker :
    /\ work[w].pc # "idle" => work[w].user \in Peer
    /\ work[w].pc \in Early => w \in Request /\ Handles(work[w])
    /\ work[w].pc \in {"read", "write"} => work[w].op \in Membership
    /\ work[w].pc \in Late => work[w].op \in Operation

SidecarInv == TypeOK /\ WorkOK /\ EventAppliedOnce

USE SidecarAssumption

LEMMA IdleType == Idle \in WorkType /\ Idle.pc = "idle"
BY DEF Idle, Job, WorkType, NoBindings

LEMMA RoundTypes == Asleep \in RoundType /\ Starting \in RoundType
BY DEF Asleep, Starting, RoundType

LEMMA InitInv == Init => SidecarInv
<1> SUFFICES ASSUME Init PROVE SidecarInv
  OBVIOUS
<1>1. TypeOK
  <2>1. work \in [Worker -> WorkType]
    BY IdleType DEF Init
  <2>2. round \in RoundType
    BY RoundTypes DEF Init
  <2>3. changes \in Seq(ChangeType)
          /\ Len(changes) = 0 /\ Len(changes) <= MaxChanges
    BY DEF Init
  <2>. QED
    BY <2>1, <2>2, <2>3 DEF Init, TypeOK, NoBindings
<1>2. \A w \in Worker : work[w].pc = "idle"
  BY IdleType DEF Init
<1>3. WorkOK /\ EventAppliedOnce
  BY <1>2 DEF WorkOK, EventAppliedOnce, Applying, Early, Late, Worker
<1>. QED
  BY <1>1, <1>3 DEF SidecarInv

-----------------------------------------------------------------------------
(* A worker's step.                                                        *)

\* A worker that moves on with its event, or takes one nobody has inserted before,
\* keeps what the invariant says of the work.
LEMMA WorkMoves ==
  ASSUME SidecarInv, NEW w \in Worker, NEW next \in WorkType,
         work' = [work EXCEPT ![w] = next],
         next.pc # "idle" => next.user \in Peer,
         next.pc \in Early => w \in Request /\ Handles(next),
         next.pc \in {"read", "write"} => next.op \in Membership,
         next.pc \in Late => next.op \in Operation,
         next.pc \in {"read", "write"} =>
           /\ next.event \in handled'
           /\ \/ next.event = work[w].event /\ work[w].pc \in {"read", "write"}
              \/ next.event \notin handled,
         handled \subseteq handled', UNCHANGED changes
  PROVE  work' \in [Worker -> WorkType] /\ WorkOK' /\ EventAppliedOnce'
<1> USE DEF SidecarInv
<1>1. work \in [Worker -> WorkType]
  BY DEF TypeOK
<1>2. work' \in [Worker -> WorkType]
  BY <1>1
<1>3. work'[w] = next /\ \A v \in Worker \ {w} : work'[v] = work[v]
  BY <1>1
<1>4. WorkOK'
  BY <1>3 DEF WorkOK, Handles
<1>5. EventAppliedOnce'
  BY <1>3 DEF EventAppliedOnce, Applying, Worker
<1>. QED
  BY <1>2, <1>4, <1>5

\* Going to another point of the same work.
LEMMA GotoMoves ==
  ASSUME SidecarInv, NEW w \in Worker, NEW pc, work[w].pc # "idle",
         pc \in {"insert", "read", "find", "config", "record"},
         Goto(w, pc),
         pc \in Early => work[w].pc \in Early,
         pc \in Late => work[w].op \in Operation,
         pc = "read" => work[w].op \in Membership /\ work[w].event \in handled' \ handled,
         handled \subseteq handled', UNCHANGED changes
  PROVE  work' \in [Worker -> WorkType] /\ WorkOK' /\ EventAppliedOnce'
<1> DEFINE next == [work[w] EXCEPT !.pc = pc]
<1>1. work[w] \in WorkType
  BY DEF SidecarInv, TypeOK
<1>2. next \in WorkType /\ next.pc = pc /\ next.user = work[w].user
      /\ next.event = work[w].event /\ next.op = work[w].op
  BY <1>1 DEF WorkType
<1>3. work' = [work EXCEPT ![w] = next]
  BY DEF Goto
<1>4. work[w].user \in Peer /\ (work[w].pc \in Early => w \in Request /\ Handles(work[w]))
  BY DEF SidecarInv, WorkOK
<1>5. pc \in Early => w \in Request /\ Handles(next)
  BY <1>2, <1>4 DEF Handles
<1> HIDE DEF next
<1>. QED
  BY <1>2, <1>3, <1>4, <1>5, WorkMoves

\* Beginning other work for the same worker.
LEMMA BeginMoves ==
  ASSUME SidecarInv, NEW w \in Worker, NEW op, NEW pc, NEW u \in Peer, Begin(w, op, pc, u),
         op \in {"serve"} \cup Operation,
         pc \in {"resolve", "find", "lookup", "config"}, pc \in Late => op \in Operation,
         handled \subseteq handled', UNCHANGED changes
  PROVE  work' \in [Worker -> WorkType] /\ WorkOK' /\ EventAppliedOnce'
<1> DEFINE next == Job(pc, op, u, 0)
<1>1. next \in WorkType /\ next.pc = pc /\ next.user = u /\ next.op = op
  <2>1. NoBindings \in [Peer -> Nat] /\ 0 \in 0..MaxChanges
    BY DEF NoBindings
  <2>. QED
    BY <2>1 DEF Job, WorkType, Operation
<1>2. work' = [work EXCEPT ![w] = next]
  BY DEF Begin
<1> HIDE DEF next
<1>3. next.pc \notin Early /\ next.pc \notin {"read", "write"}
  BY <1>1 DEF Early
<1>. QED
  BY <1>1, <1>2, <1>3, WorkMoves

\* Ending the work.
LEMMA ReturnMoves ==
  ASSUME SidecarInv, NEW w \in Worker, Return(w),
         handled \subseteq handled', UNCHANGED changes
  PROVE  work' \in [Worker -> WorkType] /\ WorkOK' /\ EventAppliedOnce'
<1>1. Idle.pc \notin Early /\ Idle.pc \notin Late /\ Idle.pc \notin {"read", "write"}
  BY IdleType DEF Early, Late
<1>2. work' = [work EXCEPT ![w] = Idle]
  BY DEF Return
<1>. QED
  BY <1>1, <1>2, IdleType, WorkMoves

AgentStatus == {"none", "active", "suspended", "archived"}

\* What is left to show of a step besides its work.
LEMMA RestIsTyped ==
  ASSUME SidecarInv, work' \in [Worker -> WorkType], WorkOK', EventAppliedOnce',
         UNCHANGED feishu, handled' \subseteq DOMAIN changes,
         perm' \in [User -> (SUBSET Group) \cup {NoRow}],
         agent' \in [Peer -> AgentStatus],
         bindings' \in [Peer -> Nat], round' \in RoundType, faults' \in 0..MaxFaults,
         torn' \subseteq Peer
  PROVE  SidecarInv'
<1>1. member' = member /\ room' = room /\ changes' = changes
  BY DEF feishu
<1>2. TypeOK'
  BY <1>1 DEF SidecarInv, TypeOK, AgentStatus
<1>. QED
  BY <1>2 DEF SidecarInv

\* The types that most steps leave alone.
LEMMA Typed ==
  SidecarInv =>
    /\ perm \in [User -> (SUBSET Group) \cup {NoRow}]
    /\ agent \in [Peer -> AgentStatus]
    /\ bindings \in [Peer -> Nat] /\ round \in RoundType /\ faults \in 0..MaxFaults
    /\ torn \subseteq Peer /\ handled \subseteq DOMAIN changes
    /\ work \in [Worker -> WorkType]
    /\ \A u \in User : Flags(u) \subseteq Group
    /\ \A w \in Worker : work[w].pc # "idle" => work[w].user \in Peer
    /\ \A w \in Worker : work[w].pc \in Early => w \in Request /\ Handles(work[w])
    /\ \A w \in Worker : work[w].pc \in {"read", "write"} => work[w].op \in Membership
    /\ \A w \in Worker : work[w].pc \in Late => work[w].op \in Operation
BY DEF SidecarInv, TypeOK, WorkOK, Flags, AgentStatus

LEMMA EventTypes ==
  ASSUME SidecarInv, NEW e \in DOMAIN changes
  PROVE  /\ e \in 0..MaxChanges
         /\ changes[e].kind \in {"added", "removed", "bot added", "disbanded"}
         /\ changes[e].user \in Peer
         /\ changes[e].kind \in Membership => changes[e].user \in User /\ changes[e].group \in Group
         /\ changes[e].kind \in {"bot added", "disbanded"} => changes[e].user \in Chat
<1>1. changes \in Seq(ChangeType) /\ Len(changes) <= MaxChanges
  BY DEF SidecarInv, TypeOK
<1>2. changes[e] \in ChangeType /\ e \in 1..Len(changes) /\ Len(changes) \in Nat
  BY <1>1
<1>3. e \in 0..MaxChanges
  BY <1>1, <1>2
<1>4. ASSUME changes[e] \in [kind : {"added", "removed"}, user : User, group : Group]
      PROVE  /\ changes[e].kind \in {"added", "removed"}
             /\ changes[e].user \in User /\ changes[e].group \in Group
  BY <1>4
<1>5. ASSUME changes[e] \in [kind : {"bot added", "disbanded"}, user : Chat, group : {"none"}]
      PROVE  changes[e].kind \in {"bot added", "disbanded"} /\ changes[e].user \in Chat
  BY <1>5
<1>. QED
  BY <1>2, <1>3, <1>4, <1>5 DEF ChangeType, Membership, Peer

-----------------------------------------------------------------------------
(* The steps.                                                              *)

\* Something happens to the groups: the events there were keep their places.
LEMMA HappensInv ==
  ASSUME SidecarInv, NEW e \in ChangeType, Len(changes) < MaxChanges,
         changes' = Append(changes, e),
         member' \in [User -> SUBSET Group],
         room' \in [Chat -> {"without", "with", "gone"}],
         UNCHANGED <<tables, bindings, work, round, faults, torn>>
  PROVE  SidecarInv'
<1>1. /\ changes' \in Seq(ChangeType)
      /\ Len(changes') = Len(changes) + 1
      /\ Len(changes) \in Nat
      /\ DOMAIN changes = 1..Len(changes) /\ DOMAIN changes' = 1..Len(changes')
      /\ \A i \in DOMAIN changes : changes'[i] = changes[i]
  BY DEF SidecarInv, TypeOK
<1>2. DOMAIN changes \subseteq DOMAIN changes' /\ Len(changes') <= MaxChanges
  BY <1>1
<1>3. TypeOK'
  BY <1>1, <1>2 DEF SidecarInv, TypeOK, tables
<1>4. WorkOK'
  BY <1>1, <1>2 DEF SidecarInv, WorkOK, Handles
<1>5. EventAppliedOnce'
  BY DEF SidecarInv, EventAppliedOnce, Applying, tables
<1>. QED
  BY <1>3, <1>4, <1>5 DEF SidecarInv

LEMMA ChangeInv ==
  ASSUME SidecarInv, NEW u \in User, NEW g \in Group, Change(u, g)
  PROVE  SidecarInv'
<1> USE DEF Change
<1> DEFINE e == [kind |-> IF g \in member[u] THEN "removed" ELSE "added", user |-> u, group |-> g]
<1>1. member' \in [User -> SUBSET Group] /\ room' \in [Chat -> {"without", "with", "gone"}]
  BY DEF SidecarInv, TypeOK
<1>2. changes' = Append(changes, e) /\ e \in ChangeType
  BY DEF ChangeType
<1> HIDE DEF e
<1>. QED
  BY <1>1, <1>2, HappensInv

LEMMA ChatInv ==
  ASSUME SidecarInv, NEW c \in Chat, BotComes(c) \/ BotLeaves(c) \/ Disband(c)
  PROVE  SidecarInv'
<1>1. member \in [User -> SUBSET Group] /\ room \in [Chat -> {"without", "with", "gone"}]
  BY DEF SidecarInv, TypeOK
<1>2. room' \in [Chat -> {"without", "with", "gone"}]
  BY <1>1 DEF BotComes, BotLeaves, Disband
<1>3. ASSUME NEW kind \in {"bot added", "disbanded"}, Chatter(kind, c) PROVE SidecarInv'
  <2> DEFINE e == [kind |-> kind, user |-> c, group |-> "none"]
  <2>1. changes' = Append(changes, e) /\ e \in ChangeType /\ member' = member
    BY <1>3 DEF Chatter, ChangeType
  <2> HIDE DEF e
  <2>. QED
    BY <1>1, <1>2, <1>3, <2>1, HappensInv DEF Chatter
<1>4. ASSUME BotLeaves(c) PROVE SidecarInv'
  BY <1>2, <1>4 DEF BotLeaves, tables, SidecarInv, TypeOK, WorkOK, Handles, EventAppliedOnce, Applying
<1>. QED
  BY <1>3, <1>4 DEF BotComes, Disband

\* Requests begin.
LEMMA AskInv ==
  ASSUME SidecarInv, NEW r \in Request, Ask(r)
  PROVE  SidecarInv'
<1> USE DEF Early, Late, Operation
<1>0. r \in Worker
  BY DEF Worker
<1>1. ASSUME NEW e \in DOMAIN changes, Deliver(r, e) PROVE SidecarInv'
  <2> USE <1>1 DEF Deliver
  <2> DEFINE next == Job("select", changes[e].kind, changes[e].user, e)
  <2>1. /\ changes[e].kind \in {"added", "removed", "bot added", "disbanded"}
        /\ changes[e].user \in Peer /\ e \in 0..MaxChanges
    BY EventTypes
  <2>2. next \in WorkType /\ next.pc = "select" /\ next.user \in Peer /\ Handles(next)
    BY <2>1 DEF Job, WorkType, NoBindings, Handles
  <2>3. work' = [work EXCEPT ![r] = next]
    OBVIOUS
  <2> HIDE DEF next
  <2>4. work' \in [Worker -> WorkType] /\ WorkOK' /\ EventAppliedOnce'
    BY <1>0, <2>2, <2>3, WorkMoves DEF feishu, tables
  <2>. QED
    BY <2>4, Typed, RestIsTyped DEF tables
<1>2. ASSUME NEW u \in User, Message(r, u) \/ BatchProvision(r, u) \/ AdminReset(r, u)
      PROVE  SidecarInv'
  <2> USE <1>2 DEF Message, BatchProvision, AdminReset, Peer
  <2>1. work' \in [Worker -> WorkType] /\ WorkOK' /\ EventAppliedOnce'
    BY <1>0, BeginMoves DEF feishu, tables
  <2>. QED
    BY <2>1, Typed, RestIsTyped DEF tables
<1>3. ASSUME NEW c \in Chat, GroupMessage(r, c) PROVE SidecarInv'
  <2> USE <1>3 DEF GroupMessage, Peer
  <2>1. work' \in [Worker -> WorkType] /\ WorkOK' /\ EventAppliedOnce'
    BY <1>0, BeginMoves DEF feishu, tables
  <2>. QED
    BY <2>1, Typed, RestIsTyped DEF tables
<1>. QED
  BY <1>1, <1>2, <1>3 DEF Ask

\* Requests, and the reconciler's suspensions, go on.
LEMMA WorkInv ==
  ASSUME SidecarInv, NEW w \in Worker, Work(w)
  PROVE  SidecarInv'
<1> USE DEF Early, Late, Operation
<1>1. CASE Select(w)
  <2> USE <1>1 DEF Select
  <2>1. work' \in [Worker -> WorkType] /\ WorkOK' /\ EventAppliedOnce'
    BY GotoMoves, ReturnMoves DEF feishu, tables
  <2>. QED
    BY <2>1, Typed, RestIsTyped DEF tables
<1>2. CASE Insert(w)
  <2> USE <1>2 DEF Insert
  <2>0. work[w].user \in Peer /\ Handles(work[w])
    BY Typed
  <2>1. work' \in [Worker -> WorkType] /\ WorkOK' /\ EventAppliedOnce'
    <3>1. work[w].op \in {"added", "removed", "bot added", "disbanded"}
      BY <2>0, EventTypes DEF Handles
    <3>2. CASE Return(w)
      BY <3>2, ReturnMoves DEF feishu
    <3>3. CASE work[w].event \notin handled /\ Apply(w)
      <4>1. CASE work[w].op = "bot added"
        BY <2>0, <3>3, <4>1, BeginMoves DEF Apply, feishu
      <4>2. CASE work[w].op = "disbanded"
        BY <2>0, <3>3, <4>2, BeginMoves DEF Apply, feishu
      <4>3. CASE work[w].op \in Membership
        <5>1. Goto(w, "read")
          BY <3>3, <4>3 DEF Apply, Membership
        <5>. QED
          BY <3>3, <4>3, <5>1, GotoMoves DEF feishu
      <4>. QED
        BY <3>1, <4>1, <4>2, <4>3 DEF Membership
    <3>. QED
      BY <3>2, <3>3
  <2>2. handled' \subseteq DOMAIN changes
    BY <2>0, Typed DEF Handles
  <2>. QED
    BY <2>1, <2>2, Typed, RestIsTyped
<1>3. CASE ReadFlags(w)
  <2> USE <1>3 DEF ReadFlags
  <2> DEFINE next == [work[w] EXCEPT !.pc = "write", !.flags = Flags(work[w].user)]
  <2>0. work[w] \in WorkType /\ w \in Request /\ Handles(work[w]) /\ work[w].op \in Membership
    BY Typed
  <2>1. work[w].user \in User /\ work[w].user \in Peer /\ work[w].event \in DOMAIN changes
    BY <2>0, EventTypes DEF Handles
  <2>2. /\ next \in WorkType /\ next.pc = "write" /\ next.op = work[w].op
        /\ next.user = work[w].user /\ next.event = work[w].event
    <3>1. Flags(work[w].user) \subseteq Group
      BY <2>1, Typed
    <3>. QED
      BY <2>0, <2>1, <3>1 DEF WorkType
  <2>3. work[w].event \in handled
    BY <2>0 DEF SidecarInv, EventAppliedOnce, Applying
  <2>4. CASE work' = [work EXCEPT ![w] = next]
    <3>0. Handles(next)
      BY <2>0, <2>2 DEF Handles
    <3> HIDE DEF next
    <3>1. work' \in [Worker -> WorkType] /\ WorkOK' /\ EventAppliedOnce'
      BY <2>0, <2>1, <2>2, <2>3, <2>4, <3>0, WorkMoves DEF feishu, tables
    <3>. QED
      BY <3>1, Typed, RestIsTyped DEF tables
  <2>5. CASE Return(w)
    <3>1. work' \in [Worker -> WorkType] /\ WorkOK' /\ EventAppliedOnce'
      BY <2>5, ReturnMoves DEF feishu, tables
    <3>. QED
      BY <3>1, Typed, RestIsTyped DEF tables
  <2>6. [work EXCEPT ![w].pc = "write", ![w].flags = Flags(work[w].user)]
          = [work EXCEPT ![w] = next]
    BY Typed
  <2>. QED
    BY <2>4, <2>5, <2>6
<1>4. CASE WriteFlags(w)
  <2> USE <1>4 DEF WriteFlags
  <2> DEFINE u == work[w].user
             g == changes[work[w].event].group
  <2>0. work[w] \in WorkType /\ Handles(work[w]) /\ work[w].op \in Membership
    BY Typed
  <2>1. u \in User /\ u \in Peer /\ g \in Group
    BY <2>0, EventTypes DEF Handles, Peer
  <2>2. work[w].flags \subseteq Group
    BY <2>0 DEF WorkType
  <2>3. perm' \in [User -> (SUBSET Group) \cup {NoRow}]
    BY <2>1, <2>2, Typed
  <2>4. work' \in [Worker -> WorkType] /\ WorkOK' /\ EventAppliedOnce'
    BY <2>1, BeginMoves, ReturnMoves DEF feishu
  <2>. QED
    BY <2>3, <2>4, Typed, RestIsTyped
<1>5. CASE ResolveSender(w)
  <2> USE <1>5 DEF ResolveSender
  <2>1. work' \in [Worker -> WorkType] /\ WorkOK' /\ EventAppliedOnce'
    BY GotoMoves, ReturnMoves DEF feishu, tables
  <2>. QED
    BY <2>1, Typed, RestIsTyped DEF tables
<1>6. CASE FindAgent(w)
  <2> USE <1>6 DEF FindAgent
  <2>1. work[w].user \in Peer
    BY Typed
  <2>2. work' \in [Worker -> WorkType] /\ WorkOK' /\ EventAppliedOnce'
    BY <2>1, BeginMoves, ReturnMoves DEF feishu, tables
  <2>. QED
    BY <2>2, Typed, RestIsTyped DEF tables
<1>7. CASE Lookup(w)
  <2> USE <1>7 DEF Lookup
  <2>1. work' \in [Worker -> WorkType] /\ WorkOK' /\ EventAppliedOnce'
    BY Typed, GotoMoves, ReturnMoves DEF feishu, tables
  <2>. QED
    BY <2>1, Typed, RestIsTyped DEF tables
<1>8. CASE GetConfig(w)
  <2> USE <1>8 DEF GetConfig
  <2> DEFINE next == [work[w] EXCEPT !.pc = "patch", !.conf = bindings]
  <2>1. work[w] \in WorkType /\ work[w].user \in Peer /\ work[w].op \in Operation
    BY Typed
  <2>2. /\ next \in WorkType /\ next.pc = "patch"
        /\ next.user = work[w].user /\ next.op = work[w].op
    BY <2>1, Typed DEF WorkType
  <2>3. work' = [work EXCEPT ![w] = next]
    BY Typed
  <2> HIDE DEF next
  <2>4. work' \in [Worker -> WorkType] /\ WorkOK' /\ EventAppliedOnce'
    BY <2>1, <2>2, <2>3, WorkMoves DEF feishu, tables
  <2>. QED
    BY <2>4, Typed, RestIsTyped DEF tables
<1>9. CASE PatchConfig(w)
  <2> USE <1>9 DEF PatchConfig
  <2>1. work' \in [Worker -> WorkType] /\ WorkOK' /\ EventAppliedOnce'
    BY Typed, GotoMoves DEF feishu, tables
  <2>2. bindings' \in [Peer -> Nat]
    <3>1. work[w].conf \in [Peer -> Nat]
      BY Typed DEF WorkType
    <3>. QED
      BY <3>1, Typed DEF Rebound
  <2>3. torn' \subseteq Peer
    BY Typed DEF Tears
  <2>. QED
    BY <2>1, <2>2, <2>3, Typed, RestIsTyped DEF tables
<1>10. CASE CallFails(w)
  <2> USE <1>10 DEF CallFails, Fault
  <2>1. work' \in [Worker -> WorkType] /\ WorkOK' /\ EventAppliedOnce'
    BY ReturnMoves DEF feishu, tables
  <2>2. round' \in RoundType /\ faults' \in 0..MaxFaults
    BY Typed, RoundTypes
  <2>. QED
    BY <2>1, <2>2, Typed, RestIsTyped DEF tables
<1>11. CASE Record(w)
  <2> USE <1>11 DEF Record
  <2>1. work' \in [Worker -> WorkType] /\ WorkOK' /\ EventAppliedOnce'
    BY ReturnMoves DEF feishu
  <2>2. work[w].op \in {"provision", "restore", "suspend", "reset", "archive"}
    BY Typed
  <2>3. agent' \in [Peer -> AgentStatus]
    BY <2>2, Typed DEF Status, AgentStatus
  <2>. QED
    BY <2>1, <2>3, Typed, RestIsTyped
<1>. QED
  BY <1>1, <1>2, <1>3, <1>4, <1>5, <1>6, <1>7, <1>8, <1>9, <1>10, <1>11 DEF Work

\* The reconciler's round.
LEMMA ReconcileInv ==
  ASSUME SidecarInv, Reconcile
  PROVE  SidecarInv'
<1>0. round \in RoundType /\ Reconciler \in Worker
  BY Typed DEF Worker
<1>1. ASSUME UNCHANGED work, UNCHANGED <<feishu, handled, agent, bindings, torn>>,
             perm' \in [User -> (SUBSET Group) \cup {NoRow}],
             round' \in RoundType, faults' \in 0..MaxFaults
      PROVE  SidecarInv'
  <2>1. work' \in [Worker -> WorkType] /\ WorkOK' /\ EventAppliedOnce'
    BY <1>1 DEF SidecarInv, TypeOK, WorkOK, Handles, EventAppliedOnce, Applying, feishu
  <2>. QED
    BY <1>1, <2>1, Typed, RestIsTyped
<1>2. CASE Wake
  BY <1>1, <1>2, RoundTypes, Typed DEF Wake, tables
<1>3. ASSUME NEW g \in Group, NEW next \in {"admins", "list"}, Fetch(g, next)
      PROVE  SidecarInv'
  <2>1. PICK list \in SUBSET User :
          /\ UNCHANGED faults \/ Fault("partial list")
          /\ round' = [round EXCEPT !.at = next, !.found = Found(g, list)]
    BY <1>3 DEF Fetch
  <2>2. Found(g, list) \in [User -> SUBSET Group]
    BY <1>0 DEF Found, RoundType
  <2>3. round' \in RoundType
    BY <1>0, <2>1, <2>2 DEF RoundType
  <2>4. faults' \in 0..MaxFaults
    <3>1. faults \in 0..MaxFaults
      BY Typed
    <3>2. faults' = faults \/ (faults < MaxFaults /\ faults' = faults + 1)
      BY <2>1 DEF Fault
    <3>. QED
      BY <3>1, <3>2
  <2>. QED
    BY <1>1, <1>3, <2>3, <2>4, Typed DEF Fetch, tables
<1>4. CASE ListPermissions
  <2>1. round' \in RoundType
    BY <1>0, <1>4, Typed DEF ListPermissions, RoundType
  <2>. QED
    BY <1>1, <1>4, <2>1, Typed DEF ListPermissions, tables
<1>5. ASSUME NEW u \in User, Done(u) PROVE round' \in RoundType
  BY <1>0, <1>5 DEF Done, RoundType
<1>6. ASSUME NEW u \in User, Grant(u) PROVE SidecarInv'
  <2>1. perm' \in [User -> (SUBSET Group) \cup {NoRow}]
    BY <1>0, <1>6, Typed DEF Grant, RoundType
  <2>. QED
    BY <1>1, <1>5, <1>6, <2>1, Typed DEF Grant
<1>7. ASSUME NEW u \in User, Revoke(u) PROVE SidecarInv'
  <2> USE <1>7 DEF Revoke
  <2>1. perm' \in [User -> (SUBSET Group) \cup {NoRow}]
    BY Typed
  <2>2. round' \in RoundType
    BY <1>5
  <2>3. CASE UNCHANGED work
    BY <1>1, <2>1, <2>2, <2>3, Typed
  <2>4. CASE Begin(Reconciler, "suspend", "lookup", u)
    <3>1. work' \in [Worker -> WorkType] /\ WorkOK' /\ EventAppliedOnce'
      BY <1>0, <2>4, BeginMoves DEF feishu, Operation, Peer
    <3>. QED
      BY <2>1, <2>2, <3>1, Typed, RestIsTyped
  <2>. QED
    BY <2>3, <2>4
<1>8. CASE EndRound
  BY <1>1, <1>8, RoundTypes, Typed DEF EndRound, tables
<1>. QED
  BY <1>2, <1>3, <1>4, <1>6, <1>7, <1>8 DEF Reconcile, Group

LEMMA CrashInv ==
  ASSUME SidecarInv, Crash
  PROVE  SidecarInv'
<1> USE DEF Crash
<1>1. \A w \in Worker : work'[w] = Idle
  OBVIOUS
<1>2. work' \in [Worker -> WorkType]
  BY IdleType
<1>3. WorkOK' /\ EventAppliedOnce'
  BY <1>1, IdleType DEF WorkOK, EventAppliedOnce, Applying, Early, Late, Worker
<1>4. round' \in RoundType /\ faults' \in 0..MaxFaults
  BY RoundTypes, Typed DEF Fault
<1>. QED
  BY <1>2, <1>3, <1>4, Typed, RestIsTyped DEF tables

-----------------------------------------------------------------------------
(* The theorems.                                                           *)

\* SidecarInv holds for ever.
THEOREM SidecarInvariant == Spec => []SidecarInv
<1>1. SidecarInv /\ [Next]_vars => SidecarInv'
  <2> SUFFICES ASSUME SidecarInv, [Next]_vars PROVE SidecarInv'
    OBVIOUS
  <2>1. CASE Next
    BY <2>1, ChangeInv, ChatInv, AskInv, WorkInv, ReconcileInv, CrashInv DEF Next
  <2>2. CASE UNCHANGED vars
    BY <2>2 DEF vars, feishu, tables, SidecarInv, TypeOK, WorkOK, Handles, EventAppliedOnce, Applying
  <2>. QED
    BY <2>1, <2>2
<1>. QED
  BY <1>1, InitInv, PTL DEF Spec

\* Every table keeps its shape, and every request and round its own.
THEOREM SidecarTypes == Spec => []TypeOK
<1>1. SidecarInv => TypeOK
  BY DEF SidecarInv
<1>. QED
  BY <1>1, SidecarInvariant, PTL

\* However many deliveries of an event are handled at once, one at most gets past
\* the duplicate check.
THEOREM AppliedOnce == Spec => []EventAppliedOnce
<1>1. SidecarInv => EventAppliedOnce
  BY DEF SidecarInv
<1>. QED
  BY <1>1, SidecarInvariant, PTL

-----------------------------------------------------------------------------
(* The registry and the gateway agree.                                     *)

\* The two agree about one peer.
Match(p) ==
  /\ agent[p] = "active" => bindings[p] = 1
  /\ agent[p] \in {"none", "suspended"} => bindings[p] = 0

\* What is there between the two writes of an operation on p.
Written(op, p) ==
  /\ op = "provision" => agent[p] = "none" /\ bindings[p] = 1
  /\ op = "restore" => agent[p] = "suspended" /\ bindings[p] = 1
  /\ op \in {"suspend", "reset"} => bindings[p] = 0

\* People's agents are suspended, restored and reset, those of chats archived.
JobOK(job) ==
  /\ job.pc \in Late => /\ job.op \in {"suspend", "restore", "reset"} => job.user \in User
                        /\ job.op = "archive" => job.user \in Chat
  /\ job.pc \in {"config", "patch"} => job.op # "archive"

\* Who is not torn agrees, but for the one worker between its two writes.
Whole(p) ==
  /\ Match(p) \/ \E w \in Worker : Between(w, p)
  /\ \A v, w \in Worker : Between(v, p) /\ Between(w, p) => v = w
  /\ \A w \in Worker : Between(w, p) => Written(work[w].op, p)

AgentInv ==
  /\ \A c \in Chat : agent[c] # "suspended"
  /\ \A w \in Worker : JobOK(work[w])
  /\ \A p \in Peer \ torn : Whole(p)

\* Work that moves on without a write.
LEMMA JobMoves ==
  ASSUME SidecarInv, AgentInv, NEW w \in Worker, NEW next,
         work' = [work EXCEPT ![w] = next], work[w].pc # "record",
         next.pc # "record" \/ next.op = "archive",
         UNCHANGED <<agent, bindings, torn>>, JobOK(next)
  PROVE  AgentInv'
<1>1. work'[w] = next /\ \A v \in Worker \ {w} : work'[v] = work[v]
  BY Typed
<1>2. \A v \in Worker : JobOK(work'[v])
  BY <1>1 DEF AgentInv
<1>3. \A v \in Worker, p \in Peer :
        (Between(v, p)' <=> Between(v, p)) /\ (Between(v, p) => work'[v] = work[v])
  BY <1>1 DEF Between
<1>4. ASSUME NEW p \in Peer \ torn PROVE Whole(p)'
  BY <1>3, <1>4 DEF AgentInv, Whole, Match, Written
<1>. QED
  BY <1>2, <1>4 DEF AgentInv, JobOK

LEMMA IdleJob == JobOK(Idle) /\ Idle.pc # "record"
BY IdleType DEF JobOK, Late

LEMMA BeginJob ==
  ASSUME NEW op, NEW pc \in {"resolve", "find", "lookup", "config"}, NEW u \in Peer,
         pc \in Late => /\ op \in {"suspend", "restore", "reset"} => u \in User
                        /\ op = "archive" => u \in Chat,
         pc = "config" => op # "archive"
  PROVE  JobOK(Job(pc, op, u, 0)) /\ Job(pc, op, u, 0).pc # "record"
<1> DEFINE job == Job(pc, op, u, 0)
<1>1. job.pc = pc /\ job.op = op /\ job.user = u
  BY DEF Job
<1> HIDE DEF job
<1>2. JobOK(job) /\ job.pc # "record"
  BY <1>1 DEF JobOK
<1>. QED
  BY <1>2 DEF job

LEMMA GotoJob ==
  ASSUME NEW job \in WorkType, NEW pc \in {"insert", "read", "find", "config", "record"},
         JobOK(job), pc \in Late => job.pc = "lookup",
         pc = "config" => job.op # "archive", pc = "record" => job.op = "archive"
  PROVE  LET next == [job EXCEPT !.pc = pc] IN
         JobOK(next) /\ (next.pc # "record" \/ next.op = "archive")
<1> DEFINE next == [job EXCEPT !.pc = pc]
<1>1. next.pc = pc /\ next.op = job.op /\ next.user = job.user
  BY DEF WorkType
<1> HIDE DEF next
<1>2. JobOK(next) /\ (next.pc # "record" \/ next.op = "archive")
  BY <1>1 DEF JobOK, Late
<1>. QED
  BY <1>2 DEF next

LEMMA StaysAgents ==
  AgentInv /\ UNCHANGED <<work, agent, bindings, torn>> => AgentInv'
BY DEF AgentInv, Whole, Between, Match, JobOK, Written

\* A request begins: it has found nothing out yet.
LEMMA AskAgents ==
  ASSUME SidecarInv, AgentInv, NEW r \in Request, Ask(r)
  PROVE  AgentInv'
<1>0. r \in Worker
  BY DEF Worker
<1>1. ASSUME NEW e \in DOMAIN changes, Deliver(r, e) PROVE AgentInv'
  <2> DEFINE next == Job("select", changes[e].kind, changes[e].user, e)
  <2>1. next.pc = "select"
    BY DEF Job
  <2>2. /\ work' = [work EXCEPT ![r] = next] /\ UNCHANGED <<agent, bindings, torn>>
        /\ work[r].pc = "idle"
    BY <1>1, IdleType DEF Deliver, tables
  <2> HIDE DEF next
  <2>3. JobOK(next)
    BY <2>1 DEF JobOK, Late
  <2>. QED
    BY <1>0, <2>1, <2>2, <2>3, JobMoves
<1>2. ASSUME NEW op, NEW pc, NEW u \in Peer, work[r] = Idle, Begin(r, op, pc, u),
             UNCHANGED <<agent, bindings, torn>>, pc \in {"resolve", "find", "lookup"},
             (op = "serve" /\ pc # "lookup") \/ (op = "reset" /\ pc = "lookup" /\ u \in User)
      PROVE  AgentInv'
  <2>1. JobOK(Job(pc, op, u, 0)) /\ Job(pc, op, u, 0).pc # "record"
    BY <1>2, BeginJob DEF Late
  <2>. QED
    BY <1>0, <1>2, <2>1, IdleType, JobMoves DEF Begin
<1>3. ASSUME NEW u \in User, Message(r, u) \/ BatchProvision(r, u) \/ AdminReset(r, u)
      PROVE  AgentInv'
  <2>1. u \in Peer /\ UNCHANGED <<agent, bindings, torn>> /\ work[r] = Idle
    BY <1>3 DEF Message, BatchProvision, AdminReset, Peer, tables
  <2>2. Begin(r, "serve", "resolve", u) \/ Begin(r, "reset", "lookup", u)
    BY <1>3 DEF Message, BatchProvision, AdminReset
  <2>. QED
    BY <1>2, <2>1, <2>2
<1>4. ASSUME NEW c \in Chat, GroupMessage(r, c) PROVE AgentInv'
  <2>1. c \in Peer /\ UNCHANGED <<agent, bindings, torn>> /\ work[r] = Idle
    BY <1>4 DEF GroupMessage, Peer, tables
  <2>2. Begin(r, "serve", "find", c)
    BY <1>4 DEF GroupMessage
  <2>. QED
    BY <1>2, <2>1, <2>2
<1>. QED
  BY <1>1, <1>3, <1>4 DEF Ask

\* A patch of a peer nobody else is in the middle of changes its bindings as its row
\* will be, or else tears it.
LEMMA PatchAgents ==
  ASSUME SidecarInv, AgentInv, NEW w \in Worker, PatchConfig(w)
  PROVE  AgentInv'
<1>u. PICK u \in Peer, op \in Operation : u = work[w].user /\ op = work[w].op
  BY Typed DEF PatchConfig, Late
<1> DEFINE next == [work[w] EXCEPT !.pc = "record"]
<1>0. /\ work[w] \in WorkType /\ work[w].pc = "patch"
      /\ op # "archive" /\ bindings \in [Peer -> Nat]
      /\ op \in {"suspend", "restore", "reset"} => u \in User
  BY <1>u, Typed DEF PatchConfig, AgentInv, JobOK, Late
<1>1. torn' = Tears(w, u)
  BY <1>u DEF PatchConfig
<1>2. /\ work' = [work EXCEPT ![w] = next] /\ agent' = agent
      /\ bindings' = [bindings EXCEPT ![u] = IF op \in {"provision", "restore"}
                                             THEN @ + 1 ELSE 0]
  BY <1>u DEF PatchConfig, Goto, Rebound, tables
<1>3. next.pc = "record" /\ next.op = op /\ next.user = u
  BY <1>u, <1>0 DEF WorkType
<1> HIDE DEF next
<1>4. work'[w] = next /\ \A v \in Worker \ {w} : work'[v] = work[v]
  BY <1>2, Typed
<1>5. \A p \in Peer : /\ ~Between(w, p) /\ (Between(w, p)' <=> p = u)
                      /\ \A v \in Worker \ {w} : Between(v, p)' <=> Between(v, p)
  BY <1>0, <1>3, <1>4 DEF Between
<1>6. bindings'[u] = (IF op \in {"provision", "restore"} THEN bindings[u] + 1 ELSE 0)
      /\ \A p \in Peer \ {u} : bindings'[p] = bindings[p]
  BY <1>0, <1>2
<1>7. ASSUME u \notin torn' PROVE Whole(u)'
  <2>1. ~Overtaken(w, u) /\ (u \in torn => op \in {"suspend", "reset"})
    BY <1>u, <1>1, <1>7 DEF Tears
  <2>2. \A v \in Worker : Between(v, u)' <=> v = w
    BY <1>0, <1>5, <2>1 DEF Overtaken
  <2>3. u \notin torn => Match(u)
    BY <1>0, <1>5, <2>1 DEF AgentInv, Whole, Overtaken
  <2>4. op = "provision" => agent[u] = "none" /\ bindings[u] = 0
    BY <1>u, <2>1, <2>3 DEF Overtaken, Match
  <2>5. op = "restore" => agent[u] = "suspended" /\ bindings[u] = 0
    BY <1>u, <2>1, <2>3 DEF Overtaken, Match
  <2>6. /\ op = "provision" => agent'[u] = "none" /\ bindings'[u] = 1
        /\ op = "restore" => agent'[u] = "suspended" /\ bindings'[u] = 1
        /\ op \in {"suspend", "reset"} => bindings'[u] = 0
    BY <1>2, <1>6, <2>4, <2>5
  <2>7. work'[w].op = op
    BY <1>3, <1>4
  <2>8. ASSUME NEW v \in Worker, Between(v, u)' PROVE Written(work[v].op, u)'
    BY <2>2, <2>6, <2>7, <2>8 DEF Written
  <2>9. (\E v \in Worker : Between(v, u)') /\ (\A v, x \in Worker : Between(v, u)' /\ Between(x, u)' => v = x)
    BY <2>2
  <2>. QED
    BY <2>8, <2>9 DEF Whole
<1>8. ASSUME NEW p \in Peer, p # u, p \notin torn' PROVE Whole(p)'
  <2>1. p \notin torn
    BY <1>1, <1>8 DEF Tears
  <2>2. \A v \in Worker : /\ Between(v, p)' <=> Between(v, p)
                          /\ Between(v, p) => work'[v] = work[v]
    BY <1>4, <1>5, <1>8
  <2>3. bindings'[p] = bindings[p] /\ agent'[p] = agent[p]
    BY <1>2, <1>6, <1>8
  <2>. QED
    BY <2>1, <2>2, <2>3 DEF AgentInv, Whole, Match, Written
<1>9. ASSUME NEW v \in Worker PROVE JobOK(work'[v])
  BY <1>0, <1>3, <1>4 DEF AgentInv, JobOK
<1>10. \A p \in Peer \ torn' : Whole(p)'
  BY <1>7, <1>8
<1>. QED
  BY <1>2, <1>9, <1>10 DEF AgentInv, JobOK

\* The row of a peer follows its bindings.
LEMMA RecordAgents ==
  ASSUME SidecarInv, AgentInv, NEW w \in Worker, Record(w)
  PROVE  AgentInv'
<1>u. PICK u \in Peer, op \in Operation : u = work[w].user /\ op = work[w].op
  BY Typed DEF Record, Late
<1>0. /\ work[w].pc = "record"
      /\ agent \in [Peer -> AgentStatus]
      /\ op \in {"suspend", "restore", "reset"} => u \in User
      /\ op = "archive" => u \in Chat
  BY <1>u, Typed DEF Record, AgentInv, JobOK, Late
<1>2. /\ work' = [work EXCEPT ![w] = Idle] /\ bindings' = bindings /\ torn' = torn
      /\ agent' = [agent EXCEPT ![u] = Status(op, @)]
  BY <1>u DEF Record, Return
<1>3. work'[w] = Idle /\ \A v \in Worker \ {w} : work'[v] = work[v]
  BY <1>2, Typed
<1>4. agent'[u] = Status(op, agent[u]) /\ \A p \in Peer \ {u} : agent'[p] = agent[p]
  BY <1>0, <1>2
<1>5. \A p \in Peer : /\ ~Between(w, p)' /\ (Between(w, p) <=> p = u /\ op # "archive")
                      /\ \A v \in Worker \ {w} : Between(v, p)' <=> Between(v, p)
  BY <1>u, <1>0, <1>3, IdleJob DEF Between
<1>6. /\ op = "provision" => agent'[u] = IF agent[u] = "none" THEN "active" ELSE agent[u]
      /\ op = "restore" => agent'[u] = IF agent[u] = "none" THEN "none" ELSE "active"
      /\ op = "suspend" => agent'[u] = IF agent[u] = "none" THEN "none" ELSE "suspended"
      /\ op = "archive" => agent'[u] = IF agent[u] = "none" THEN "none" ELSE "archived"
      /\ op = "reset" => agent'[u] = "none"
  BY <1>4 DEF Status
<1>7. ASSUME u \notin torn PROVE Whole(u)'
  <2>0. Whole(u)
    BY <1>0, <1>7 DEF AgentInv
  <2>1. CASE op = "archive"
    <3>1. /\ agent[u] \in {"active", "archived"} => agent'[u] = "archived"
          /\ agent[u] = "none" => agent'[u] = "none"
          /\ agent[u] # "suspended"
      BY <1>0, <1>6, <2>1 DEF AgentInv
    <3>2. Match(u) => Match(u)'
      BY <1>0, <1>2, <3>1 DEF Match, AgentStatus
    <3>3. \A v \in Worker : /\ Between(v, u)' <=> Between(v, u)
                            /\ Between(v, u) => work'[v] = work[v]
      BY <1>3, <1>5, <2>1
    <3>4. ASSUME NEW v \in Worker, Between(v, u) PROVE Written(work[v].op, u)'
      <4>1. work[v].op \in Operation /\ work[v].op # "archive" /\ work[v].pc = "record"
        BY <3>4, Typed DEF Between, Late
      <4>2. work[v].user = u /\ u \in Chat
        BY <1>0, <2>1, <3>4 DEF Between
      <4>3. work[v].op = "provision"
        BY <4>1, <4>2 DEF AgentInv, JobOK, Late, Operation
      <4>4. agent[u] = "none" /\ bindings[u] = 1
        BY <2>0, <3>4, <4>3 DEF Whole, Written
      <4>. QED
        BY <1>2, <3>1, <3>3, <3>4, <4>3, <4>4 DEF Written
    <3>. QED
      BY <2>0, <3>2, <3>3, <3>4 DEF Whole
  <2>2. CASE op # "archive"
    <3>1. Between(w, u)
      BY <1>0, <1>5, <2>2
    <3>2. \A v \in Worker : ~Between(v, u)'
      BY <1>0, <1>5, <2>0, <3>1 DEF Whole
    <3>3. Written(op, u)
      BY <1>u, <2>0, <3>1 DEF Whole
    <3>4. Match(u)'
      BY <1>0, <1>2, <1>6, <2>2, <3>3 DEF Written, Match, Operation
    <3>. QED
      BY <3>2, <3>4 DEF Whole
  <2>. QED
    BY <2>1, <2>2
<1>8. ASSUME NEW p \in Peer \ torn, p # u PROVE Whole(p)'
  <2>1. \A v \in Worker : /\ Between(v, p)' <=> Between(v, p)
                          /\ Between(v, p) => work'[v] = work[v]
    BY <1>3, <1>5, <1>8
  <2>2. agent'[p] = agent[p]
    BY <1>4, <1>8
  <2>. QED
    BY <1>2, <2>1, <2>2 DEF AgentInv, Whole, Match, Written
<1>9. \A v \in Worker : JobOK(work'[v])
  BY <1>3, IdleJob DEF AgentInv
<1>10. ASSUME NEW c \in Chat PROVE agent'[c] # "suspended"
  <2>1. c \in Peer /\ c \notin User /\ agent[c] # "suspended"
    BY DEF Peer, AgentInv
  <2>2. c = u => op \in {"provision", "archive"}
    BY <1>0, <2>1 DEF Operation
  <2>. QED
    BY <1>4, <1>6, <2>1, <2>2
<1>11. \A p \in Peer \ torn' : Whole(p)'
  BY <1>2, <1>7, <1>8
<1>. QED
  BY <1>9, <1>10, <1>11 DEF AgentInv, JobOK

\* Everything else a worker does: it ends, or goes on with what it found.
LEMMA WorkAgents ==
  ASSUME SidecarInv, AgentInv, NEW w \in Worker, Work(w)
  PROVE  AgentInv'
<1> DEFINE u == work[w].user
<1>0. work[w] \in WorkType /\ JobOK(work[w]) /\ (work[w].pc # "idle" => u \in Peer)
  BY Typed DEF AgentInv
<1>1. ASSUME Return(w), work[w].pc # "record", UNCHANGED <<agent, bindings, torn>>
      PROVE  AgentInv'
  BY <1>1, IdleJob, JobMoves DEF Return
<1>2. ASSUME NEW op, NEW pc \in {"resolve", "find", "lookup", "config"}, Begin(w, op, pc, u),
             work[w].pc \notin {"idle", "record"}, UNCHANGED <<agent, bindings, torn>>,
             pc \in Late => /\ op \in {"suspend", "restore", "reset"} => u \in User
                            /\ op = "archive" => u \in Chat,
             pc = "config" => op # "archive"
      PROVE  AgentInv'
  BY <1>0, <1>2, BeginJob, JobMoves DEF Begin
<1>3. ASSUME NEW pc \in {"insert", "read", "find", "config", "record"}, Goto(w, pc),
             work[w].pc # "record", UNCHANGED <<agent, bindings, torn>>,
             pc \in Late => work[w].pc = "lookup",
             pc = "config" => work[w].op # "archive", pc = "record" => work[w].op = "archive"
      PROVE  AgentInv'
  <2> DEFINE next == [work[w] EXCEPT !.pc = pc]
  <2>1. JobOK(next) /\ (next.pc # "record" \/ next.op = "archive")
    BY <1>0, <1>3, GotoJob
  <2>2. work' = [work EXCEPT ![w] = next]
    BY <1>3 DEF Goto
  <2> HIDE DEF next
  <2>. QED
    BY <1>3, <2>1, <2>2, JobMoves
<1>4. CASE Select(w)
  BY <1>1, <1>3, <1>4 DEF Select, tables, Late
<1>5. CASE Insert(w)
  <2>1. work[w].pc = "insert" /\ UNCHANGED <<agent, bindings, torn>> /\ Handles(work[w])
    BY <1>5, Typed DEF Insert, Early
  <2>2. CASE Return(w)
    BY <1>1, <2>1, <2>2
  <2>3. CASE Apply(w)
    <3>1. /\ work[w].op \in {"added", "removed", "bot added", "disbanded"}
          /\ work[w].op \in {"bot added", "disbanded"} => u \in Chat
      BY <2>1, EventTypes DEF Handles
    <3>2. CASE work[w].op = "bot added"
      <4>1. Begin(w, "provision", "config", u)
        BY <2>3, <3>2 DEF Apply
      <4>. QED
        BY <1>2, <2>1, <4>1
    <3>3. CASE work[w].op = "disbanded"
      <4>1. Begin(w, "archive", "lookup", u)
        BY <2>3, <3>3 DEF Apply
      <4>. QED
        BY <1>2, <2>1, <3>1, <3>3, <4>1
    <3>4. CASE work[w].op \in {"added", "removed"}
      <4>1. Goto(w, "read")
        BY <2>3, <3>4 DEF Apply
      <4>. QED
        BY <1>3, <2>1, <4>1 DEF Late
    <3>. QED
      BY <3>1, <3>2, <3>3, <3>4
  <2>. QED
    BY <1>5, <2>2, <2>3 DEF Insert
<1>6. CASE ReadFlags(w)
  <2> DEFINE next == [work[w] EXCEPT !.pc = "write", !.flags = Flags(work[w].user)]
  <2>1. work[w].pc = "read" /\ UNCHANGED <<agent, bindings, torn>>
    BY <1>6 DEF ReadFlags, tables
  <2>2. CASE Return(w)
    BY <1>1, <2>1, <2>2
  <2>3. CASE work' = [work EXCEPT ![w] = next]
    <3>1. next.pc = "write"
      BY <1>0 DEF WorkType
    <3> HIDE DEF next
    <3>2. JobOK(next)
      BY <3>1 DEF JobOK, Late
    <3>. QED
      BY <2>1, <2>3, <3>1, <3>2, JobMoves
  <2>4. [work EXCEPT ![w].pc = "write", ![w].flags = Flags(work[w].user)]
          = [work EXCEPT ![w] = next]
    BY Typed
  <2>. QED
    BY <1>6, <2>2, <2>3, <2>4 DEF ReadFlags
<1>7. CASE WriteFlags(w)
  <2>1. /\ work[w].pc = "write" /\ UNCHANGED <<agent, bindings, torn>>
        /\ Handles(work[w]) /\ work[w].op \in Membership
    BY <1>7, Typed DEF WriteFlags, Early
  <2>2. u \in User
    BY <2>1, EventTypes DEF Handles
  <2>3. Return(w) \/ Begin(w, "suspend", "lookup", u)
    BY <1>7 DEF WriteFlags
  <2>. QED
    BY <1>1, <1>2, <2>1, <2>2, <2>3
<1>8. CASE ResolveSender(w)
  BY <1>1, <1>3, <1>8 DEF ResolveSender, tables, Late
<1>9. CASE FindAgent(w)
  <2>1. work[w].pc = "find" /\ u \in Peer /\ UNCHANGED <<agent, bindings, torn>>
    BY <1>0, <1>9 DEF FindAgent, tables
  <2>2. CASE Begin(w, "provision", "config", u)
    BY <1>2, <2>1, <2>2
  <2>3. CASE agent[u] = "suspended" /\ Begin(w, "restore", "lookup", u)
    <3>1. u \in User
      BY <2>1, <2>3 DEF AgentInv, Peer
    <3>. QED
      BY <1>2, <2>1, <2>3, <3>1
  <2>4. CASE Return(w)
    BY <1>1, <2>1, <2>4
  <2>. QED
    BY <1>9, <2>2, <2>3, <2>4 DEF FindAgent
<1>10. CASE Lookup(w)
  <2>1. work[w].pc = "lookup" /\ UNCHANGED <<agent, bindings, torn>>
    BY <1>10 DEF Lookup, tables
  <2>2. CASE Return(w)
    BY <1>1, <2>1, <2>2
  <2>3. CASE work[w].op = "archive" /\ Goto(w, "record")
    BY <1>3, <2>1, <2>3
  <2>4. CASE work[w].op # "archive" /\ Goto(w, "config")
    BY <1>3, <2>1, <2>4
  <2>. QED
    BY <1>10, <2>2, <2>3, <2>4 DEF Lookup
<1>11. CASE GetConfig(w)
  <2> DEFINE next == [work[w] EXCEPT !.pc = "patch", !.conf = bindings]
  <2>1. work[w].pc = "config" /\ UNCHANGED <<agent, bindings, torn>>
    BY <1>11 DEF GetConfig, tables
  <2>2. next.pc = "patch" /\ next.op = work[w].op /\ next.user = u
    BY <1>0 DEF WorkType
  <2>3. work' = [work EXCEPT ![w] = next]
    BY <1>11, Typed DEF GetConfig
  <2> HIDE DEF next
  <2>4. JobOK(next)
    BY <1>0, <2>1, <2>2 DEF JobOK, Late
  <2>. QED
    BY <2>1, <2>2, <2>3, <2>4, JobMoves
<1>12. CASE PatchConfig(w)
  BY <1>12, PatchAgents
<1>13. CASE CallFails(w)
  BY <1>1, <1>13 DEF CallFails, tables
<1>14. CASE Record(w)
  BY <1>14, RecordAgents
<1>. QED
  BY <1>4, <1>5, <1>6, <1>7, <1>8, <1>9, <1>10, <1>11, <1>12, <1>13, <1>14 DEF Work

\* The reconciler's round begins work for a person at most.
LEMMA ReconcileAgents ==
  ASSUME SidecarInv, AgentInv, Reconcile
  PROVE  AgentInv'
<1>1. ASSUME NEW u \in User, Revoke(u) PROVE AgentInv'
  <2>1. UNCHANGED <<agent, bindings, torn>> /\ work[Reconciler] = Idle
    BY <1>1 DEF Revoke, Round
  <2>2. CASE UNCHANGED work
    BY <2>1, <2>2, StaysAgents
  <2>3. CASE Begin(Reconciler, "suspend", "lookup", u)
    <3>1. JobOK(Job("lookup", "suspend", u, 0)) /\ Job("lookup", "suspend", u, 0).pc # "record"
      BY BeginJob DEF Peer
    <3>. QED
      BY <2>1, <2>3, <3>1, IdleType, JobMoves DEF Begin, Worker
  <2>. QED
    BY <1>1, <2>2, <2>3 DEF Revoke
<1>2. ASSUME UNCHANGED <<work, agent, bindings, torn>> PROVE AgentInv'
  BY <1>2, StaysAgents
<1>. QED
  BY <1>1, <1>2 DEF Reconcile, Wake, Fetch, ListPermissions, Grant, EndRound, tables

\* A crash tears whoever a worker was between the two writes of.
LEMMA CrashAgents ==
  ASSUME SidecarInv, AgentInv, Crash
  PROVE  AgentInv'
<1>1. /\ torn' = torn \cup {p \in Peer : \E w \in Worker : Between(w, p)}
      /\ UNCHANGED <<agent, bindings>> /\ \A w \in Worker : work'[w] = Idle
  BY DEF Crash, tables
<1>2. \A w \in Worker : JobOK(work'[w])
  BY <1>1, IdleJob
<1>3. \A w \in Worker, p \in Peer : ~Between(w, p)'
  BY <1>1, IdleJob DEF Between
<1>4. ASSUME NEW p \in Peer \ torn' PROVE Whole(p)'
  <2>1. Match(p)
    BY <1>1, <1>4 DEF AgentInv, Whole
  <2>. QED
    BY <1>1, <1>3, <1>4, <2>1 DEF Whole, Match
<1>. QED
  BY <1>1, <1>2, <1>4 DEF AgentInv, JobOK

LEMMA InitAgents == Init => AgentInv
<1> SUFFICES ASSUME Init PROVE AgentInv
  OBVIOUS
<1>1. \A p \in Peer : agent[p] = "none" /\ bindings[p] = 0
  BY DEF Init, NoBindings
<1>2. \A w \in Worker : JobOK(work[w]) /\ work[w].pc # "record"
  BY IdleJob DEF Init
<1>. QED
  BY <1>1, <1>2 DEF AgentInv, Whole, Between, Match, Peer

LEMMA NextAgents ==
  ASSUME SidecarInv, AgentInv, [Next]_vars
  PROVE  AgentInv'
<1>1. ASSUME UNCHANGED <<work, agent, bindings, torn>> PROVE AgentInv'
  BY <1>1, StaysAgents
<1>2. CASE UNCHANGED vars
  BY <1>1, <1>2 DEF vars, tables
<1>3. ASSUME NEW u \in User, NEW g \in Group, Change(u, g) PROVE AgentInv'
  BY <1>1, <1>3 DEF Change, tables
<1>4. ASSUME NEW c \in Chat, BotComes(c) \/ BotLeaves(c) \/ Disband(c) PROVE AgentInv'
  BY <1>1, <1>4 DEF BotComes, BotLeaves, Disband, Chatter, tables
<1>5. ASSUME NEW r \in Request, Ask(r) PROVE AgentInv'
  BY <1>5, AskAgents
<1>6. ASSUME NEW w \in Worker, Work(w) PROVE AgentInv'
  BY <1>6, WorkAgents
<1>7. CASE Reconcile
  BY <1>7, ReconcileAgents
<1>8. CASE Crash
  BY <1>8, CrashAgents
<1>. QED
  BY <1>2, <1>3, <1>4, <1>5, <1>6, <1>7, <1>8 DEF Next

\* However requests, reconciler and crashes interleave, the agent registry and the
\* gateway's bindings agree about everyone for whom no operation is between its two
\* writes, and who was not torn by a crash there, by an operation that patched while
\* another was there, or by one decided on a row that had changed since; and whoever
\* was torn, a suspension or a reset nobody overtakes sets right.
THEOREM RegistryMatchesGateway == Spec => []BindingMatchesAgent
<1>1. SidecarInv /\ AgentInv /\ [Next]_vars => AgentInv'
  BY NextAgents
<1>2. AgentInv => BindingMatchesAgent
  BY DEF AgentInv, Whole, Match, BindingMatchesAgent
<1>. QED
  BY <1>1, <1>2, InitAgents, SidecarInvariant, PTL DEF Spec
=============================================================================
