----------------------------- MODULE SidecarAccess -----------------------------
(***************************************************************************)
(* The sidecar: who may use the assistant, and whose agent is bound.       *)
(*                                                                         *)
(* Membership of two Feishu groups decides.  It reaches the permission     *)
(* table by events (sidecar/feishu_events.py) and by a periodic reconciler *)
(* (reconciler.py); messages of people without an agent, and an admin,     *)
(* create, restore and reset agents (api.py, provisioner.py); a binding in *)
(* the gateway's configuration routes a person's messages to the agent     *)
(* (config_patch.py).  Every request is a coroutine: each action of it     *)
(* runs to the next await, of the database or of the gateway.  A group     *)
(* chat the bot is added to gets an agent too, from the event or from its  *)
(* first message.  What is left out: the audit log, the rate of refusals,  *)
(* workspaces, and the definitions of agents, which are never removed.     *)
(***************************************************************************)
EXTENDS Naturals, Sequences

CONSTANTS
  User,        \* people, by open_id
  Chat,        \* group chats that may have the bot, by chat_id
  Nobody,
  Request,     \* bound: requests the HTTP API handles at a time
  Reconciler,  \* the background task
  Asked,       \* what is asked for: "message", "batch", "reset"
  MaxChanges,  \* bound: what happens to the groups
  Faults,      \* those considered: "crash", "partial list", "gateway"
  MaxFaults    \* bound: faults

ASSUME SidecarAssumption ==
  /\ Nobody \notin User \cup Chat /\ Reconciler \notin Request
  /\ User \cap Chat = {}
  /\ MaxChanges \in Nat /\ MaxFaults \in Nat

Group == {"users", "admins"}
NoRow == {"no row"}
Peer == User \cup Chat
Worker == Request \cup {Reconciler}

VARIABLES
  member,    \* the groups each is in, by Feishu
  room,      \* each chat: without the bot, with it, or gone
  changes,   \* what happened to the groups so far; an event's id is its place here
  handled,   \* table event_dedup
  perm,      \* table permission: flags is_user_member and is_admin, or NoRow
  agent,     \* table agent_registry: the status of the peer's agent, or "none"
  bindings,  \* how many bindings each has in the gateway's configuration
  work,      \* per worker, what it does to one user or chat
  round,     \* the reconciler's round
  faults,    \* faults so far
  torn       \* history: whose row and bindings were written apart (see below)

feishu == <<member, room, changes>>
tables == <<handled, perm, agent>>
vars == <<feishu, tables, bindings, work, round, faults, torn>>

NoBindings == [p \in Peer |-> 0]
Job(pc, op, u, e) == [pc |-> pc, op |-> op, user |-> u, event |-> e,
                      flags |-> {}, conf |-> NoBindings]
Idle == Job("idle", "none", Nobody, 0)

Asleep == [at |-> "asleep", found |-> [u \in User |-> {}],
           rows |-> [u \in User |-> NoRow], done |-> {}]
Starting == [Asleep EXCEPT !.at = "users"]

Flags(u) == perm[u] \cap Group
IsAuthorized(u) == Flags(u) # {}

Init ==
  /\ member = [u \in User |-> {}] /\ room = [c \in Chat |-> "without"] /\ changes = <<>>
  /\ handled = {} /\ perm = [u \in User |-> NoRow] /\ agent = [p \in Peer |-> "none"]
  /\ bindings = NoBindings
  /\ work = [w \in Worker |-> Idle]
  /\ round = Starting
  /\ faults = 0 /\ torn = {}

Begin(w, op, pc, u) == work' = [work EXCEPT ![w] = Job(pc, op, u, 0)]
Goto(w, pc) == work' = [work EXCEPT ![w].pc = pc]
Return(w) == work' = [work EXCEPT ![w] = Idle]

Fault(kind) == kind \in Faults /\ faults < MaxFaults /\ faults' = faults + 1

-----------------------------------------------------------------------------
(* Feishu: a person joins or leaves a group, the bot joins a chat, a chat  *)
(* is disbanded: each makes an event.  Nobody hears of the bot's leaving.  *)

Change(u, g) ==
  /\ Len(changes) < MaxChanges
  /\ LET in == g \in member[u] IN
     /\ member' = [member EXCEPT ![u] = IF in THEN @ \ {g} ELSE @ \cup {g}]
     /\ changes' = Append(changes, [kind |-> IF in THEN "removed" ELSE "added",
                                    user |-> u, group |-> g])
  /\ UNCHANGED <<room, tables, bindings, work, round, faults, torn>>

Chatter(kind, c) ==
  /\ Len(changes) < MaxChanges
  /\ changes' = Append(changes, [kind |-> kind, user |-> c, group |-> "none"])
  /\ UNCHANGED <<member, tables, bindings, work, round, faults, torn>>

BotComes(c) ==
  /\ room[c] = "without"
  /\ room' = [room EXCEPT ![c] = "with"]
  /\ Chatter("bot added", c)

Disband(c) ==
  /\ room[c] = "with"
  /\ room' = [room EXCEPT ![c] = "gone"]
  /\ Chatter("disbanded", c)

BotLeaves(c) ==
  /\ room[c] = "with"
  /\ room' = [room EXCEPT ![c] = "without"]
  /\ UNCHANGED <<member, changes, tables, bindings, work, round, faults, torn>>

-----------------------------------------------------------------------------
(* An event, delivered any number of times, in any order, or never.        *)

Deliver(r, e) ==
  /\ work[r] = Idle
  /\ work' = [work EXCEPT ![r] = Job("select", changes[e].kind, changes[e].user, e)]
  /\ UNCHANGED <<feishu, tables, bindings, round, faults, torn>>

\* check_event_dedup looks the event up ...
Select(r) ==
  /\ work[r].pc = "select"
  /\ IF work[r].event \in handled THEN Return(r) ELSE Goto(r, "insert")
  /\ UNCHANGED <<feishu, tables, bindings, round, faults, torn>>

\* What is next for a new event: nobody looks whether the chat has an agent before
\* it is given one, nor does anybody unbind the agent of a disbanded chat.
Apply(r) ==
  CASE work[r].op = "bot added" -> Begin(r, "provision", "config", work[r].user)
    [] work[r].op = "disbanded" -> Begin(r, "archive", "lookup", work[r].user)
    [] OTHER -> Goto(r, "read")

\* Mutant of Insert: the row is not a primary key.
InsertAgain(r) ==
  /\ work[r].pc = "insert"
  /\ handled' = handled \cup {work[r].event}
  /\ Apply(r)
  /\ UNCHANGED <<feishu, perm, agent, bindings, round, faults, torn>>

\* ... and then inserts it: the primary key refuses a second delivery.
Insert(r) ==
  /\ work[r].pc = "insert"
  /\ handled' = handled \cup {work[r].event}
  /\ IF work[r].event \in handled THEN Return(r) ELSE Apply(r)
  /\ UNCHANGED <<feishu, perm, agent, bindings, round, faults, torn>>

\* The flags as they are now; a removal of someone unknown ends here.
ReadFlags(r) ==
  /\ work[r].pc = "read"
  /\ IF work[r].op = "removed" /\ perm[work[r].user] = NoRow
     THEN Return(r)
     ELSE work' = [work EXCEPT ![r].pc = "write", ![r].flags = Flags(work[r].user)]
  /\ UNCHANGED <<feishu, tables, bindings, round, faults, torn>>

\* The flags read, with the one of the event changed, are written; who leaves the
\* user group has the agent suspended.
WriteFlags(r) ==
  /\ work[r].pc = "write"
  /\ LET u == work[r].user
         g == changes[work[r].event].group IN
     /\ perm' = [perm EXCEPT ![u] = IF work[r].op = "added" THEN work[r].flags \cup {g}
                                                            ELSE work[r].flags \ {g}]
     /\ IF work[r].op = "removed" /\ g = "users" THEN Begin(r, "suspend", "lookup", u)
                                                 ELSE Return(r)
  /\ UNCHANGED <<feishu, handled, agent, bindings, round, faults, torn>>

-----------------------------------------------------------------------------
(* A person's message, or an admin's batch, asks for the person's agent.   *)

\* A message reaches the fallback agent, hence the plugin, for want of a binding.
Message(r, u) ==
  /\ "message" \in Asked /\ work[r] = Idle /\ bindings[u] = 0
  /\ Begin(r, "serve", "resolve", u)
  /\ UNCHANGED <<feishu, tables, bindings, round, faults, torn>>

\* So does what is written in a chat.
GroupMessage(r, c) ==
  /\ room[c] = "with" /\ work[r] = Idle /\ bindings[c] = 0
  /\ Begin(r, "serve", "find", c)
  /\ UNCHANGED <<feishu, tables, bindings, round, faults, torn>>

BatchProvision(r, u) ==
  /\ "batch" \in Asked /\ work[r] = Idle /\ member[u] # {}
  /\ Begin(r, "serve", "resolve", u)
  /\ UNCHANGED <<feishu, tables, bindings, round, faults, torn>>

AdminReset(r, u) ==
  /\ "reset" \in Asked /\ work[r] = Idle
  /\ Begin(r, "reset", "lookup", u)
  /\ UNCHANGED <<feishu, tables, bindings, round, faults, torn>>

\* Who has no permission is refused ...
ResolveSender(r) ==
  /\ work[r].pc = "resolve"
  /\ IF IsAuthorized(work[r].user) THEN Goto(r, "find") ELSE Return(r)
  /\ UNCHANGED <<feishu, tables, bindings, round, faults, torn>>

\* ... and the state of the agent decides what is asked for next.  Nobody looks at
\* the permission again.
FindAgent(r) ==
  /\ work[r].pc = "find"
  /\ LET u == work[r].user IN
     \/ agent[u] = "none" /\ Begin(r, "provision", "config", u)
     \/ agent[u] = "suspended" /\ Begin(r, "restore", "lookup", u)
     \/ agent[u] \in {"active", "archived"} /\ Return(r)
  /\ UNCHANGED <<feishu, tables, bindings, round, faults, torn>>

-----------------------------------------------------------------------------
(* provision_user, provision_group, suspend_user, restore_user, reset_user, *)
(* and the archiving of a chat's agent, which asks nothing of the gateway.  *)

\* All but the first two look the agent up, and do nothing without one.
Lookup(w) ==
  /\ work[w].pc = "lookup"
  /\ LET status == agent[work[w].user] IN
     IF status = "none" \/ (work[w].op = "restore" /\ status # "suspended")
     THEN Return(w) ELSE Goto(w, IF work[w].op = "archive" THEN "record" ELSE "config")
  /\ UNCHANGED <<feishu, tables, bindings, round, faults, torn>>

GetConfig(w) ==
  /\ work[w].pc = "config"
  /\ work' = [work EXCEPT ![w].pc = "patch", ![w].conf = bindings]
  /\ UNCHANGED <<feishu, tables, bindings, round, faults, torn>>

\* A binding is appended, whatever is there; all of the agent's are removed.
Rebound(w) ==
  [work[w].conf EXCEPT ![work[w].user] =
     IF work[w].op \in {"provision", "restore"} THEN @ + 1 ELSE 0]

\* Between the two writes of an operation on p: the bindings are changed, the row
\* is not yet.  The archiving of an agent writes the row only.
Between(w, p) == work[w].user = p /\ work[w].pc = "record" /\ work[w].op # "archive"

\* History: a patch tears the row of p from its bindings when another operation is
\* between its own two writes, or when the row is no longer what the operation was
\* decided on; once neither is so, a suspension or a reset sets p right again.
Overtaken(w, p) ==
  \/ \E v \in Worker \ {w} : Between(v, p)
  \/ work[w].op = "provision" /\ agent[p] # "none"
  \/ work[w].op = "restore" /\ agent[p] # "suspended"

Tears(w, p) ==
  CASE Overtaken(w, p) -> torn \cup {p}
    [] ~Overtaken(w, p) /\ work[w].op \in {"suspend", "reset"} -> torn \ {p}
    [] OTHER -> torn

\* Mutant of PatchConfig: baseHash is not compared.
PatchBlind(w) ==
  /\ work[w].pc = "patch"
  /\ bindings' = Rebound(w)
  /\ Goto(w, "record")
  /\ torn' = Tears(w, work[w].user)
  /\ UNCHANGED <<feishu, tables, round, faults>>

\* The whole array is replaced, if the configuration is the one that was read.
PatchConfig(w) ==
  /\ work[w].pc = "patch"
  /\ bindings = work[w].conf
  /\ bindings' = Rebound(w)
  /\ Goto(w, "record")
  /\ torn' = Tears(w, work[w].user)
  /\ UNCHANGED <<feishu, tables, round, faults>>

\* The gateway refuses: the configuration has changed, or it cannot answer now.
\* The exception ends the request, or the reconciler's round.
CallFails(w) ==
  /\ work[w].pc \in {"config", "patch"}
  /\ \/ work[w].pc = "patch" /\ bindings # work[w].conf /\ UNCHANGED faults
     \/ Fault("gateway")
  /\ Return(w)
  /\ round' = IF w = Reconciler THEN Asleep ELSE round
  /\ UNCHANGED <<feishu, tables, bindings, torn>>

\* The row follows the binding: inserted (an existing one refuses, unchanged),
\* updated if it is still there, or deleted.
Status(op, old) ==
  CASE op = "provision" -> IF old = "none" THEN "active" ELSE old
    [] op = "restore"   -> IF old = "none" THEN old ELSE "active"
    [] op = "suspend"   -> IF old = "none" THEN old ELSE "suspended"
    [] op = "archive"   -> IF old = "none" THEN old ELSE "archived"
    [] op = "reset"     -> "none"

\* Mutants of Record: a status nobody knows; the update of a restored agent is lost.
RecordPaused(w) ==
  /\ work[w].pc = "record"
  /\ agent' = [agent EXCEPT ![work[w].user] =
       IF work[w].op = "suspend" THEN "paused" ELSE Status(work[w].op, @)]
  /\ Return(w)
  /\ UNCHANGED <<feishu, handled, perm, bindings, round, faults, torn>>
RecordNoRestore(w) ==
  /\ work[w].pc = "record"
  /\ agent' = [agent EXCEPT ![work[w].user] =
       IF work[w].op = "restore" THEN @ ELSE Status(work[w].op, @)]
  /\ Return(w)
  /\ UNCHANGED <<feishu, handled, perm, bindings, round, faults, torn>>

Record(w) ==
  /\ work[w].pc = "record"
  /\ agent' = [agent EXCEPT ![work[w].user] = Status(work[w].op, @)]
  /\ Return(w)
  /\ UNCHANGED <<feishu, handled, perm, bindings, round, faults, torn>>

-----------------------------------------------------------------------------
(* Reconciler.reconcile.                                                   *)

Round(at) == round.at = at /\ work[Reconciler] = Idle

Wake ==
  /\ Round("asleep")
  /\ round' = Starting
  /\ UNCHANGED <<feishu, tables, bindings, work, faults, torn>>

Found(g, list) == [u \in User |-> round.found[u] \cup IF u \in list THEN {g} ELSE {}]

\* get_group_members: all of a group or, after an error page, some.
Fetch(g, next) ==
  /\ Round(g)
  /\ \E list \in SUBSET User :
       /\ IF list = {u \in User : g \in member[u]} THEN UNCHANGED faults
          ELSE list \subseteq {u \in User : g \in member[u]} /\ Fault("partial list")
       /\ round' = [round EXCEPT !.at = next, !.found = Found(g, list)]
  /\ UNCHANGED <<feishu, tables, bindings, work, torn>>

ListPermissions ==
  /\ Round("list")
  /\ round' = [round EXCEPT !.at = "apply", !.rows = perm]
  /\ UNCHANGED <<feishu, tables, bindings, work, faults, torn>>

\* What the round has still to do, decided on what it fetched and listed.
ToGrant == {u \in User \ round.done : round.found[u] # {} /\ round.rows[u] # round.found[u]}

\* Mutant of ToRevoke: only members of the user group are revoked.
ToRevokeUsers == {u \in User \ round.done : round.found[u] = {} /\ "users" \in round.rows[u]}

ToRevoke == {u \in User \ round.done : round.found[u] = {} /\ round.rows[u] \notin {NoRow, {}}}

Done(u) == round' = [round EXCEPT !.done = @ \cup {u}]

Grant(u) ==
  /\ Round("apply") /\ u \in ToGrant
  /\ perm' = [perm EXCEPT ![u] = round.found[u]]
  /\ Done(u)
  /\ UNCHANGED <<feishu, handled, agent, bindings, work, faults, torn>>

Revoke(u) ==
  /\ Round("apply") /\ ToGrant = {} /\ u \in ToRevoke
  /\ perm' = [perm EXCEPT ![u] = {}]
  /\ Done(u)
  /\ IF "users" \in round.rows[u] THEN Begin(Reconciler, "suspend", "lookup", u)
                                  ELSE UNCHANGED work
  /\ UNCHANGED <<feishu, handled, agent, bindings, faults, torn>>

EndRound ==
  /\ Round("apply") /\ ToGrant = {} /\ ToRevoke = {}
  /\ round' = Asleep
  /\ UNCHANGED <<feishu, tables, bindings, work, faults, torn>>

-----------------------------------------------------------------------------
\* The process dies and comes back: it reconciles first.  Whoever was between the
\* two writes of an operation is torn.
Crash ==
  /\ Fault("crash")
  /\ torn' = torn \cup {p \in Peer : \E w \in Worker : Between(w, p)}
  /\ work' = [w \in Worker |-> Idle]
  /\ round' = Starting
  /\ UNCHANGED <<feishu, tables, bindings>>

Reconcile ==
  \/ Wake \/ Fetch("users", "admins") \/ Fetch("admins", "list") \/ ListPermissions
  \/ \E u \in User : Grant(u) \/ Revoke(u)
  \/ EndRound

Work(w) ==
  \/ Select(w) \/ Insert(w) \/ ReadFlags(w) \/ WriteFlags(w)
  \/ ResolveSender(w) \/ FindAgent(w)
  \/ Lookup(w) \/ GetConfig(w) \/ PatchConfig(w) \/ CallFails(w) \/ Record(w)

Ask(r) ==
  \/ \E e \in DOMAIN changes : Deliver(r, e)
  \/ \E u \in User : Message(r, u) \/ BatchProvision(r, u) \/ AdminReset(r, u)
  \/ \E c \in Chat : GroupMessage(r, c)

Next ==
  \/ \E u \in User, g \in Group : Change(u, g)
  \/ \E c \in Chat : BotComes(c) \/ BotLeaves(c) \/ Disband(c)
  \/ \E r \in Request : Ask(r)
  \/ \E w \in Worker : Work(w)
  \/ Reconcile
  \/ Crash

Spec == Init /\ [][Next]_vars

\* The event loop runs each coroutine, and the reconciler wakes up again and again.
\* Nothing makes Feishu deliver an event, nor anybody ask for anything.
FairSpec == Spec /\ WF_vars(Reconcile) /\ \A w \in Worker : WF_vars(Work(w))

-----------------------------------------------------------------------------
(* Properties.                                                             *)

WorkType ==
  [pc : {"idle", "select", "insert", "read", "write", "resolve", "find", "lookup",
         "config", "patch", "record"},
   op : {"none", "added", "removed", "bot added", "disbanded", "serve", "provision",
         "suspend", "restore", "reset", "archive"},
   user : Peer \cup {Nobody}, event : 0..MaxChanges,
   flags : SUBSET Group, conf : [Peer -> Nat]]
ChangeType ==
  [kind : {"added", "removed"}, user : User, group : Group]
    \cup [kind : {"bot added", "disbanded"}, user : Chat, group : {"none"}]
RoundType ==
  [at : {"asleep", "users", "admins", "list", "apply"}, found : [User -> SUBSET Group],
   rows : [User -> (SUBSET Group) \cup {NoRow}], done : SUBSET User]

TypeOK ==
  /\ member \in [User -> SUBSET Group]
  /\ room \in [Chat -> {"without", "with", "gone"}]
  /\ changes \in Seq(ChangeType)
  /\ Len(changes) <= MaxChanges
  /\ handled \subseteq DOMAIN changes
  /\ perm \in [User -> (SUBSET Group) \cup {NoRow}]
  /\ agent \in [Peer -> {"none", "active", "suspended", "archived"}]
  /\ bindings \in [Peer -> Nat]
  /\ work \in [Worker -> WorkType]
  /\ round \in RoundType
  /\ faults \in 0..MaxFaults
  /\ torn \subseteq Peer

\* Two deliveries of an event never both get past the duplicate check, which is a
\* look-up and an insertion with an await between them (db.py:245-256).
Applying(r) == work[r].pc \in {"read", "write"}
EventAppliedOnce ==
  \A r \in Request : Applying(r) =>
    /\ work[r].event \in handled
    /\ \A s \in Request \ {r} : Applying(s) => work[s].event # work[r].event

\* Replacing the whole array of bindings never undoes what another request did to
\* it since it was read: a peer's bindings change only by work on that peer.
PatchTouchesOwn ==
  [][\A p \in Peer : bindings[p] # bindings'[p] =>
       \E w \in Worker : work[w].user = p /\ work[w].pc = "patch"]_vars

\* However requests, reconciler and crashes interleave, the registry and the gateway
\* agree about everyone for whom no operation is between its two writes: an active
\* agent has exactly one binding, so it gets its messages, once; where there is no
\* agent, or a suspended one, nothing is bound.  Excepted are the torn, and those
\* only: by a crash between the two writes, by an operation that patched while
\* another was between its own, or by one whose row had changed since it looked.
BindingMatchesAgent ==
  \A p \in Peer : p \notin torn /\ (\A w \in Worker : ~Between(w, p)) =>
    /\ agent[p] = "active" => bindings[p] = 1
    /\ agent[p] \in {"none", "suspended"} => bindings[p] = 0

\* Through events lost, reordered and delivered twice, a handler and the reconciler
\* that overwrite each other's flags, partial member lists, failed rounds and crashes:
\* once nobody joins or leaves any more, everyone's permissions become those of the
\* groups.
PermissionsConverge == <>[](\A u \in User : Flags(u) = member[u])

Settled(p) == \A w \in Worker : work[w].user # p

\* "... and removes the bindings that should be suspended": a round of the
\* reconciler leaves no binding of someone without permission that nobody works on.
RevokedIsUnbound ==
  [][\A u \in User :
       round.at = "apply" /\ round'.at = "asleep" /\ Settled(u) /\ ~IsAuthorized(u)
         => bindings[u] = 0]_vars
=============================================================================
