--------------------------- MODULE ActorRuntimeTable ---------------------------
(* The runtime implements the actor table.                                   *)
EXTENDS ActorRuntime

\* A message is not the mark of an actor without work.
ASSUME IdleAssumption == None \notin Message

\* The state of the actor that has an address, and its queue.
StateAt(a) == IF actors[a] = None THEN "absent" ELSE obj[actors[a]].state
InboxAt(a) == IF actors[a] = None THEN <<>> ELSE obj[actors[a]].mailbox

\* The message in work at an address is the one its registered loop awaits with.
WorkAt(a) == IF reg[a] # None /\ task[reg[a]].phase = "busy"
             THEN task[reg[a]].msg ELSE None

States == [a \in Addr |-> StateAt(a)]
Inboxes == [a \in Addr |-> InboxAt(a)]
Works == [a \in Addr |-> WorkAt(a)]

Table == INSTANCE ActorTable WITH
           Idle <- None, state <- States, inbox <- Inboxes, work <- Works

\* Tasks, awaits, cancellations and the reuse of addresses together amount to
\* one actor per address that handles its messages in order, one at a time, while
\* it is active, and loses at most the one in work.
ImplementsTable == Table!TableSpec
=============================================================================
