------------------------------ MODULE ActorTable ------------------------------
(***************************************************************************)
(* What the actor runtime promises, without tasks, object identities or    *)
(* awaits: per address, the state of the actor that has it, its inbox, and *)
(* the one message in work.                                                *)
(***************************************************************************)
EXTENDS Sequences

CONSTANTS Addr, Message, Idle

VARIABLES
  state,   \* "absent", "suspended", "active" or "ended"
  inbox,   \* what the actor has not taken yet, in order of arrival
  work     \* the message its handler is executing, or Idle

tableVars == <<state, inbox, work>>

Init ==
  /\ state = [a \in Addr |-> "absent"]
  /\ inbox = [a \in Addr |-> <<>>]
  /\ work = [a \in Addr |-> Idle]

Alive(a) == state[a] \in {"suspended", "active"}

\* Interrupt the work of the addresses in A.
Interrupt(A) == work' = [a \in Addr |-> IF a \in A THEN Idle ELSE work[a]]

Post(in, b, m) == IF Alive(b) THEN [in EXCEPT ![b] = Append(@, m)] ELSE in

\* A new actor starts with nothing to do.
Spawn(a, s) ==
  /\ ~Alive(a)
  /\ state' = [state EXCEPT ![a] = s]
  /\ inbox' = [inbox EXCEPT ![a] = <<>>]
  /\ UNCHANGED work

Resume(a) ==
  /\ state[a] = "suspended"
  /\ state' = [state EXCEPT ![a] = "active"]
  /\ UNCHANGED <<inbox, work>>

\* The message in work is lost, the inbox is kept.
Suspend(a) ==
  /\ state[a] = "active"
  /\ state' = [state EXCEPT ![a] = "suspended"]
  /\ Interrupt({a})
  /\ UNCHANGED inbox

\* The actors at A end.  A stop that comes late may interrupt the work of the
\* addresses B without ending their actors; shutdown ends none and interrupts all.
End(A, B) ==
  /\ \A a \in A : Alive(a)
  /\ state' = [a \in Addr |-> IF a \in A THEN "ended" ELSE state[a]]
  /\ Interrupt(A \cup B)
  /\ UNCHANGED inbox

\* A message from outside.
Send(a, m) ==
  /\ inbox' = Post(inbox, a, m)
  /\ UNCHANGED <<state, work>>

\* Only an active actor handles a message, the oldest, and one at a time.
Accept(a) ==
  /\ state[a] = "active" /\ work[a] = Idle /\ inbox[a] # <<>>
  /\ work' = [work EXCEPT ![a] = Head(inbox[a])]
  /\ inbox' = [inbox EXCEPT ![a] = Tail(@)]
  /\ UNCHANGED state

\* What handling a message does besides the transport: it sends at most one
\* message on, and may end the actor.
Outcome(a, in) ==
  /\ \/ inbox' = in
     \/ \E b \in {c \in Addr : Alive(c) /\ inbox'[c] # in[c]} :
          \E m \in Message : inbox' = Post(in, b, m)
  /\ state' = state \/ state' = [state EXCEPT ![a] = "ended"]

Finish(a) ==
  /\ state[a] = "active" /\ work[a] # Idle
  /\ work' = [work EXCEPT ![a] = Idle]
  /\ Outcome(a, inbox)

AcceptAndFinish(a) ==
  /\ state[a] = "active" /\ work[a] = Idle /\ inbox[a] # <<>>
  /\ Outcome(a, [inbox EXCEPT ![a] = Tail(@)])
  /\ UNCHANGED work

Next ==
  \/ \E a \in Addr :
       \/ \E s \in {"suspended", "active"} : Spawn(a, s)
       \/ Resume(a) \/ Suspend(a)
       \/ \E m \in Message : Send(a, m)
       \/ Accept(a) \/ Finish(a) \/ AcceptAndFinish(a)
  \/ \E A, B \in SUBSET Addr : End(A, B)

TableSpec == Init /\ [][Next]_tableVars
=============================================================================
