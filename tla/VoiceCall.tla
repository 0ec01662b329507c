------------------------------ MODULE VoiceCall ------------------------------
(***************************************************************************)
(* One call of the voice gateway and its bridge to the Claude Code session *)
(* that answers (voice_gateway/actor_bridge.py), in either of the modes    *)
(* server.py offers: "e2e" (session.py), in which a dialogue service hears *)
(* and speaks, and "split" (session_split.py), with a service for each.    *)
(*                                                                         *)
(* Three tasks share the state of a call: the reader of what is heard, the *)
(* query of the last utterance, and the loop over the browser, which sets  *)
(* the call up and stops it.  A query is a task per utterance; each action *)
(* of it runs to the next await.  A cancelled task stops at once.          *)
(***************************************************************************)
EXTENDS Naturals, Sequences

CONSTANTS
  MaxQuestions,  \* bound: utterances of a call that become questions
  MaxReplies     \* bound: replies on their way from the session

ASSUME CallAssumption == MaxQuestions \in Nat /\ MaxReplies \in Nat

Question == 1..MaxQuestions
NoQuestion == 0

VARIABLES
  mode,          \* "e2e" or "split", from the browser's start message
  phase,         \* of the call: the state, with what its setup is at, and "over"
  waiter,        \* setup: somebody waits for the answer to the request sent last
  answer,        \* setup: that answer, on its way or read with nobody waiting
  links,         \* the connections that work
  speaking,      \* the user speaks, as the dialogue service hears it
  userQuerying,  \* is_user_querying
  mute,          \* is_sending_custom_tts: the service's own speech is dropped
  heard,         \* asr_text is not empty
  unspoken,      \* the service has a text of ours it has not begun to speak
  audio,         \* split: what the speech service sends, chunk by chunk
  query,         \* per question, where its _run_query is and the answer it has
  current,       \* the question of _query_task
  pending,       \* the question whose future is _pending, unless that is done
  asked,         \* questions the session has still to finish with, in order
  replies        \* replies to the bridge: the question each is about

setup == <<waiter, answer>>
call == <<mode, phase, setup, links>>
speech == <<speaking, userQuerying, heard>>
session == <<asked, replies>>
vars == <<call, speech, mute, unspoken, audio, query, current, pending, session>>

Parties(m) == {"session"} \cup IF m = "e2e" THEN {"dialogue"} ELSE {"asr", "tts"}
Ears  == IF mode = "e2e" THEN "dialogue" ELSE "asr"
Mouth == IF mode = "e2e" THEN "dialogue" ELSE "tts"

At(pc, from) == [pc |-> pc, answer |-> from]
Unasked == At("unasked", NoQuestion)
Dropped == At("dropped", NoQuestion)

Running(q) == query[q].pc \in {"new", "opening", "asking", "sending", "sent", "waiting",
                              "answered", "saying"}

\* Between creating its future and waiting for it, the query is in the send.
InSend(q) == query[q].pc \in {"sending", "sent"}

\* The audio of a text: a chunk, and the end of it.
Spoken(q) == <<[about |-> q, end |-> FALSE], [about |-> q, end |-> TRUE]>>

Init ==
  /\ mode \in {"e2e", "split"}
  /\ phase = "registering" /\ waiter = FALSE /\ answer = "none"
  /\ links = Parties(mode)
  /\ speaking = FALSE /\ userQuerying = FALSE /\ heard = FALSE
  /\ mute = FALSE /\ unspoken = FALSE /\ audio = <<>>
  /\ query = [q \in Question |-> Unasked]
  /\ current = NoQuestion /\ pending = NoQuestion
  /\ asked = <<>> /\ replies = <<>>

-----------------------------------------------------------------------------
(* Cancelling the query task, which takes the mute off if it had begun.     *)

InWork == current # NoQuestion /\ Running(current)
Unmute == mute' = IF InWork /\ query[current].pc # "new" THEN FALSE ELSE mute

\* How a query ends that is stopped where it is: one that speaks leaves the rest
\* of its audio unread, one in its send a future that nobody waits for.
Stopped(q) ==
  CASE query[q].pc = "saying"       -> At("cut", NoQuestion)
    [] InSend(q) /\ pending = q     -> At("left", NoQuestion)
    [] OTHER                        -> Dropped
Cancelled == Stopped(current)

\* Only wait_for cancels the future with the task.
FutureKept == IF InWork /\ query[current].pc = "waiting" /\ pending = current
              THEN NoQuestion ELSE pending

\* Mutants of CancelQuery: the future of the bridge outlives the task; the task
\* is left to itself.
CancelTaskOnly ==
  /\ query' = IF InWork THEN [query EXCEPT ![current] = Cancelled] ELSE query
  /\ UNCHANGED pending
CancelNothing ==
  UNCHANGED <<query, pending>>

CancelQuery ==
  /\ query' = IF InWork THEN [query EXCEPT ![current] = Cancelled] ELSE query
  /\ pending' = FutureKept

-----------------------------------------------------------------------------
(* What is heard: the events of the dialogue service                       *)
(* (_dispatch_doubao_event), and those of the speech recognition.          *)

\* The reader runs until _cleanup; audio, hence speech, only from "talking" on.
Reading == phase \in {"talking", "ending", "finishing"} /\ Ears \in links

\* The user speaks; the service stops speaking, and the query is cancelled.
AsrInfo ==
  /\ Reading /\ mode = "e2e" /\ ~speaking
  /\ speaking' = TRUE /\ userQuerying' = TRUE
  /\ mute' = FALSE /\ unspoken' = FALSE
  /\ CancelQuery
  /\ UNCHANGED <<call, heard, audio, current, session>>

AsrFinal ==
  /\ Reading /\ speaking
  /\ heard' = TRUE
  /\ UNCHANGED <<call, speaking, userQuerying, mute, unspoken, audio, query, current,
                 pending, session>>

\* The utterance ends: if it has a text, a task asks it.
AsrEnded ==
  /\ Reading /\ speaking
  /\ speaking' = FALSE /\ userQuerying' = FALSE /\ heard' = FALSE
  /\ IF heard
     THEN /\ current < MaxQuestions
          /\ current' = current + 1
          /\ query' = [query EXCEPT ![current + 1] = At("new", NoQuestion)]
     ELSE UNCHANGED <<current, query>>
  /\ UNCHANGED <<call, mute, unspoken, audio, pending, session>>

\* The service begins to speak a text it was sent.
TtsSentenceStart ==
  /\ Reading /\ unspoken
  /\ unspoken' = FALSE
  /\ mute' = FALSE
  /\ UNCHANGED <<call, speech, audio, query, current, pending, session>>

\* Split: an utterance is transcribed; the query of the last is cancelled, and a
\* new one asks at once.
Completed ==
  /\ Reading /\ mode = "split" /\ current < MaxQuestions
  /\ query' = [q \in Question |->
       IF q = current + 1 THEN At("asking", NoQuestion)
       ELSE IF InWork /\ q = current THEN Cancelled ELSE query[q]]
  /\ pending' = FutureKept
  /\ current' = current + 1
  /\ UNCHANGED <<call, speech, mute, unspoken, audio, session>>

-----------------------------------------------------------------------------
(* _run_query, and the bridge's query in it.                               *)

Step(q, pc) == query' = [query EXCEPT ![q] = At(pc, query[q].answer)]

\* Mutant of Comfort: no mute.
ComfortAloud(q) ==
  /\ query[q].pc = "new"
  /\ Step(q, "opening")
  /\ unspoken' = TRUE
  /\ UNCHANGED <<call, speech, mute, audio, current, pending, session>>

\* The comfort text goes out, behind the mute ...
Comfort(q) ==
  /\ query[q].pc = "new"
  /\ mute' = TRUE
  /\ Step(q, "opening")
  /\ unspoken' = TRUE
  /\ UNCHANGED <<call, speech, audio, current, pending, session>>

\* ... and its end.
ComfortEnd(q) ==
  /\ query[q].pc = "opening"
  /\ Step(q, "asking")
  /\ UNCHANGED <<call, speech, mute, unspoken, audio, current, pending, session>>

Drop(q) ==
  /\ query' = [query EXCEPT ![q] = Dropped]
  /\ mute' = FALSE
  /\ UNCHANGED <<call, speech, unspoken, audio, current, session>>

\* What ActorBridge.query does to the future it finds: its query is cancelled.
Stale(q) == pending \notin {NoQuestion, q} /\ Running(pending)
Supersede(q, here) ==
  /\ query' = [p \in Question |-> IF p = q THEN here
                                  ELSE IF Stale(q) /\ p = pending THEN Dropped ELSE query[p]]
  /\ pending' = q

\* Unless the user speaks again, the query makes its future ...
Ask(q) ==
  /\ query[q].pc = "asking"
  /\ IF userQuerying
     THEN Drop(q) /\ UNCHANGED pending
     ELSE /\ Supersede(q, At("sending", NoQuestion))
          /\ mute' = IF Stale(q) THEN FALSE ELSE mute
          /\ UNCHANGED <<call, speech, unspoken, audio, current, session>>

\* ... the question goes out ...
SendQuestion(q) ==
  /\ query[q].pc = "sending" /\ "session" \in links
  /\ Step(q, "sent")
  /\ asked' = Append(asked, q)
  /\ UNCHANGED <<call, speech, mute, unspoken, audio, current, pending, replies>>

\* ... and once the send has returned it waits, unless a reply came meanwhile.
AwaitAnswer(q) ==
  /\ query[q].pc = "sent"
  /\ Step(q, IF query[q].answer = NoQuestion THEN "waiting" ELSE "answered")
  /\ UNCHANGED <<call, speech, mute, unspoken, audio, current, pending, session>>

\* The send raises: the query ends, its future stays behind.
AskFails(q) ==
  /\ InSend(q) /\ "session" \notin links
  /\ query' = [query EXCEPT ![q] = Stopped(q)]
  /\ mute' = FALSE
  /\ UNCHANGED <<call, speech, unspoken, audio, current, pending, session>>

\* The answer goes to the service, which will say it, unless the user speaks.
Inject(q) ==
  /\ query[q].pc = "answered" /\ mode = "e2e"
  /\ IF userQuerying
     THEN Drop(q) /\ UNCHANGED pending
     ELSE /\ Step(q, "injected")
          /\ unspoken' = TRUE
          /\ UNCHANGED <<call, speech, mute, audio, current, pending, session>>

\* Split: the answer is sent to be spoken ...
Say(q) ==
  /\ query[q].pc = "answered" /\ mode = "split" /\ Mouth \in links
  /\ Step(q, "saying")
  /\ audio' = audio \o Spoken(q)
  /\ UNCHANGED <<call, speech, mute, unspoken, current, pending, session>>

\* Mutant of Hear: the first chunk is taken for the end.
HearOne(q) ==
  /\ query[q].pc = "saying" /\ audio # <<>> /\ Mouth \in links
  /\ audio' = Tail(audio)
  /\ Step(q, "said")
  /\ UNCHANGED <<call, speech, mute, unspoken, current, pending, session>>

\* ... and what the service sends goes to the browser, up to an end of audio.
Hear(q) ==
  /\ query[q].pc = "saying" /\ audio # <<>> /\ Mouth \in links
  /\ audio' = Tail(audio)
  /\ IF Head(audio).end THEN Step(q, "said") ELSE UNCHANGED query
  /\ UNCHANGED <<call, speech, mute, unspoken, current, pending, session>>

\* A send to a service that is gone raises, and so does the reading of its audio.
SendFails(q) ==
  /\ query[q].pc \in {"new", "opening", "answered", "saying"} /\ Mouth \notin links
  /\ Drop(q)
  /\ UNCHANGED pending

\* Mutants of Timeout: a state nobody knows; only while the connection works.
TimeoutMisnamed(q) ==
  /\ query[q].pc = "waiting"
  /\ Step(q, "timeout")
  /\ mute' = FALSE /\ pending' = NoQuestion
  /\ UNCHANGED <<call, speech, unspoken, audio, current, session>>
TimeoutConnected(q) ==
  /\ query[q].pc = "waiting" /\ "session" \in links
  /\ Drop(q)
  /\ pending' = NoQuestion

\* 60 s without an answer.
Timeout(q) ==
  /\ query[q].pc = "waiting"
  /\ Drop(q)
  /\ pending' = NoQuestion

-----------------------------------------------------------------------------
(* The session that answers, and the bridge's reader.                      *)

\* The session replies to the question it is at, once or more, or not at all ...
Reply ==
  /\ asked # <<>> /\ "session" \in links /\ Len(replies) < MaxReplies
  /\ replies' = Append(replies, Head(asked))
  /\ UNCHANGED <<call, speech, mute, unspoken, audio, query, current, pending, asked>>

\* ... and goes on to the next.
NextQuestion ==
  /\ asked # <<>>
  /\ asked' = Tail(asked)
  /\ UNCHANGED <<call, speech, mute, unspoken, audio, query, current, pending, replies>>

\* _read_loop gives a response to the future that is pending, if one is: to the
\* query that waits, or is about to, or to nobody.
ReadReply ==
  /\ replies # <<>> /\ phase # "over" /\ "session" \in links
  /\ replies' = Tail(replies)
  /\ query' = IF pending = NoQuestion \/ ~Running(pending) THEN query
              ELSE [query EXCEPT ![pending] =
                      At(IF InSend(pending) THEN @.pc ELSE "answered", Head(replies))]
  /\ pending' = NoQuestion
  /\ UNCHANGED <<call, speech, mute, unspoken, audio, current, asked>>

-----------------------------------------------------------------------------
(* Setting the call up: one request at a time, to the channel server and    *)
(* to the services.                                                        *)

Service(p) == IF mode = "split" /\ p = "connecting" THEN Ears ELSE Mouth

\* The request of the next phase goes out.  In split mode whoever sends it reads
\* the answer; the greeting is one more text to speak.
Enter(p) ==
  /\ phase' = p
  /\ waiter' = (mode = "split") /\ answer' = "none"
  /\ audio' = IF mode = "split" /\ p = "greeting" THEN Spoken(NoQuestion) ELSE audio

Requesting == phase \in {"connecting", "starting", "greeting"}

\* The channel server registers the call's actor.
Registered ==
  /\ phase = "registering" /\ "session" \in links
  /\ Enter("connecting")
  /\ UNCHANGED <<mode, links, speech, mute, unspoken, query, current, pending, session>>

\* A service answers what it was asked.
ServiceAnswers ==
  /\ Requesting /\ Service(phase) \in links /\ answer = "none"
  /\ ~(mode = "split" /\ phase = "greeting")
  /\ answer' \in IF phase = "greeting" THEN {"started"} ELSE {"started", "failed"}
  /\ UNCHANGED <<mode, phase, waiter, links, speech, mute, unspoken, audio, query,
                 current, pending, session>>

\* _wait_for_event registers its waiter once the request has been sent.
StartWaiting ==
  /\ Requesting /\ ~waiter
  /\ waiter' = TRUE
  /\ UNCHANGED <<mode, phase, answer, links, speech, mute, unspoken, audio, query,
                 current, pending, session>>

\* An answer is read before there is a waiter: it is not kept.
MissAnswer ==
  /\ Requesting /\ answer \in {"started", "failed"} /\ ~waiter
  /\ answer' = "missed"
  /\ UNCHANGED <<mode, phase, waiter, links, speech, mute, unspoken, audio, query,
                 current, pending, session>>

AfterStart ==
  CASE phase = "connecting" -> "starting"
    [] phase = "starting"   -> "greeting"
    [] phase = "greeting"   -> "talking"

ReadAnswer ==
  /\ Requesting /\ answer = "started" /\ waiter /\ Service(phase) \in links
  /\ Enter(AfterStart)
  /\ UNCHANGED <<mode, links, speech, mute, unspoken, query, current, pending, session>>

\* Split: the greeting is played, up to its end.
HearGreeting ==
  /\ phase = "greeting" /\ audio # <<>> /\ Mouth \in links
  /\ audio' = Tail(audio)
  /\ phase' = IF Head(audio).end THEN "talking" ELSE phase
  /\ UNCHANGED <<mode, setup, links, speech, mute, unspoken, query, current, pending, session>>

-----------------------------------------------------------------------------
(* The end of the call.                                                    *)

\* The browser stops the call: its state is sent ...
Stop ==
  /\ phase = "talking"
  /\ phase' = "ending"
  /\ UNCHANGED <<mode, setup, links, speech, mute, unspoken, audio, query, current,
                 pending, session>>

\* ... then the query is cancelled, and the service's session finished.
Finish ==
  /\ phase = "ending"
  /\ phase' = "finishing"
  /\ CancelQuery /\ Unmute
  /\ UNCHANGED <<mode, setup, links, speech, unspoken, audio, current, session>>

\* Mutant of Cleanup: it relies on _stop to have cancelled the query.
CleanupOnly ==
  /\ phase # "over"
  /\ phase' = "over"
  /\ links' = {}
  /\ UNCHANGED <<mode, setup, speech, unspoken, audio, current, session, query, mute, pending>>

\* The call is finished, or its setup failed, the browser is gone, or the audio
\* could not be sent: the tasks are cancelled, the connections closed.
Cleanup ==
  /\ phase # "over"
  /\ phase' = "over"
  /\ links' = {}
  /\ CancelQuery /\ Unmute
  /\ UNCHANGED <<mode, setup, speech, unspoken, audio, current, session>>

\* Mutant of GiveUp: it gives up only on an answer that may still come.
GiveUpHoping ==
  /\ mode = "e2e" /\ Requesting /\ waiter /\ answer # "missed"
  /\ Cleanup

\* 10 or 30 s without the answer; only the dialogue service is given a time.
GiveUp ==
  /\ mode = "e2e" /\ Requesting /\ waiter
  /\ Cleanup

LoseLink(l) ==
  /\ l \in links
  /\ links' = links \ {l}
  /\ UNCHANGED <<mode, phase, setup, speech, mute, unspoken, audio, query, current,
                 pending, session>>

RunQuery(q) ==
  \/ Comfort(q) \/ ComfortEnd(q) \/ Ask(q) \/ SendQuestion(q) \/ AwaitAnswer(q)
  \/ Inject(q) \/ Say(q) \/ SendFails(q) \/ AskFails(q) \/ Timeout(q)

SetUp == Registered \/ StartWaiting \/ MissAnswer \/ ReadAnswer \/ HearGreeting

Next ==
  \/ SetUp \/ ServiceAnswers \/ GiveUp
  \/ AsrInfo \/ AsrFinal \/ AsrEnded \/ TtsSentenceStart \/ Completed
  \/ \E q \in Question : RunQuery(q) \/ Hear(q)
  \/ Reply \/ NextQuestion \/ ReadReply
  \/ Stop \/ Finish \/ Cleanup
  \/ \E l \in Parties(mode) : LoseLink(l)

Spec == Init /\ [][Next]_vars

\* The event loop runs every task that can go on, and time passes.  The user, the
\* session, the services and the browser owe nothing.
FairSpec ==
  /\ Spec
  /\ WF_vars(StartWaiting) /\ WF_vars(GiveUp)
  /\ \A q \in Question : WF_vars(RunQuery(q))

-----------------------------------------------------------------------------
(* Properties.                                                             *)

Chunk == [about : Question \cup {NoQuestion}, end : BOOLEAN]
QueryType ==
  [pc : {"unasked", "new", "opening", "asking", "sending", "sent", "waiting",
         "answered", "injected", "saying", "said", "cut", "left", "dropped"},
   answer : Question \cup {NoQuestion}]

TypeOK ==
  /\ mode \in {"e2e", "split"}
  /\ phase \in {"registering", "connecting", "starting", "greeting", "talking",
                "ending", "finishing", "over"}
  /\ waiter \in BOOLEAN /\ answer \in {"none", "started", "failed", "missed"}
  /\ links \subseteq Parties(mode)
  /\ audio \in Seq(Chunk)
  /\ speaking \in BOOLEAN /\ userQuerying \in BOOLEAN /\ heard \in BOOLEAN
  /\ mute \in BOOLEAN /\ unspoken \in BOOLEAN
  /\ query \in [Question -> QueryType]
  /\ current \in Question \cup {NoQuestion} /\ pending \in Question \cup {NoQuestion}
  /\ asked \in Seq(Question) /\ replies \in Seq(Question)

\* A query that waits, or is about to, has the one future the next reply goes to,
\* unless it already has its reply, and is that of the last utterance.  A future
\* nobody waits for is only ever that of a query stopped in its send: a query that
\* had begun to wait takes its future with it, whoever ends it.
PendingIsWaited ==
  /\ \A q \in Question :
       query[q].pc = "waiting" \/ (InSend(q) /\ query[q].answer = NoQuestion)
         => pending = q /\ q = current
  /\ pending # NoQuestion =>
       query[pending].pc = "waiting" \/ InSend(pending) \/ query[pending].pc = "left"

\* "ChatTTSText must ONLY be sent AFTER ASREnded (459). Never before": a text is
\* sent to be spoken while the user does not speak, for the last utterance.
SpeaksInTurn ==
  [][\A q \in Question :
       query'[q].pc # query[q].pc /\ query'[q].pc \in {"opening", "injected", "saying"}
         => ~speaking /\ q = current]_vars

\* While a query runs and the service has not begun on our text, what it says is
\* its own answer, and is dropped.
MutedUntilComfort ==
  \A q \in Question : Running(q) /\ query[q].pc # "new" /\ unspoken => mute

\* Nothing of a call outlives it.
OverIsQuiet == phase = "over" => \A q \in Question : ~Running(q)

\* What _speak plays is the audio of its own text ("Synthesize text and send PCM
\* audio", session_split.py:75), as long as no answer was cut short: what a cut
\* leaves unread is played for the next answer, whose own audio then lags too.
OnlyCutsDisplace ==
  \A q \in Question :
    query[q].pc = "saying" /\ audio # <<>> /\ Head(audio).about # q
      => \E p \in 1..(q - 1) : query[p].pc = "cut"

\* Every question is answered or dropped: through interruptions, lost connections
\* and a session that never replies, no query waits for ever, but for the speech
\* service to send what it is to play.
QuestionSettles ==
  \A q \in Question : Running(q) ~> ~Running(q) \/ query[q].pc = "saying"

\* Setting up a call with the dialogue service ends, also when its answers are
\* lost on the way, or read before anybody waits for them.
SetupEnds == mode = "e2e" /\ Requesting ~> ~Requesting

\* ActorBridge.query: "Send text to CC session via actor model, wait for
\* response": what is said in answer to a question is a reply to it.
AnswerIsForQuestion ==
  \A q \in Question : query[q].pc \in {"injected", "saying", "said"} => query[q].answer = q
=============================================================================
