------------------------------ MODULE VoiceProofs ------------------------------
(***************************************************************************)
(* Proofs about VoiceCall, for any number of utterances and replies.       *)
(***************************************************************************)
EXTENDS VoiceCall, SequenceTheorems, TLAPS

-----------------------------------------------------------------------------
(* The invariant.                                                          *)

Conversing == {"talking", "ending", "finishing"}

\* Only the query of the last utterance runs, only while the browser has the call,
\* and not while the user speaks; there is no utterance before the setup is over.
OneRuns ==
  /\ \A q \in Question :
       /\ Running(q) => q = current /\ ~speaking /\ phase \in Conversing
       /\ query[q].pc # "unasked" => q <= current
  /\ phase \notin Conversing \cup {"over"} => current = NoQuestion

\* What only one of the modes has.
ModeOK ==
  /\ mode = "split" => /\ ~speaking /\ ~unspoken
                       /\ \A q \in Question : query[q].pc \notin {"new", "opening", "injected"}
  /\ mode = "e2e" => /\ audio = <<>>
                     /\ \A q \in Question : query[q].pc \notin {"saying", "said", "cut"}

\* The future of a query that has its reply is done.
AnsweredIsTaken ==
  \A q \in Question : InSend(q) /\ query[q].answer # NoQuestion => pending # q

Turns == OneRuns /\ ModeOK /\ PendingIsWaited /\ AnsweredIsTaken /\ MutedUntilComfort

\* As long as no answer was cut short, the audio that is unread is that of the text
\* being played, a chunk and its end, or only the end.
Clean == \A p \in Question : query[p].pc # "cut"
Ending(q) == <<[about |-> q, end |-> TRUE]>>
AudioOK ==
  /\ phase \in {"registering", "connecting", "starting"} => audio = <<>>
  /\ mode = "split" /\ phase = "greeting" =>
       audio \in {Spoken(NoQuestion), Ending(NoQuestion)} /\ answer = "none"
  /\ Clean => \A q \in Question :
       query[q].pc = "saying" => audio \in {Spoken(q), Ending(q)}
  /\ Clean /\ phase \in Conversing /\ Mouth \in links =>
       \/ audio = <<>>
       \/ \E q \in Question : query[q].pc = "saying"

VoiceInv == TypeOK /\ Turns /\ AudioOK

USE CallAssumption DEF Question, NoQuestion

LEMMA SpokenFacts ==
  ASSUME NEW q \in Question \cup {NoQuestion}
  PROVE  /\ Spoken(q) \in Seq(Chunk) /\ Ending(q) \in Seq(Chunk)
         /\ Spoken(q) # <<>> /\ Head(Spoken(q)) = [about |-> q, end |-> FALSE]
         /\ Ending(q) # <<>> /\ Head(Ending(q)) = [about |-> q, end |-> TRUE]
         /\ Tail(Spoken(q)) = Ending(q) /\ Tail(Ending(q)) = <<>>
         /\ <<>> \o Spoken(q) = Spoken(q)
<1> USE DEF Spoken, Ending, Chunk
<1>1. Spoken(q) \in Seq(Chunk) /\ Ending(q) \in Seq(Chunk)
  OBVIOUS
<1>2. Spoken(q) # <<>> /\ Ending(q) # <<>>
  OBVIOUS
<1>3. /\ Head(Spoken(q)) = [about |-> q, end |-> FALSE]
      /\ Head(Ending(q)) = [about |-> q, end |-> TRUE]
  OBVIOUS
<1>4. Tail(Spoken(q)) = Ending(q)
  <2>1. Tail(Spoken(q)) \in Seq(Chunk) /\ Len(Tail(Spoken(q))) = 1
    BY <1>1, <1>2, HeadTailProperties
  <2>2. Tail(Spoken(q))[1] = Ending(q)[1]
    BY <1>1, <1>2, <2>1, HeadTailProperties
  <2>3. Len(Ending(q)) = 1
    OBVIOUS
  <2>4. \A i \in 1..Len(Tail(Spoken(q))) : Tail(Spoken(q))[i] = Ending(q)[i]
    BY <2>1, <2>2
  <2> HIDE DEF Spoken, Ending, Chunk
  <2>. QED
    BY <1>1, <2>1, <2>3, <2>4, SeqEqual
<1>6. Tail(Ending(q)) = <<>>
  <2>1. Len(Tail(Ending(q))) = 0 /\ Tail(Ending(q)) \in Seq(Chunk)
    BY <1>1, <1>2, HeadTailProperties
  <2>. QED
    BY <2>1, EmptySeq
<1>5. <<>> \o Spoken(q) = Spoken(q)
  BY <1>1, ConcatEmptySeq
<1>. QED
  BY <1>1, <1>2, <1>3, <1>4, <1>5, <1>6

LEMMA InitInv == Init => VoiceInv
<1> SUFFICES ASSUME Init PROVE VoiceInv
  OBVIOUS
<1> USE DEF Init
<1>1. \A q \in Question : query[q] = [pc |-> "unasked", answer |-> 0]
  BY DEF Unasked, At
<1>2. TypeOK
  <2>1. query \in [Question -> QueryType]
    BY DEF Unasked, At, QueryType
  <2>2. audio \in Seq(Chunk) /\ asked \in Seq(Question) /\ replies \in Seq(Question)
    OBVIOUS
  <2>. QED
    BY <2>1, <2>2 DEF TypeOK
<1>3. Turns
  BY <1>1 DEF Turns, OneRuns, ModeOK, PendingIsWaited, AnsweredIsTaken, InSend, MutedUntilComfort, Running, Conversing
<1>4. AudioOK
  BY <1>1 DEF AudioOK, Conversing
<1>. QED
  BY <1>2, <1>3, <1>4 DEF VoiceInv

-----------------------------------------------------------------------------
(* What is heard.                                                          *)

\* Cancelling the query leaves none running, and of its future nothing, unless it
\* was in its send.
LEMMA Cancels ==
  ASSUME VoiceInv, CancelQuery
  PROVE  /\ query' \in [Question -> QueryType]
         /\ \A q \in Question :
              \/ query'[q] = query[q] /\ ~Running(q)
              \/ query'[q].pc \in {"dropped", "left"} /\ query[q].pc # "saying" /\ Running(q)
              \/ query'[q].pc = "cut" /\ query[q].pc = "saying"
         /\ pending' \in {pending, NoQuestion}
         /\ pending' # NoQuestion => query'[pending'].pc = "left"
<1> USE DEF CancelQuery, InWork, Cancelled, Stopped, InSend, FutureKept, Dropped, At
<1>1. query \in [Question -> QueryType] /\ current \in Question \cup {NoQuestion}
      /\ pending \in Question \cup {NoQuestion}
  BY DEF VoiceInv, TypeOK
<1>2. \A q \in Question : Running(q) => q = current
  BY DEF VoiceInv, Turns, OneRuns
<1>3. query' \in [Question -> QueryType]
  BY <1>1 DEF QueryType
<1>4. \A q \in Question :
         \/ query'[q] = query[q] /\ ~Running(q)
         \/ query'[q].pc \in {"dropped", "left"} /\ query[q].pc # "saying" /\ Running(q)
         \/ query'[q].pc = "cut" /\ query[q].pc = "saying"
  BY <1>1, <1>2 DEF Running
<1>5. pending' \in {pending, NoQuestion}
  OBVIOUS
<1>6. pending' # NoQuestion => query'[pending'].pc = "left"
  <2>1. pending # NoQuestion =>
          query[pending].pc = "waiting" \/ InSend(pending) \/ query[pending].pc = "left"
    BY DEF VoiceInv, Turns, PendingIsWaited
  <2>2. query[pending].pc = "waiting" \/ InSend(pending) => pending = 0 \/ pending = current
    BY <1>1, <1>2 DEF Running
  <2>. QED
    BY <1>1, <2>1, <2>2 DEF Running
<1>. QED
  BY <1>3, <1>4, <1>5, <1>6

LEMMA HeardInv ==
  ASSUME VoiceInv, AsrInfo \/ AsrFinal \/ AsrEnded \/ TtsSentenceStart \/ Completed
  PROVE  VoiceInv'
<1> USE DEF VoiceInv, Reading, call, speech, session, setup
<1>1. CASE AsrInfo
  <2> USE <1>1 DEF AsrInfo
  <2>1. TypeOK'
    BY Cancels DEF TypeOK, Parties
  <2>2. Turns'
    BY Cancels DEF Turns, OneRuns, ModeOK, PendingIsWaited, AnsweredIsTaken,
       MutedUntilComfort, InSend, Running, Conversing, TypeOK
  <2>3. AudioOK'
    BY Cancels DEF AudioOK, Clean, Conversing, Turns, ModeOK, Mouth
  <2>. QED
    BY <2>1, <2>2, <2>3
<1>2. CASE AsrFinal
  <2> USE <1>2 DEF AsrFinal
  <2>1. TypeOK'
    BY DEF TypeOK, Parties
  <2>2. Turns'
    BY DEF Turns, OneRuns, ModeOK, PendingIsWaited, AnsweredIsTaken, InSend, MutedUntilComfort, Running
  <2>3. AudioOK'
    BY DEF AudioOK, Clean, Mouth
  <2>. QED
    BY <2>1, <2>2, <2>3
<1>3. CASE AsrEnded
  <2>0. mode = "e2e" /\ audio = <<>> /\ audio' = audio /\ mode' = mode /\ phase' = phase
    BY <1>3 DEF AsrEnded, Turns, ModeOK, TypeOK
  <2>1. \A q \in Question : ~Running(q)
    BY <1>3 DEF AsrEnded, Turns, OneRuns
  <2>2. CASE ~heard
    <3>1. UNCHANGED <<query, current, pending, mute, unspoken, links>>
      BY <1>3, <2>2 DEF AsrEnded
    <3>2. TypeOK'
      BY <1>3, <2>2 DEF AsrEnded, TypeOK, Parties
    <3>3. Turns'
      BY <1>3, <2>0, <2>1, <3>1 DEF AsrEnded, Turns, OneRuns, ModeOK, PendingIsWaited, AnsweredIsTaken, InSend,
         MutedUntilComfort, Running, Conversing
    <3>4. AudioOK'
      BY <2>0, <3>1, <3>3 DEF AudioOK, ModeOK, Turns
    <3>. QED
      BY <3>2, <3>3, <3>4
  <2>3. CASE heard
    <3>1. /\ current \in Question \cup {NoQuestion} /\ current' = current + 1
          /\ current' \in Question
          /\ UNCHANGED <<pending, mute, unspoken, links>>
          /\ speaking' = FALSE /\ phase \in Conversing
      BY <1>3, <2>3 DEF AsrEnded, TypeOK, Conversing
    <3>2. /\ query' \in [Question -> QueryType]
          /\ query'[current'].pc = "new"
          /\ \A q \in Question \ {current'} : query'[q] = query[q]
      <4>1. query' = [query EXCEPT ![current'] = At("new", NoQuestion)]
        BY <1>3, <2>3, <3>1 DEF AsrEnded
      <4>2. query \in [Question -> QueryType] /\ At("new", NoQuestion) \in QueryType
        BY DEF TypeOK, At, QueryType
      <4>. QED
        BY <3>1, <4>1, <4>2 DEF At
    <3>3. TypeOK'
      BY <1>3, <3>1, <3>2 DEF AsrEnded, TypeOK, Parties
    <3>4. OneRuns'
      BY <2>0, <2>1, <3>1, <3>2 DEF Turns, OneRuns, Running, Conversing
    <3>5. ModeOK' /\ MutedUntilComfort'
      BY <2>0, <2>1, <3>1, <3>2 DEF Turns, ModeOK, MutedUntilComfort, Running
    <3>6. PendingIsWaited' /\ AnsweredIsTaken'
      <4>1. pending # NoQuestion => query[pending].pc = "left"
        BY <2>1 DEF Turns, PendingIsWaited, InSend, Running, TypeOK
      <4>2. pending # NoQuestion => pending \in Question /\ pending # current'
        BY <3>1, <4>1 DEF Turns, OneRuns, TypeOK
      <4>3. \A q \in Question : query'[q].pc \notin {"waiting", "sending", "sent"}
        BY <2>1, <3>1, <3>2 DEF Running
      <4>. QED
        BY <3>1, <3>2, <4>1, <4>2, <4>3 DEF PendingIsWaited, AnsweredIsTaken, InSend
    <3>7. AudioOK'
      BY <2>0, <3>5 DEF AudioOK, ModeOK
    <3>. QED
      BY <3>3, <3>4, <3>5, <3>6, <3>7 DEF Turns
  <2>. QED
    BY <2>2, <2>3
<1>4. CASE TtsSentenceStart
  <2> USE <1>4 DEF TtsSentenceStart
  <2>1. TypeOK'
    BY DEF TypeOK, Parties
  <2>2. Turns'
    BY DEF Turns, OneRuns, ModeOK, PendingIsWaited, AnsweredIsTaken, InSend, MutedUntilComfort, Running
  <2>3. AudioOK'
    BY DEF AudioOK, Clean, Mouth
  <2>. QED
    BY <2>1, <2>2, <2>3
<1>5. CASE Completed
  <2>1. TypeOK'
    <3>1. query' \in [Question -> QueryType]
      <4>1. \A q \in Question : query[q] \in QueryType
        BY DEF TypeOK
      <4>2. At("asking", NoQuestion) \in QueryType /\ Cancelled \in QueryType
        BY DEF At, QueryType, Cancelled, Stopped, Dropped
      <4>. QED
        BY <1>5, <4>1, <4>2 DEF Completed
    <3>2. current' \in Question \cup {NoQuestion} /\ pending' \in Question \cup {NoQuestion}
      BY <1>5 DEF Completed, FutureKept, TypeOK
    <3>. QED
      BY <1>5, <3>1, <3>2 DEF Completed, TypeOK, Parties
  <2>2. /\ current \in Question \cup {NoQuestion} /\ current' = current + 1
        /\ current' \in Question /\ phase \in Conversing /\ query[current'].pc = "unasked"
        /\ mode = "split" /\ ~speaking /\ ~unspoken
        /\ UNCHANGED <<mode, phase, links, speaking, unspoken, mute, audio>>
    BY <1>5 DEF Completed, TypeOK, Conversing, Turns, OneRuns, ModeOK
  <2>3. /\ query'[current'].pc = "asking"
        /\ \A q \in Question \ {current'} :
             \/ query'[q] = query[q] /\ ~Running(q)
             \/ /\ query'[q].pc \in {"dropped", "left"} /\ query[q].pc # "saying"
                /\ Running(q)
             \/ query'[q].pc = "cut" /\ query[q].pc = "saying"
    <3>1. \A q \in Question : Running(q) => InWork /\ q = current
      BY DEF Turns, OneRuns, InWork
    <3>2. InWork => Running(current)
      BY DEF InWork
    <3>3. query'[current'].pc = "asking"
      BY <1>5, <2>2 DEF Completed, At
    <3>4. \A q \in Question \ {current'} :
            query'[q] = IF InWork /\ q = current THEN Cancelled ELSE query[q]
      BY <1>5, <2>2 DEF Completed
    <3>5. IF query[current].pc = "saying" THEN Cancelled.pc = "cut"
          ELSE Cancelled.pc \in {"dropped", "left"}
      BY DEF Cancelled, Stopped, InSend, Dropped, At
    <3>. QED
      BY <3>1, <3>2, <3>3, <3>4, <3>5 DEF Running
  <2>4. OneRuns'
    BY <2>2, <2>3 DEF Turns, OneRuns, Running, Conversing
  <2>5. ModeOK' /\ MutedUntilComfort'
    BY <2>2, <2>3 DEF Turns, ModeOK, MutedUntilComfort, Running
  <2>6. PendingIsWaited' /\ AnsweredIsTaken'
    <3>1. pending' = FutureKept /\ pending \in Question \cup {NoQuestion}
      BY <1>5 DEF Completed, TypeOK
    <3>2. pending' # NoQuestion => pending' \in Question /\ query'[pending'].pc = "left"
      <4>1. pending # NoQuestion =>
              query[pending].pc = "waiting" \/ InSend(pending) \/ query[pending].pc = "left"
        BY DEF Turns, PendingIsWaited
      <4>2. CASE pending # NoQuestion /\ Running(pending)
        <5>1. InWork /\ pending = current
          BY <3>1, <4>2 DEF Turns, OneRuns, InWork
        <5>2. query[pending].pc = "waiting" => pending' = NoQuestion
          BY <3>1, <5>1 DEF FutureKept
        <5>3. InSend(pending) => query'[pending].pc = "left" /\ pending' = pending
          BY <1>5, <2>2, <3>1, <4>2, <5>1 DEF Completed, Cancelled, Stopped, InSend, FutureKept, At
        <5>. QED
          BY <3>1, <4>1, <4>2, <5>2, <5>3 DEF Running
      <4>3. CASE pending # NoQuestion /\ ~Running(pending)
        BY <2>2, <2>3, <3>1, <4>1, <4>3 DEF FutureKept, InSend, Running
      <4>4. CASE pending = NoQuestion
        BY <3>1, <4>4 DEF FutureKept
      <4>. QED
        BY <4>2, <4>3, <4>4
    <3>3. \A q \in Question : query'[q].pc \notin {"waiting", "sending", "sent"}
      BY <2>2, <2>3 DEF Running
    <3>. QED
      BY <3>2, <3>3 DEF PendingIsWaited, AnsweredIsTaken, InSend
  <2>7. AudioOK'
    BY <2>2, <2>3 DEF AudioOK, Clean, Mouth, Running, Conversing
  <2>. QED
    BY <2>1, <2>4, <2>5, <2>6, <2>7 DEF Turns
<1>. QED
  BY <1>1, <1>2, <1>3, <1>4, <1>5

-----------------------------------------------------------------------------
(* The query that runs.                                                    *)

\* What holds of the query that runs: it is the last, and no other does.
LEMMA RunsNow ==
  ASSUME VoiceInv, NEW q \in Question, Running(q)
  PROVE  /\ q = current /\ ~speaking /\ phase \in Conversing /\ query[q] \in QueryType
         /\ \A p \in Question \ {q} : ~Running(p)
         /\ pending \in {NoQuestion, q} \/ query[pending].pc = "left"
         /\ query[q].pc = "waiting" => pending = q
         /\ InSend(q) => (query[q].answer = NoQuestion <=> pending = q)
         /\ pending = q => query[q].pc = "waiting" \/ InSend(q)
         /\ ~Stale(q)
         /\ mode \in {"e2e", "split"}
         /\ mode = "e2e" => audio = <<>> /\ query[q].pc # "saying"
         /\ mode = "split" => ~unspoken /\ query[q].pc \notin {"new", "opening"}
         /\ Clean /\ Mouth \in links /\ query[q].pc # "saying" => audio = <<>>
         /\ Clean /\ query[q].pc = "saying" => audio \in {Spoken(q), Ending(q)}
         /\ unspoken /\ query[q].pc # "new" => mute
<1> USE DEF VoiceInv
<1>1. q = current /\ ~speaking /\ phase \in Conversing /\ query[q] \in QueryType
  BY DEF Turns, OneRuns, TypeOK
<1>2. \A p \in Question \ {q} : ~Running(p)
  BY <1>1 DEF Turns, OneRuns
<1>3. /\ pending \in {NoQuestion, q} \/ query[pending].pc = "left"
      /\ query[q].pc = "waiting" => pending = q
      /\ InSend(q) => (query[q].answer = NoQuestion <=> pending = q)
      /\ pending = q => query[q].pc = "waiting" \/ InSend(q)
  BY <1>2 DEF Turns, PendingIsWaited, AnsweredIsTaken, InSend, Running, TypeOK
<1>4. ~Stale(q)
  BY <1>2 DEF Stale, TypeOK
<1>5. /\ mode \in {"e2e", "split"}
      /\ mode = "e2e" => audio = <<>> /\ query[q].pc # "saying"
      /\ mode = "split" => ~unspoken /\ query[q].pc \notin {"new", "opening"}
  BY DEF Turns, ModeOK, TypeOK
<1>6. Clean /\ Mouth \in links /\ query[q].pc # "saying" => audio = <<>>
  BY <1>1, <1>2 DEF AudioOK, Running
<1>7. Clean /\ query[q].pc = "saying" => audio \in {Spoken(q), Ending(q)}
  BY DEF AudioOK
<1>8. unspoken /\ query[q].pc # "new" => mute
  BY DEF Turns, MutedUntilComfort
<1>. QED
  BY <1>1, <1>2, <1>3, <1>4, <1>5, <1>6, <1>7, <1>8

\* The query that runs goes on, or stops.
LEMMA Moves ==
  ASSUME VoiceInv, NEW q \in Question, Running(q), NEW next \in QueryType,
         query' = [query EXCEPT ![q] = next], next.pc \notin {"unasked", "cut"},
         UNCHANGED <<call, speech, current>>,
         asked' \in Seq(Question), replies' \in Seq(Question), audio' \in Seq(Chunk),
         mute' \in BOOLEAN, unspoken' \in BOOLEAN, pending' \in Question \cup {NoQuestion},
         mode = "split" => ~unspoken' /\ next.pc \notin {"new", "opening", "injected"},
         mode = "e2e" => audio' = <<>> /\ next.pc \notin {"saying", "said"},
         pending' \in {NoQuestion, pending, q},
         pending' = q => next.pc \in {"waiting", "sending", "sent", "left"},
         next.pc = "waiting" => pending' = q,
         next.pc \in {"sending", "sent"} => (next.answer = NoQuestion <=> pending' = q),
         next.pc \notin {"new", "injected", "said", "left", "dropped"} /\ unspoken' => mute',
         Clean /\ next.pc = "saying" => audio' \in {Spoken(q), Ending(q)},
         Clean /\ Mouth \in links /\ next.pc # "saying" => audio' = <<>>
  PROVE  VoiceInv'
<1> USE DEF call, speech, setup
<1>1. q = current /\ ~speaking /\ phase \in Conversing /\ \A p \in Question \ {q} : ~Running(p)
  BY RunsNow
<1>2. query \in [Question -> QueryType]
  BY DEF VoiceInv, TypeOK
<1>3. query'[q] = next /\ \A p \in Question \ {q} : query'[p] = query[p]
  BY <1>2
<1>4. TypeOK'
  <2>1. query' \in [Question -> QueryType]
    BY <1>2
  <2>. QED
    BY <2>1 DEF VoiceInv, TypeOK, Parties
<1>5. OneRuns'
  BY <1>1, <1>3 DEF VoiceInv, Turns, OneRuns, Running
<1>6. ModeOK'
  BY <1>1, <1>3 DEF VoiceInv, Turns, ModeOK
<1>7. PendingIsWaited' /\ AnsweredIsTaken'
  <2>1. \A p \in Question \ {q} : query[p].pc \notin {"waiting", "sending", "sent"}
    BY <1>1 DEF Running
  <2>2. pending' \notin {NoQuestion, q} => query'[pending'].pc = "left"
    BY <1>3, <2>1, RunsNow
  <2>. QED
    BY <1>1, <1>3, <2>1, <2>2 DEF PendingIsWaited, AnsweredIsTaken, InSend
<1>8. MutedUntilComfort'
  BY <1>1, <1>3 DEF MutedUntilComfort, Running
<1>9. AudioOK'
  <2>1. Clean' => Clean
    BY <1>1, <1>3 DEF Clean, Running
  <2>2. \A p \in Question \ {q} : query'[p].pc # "saying"
    BY <1>1, <1>3 DEF Running
  <2>3. phase' \notin {"registering", "connecting", "starting", "greeting"}
    BY <1>1 DEF Conversing
  <2>4. Mouth' = Mouth
    BY DEF Mouth
  <2>. QED
    BY <1>3, <2>1, <2>2, <2>3, <2>4 DEF AudioOK
<1>. QED
  BY <1>4, <1>5, <1>6, <1>7, <1>8, <1>9 DEF VoiceInv, Turns

LEMMA Typed ==
  VoiceInv =>
    /\ asked \in Seq(Question) /\ replies \in Seq(Question) /\ audio \in Seq(Chunk)
    /\ mute \in BOOLEAN /\ unspoken \in BOOLEAN
    /\ pending \in Question \cup {NoQuestion}
    /\ query \in [Question -> QueryType]
BY DEF VoiceInv, TypeOK

\* ... is dropped, with what its future is worth by then.
LEMMA Drops ==
  ASSUME VoiceInv, NEW q \in Question, Running(q),
         query' = [query EXCEPT ![q] = Dropped], mute' = FALSE,
         UNCHANGED <<call, speech, unspoken, audio, current, replies>>, asked' \in Seq(Question),
         query[q].pc = "saying" => Mouth \notin links,
         pending' \in Question \cup {NoQuestion},
         \/ pending' = NoQuestion
         \/ pending' = pending /\ query[q].pc \notin {"waiting", "sending", "sent"}
  PROVE  VoiceInv'
<1>1. Dropped \in QueryType /\ Dropped.pc = "dropped"
  BY DEF Dropped, At, QueryType
<1>2. pending' \in {NoQuestion, pending} /\ pending' # q
  BY RunsNow DEF InSend
<1>3. /\ mode = "split" => ~unspoken'
      /\ mode = "e2e" => audio' = <<>>
      /\ Clean /\ Mouth \in links => audio' = <<>>
  BY RunsNow
<1>4. /\ replies' \in Seq(Question) /\ audio' \in Seq(Chunk)
      /\ mute' \in BOOLEAN /\ unspoken' \in BOOLEAN
  BY Typed
<1> DEFINE next == Dropped
<1> HIDE DEF next
<1>5. next \in QueryType /\ next.pc = "dropped" /\ query' = [query EXCEPT ![q] = next]
  BY <1>1 DEF next
<1>. QED
  BY <1>2, <1>3, <1>4, <1>5, Moves

\* ... or takes a step, with the answer it has.
LEMMA Steps ==
  ASSUME VoiceInv, NEW q \in Question, Running(q),
         NEW pc \in {"opening", "asking", "sent", "waiting", "answered", "injected", "saying",
                    "said"}, Step(q, pc),
         UNCHANGED <<call, speech, current, pending, replies>>, asked' \in Seq(Question),
         pending = q => pc \in {"sent", "waiting"},
         pc = "waiting" => pending = q,
         pc = "sent" => (query[q].answer = NoQuestion <=> pending = q),
         audio' \in Seq(Chunk), mute' \in BOOLEAN, unspoken' \in BOOLEAN,
         mode = "split" => ~unspoken' /\ pc \notin {"opening", "injected"},
         mode = "e2e" => audio' = <<>> /\ pc \notin {"saying", "said"},
         pc \notin {"injected", "said"} /\ unspoken' => mute',
         Clean /\ pc = "saying" => audio' \in {Spoken(q), Ending(q)},
         Clean /\ Mouth \in links /\ pc # "saying" => audio' = <<>>
  PROVE  VoiceInv'
<1> DEFINE next == At(pc, query[q].answer)
<1>1. next \in QueryType /\ next.pc = pc /\ next.answer = query[q].answer
  BY RunsNow DEF At, QueryType
<1>2. query' = [query EXCEPT ![q] = next]
  BY DEF Step
<1>3. replies' \in Seq(Question) /\ pending' \in Question \cup {NoQuestion}
  BY Typed
<1>4. pending' = pending
  OBVIOUS
<1> HIDE DEF next
<1>. QED
  BY <1>1, <1>2, <1>3, <1>4, Moves

LEMMA QueryInv ==
  ASSUME VoiceInv, NEW q \in Question, RunQuery(q) \/ Hear(q)
  PROVE  VoiceInv'
<1>1. CASE Comfort(q)
  <2>1. Running(q) /\ query[q].pc = "new"
    BY <1>1 DEF Comfort, Running
  <2>2. mode = "e2e" /\ audio = <<>>
    BY <2>1, RunsNow
  <2>3. pending # q
    BY <2>1, RunsNow DEF InSend
  <2>. QED
    BY <1>1, <2>1, <2>2, <2>3, Steps, Typed DEF Comfort, session
<1>2. CASE ComfortEnd(q)
  <2>1. Running(q) /\ query[q].pc = "opening"
    BY <1>2 DEF ComfortEnd, Running
  <2>2. mode = "e2e" /\ audio = <<>> /\ (unspoken => mute) /\ pending # q
    BY <2>1, RunsNow DEF InSend
  <2>. QED
    BY <1>2, <2>1, <2>2, Steps, Typed DEF ComfortEnd, session
<1>3. CASE Ask(q)
  <2>1. Running(q) /\ query[q].pc = "asking"
    BY <1>3 DEF Ask, Running
  <2>2. CASE userQuerying
    <3>1. Drop(q) /\ UNCHANGED pending
      BY <1>3, <2>2 DEF Ask
    <3>. QED
      BY <2>1, <3>1, Drops, Typed DEF Drop, session
  <2>3. CASE ~userQuerying
    <3> DEFINE next == At("sending", NoQuestion)
    <3>1. /\ Supersede(q, next)
          /\ mute' = IF Stale(q) THEN FALSE ELSE mute
          /\ UNCHANGED <<call, speech, unspoken, audio, current, session>>
      BY <1>3, <2>3 DEF Ask
    <3>2. next \in QueryType /\ next.pc = "sending" /\ next.answer = NoQuestion
      BY DEF At, QueryType
    <3> HIDE DEF next
    <3>3. query' = [query EXCEPT ![q] = next] /\ pending' = q /\ mute' = mute
      BY <2>1, <3>1, RunsNow, Typed DEF Supersede
    <3>4. asked' \in Seq(Question) /\ replies' \in Seq(Question)
      BY <3>1, Typed DEF session
    <3>5. /\ mode = "split" => ~unspoken'
          /\ mode = "e2e" => audio' = <<>>
          /\ Clean /\ Mouth \in links => audio' = <<>>
          /\ unspoken' => mute'
      BY <2>1, <3>1, <3>3, RunsNow
    <3>6. audio' \in Seq(Chunk) /\ mute' \in BOOLEAN /\ unspoken' \in BOOLEAN
      BY <3>1, <3>3, Typed
    <3>. QED
      BY <2>1, <3>1, <3>2, <3>3, <3>4, <3>5, <3>6, Moves
  <2>. QED
    BY <2>2, <2>3
<1>9. CASE SendQuestion(q)
  <2>1. /\ Running(q) /\ query[q].pc = "sending" /\ Step(q, "sent")
        /\ asked' = Append(asked, q)
        /\ UNCHANGED <<call, speech, mute, unspoken, audio, current, pending, replies>>
    BY <1>9 DEF SendQuestion, Running
  <2>2. asked' \in Seq(Question)
    BY <2>1, Typed, AppendProperties
  <2>3. query[q].answer = NoQuestion <=> pending = q
    BY <2>1, RunsNow DEF InSend
  <2>4. /\ mode = "split" => ~unspoken
        /\ mode = "e2e" => audio = <<>>
        /\ Clean /\ Mouth \in links => audio = <<>>
        /\ unspoken => mute
    BY <2>1, RunsNow
  <2>. QED
    BY <2>1, <2>2, <2>3, <2>4, Steps, Typed
<1>10. CASE AwaitAnswer(q)
  <2>1. /\ Running(q) /\ query[q].pc = "sent"
        /\ UNCHANGED <<call, speech, mute, unspoken, audio, current, pending, session>>
    BY <1>10 DEF AwaitAnswer, Running
  <2>2. query[q].answer = NoQuestion => pending = q
    BY <2>1, RunsNow DEF InSend
  <2>3. /\ mode = "split" => ~unspoken
        /\ mode = "e2e" => audio = <<>>
        /\ Clean /\ Mouth \in links => audio = <<>>
        /\ unspoken => mute
    BY <2>1, RunsNow
  <2>4. asked' \in Seq(Question) /\ UNCHANGED replies
    BY <2>1, Typed DEF session
  <2>5. CASE query[q].answer = NoQuestion
    <3>1. Step(q, "waiting")
      BY <1>10, <2>5 DEF AwaitAnswer
    <3>. QED
      BY <2>1, <2>2, <2>3, <2>4, <2>5, <3>1, Steps, Typed
  <2>6. CASE query[q].answer # NoQuestion
    <3>1. Step(q, "answered")
      BY <1>10, <2>6 DEF AwaitAnswer
    <3>2. pending # q
      BY <2>1, <2>6, RunsNow DEF InSend
    <3>. QED
      BY <2>1, <2>3, <2>4, <3>1, <3>2, Steps, Typed
  <2>. QED
    BY <2>5, <2>6
<1>11. CASE AskFails(q)
  <2>1. /\ Running(q) /\ InSend(q) /\ query' = [query EXCEPT ![q] = Stopped(q)] /\ mute' = FALSE
        /\ UNCHANGED <<call, speech, unspoken, audio, current, pending, session>>
    BY <1>11 DEF AskFails, InSend, Running
  <2> DEFINE next == Stopped(q)
  <2>2. /\ next \in QueryType
        /\ next.pc = IF pending = q THEN "left" ELSE "dropped"
    BY <2>1 DEF Stopped, InSend, Dropped, At, QueryType
  <2>3. query' = [query EXCEPT ![q] = next]
    BY <2>1
  <2> HIDE DEF next
  <2>4. /\ mode = "split" => ~unspoken
        /\ mode = "e2e" => audio = <<>>
        /\ Clean /\ Mouth \in links => audio = <<>>
    BY <2>1, RunsNow DEF InSend
  <2>5. asked' \in Seq(Question) /\ replies' \in Seq(Question)
    BY <2>1, Typed DEF session
  <2>. QED
    BY <2>1, <2>2, <2>3, <2>4, <2>5, Moves, Typed
<1>4. CASE Inject(q)
  <2>1. Running(q) /\ query[q].pc = "answered" /\ mode = "e2e"
    BY <1>4 DEF Inject, Running
  <2>2. CASE userQuerying
    <3>1. Drop(q) /\ UNCHANGED pending
      BY <1>4, <2>2 DEF Inject
    <3>. QED
      BY <2>1, <3>1, Drops, Typed DEF Drop, session
  <2>3. CASE ~userQuerying
    <3>1. /\ Step(q, "injected") /\ unspoken' = TRUE
          /\ UNCHANGED <<call, speech, mute, audio, current, pending, session>>
      BY <1>4, <2>3 DEF Inject
    <3>2. audio = <<>> /\ pending # q
      BY <2>1, RunsNow DEF InSend
    <3>. QED
      BY <2>1, <3>1, <3>2, Steps, Typed DEF session
  <2>. QED
    BY <2>2, <2>3
<1>5. CASE Say(q)
  <2>1. /\ Running(q) /\ query[q].pc = "answered" /\ mode = "split" /\ Mouth \in links
        /\ Step(q, "saying") /\ audio' = audio \o Spoken(q)
        /\ UNCHANGED <<call, speech, mute, unspoken, current, pending, session>>
    BY <1>5 DEF Say, Running
  <2>2. Clean => audio = <<>>
    BY <2>1, RunsNow
  <2>3. audio' \in Seq(Chunk) /\ (Clean => audio' = Spoken(q))
    BY <2>1, <2>2, Typed, SpokenFacts, ConcatProperties
  <2>4. ~unspoken /\ pending # q
    BY <2>1, RunsNow DEF InSend
  <2>. QED
    BY <2>1, <2>3, <2>4, Steps, Typed DEF session
<1>6. CASE SendFails(q)
  <2>1. /\ Running(q) /\ query[q].pc \notin {"waiting", "sending", "sent"} /\ Mouth \notin links
        /\ Drop(q) /\ UNCHANGED pending
    BY <1>6 DEF SendFails, Running
  <2>. QED
    BY <2>1, Drops, Typed DEF Drop, session
<1>7. CASE Timeout(q)
  <2>1. Running(q) /\ query[q].pc = "waiting" /\ Drop(q) /\ pending' = NoQuestion
    BY <1>7 DEF Timeout, Running
  <2>2. /\ query' = [query EXCEPT ![q] = Dropped] /\ mute' = FALSE
        /\ UNCHANGED <<call, speech, unspoken, audio, current, replies>>
        /\ asked' \in Seq(Question) /\ pending' \in Question \cup {NoQuestion}
    BY <2>1, Typed DEF Drop, session
  <2>3. query[q].pc # "saying" /\ pending' = NoQuestion
    BY <2>1
  <2>. QED
    BY <2>1, <2>2, <2>3, Drops
<1>8. CASE Hear(q)
  <2>1. /\ Running(q) /\ query[q].pc = "saying" /\ audio # <<>> /\ audio' = Tail(audio)
        /\ UNCHANGED <<call, speech, mute, unspoken, current, pending, session>>
    BY <1>8 DEF Hear, Running
  <2>2. mode = "split" /\ ~unspoken /\ audio' \in Seq(Chunk)
    BY <2>1, RunsNow, Typed, HeadTailProperties
  <2>3. Clean => /\ audio \in {Spoken(q), Ending(q)}
                 /\ Head(audio).end => audio' = <<>>
                 /\ ~Head(audio).end => audio' = Ending(q)
    <3>1. Clean => audio \in {Spoken(q), Ending(q)}
      BY <2>1, RunsNow
    <3>2. /\ Head(Spoken(q)).end = FALSE /\ Tail(Spoken(q)) = Ending(q)
          /\ Head(Ending(q)).end = TRUE /\ Tail(Ending(q)) = <<>>
      BY SpokenFacts
    <3>3. CASE audio = Spoken(q)
      BY <2>1, <3>2, <3>3
    <3>4. CASE audio = Ending(q)
      BY <2>1, <3>2, <3>4
    <3>. QED
      BY <3>1, <3>3, <3>4
  <2>4. CASE Head(audio).end
    <3>1. Step(q, "said")
      BY <1>8, <2>4 DEF Hear
    <3>2. pending # q
      BY <2>1, RunsNow DEF InSend
    <3>. QED
      BY <2>1, <2>2, <2>3, <2>4, <3>1, <3>2, Steps, Typed DEF session
  <2>5. CASE ~Head(audio).end
    <3>1. query' = [query EXCEPT ![q] = query[q]]
      BY <1>8, <2>5, Typed DEF Hear
    <3>2. query[q] \in QueryType
      BY <2>1, RunsNow
    <3> DEFINE next == query[q]
    <3>3. next \in QueryType /\ next.pc = "saying" /\ query' = [query EXCEPT ![q] = next]
      BY <2>1, <3>1, <3>2
    <3> HIDE DEF next
    <3>4. /\ asked' \in Seq(Question) /\ replies' \in Seq(Question) /\ mute' \in BOOLEAN
          /\ unspoken' = FALSE /\ pending' \in Question \cup {NoQuestion}
      BY <2>1, <2>2, Typed DEF session
    <3>5. pending' = pending /\ pending # q
      BY <2>1, RunsNow DEF InSend
    <3>. QED
      BY <2>1, <2>2, <2>3, <2>5, <3>3, <3>4, <3>5, Moves
  <2>. QED
    BY <2>4, <2>5
<1>. QED
  BY <1>1, <1>2, <1>3, <1>4, <1>5, <1>6, <1>7, <1>8, <1>9, <1>10, <1>11 DEF RunQuery

-----------------------------------------------------------------------------
(* The session that answers.                                               *)

LEMMA SessionInv ==
  ASSUME VoiceInv, Reply \/ NextQuestion \/ ReadReply
  PROVE  VoiceInv'
<1>1. ASSUME UNCHANGED <<call, speech, mute, unspoken, audio, query, current, pending>>,
             asked' \in Seq(Question), replies' \in Seq(Question)
      PROVE  VoiceInv'
  <2> USE <1>1 DEF call, speech, setup, VoiceInv
  <2>1. TypeOK'
    BY DEF TypeOK, Parties
  <2>2. Turns'
    BY DEF Turns, OneRuns, ModeOK, PendingIsWaited, AnsweredIsTaken, InSend, MutedUntilComfort, Running
  <2>3. AudioOK'
    BY DEF AudioOK, Clean, Mouth
  <2>. QED
    BY <2>1, <2>2, <2>3
<1>2. CASE Reply
  <2>1. Head(asked) \in Question /\ replies' = Append(replies, Head(asked))
    BY <1>2, Typed, HeadTailProperties DEF Reply
  <2>2. replies' \in Seq(Question)
    BY <2>1, Typed, AppendProperties
  <2>. QED
    BY <1>1, <1>2, <2>2, Typed DEF Reply
<1>3. CASE NextQuestion
  <2>1. asked' \in Seq(Question)
    BY <1>3, Typed, HeadTailProperties DEF NextQuestion
  <2>. QED
    BY <1>1, <1>3, <2>1, Typed DEF NextQuestion
<1>4. CASE ReadReply
  <2>1. /\ replies' \in Seq(Question) /\ Head(replies) \in Question
        /\ "session" \in links /\ pending' = NoQuestion
        /\ UNCHANGED <<call, speech, mute, unspoken, audio, current, asked>>
    BY <1>4, Typed, HeadTailProperties DEF ReadReply
  <2>2. CASE pending = NoQuestion
    BY <1>1, <1>4, <2>1, <2>2, Typed DEF ReadReply
  <2>3. CASE pending # NoQuestion /\ ~Running(pending)
    <3>1. query' = query /\ query[pending].pc = "left" /\ pending \in Question
      BY <1>4, <2>3, Typed DEF ReadReply, VoiceInv, Turns, PendingIsWaited, InSend, Running
    <3> USE <2>1, <3>1 DEF call, speech, setup, VoiceInv
    <3>2. TypeOK'
      BY DEF TypeOK, Parties
    <3>3. Turns'
      BY DEF Turns, OneRuns, ModeOK, PendingIsWaited, AnsweredIsTaken, InSend, MutedUntilComfort,
             Running
    <3>4. AudioOK'
      BY DEF AudioOK, Clean, Mouth
    <3>. QED
      BY <3>2, <3>3, <3>4
  <2>4. CASE pending # NoQuestion /\ Running(pending)
    <3> DEFINE next == At(IF InSend(pending) THEN query[pending].pc ELSE "answered",
                          Head(replies))
    <3>1. pending \in Question /\ (query[pending].pc = "waiting" \/ InSend(pending))
      BY <2>4, Typed DEF VoiceInv, Turns, PendingIsWaited, Running
    <3>2. /\ next \in QueryType /\ next.pc \in {"sending", "sent", "answered"}
          /\ next.answer # NoQuestion
      BY <2>1 DEF At, QueryType, InSend
    <3>3. query' = [query EXCEPT ![pending] = next]
      BY <1>4, <2>4 DEF ReadReply
    <3> HIDE DEF next
    <3>4. /\ mode = "split" => ~unspoken'
          /\ mode = "e2e" => audio' = <<>>
          /\ Clean /\ Mouth \in links => audio' = <<>>
          /\ unspoken' => mute'
      BY <2>1, <2>4, <3>1, RunsNow DEF InSend
    <3>5. /\ audio' \in Seq(Chunk) /\ mute' \in BOOLEAN /\ unspoken' \in BOOLEAN
          /\ asked' \in Seq(Question)
      BY <2>1, Typed
    <3>. QED
      BY <2>1, <2>4, <3>1, <3>2, <3>3, <3>4, <3>5, Moves
  <2>. QED
    BY <2>2, <2>3, <2>4
<1>. QED
  BY <1>2, <1>3, <1>4

-----------------------------------------------------------------------------
(* The setup of the call and its end.                                      *)

\* Before the setup is over no query runs, nor has any been cut short.
LEMMA BeforeTalk ==
  ASSUME VoiceInv, phase \notin Conversing \cup {"over"}
  PROVE  \A q \in Question : query[q].pc = "unasked"
BY DEF VoiceInv, Turns, OneRuns, TypeOK

\* The call goes on to the next phase: only what plays the greeting can tell.
LEMMA PhaseMoves ==
  ASSUME VoiceInv, phase \notin Conversing \cup {"over"},
         UNCHANGED <<mode, links, speech, mute, unspoken, query, current, pending, session>>,
         waiter' \in BOOLEAN, answer' \in {"none", "started", "failed", "missed"},
         phase' \in {"registering", "connecting", "starting", "greeting", "talking"},
         audio' \in Seq(Chunk), mode = "e2e" => audio' = audio,
         phase' \notin {"greeting"} => audio' = <<>>,
         mode = "split" /\ phase' = "greeting" =>
           audio' \in {Spoken(NoQuestion), Ending(NoQuestion)} /\ answer' = "none"
  PROVE  VoiceInv'
<1> USE DEF speech, session
<1>1. \A q \in Question : query'[q].pc = "unasked"
  BY BeforeTalk
<1>2. TypeOK'
  BY DEF VoiceInv, TypeOK, Parties
<1>3. Turns'
  BY <1>1 DEF VoiceInv, Turns, OneRuns, ModeOK, PendingIsWaited, AnsweredIsTaken, InSend, MutedUntilComfort, Running, Conversing
<1>4. AudioOK'
  BY <1>1 DEF AudioOK, Conversing
<1>. QED
  BY <1>2, <1>3, <1>4 DEF VoiceInv

LEMMA SetupInv ==
  ASSUME VoiceInv, SetUp \/ ServiceAnswers
  PROVE  VoiceInv'
<1> USE DEF Conversing, Requesting
<1>0. /\ waiter \in BOOLEAN /\ answer \in {"none", "started", "failed", "missed"}
      /\ mode \in {"e2e", "split"}
      /\ phase \in {"registering", "connecting", "starting"} => audio = <<>>
      /\ mode = "e2e" => audio = <<>>
      /\ mode = "split" /\ phase = "greeting" =>
           audio \in {Spoken(NoQuestion), Ending(NoQuestion)} /\ answer = "none"
  BY DEF VoiceInv, TypeOK, AudioOK, Turns, ModeOK
<1>1. CASE Registered
  BY <1>0, <1>1, PhaseMoves, Typed DEF Registered, Enter
<1>2. CASE ServiceAnswers
  <2>1. answer' \in {"started", "failed"}
    BY <1>2 DEF ServiceAnswers
  <2>. QED
    BY <1>0, <1>2, <2>1, PhaseMoves, Typed DEF ServiceAnswers
<1>3. CASE StartWaiting
  BY <1>0, <1>3, PhaseMoves, Typed DEF StartWaiting
<1>4. CASE MissAnswer
  BY <1>0, <1>4, PhaseMoves, Typed DEF MissAnswer
<1>5. CASE ReadAnswer
  <2>1. /\ phase \in {"connecting", "starting", "greeting"} /\ Enter(AfterStart)
        /\ UNCHANGED <<mode, links, speech, mute, unspoken, query, current, pending, session>>
    BY <1>5 DEF ReadAnswer
  <2>2. AfterStart \in {"starting", "greeting", "talking"} /\ (AfterStart = "talking" <=> phase = "greeting")
    BY <2>1 DEF AfterStart
  <2>3. mode = "e2e" \/ phase # "greeting"
    BY <1>0, <1>5 DEF ReadAnswer
  <2>. QED
    BY <1>0, <2>1, <2>2, <2>3, PhaseMoves, SpokenFacts, Typed DEF Enter
<1>6. CASE HearGreeting
  <2>1. mode = "split" /\ audio \in {Spoken(NoQuestion), Ending(NoQuestion)}
    BY <1>0, <1>6 DEF HearGreeting
  <2>2. CASE Head(audio).end
    <3>1. audio' = <<>> /\ phase' = "talking"
      BY <1>6, <2>1, <2>2, SpokenFacts DEF HearGreeting
    <3>. QED
      BY <1>0, <1>6, <2>1, <3>1, PhaseMoves, Typed DEF HearGreeting, setup
  <2>3. CASE ~Head(audio).end
    <3>1. audio' = Ending(NoQuestion) /\ phase' = "greeting" /\ audio' \in Seq(Chunk)
      BY <1>6, <2>1, <2>3, SpokenFacts DEF HearGreeting
    <3>. QED
      BY <1>0, <1>6, <2>1, <3>1, PhaseMoves, Typed DEF HearGreeting, setup
  <2>. QED
    BY <2>2, <2>3
<1>. QED
  BY <1>1, <1>2, <1>3, <1>4, <1>5, <1>6 DEF SetUp

\* The call ends: by the browser, a failure, or a setup that took too long.
LEMMA EndInv ==
  ASSUME VoiceInv, Stop \/ Finish \/ Cleanup
  PROVE  VoiceInv'
<1> USE DEF Conversing
<1>0. mute' \in BOOLEAN
  BY Typed DEF Stop, Finish, Cleanup, Unmute
<1>1. CASE Stop
  <2> USE <1>1 DEF Stop, speech, session, setup, VoiceInv
  <2>1. TypeOK'
    BY DEF TypeOK, Parties
  <2>2. Turns'
    BY DEF Turns, OneRuns, ModeOK, PendingIsWaited, AnsweredIsTaken, InSend, MutedUntilComfort, Running
  <2>3. AudioOK'
    BY DEF AudioOK, Clean, Mouth
  <2>. QED
    BY <2>1, <2>2, <2>3
<1>2. CASE Finish \/ Cleanup
  <2>1. /\ CancelQuery
        /\ phase # "over" /\ UNCHANGED <<mode, setup, speech, unspoken, audio, current, session>>
        /\ \/ phase' = "finishing" /\ phase = "ending" /\ links' = links
           \/ phase' = "over" /\ links' = {}
    BY <1>2 DEF Finish, Cleanup
  <2>2. /\ query' \in [Question -> QueryType]
        /\ \A q \in Question :
             \/ query'[q] = query[q] /\ ~Running(q)
             \/ /\ query'[q].pc \in {"dropped", "left"} /\ query[q].pc # "saying"
                /\ Running(q)
             \/ query'[q].pc = "cut" /\ query[q].pc = "saying"
        /\ pending' \in {pending, NoQuestion}
        /\ pending' # NoQuestion => query'[pending'].pc = "left"
    BY <2>1, Cancels
  <2>3. TypeOK'
    BY <1>0, <2>1, <2>2 DEF VoiceInv, TypeOK, Parties, speech, session, setup
  <2>4. \A q \in Question : query'[q].pc # "saying" /\ ~Running(q)'
    BY <2>2 DEF Running
  <2>5. OneRuns'
    BY <2>1, <2>2, <2>4 DEF VoiceInv, Turns, OneRuns, Running
  <2>6. (ModeOK /\ PendingIsWaited /\ AnsweredIsTaken /\ MutedUntilComfort)'
    BY <2>1, <2>2, <2>4 DEF VoiceInv, Turns, ModeOK, PendingIsWaited, AnsweredIsTaken, InSend,
       MutedUntilComfort, Running, speech
  <2>7. AudioOK'
    BY <2>1, <2>2, <2>4 DEF VoiceInv, AudioOK, Clean, Mouth, Running
  <2>. QED
    BY <2>3, <2>5, <2>6, <2>7 DEF VoiceInv, Turns
<1>. QED
  BY <1>1, <1>2

\* A connection that is lost does not come back.
LEMMA LoseInv ==
  ASSUME VoiceInv, NEW l, LoseLink(l)
  PROVE  VoiceInv'
<1> USE DEF LoseLink, speech, session, setup, VoiceInv
<1>1. TypeOK'
  BY DEF TypeOK, Parties
<1>2. Turns'
  BY DEF Turns, OneRuns, ModeOK, PendingIsWaited, AnsweredIsTaken, InSend, MutedUntilComfort, Running
<1>3. AudioOK'
  BY DEF AudioOK, Clean, Mouth
<1>. QED
  BY <1>1, <1>2, <1>3

-----------------------------------------------------------------------------
(* The theorems.                                                           *)

LEMMA NextInv == VoiceInv /\ [Next]_vars => VoiceInv'
<1> SUFFICES ASSUME VoiceInv, [Next]_vars PROVE VoiceInv'
  OBVIOUS
<1>1. CASE GiveUp
  BY <1>1, EndInv DEF GiveUp
<1>2. CASE UNCHANGED vars
  <2> USE <1>2 DEF vars, call, speech, session, setup, VoiceInv
  <2>1. TypeOK'
    BY DEF TypeOK, Parties
  <2>2. Turns' /\ AudioOK'
    BY DEF Turns, OneRuns, ModeOK, PendingIsWaited, AnsweredIsTaken, InSend, MutedUntilComfort, Running, AudioOK, Clean, Mouth
  <2>. QED
    BY <2>1, <2>2
<1>. QED
  BY <1>1, <1>2, HeardInv, QueryInv, SessionInv, SetupInv, EndInv, LoseInv DEF Next

\* VoiceInv holds for ever.
THEOREM VoiceInvariant == Spec => []VoiceInv
BY InitInv, NextInv, PTL DEF Spec

\* The variables of a call keep their shape, in either mode.
THEOREM VoiceTypes == Spec => []TypeOK
<1>1. VoiceInv => TypeOK
  BY DEF VoiceInv
<1>. QED
  BY <1>1, VoiceInvariant, PTL

\* A query that waits has the future the next reply goes to, and a future that
\* nobody waits for is that of a query stopped in its send.
THEOREM ReplyHasQuestion == Spec => []PendingIsWaited
<1>1. VoiceInv => PendingIsWaited
  BY DEF VoiceInv, Turns
<1>. QED
  BY <1>1, VoiceInvariant, PTL

\* The service's own answer is muted until our text is spoken.
THEOREM Muted == Spec => []MutedUntilComfort
<1>1. VoiceInv => MutedUntilComfort
  BY DEF VoiceInv, Turns
<1>. QED
  BY <1>1, VoiceInvariant, PTL

\* No query outlives its call.
THEOREM Quiet == Spec => []OverIsQuiet
<1>1. VoiceInv => OverIsQuiet
  BY DEF VoiceInv, Turns, OneRuns, OverIsQuiet, Conversing
<1>. QED
  BY <1>1, VoiceInvariant, PTL

\* An answer is played with audio of another text only after one was cut short.
THEOREM Displaced == Spec => []OnlyCutsDisplace
<1>1. VoiceInv => OnlyCutsDisplace
  <2> SUFFICES ASSUME VoiceInv, NEW q \in Question, query[q].pc = "saying",
                      audio # <<>>, Head(audio).about # q
               PROVE  \E p \in 1..(q - 1) : query[p].pc = "cut"
    BY DEF OnlyCutsDisplace
  <2>1. audio \notin {Spoken(q), Ending(q)}
    BY SpokenFacts
  <2>2. PICK p \in Question : query[p].pc = "cut"
    BY <2>1 DEF VoiceInv, AudioOK, Clean
  <2>3. q = current
    BY DEF VoiceInv, Turns, OneRuns, Running
  <2>4. p <= q /\ p # q
    BY <2>2, <2>3 DEF VoiceInv, Turns, OneRuns
  <2>. QED
    BY <2>2, <2>4
<1>. QED
  BY <1>1, VoiceInvariant, PTL

\* Nothing is sent to be spoken while the user speaks, nor for any but the last
\* utterance.
THEOREM InTurn == Spec => SpeaksInTurn
<1>1. VoiceInv /\ [Next]_vars =>
        \A q \in Question :
          query'[q].pc # query[q].pc /\ query'[q].pc \in {"opening", "injected", "saying"}
            => ~speaking /\ q = current
  <2> SUFFICES ASSUME VoiceInv, [Next]_vars, NEW q \in Question,
                      query'[q].pc # query[q].pc,
                      query'[q].pc \in {"opening", "injected", "saying"}
               PROVE  ~speaking /\ q = current
    OBVIOUS
  <2>1. query \in [Question -> QueryType]
    BY Typed
  <2>2. CASE query' = query
    BY <2>2
  <2>3. CASE AsrInfo \/ AsrEnded \/ Completed \/ Finish \/ Cleanup \/ GiveUp \/ ReadReply
    <3>1. query'[q].pc \in {"new", "asking", "dropped", "left", "cut", "answered", query[q].pc}
      BY <2>1, <2>3 DEF AsrInfo, AsrEnded, Completed, Finish, Cleanup, GiveUp, ReadReply,
                        CancelQuery, Cancelled, Stopped, Dropped, At
    <3>. QED
      BY <3>1
  <2>4. ASSUME NEW p \in Question, RunQuery(p) \/ Hear(p) PROVE Running(q)
    <3>1. CASE p = q
      BY <2>4, <3>1 DEF RunQuery, Comfort, ComfortEnd, Ask, SendQuestion, AwaitAnswer, AskFails,
                        Inject, Say, SendFails, Timeout, Hear, InSend, Running
    <3>2. CASE p # q
      <4>1. query'[q] \in {query[q], Dropped}
        <5>1. CASE Ask(p)
          BY <2>1, <3>2, <5>1 DEF Ask, Drop, Supersede
        <5>2. CASE Comfort(p) \/ ComfortEnd(p) \/ SendQuestion(p) \/ AwaitAnswer(p)
                    \/ Inject(p) \/ Say(p) \/ Hear(p)
          BY <2>1, <3>2, <5>2 DEF Comfort, ComfortEnd, SendQuestion, AwaitAnswer, Inject, Say,
                                  Hear, Step, Drop
        <5>3. CASE SendFails(p) \/ AskFails(p) \/ Timeout(p)
          BY <2>1, <3>2, <5>3 DEF SendFails, AskFails, Timeout, Drop
        <5>. QED
          BY <2>4, <5>1, <5>2, <5>3 DEF RunQuery
      <4>. QED
        BY <4>1 DEF Dropped, At
    <3>. QED
      BY <3>1, <3>2
  <2>5. Running(q) => ~speaking /\ q = current
    BY RunsNow
  <2>. QED
    BY <2>2, <2>3, <2>4, <2>5 DEF Next, SetUp, Registered, StartWaiting, MissAnswer, ReadAnswer,
       HearGreeting, ServiceAnswers, AsrFinal, TtsSentenceStart, Reply, NextQuestion, Stop,
       LoseLink, vars
<1>. QED
  BY <1>1, VoiceInvariant, PTL DEF Spec, SpeaksInTurn
=============================================================================
