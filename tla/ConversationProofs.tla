------------------------- MODULE ConversationProofs -------------------------
(***************************************************************************)
(* What Conversation guarantees for every queue size and every hold: the   *)
(* types, one face at a time, no sound cut off, every press served, every  *)
(* queued reply heard, and the face given back at the end.                 *)
(***************************************************************************)
EXTENDS Conversation, Descent, FiniteSetTheorems, SequenceTheorems, TLAPS

Playback == speech \in Seq(Sounds) /\ Len(speech) <= SpeechSize
            /\ playing \in Sounds \cup {Silence} /\ preempt \in BOOLEAN

(* The constants are what the arithmetic needs. *)
LEMMA Sizes ==
    QueueSize \in Nat \ {0} /\ SpeechSize \in Nat \ {0} /\ MaxHold \in Nat \ {0}
  BY SizesAssumption

(* A queue that something is offered to keeps its elements' type and its size. *)
LEMMA OfferedType ==
    ASSUME NEW S, NEW q \in Seq(S), NEW size \in Nat, NEW x \in S,
           Len(q) <= size
    PROVE  Offered(q, size, x) \in Seq(S) /\ Len(Offered(q, size, x)) <= size
  BY DEF Offered

LEMMA EnqueuedType ==
    ASSUME TypeOK, NEW c \in Commands
    PROVE  Enqueued(c) \in Seq(Commands) /\ Len(Enqueued(c)) <= QueueSize
  BY OfferedType, Sizes DEF Enqueued, TypeOK

LEMMA SentType ==
    ASSUME Playback, NEW x \in Sounds, Sent(x)
    PROVE  speech' \in Seq(Sounds) /\ Len(speech') <= SpeechSize
  BY OfferedType, Sizes DEF Sent, Playback

(* However many utterances a frame dispatches, the queue takes what fits. *)
LEMMA DispatchedType ==
    ASSUME Playback, NEW n \in Nat, Dispatched(n)
    PROVE  speech' \in Seq(Sounds) /\ Len(speech') <= SpeechSize
           /\ preempt' \in BOOLEAN
  <1> DEFINE room == SpeechSize - Len(speech)
             sent == IF n < room THEN n ELSE room
             new  == [i \in 1 .. sent |-> "other"]
  <1>1. room \in Nat /\ sent \in Nat /\ sent <= room
    BY Sizes DEF Playback
  <1>2. new \in Seq(Sounds) /\ Len(new) = sent
    BY <1>1 DEF Sounds
  <1>3. speech' = speech \o new
    BY DEF Dispatched
  <1> HIDE DEF new, sent
  <1>4. speech' \in Seq(Sounds) /\ Len(speech') = Len(speech) + sent
    BY <1>2, <1>3, ConcatProperties DEF Playback
  <1>5. Len(speech') <= SpeechSize
    BY <1>1, <1>4, Sizes DEF Playback
  <1>6. preempt' \in BOOLEAN
    BY DEF Dispatched
  <1> QED BY <1>4, <1>5, <1>6

(* What the feeder promotes is a queued sound or silence; the rest stays queued. *)
LEMMA RefillType ==
    ASSUME Playback, NEW n \in 0 .. 3, Refill(n)
    PROVE  Playback'
  <1>1. n <= Len(speech) /\ n \in Nat /\ Len(speech) \in Nat
    BY DEF Refill, Passable, Playback
  <1>2. playing' \in Sounds \cup {Silence}
    BY <1>1 DEF Refill, Promoted, Playback
  <1>3. speech' \in Seq(Sounds) /\ Len(speech') <= SpeechSize
    <2>1. CASE n = Len(speech)
      BY <2>1, Sizes DEF Refill
    <2>2. CASE n # Len(speech)
      <3>1. speech' = SubSeq(speech, n + 2, Len(speech))
        BY <2>2 DEF Refill
      <3>2. speech' \in Seq(Sounds)
        BY <1>1, <2>2, <3>1 DEF Playback
      <3>3. Len(speech') = Len(speech) - n - 1
        BY <1>1, <2>2, <3>1 DEF Playback
      <3> QED BY <1>1, <3>2, <3>3, Sizes DEF Playback
    <2> QED BY <2>1, <2>2
  <1> QED BY <1>2, <1>3 DEF Refill, Playback

(* A frame speaks a number of times, and its holds stay in range. *)
LEMMA SpeakingType ==
    ASSUME TypeOK
    PROVE  Speaking \in Nat
  <1> DEFINE spoken == {i \in 1 .. Len(queue) : queue[i] = "Speak"}
  <1>1. IsFiniteSet(1 .. Len(queue))
    BY FS_Interval DEF TypeOK
  <1>2. IsFiniteSet(spoken)
    BY <1>1, FS_Subset
  <1> QED BY <1>2, FS_CardinalityType DEF Speaking

LEMMA HoldType ==
    ASSUME NEW left \in Never .. MaxHold
    PROVE  Held(left) \in Never .. MaxHold /\ Held(Aged(left)) \in Never .. MaxHold
  BY Sizes DEF Held, Aged, Never

LEMMA FrameType ==
    ASSUME TypeOK, NEW hold \in {0, MaxHold}, NEW others \in 0 .. 1,
           Frame(hold, others)
    PROVE  TypeOK'
  <1>1. Playback
    BY DEF TypeOK, Playback
  <1>2. Speaking + others \in Nat
    BY SpeakingType
  <1>3. Dispatched(Speaking + others)
    BY DEF Frame
  <1>4. speech' \in Seq(Sounds) /\ Len(speech') <= SpeechSize /\ preempt' \in BOOLEAN
    BY <1>1, <1>2, <1>3, DispatchedType
  <1>5. hold \in Never .. MaxHold /\ listen \in Never .. MaxHold
        /\ thinking \in Never .. MaxHold /\ Never \in Never .. MaxHold
    BY Sizes DEF TypeOK, Never
  <1>6. listen' \in Never .. MaxHold /\ thinking' \in Never .. MaxHold
    BY <1>5, HoldType DEF Frame
  <1>7. queue' \in Seq(Commands) /\ Len(queue') <= QueueSize
    BY Sizes DEF Frame
  <1>8. ptt' \in BOOLEAN
    BY DEF Frame, TypeOK
  <1>9. UNCHANGED <<agent, synth, voice, playing>>
    BY DEF Frame
  <1> QED BY <1>4, <1>6, <1>7, <1>8, <1>9 DEF TypeOK

LEMMA TypeStep ==
    ASSUME TypeOK, [Next]_vars
    PROVE  TypeOK'
  <1> USE Sizes
  <1>1. Playback
    BY DEF TypeOK, Playback
  <1>2. ASSUME NEW c \in Commands, Post(c) PROVE TypeOK'
    BY <1>2, EnqueuedType DEF Post, sound, TypeOK
  <1>3. ASSUME NEW n \in 0 .. 3, Refill(n) PROVE TypeOK'
    <2>1. Playback'
      BY <1>1, <1>3, RefillType
    <2> QED BY <1>3, <2>1 DEF Refill, Playback, TypeOK
  <1>4. CASE Render
    BY <1>4, FrameType DEF Render
  <1>5. CASE Arm \/ Press \/ VoiceArms
    BY <1>5 DEF Arm, Press, VoiceArms, sound, TypeOK, Agents, Voices
  <1>6. CASE Captured \/ Failed
    <2>1. "EnterThinking" \in Commands /\ "ThinkingOver" \in Commands
      BY DEF Commands
    <2> QED BY <1>6, <2>1, EnqueuedType DEF Captured, Failed, sound, TypeOK, Agents
  <1>7. ASSUME NEW audio \in BOOLEAN, Replied(audio) PROVE TypeOK'
    <2>1. "ThinkingOver" \in Commands
      BY DEF Commands
    <2>2. queue' \in Seq(Commands) /\ Len(queue') <= QueueSize
      BY <1>7, <2>1, EnqueuedType DEF Replied
    <2>3. agent' \in Agents /\ synth' \in BOOLEAN
      BY <1>7 DEF Replied, Agents, TypeOK
    <2> QED BY <1>7, <2>2, <2>3 DEF Replied, sound, TypeOK
  <1>8. ASSUME NEW ok \in BOOLEAN, Fetched(ok) PROVE TypeOK'
    <2>1. speech' \in Seq(Sounds) /\ Len(speech') <= SpeechSize
      BY <1>1, <1>8, SentType DEF Fetched, Sounds, Playback
    <2> QED BY <1>8, <2>1 DEF Fetched, Agents, TypeOK
  <1>9. ASSUME NEW up \in BOOLEAN, Synthesise(up) PROVE TypeOK'
    BY <1>9 DEF Synthesise, Voices, sound, TypeOK
  <1>10. ASSUME NEW ok \in BOOLEAN, Synthesised(ok) PROVE TypeOK'
    <2>1. speech' \in Seq(Sounds) /\ Len(speech') <= SpeechSize
      BY <1>1, <1>10, SentType DEF Synthesised, Sounds, Playback
    <2> QED BY <1>10, <2>1 DEF Synthesised, Voices, TypeOK
  <1>11. CASE UNCHANGED vars
    BY <1>11 DEF vars, sound, TypeOK
  <1> QED
    BY <1>2, <1>3, <1>4, <1>5, <1>6, <1>7, <1>8, <1>9, <1>10, <1>11
    DEF Next, DeviceNext, AgentNext, VoiceNext, Play

(***************************************************************************)
(* Every variable stays in its range: in particular the two queues never   *)
(* grow beyond their capacity, whatever the tasks send and the frame adds. *)
(***************************************************************************)
THEOREM TypeCorrect == Spec => []TypeOK
  <1>1. Init => TypeOK
    <2>1. Never \in Never .. MaxHold /\ 0 <= QueueSize /\ 0 <= SpeechSize
      BY Sizes DEF Never
    <2>2. <<>> \in Seq(Commands) /\ <<>> \in Seq(Sounds) /\ Len(<<>>) = 0
      BY EmptySeq
    <2>3. ASSUME Init PROVE queue \in Seq(Commands) /\ Len(queue) <= QueueSize
                            /\ speech \in Seq(Sounds) /\ Len(speech) <= SpeechSize
      BY <2>1, <2>2, <2>3 DEF Init
    <2>4. ASSUME Init PROVE /\ ptt \in BOOLEAN /\ synth \in BOOLEAN /\ preempt \in BOOLEAN
                            /\ agent \in Agents /\ voice \in Voices
                            /\ playing \in Sounds \cup {Silence}
      BY <2>4 DEF Init, Agents, Voices
    <2>5. ASSUME Init PROVE listen \in Never .. MaxHold /\ thinking \in Never .. MaxHold
      BY <2>1, <2>5 DEF Init
    <2> QED BY <2>3, <2>4, <2>5 DEF TypeOK
  <1>2. TypeOK /\ [Next]_vars => TypeOK'
    BY TypeStep
  <1> QED BY <1>1, <1>2, PTL DEF Spec

-----------------------------------------------------------------------------
(***************************************************************************)
(* The face never listens and thinks at once (RemoteCommandModifier::apply *)
(* drops one hold for the other).  Only a frame touches the two holds, and *)
(* its slot is one command: no type is needed.                             *)
(***************************************************************************)
THEOREM OneFaceAlways == Spec => []OneFace
  <1>1. Init => OneFace
    BY DEF Init, OneFace
  <1>2. ASSUME OneFace, [Next]_vars PROVE OneFace'
    <2>1. ASSUME NEW hold, NEW others, Frame(hold, others) PROVE OneFace'
      <3>1. Held(Aged(Never)) = Never
        BY DEF Held, Aged, Never
      <3>2. CASE Slot = "StartListen"
        BY <2>1, <3>2 DEF Frame, OneFace, ThinkingEnds
      <3>3. CASE Slot = "EnterThinking"
        BY <2>1, <3>3 DEF Frame, OneFace, ListenEnds
      <3>4. CASE Slot # "StartListen" /\ Slot # "EnterThinking"
        BY <1>2, <2>1, <3>1, <3>4 DEF Frame, OneFace
      <3> QED BY <3>2, <3>3, <3>4
    <2>2. ASSUME UNCHANGED <<listen, thinking>> PROVE OneFace'
      BY <1>2, <2>2 DEF OneFace
    <2>3. Render \/ UNCHANGED <<listen, thinking>>
      BY <1>2 DEF Next, DeviceNext, AgentNext, VoiceNext, Play, Post, Refill, Arm,
         Press, Captured, Failed, Replied, Fetched, VoiceArms, Synthesise,
         Synthesised, vars
    <2> QED BY <2>1, <2>2, <2>3 DEF Render
  <1> QED BY <1>1, <1>2, PTL DEF Spec

(***************************************************************************)
(* No sound is cut off (TxSampler drops its source on AUDIO_TX_PREEMPT):   *)
(* the flag goes up in silence only, for Normal outranks nothing else, and *)
(* the feeder clears it in the step in which it promotes a source.         *)
(***************************************************************************)
THEOREM NothingCutOffAlways == Spec => []NothingCutOff
  <1>1. Init => NothingCutOff
    BY DEF Init, NothingCutOff
  <1>2. ASSUME NothingCutOff, [Next]_vars PROVE NothingCutOff'
    <2>1. ASSUME NEW hold, NEW others, Frame(hold, others) PROVE NothingCutOff'
      <3>1. playing' = playing
        BY <2>1 DEF Frame
      <3>2. CASE playing = Silence
        BY <3>1, <3>2 DEF NothingCutOff
      <3>3. CASE playing # Silence
        <4>1. ~Outranks(Normal)
          BY <3>3 DEF Outranks, Current, Normal
        <4>2. ~preempt
          BY <1>2, <3>3 DEF NothingCutOff
        <4>3. ~preempt'
          BY <2>1, <4>1, <4>2, Zenon DEF Frame, Dispatched
        <4> QED BY <4>3 DEF NothingCutOff
      <3> QED BY <3>2, <3>3
    <2>2. ASSUME NEW n, Refill(n) PROVE NothingCutOff'
      BY <2>2 DEF Refill, NothingCutOff
    <2>3. ASSUME UNCHANGED <<playing, preempt>> PROVE NothingCutOff'
      BY <1>2, <2>3 DEF NothingCutOff
    <2>4. Render \/ Play \/ UNCHANGED <<playing, preempt>>
      BY <1>2 DEF Next, DeviceNext, AgentNext, VoiceNext, Post, Arm, Press, Captured,
         Failed, Replied, Fetched, VoiceArms, Synthesise, Synthesised, vars, sound
    <2> QED BY <2>1, <2>2, <2>3, <2>4 DEF Render, Play
  <1> QED BY <1>1, <1>2, PTL DEF Spec

-----------------------------------------------------------------------------
(***************************************************************************)
(* A press waits through what is left of an exchange: posting, then        *)
(* perhaps fetching, then waiting, where the task takes it.                *)
(***************************************************************************)
Pressed(a) == ptt /\ agent = a

LEMMA PressStays ==
    ASSUME [Next]_vars, ptt, agent # "boot", agent # "capturing"
    PROVE  \/ ptt' /\ agent' = agent
           \/ ptt' /\ agent = "posting" /\ agent' \in {"fetching", "waiting"}
           \/ ptt' /\ agent = "fetching" /\ agent' = "waiting"
           \/ agent' = "capturing"
  BY DEF Next, DeviceNext, AgentNext, VoiceNext, Render, Play, Post, Frame, Refill, Arm,
     Press, Captured, Failed, Replied, Fetched, VoiceArms, Synthesise, Synthesised, vars

LEMMA PressGoesOn ==
    ASSUME AgentNext, ptt, agent # "capturing"
    PROVE  \/ ptt' /\ agent = "posting" /\ agent' \in {"fetching", "waiting"}
           \/ ptt' /\ agent = "fetching" /\ agent' = "waiting"
           \/ agent = "waiting" /\ agent' = "capturing"
  BY DEF AgentNext, Press, Captured, Failed, Replied, Fetched

(***************************************************************************)
(* A press is served (PTT_TRIGGER is latest-wins and agent_sidecar_task    *)
(* comes back to it from every await), for every size of the queues: the   *)
(* task's fairness suffices, as long as no full queue holds it up.         *)
(***************************************************************************)
THEOREM PressAlwaysServed == FairSpec /\ []NeverHeldUp => PressServed
  <1>1. Pressed("posting") /\ [Next]_vars =>
            Pressed("posting")' \/ Pressed("fetching")' \/ Pressed("waiting")'
            \/ (agent = "capturing")'
    BY PressStays DEF Pressed
  <1>2. Pressed("fetching") /\ [Next]_vars =>
            Pressed("fetching")' \/ Pressed("waiting")' \/ (agent = "capturing")'
    BY PressStays DEF Pressed
  <1>3. Pressed("waiting") /\ [Next]_vars =>
            Pressed("waiting")' \/ (agent = "capturing")'
    BY PressStays DEF Pressed
  <1>4. Pressed("posting") /\ <<AgentNext>>_vars =>
            Pressed("fetching")' \/ Pressed("waiting")'
    BY PressGoesOn DEF Pressed
  <1>5. Pressed("fetching") /\ <<AgentNext>>_vars => Pressed("waiting")'
    BY PressGoesOn DEF Pressed
  <1>6. Pressed("waiting") /\ <<AgentNext>>_vars => (agent = "capturing")'
    BY PressGoesOn DEF Pressed
  <1>7. NeverHeldUp /\ (Pressed("posting") \/ Pressed("fetching") \/ Pressed("waiting"))
            => ENABLED <<AgentNext>>_vars
    BY DEF NeverHeldUp, AgentBusy, Pressed
  <1>8. TypeOK /\ ptt /\ agent # "boot" =>
            \/ Pressed("posting") \/ Pressed("fetching") \/ Pressed("waiting")
            \/ agent = "capturing"
    BY DEF TypeOK, Agents, Pressed
  <1> QED
    BY <1>1, <1>2, <1>3, <1>4, <1>5, <1>6, <1>7, <1>8, TypeCorrect, PTL
       DEF FairSpec, Spec, PressServed

-----------------------------------------------------------------------------
(***************************************************************************)
(* What ReplyHeard rests on, step by step: a reply in the TX queue leaves  *)
(* it only to be played, nothing is ever put before it, and each refill    *)
(* brings it nearer.  next_sample passes over empty sources only, and      *)
(* try_dispatch_utterance evicts nothing.                                  *)
(***************************************************************************)
Nearer(i) ==
    \/ playing' = "reply"
    \/ \E j \in 1 .. i : j <= Len(speech') /\ speech'[j] = "reply" /\ (Play => j < i)
ReplyNearer ==
    [][\A i \in 1 .. Len(speech) : speech[i] = "reply" => Nearer(i)]_vars

LEMMA RefillNearer ==
    ASSUME TypeOK, NEW n \in 0 .. 3, Refill(n),
           NEW i \in 1 .. Len(speech), speech[i] = "reply"
    PROVE  Nearer(i)
  <1>1. Len(speech) \in Nat /\ n \in Nat /\ n <= Len(speech)
        /\ \A k \in 1 .. n : speech[k] = "other"
    BY DEF TypeOK, Refill, Passable
  <1>2. i > n
    BY <1>1
  <1>3. playing' = speech[n + 1] /\ speech' = SubSeq(speech, n + 2, Len(speech))
    BY <1>1, <1>2 DEF Refill, Promoted
  <1>4. CASE i = n + 1
    BY <1>3, <1>4 DEF Nearer
  <1>5. CASE i # n + 1
    <2> DEFINE j == i - n - 1
    <2>1. j \in 1 .. i /\ j < i /\ j <= Len(speech) - n - 1 /\ n + 2 <= Len(speech)
      BY <1>1, <1>2, <1>5
    <2>2. \A k \in 1 .. Len(speech) : speech[k] \in Sounds
      BY DEF TypeOK
    <2>3. Len(speech') = Len(speech) - n - 1 /\ speech'[j] = speech[i]
      BY <1>1, <1>3, <2>1, <2>2, SubSeqProperties
    <2> QED BY <2>1, <2>3 DEF Nearer
  <1> QED BY <1>4, <1>5

(* Whatever else is sent to the queue goes behind it. *)
LEMMA GrownNearer ==
    ASSUME ~Play, NEW i \in 1 .. Len(speech), speech[i] = "reply", speech \in Seq(Sounds),
           NEW new \in Seq(Sounds), speech' = speech \o new
    PROVE  Nearer(i)
  <1>1. Len(speech') = Len(speech) + Len(new) /\ speech'[i] = speech[i]
    BY ConcatProperties
  <1>2. Len(speech) \in Nat /\ Len(new) \in Nat
    OBVIOUS
  <1> QED BY <1>1, <1>2 DEF Nearer

LEMMA StepNearer ==
    ASSUME TypeOK, [Next]_vars, NEW i \in 1 .. Len(speech), speech[i] = "reply"
    PROVE  Nearer(i) \/ UNCHANGED vars
  <1>1. CASE Play
    BY <1>1, RefillNearer DEF Play
  <1>2. ASSUME ~Play, NEW new \in Seq(Sounds), speech' = speech \o new PROVE Nearer(i)
    BY <1>2, GrownNearer DEF TypeOK
  <1>3. ASSUME ~Play, UNCHANGED speech PROVE Nearer(i)
    BY <1>3 DEF TypeOK, Nearer
  <1>4. ASSUME ~Play, NEW x \in Sounds, Sent(x) PROVE Nearer(i)
    <2>1. CASE UNCHANGED speech
      BY <1>3, <1>4, <2>1
    <2>2. CASE speech' = Append(speech, x)
      <3>1. speech' = speech \o <<x>> /\ <<x>> \in Seq(Sounds)
        BY <2>2 DEF TypeOK
      <3> QED BY <1>2, <1>4, <3>1
    <2> QED BY <1>4, <2>1, <2>2 DEF Sent, Offered
  <1>5. CASE ~Play /\ Render
    <2>1. PICK hold \in {0, MaxHold}, others \in 0 .. 1 : Frame(hold, others)
      BY <1>5 DEF Render
    <2> DEFINE n    == Speaking + others
               room == SpeechSize - Len(speech)
               sent == IF n < room THEN n ELSE room
               new  == [k \in 1 .. sent |-> "other"]
    <2>2. sent \in Nat
      BY Sizes, SpeakingType DEF TypeOK
    <2>3. speech' = speech \o new
      BY <2>1 DEF Frame, Dispatched
    <2> HIDE DEF sent
    <2>4. new \in Seq(Sounds)
      BY <2>2 DEF Sounds
    <2> QED BY <1>2, <1>5, <2>3, <2>4
  <1>6. ASSUME ~Play, NEW ok \in BOOLEAN, Fetched(ok) \/ Synthesised(ok) PROVE Nearer(i)
    <2>1. UNCHANGED speech \/ Sent("reply") \/ Sent("other")
      BY <1>6 DEF Fetched, Synthesised
    <2> QED BY <1>3, <1>4, <1>6, <2>1 DEF Sounds
  <1>7. \/ UNCHANGED vars \/ Play \/ Render \/ UNCHANGED speech
        \/ \E ok \in BOOLEAN : Fetched(ok) \/ Synthesised(ok)
    BY DEF Next, DeviceNext, AgentNext, VoiceNext, Post, Arm, Press, Captured, Failed,
       Replied, VoiceArms, Synthesise, sound
  <1> QED BY <1>1, <1>3, <1>5, <1>6, <1>7

(* A queued reply leaves the queue only to be played, and every refill     *)
(* brings it nearer: for every size of the queue.                          *)
THEOREM ReplyComesNearer == Spec => ReplyNearer
  <1>1. TypeOK /\ [Next]_vars =>
            [\A i \in 1 .. Len(speech) : speech[i] = "reply" => Nearer(i)]_vars
    BY StepNearer
  <1> QED BY <1>1, TypeCorrect, PTL DEF Spec, ReplyNearer

(* A reply among the first n sounds of the queue. *)
Queued(n) == \E i \in 1 .. n : i <= Len(speech) /\ speech[i] = "reply"

LEMMA QueuedMoves ==
    ASSUME TypeOK, [Next]_vars, NEW n \in Nat, Queued(n)
    PROVE  /\ Queued(n)' \/ playing' = "reply"
           /\ <<Play>>_vars => \/ playing' = "reply"
                               \/ \E m \in Nat : m < n /\ Queued(m)'
  <1>1. PICK i \in 1 .. n : i <= Len(speech) /\ speech[i] = "reply"
    BY DEF Queued
  <1>2. i \in 1 .. Len(speech) /\ i \in Nat /\ i > 0
    BY <1>1 DEF TypeOK
  <1>3. CASE UNCHANGED vars
    BY <1>3 DEF vars, sound, Queued
  <1>4. CASE Nearer(i)
    <2>1. CASE playing' = "reply"
      BY <2>1
    <2>2. CASE playing' # "reply"
      <3>1. PICK j \in 1 .. i : j <= Len(speech') /\ speech'[j] = "reply" /\ (Play => j < i)
        BY <1>4, <2>2 DEF Nearer
      <3>2. Queued(j)' /\ Queued(n)' /\ j \in Nat /\ (Play => j < n)
        BY <1>1, <1>2, <3>1 DEF Queued
      <3> QED BY <3>2
    <2> QED BY <2>1, <2>2
  <1> QED BY <1>1, <1>2, <1>3, <1>4, StepNearer

(***************************************************************************)
(* A reply whose audio got into the TX queue is heard: the player refills, *)
(* and no refill or newcomer puts anything before it.  The chain of        *)
(* refills is as long as the queue; AUDIO_TX_QUEUE_CAPACITY is 4, and the  *)
(* theorem is for at most these.                                           *)
(***************************************************************************)
THEOREM ReplyAlwaysHeard ==
    ASSUME SpeechSize <= 4
    PROVE  FairSpec /\ []NeverHeldUp => ReplyHeard
  <1>1. TypeOK /\ (\E i \in 1 .. Len(speech) : speech[i] = "reply") => Queued(4)
    BY Sizes DEF TypeOK, Queued
  <1>2. \A n \in 1 .. 4 : TypeOK /\ Queued(n) /\ [Next]_vars => Queued(n)' \/ (playing = "reply")'
    BY QueuedMoves
  <1>3. \A n \in 1 .. 4 : TypeOK /\ Queued(n) /\ [Next]_vars /\ <<Play>>_vars =>
            Queued(n - 1)' \/ (playing = "reply")'
    <2> SUFFICES ASSUME NEW n \in 1 .. 4, TypeOK, Queued(n), [Next]_vars, <<Play>>_vars,
                        ~(playing = "reply")'
                 PROVE  Queued(n - 1)'
      OBVIOUS
    <2>1. PICK m \in Nat : m < n /\ Queued(m)'
      BY QueuedMoves
    <2> QED BY <2>1 DEF Queued
  <1>4. ~Queued(0)'
    BY DEF Queued
  <1>5. \A n \in 1 .. 4 : NeverHeldUp /\ Queued(n) => ENABLED <<Play>>_vars
    <2> SUFFICES ASSUME NEW n \in 1 .. 4, NeverHeldUp, Queued(n) PROVE ENABLED <<Play>>_vars
      OBVIOUS
    <2>1. speech # <<>>
      BY DEF Queued
    <2> QED BY <2>1 DEF NeverHeldUp
  <1>6. /\ TypeOK /\ Queued(4) /\ [Next]_vars => Queued(4)' \/ (playing = "reply")'
        /\ TypeOK /\ Queued(3) /\ [Next]_vars => Queued(3)' \/ (playing = "reply")'
        /\ TypeOK /\ Queued(2) /\ [Next]_vars => Queued(2)' \/ (playing = "reply")'
        /\ TypeOK /\ Queued(1) /\ [Next]_vars => Queued(1)' \/ (playing = "reply")'
    BY <1>2
  <1>7. /\ TypeOK /\ Queued(4) /\ [Next]_vars /\ <<Play>>_vars => Queued(3)' \/ (playing = "reply")'
        /\ TypeOK /\ Queued(3) /\ [Next]_vars /\ <<Play>>_vars => Queued(2)' \/ (playing = "reply")'
        /\ TypeOK /\ Queued(2) /\ [Next]_vars /\ <<Play>>_vars => Queued(1)' \/ (playing = "reply")'
        /\ TypeOK /\ Queued(1) /\ [Next]_vars /\ <<Play>>_vars => (playing = "reply")'
    BY <1>3, <1>4
  <1>8. NeverHeldUp /\ (Queued(1) \/ Queued(2) \/ Queued(3) \/ Queued(4))
            => ENABLED <<Play>>_vars
    BY <1>5
  <1> QED
    BY <1>1, <1>6, <1>7, <1>8, TypeCorrect, PTL DEF FairSpec, Spec, ReplyHeard

-----------------------------------------------------------------------------
(***************************************************************************)
(* The face comes back.  Once nobody posts: no StartListen is queued, then *)
(* no press is left, then the exchange is over, then the queue is empty;   *)
(* each of them stays so.                                                  *)
(***************************************************************************)
NoListen == ~Asked("StartListen")
AtRest   == agent = "boot" \/ agent = "waiting"
Drained  == queue = <<>>

(* What an agent posts is an emotion's business, never a press.            *)
LEMMA OfferedAsks ==
    ASSUME NEW q \in Seq(Commands), NEW c \in Commands, c # "StartListen",
           \A i \in 1 .. Len(q) : q[i] # "StartListen"
    PROVE  \A i \in 1 .. Len(Offered(q, QueueSize, c)) :
               Offered(q, QueueSize, c)[i] # "StartListen"
  BY DEF Offered

LEMMA NoListenStays ==
    ASSUME TypeOK, NoListen, [DeviceNext]_vars
    PROVE  NoListen'
  <1>1. CASE queue' = queue
    BY <1>1 DEF NoListen, Asked
  <1>2. CASE queue' = <<>>
    BY <1>2 DEF NoListen, Asked
  <1>3. ASSUME NEW c \in {"EnterThinking", "ThinkingOver"}, queue' = Enqueued(c)
        PROVE  NoListen'
    BY <1>3, OfferedAsks DEF NoListen, Asked, Enqueued, TypeOK, Commands
  <1> QED
    BY <1>1, <1>2, <1>3
       DEF DeviceNext, AgentNext, VoiceNext, Render, Play, Frame, Refill, Arm, Press,
           Captured, Failed, Replied, Fetched, VoiceArms, Synthesise, Synthesised, vars

(* A frame empties the queue.                                              *)
LEMMA FrameDrains ==
    ASSUME Render PROVE Drained' /\ NoListen'
  BY DEF Render, Frame, Drained, NoListen, Asked

(* Without a queued StartListen the press that is left is the last one.    *)
LEMMA LastPress ==
    ASSUME NoListen, [DeviceNext]_vars
    PROVE  /\ ptt' => ptt
           /\ agent = "capturing" => agent' \in {"capturing", "posting", "waiting"}
           /\ agent = "posting" => agent' \in {"posting", "fetching", "waiting"}
           /\ agent = "fetching" => agent' \in {"fetching", "waiting"}
           /\ agent = "waiting" => agent' = "waiting" \/ (agent' = "capturing" /\ ptt /\ ~ptt')
           /\ agent = "boot" => agent' \in {"boot", "waiting"}
  <1>1. CASE Render
    BY <1>1, Zenon DEF Render, Frame, NoListen
  <1>2. CASE Press
    BY <1>2 DEF Press
  <1>3. CASE Arm
    BY <1>3 DEF Arm
  <1>4. CASE Captured \/ Failed \/ (\E a \in BOOLEAN : Replied(a)) \/ (\E ok \in BOOLEAN : Fetched(ok))
    BY <1>4 DEF Captured, Failed, Replied, Fetched
  <1>5. CASE UNCHANGED <<ptt, agent>>
    BY <1>5
  <1> QED
    BY <1>1, <1>2, <1>3, <1>4, <1>5
       DEF DeviceNext, AgentNext, VoiceNext, Play, Refill, VoiceArms, Synthesise, Synthesised, vars

(* At rest nothing is sent to the queue.                                   *)
LEMMA RestKeepsDrained ==
    ASSUME AtRest, AtRest', [DeviceNext]_vars, Drained
    PROVE  Drained'
  BY DEF AtRest, Drained, DeviceNext, AgentNext, VoiceNext, Render, Play, Frame, Refill, Arm, Press,
     Captured, Failed, Replied, Fetched, VoiceArms, Synthesise, Synthesised, vars

(* Nor does a hold begin that no command asks for.                         *)
LEMMA HoldsRunOut ==
    ASSUME TypeOK, Drained, [DeviceNext]_vars
    PROVE  /\ listen' <= listen /\ thinking' <= thinking
           /\ listen = Never => listen' = Never
           /\ thinking = Never => thinking' = Never
           /\ Render /\ listen # Never => listen' < listen
           /\ Render /\ thinking # Never => thinking' < thinking
  <1>1. listen \in Never .. MaxHold /\ thinking \in Never .. MaxHold
    BY DEF TypeOK
  <1>2. CASE Render
    <2>1. Slot = "none"
      BY DEF Drained, Slot, Bound
    <2>2. listen' = Held(Aged(listen)) /\ thinking' = Held(Aged(thinking))
      BY <1>2, <2>1 DEF Render, Frame, ListenEnds, ThinkingEnds
    <2> QED
      BY <1>1, <2>2, Sizes DEF Held, Aged, Never
  <1>3. CASE UNCHANGED <<listen, thinking>> /\ ~Render
    BY <1>1, <1>3, Sizes DEF Never
  <1>4. Render \/ UNCHANGED <<listen, thinking>>
    BY DEF DeviceNext, AgentNext, VoiceNext, Play, Refill, Arm, Press, Captured, Failed,
       Replied, Fetched, VoiceArms, Synthesise, Synthesised, vars
  <1> QED BY <1>2, <1>3, <1>4

(* With nobody posting, the StartListens are drained and none follows.     *)
LEMMA PressesEnd ==
    FairSpec /\ []NeverHeldUp => (<>[][DeviceNext]_vars => <>[]NoListen)
  <1>1. TypeOK /\ NoListen /\ [DeviceNext]_vars => NoListen'
    BY NoListenStays
  <1>2. <<Render>>_vars => NoListen'
    BY FrameDrains
  <1>3. NeverHeldUp /\ ~NoListen => ENABLED <<Render>>_vars
    BY DEF NeverHeldUp, FaceBusy, NoListen, Asked
  <1> QED
    BY <1>1, <1>2, <1>3, TypeCorrect, PTL DEF FairSpec, Spec

(* Then the task serves the press that is left and comes to rest.          *)
LEMMA AgentRests ==
    FairSpec /\ []NeverHeldUp => (<>[][DeviceNext]_vars => <>[]AtRest)
  <1>1. NoListen /\ [DeviceNext]_vars =>
          /\ ~ptt => (~ptt)'
          /\ agent = "capturing" =>
                 (agent = "capturing")' \/ (agent = "posting")' \/ (agent = "waiting")'
          /\ agent = "posting" =>
                 (agent = "posting")' \/ (agent = "fetching")' \/ (agent = "waiting")'
          /\ agent = "fetching" => (agent = "fetching")' \/ (agent = "waiting")'
          /\ agent = "waiting" =>
                 (agent = "waiting")' \/ ((agent = "capturing")' /\ ptt /\ (~ptt)')
          /\ agent = "boot" => (agent = "boot")' \/ (agent = "waiting")'
    BY LastPress
  <1>2. <<AgentNext>>_vars =>
          /\ agent = "capturing" => (agent = "posting")' \/ (agent = "waiting")'
          /\ agent = "posting" => (agent = "fetching")' \/ (agent = "waiting")'
          /\ agent = "fetching" => (agent = "waiting")'
    BY DEF AgentNext, Press, Captured, Failed, Replied, Fetched
  <1>3. NeverHeldUp /\ (agent = "capturing" \/ agent = "posting" \/ agent = "fetching")
            => ENABLED <<AgentNext>>_vars
    BY DEF NeverHeldUp, AgentBusy
  <1>4. TypeOK => \/ agent = "boot" \/ agent = "waiting" \/ agent = "capturing"
                  \/ agent = "posting" \/ agent = "fetching"
    BY DEF TypeOK, Agents
  <1> QED
    BY <1>1, <1>2, <1>3, <1>4, PressesEnd, TypeCorrect, PTL DEF FairSpec, Spec, AtRest

(***************************************************************************)
(* Once nobody posts, the last exchange comes to an end, by whatever error *)
(* or timeout, and the render loop empties the command queue for good.     *)
(***************************************************************************)
THEOREM ExchangeAlwaysEnds ==
    FairSpec /\ []NeverHeldUp => (<>[][DeviceNext]_vars => <>[](queue = <<>> /\ AtRest))
  <1>1. AtRest /\ AtRest' /\ [DeviceNext]_vars /\ Drained => Drained'
    BY RestKeepsDrained
  <1>2. <<Render>>_vars => Drained'
    BY FrameDrains
  <1>3. NeverHeldUp /\ ~Drained => ENABLED <<Render>>_vars
    BY DEF NeverHeldUp, FaceBusy, Drained
  <1> QED
    BY <1>1, <1>2, <1>3, AgentRests, PTL DEF FairSpec, Drained

(***************************************************************************)
(* With the queue empty every frame takes something off a hold that is     *)
(* left, and no step of the device adds to one.                            *)
(***************************************************************************)
THEOREM HoldsRunDown ==
    Spec => [][DeviceNext /\ Drained =>
                  /\ listen' <= listen /\ thinking' <= thinking
                  /\ Render /\ listen # Never => listen' < listen
                  /\ Render /\ thinking # Never => thinking' < thinking]_vars
  <1>1. TypeOK /\ [Next]_vars =>
          [DeviceNext /\ Drained =>
              /\ listen' <= listen /\ thinking' <= thinking
              /\ Render /\ listen # Never => listen' < listen
              /\ Render /\ thinking # Never => thinking' < thinking]_vars
    BY HoldsRunOut
  <1> QED BY <1>1, TypeCorrect, PTL DEF Spec

(* Once the holds of the face have run out nothing starts another.         *)
LEMMA FaceBackOnceRunOut ==
    FairSpec /\ []NeverHeldUp
        /\ (<>[][DeviceNext]_vars => []<>(listen = Never /\ thinking = Never)) => FaceComesBack
  <1>1. TypeOK /\ Drained /\ listen = Never /\ thinking = Never /\ [DeviceNext]_vars
            => (listen = Never)' /\ (thinking = Never)'
    BY HoldsRunOut
  <1>2. AtRest /\ listen = Never /\ thinking = Never /\ queue = <<>> =>
            listen = Never /\ thinking = Never /\ queue = <<>> /\ agent \in {"boot", "waiting"}
    BY DEF AtRest
  <1> QED
    BY <1>1, <1>2, ExchangeAlwaysEnds, TypeCorrect, PTL
       DEF FairSpec, Spec, Drained, FaceComesBack

FramesHeld == (listen + 1) + (thinking + 1)

(* What the behaviour is like from then on.                                *)
FramesOnly ==
    [](TypeOK /\ Drained /\ NeverHeldUp) /\ [][DeviceNext]_vars /\ WF_vars(Render)

LEMMA HeldType ==
    ASSUME TypeOK
    PROVE  FramesHeld \in Nat /\ (FramesHeld = 0 <=> listen = Never /\ thinking = Never)
  BY Sizes DEF TypeOK, FramesHeld, Never

LEMMA TwoFall ==
    ASSUME NEW a \in Int, NEW b \in Int, NEW aa \in Int, NEW bb \in Int, aa <= a, bb <= b
    PROVE  /\ aa >= -1 /\ bb >= -1 => (aa + 1) + (bb + 1) \in Nat
           /\ (aa + 1) + (bb + 1) <= (a + 1) + (b + 1)
           /\ aa < a \/ bb < b => (aa + 1) + (bb + 1) < (a + 1) + (b + 1)
  OBVIOUS

LEMMA HoldsFall ==
    ASSUME TypeOK, TypeOK', Drained, [DeviceNext]_vars
    PROVE  /\ FramesHeld \in Nat /\ FramesHeld' \in Nat /\ FramesHeld' <= FramesHeld
           /\ Render /\ (listen # Never \/ thinking # Never) => FramesHeld' < FramesHeld
  <1>1. FramesHeld \in Nat
    BY HeldType
  <1>2. listen \in Int /\ thinking \in Int
    BY Sizes DEF TypeOK, Never
  <1>3. listen' \in Int /\ thinking' \in Int /\ listen' >= -1 /\ thinking' >= -1
    <2>1. listen' \in Never .. MaxHold /\ thinking' \in Never .. MaxHold
      BY DEF TypeOK
    <2> QED BY <2>1, Sizes DEF Never
  <1>4. listen' <= listen /\ thinking' <= thinking
    BY HoldsRunOut
  <1>5. Render /\ (listen # Never \/ thinking # Never) => listen' < listen \/ thinking' < thinking
    BY HoldsRunOut
  <1> QED BY <1>1, <1>2, <1>3, <1>4, <1>5, TwoFall DEF FramesHeld

(* Whatever is left of the holds, there is less of it a frame later.       *)
LEMMA HoldsComeDown ==
    ASSUME NEW n \in Nat \ {0}
    PROVE  FramesOnly => [](FramesHeld = n => <>(FramesHeld < n))
  <1>1. TypeOK /\ TypeOK' /\ Drained /\ FramesHeld = n /\ [DeviceNext]_vars
            => (FramesHeld = n)' \/ (FramesHeld < n)'
    <2> SUFFICES ASSUME TypeOK, TypeOK', Drained, [DeviceNext]_vars
                 PROVE  FramesHeld' <= FramesHeld /\ FramesHeld \in Nat /\ FramesHeld' \in Nat
      OBVIOUS
    <2> QED BY HoldsFall
  <1>2. TypeOK /\ TypeOK' /\ Drained /\ FramesHeld = n /\ [DeviceNext]_vars /\ <<Render>>_vars
            => (FramesHeld < n)'
    <2> SUFFICES ASSUME TypeOK, TypeOK', Drained, FramesHeld = n, [DeviceNext]_vars, Render
                 PROVE  FramesHeld' < FramesHeld
      OBVIOUS
    <2>1. listen # Never \/ thinking # Never
      BY HeldType
    <2> QED BY <2>1, HoldsFall
  <1>3. TypeOK /\ NeverHeldUp /\ FramesHeld = n => ENABLED <<Render>>_vars
    BY HeldType DEF NeverHeldUp, FaceBusy
  <1> QED BY <1>1, <1>2, <1>3, PTL DEF FramesOnly

(***************************************************************************)
(* The face comes back, whatever commands were dropped or replaced, for    *)
(* every length of its holds.                                              *)
(***************************************************************************)
THEOREM FaceAlwaysComesBack ==
    FairSpec /\ []NeverHeldUp /\ NoEndlessDescent(FramesHeld) => FaceComesBack
  <1>1. FramesOnly => \A n \in Nat \ {0} : [](FramesHeld = n => <>(FramesHeld < n))
    BY HoldsComeDown
  <1>2. /\ TypeOK => FramesHeld \in Nat
        /\ TypeOK /\ FramesHeld = 0 => listen = Never /\ thinking = Never
    BY HeldType
  <1>3. FairSpec /\ []NeverHeldUp /\ NoEndlessDescent(FramesHeld)
            => (<>[][DeviceNext]_vars => []<>(listen = Never /\ thinking = Never))
    BY <1>1, <1>2, ExchangeAlwaysEnds, TypeCorrect, PTL
       DEF FairSpec, Spec, Drained, NoEndlessDescent, FramesOnly
  <1> QED BY <1>3, FaceBackOnceRunOut, PTL
=============================================================================
