---------------------------- MODULE Conversation ----------------------------
(***************************************************************************)
(* Push to talk: what a press of the listen button, a spoken reply and the *)
(* operator's commands do to one another.  Five tasks share two bounded    *)
(* queues and two latest-wins slots.                                       *)
(*                                                                         *)
(*   src/crates/stackchan-firmware/src/net/http.rs       the command queue *)
(*   src/crates/stackchan-firmware/src/main.rs           the render loop   *)
(*   src/crates/stackchan-firmware/src/agent_sidecar.rs  capture and reply *)
(*   src/crates/stackchan-firmware/src/voicevox.rs       text to speech    *)
(*   src/crates/stackchan-firmware/src/audio.rs          the TX queue      *)
(*                                                                         *)
(* The executor is cooperative: an action is what a task does between two  *)
(* awaits.  A command is kept for what it does to the two holds; SetEmotion*)
(* and ExitThinking both end a thinking hold and are the one ThinkingOver. *)
(* The Wi-Fi link comes and goes at any time: wherever a task looks at it, *)
(* it is found up or down.                                                 *)
(* A sidecar URL is configured; a VoiceVox engine may be.                  *)
(***************************************************************************)
EXTENDS Integers, Sequences, FiniteSets

CONSTANTS
    QueueSize,  \* REMOTE_COMMAND_QUEUE_CAPACITY
    SpeechSize, \* AUDIO_TX_QUEUE_CAPACITY
    MaxHold     \* bound: frames of a hold; the other one asked for is 0

ASSUME SizesAssumption == {QueueSize, SpeechSize, MaxHold} \subseteq Nat \ {0}

VARIABLES
    queue,            \* REMOTE_COMMAND_QUEUE
    listen, thinking, \* RemoteCommandModifier: frames left of the two holds
    ptt,              \* PTT_TRIGGER is signalled
    agent,            \* where agent_sidecar_task is
    synth,            \* SYNTH_TEXT_TRIGGER is signalled
    voice,            \* where voicevox_task is
    speech,           \* AUDIO_TX_QUEUE
    playing,          \* TxSampler::current
    preempt           \* AUDIO_TX_PREEMPT

sound == <<speech, playing, preempt>>
vars  == <<queue, listen, thinking, ptt, agent, synth, voice, sound>>

Commands == {"StartListen", "EnterThinking", "ThinkingOver", "Reset",
             "LookAt", "Speak"}
Sounds   == {"reply", "other"}   \* the sidecar's audio; chirps and syntheses
Silence  == "silence"
Agents   == {"boot", "waiting", "capturing", "posting", "fetching"}
Voices   == {"parked", "boot", "waiting", "synthesising"}
Never    == -1

Init ==
    /\ queue = <<>>
    /\ listen = Never /\ thinking = Never
    /\ ptt = FALSE /\ agent = "boot"
    /\ synth = FALSE /\ voice \in {"parked", "boot"}
    /\ speech = <<>> /\ playing = Silence /\ preempt = FALSE

-----------------------------------------------------------------------------
(* A full queue drops the newcomer. *)
Offered(q, size, x) == IF Len(q) < size THEN Append(q, x) ELSE q
Enqueued(c) == Offered(queue, QueueSize, c)

(* HTTP, MCP, BLE, ESP-NOW, the wake word: anyone's command. *)
Post(c) ==
    /\ queue' = Enqueued(c)
    /\ UNCHANGED <<listen, thinking, ptt, agent, synth, voice, sound>>

-----------------------------------------------------------------------------
(***************************************************************************)
(* Every utterance the program makes is of Priority::Normal, so a full TX  *)
(* queue never evicts, and only silence, whose priority reads as           *)
(* Background, is outranked.                                               *)
(***************************************************************************)
Background == 0
Normal     == 1
Current    == IF playing = Silence THEN Background ELSE Normal
Outranks_Equal(p) == p >= Current
Outranks(p)       == p > Current

(* try_dispatch_utterance, n times over. *)
Dispatched(n) ==
    LET room == SpeechSize - Len(speech)
        sent == IF n < room THEN n ELSE room
    IN  /\ speech' = speech \o [i \in 1 .. sent |-> "other"]
        /\ preempt' = (preempt \/ (sent > 0 /\ Outranks(Normal)))

(* The replies' own tasks send to the queue and leave the flag alone. *)
Sent(x) == speech' = Offered(speech, SpeechSize, x)

(***************************************************************************)
(* TxSampler::next_sample at the end of a source or on the preempt flag:   *)
(* the next source that has samples plays.  A reply has some, a synthesis  *)
(* may have none; at most three are passed over in one call.               *)
(***************************************************************************)
Passable(n) == n \in 0 .. 3 /\ n <= Len(speech)
               /\ \A i \in 1 .. n : speech[i] = "other"
Promoted_Newest(n) == IF n = Len(speech) THEN Silence ELSE speech[Len(speech)]
Promoted(n)        == IF n = Len(speech) THEN Silence ELSE speech[n + 1]

Refill(n) ==
    /\ Passable(n)
    /\ playing' = Promoted(n)
    /\ speech' = IF n = Len(speech) THEN <<>>
                 ELSE SubSeq(speech, n + 2, Len(speech))
    /\ preempt' = FALSE
    /\ UNCHANGED <<queue, listen, thinking, ptt, agent, synth, voice>>

-----------------------------------------------------------------------------
(***************************************************************************)
(* One frame of the render loop: the queue is emptied, Speak goes to the   *)
(* speech queue and StartListen to PTT_TRIGGER as well; the last of the    *)
(* others is what the one slot remote_command holds when the modifiers     *)
(* run.  hold is the length the command asks for, others the utterances    *)
(* the modifiers and the camera mode add.                                  *)
(***************************************************************************)
Bound     == {i \in 1 .. Len(queue) : queue[i] # "Speak"}
Slot      == IF Bound = {} THEN "none"
             ELSE queue[CHOOSE i \in Bound : \A j \in Bound : j <= i]
Speaking  == Cardinality({i \in 1 .. Len(queue) : queue[i] = "Speak"})
Asked(c)  == \E i \in 1 .. Len(queue) : queue[i] = c

Aged_Not(left) == left
Aged(left)     == IF left > 0 THEN left - 1 ELSE left
Held(left)     == IF left = 0 THEN Never ELSE left

ListenEnds_OnReset == {"Reset"}
ListenEnds   == {"EnterThinking", "Reset"}
ThinkingEnds == {"ThinkingOver", "StartListen", "Reset"}

Frame(hold, others) ==
    /\ queue' = <<>>
    /\ ptt' = (ptt \/ Asked("StartListen"))
    /\ listen' = IF Slot = "StartListen" THEN Held(hold)
                 ELSE IF Slot \in ListenEnds THEN Never ELSE Held(Aged(listen))
    /\ thinking' = IF Slot = "EnterThinking" THEN Held(hold)
                   ELSE IF Slot \in ThinkingEnds THEN Never ELSE Held(Aged(thinking))
    /\ Slot = "StartListen" => others > 0   \* the acknowledging chirp
    /\ Dispatched(Speaking + others)
    /\ UNCHANGED <<agent, synth, voice, playing>>

-----------------------------------------------------------------------------
(* agent_sidecar_task waits for the link before its first press only. *)
Arm ==
    /\ agent = "boot"
    /\ agent' = "waiting"
    /\ UNCHANGED <<queue, listen, thinking, ptt, synth, voice, sound>>

Press ==
    /\ agent = "waiting" /\ ptt
    /\ ptt' = FALSE
    /\ agent' = "capturing"
    /\ UNCHANGED <<queue, listen, thinking, synth, voice, sound>>

(* The window is full; the request is made, unless the link is down. *)
Captured_AwaitsRoom ==
    /\ agent = "capturing" /\ Len(queue) < QueueSize
    /\ \/ agent' = "posting" /\ queue' = Enqueued("EnterThinking")
       \/ agent' = "waiting" /\ queue' = Enqueued("ThinkingOver")
    /\ UNCHANGED <<listen, thinking, ptt, synth, voice, sound>>
Captured ==
    /\ agent = "capturing"
    /\ \/ agent' = "posting" /\ queue' = Enqueued("EnterThinking")
       \/ agent' = "waiting" /\ queue' = Enqueued("ThinkingOver")
    /\ UNCHANGED <<listen, thinking, ptt, synth, voice, sound>>

(***************************************************************************)
(* The answer, or none within REQUEST_TIMEOUT_MS: every way out ends the   *)
(* thinking.  A reply may bring its own audio; if not, and an engine is    *)
(* configured, its text goes to voicevox_task.                             *)
(***************************************************************************)
Failed_Drained ==
    /\ agent = "posting"
    /\ agent' = "waiting"
    /\ queue' = Enqueued("ThinkingOver")
    /\ ptt' = FALSE
    /\ UNCHANGED <<listen, thinking, synth, voice, sound>>
Failed ==
    /\ agent = "posting"
    /\ agent' = "waiting"
    /\ queue' = Enqueued("ThinkingOver")
    /\ UNCHANGED <<listen, thinking, ptt, synth, voice, sound>>

Replied(audio) ==
    /\ agent = "posting"
    /\ agent' = IF audio THEN "fetching" ELSE "waiting"
    /\ queue' = Enqueued("ThinkingOver")
    /\ synth' = (synth \/ (~audio /\ voice # "parked"))
    /\ UNCHANGED <<listen, thinking, ptt, voice, sound>>

(* The audio, or none within AUDIO_FETCH_TIMEOUT_MS. *)
Fetched(ok) ==
    /\ agent = "fetching"
    /\ agent' = "waiting"
    /\ IF ok THEN Sent("reply") ELSE UNCHANGED speech
    /\ UNCHANGED <<queue, listen, thinking, ptt, synth, voice, playing, preempt>>

-----------------------------------------------------------------------------
(* voicevox_task. *)
VoiceArms ==
    /\ voice = "boot"
    /\ voice' = "waiting"
    /\ UNCHANGED <<queue, listen, thinking, ptt, agent, synth, sound>>

Synthesise(up) ==
    /\ voice = "waiting" /\ synth
    /\ synth' = FALSE
    /\ voice' = IF up THEN "synthesising" ELSE "waiting"
    /\ UNCHANGED <<queue, listen, thinking, ptt, agent, sound>>

Synthesised(ok) ==
    /\ voice = "synthesising"
    /\ voice' = "waiting"
    /\ IF ok THEN Sent("other") ELSE UNCHANGED speech
    /\ UNCHANGED <<queue, listen, thinking, ptt, agent, synth, playing, preempt>>

-----------------------------------------------------------------------------
AgentNext ==
    \/ Press
    \/ Captured
    \/ Failed
    \/ \E audio \in BOOLEAN : Replied(audio)
    \/ \E ok \in BOOLEAN : Fetched(ok)
VoiceNext ==
    \/ \E up \in BOOLEAN : Synthesise(up)
    \/ \E ok \in BOOLEAN : Synthesised(ok)
Render == \E hold \in {0, MaxHold}, others \in 0 .. 1 : Frame(hold, others)
Play   == \E n \in 0 .. 3 : Refill(n)
DeviceNext == AgentNext \/ VoiceNext \/ Render \/ Play \/ Arm \/ VoiceArms

Next == DeviceNext \/ \E c \in Commands : Post(c)

Spec == Init /\ [][Next]_vars

(***************************************************************************)
(* The render ticker runs; a capture ends, for the microphone delivers     *)
(* frames; both requests and the synthesis are under with_timeout; every   *)
(* sound is finite.                                                        *)
(***************************************************************************)
FairSpec == Spec /\ WF_vars(AgentNext) /\ WF_vars(VoiceNext)
                 /\ WF_vars(Render) /\ WF_vars(Play)

-----------------------------------------------------------------------------
(* Every variable stays in its range. *)
TypeOK ==
    /\ queue \in Seq(Commands) /\ Len(queue) <= QueueSize
    /\ listen \in Never .. MaxHold /\ thinking \in Never .. MaxHold
    /\ ptt \in BOOLEAN /\ synth \in BOOLEAN /\ preempt \in BOOLEAN
    /\ agent \in Agents /\ voice \in Voices
    /\ speech \in Seq(Sounds) /\ Len(speech) <= SpeechSize
    /\ playing \in Sounds \cup {Silence}

(***************************************************************************)
(* The face never listens and thinks at once: each of the two holds takes  *)
(* the other's place, however the presses, the answers and the operator's  *)
(* commands are interleaved and whichever of them are lost.                *)
(***************************************************************************)
OneFace == listen = Never \/ thinking = Never

(***************************************************************************)
(* No reply is cut off: whenever the preempt flag is up there is no source *)
(* for the feeder to drop.  The flag is raised by one task and read by     *)
(* another, and sounds enter the queue by a way that does not touch it.    *)
(***************************************************************************)
NothingCutOff == preempt => playing = Silence

(***************************************************************************)
(* No task is held up by another: with a press or an exchange in hand the  *)
(* sidecar task can go on, with a text in hand the speech task can, and    *)
(* the feeder can always refill, however full the queues they send to; and *)
(* a frame can take what is queued and age what is held.                   *)
(***************************************************************************)
AgentBusy == agent \in {"capturing", "posting", "fetching"} \/ (agent = "waiting" /\ ptt)
VoiceBusy == voice = "synthesising" \/ (voice = "waiting" /\ synth)
FaceBusy  == queue # <<>> \/ listen # Never \/ thinking # Never
NeverHeldUp ==
    /\ AgentBusy => ENABLED <<AgentNext>>_vars
    /\ VoiceBusy => ENABLED <<VoiceNext>>_vars
    /\ speech # <<>> => ENABLED <<Play>>_vars
    /\ FaceBusy => ENABLED <<Render>>_vars

(* A press is served: the task comes back from every request, fetch and failure. *)
PressServed == ptt /\ agent # "boot" ~> agent = "capturing"

(* A reply whose audio got into the queue is heard. *)
ReplyHeard == (\E i \in 1 .. Len(speech) : speech[i] = "reply") ~> playing = "reply"

(***************************************************************************)
(* Whatever commands were dropped or replaced, the face comes back: when   *)
(* nobody posts any more, both holds end and the queue is empty, but for   *)
(* the agent's last exchange.                                              *)
(***************************************************************************)
FaceComesBack ==
    <>[][DeviceNext]_vars
        => <>[](listen = Never /\ thinking = Never /\ queue = <<>>
                /\ agent \in {"boot", "waiting"})

=============================================================================
