------------------------------- MODULE Affect -------------------------------
(***************************************************************************)
(* The avatar's emotion and who holds it: entity.mind.affect.emotion,      *)
(* entity.mind.autonomy.{manual_until, source} and voice.chirp_request,    *)
(* shared fields that nine modifiers write in turn on every frame.         *)
(*                                                                         *)
(*   src/crates/stackchan-core/src/director.rs               who runs when *)
(*   src/crates/stackchan-core/src/modifiers/remote_command.rs             *)
(*   src/crates/stackchan-core/src/modifiers/emotion_from_{touch,intent,   *)
(*       voice,ambient,battery}.rs, intent_from_{loud,body_touch}.rs,      *)
(*       emotion_cycle.rs                                                  *)
(*                                                                         *)
(* A frame is one round of turns, a turn one update().  Times count frames *)
(* and run down, a timer that has said all it can say stops.  Mind.tla has *)
(* the attention and the intent: here the skills' intent is a choice.  The *)
(* infrared remote is left out: the firmware maps none of its keys.        *)
(***************************************************************************)
EXTENDS Integers, Sequences

CONSTANTS
    ManualHold,     \* MANUAL_HOLD_MS, of a tap, a pickup or a shake
    GestureHold,    \* BODY_GESTURE_HOLD_MS
    WakeHold,       \* WAKE_HOLD_MS
    StartleHold,    \* STARTLE_HOLD_MS
    SleepHold,      \* AMBIENT_HOLD_MS, LOW_BATTERY_HOLD_MS
    Sustain,        \* WAKE_SUSTAIN_TICKS
    Dwell,          \* dwell_ms of the cycle
    CycleLength,    \* how much of EMOTION_ORDER the cycle goes through
    MaxHold,        \* bound: the longest hold an operator asks for
    OpEmotions,     \* bound: the emotions an operator asks for
    Inputs          \* which of the inputs there are

ASSUME HoldsAssumption ==
    /\ {ManualHold, GestureHold, WakeHold, StartleHold, SleepHold, Sustain,
        Dwell, CycleLength, MaxHold} \subseteq Nat \ {0}
    /\ CycleLength \in 2 .. 5
    /\ OpEmotions \subseteq {"Neutral", "Happy", "Sleepy", "Surprised", "Sad", "Angry"}
    /\ Inputs \subseteq {"operator", "tap", "voice", "clap", "light", "battery",
                         "body", "motion"}

Never == -1         \* the None of an Option<Instant>

VARIABLES
    turn,           \* who runs next in the frame
    emotion, until, source,     \* mind.affect, mind.autonomy; until: frames left
    chirp,          \* voice.chirp_request
    command, tap,   \* input.remote_command, input.tap_pending
    intent, mic,    \* mind.intent; perception.audio_rms, as the thresholds see it
    op,             \* RemoteCommandModifier: emotion_hold
    last_intent,    \* EmotionFromIntent
    run_loud,       \* EmotionFromVoice: consecutive_loud
    fired, was_loud,    \* IntentFromLoud
    asleep,         \* EmotionFromAmbient: is_asleep
    low, armed,     \* EmotionFromBattery: is_low, alert_armed
    body,           \* IntentFromBodyTouch
    index, started  \* EmotionCycle; started: frames since started_at

hold   == <<emotion, until, source>>
input  == <<command, tap, mic>>
loud   == <<fired, was_loud>>
power  == <<low, armed>>
cycle  == <<index, started>>
vars == <<turn, hold, chirp, input, intent, op, last_intent, run_loud, loud,
          asleep, power, body, cycle>>

EmotionOrder == <<"Neutral", "Happy", "Sleepy", "Surprised", "Sad">>
Emotions == {EmotionOrder[i] : i \in 1 .. 5} \cup {"Angry"}
Sources  == {"FaceTouch", "BodyTouch", "Remote", "Pickup", "Shake", "Voice",
             "Startle", "Ambient", "LowBattery"}
Chirps   == {"Wake", "Pickup", "Startle", "LowBatteryAlert"}
Commands == {"none", "SetEmotion", "StartListen", "Reset"}
Mics     == {"none", "quiet", "voice", "clap"}
Intents  == {"Idle", "PickedUp", "Shaken", "Startled"}
Bodies   == {"Idle", "Touched", "Swiping"}

(* The order of the phases, then of the priorities: Cognition 100; Affect -100 .. 100. *)
Order_VoiceAfterAmbient ==
    <<"Drain", "RemoteCommand", "Touch", "Intent", "Loud", "Ambient", "Voice",
      "Battery", "Body", "Cycle", "Skills">>
Order == <<"Drain", "RemoteCommand", "Touch", "Intent", "Voice", "Loud", "Ambient",
           "Battery", "Body", "Cycle", "Skills">>
Turns == {Order[i] : i \in 1 .. Len(Order)}
Runs(t) == \E i \in 1 .. Len(Order) :
    /\ Order[i] = t
    /\ turn = t
    /\ turn' = Order[IF i = Len(Order) THEN 1 ELSE i + 1]

Live == until > 0                       \* now < manual_until

Pins(e, n, s) ==
    /\ emotion' = e
    /\ until' = n
    /\ source' = s

NoHold == [emotion |-> "Neutral", left |-> Never]

Init ==
    /\ turn = "Drain"
    /\ emotion = "Neutral" /\ until = Never /\ source = "none"
    /\ chirp = "none"
    /\ command = "none" /\ tap = FALSE /\ mic = "none"
    /\ intent = "Idle"
    /\ op = NoHold
    /\ last_intent = "Idle"
    /\ run_loud = 0
    /\ fired = Never /\ was_loud = FALSE
    /\ asleep = FALSE
    /\ low = FALSE /\ armed = FALSE
    /\ body = "Idle"
    /\ index = 1 /\ started = Never

(***************************************************************************)
(* The render loop takes the chirp of the frame before, drains the signals *)
(* and hands the new time to run().                                        *)
(***************************************************************************)
Down(n) == IF n > 0 THEN n - 1 ELSE n
Up(n, cap) == IF n = Never \/ n = cap THEN n ELSE n + 1

Drain(c, t, m) ==
    /\ Runs("Drain")
    /\ c # "none" => "operator" \in Inputs
    /\ t => "tap" \in Inputs
    /\ m = "voice" => "voice" \in Inputs
    /\ m = "clap" => "clap" \in Inputs
    /\ command' = c
    /\ tap' = t
    /\ mic' = m
    /\ chirp' = "none"
    /\ until' = Down(until)
    /\ op' = [op EXCEPT !.left = Down(op.left)]
    /\ fired' = Up(fired, StartleHold)
    /\ started' = Up(started, Dwell)
    /\ UNCHANGED <<emotion, source, intent, last_intent, run_loud, was_loud,
                   asleep, power, body, index>>

-----------------------------------------------------------------------------
(***************************************************************************)
(* RemoteCommandModifier: the commands that touch the emotion or the       *)
(* chirp, then the re-assertion of a live hold or the end of one.          *)
(***************************************************************************)
EndsWith_AnySource(s) == TRUE
EndsWith(s) == s = "Remote"

Assert_Once(o, e, u, s) ==
    \/ /\ o.left # 0
       /\ Pins(e, u, s)
       /\ op' = o
    \/ /\ o.left = 0
       /\ IF EndsWith(s) THEN Pins(e, Never, "none") ELSE Pins(e, u, s)
       /\ op' = NoHold
Assert(o, e, u, s) ==
    \/ /\ o.left > 0
       /\ Pins(o.emotion, o.left, "Remote")
       /\ op' = o
    \/ /\ o.left = 0
       /\ IF EndsWith(s) THEN Pins(e, Never, "none") ELSE Pins(e, u, s)
       /\ op' = NoHold
    \/ /\ o.left = Never
       /\ Pins(e, u, s)
       /\ op' = o

Remote(e, n) ==
    /\ Runs("RemoteCommand")
    /\ \/ command = "SetEmotion" /\ Assert([emotion |-> e, left |-> n], e, n, "Remote")
       \/ command = "Reset" /\ Assert(NoHold, emotion, Never, "none")
       \/ command \in {"none", "StartListen"} /\ Assert(op, emotion, until, source)
    /\ chirp' = IF command = "StartListen" THEN "Wake" ELSE chirp
    /\ command' = "none"
    /\ UNCHANGED <<tap, mic, intent, last_intent, run_loud, loud, asleep, power,
                   body, cycle>>

-----------------------------------------------------------------------------
(* EmotionFromTouch: a tap moves on to the next emotion; else an expired hold goes. *)
NextEmotion(e) ==
    IF \E i \in 1 .. 4 : EmotionOrder[i] = e
    THEN EmotionOrder[1 + CHOOSE i \in 1 .. 4 : EmotionOrder[i] = e]
    ELSE "Neutral"

Tapped ==
    /\ Runs("Touch")
    /\ tap
    /\ tap' = FALSE
    /\ Pins(NextEmotion(emotion), ManualHold, "FaceTouch")
    /\ UNCHANGED <<chirp, command, mic, intent, op, last_intent, run_loud, loud,
                   asleep, power, body, cycle>>

Untapped_KeepsSource ==
    /\ Runs("Touch")
    /\ ~tap
    /\ until' = IF Live THEN until ELSE Never
    /\ UNCHANGED <<emotion, source, chirp, input, intent, op, last_intent,
                   run_loud, loud, asleep, power, body, cycle>>
Untapped ==
    /\ Runs("Touch")
    /\ ~tap
    /\ until' = IF Live THEN until ELSE Never
    /\ source' = IF Live THEN source ELSE "none"
    /\ UNCHANGED <<emotion, chirp, input, intent, op, last_intent, run_loud,
                   loud, asleep, power, body, cycle>>

(* EmotionFromIntent: the edge into PickedUp or Shaken, consumed even when deferred. *)
Entered == intent # last_intent /\ intent \in {"PickedUp", "Shaken"}

Handled ==
    /\ Runs("Intent")
    /\ Entered /\ ~Live
    /\ last_intent' = intent
    /\ IF intent = "PickedUp"
       THEN Pins("Surprised", ManualHold, "Pickup") /\ chirp' = "Pickup"
       ELSE Pins("Angry", ManualHold, "Shake") /\ chirp' = chirp
    /\ UNCHANGED <<input, intent, op, run_loud, loud, asleep, power, body, cycle>>

Unhandled ==
    /\ Runs("Intent")
    /\ Entered => Live
    /\ last_intent' = intent
    /\ UNCHANGED <<hold, chirp, input, intent, op, run_loud, loud, asleep, power,
                   body, cycle>>

(* EmotionFromVoice: no reset of the count while a hold is live. *)
Loud == mic \in {"voice", "clap"}
RunLoud == IF Loud THEN Up(run_loud, Sustain) ELSE 0

Woken ==
    /\ Runs("Voice")
    /\ RunLoud = Sustain /\ ~Live
    /\ run_loud' = 0
    /\ Pins("Happy", WakeHold, "Voice")
    /\ chirp' = "Wake"
    /\ UNCHANGED <<input, intent, op, last_intent, loud, asleep, power, body, cycle>>

NotWoken ==
    /\ Runs("Voice")
    /\ RunLoud = Sustain => Live
    /\ run_loud' = RunLoud
    /\ UNCHANGED <<hold, chirp, input, intent, op, last_intent, loud, asleep,
                   power, body, cycle>>

(***************************************************************************)
(* IntentFromLoud: a clap's rising edge, unless a startle is remembered or *)
(* an explicit input holds the emotion; any other hold gives way.          *)
(***************************************************************************)
Explicit == {"FaceTouch", "BodyTouch", "Remote"}
StartleOver == fired = StartleHold /\ intent = "Startled"
FiredAfter  == IF StartleOver THEN Never ELSE fired
Startles == mic = "clap" /\ ~was_loud /\ FiredAfter = Never
            /\ ~(Live /\ source \in Explicit)

Startle ==
    /\ Runs("Loud")
    /\ Startles
    /\ Pins("Surprised", StartleHold, "Startle")
    /\ intent' = "Startled"
    /\ chirp' = "Startle"
    /\ fired' = 0
    /\ was_loud' = TRUE
    /\ UNCHANGED <<input, op, last_intent, run_loud, asleep, power, body, cycle>>

NoStartle ==
    /\ Runs("Loud")
    /\ ~Startles
    /\ intent' = IF StartleOver THEN "Idle" ELSE intent
    /\ fired' = FiredAfter
    /\ was_loud' = (mic = "clap")
    /\ UNCHANGED <<hold, chirp, input, op, last_intent, run_loud, asleep, power,
                   body, cycle>>

(***************************************************************************)
(* EmotionFromAmbient: the belief follows the light, the emotion only      *)
(* without a hold.  A reading, once there is one, stays until the next.    *)
(***************************************************************************)
Ambient(lux) ==
    LET dark == lux = "dark" \/ (asleep /\ lux # "bright")
    IN  /\ Runs("Ambient")
        /\ lux = "none" => ~asleep
        /\ lux # "none" => "light" \in Inputs
        /\ asleep' = dark
        /\ \/ dark /\ ~Live /\ Pins("Sleepy", SleepHold, "Ambient")
           \/ (dark => Live) /\ UNCHANGED hold
        /\ UNCHANGED <<chirp, input, intent, op, last_intent, run_loud, loud,
                       power, body, cycle>>

(***************************************************************************)
(* EmotionFromBattery: whether the battery is low and whether its alert    *)
(* has sounded follow two pairs of thresholds.                             *)
(***************************************************************************)
StaysLow(charge) == low /\ charge # "high"

Battery(charge, usb) ==
    LET now_low == charge = "low" \/ StaysLow(charge)
        alerts  == ~armed /\ charge = "low" /\ ~usb
        sleeps  == now_low /\ ~usb /\ ~Live
    IN  /\ Runs("Battery")
        /\ charge # "none" => "battery" \in Inputs
        /\ charge = "none" => ~low
        /\ low' = now_low
        /\ armed' = (alerts \/ (armed /\ charge # "high"))
        /\ chirp' = IF alerts THEN "LowBatteryAlert" ELSE chirp
        /\ \/ sleeps /\ Pins("Sleepy", SleepHold, "LowBattery")
           \/ ~sleeps /\ UNCHANGED hold
        /\ UNCHANGED <<input, intent, op, last_intent, run_loud, loud, asleep,
                       body, cycle>>

(* IntentFromBodyTouch: a press or a swipe pins its emotion over any hold. *)
Press(e) ==
    /\ Runs("Body")
    /\ "body" \in Inputs /\ body = "Idle"
    /\ Pins(e, GestureHold, "BodyTouch")
    /\ body' = "Touched"
    /\ UNCHANGED <<chirp, input, intent, op, last_intent, run_loud, loud, asleep,
                   power, cycle>>

Swipe(e) ==
    /\ Runs("Body")
    /\ body = "Touched"
    /\ Pins(e, GestureHold, "BodyTouch")
    /\ body' = "Swiping"
    /\ UNCHANGED <<chirp, input, intent, op, last_intent, run_loud, loud, asleep,
                   power, cycle>>

(* Nothing read, no change, or the release. *)
NoGesture(released) ==
    /\ Runs("Body")
    /\ body' = IF released THEN "Idle" ELSE body
    /\ UNCHANGED <<hold, chirp, input, intent, op, last_intent, run_loud, loud,
                   asleep, power, cycle>>

(* EmotionCycle: while a hold is live the dwell starts over. *)
NextIndex == (index % CycleLength) + 1

StoodDown ==
    /\ Runs("Cycle")
    /\ Live
    /\ started' = 0
    /\ UNCHANGED <<hold, chirp, input, intent, op, last_intent, run_loud, loud,
                   asleep, power, body, index>>

Dwells ==
    /\ Runs("Cycle")
    /\ ~Live
    /\ started \in 0 .. Dwell - 1
    /\ UNCHANGED <<hold, chirp, input, intent, op, last_intent, run_loud, loud,
                   asleep, power, body, cycle>>

Cycles_Stuck ==
    /\ Runs("Cycle")
    /\ ~Live
    /\ started \in {Never, Dwell}
    /\ started' = 0
    /\ index' = 1
    /\ emotion' = EmotionOrder[1]
    /\ UNCHANGED <<until, source, chirp, input, intent, op, last_intent, run_loud,
                   loud, asleep, power, body>>
Cycles ==
    /\ Runs("Cycle")
    /\ ~Live
    /\ started \in {Never, Dwell}
    /\ started' = 0
    /\ index' = IF started = Never THEN 1 ELSE NextIndex
    /\ emotion' = EmotionOrder[index']
    /\ UNCHANGED <<until, source, chirp, input, intent, op, last_intent, run_loud,
                   loud, asleep, power, body>>

(* The skills, after the modifiers: what Mind.tla has of them, Handling, is a choice here. *)
Skills(i) ==
    /\ Runs("Skills")
    /\ i # intent => "motion" \in Inputs /\ i # "Startled"
    /\ i = "Idle" => intent # "Startled"
    /\ intent' = i
    /\ UNCHANGED <<hold, chirp, input, op, last_intent, run_loud, loud, asleep,
                   power, body, cycle>>

-----------------------------------------------------------------------------
Next ==
    \/ \E c \in Commands, t \in BOOLEAN, m \in Mics : Drain(c, t, m)
    \/ \E e \in OpEmotions, n \in 0 .. MaxHold : Remote(e, n)
    \/ Tapped
    \/ Untapped
    \/ Handled
    \/ Unhandled
    \/ Woken
    \/ NotWoken
    \/ Startle
    \/ NoStartle
    \/ \E lux \in {"none", "dark", "dim", "bright"} : Ambient(lux)
    \/ \E charge \in {"none", "low", "middling", "high"}, usb \in BOOLEAN :
           Battery(charge, usb)
    \/ \E e \in {"Sleepy", "Happy", "Surprised"} : Press(e)
    \/ \E e \in {"Happy", "Surprised"} : Swipe(e)
    \/ \E released \in BOOLEAN : NoGesture(released)
    \/ StoodDown
    \/ Dwells
    \/ Cycles
    \/ \E i \in Intents : Skills(i)

Spec == Init /\ [][Next]_vars

(* The render task's ticker keeps the frames coming. *)
FairSpec == Spec /\ WF_vars(Next)

(***************************************************************************)
(* Every variable stays in its range; there is a source exactly while      *)
(* there is a hold, and the alert has sounded only for a low battery.      *)
(***************************************************************************)
TypeOK ==
    /\ turn \in Turns
    /\ emotion \in Emotions
    /\ until \in Int /\ until >= Never
    /\ source \in Sources \cup {"none"}
    /\ (until = Never) = (source = "none")
    /\ chirp \in Chirps \cup {"none"}
    /\ command \in Commands /\ tap \in BOOLEAN /\ mic \in Mics
    /\ intent \in Intents /\ last_intent \in Intents
    /\ op \in [emotion : OpEmotions, left : 0 .. MaxHold] \cup {NoHold}
    /\ run_loud \in 0 .. Sustain
    /\ fired \in Never .. StartleHold /\ was_loud \in BOOLEAN
    /\ asleep \in BOOLEAN /\ low \in BOOLEAN /\ armed \in BOOLEAN
    /\ armed => low
    /\ body \in Bodies
    /\ index \in 1 .. CycleLength /\ started \in Never .. Dwell

(***************************************************************************)
(* What a person chose stays: while a tap, a gesture on the head or the    *)
(* operator holds the emotion, only time, a further explicit input or the  *)
(* operator's own live hold changes the emotion or the hold.               *)
(***************************************************************************)
ExplicitKept ==
    [][ Live /\ source \in Explicit =>
            \/ turn = "Drain" /\ UNCHANGED <<emotion, source>>
            \/ turn = "RemoteCommand" /\ (command # "none" \/ op.left > 0)
            \/ turn = "Touch" /\ tap
            \/ turn = "Body" /\ source' = "BodyTouch"
            \/ UNCHANGED hold ]_vars

(* A frame the operator holds ends with the operator's emotion, or a touch of that frame. *)
OperatorShows ==
    turn = "Drain" /\ op.left > 0 =>
        \/ source = "Remote" /\ until = op.left /\ emotion = op.emotion
        \/ source = "FaceTouch" /\ until = ManualHold
        \/ source = "BodyTouch" /\ until = GestureHold

(***************************************************************************)
(* "Intended to override a sleepy state on voice activity": sustained      *)
(* voice, however dark the room and however low the battery, makes the     *)
(* avatar happy, although each waits for the other's hold to run out.      *)
(***************************************************************************)
VoiceWakes ==
    <>[](mic = "voice") => []<>(turn = "Drain" /\ emotion = "Happy" /\ source = "Voice")

(***************************************************************************)
(* Left alone the avatar settles: in a quiet dark room it sleeps, in a     *)
(* quiet bright one it goes on through its whole cycle.                    *)
(***************************************************************************)
MoodSettles ==
    /\ <>[](asleep /\ ~Loud) => <>[](emotion = "Sleepy")
    /\ <>[](~asleep /\ ~low /\ ~Loud) =>
           \A i \in 1 .. CycleLength : []<>(turn = "Drain" /\ emotion = EmotionOrder[i])
=============================================================================
