---------------------------- MODULE AffectProofs ----------------------------
(***************************************************************************)
(* Proofs about Affect, for all lengths of the holds: who keeps the        *)
(* emotion from whom with all inputs, and where it ends up with nobody     *)
(* there.                                                                  *)
(***************************************************************************)
EXTENDS Affect, Descent, TLAPS

LEMMA Lengths ==
    /\ ManualHold \in Nat /\ ManualHold > 0
    /\ GestureHold \in Nat /\ GestureHold > 0
    /\ WakeHold \in Nat /\ WakeHold > 0
    /\ StartleHold \in Nat /\ StartleHold > 0
    /\ SleepHold \in Nat /\ SleepHold > 0
    /\ Sustain \in Nat /\ Sustain > 0
    /\ Dwell \in Nat /\ Dwell > 0
    /\ CycleLength \in 2 .. 5
    /\ MaxHold \in Nat /\ MaxHold > 0
  BY HoldsAssumption

LEMMA TheEmotions ==
    /\ Emotions = {"Neutral", "Happy", "Sleepy", "Surprised", "Sad", "Angry"}
    /\ \A i \in 1 .. 5 : EmotionOrder[i] \in Emotions
    /\ EmotionOrder[1] = "Neutral"
<1>1. /\ EmotionOrder[1] = "Neutral" /\ EmotionOrder[2] = "Happy"
      /\ EmotionOrder[3] = "Sleepy" /\ EmotionOrder[4] = "Surprised"
      /\ EmotionOrder[5] = "Sad"
  BY DEF EmotionOrder
<1>2. 1 .. 5 = {1, 2, 3, 4, 5}
  OBVIOUS
<1>3. {EmotionOrder[i] : i \in 1 .. 5} = {"Neutral", "Happy", "Sleepy", "Surprised", "Sad"}
  <2> HIDE DEF EmotionOrder
  <2> QED  BY <1>1, <1>2
<1> QED
  BY <1>1, <1>2, <1>3 DEF Emotions

(* The turn after a turn.                                                  *)
LEMMA TheTurns ==
    /\ Len(Order) = 11
    /\ Order[1] = "Drain" /\ Order[2] = "RemoteCommand" /\ Order[3] = "Touch"
    /\ Order[4] = "Intent" /\ Order[5] = "Voice" /\ Order[6] = "Loud"
    /\ Order[7] = "Ambient" /\ Order[8] = "Battery" /\ Order[9] = "Body"
    /\ Order[10] = "Cycle" /\ Order[11] = "Skills"
  BY DEF Order

LEMMA TurnAfter ==
    ASSUME NEW t, Runs(t)
    PROVE  /\ turn = t /\ turn' \in Turns
           /\ turn = "Drain" => turn' = "RemoteCommand"
           /\ turn # "Drain" => turn' # "RemoteCommand"
<1>1. PICK i \in 1 .. 11 : /\ Order[i] = t /\ turn = t
                           /\ turn' = Order[IF i = 11 THEN 1 ELSE i + 1]
  BY TheTurns DEF Runs
<1>2. (IF i = 11 THEN 1 ELSE i + 1) \in 1 .. 11
  OBVIOUS
<1>3. turn' \in Turns
  BY <1>1, <1>2, TheTurns DEF Turns
<1>4. turn = "Drain" => i = 1
  BY <1>1, TheTurns
<1>5. turn # "Drain" => i # 1
  BY <1>1, TheTurns
<1>6. i = 1 => turn' = "RemoteCommand"
  BY <1>1, TheTurns
<1>7. i # 1 => turn' # "RemoteCommand"
  BY <1>1, TheTurns
<1> QED
  BY <1>1, <1>3, <1>4, <1>5, <1>6, <1>7

-----------------------------------------------------------------------------
(* The parts of TypeOK, by what the turns disturb together.                *)
Times == until \in Int /\ until >= Never

HoldOK ==
    /\ emotion \in Emotions
    /\ Times
    /\ source \in Sources \cup {"none"}
    /\ (until = Never) = (source = "none")

OpOK == op \in [emotion : OpEmotions, left : 0 .. MaxHold] \cup {NoHold}

OthersOK ==
    /\ chirp \in Chirps \cup {"none"}
    /\ command \in Commands /\ tap \in BOOLEAN /\ mic \in Mics
    /\ intent \in Intents /\ last_intent \in Intents
    /\ run_loud \in 0 .. Sustain
    /\ fired \in Never .. StartleHold /\ was_loud \in BOOLEAN
    /\ body \in Bodies

PowerOK ==
    /\ asleep \in BOOLEAN /\ low \in BOOLEAN /\ armed \in BOOLEAN
    /\ armed => low

CycleOK == index \in 1 .. CycleLength /\ started \in Never .. Dwell

LEMMA Parts == TypeOK <=> turn \in Turns /\ HoldOK /\ OpOK /\ OthersOK /\ PowerOK /\ CycleOK
  BY DEF TypeOK, HoldOK, Times, OpOK, OthersOK, PowerOK, CycleOK

LEMMA PartsAfter ==
    turn' \in Turns /\ HoldOK' /\ OpOK' /\ OthersOK' /\ PowerOK' /\ CycleOK' => TypeOK'
  BY DEF TypeOK, HoldOK, Times, OpOK, OthersOK, PowerOK, CycleOK

(* A new hold of some length is in range.                                  *)
LEMMA Pinned ==
    ASSUME NEW e \in Emotions, NEW n \in Nat, NEW s \in Sources, Pins(e, n, s)
    PROVE  HoldOK'
  BY DEF Pins, HoldOK, Times, Never, Sources

LEMMA Counters ==
    /\ \A n \in Int : n >= Never => /\ Down(n) \in Int /\ Down(n) >= Never
                                    /\ Down(n) = Never <=> n = Never
                                    /\ Down(n) <= n
    /\ \A cap \in Nat : \A n \in Never .. cap : Up(n, cap) \in Never .. cap
    /\ \A cap \in Nat : \A n \in 0 .. cap : Up(n, cap) \in 0 .. cap
  BY DEF Down, Up, Never

LEMMA InitType == Init => TypeOK
<1> SUFFICES ASSUME Init PROVE TypeOK
  OBVIOUS
<1>1. turn \in Turns
  BY TheTurns DEF Init, Turns
<1>2. HoldOK
  BY TheEmotions DEF Init, HoldOK, Times, Never
<1>3. OpOK /\ PowerOK
  BY DEF Init, OpOK, PowerOK
<1>4. Never \in Never .. StartleHold /\ Never \in Never .. Dwell /\ 0 \in 0 .. Sustain
      /\ 1 \in 1 .. CycleLength
  BY Lengths DEF Never
<1>5. OthersOK
  BY <1>4 DEF Init, OthersOK, Commands, Mics, Intents, Bodies
<1>6. CycleOK
  BY <1>4 DEF Init, CycleOK
<1> QED
  BY <1>1, <1>2, <1>3, <1>5, <1>6, Parts

LEMMA DrainType ==
    ASSUME TypeOK, NEW c \in Commands, NEW t \in BOOLEAN, NEW m \in Mics, Drain(c, t, m)
    PROVE  TypeOK'
<1>0. HoldOK /\ OpOK /\ OthersOK /\ PowerOK /\ CycleOK
  BY Parts
<1>1. turn' \in Turns
  BY TurnAfter DEF Drain
<1>2. until' = Down(until) /\ UNCHANGED <<emotion, source>>
  BY DEF Drain
<1>3. HoldOK'
  BY <1>0, <1>2, Counters DEF HoldOK, Times
<1>4. op' = [op EXCEPT !.left = Down(op.left)]
  BY DEF Drain
<1>5. ASSUME op = NoHold PROVE OpOK'
  <2>1. Down(Never) = Never
    BY DEF Down, Never
  <2> QED
    BY <1>4, <1>5, <2>1 DEF NoHold, OpOK
<1>6. ASSUME op # NoHold PROVE OpOK'
  <2>1. op \in [emotion : OpEmotions, left : 0 .. MaxHold]
    BY <1>0, <1>6 DEF OpOK
  <2>2. Down(op.left) \in 0 .. MaxHold
    BY <2>1, Lengths DEF Down
  <2> QED
    BY <1>4, <2>1, <2>2 DEF OpOK
<1>7. OthersOK'
  BY <1>0, Lengths, Counters DEF Drain, OthersOK
<1>8. PowerOK'
  BY <1>0 DEF Drain, PowerOK, power
<1>9. CycleOK'
  BY <1>0, Lengths, Counters DEF Drain, CycleOK
<1>10. OpOK'
  BY <1>5, <1>6
<1> QED
  BY <1>1, <1>3, <1>7, <1>8, <1>9, <1>10, PartsAfter

(* What an assertion of a hold leaves.                                     *)
LEMMA AssertType ==
    ASSUME NEW o \in [emotion : OpEmotions, left : 0 .. MaxHold] \cup {NoHold},
           NEW e \in Emotions, NEW u \in Int, u >= Never, NEW s \in Sources \cup {"none"},
           (u = Never) = (s = "none"),
           Assert(o, e, u, s)
    PROVE  OpOK' /\ HoldOK'
<1>1. OpEmotions \subseteq Emotions
  BY HoldsAssumption, TheEmotions
<1>2. OpOK'
  BY DEF Assert, OpOK
<1>3. CASE o.left > 0 /\ Pins(o.emotion, o.left, "Remote")
  <2>1. o \in [emotion : OpEmotions, left : 0 .. MaxHold]
    BY <1>3 DEF NoHold, Never
  <2>2. o.emotion \in Emotions /\ o.left \in Nat /\ "Remote" \in Sources
    BY <1>1, <2>1, Lengths DEF Sources
  <2> QED
    BY <1>2, <1>3, <2>2, Pinned
<1>4. CASE Pins(e, Never, "none")
  <2>1. emotion' \in Emotions /\ until' = Never /\ source' = "none"
    BY <1>4 DEF Pins
  <2> QED
    BY <1>2, <2>1 DEF HoldOK, Times, Never
<1>5. CASE Pins(e, u, s)
  <2>1. emotion' \in Emotions /\ until' = u /\ source' = s
    BY <1>5 DEF Pins
  <2> QED
    BY <1>2, <2>1 DEF HoldOK, Times
<1> QED
  BY <1>3, <1>4, <1>5 DEF Assert

LEMMA RemoteType ==
    ASSUME TypeOK, NEW e \in OpEmotions, NEW n \in 0 .. MaxHold, Remote(e, n)
    PROVE  TypeOK'
<1>0. HoldOK /\ OpOK /\ OthersOK /\ PowerOK /\ CycleOK
  BY Parts
<1>1. turn' \in Turns
  BY TurnAfter DEF Remote
<1>2. OthersOK' /\ PowerOK' /\ CycleOK'
  BY <1>0 DEF Remote, OthersOK, PowerOK, CycleOK, loud, power, cycle, Commands, Chirps
<1>3. /\ emotion \in Emotions /\ until \in Int /\ until >= Never
      /\ source \in Sources \cup {"none"} /\ (until = Never) = (source = "none")
  BY <1>0 DEF HoldOK, Times
<1>4. e \in Emotions /\ n \in Int /\ n >= Never /\ n # Never
  BY HoldsAssumption, TheEmotions, Lengths DEF Never
<1>5. ASSUME Assert([emotion |-> e, left |-> n], e, n, "Remote") PROVE OpOK' /\ HoldOK'
  <2>1. [emotion |-> e, left |-> n] \in [emotion : OpEmotions, left : 0 .. MaxHold] \cup {NoHold}
    OBVIOUS
  <2>2. "Remote" \in Sources \cup {"none"} /\ (n = Never) = ("Remote" = "none")
    BY <1>4 DEF Sources
  <2> QED
    BY <1>4, <1>5, <2>1, <2>2, AssertType
<1>6. ASSUME Assert(NoHold, emotion, Never, "none") PROVE OpOK' /\ HoldOK'
  <2>1. Never \in Int /\ Never >= Never
    BY DEF Never
  <2> QED
    BY <1>3, <1>6, <2>1, AssertType
<1>7. ASSUME Assert(op, emotion, until, source) PROVE OpOK' /\ HoldOK'
  BY <1>0, <1>3, <1>7, AssertType DEF OpOK
<1>8. OpOK' /\ HoldOK'
  BY <1>5, <1>6, <1>7 DEF Remote
<1> QED
  BY <1>1, <1>2, <1>8, PartsAfter

(* Every other turn that sets a hold pins one of some length.              *)
LEMMA StepType == TypeOK /\ [Next]_vars => TypeOK'
<1> SUFFICES ASSUME TypeOK, [Next]_vars PROVE TypeOK'
  OBVIOUS
<1>0. HoldOK /\ OpOK /\ OthersOK /\ PowerOK /\ CycleOK
  BY Parts
<1> USE Lengths, TheEmotions
<1>1. ASSUME NEW c \in Commands, NEW t \in BOOLEAN, NEW m \in Mics, Drain(c, t, m)
      PROVE  TypeOK'
  BY <1>1, DrainType
<1>2. ASSUME NEW e \in OpEmotions, NEW n \in 0 .. MaxHold, Remote(e, n) PROVE TypeOK'
  BY <1>2, RemoteType
<1>3. CASE Tapped
  <2>1. NextEmotion(emotion) \in Emotions
    <3>1. \A i \in 1 .. 4 : 1 + i \in 1 .. 5
      OBVIOUS
    <3> QED
      BY <3>1 DEF NextEmotion
  <2>2. HoldOK'
    BY <1>3, <2>1, Pinned DEF Tapped, Sources
  <2>3. turn' \in Turns
    BY <1>3, TurnAfter DEF Tapped
  <2>4. OpOK' /\ OthersOK' /\ PowerOK' /\ CycleOK'
    BY <1>0, <1>3 DEF Tapped, OpOK, OthersOK, PowerOK, CycleOK, loud, power, cycle
  <2> QED
    BY <2>2, <2>3, <2>4, PartsAfter
<1>4. CASE Untapped
  <2>1. HoldOK'
    BY <1>0, <1>4 DEF Untapped, HoldOK, Times, Live, Never
  <2>2. turn' \in Turns
    BY <1>4, TurnAfter DEF Untapped
  <2>3. OpOK' /\ OthersOK' /\ PowerOK' /\ CycleOK'
    BY <1>0, <1>4 DEF Untapped, OpOK, OthersOK, PowerOK, CycleOK, input, loud, power, cycle
  <2> QED
    BY <2>1, <2>2, <2>3, PartsAfter
<1>5. CASE Handled
  <2>1. HoldOK'
    BY <1>5, Pinned DEF Handled, Sources
  <2>2. turn' \in Turns
    BY <1>5, TurnAfter DEF Handled
  <2>3. OpOK' /\ OthersOK' /\ PowerOK' /\ CycleOK'
    BY <1>0, <1>5
       DEF Handled, OpOK, OthersOK, PowerOK, CycleOK, input, loud, power, cycle, Chirps
  <2> QED
    BY <2>1, <2>2, <2>3, PartsAfter
<1>6. CASE Woken
  <2>1. HoldOK'
    BY <1>6, Pinned DEF Woken, Sources
  <2>2. turn' \in Turns
    BY <1>6, TurnAfter DEF Woken
  <2>3. OpOK' /\ OthersOK' /\ PowerOK' /\ CycleOK'
    BY <1>0, <1>6
       DEF Woken, OpOK, OthersOK, PowerOK, CycleOK, input, loud, power, cycle, Chirps
  <2> QED
    BY <2>1, <2>2, <2>3, PartsAfter
<1>7. CASE Startle
  <2>1. HoldOK'
    BY <1>7, Pinned DEF Startle, Sources
  <2>2. turn' \in Turns
    BY <1>7, TurnAfter DEF Startle
  <2>3. 0 \in Never .. StartleHold
    BY DEF Never
  <2>4. OpOK' /\ OthersOK' /\ PowerOK' /\ CycleOK'
    BY <1>0, <1>7, <2>3
       DEF Startle, OpOK, OthersOK, PowerOK, CycleOK, input, power, cycle, Chirps, Intents
  <2> QED
    BY <2>1, <2>2, <2>4, PartsAfter
<1>8. ASSUME NEW lux \in {"none", "dark", "dim", "bright"}, Ambient(lux) PROVE TypeOK'
  <2>2. ASSUME UNCHANGED hold PROVE HoldOK'
    BY <1>0, <2>2 DEF hold, HoldOK, Times
  <2>3. HoldOK'
    BY <1>8, <2>2, Pinned DEF Ambient, Sources
  <2>4. turn' \in Turns
    BY <1>8, TurnAfter DEF Ambient
  <2>5. OpOK' /\ OthersOK' /\ CycleOK'
    BY <1>0, <1>8 DEF Ambient, OpOK, OthersOK, CycleOK, input, loud, cycle
  <2>6. PowerOK'
    BY <1>0, <1>8 DEF Ambient, PowerOK, power
  <2> QED
    BY <2>3, <2>4, <2>5, <2>6, PartsAfter
<1>9. ASSUME NEW charge \in {"none", "low", "middling", "high"}, NEW usb \in BOOLEAN,
             Battery(charge, usb)
      PROVE  TypeOK'
  <2>1. ASSUME UNCHANGED hold PROVE HoldOK'
    BY <1>0, <2>1 DEF hold, HoldOK, Times
  <2>2. HoldOK'
    BY <1>9, <2>1, Pinned DEF Battery, Sources
  <2>3. turn' \in Turns
    BY <1>9, TurnAfter DEF Battery
  <2>4. OpOK' /\ OthersOK' /\ CycleOK'
    BY <1>0, <1>9 DEF Battery, OpOK, OthersOK, CycleOK, input, loud, cycle, Chirps
  <2>5. PowerOK'
    BY <1>0, <1>9 DEF Battery, PowerOK, StaysLow
  <2> QED
    BY <2>2, <2>3, <2>4, <2>5, PartsAfter
<1>10. ASSUME NEW e \in {"Sleepy", "Happy", "Surprised"}, Press(e) \/ Swipe(e) PROVE TypeOK'
  <2>1. HoldOK'
    BY <1>10, Pinned DEF Press, Swipe, Sources
  <2>2. turn' \in Turns
    BY <1>10, TurnAfter DEF Press, Swipe
  <2>3. OpOK' /\ OthersOK' /\ PowerOK' /\ CycleOK'
    BY <1>0, <1>10
       DEF Press, Swipe, OpOK, OthersOK, PowerOK, CycleOK, input, loud, power, cycle, Bodies
  <2> QED
    BY <2>1, <2>2, <2>3, PartsAfter
<1>11. CASE Cycles
  <2>1. index' \in 1 .. CycleLength
    <3>1. index \in 1 .. CycleLength /\ CycleLength \in Nat /\ CycleLength > 0
      BY <1>0 DEF CycleOK
    <3>2. index % CycleLength \in 0 .. CycleLength - 1
      BY <3>1
    <3> QED
      BY <1>11, <3>1, <3>2 DEF Cycles, NextIndex
  <2>2. emotion' \in Emotions
    BY <1>11, <2>1 DEF Cycles
  <2>3. HoldOK'
    BY <1>0, <1>11, <2>2 DEF Cycles, HoldOK, Times
  <2>4. turn' \in Turns
    BY <1>11, TurnAfter DEF Cycles
  <2>5. 0 \in Never .. Dwell
    BY DEF Never
  <2>6. CycleOK'
    BY <1>11, <2>1, <2>5 DEF Cycles, CycleOK
  <2>7. OpOK' /\ OthersOK' /\ PowerOK'
    BY <1>0, <1>11 DEF Cycles, OpOK, OthersOK, PowerOK, input, loud, power
  <2> QED
    BY <2>3, <2>4, <2>6, <2>7, PartsAfter
<1>12. CASE Unhandled
  <2>1. turn' \in Turns
    BY <1>12, TurnAfter DEF Unhandled
  <2> QED
    BY <1>0, <1>12, <2>1, PartsAfter
       DEF Unhandled, HoldOK, Times, OpOK, OthersOK, PowerOK, CycleOK, hold, input, loud, power, cycle
<1>13. CASE NotWoken
  <2>1. turn' \in Turns
    BY <1>13, TurnAfter DEF NotWoken
  <2>2. run_loud' \in 0 .. Sustain
    BY <1>0, <1>13, Counters DEF NotWoken, RunLoud, OthersOK
  <2> QED
    BY <1>0, <1>13, <2>1, <2>2, PartsAfter
       DEF NotWoken, HoldOK, Times, OpOK, OthersOK, PowerOK, CycleOK, hold, input, loud, power, cycle
<1>14. CASE NoStartle
  <2>1. turn' \in Turns
    BY <1>14, TurnAfter DEF NoStartle
  <2>2. fired' \in Never .. StartleHold /\ intent' \in Intents /\ was_loud' \in BOOLEAN
    BY <1>0, <1>14 DEF NoStartle, FiredAfter, OthersOK, Intents, Never
  <2> QED
    BY <1>0, <1>14, <2>1, <2>2, PartsAfter
       DEF NoStartle, HoldOK, Times, OpOK, OthersOK, PowerOK, CycleOK, hold, input, power, cycle
<1>15. ASSUME NEW released \in BOOLEAN, NoGesture(released) PROVE TypeOK'
  <2>1. turn' \in Turns
    BY <1>15, TurnAfter DEF NoGesture
  <2>2. body' \in Bodies
    BY <1>0, <1>15 DEF NoGesture, OthersOK, Bodies
  <2> QED
    BY <1>0, <1>15, <2>1, <2>2, PartsAfter
       DEF NoGesture, HoldOK, Times, OpOK, OthersOK, PowerOK, CycleOK, hold, input, loud, power, cycle
<1>16. CASE StoodDown \/ Dwells
  <2>1. turn' \in Turns
    BY <1>16, TurnAfter DEF StoodDown, Dwells
  <2>2. CycleOK'
    BY <1>0, <1>16 DEF StoodDown, Dwells, CycleOK, cycle, Never
  <2> QED
    BY <1>0, <1>16, <2>1, <2>2, PartsAfter
       DEF StoodDown, Dwells, HoldOK, Times, OpOK, OthersOK, PowerOK, hold, input, loud, power
<1>17. ASSUME NEW i \in Intents, Skills(i) PROVE TypeOK'
  <2>1. turn' \in Turns
    BY <1>17, TurnAfter DEF Skills
  <2> QED
    BY <1>0, <1>17, <2>1, PartsAfter
       DEF Skills, HoldOK, Times, OpOK, OthersOK, PowerOK, CycleOK, hold, input, loud, power, cycle
<1>18. CASE UNCHANGED vars
  BY <1>18 DEF vars, TypeOK, hold, input, loud, power, cycle
<1> QED
  BY <1>1, <1>2, <1>3, <1>4, <1>5, <1>6, <1>7, <1>8, <1>9, <1>10, <1>11, <1>12, <1>13,
     <1>14, <1>15, <1>16, <1>17, <1>18 DEF Next

(***************************************************************************)
(* Every variable stays in its range; a hold has a source and no source is *)
(* without a hold, whoever of the nine wrote last.                         *)
(***************************************************************************)
THEOREM TypeCorrect == Spec => []TypeOK
  BY InitType, StepType, PTL DEF Spec

-----------------------------------------------------------------------------
(***************************************************************************)
(* The operator's hold is kept twice: in the modifier and, as long as      *)
(* nobody else pins, in the shared field, where it ends at the same time.  *)
(***************************************************************************)
RemoteInv == source = "Remote" => until = op.left

(* Between the operator's turn and the next frame.                         *)
OperatorInv ==
    turn # "RemoteCommand" /\ op.left > 0 =>
        \/ source = "Remote" /\ until = op.left /\ emotion = op.emotion
        \/ source = "FaceTouch" /\ until = ManualHold
        \/ source = "BodyTouch" /\ until = GestureHold

(* Whoever stands down for a live explicit hold leaves OperatorInv alone.  *)
LEMMA HeldIsLive ==
    ASSUME TypeOK, OperatorInv, turn # "RemoteCommand", op.left > 0
    PROVE  Live /\ source \in Explicit
  BY Lengths DEF OperatorInv, Live, Explicit, TypeOK

LEMMA StepOperator == TypeOK /\ OperatorInv /\ [Next]_vars => OperatorInv'
<1> SUFFICES ASSUME TypeOK, OperatorInv, [Next]_vars PROVE OperatorInv'
  OBVIOUS
<1>1. ASSUME NEW c \in Commands, NEW t \in BOOLEAN, NEW m \in Mics, Drain(c, t, m)
      PROVE  OperatorInv'
  <2>1. turn' = "RemoteCommand"
    BY <1>1, TurnAfter DEF Drain
  <2> QED
    BY <2>1 DEF OperatorInv
<1>2. ASSUME NEW e \in OpEmotions, NEW n \in 0 .. MaxHold, Remote(e, n) PROVE OperatorInv'
  <2> SUFFICES ASSUME op'.left > 0
               PROVE  source' = "Remote" /\ until' = op'.left /\ emotion' = op'.emotion
    BY DEF OperatorInv
  <2>1. PICK o, f, u, s : Assert(o, f, u, s)
    BY <1>2 DEF Remote
  <2>2. op' # NoHold
    BY DEF NoHold, Never
  <2>3. CASE o.left > 0 /\ Pins(o.emotion, o.left, "Remote") /\ op' = o
    BY <2>3 DEF Pins
  <2>4. CASE o.left = Never /\ op' = o
    BY <2>4 DEF Never
  <2> QED
    BY <2>1, <2>2, <2>3, <2>4 DEF Assert
<1>3. CASE Tapped
  BY <1>3 DEF Tapped, Pins, OperatorInv
<1>4. ASSUME NEW e \in {"Sleepy", "Happy", "Surprised"}, Press(e) \/ Swipe(e)
      PROVE  OperatorInv'
  BY <1>4 DEF Press, Swipe, Pins, OperatorInv
<1>5. CASE Untapped \/ Handled \/ Woken \/ Startle \/ Cycles
           \/ \E lux \in {"none", "dark", "dim", "bright"} : Ambient(lux)
           \/ \E charge \in {"none", "low", "middling", "high"}, usb \in BOOLEAN :
                  Battery(charge, usb)
  <2> SUFFICES ASSUME op'.left > 0 PROVE OperatorInv'
    BY DEF OperatorInv
  <2>1. op' = op
    BY <1>5 DEF Untapped, Handled, Woken, Startle, Cycles, Ambient, Battery
  <2>2. turn # "RemoteCommand"
    <3>1. \E t \in {"Touch", "Intent", "Voice", "Loud", "Ambient", "Battery", "Cycle"} : Runs(t)
      BY <1>5 DEF Untapped, Handled, Woken, Startle, Cycles, Ambient, Battery
    <3> QED
      BY <3>1, TurnAfter
  <2>3. Live /\ source \in Explicit
    BY <2>1, <2>2, HeldIsLive
  <2>4. UNCHANGED hold
    BY <1>5, <2>3 DEF Untapped, Handled, Woken, Startle, Startles, Cycles, Ambient, Battery, hold
  <2> QED
    BY <2>1, <2>2, <2>4 DEF OperatorInv, hold
<1>6. CASE Unhandled \/ NotWoken \/ NoStartle \/ StoodDown \/ Dwells
           \/ (\E released \in BOOLEAN : NoGesture(released))
           \/ (\E i \in Intents : Skills(i))
  <2>1. UNCHANGED <<hold, op>>
    BY <1>6 DEF Unhandled, NotWoken, NoStartle, StoodDown, Dwells, NoGesture, Skills
  <2>2. turn # "RemoteCommand"
    <3>1. \E t \in {"Intent", "Voice", "Loud", "Body", "Cycle", "Skills"} : Runs(t)
      BY <1>6 DEF Unhandled, NotWoken, NoStartle, StoodDown, Dwells, NoGesture, Skills
    <3> QED
      BY <3>1, TurnAfter
  <2> QED
    BY <2>1, <2>2 DEF OperatorInv, hold
<1>7. CASE UNCHANGED vars
  BY <1>7 DEF vars, OperatorInv, hold
<1> QED
  BY <1>1, <1>2, <1>3, <1>4, <1>5, <1>6, <1>7 DEF Next

(***************************************************************************)
(* A frame the operator holds ends with the operator's emotion, or a touch *)
(* of that frame.                                                          *)
(***************************************************************************)
THEOREM OperatorAlways == Spec => []OperatorShows
<1>1. Init => OperatorInv
  BY DEF Init, OperatorInv, NoHold, Never
<1>2. OperatorInv => OperatorShows
  BY DEF OperatorInv, OperatorShows
<1> QED
  BY InitType, StepType, StepOperator, <1>1, <1>2, PTL DEF Spec

-----------------------------------------------------------------------------
LEMMA StepRemote == TypeOK /\ RemoteInv /\ [Next]_vars => RemoteInv'
<1> SUFFICES ASSUME TypeOK, RemoteInv, [Next]_vars PROVE RemoteInv'
  OBVIOUS
<1>1. ASSUME NEW c \in Commands, NEW t \in BOOLEAN, NEW m \in Mics, Drain(c, t, m)
      PROVE  RemoteInv'
  <2>1. op'.left = Down(op.left) /\ until' = Down(until) /\ source' = source
    BY <1>1 DEF Drain, TypeOK, NoHold
  <2> QED
    BY <2>1 DEF RemoteInv
<1>2. ASSUME NEW e \in OpEmotions, NEW n \in 0 .. MaxHold, Remote(e, n) PROVE RemoteInv'
  <2>1. CASE Assert([emotion |-> e, left |-> n], e, n, "Remote")
    BY <2>1 DEF Assert, EndsWith, Pins, RemoteInv
  <2>2. CASE Assert(NoHold, emotion, Never, "none")
    BY <2>2 DEF Assert, Pins, RemoteInv, NoHold
  <2>3. CASE Assert(op, emotion, until, source)
    BY <2>3 DEF Assert, Pins, EndsWith, RemoteInv
  <2> QED
    BY <1>2, <2>1, <2>2, <2>3 DEF Remote
<1>3. ASSUME op' = op, UNCHANGED hold PROVE RemoteInv'
  BY <1>3 DEF RemoteInv, hold
<1>4. ASSUME op' = op, source' # "Remote" PROVE RemoteInv'
  BY <1>4 DEF RemoteInv
<1>5. CASE Tapped \/ Handled \/ Woken \/ Startle
  BY <1>4, <1>5 DEF Tapped, Handled, Woken, Startle, Pins
<1>6. CASE Untapped
  <2>1. CASE Live
    BY <1>6, <2>1, <1>3 DEF Untapped, hold
  <2>2. CASE ~Live
    BY <1>6, <2>2, <1>4 DEF Untapped
  <2> QED
    BY <2>1, <2>2
<1>7. ASSUME NEW lux \in {"none", "dark", "dim", "bright"}, Ambient(lux) PROVE RemoteInv'
  BY <1>3, <1>4, <1>7 DEF Ambient, Pins
<1>8. ASSUME NEW charge \in {"none", "low", "middling", "high"}, NEW usb \in BOOLEAN,
             Battery(charge, usb)
      PROVE  RemoteInv'
  BY <1>3, <1>4, <1>8 DEF Battery, Pins
<1>9. ASSUME NEW e \in {"Sleepy", "Happy", "Surprised"}, Press(e) \/ Swipe(e)
      PROVE  RemoteInv'
  BY <1>4, <1>9 DEF Press, Swipe, Pins
<1>10. CASE Cycles
  BY <1>10 DEF Cycles, RemoteInv
<1>11. CASE Unhandled \/ NotWoken \/ NoStartle \/ StoodDown \/ Dwells
            \/ (\E released \in BOOLEAN : NoGesture(released))
            \/ (\E i \in Intents : Skills(i))
  BY <1>3, <1>11 DEF Unhandled, NotWoken, NoStartle, StoodDown, Dwells, NoGesture, Skills
<1>12. CASE UNCHANGED vars
  BY <1>12, <1>3 DEF vars
<1> QED
  BY <1>1, <1>2, <1>5, <1>6, <1>7, <1>8, <1>9, <1>10, <1>11, <1>12 DEF Next

(* What ExplicitKept asks of a step that finds an explicit hold live.      *)
Kept ==
    \/ turn = "Drain" /\ UNCHANGED <<emotion, source>>
    \/ turn = "RemoteCommand" /\ (command # "none" \/ op.left > 0)
    \/ turn = "Touch" /\ tap
    \/ turn = "Body" /\ source' = "BodyTouch"
    \/ UNCHANGED hold

LEMMA KeptStep ==
    TypeOK /\ RemoteInv /\ [Next]_vars => [Live /\ source \in Explicit => Kept]_vars
<1> SUFFICES ASSUME TypeOK, RemoteInv, Next, Live, source \in Explicit PROVE Kept
  OBVIOUS
<1>1. ASSUME NEW c \in Commands, NEW t \in BOOLEAN, NEW m \in Mics, Drain(c, t, m)
      PROVE  Kept
  BY <1>1, TurnAfter DEF Drain, Kept
<1>2. ASSUME NEW e \in OpEmotions, NEW n \in 0 .. MaxHold, Remote(e, n) PROVE Kept
  <2>1. turn = "RemoteCommand"
    BY <1>2, TurnAfter DEF Remote
  <2> SUFFICES ASSUME command = "none", ~(op.left > 0) PROVE UNCHANGED hold
    BY <2>1 DEF Kept
  <2>2. Assert(op, emotion, until, source)
    BY <1>2 DEF Remote
  <2>3. op.left = 0 => source # "Remote"
    BY DEF RemoteInv, Live
  <2> QED
    BY <2>2, <2>3 DEF Assert, EndsWith, Pins, hold
<1>3. CASE Tapped
  BY <1>3, TurnAfter DEF Tapped, Kept
<1>4. ASSUME NEW e \in {"Sleepy", "Happy", "Surprised"}, Press(e) \/ Swipe(e) PROVE Kept
  BY <1>4, TurnAfter DEF Press, Swipe, Pins, Kept
<1>5. CASE Untapped \/ Handled \/ Woken \/ Startle \/ Cycles
           \/ (\E lux \in {"none", "dark", "dim", "bright"} : Ambient(lux))
           \/ (\E charge \in {"none", "low", "middling", "high"}, usb \in BOOLEAN :
                   Battery(charge, usb))
  BY <1>5 DEF Untapped, Handled, Woken, Startle, Startles, Cycles, Ambient, Battery, hold, Kept
<1>6. CASE Unhandled \/ NotWoken \/ NoStartle \/ StoodDown \/ Dwells
           \/ (\E released \in BOOLEAN : NoGesture(released))
           \/ (\E i \in Intents : Skills(i))
  BY <1>6 DEF Unhandled, NotWoken, NoStartle, StoodDown, Dwells, NoGesture, Skills, Kept
<1> QED
  BY <1>1, <1>2, <1>3, <1>4, <1>5, <1>6 DEF Next

(***************************************************************************)
(* What a person chose stays until time or a person ends it.               *)
(***************************************************************************)
THEOREM ExplicitAlways == Spec => ExplicitKept
<1>1. Init => RemoteInv
  BY DEF Init, RemoteInv
<1> QED
  BY InitType, StepType, StepRemote, KeptStep, <1>1, PTL DEF Spec, ExplicitKept, Kept

-----------------------------------------------------------------------------
(***************************************************************************)
(* Whoever holds the emotion: a live hold counts down, and only the        *)
(* operator, a touch and a clap put another in its place.                  *)
(***************************************************************************)
CountsDown == UNCHANGED <<emotion, source>> /\ until' = until - 1
Waits ==
    \/ turn = "Drain" /\ CountsDown
    \/ turn = "RemoteCommand" /\ (command # "none" \/ op.left > 0)
    \/ turn = "Touch" /\ tap
    \/ turn = "Loud" /\ mic = "clap" /\ source \notin Explicit
    \/ turn = "Body" /\ source' = "BodyTouch"
    \/ turn # "Drain" /\ UNCHANGED hold

LEMMA WaitsStep == TypeOK /\ RemoteInv /\ [Next]_vars => [Live => Waits]_vars
<1> SUFFICES ASSUME TypeOK, RemoteInv, Next, Live PROVE Waits
  OBVIOUS
<1>1. ASSUME NEW c \in Commands, NEW t \in BOOLEAN, NEW m \in Mics, Drain(c, t, m)
      PROVE  Waits
  BY <1>1, TurnAfter DEF Drain, Down, Live, CountsDown, Waits
<1>2. ASSUME NEW e \in OpEmotions, NEW n \in 0 .. MaxHold, Remote(e, n) PROVE Waits
  <2>1. turn = "RemoteCommand"
    BY <1>2, TurnAfter DEF Remote
  <2> SUFFICES ASSUME command = "none", ~(op.left > 0) PROVE UNCHANGED hold
    BY <2>1 DEF Waits
  <2>2. Assert(op, emotion, until, source)
    BY <1>2 DEF Remote
  <2>3. op.left = 0 => source # "Remote"
    BY DEF RemoteInv, Live
  <2> QED
    BY <2>2, <2>3 DEF Assert, EndsWith, Pins, hold
<1>3. CASE Tapped
  BY <1>3, TurnAfter DEF Tapped, Waits
<1>4. ASSUME NEW e \in {"Sleepy", "Happy", "Surprised"}, Press(e) \/ Swipe(e) PROVE Waits
  BY <1>4, TurnAfter DEF Press, Swipe, Pins, Waits
<1>5. CASE Startle
  BY <1>5, TurnAfter DEF Startle, Startles, Waits
<1>6. ASSUME turn # "Drain", UNCHANGED hold PROVE Waits
  BY <1>6 DEF Waits
<1>7. CASE Untapped \/ Handled \/ Woken \/ Cycles
  BY <1>6, <1>7, TurnAfter DEF Untapped, Handled, Woken, Cycles, hold
<1>8. ASSUME NEW lux \in {"none", "dark", "dim", "bright"}, Ambient(lux) PROVE Waits
  BY <1>6, <1>8, TurnAfter DEF Ambient
<1>9. ASSUME NEW charge \in {"none", "low", "middling", "high"}, NEW usb \in BOOLEAN,
             Battery(charge, usb)
      PROVE  Waits
  BY <1>6, <1>9, TurnAfter DEF Battery
<1>10. CASE Unhandled \/ NotWoken \/ NoStartle \/ StoodDown \/ Dwells
            \/ (\E released \in BOOLEAN : NoGesture(released))
            \/ (\E i \in Intents : Skills(i))
  BY <1>6, <1>10, TurnAfter
     DEF Unhandled, NotWoken, NoStartle, StoodDown, Dwells, NoGesture, Skills
<1> QED
  BY <1>1, <1>2, <1>3, <1>4, <1>5, <1>7, <1>8, <1>9, <1>10 DEF Next

(***************************************************************************)
(* No reaction renews a hold that is live, its own or another's: darkness, *)
(* low battery, a voice, being lifted and the cycle wait until it has run  *)
(* out, which is why none of them starves another.                         *)
(***************************************************************************)
THEOREM ReactionsWait == Spec => [][Live => Waits]_vars
<1>1. Init => RemoteInv
  BY DEF Init, RemoteInv
<1> QED
  BY InitType, StepType, StepRemote, WaitsStep, <1>1, PTL DEF Spec

-----------------------------------------------------------------------------
(***************************************************************************)
(* VoiceWakes and MoodSettles, in a room with voice, light and battery but *)
(* nobody who touches the avatar: once the hold in force and the counters  *)
(* have run out, each reaction gets its turn.  That they run out is        *)
(* induction over a temporal formula and TLC's part; ReactionsWait is the  *)
(* step of it.                                                             *)
(***************************************************************************)
Room == Inputs \subseteq {"voice", "light", "battery"}

Alone ==
    /\ TypeOK
    /\ op = NoHold /\ command = "none" /\ ~tap /\ mic # "clap"
    /\ intent = "Idle" /\ last_intent = "Idle" /\ body = "Idle"

(* The turns, one by one.                                                  *)
LEMMA TurnOrder ==
    ASSUME NEW t, Runs(t)
    PROVE  /\ turn = t
           /\ t = "Drain" => turn' = "RemoteCommand"
           /\ t = "RemoteCommand" => turn' = "Touch"
           /\ t = "Touch" => turn' = "Intent"
           /\ t = "Intent" => turn' = "Voice"
           /\ t = "Voice" => turn' = "Loud"
           /\ t = "Loud" => turn' = "Ambient"
           /\ t = "Ambient" => turn' = "Battery"
           /\ t = "Battery" => turn' = "Body"
           /\ t = "Body" => turn' = "Cycle"
           /\ t = "Cycle" => turn' = "Skills"
           /\ t = "Skills" => turn' = "Drain"
<1>1. PICK i \in 1 .. 11 : /\ Order[i] = t /\ turn = t
                           /\ turn' = Order[IF i = 11 THEN 1 ELSE i + 1]
  BY TheTurns DEF Runs
<1>2. i \in {1, 2, 3, 4, 5, 6, 7, 8, 9, 10, 11}
  BY <1>1
<1> QED
  BY <1>1, <1>2, TheTurns

(* What is left of the turns when nobody is there.                         *)
mood == <<hold, run_loud, asleep, low, cycle>>
Darkens == \E lux \in {"none", "dark", "dim", "bright"} : Ambient(lux)
Drains  == \E charge \in {"none", "low", "middling", "high"}, usb \in BOOLEAN :
               Battery(charge, usb)
Frames ==
    /\ emotion' = emotion /\ source' = source /\ until' = Down(until)
    /\ started' = Up(started, Dwell)
    /\ UNCHANGED <<run_loud, asleep, low, index>>

LEMMA RoomTurns ==
    ASSUME Room, Alone, Next
    PROVE  /\ turn = "Drain" => Frames
           /\ turn \in {"RemoteCommand", "Intent", "Loud", "Body", "Skills"} => UNCHANGED mood
           /\ turn = "Touch" => Untapped
           /\ turn = "Voice" => Woken \/ NotWoken
           /\ turn = "Ambient" => Darkens
           /\ turn = "Battery" => Drains
           /\ turn = "Cycle" => StoodDown \/ Dwells \/ Cycles
<1> USE DEF Alone, Room
<1>1. ASSUME NEW c \in Commands, NEW t \in BOOLEAN, NEW m \in Mics, Drain(c, t, m)
      PROVE  turn = "Drain" /\ Frames
  BY <1>1, TurnOrder DEF Drain, Frames, power
<1>2. ASSUME NEW e \in OpEmotions, NEW n \in 0 .. MaxHold, Remote(e, n)
      PROVE  turn = "RemoteCommand" /\ UNCHANGED mood
  <2>1. Assert(NoHold, emotion, until, source)
    BY <1>2 DEF Remote
  <2>2. UNCHANGED hold
    BY <2>1 DEF Assert, NoHold, Never, Pins, hold
  <2> QED
    BY <1>2, <2>2, TurnOrder DEF Remote, power, mood
<1>3. CASE Tapped
  BY <1>3 DEF Tapped
<1>4. CASE Untapped
  BY <1>4, TurnOrder DEF Untapped
<1>5. CASE Handled \/ Unhandled
  <2>1. ~Handled
    BY DEF Handled, Entered
  <2> QED
    BY <1>5, <2>1, TurnOrder DEF Unhandled, power, mood
<1>6. CASE Woken \/ NotWoken
  BY <1>6, TurnOrder DEF Woken, NotWoken
<1>7. CASE Startle \/ NoStartle
  <2>1. ~Startle
    BY DEF Startle, Startles
  <2> QED
    BY <1>7, <2>1, TurnOrder DEF NoStartle, power, mood
<1>8. CASE Darkens
  BY <1>8, TurnOrder DEF Darkens, Ambient
<1>9. CASE Drains
  BY <1>9, TurnOrder DEF Drains, Battery
<1>10. ASSUME NEW e \in {"Sleepy", "Happy", "Surprised"}, Press(e) \/ Swipe(e) PROVE FALSE
  BY <1>10 DEF Press, Swipe
<1>11. ASSUME NEW r \in BOOLEAN, NoGesture(r) PROVE turn = "Body" /\ UNCHANGED mood
  BY <1>11, TurnOrder DEF NoGesture, power, mood
<1>12. CASE StoodDown \/ Dwells \/ Cycles
  BY <1>12, TurnOrder DEF StoodDown, Dwells, Cycles
<1>13. ASSUME NEW i \in Intents, Skills(i) PROVE turn = "Skills" /\ UNCHANGED mood
  BY <1>13, TurnOrder DEF Skills, power, mood
<1> QED
  BY <1>1, <1>2, <1>3, <1>4, <1>5, <1>6, <1>7, <1>8, <1>9, <1>10, <1>11, <1>12, <1>13
     DEF Next, Darkens, Drains

LEMMA AloneStep == Room => (Alone /\ [Next]_vars => Alone')
<1> SUFFICES ASSUME Room, Alone, [Next]_vars PROVE Alone'
  OBVIOUS
<1>1. TypeOK'
  BY StepType DEF Alone
<1> SUFFICES /\ op' = NoHold /\ command' = "none" /\ ~tap' /\ mic' # "clap"
             /\ intent' = "Idle" /\ last_intent' = "Idle" /\ body' = "Idle"
  BY <1>1 DEF Alone
<1> USE DEF Alone, Room
<1>2. ASSUME NEW c \in Commands, NEW t \in BOOLEAN, NEW m \in Mics, Drain(c, t, m)
      PROVE  /\ op' = NoHold /\ command' = "none" /\ ~tap' /\ mic' # "clap"
             /\ intent' = "Idle" /\ last_intent' = "Idle" /\ body' = "Idle"
  <2>1. op' = NoHold
    BY <1>2 DEF Drain, Down, NoHold, Never
  <2> QED
    BY <1>2, <2>1 DEF Drain
<1>3. ASSUME NEW e \in OpEmotions, NEW n \in 0 .. MaxHold, Remote(e, n)
      PROVE  /\ op' = NoHold /\ command' = "none" /\ ~tap' /\ mic' # "clap"
             /\ intent' = "Idle" /\ last_intent' = "Idle" /\ body' = "Idle"
  <2>1. op' = NoHold
    BY <1>3 DEF Remote, Assert, NoHold, Never
  <2> QED
    BY <1>3, <2>1 DEF Remote
<1>4. CASE Untapped \/ Unhandled \/ Woken \/ NotWoken \/ NoStartle \/ StoodDown \/ Dwells
           \/ Cycles \/ (\E r \in BOOLEAN : NoGesture(r)) \/ (\E i \in Intents : Skills(i))
  BY <1>4 DEF Untapped, Unhandled, Woken, NotWoken, NoStartle, StoodDown, Dwells, Cycles,
              NoGesture, Skills, input, StartleOver
<1>5. CASE Darkens \/ Drains
  BY <1>5 DEF Darkens, Drains, Ambient, Battery, input
<1>6. ~Tapped /\ ~Handled /\ ~Startle
      /\ ~(\E e \in {"Sleepy", "Happy", "Surprised"} : Press(e))
      /\ ~(\E e \in {"Happy", "Surprised"} : Swipe(e))
  BY DEF Tapped, Handled, Entered, Startle, Startles, Press, Swipe
<1>7. CASE UNCHANGED vars
  BY <1>7 DEF vars, input
<1> QED
  BY <1>2, <1>3, <1>4, <1>5, <1>6, <1>7 DEF Next, Darkens, Drains

LEMMA AlwaysAlone == ASSUME Room PROVE Spec => []Alone
<1>1. Init => Alone
  BY InitType DEF Init, Alone
<1> QED
  BY <1>1, AloneStep, PTL DEF Spec

-----------------------------------------------------------------------------
LEMMA TurnPasses ==
    ASSUME Next, turn \in Turns
    PROVE  \E t \in Turns : Runs(t)
<1>1. PICK t : Runs(t)
  BY DEF Next, Drain, Remote, Tapped, Untapped, Handled, Unhandled, Woken, NotWoken, Startle,
     NoStartle, Ambient, Battery, Press, Swipe, NoGesture, StoodDown, Dwells, Cycles, Skills
<1> QED
  BY <1>1, TurnOrder

LEMMA NextTurn ==
    ASSUME turn \in Turns, Next
    PROVE  /\ turn = "Drain" => turn' = "RemoteCommand"
           /\ turn = "RemoteCommand" => turn' = "Touch"
           /\ turn = "Touch" => turn' = "Intent"
           /\ turn = "Intent" => turn' = "Voice"
           /\ turn = "Voice" => turn' = "Loud"
           /\ turn = "Loud" => turn' = "Ambient"
           /\ turn = "Ambient" => turn' = "Battery"
           /\ turn = "Battery" => turn' = "Body"
           /\ turn = "Body" => turn' = "Cycle"
           /\ turn = "Cycle" => turn' = "Skills"
           /\ turn = "Skills" => turn' = "Drain"
  BY TurnPasses, TurnOrder

(* Frame follows frame, turn by turn.                                      *)
LEMMA EveryTurnComes ==
    FairSpec /\ []ENABLED <<Next>>_vars
        => /\ []<>(turn = "Drain") /\ []<>(turn = "Voice") /\ []<>(turn = "Loud")
           /\ []<>(turn = "Skills")
<1>1. TypeOK /\ [Next]_vars =>
          /\ turn = "Drain" => (turn = "Drain")' \/ (turn = "RemoteCommand")'
          /\ turn = "RemoteCommand" => (turn = "RemoteCommand")' \/ (turn = "Touch")'
          /\ turn = "Touch" => (turn = "Touch")' \/ (turn = "Intent")'
          /\ turn = "Intent" => (turn = "Intent")' \/ (turn = "Voice")'
          /\ turn = "Voice" => (turn = "Voice")' \/ (turn = "Loud")'
          /\ turn = "Loud" => (turn = "Loud")' \/ (turn = "Ambient")'
          /\ turn = "Ambient" => (turn = "Ambient")' \/ (turn = "Battery")'
          /\ turn = "Battery" => (turn = "Battery")' \/ (turn = "Body")'
          /\ turn = "Body" => (turn = "Body")' \/ (turn = "Cycle")'
          /\ turn = "Cycle" => (turn = "Cycle")' \/ (turn = "Skills")'
          /\ turn = "Skills" => (turn = "Skills")' \/ (turn = "Drain")'
  BY NextTurn DEF TypeOK, vars
<1>2. TypeOK /\ <<Next>>_vars =>
          /\ turn = "Drain" => (turn = "RemoteCommand")'
          /\ turn = "RemoteCommand" => (turn = "Touch")'
          /\ turn = "Touch" => (turn = "Intent")'
          /\ turn = "Intent" => (turn = "Voice")'
          /\ turn = "Voice" => (turn = "Loud")'
          /\ turn = "Loud" => (turn = "Ambient")'
          /\ turn = "Ambient" => (turn = "Battery")'
          /\ turn = "Battery" => (turn = "Body")'
          /\ turn = "Body" => (turn = "Cycle")'
          /\ turn = "Cycle" => (turn = "Skills")'
          /\ turn = "Skills" => (turn = "Drain")'
  BY NextTurn DEF TypeOK
<1>3. TypeOK => \/ turn = "Drain" \/ turn = "RemoteCommand" \/ turn = "Touch" \/ turn = "Intent"
                \/ turn = "Voice" \/ turn = "Loud" \/ turn = "Ambient" \/ turn = "Battery"
                \/ turn = "Body" \/ turn = "Cycle" \/ turn = "Skills"
  BY TheTurns DEF TypeOK, Turns
<1> QED
  BY <1>1, <1>2, <1>3, TypeCorrect, PTL DEF FairSpec, Spec

-----------------------------------------------------------------------------
(* After the voice's turn a live hold keeps whoever comes later from it.   *)
Later == {"Loud", "Ambient", "Battery", "Body", "Cycle", "Skills"}

LEMMA LiveKeeps ==
    ASSUME Room, Alone, Next, turn \in Later, Live
    PROVE  UNCHANGED hold
<1>1. CASE turn = "Ambient"
  BY <1>1, RoomTurns DEF Darkens, Ambient
<1>2. CASE turn = "Battery"
  BY <1>2, RoomTurns DEF Drains, Battery
<1>3. CASE turn = "Cycle"
  BY <1>3, RoomTurns DEF StoodDown, Dwells, Cycles
<1>4. CASE turn \in {"Loud", "Body", "Skills"}
  BY <1>4, RoomTurns DEF mood
<1> QED
  BY <1>1, <1>2, <1>3, <1>4 DEF Later

Full  == RunLoud = Sustain
Guard == turn \in Later => Live
Free  == turn \notin Later /\ ~Live
Glad  == turn \in Later /\ Live /\ emotion = "Happy" /\ source = "Voice"
Shows == turn = "Drain" /\ emotion = "Happy" /\ source = "Voice"

LEMMA VoiceTurn ==
    ASSUME Room, Alone, Full, turn = "Voice", Next
    PROVE  turn' = "Loud" /\ (Glad' \/ (UNCHANGED hold /\ Live /\ run_loud' = RunLoud))
<1>1. turn' = "Loud"
  BY NextTurn DEF Alone, TypeOK
<1>2. CASE Woken
  BY <1>1, <1>2, Lengths DEF Woken, Pins, Glad, Later, Live
<1>3. CASE NotWoken
  BY <1>1, <1>3 DEF NotWoken, Full
<1> QED
  BY <1>1, <1>2, <1>3, RoomTurns

(* While a voice goes on, the count of loud frames stays full until it is used. *)
LEMMA FullStays ==
    ASSUME Room, Alone, mic = "voice", mic' = "voice", Full, [Next]_vars
    PROVE  Full' \/ Glad'
<1>1. run_loud' \in {run_loud, RunLoud} \/ Glad'
  <2>1. CASE Next /\ turn = "Voice"
    BY <2>1, VoiceTurn
  <2>2. CASE Next /\ turn # "Voice"
    <3>1. CASE turn \in {"RemoteCommand", "Intent", "Loud", "Body", "Skills"}
      BY <2>2, <3>1, RoomTurns DEF mood
    <3>2. CASE turn \in {"Drain", "Touch", "Ambient", "Battery", "Cycle"}
      BY <2>2, <3>2, RoomTurns DEF Frames, Untapped, Darkens, Ambient, Drains, Battery,
         StoodDown, Dwells, Cycles
    <3> QED
      BY <2>2, <3>1, <3>2, TheTurns DEF Alone, TypeOK, Turns
  <2>3. CASE UNCHANGED vars
    BY <2>3 DEF vars
  <2> QED
    BY <2>1, <2>2, <2>3
<1>2. Loud /\ Loud'
  BY DEF Loud
<1>3. run_loud \in 0 .. Sustain /\ Sustain \in Nat \ {0}
  BY Lengths DEF Alone, TypeOK
<1>4. ASSUME run_loud' \in {run_loud, RunLoud} PROVE Full'
  BY <1>2, <1>3, <1>4 DEF Full, RunLoud, Up, Never
<1> QED
  BY <1>1, <1>4

LEMMA GuardStays ==
    ASSUME Room, Alone, Full, Guard, [Next]_vars
    PROVE  Guard' \/ Glad'
<1>1. CASE Next /\ turn \in Later
  BY <1>1, LiveKeeps DEF Guard, Live, hold
<1>2. CASE Next /\ turn = "Voice"
  BY <1>2, VoiceTurn DEF Guard, Live, hold
<1>3. CASE Next /\ turn \in {"Drain", "RemoteCommand", "Touch", "Intent"}
  BY <1>3, NextTurn DEF Guard, Later, Alone, TypeOK
<1>4. CASE UNCHANGED vars
  BY <1>4 DEF vars, hold, Guard, Live
<1> QED
  BY <1>1, <1>2, <1>3, <1>4, TheTurns DEF Alone, TypeOK, Turns, Later

(* With no hold in force the next turn of the voice pins its emotion.      *)
LEMMA FreeStays ==
    ASSUME Room, Alone, Full, Free, [Next]_vars
    PROVE  Free' \/ Glad'
<1>1. CASE Next /\ turn = "Voice"
  BY <1>1, VoiceTurn DEF Free
<1>2. CASE Next /\ turn \in {"Drain", "RemoteCommand", "Touch", "Intent"}
  <2>1. turn' \notin Later
    BY <1>2, NextTurn DEF Later, Alone, TypeOK
  <2>2. until' \in {until, Down(until), Never}
    BY <1>2, RoomTurns DEF Frames, Untapped, mood, hold
  <2>3. ~Live'
    BY <2>2 DEF Free, Live, Down, Alone, TypeOK, Never
  <2> QED
    BY <2>1, <2>3 DEF Free
<1>3. CASE UNCHANGED vars
  BY <1>3 DEF vars, hold, Free, Live
<1> QED
  BY <1>1, <1>2, <1>3, TheTurns DEF Alone, TypeOK, Turns, Later, Free

LEMMA GladStays ==
    ASSUME Room, Alone, Glad, [Next]_vars
    PROVE  Glad' \/ Shows'
<1>1. CASE Next
  <2>1. UNCHANGED hold
    BY <1>1, LiveKeeps DEF Glad
  <2>2. turn' \in Later \/ turn' = "Drain"
    BY <1>1, NextTurn DEF Glad, Later, Alone, TypeOK
  <2> QED
    BY <2>1, <2>2 DEF Glad, Shows, hold, Live
<1>2. CASE UNCHANGED vars
  BY <1>2 DEF vars, hold, Glad, Live
<1> QED
  BY <1>1, <1>2

(* A voice is heard once the hold of the moment has run out.               *)
LEMMA VoiceWakesOnceRunOut ==
    ASSUME Room
    PROVE  FairSpec /\ []ENABLED <<Next>>_vars /\ []<>~Live
               /\ (<>[](mic = "voice") => []<>(RunLoud = Sustain))
               => VoiceWakes
<1>1. Alone /\ mic = "voice" /\ (mic = "voice")' /\ Full /\ [Next]_vars => Full' \/ Glad'
  BY FullStays
<1>2. Alone /\ Full /\ Guard /\ [Next]_vars => Guard' \/ Glad'
  BY GuardStays
<1>3. Alone /\ Full /\ Free /\ [Next]_vars => Free' \/ Glad'
  BY FreeStays
<1>4. Alone /\ Glad /\ [Next]_vars => Glad' \/ Shows'
  BY GladStays
<1>5. /\ Guard /\ ~Live => Free
      /\ turn = "Drain" => Guard /\ ~Glad
      /\ turn = "Loud" => ~Free
  BY DEF Guard, Free, Glad, Later
<1> QED
  BY <1>1, <1>2, <1>3, <1>4, <1>5, AlwaysAlone, EveryTurnComes, PTL
     DEF FairSpec, Spec, VoiceWakes, Full, Shows

-----------------------------------------------------------------------------
(* In the dark the hold of sleep is renewed before anyone can take it over. *)
Nightly == turn \in {"Battery", "Body", "Cycle", "Skills"} => Live
Drowsy  == turn \notin {"Battery", "Body", "Cycle", "Skills"} /\ ~Live
Sleepy  == emotion = "Sleepy"

LEMMA QuietVoice ==
    ASSUME Room, Alone, Next, turn = "Voice", ~Loud
    PROVE  UNCHANGED <<hold, asleep, low, cycle>>
<1>1. ~Woken
  BY Lengths DEF Woken, RunLoud
<1> QED
  BY <1>1, RoomTurns DEF NotWoken, power

LEMMA DarkTurn ==
    ASSUME Room, Alone, Next, turn = "Ambient", asleep'
    PROVE  Live' /\ (Live => UNCHANGED hold) /\ (Sleepy' \/ (UNCHANGED hold /\ Live))
<1>1. PICK lux : Ambient(lux)
  BY RoomTurns DEF Darkens
<1>2. CASE ~Live /\ Pins("Sleepy", SleepHold, "Ambient")
  BY <1>2, Lengths DEF Pins, Live, Sleepy
<1>3. CASE UNCHANGED hold /\ Live
  BY <1>3 DEF hold, Live
<1> QED
  BY <1>1, <1>2, <1>3 DEF Ambient

LEMMA DarkStep ==
    ASSUME Room, Alone, asleep', ~Loud, Next
    PROVE  /\ Nightly => Nightly'
           /\ Nightly /\ Sleepy => Sleepy'
           /\ Drowsy => Drowsy' \/ Sleepy'
<1>1. CASE turn = "Ambient"
  BY <1>1, DarkTurn DEF Nightly, Drowsy, Sleepy, hold, Live
<1>2. CASE turn \in {"Battery", "Body", "Cycle", "Skills"}
  <2>1. Live => UNCHANGED hold
    BY <1>2, LiveKeeps DEF Later
  <2> QED
    BY <1>2, <2>1 DEF Nightly, Drowsy, Sleepy, hold, Live
<1>3. CASE turn \in {"Drain", "RemoteCommand", "Touch", "Intent", "Voice", "Loud"}
  <2>1. emotion' = emotion /\ until' \in {until, Down(until), Never}
    BY <1>3, RoomTurns, QuietVoice DEF Frames, Untapped, mood, hold
  <2>2. ~Live => ~Live'
    BY <2>1 DEF Live, Down, Alone, TypeOK, Never
  <2>3. turn' \notin {"Battery", "Body", "Cycle", "Skills"}
    BY <1>3, NextTurn DEF Alone, TypeOK
  <2> QED
    BY <2>1, <2>2, <2>3 DEF Nightly, Drowsy, Sleepy
<1> QED
  BY <1>1, <1>2, <1>3, TheTurns DEF Alone, TypeOK, Turns

LEMMA DarkStays ==
    ASSUME Room, Alone, asleep', ~Loud, [Next]_vars
    PROVE  /\ Nightly => Nightly'
           /\ Nightly /\ Sleepy => Sleepy'
           /\ Drowsy => Drowsy' \/ Sleepy'
<1>1. CASE UNCHANGED vars
  BY <1>1 DEF vars, hold, Nightly, Drowsy, Sleepy, Live
<1> QED
  BY <1>1, DarkStep

-----------------------------------------------------------------------------
(* In a quiet bright room nobody starts a hold, and the cycle goes round.  *)
Awake == ~asleep /\ ~low /\ ~Loud
Due   == started \in {Never, Dwell}
Begun == started # Never
Began == turn = "Skills" => started \in 0 .. Dwell - 1

LEMMA AwakeTurn ==
    ASSUME Room, Alone, ~Loud, ~asleep', ~low', ~Live, Next, turn # "Cycle"
    PROVE  /\ emotion' = emotion /\ index' = index
           /\ started' = IF turn = "Drain" THEN Up(started, Dwell) ELSE started
           /\ ~Live'
<1>1. CASE turn = "Drain"
  BY <1>1, RoomTurns DEF Frames, Live, Down
<1>2. CASE turn \in {"RemoteCommand", "Intent", "Loud", "Body", "Skills"}
  BY <1>2, RoomTurns DEF mood, hold, cycle, Live
<1>3. CASE turn = "Touch"
  BY <1>3, RoomTurns DEF Untapped, cycle, Live, Never
<1>4. CASE turn = "Voice"
  BY <1>4, QuietVoice DEF hold, cycle, Live
<1>5. CASE turn = "Ambient"
  BY <1>5, RoomTurns DEF Darkens, Ambient, hold, cycle, Live
<1>6. CASE turn = "Battery"
  BY <1>6, RoomTurns DEF Drains, Battery, hold, cycle, Live
<1> QED
  BY <1>1, <1>2, <1>3, <1>4, <1>5, <1>6, TheTurns DEF Alone, TypeOK, Turns

LEMMA CycleTurn ==
    ASSUME Room, Alone, Next, turn = "Cycle"
    PROVE  /\ started' \in 0 .. Dwell - 1
           /\ ~Live => ~Live'
           /\ ~Due => UNCHANGED index
           /\ ~Live /\ Due /\ Begun => /\ index' = NextIndex
                                       /\ emotion' = EmotionOrder[index']
<1>1. turn' = "Skills" /\ Dwell \in Nat \ {0} /\ Never # Dwell
  BY NextTurn, Lengths DEF Alone, TypeOK, Never
<1>2. CASE StoodDown
  BY <1>1, <1>2 DEF StoodDown, hold, Live
<1>3. CASE Dwells
  BY <1>1, <1>3 DEF Dwells, hold, cycle, Live, Due, Never
<1>4. CASE Cycles
  BY <1>1, <1>4 DEF Cycles, Live, Due, Begun
<1> QED
  BY <1>2, <1>3, <1>4, RoomTurns

LEMMA SleepsOnceRunOut ==
    ASSUME Room
    PROVE  FairSpec /\ []ENABLED <<Next>>_vars /\ []<>~Live
               => (<>[](asleep /\ ~Loud) => <>[]Sleepy)
<1>1. Alone /\ asleep /\ ~Loud /\ (asleep /\ ~Loud)' /\ [Next]_vars
          => /\ Nightly => Nightly'
             /\ Nightly /\ Sleepy => Sleepy'
             /\ Drowsy => Drowsy' \/ Sleepy'
  BY DarkStays
<1>2. /\ Nightly /\ ~Live => Drowsy
      /\ turn = "Drain" => Nightly
      /\ turn = "Skills" => ~Drowsy
  BY DEF Nightly, Drowsy
<1> QED
  BY <1>1, <1>2, AlwaysAlone, EveryTurnComes, PTL DEF FairSpec, Spec

(* How far the cycle is from an emotion: k steps ahead.                    *)
Ahead(k, i) == index + k \in {i, i + CycleLength}

LEMMA NextAhead ==
    ASSUME NEW k \in 1 .. 5, NEW i \in 1 .. CycleLength, index \in 1 .. CycleLength,
           Ahead(k, i), index' = NextIndex
    PROVE  Ahead(k - 1, i)' /\ (k = 1 => index' = i)
<1>1. CycleLength \in 2 .. 5
  BY Lengths
<1>2. index < CycleLength => index % CycleLength = index
  BY <1>1
<1>3. index = CycleLength => index % CycleLength = 0
  BY <1>1
<1>4. index' = IF index = CycleLength THEN 1 ELSE index + 1
  BY <1>1, <1>2, <1>3 DEF NextIndex
<1> QED
  BY <1>1, <1>4 DEF Ahead

LEMMA AwakeStays ==
    ASSUME Room, Alone, ~Loud, ~asleep', ~low', ~Live, Began, [Next]_vars,
           NEW i \in 1 .. CycleLength
    PROVE  /\ ~Live' /\ (Begun => Begun')
           /\ \A k \in 1 .. 5 : Begun /\ Ahead(k, i) =>
                  IF Due /\ turn = "Cycle" /\ turn' # "Cycle"
                  THEN Ahead(k - 1, i)' /\ (k = 1 => (turn = "Skills" /\ emotion = EmotionOrder[i])')
                  ELSE Ahead(k, i)' /\ (Due => Due')
           /\ turn = "Skills" /\ emotion = EmotionOrder[i]
                  => (turn \in {"Skills", "Drain"} /\ emotion = EmotionOrder[i])'
<1>1. CASE UNCHANGED vars
  BY <1>1 DEF vars, hold, cycle, Live, Begun, Due, Ahead
<1>2. CASE Next /\ turn # "Cycle"
  <2>1. started' \in {started, Up(started, Dwell)}
    BY <1>2, AwakeTurn
  <2>2. (Begun => Begun') /\ (Due => Due')
    BY <2>1, Lengths DEF Begun, Due, Up, Never, Alone, TypeOK
  <2> QED
    BY <1>2, <2>2, AwakeTurn, NextTurn DEF Ahead, Alone, TypeOK
<1>3. CASE Next /\ turn = "Cycle"
  <2>1. turn' = "Skills"
    BY <1>3, NextTurn DEF Alone, TypeOK
  <2>2. Begun'
    BY <1>3, CycleTurn, Lengths DEF Begun, Never
  <2>3. ASSUME NEW k \in 1 .. 5, Begun, Ahead(k, i), Due
        PROVE  Ahead(k - 1, i)' /\ (k = 1 => (turn = "Skills" /\ emotion = EmotionOrder[i])')
    BY <1>3, <2>1, <2>3, CycleTurn, NextAhead DEF Alone, TypeOK
  <2>4. ASSUME NEW k \in 1 .. 5, Ahead(k, i), ~Due
        PROVE  Ahead(k, i)'
    BY <1>3, <2>4, CycleTurn DEF Ahead
  <2> QED
    BY <1>3, <2>1, <2>2, <2>3, <2>4, CycleTurn
<1> QED
  BY <1>1, <1>2, <1>3

LEMMA AlwaysBegan == ASSUME Room PROVE Spec => []Began
<1>1. Init => Began
  BY DEF Init, Began
<1>2. Alone /\ Began /\ [Next]_vars => Began'
  <2>1. CASE UNCHANGED vars
    BY <2>1 DEF vars, cycle, Began
  <2>2. CASE Next /\ Alone
    BY <2>2, CycleTurn, NextTurn, TheTurns DEF Turns, Began, Alone, TypeOK
  <2> QED
    BY <2>1, <2>2
<1> QED
  BY <1>1, <1>2, AlwaysAlone, PTL DEF Spec

LEMMA GoesRoundOnceRunOut ==
    ASSUME Room, NEW i \in 1 .. CycleLength
    PROVE  FairSpec /\ []ENABLED <<Next>>_vars /\ []<>~Live /\ <>[]Awake /\ []<>Due
               => []<>(turn = "Drain" /\ emotion = EmotionOrder[i])
<1> DEFINE Emo == emotion = EmotionOrder[i]
           Near(k) == Ahead(k, i)
<1>1. Alone /\ Awake /\ Awake' /\ ~Live /\ Began /\ [Next]_vars
          => /\ ~Live' /\ (Begun => Begun')
             /\ Begun /\ Near(5) /\ Due => (Near(5) /\ Due)' \/ Near(4)'
             /\ Begun /\ Near(4) /\ Due => (Near(4) /\ Due)' \/ Near(3)'
             /\ Begun /\ Near(3) /\ Due => (Near(3) /\ Due)' \/ Near(2)'
             /\ Begun /\ Near(2) /\ Due => (Near(2) /\ Due)' \/ Near(1)'
             /\ Begun /\ Near(1) /\ Due => (Near(1) /\ Due)' \/ (turn = "Skills" /\ Emo)'
             /\ Begun /\ Near(5) /\ ~Due => Near(5)'
             /\ Begun /\ Near(4) /\ ~Due => Near(4)'
             /\ Begun /\ Near(3) /\ ~Due => Near(3)'
             /\ Begun /\ Near(2) /\ ~Due => Near(2)'
             /\ Begun /\ Near(1) /\ ~Due => Near(1)'
             /\ turn = "Skills" /\ Emo => (turn = "Skills" /\ Emo)' \/ (turn = "Drain" /\ Emo)'
  <2> SUFFICES ASSUME Alone, Awake, Awake', ~Live, Began, [Next]_vars
               PROVE  /\ ~Live' /\ (Begun => Begun')
                      /\ \A k \in 1 .. 5 : Begun /\ Near(k) =>
                             IF Due
                             THEN \/ (Near(k) /\ Due)'
                                  \/ Near(k - 1)' /\ (k = 1 => (turn = "Skills" /\ Emo)')
                             ELSE Near(k)'
                      /\ turn = "Skills" /\ Emo
                             => (turn = "Skills" /\ Emo)' \/ (turn = "Drain" /\ Emo)'
    <3> HIDE DEF Near, Emo
    <3> QED
      OBVIOUS
  <2> QED
    BY AwakeStays DEF Awake
<1>2. Alone /\ Begun => Near(5) \/ Near(4) \/ Near(3) \/ Near(2) \/ Near(1)
  BY Lengths DEF Alone, TypeOK, Ahead
<1>3. /\ turn = "Skills" /\ Began => Begun /\ ~Due
      /\ turn = "Skills" => turn # "Drain"
  BY Lengths DEF Began, Begun, Due, Never
<1> HIDE DEF Emo, Near
<1>4. FairSpec /\ []ENABLED <<Next>>_vars /\ []<>~Live /\ <>[]Awake /\ []<>Due
          => []<>(turn = "Drain" /\ Emo)
  BY <1>1, <1>2, <1>3, AlwaysAlone, AlwaysBegan, EveryTurnComes, PTL DEF FairSpec, Spec
<1> QED
  BY <1>4 DEF Emo

(* The mood settles once the hold and the dwell have run out.              *)
LEMMA MoodSettlesOnceRunOut ==
    ASSUME Room
    PROVE  FairSpec /\ []ENABLED <<Next>>_vars /\ []<>~Live
               /\ (<>[](~asleep /\ ~low /\ ~Loud) => []<>(started \in {Never, Dwell}))
               => MoodSettles
<1>1. FairSpec /\ []ENABLED <<Next>>_vars /\ []<>~Live
          => (<>[](asleep /\ ~Loud) => <>[](emotion = "Sleepy"))
  BY SleepsOnceRunOut DEF Sleepy
<1>2. ASSUME NEW i \in 1 .. CycleLength
      PROVE  FairSpec /\ []ENABLED <<Next>>_vars /\ []<>~Live
                 /\ (<>[](~asleep /\ ~low /\ ~Loud) => []<>(started \in {Never, Dwell}))
                 => (<>[](~asleep /\ ~low /\ ~Loud)
                         => []<>(turn = "Drain" /\ emotion = EmotionOrder[i]))
  BY GoesRoundOnceRunOut, PTL DEF Awake, Due
<1> QED
  BY <1>1, <1>2 DEF MoodSettles

-----------------------------------------------------------------------------
(***************************************************************************)
(* The timers of an empty room: what is left of the hold, of the dwell and *)
(* of the wait for a sustained voice, and that a frame later less is left. *)
(***************************************************************************)
HoldLeft  == IF Live THEN until ELSE 0
DwellLeft == IF started = Never THEN 0 ELSE Dwell - started
LoudLeft  == Sustain - RunLoud

Rounds ==
    /\ []Alone /\ [][Next]_vars
    /\ []<>(turn = "Drain") /\ []<>(turn = "Voice") /\ []<>(turn = "Skills")

LEMMA LeftType ==
    ASSUME Alone
    PROVE  /\ HoldLeft \in Nat /\ (HoldLeft = 0 <=> ~Live)
           /\ DwellLeft \in Nat /\ (DwellLeft = 0 <=> Due)
           /\ LoudLeft \in Nat /\ (LoudLeft = 0 <=> Full)
<1>1. HoldLeft \in Nat /\ (HoldLeft = 0 <=> ~Live)
  BY DEF HoldLeft, Live, Alone, TypeOK
<1>2. DwellLeft \in Nat /\ (DwellLeft = 0 <=> Due)
  BY Lengths DEF DwellLeft, Due, Never, Alone, TypeOK
<1>3. run_loud \in 0 .. Sustain
  BY DEF Alone, TypeOK
<1>4. LoudLeft \in Nat /\ (LoudLeft = 0 <=> Full)
  BY <1>3, Lengths DEF LoudLeft, Full, RunLoud, Up, Never
<1> QED
  BY <1>1, <1>2, <1>4

LEMMA HoldFalls ==
    ASSUME Room, Alone, Live, Next
    PROVE  /\ turn = "Drain" => until' = until - 1
           /\ turn # "Drain" => until' = until
<1>1. CASE turn \in Later
  BY <1>1, LiveKeeps DEF Later, hold
<1>2. CASE turn = "Drain"
  BY <1>2, RoomTurns DEF Frames, Live, Down
<1>3. CASE turn \in {"RemoteCommand", "Touch", "Intent", "Voice"}
  BY <1>3, RoomTurns DEF mood, hold, Untapped, Woken, NotWoken
<1> QED
  BY <1>1, <1>2, <1>3, TheTurns DEF Alone, TypeOK, Turns, Later

LEMMA HoldComesDown ==
    ASSUME Room, NEW n \in Nat \ {0}
    PROVE  Rounds => [](HoldLeft = n => <>(HoldLeft < n))
<1>1. Alone /\ HoldLeft = n /\ [Next]_vars
          => /\ (HoldLeft = n)' \/ (HoldLeft < n)'
             /\ turn = "Drain" => (turn = "Drain")' \/ (HoldLeft < n)'
  <2> SUFFICES ASSUME Alone, HoldLeft = n, Next
               PROVE  IF turn = "Drain" THEN HoldLeft' < n ELSE HoldLeft' = n
    BY DEF vars, hold, HoldLeft, Live
  <2>1. Live /\ until = n
    BY DEF HoldLeft
  <2> QED
    BY <2>1, HoldFalls DEF HoldLeft, Live
<1>2. ~(turn = "Drain" /\ turn = "Skills")
  OBVIOUS
<1> QED
  BY <1>1, <1>2, PTL DEF Rounds

LEMMA DwellComesDown ==
    ASSUME Room, NEW n \in Nat \ {0}
    PROVE  Rounds /\ [](Awake /\ ~Live) => [](DwellLeft = n => <>(DwellLeft < n))
<1>1. Alone /\ Awake /\ Awake' /\ ~Live /\ DwellLeft = n /\ [Next]_vars
          => /\ (DwellLeft = n)' \/ (DwellLeft < n)'
             /\ turn = "Drain" => (turn = "Drain")' \/ (DwellLeft < n)'
  <2> SUFFICES ASSUME Alone, Awake, Awake', ~Live, DwellLeft = n, Next
               PROVE  IF turn = "Drain" THEN DwellLeft' < n ELSE DwellLeft' = n
    BY DEF vars, cycle, DwellLeft
  <2>1. ~Due /\ started \in 0 .. Dwell - 1 /\ n = Dwell - started
    BY LeftType, Lengths DEF DwellLeft, Due, Never, Alone, TypeOK
  <2>2. CASE turn = "Cycle"
    <3>1. Dwells
      BY <2>1, <2>2, RoomTurns DEF StoodDown, Cycles, Due
    <3> QED
      BY <2>1, <2>2, <3>1 DEF Dwells, cycle, DwellLeft
  <2>3. CASE turn # "Cycle"
    <3>1. started' = IF turn = "Drain" THEN started + 1 ELSE started
      BY <2>1, <2>3, AwakeTurn, Lengths DEF Awake, Up, Never
    <3> QED
      BY <2>1, <3>1, Lengths DEF DwellLeft, Never
  <2> QED
    BY <2>2, <2>3
<1>2. ~(turn = "Drain" /\ turn = "Skills")
  OBVIOUS
<1> QED
  BY <1>1, <1>2, PTL DEF Rounds

LEMMA LoudComesDown ==
    ASSUME Room, NEW n \in Nat \ {0}
    PROVE  Rounds /\ [](mic = "voice") => [](LoudLeft = n => <>(LoudLeft < n))
<1>1. Alone /\ mic = "voice" /\ (mic = "voice")' /\ LoudLeft = n /\ [Next]_vars
          => /\ (LoudLeft = n)' \/ (LoudLeft < n)'
             /\ turn = "Voice" => (turn = "Voice")' \/ (LoudLeft < n)'
  <2>1. ASSUME Alone, mic = "voice", mic' = "voice", LoudLeft = n, UNCHANGED <<turn, run_loud>>
        PROVE  LoudLeft' = n
    BY <2>1 DEF LoudLeft, RunLoud, Loud
  <2> SUFFICES ASSUME Alone, mic = "voice", mic' = "voice", LoudLeft = n, Next
               PROVE  IF turn = "Voice" THEN LoudLeft' < n ELSE LoudLeft' = n
    BY <2>1 DEF vars
  <2>2. Loud /\ Loud' /\ run_loud \in 0 .. Sustain /\ Sustain \in Nat \ {0}
    BY Lengths DEF Loud, Alone, TypeOK
  <2>3. ~Full /\ n = Sustain - RunLoud /\ RunLoud \in 0 .. Sustain - 1
    BY <2>2, LeftType DEF LoudLeft, Full, RunLoud, Up, Never
  <2>4. CASE turn = "Voice"
    <3>1. run_loud' = RunLoud
      BY <2>3, <2>4, RoomTurns DEF Woken, NotWoken, Full
    <3>2. RunLoud' = RunLoud + 1
      BY <2>2, <2>3, <3>1 DEF RunLoud, Up, Never
    <3> QED
      BY <2>3, <2>4, <3>2, Lengths DEF LoudLeft
  <2>5. CASE turn # "Voice"
    <3>1. run_loud' = run_loud
      <4>1. CASE turn \in {"RemoteCommand", "Intent", "Loud", "Body", "Skills"}
        BY <4>1, RoomTurns DEF mood
      <4>2. CASE turn \in {"Drain", "Touch", "Ambient", "Battery", "Cycle"}
        BY <4>2, RoomTurns DEF Frames, Untapped, Darkens, Ambient, Drains, Battery,
           StoodDown, Dwells, Cycles
      <4> QED
        BY <2>5, <4>1, <4>2, TheTurns DEF Alone, TypeOK, Turns
    <3> QED
      BY <2>2, <2>3, <2>5, <3>1 DEF LoudLeft, RunLoud
  <2> QED
    BY <2>4, <2>5
<1>2. ~(turn = "Voice" /\ turn = "Skills")
  OBVIOUS
<1> QED
  BY <1>1, <1>2, PTL DEF Rounds

LEMMA TheRounds ==
    ASSUME Room
    PROVE  FairSpec /\ []ENABLED <<Next>>_vars => Rounds
  BY AlwaysAlone, EveryTurnComes, PTL DEF FairSpec, Spec, Rounds

LEMMA HoldRunsOut ==
    ASSUME Room
    PROVE  Rounds /\ NoEndlessDescent(HoldLeft) => []<>~Live
<1>1. Rounds => \A n \in Nat \ {0} : [](HoldLeft = n => <>(HoldLeft < n))
  BY HoldComesDown
<1>2. Alone => HoldLeft \in Nat /\ (HoldLeft = 0 => ~Live)
  BY LeftType
<1> QED
  BY <1>1, <1>2, PTL DEF NoEndlessDescent, Rounds

(***************************************************************************)
(* "Intended to override a sleepy state on voice activity": a voice that   *)
(* goes on makes the avatar happy again and again, whatever light and      *)
(* battery say and however long their holds: its turn comes before theirs. *)
(***************************************************************************)
THEOREM VoiceAlwaysWakes ==
    ASSUME Room
    PROVE  FairSpec /\ []ENABLED <<Next>>_vars
               /\ NoEndlessDescent(HoldLeft) /\ NoEndlessDescent(LoudLeft)
               => VoiceWakes
<1> DEFINE Speaking == Rounds /\ [](mic = "voice")
<1>1. Speaking => \A n \in Nat \ {0} : [](LoudLeft = n => <>(LoudLeft < n))
  BY LoudComesDown
<1>2. Alone => LoudLeft \in Nat /\ (LoudLeft = 0 => RunLoud = Sustain)
  BY LeftType DEF Full
<1>3. FairSpec /\ []ENABLED <<Next>>_vars /\ NoEndlessDescent(LoudLeft)
          => (<>[](mic = "voice") => []<>(RunLoud = Sustain))
  BY <1>1, <1>2, TheRounds, PTL DEF NoEndlessDescent, Rounds
<1> QED
  BY <1>3, VoiceWakesOnceRunOut, TheRounds, HoldRunsOut, PTL

(***************************************************************************)
(* Left alone the avatar settles: in a quiet dark room it sleeps, in a     *)
(* quiet bright one it goes on through its whole cycle, for every hold,    *)
(* dwell and cycle length.                                                 *)
(***************************************************************************)
THEOREM MoodAlwaysSettles ==
    ASSUME Room
    PROVE  FairSpec /\ []ENABLED <<Next>>_vars
               /\ NoEndlessDescent(HoldLeft) /\ NoEndlessDescent(DwellLeft)
               => MoodSettles
<1> DEFINE Resting == Rounds /\ [](Awake /\ ~Live)
<1>1. Resting => \A n \in Nat \ {0} : [](DwellLeft = n => <>(DwellLeft < n))
  BY DwellComesDown
<1>2. Alone => DwellLeft \in Nat /\ (DwellLeft = 0 => Due)
  BY LeftType
<1>3. Alone /\ Awake /\ Awake' /\ ~Live /\ [Next]_vars => (~Live)'
  <2>1. CASE UNCHANGED vars
    BY <2>1 DEF vars, hold, Live
  <2>2. ASSUME Alone, Awake, Awake', ~Live, Next PROVE (~Live)'
    BY <2>2, AwakeTurn, CycleTurn DEF Awake
  <2> QED
    BY <2>1, <2>2
<1>4. FairSpec /\ []ENABLED <<Next>>_vars
          /\ NoEndlessDescent(HoldLeft) /\ NoEndlessDescent(DwellLeft)
          => (<>[]Awake => []<>Due)
  BY <1>1, <1>2, <1>3, TheRounds, HoldRunsOut, PTL DEF NoEndlessDescent, Rounds
<1>5. FairSpec /\ []ENABLED <<Next>>_vars
          /\ NoEndlessDescent(HoldLeft) /\ NoEndlessDescent(DwellLeft)
          => (<>[](~asleep /\ ~low /\ ~Loud) => []<>(started \in {Never, Dwell}))
  BY <1>4 DEF Awake, Due
<1> QED
  BY <1>5, MoodSettlesOnceRunOut, TheRounds, HoldRunsOut, PTL
=============================================================================
