-------------------------------- MODULE Mind --------------------------------
(***************************************************************************)
(* What the avatar attends to and intends: entity.mind.attention and       *)
(* entity.mind.intent, two shared fields that six modifiers and skills     *)
(* write once per frame, each with timers of its own.                      *)
(*                                                                         *)
(*   src/crates/stackchan-core/src/director.rs          who runs when      *)
(*   src/crates/stackchan-core/src/modifiers/attention_from_tracking.rs    *)
(*   src/crates/stackchan-core/src/modifiers/remote_command.rs             *)
(*   src/crates/stackchan-core/src/modifiers/intent_from_loud.rs           *)
(*   src/crates/stackchan-core/src/skills/{listening,petting,handling}.rs  *)
(*                                                                         *)
(* A frame is one round of turns, a turn one update() or invoke().  Times  *)
(* count frames; a timer that has said all it can say stops growing.  The  *)
(* emotion and its hold are left to the environment: userHold tells        *)
(* IntentFromLoud whether the operator holds the face at that moment.      *)
(***************************************************************************)
EXTENDS Integers

CONSTANTS
    LockTicks,      \* TRACKING_LOCK_TICKS
    TrackRelease,   \* TRACKING_RELEASE_MS
    StartleHold,    \* STARTLE_HOLD_MS
    ListenSustain,  \* LISTEN_SUSTAIN_TICKS
    ListenRelease,  \* LISTEN_RELEASE_MS
    PetSustain,     \* PETTING_SUSTAIN_TICKS
    MaxHold         \* bound: the longest hold an operator asks for

ASSUME TimesAssumption ==
    {LockTicks, TrackRelease, StartleHold, ListenSustain, ListenRelease,
     PetSustain, MaxHold} \subseteq Nat \ {0}

Never == -1         \* the None of an Option<Instant>

VARIABLES
    turn,           \* who runs next in the frame
    intent, attention,
    run_tracking, last_tracking, watching,  \* AttentionFromTracking
    held,           \* RemoteCommandModifier: frames left of each hold
    fired, was_loud,                        \* IntentFromLoud
    run_loud, last_loud,                    \* Listening
    run_touched,                            \* Petting
    last_set,                               \* Handling
    mic             \* perception.audio_rms, as the thresholds see it

tracker   == <<run_tracking, last_tracking, watching>>
startler  == <<fired, was_loud>>
listener  == <<run_loud, last_loud>>
vars == <<turn, intent, attention, tracker, held, startler, listener,
          run_touched, last_set, mic>>

Mics       == {"none", "quiet", "voice", "clap"}
Motions    == {"Tracking", "Holding", "Other"}
Detections == {"None", "PickedUp", "Shaken", "Tilted"}
Intents    == {"Idle", "Listening", "Startled", "Petted",
               "PickedUp", "Shaken", "Tilted"}
Holds      == {"LookAt", "LookAtPoint", "Listen", "Thinking"}
Commands   == {"none", "LookAt", "LookAtPoint", "StartListen",
               "EnterThinking", "ThinkingOver", "Reset"}

(***************************************************************************)
(* An attention is told apart by its kind and by who set it, which is what *)
(* the `since` and `target` comparisons of the code tell.                  *)
(***************************************************************************)
NoAttention == [kind |-> "None", by |-> "nobody"]
ByCamera    == [kind |-> "Tracking",  by |-> "camera"]
ByVoice     == [kind |-> "Listening", by |-> "skill"]
HeldAttention == [h \in Holds |->
    [kind |-> CASE h = "LookAt"      -> "Tracking"
                [] h = "LookAtPoint" -> "Point"
                [] h = "Listen"      -> "Listening"
                [] h = "Thinking"    -> "Thinking",
     by   |-> "operator"]]
Attentions == {NoAttention, ByCamera, ByVoice}
              \cup {HeldAttention[h] : h \in Holds}

Capped_Not(n, cap) == n
Capped(n, cap) == IF n < cap THEN n ELSE cap
Older(t, cap)  == IF t = Never THEN Never ELSE Capped(t + 1, cap)

Following_Swapped == [t \in {"Drain", "AttentionFromTracking", "RemoteCommand",
                            "IntentFromLoud", "Listening", "Petting", "Handling"} |->
    CASE t = "Drain"                 -> "RemoteCommand"
      [] t = "RemoteCommand"         -> "AttentionFromTracking"
      [] t = "AttentionFromTracking" -> "IntentFromLoud"
      [] t = "IntentFromLoud"        -> "Listening"
      [] t = "Listening"             -> "Petting"
      [] t = "Petting"               -> "Handling"
      [] t = "Handling"              -> "Drain"]
Following == [t \in {"Drain", "AttentionFromTracking", "RemoteCommand",
                     "IntentFromLoud", "Listening", "Petting", "Handling"} |->
    CASE t = "Drain"                 -> "AttentionFromTracking"
      [] t = "AttentionFromTracking" -> "RemoteCommand"
      [] t = "RemoteCommand"         -> "IntentFromLoud"
      [] t = "IntentFromLoud"        -> "Listening"
      [] t = "Listening"             -> "Petting"
      [] t = "Petting"               -> "Handling"
      [] t = "Handling"              -> "Drain"]
Turns == DOMAIN Following

Runs(t) == turn = t /\ turn' = Following[t]

Init ==
    /\ turn = "Drain"
    /\ intent = "Idle"
    /\ attention = NoAttention
    /\ run_tracking = 0 /\ last_tracking = Never /\ watching = FALSE
    /\ held = [h \in Holds |-> Never]
    /\ fired = Never /\ was_loud = FALSE
    /\ run_loud = 0 /\ last_loud = Never
    /\ run_touched = 0
    /\ last_set = "None"
    /\ mic = "none"

(***************************************************************************)
(* The render loop drains the signals and hands the new time to run().     *)
(***************************************************************************)
Drain(m) ==
    /\ Runs("Drain")
    /\ mic' = m
    /\ last_tracking' = Older(last_tracking, TrackRelease)
    /\ fired' = Older(fired, StartleHold)
    /\ last_loud' = Older(last_loud, ListenRelease)
    /\ held' = [h \in Holds |-> IF held[h] > 0 THEN held[h] - 1 ELSE held[h]]
    /\ UNCHANGED <<intent, attention, run_tracking, watching, was_loud,
                   run_loud, run_touched, last_set>>

-----------------------------------------------------------------------------
(* AttentionFromTracking.  Once the camera has reported, it always has. *)
Eligible_AtBoot(o) == o \in {"Tracking", "Holding"}
Eligible(o) == o = "Tracking" \/ (o = "Holding" /\ last_tracking # Never)
Released(last) == last = Never \/ last >= TrackRelease

Untracked ==
    /\ Runs("AttentionFromTracking")
    /\ ~watching
    /\ run_tracking' = 0
    /\ UNCHANGED <<intent, attention, last_tracking, watching, held, startler,
                   listener, run_touched, last_set, mic>>

Observe(o) ==
    LET run  == IF Eligible(o) THEN Capped(run_tracking + 1, LockTicks) ELSE 0
        last == IF o = "Tracking" THEN 0 ELSE last_tracking
        lost == attention.kind = "Tracking" /\ Released(last)
    IN  /\ Runs("AttentionFromTracking")
        /\ watching' = TRUE
        /\ run_tracking' = run
        /\ \/ /\ run >= LockTicks
              /\ attention' = ByCamera
              /\ last_tracking' = last
           \/ /\ run < LockTicks
              /\ attention' = IF lost THEN NoAttention ELSE attention
              /\ last_tracking' = IF lost THEN Never ELSE last
        /\ UNCHANGED <<intent, held, startler, listener, run_touched,
                       last_set, mic>>

-----------------------------------------------------------------------------
(***************************************************************************)
(* RemoteCommandModifier.  A hold of n frames starts, others are dropped;  *)
(* then every live hold asserts its attention again, in the order of       *)
(* Later, and an expired one lets go of what is still its own.  Thinking   *)
(* is over with ExitThinking and with SetEmotion.                          *)
(***************************************************************************)
Started(h, rival, n) == [held EXCEPT ![h] = n, ![rival] = Never]

HeldAfter(c, n) ==
    CASE c = "none"          -> held
      [] c = "LookAt"        -> Started("LookAt", "LookAtPoint", n)
      [] c = "LookAtPoint"   -> Started("LookAtPoint", "LookAt", n)
      [] c = "StartListen"   -> Started("Listen", "Thinking", n)
      [] c = "EnterThinking" -> Started("Thinking", "Listen", n)
      [] c = "ThinkingOver"  -> [held EXCEPT !["Thinking"] = Never]
      [] c = "Reset"         -> [h \in Holds |-> Never]

AttentionAfter(c) ==
    CASE c = "none"          -> attention
      [] c = "LookAt"        -> HeldAttention["LookAt"]
      [] c = "LookAtPoint"   -> HeldAttention["LookAtPoint"]
      [] c = "StartListen"   -> HeldAttention["Listen"]
      [] c = "EnterThinking" -> HeldAttention["Thinking"]
      [] c = "ThinkingOver"  ->
            IF held["Thinking"] # Never /\ attention = HeldAttention["Thinking"]
            THEN NoAttention ELSE attention
      [] c = "Reset"         -> NoAttention

Later == {<<"LookAt", "LookAtPoint">>, <<"LookAt", "Listen">>,
          <<"LookAtPoint", "Listen">>, <<"LookAt", "Thinking">>,
          <<"LookAtPoint", "Thinking">>, <<"Listen", "Thinking">>}
Asserts(h, hd) == hd[h] > 0 /\ \A l \in Holds : <<h, l>> \in Later => hd[l] <= 0

Remote(c, n) ==
    LET hd == HeldAfter(c, n)
        at == AttentionAfter(c)
    IN  /\ Runs("RemoteCommand")
        /\ held' = [h \in Holds |-> IF hd[h] = 0 THEN Never ELSE hd[h]]
        /\ \/ \E h \in Holds : Asserts(h, hd) /\ attention' = HeldAttention[h]
           \/ /\ \A h \in Holds : hd[h] <= 0
              /\ attention' = IF \E h \in Holds : hd[h] = 0 /\ at = HeldAttention[h]
                              THEN NoAttention ELSE at
        /\ UNCHANGED <<intent, tracker, startler, listener, run_touched,
                       last_set, mic>>

-----------------------------------------------------------------------------
(* IntentFromLoud: the hold of the last startle ends, then a rising edge counts. *)
StartleOver == fired >= StartleHold /\ intent = "Startled"
Calmed == IF StartleOver THEN "Idle" ELSE intent
FiredAfter == IF StartleOver THEN Never ELSE fired
Startles(userHold) ==
    mic = "clap" /\ ~was_loud /\ FiredAfter = Never /\ ~userHold

Startle ==
    /\ Runs("IntentFromLoud")
    /\ Startles(FALSE)
    /\ intent' = "Startled"
    /\ fired' = 0
    /\ was_loud' = TRUE
    /\ UNCHANGED <<attention, tracker, held, listener, run_touched, last_set, mic>>

NoStartle(userHold) ==
    /\ Runs("IntentFromLoud")
    /\ ~Startles(userHold)
    /\ intent' = Calmed
    /\ fired' = FiredAfter
    /\ was_loud' = (mic = "clap")
    /\ UNCHANGED <<attention, tracker, held, listener, run_touched, last_set, mic>>

-----------------------------------------------------------------------------
(* The Listening skill. *)
Loud == mic \in {"voice", "clap"}
RunLoud == IF Loud THEN Capped(run_loud + 1, ListenSustain) ELSE 0
LastLoud == IF Loud THEN 0 ELSE last_loud
Lingers_On == LastLoud # Never
Lingers == LastLoud # Never /\ LastLoud < ListenRelease
Attending == attention.kind = "Listening"

Listen ==
    /\ Runs("Listening")
    /\ RunLoud >= ListenSustain
    /\ run_loud' = RunLoud
    /\ last_loud' = LastLoud
    /\ attention' = IF Attending THEN attention ELSE ByVoice
    /\ intent' = IF intent = "Startled" THEN intent ELSE "Listening"
    /\ UNCHANGED <<tracker, held, startler, run_touched, last_set, mic>>

StopListening ==
    /\ Runs("Listening")
    /\ RunLoud < ListenSustain /\ Attending /\ ~Lingers
    /\ run_loud' = RunLoud
    /\ last_loud' = Never
    /\ attention' = NoAttention
    /\ intent' = IF intent = "Listening" THEN "Idle" ELSE intent
    /\ UNCHANGED <<tracker, held, startler, run_touched, last_set, mic>>

NotListening ==
    /\ Runs("Listening")
    /\ RunLoud < ListenSustain /\ (Attending => Lingers)
    /\ run_loud' = RunLoud
    /\ last_loud' = IF Attending \/ Loud THEN LastLoud ELSE Never
    /\ UNCHANGED <<attention, intent, tracker, held, startler, run_touched,
                   last_set, mic>>

-----------------------------------------------------------------------------
(* The Petting skill: any zone of the strip on the back of the head. *)
Pet ==
    /\ Runs("Petting")
    /\ run_touched' = Capped(run_touched + 1, PetSustain)
    /\ intent' = IF run_touched' >= PetSustain THEN "Petted" ELSE intent
    /\ UNCHANGED <<attention, tracker, held, startler, listener, last_set, mic>>

Unpet_Kept ==
    /\ Runs("Petting")
    /\ run_touched' = 0
    /\ UNCHANGED <<intent, attention, tracker, held, startler, listener,
                   last_set, mic>>
Unpet ==
    /\ Runs("Petting")
    /\ run_touched' = 0
    /\ intent' = IF intent = "Petted" THEN "Idle" ELSE intent
    /\ UNCHANGED <<attention, tracker, held, startler, listener, last_set, mic>>

(* The Handling skill; d is what its three detectors decide from the IMU. *)
Yields(d) == d = "Tilted" /\ intent = "Petted"
Handle(d) ==
    /\ Runs("Handling")
    /\ d # "None"
    /\ intent' = IF Yields(d) THEN intent ELSE d
    /\ last_set' = IF Yields(d) THEN last_set ELSE d
    /\ UNCHANGED <<attention, tracker, held, startler, listener, run_touched, mic>>

Rest ==
    /\ Runs("Handling")
    /\ intent' = IF intent = last_set THEN "Idle" ELSE intent
    /\ last_set' = "None"
    /\ UNCHANGED <<attention, tracker, held, startler, listener, run_touched, mic>>

-----------------------------------------------------------------------------
Next ==
    \/ \E m \in Mics : Drain(m)
    \/ Untracked
    \/ \E o \in Motions : Observe(o)
    \/ \E c \in Commands, n \in 0 .. MaxHold : Remote(c, n)
    \/ Startle
    \/ \E userHold \in BOOLEAN : NoStartle(userHold)
    \/ Listen
    \/ StopListening
    \/ NotListening
    \/ Pet
    \/ Unpet
    \/ \E d \in Detections : Handle(d)
    \/ Rest

Spec == Init /\ [][Next]_vars

(* The render task's ticker keeps the frames coming. *)
FairSpec == Spec /\ WF_vars(Next)

(* Every variable stays in its range. *)
TypeOK ==
    /\ turn \in Turns
    /\ intent \in Intents
    /\ attention \in Attentions
    /\ run_tracking \in 0 .. LockTicks
    /\ last_tracking \in Never .. TrackRelease
    /\ watching \in BOOLEAN
    /\ held \in [Holds -> Never .. MaxHold]
    /\ fired \in Never .. StartleHold
    /\ was_loud \in BOOLEAN
    /\ run_loud \in 0 .. ListenSustain
    /\ last_loud \in Never .. ListenRelease
    /\ run_touched \in 0 .. PetSustain
    /\ last_set \in Detections
    /\ mic \in Mics

(***************************************************************************)
(* No attention outlives its owner: whoever set the one in force still     *)
(* keeps the timer that will release it, whatever the others did to the    *)
(* field in between (the release guards of all three writers compare the   *)
(* attention with what they set themselves).                               *)
(***************************************************************************)
AttentionHasOwner ==
    /\ attention = ByCamera => last_tracking # Never
    /\ \A h \in Holds : attention = HeldAttention[h] => held[h] # Never

(***************************************************************************)
(* No reaction outlives its owner: an intent other than Idle and Listening *)
(* is one that its writer remembers and will clear.                        *)
(***************************************************************************)
IntentHasOwner ==
    /\ intent = "Startled" => fired # Never
    /\ intent = "Petted" => run_touched = PetSustain
    /\ intent \in {"PickedUp", "Shaken", "Tilted"} => last_set = intent

(***************************************************************************)
(* "A tracking observation cannot stomp the operator's target during a     *)
(* hold": when the modifiers that move the head and the eyes run, between  *)
(* IntentFromLoud and the skills, a live hold has its attention.           *)
(***************************************************************************)
OperatorHasTheHead ==
    turn \in {"IntentFromLoud", "Listening"} /\ (\E h \in Holds : held[h] # Never)
        => \E h \in Holds : held[h] # Never /\ attention = HeldAttention[h]

(* At the end of a frame, the avatar being pet shows it or a handling that outranks it. *)
PettingShows ==
    turn = "Drain" /\ run_touched = PetSustain
        => intent \in {"Petted", "PickedUp", "Shaken"}

(***************************************************************************)
(* The room falls quiet: no sound, motion, touch, handling or command.     *)
(***************************************************************************)
QuietNext ==
    \/ \E m \in {"none", "quiet"} : Drain(m)
    \/ Untracked
    \/ Observe("Other")
    \/ Remote("none", 0)
    \/ \E userHold \in BOOLEAN : NoStartle(userHold)
    \/ Listen \/ StopListening \/ NotListening
    \/ Unpet
    \/ Rest

(* Once quiet for good, the avatar attends to nothing and every reaction but Listening ends. *)
Settles ==
    <>[][QuietNext]_vars
        => <>[](attention = NoAttention /\ intent \in {"Idle", "Listening"})

(***************************************************************************)
(* What intent_from_loud.rs says of its hold: a second startle is          *)
(* suppressed "within the hold window".  The code forgets the first one    *)
(* only while the intent still is Startled, which Petting and Handling     *)
(* overwrite: from then on no clap startles the avatar.                    *)
(***************************************************************************)
StartleRearms ==
    <>[][QuietNext]_vars => <>[](fired = Never)
=============================================================================
