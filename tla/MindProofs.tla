----------------------------- MODULE MindProofs -----------------------------
(***************************************************************************)
(* Proofs about Mind, for every length of the windows, runs and holds.     *)
(* TypeOK and AttentionHasOwner are inductive together, IntentHasOwner and *)
(* OperatorHasTheHead with them; PettingShows needs to know in addition    *)
(* that between Petting and Handling the intent is Petted.  The second     *)
(* half is what a quiet room does: its timers run down, and it settles.    *)
(***************************************************************************)
EXTENDS Mind, Descent, TLAPS

(* A capped counter stays within its cap, an aged timer within its window. *)
LEMMA CappedRange ==
    ASSUME NEW n \in Nat, NEW cap \in Nat
    PROVE  Capped(n, cap) \in 0 .. cap
  BY DEF Capped

LEMMA OlderRange ==
    ASSUME NEW cap \in Nat, NEW t \in Never .. cap
    PROVE  /\ Older(t, cap) \in Never .. cap
           /\ t # Never => Older(t, cap) # Never
  BY DEF Older, Capped, Never

(* The constants are what the arithmetic needs. *)
LEMMA Times ==
    /\ LockTicks \in Nat \ {0} /\ TrackRelease \in Nat \ {0}
    /\ StartleHold \in Nat \ {0} /\ ListenSustain \in Nat \ {0}
    /\ ListenRelease \in Nat \ {0} /\ PetSustain \in Nat \ {0}
    /\ MaxHold \in Nat \ {0}
  BY TimesAssumption

(* What the commands make of the holds. *)
LEMMA HeldAfterType ==
    ASSUME held \in [Holds -> Never .. MaxHold],
           NEW c \in Commands, NEW n \in 0 .. MaxHold
    PROVE  HeldAfter(c, n) \in [Holds -> Never .. MaxHold]
<1>1. Never \in Never .. MaxHold /\ n \in Never .. MaxHold
  BY Times DEF Never
<1>2. \A h, r \in Holds : Started(h, r, n) \in [Holds -> Never .. MaxHold]
  BY <1>1 DEF Started
<1>3. [held EXCEPT !["Thinking"] = Never] \in [Holds -> Never .. MaxHold]
  BY <1>1
<1>4. [h \in Holds |-> Never] \in [Holds -> Never .. MaxHold]
  BY <1>1
<1> QED
  BY <1>2, <1>3, <1>4 DEF HeldAfter, Commands, Holds

LEMMA AttentionAfterType ==
    ASSUME attention \in Attentions, NEW c \in Commands
    PROVE  AttentionAfter(c) \in Attentions
  BY DEF AttentionAfter, Commands, Attentions, Holds

(* The attentions of different owners differ. *)
LEMMA OwnersDiffer ==
    /\ \A h \in Holds : HeldAttention[h] \notin {NoAttention, ByCamera, ByVoice}
    /\ \A h, l \in Holds : HeldAttention[h] = HeldAttention[l] => h = l
    /\ ByCamera # NoAttention /\ ByVoice # NoAttention /\ ByVoice # ByCamera
  BY DEF Holds, HeldAttention, NoAttention, ByCamera, ByVoice

(* A command that leaves an operator's attention in force leaves its hold set. *)
LEMMA OwnedAfter ==
    ASSUME held \in [Holds -> Never .. MaxHold], AttentionHasOwner,
           NEW c \in Commands, NEW n \in 0 .. MaxHold, NEW h \in Holds,
           AttentionAfter(c) = HeldAttention[h]
    PROVE  HeldAfter(c, n)[h] # Never
<1>1. n # Never
  BY Times DEF Never
<1> QED
  BY <1>1, OwnersDiffer
     DEF AttentionAfter, HeldAfter, Started, Commands, Holds, AttentionHasOwner

-----------------------------------------------------------------------------
(* The first frame starts in range. *)
LEMMA InitType == Init => TypeOK
<1> SUFFICES ASSUME Init PROVE TypeOK
  OBVIOUS
<1>1. Never \in Never .. TrackRelease /\ Never \in Never .. StartleHold
      /\ Never \in Never .. ListenRelease /\ Never \in Never .. MaxHold
  BY Times DEF Never
<1>2. 0 \in 0 .. LockTicks /\ 0 \in 0 .. ListenSustain /\ 0 \in 0 .. PetSustain
  BY Times
<1>3. held \in [Holds -> Never .. MaxHold]
  BY <1>1 DEF Init
<1>4. turn \in Turns
  BY DEF Init, Turns, Following
<1>5. intent \in Intents /\ last_set \in Detections /\ mic \in Mics
  BY DEF Init, Intents, Detections, Mics
<1>6. attention \in Attentions
  BY DEF Init, Attentions
<1>7. watching \in BOOLEAN /\ was_loud \in BOOLEAN
  BY DEF Init
<1>8. /\ run_tracking \in 0 .. LockTicks /\ last_tracking \in Never .. TrackRelease
      /\ fired \in Never .. StartleHold /\ run_loud \in 0 .. ListenSustain
      /\ last_loud \in Never .. ListenRelease /\ run_touched \in 0 .. PetSustain
  BY <1>1, <1>2 DEF Init
<1> QED
  BY <1>3, <1>4, <1>5, <1>6, <1>7, <1>8 DEF TypeOK

(* Every turn has a next one. *)
LEMMA TurnsType == \A t \in Turns : Following[t] \in Turns
  BY DEF Turns, Following

(* Every turn keeps every variable in its range. *)
LEMMA TypeStep == TypeOK /\ [Next]_vars => TypeOK'
<1> SUFFICES ASSUME TypeOK, [Next]_vars PROVE TypeOK'
  OBVIOUS
<1> USE Times, TurnsType DEF TypeOK, Runs
<1>1. ASSUME NEW m \in Mics, Drain(m) PROVE TypeOK'
  <2>1. /\ last_tracking' \in Never .. TrackRelease
        /\ fired' \in Never .. StartleHold
        /\ last_loud' \in Never .. ListenRelease
    BY <1>1, OlderRange DEF Drain
  <2>2. \A h \in Holds : (IF held[h] > 0 THEN held[h] - 1 ELSE held[h]) \in Never .. MaxHold
    BY DEF Never
  <2>3. held' \in [Holds -> Never .. MaxHold]
    BY <1>1, <2>2 DEF Drain
  <2> QED
    BY <1>1, <2>1, <2>3 DEF Drain, Turns, Following
<1>2. CASE Untracked
  BY <1>2 DEF Untracked, startler, listener, Turns, Following
<1>3. ASSUME NEW o \in Motions, Observe(o) PROVE TypeOK'
  <2>1. run_tracking' \in 0 .. LockTicks
    BY <1>3, CappedRange DEF Observe
  <2>2. last_tracking' \in Never .. TrackRelease
    BY <1>3 DEF Observe, Never
  <2>3. attention' \in Attentions
    BY <1>3 DEF Observe, Attentions
  <2> QED
    BY <1>3, <2>1, <2>2, <2>3 DEF Observe, startler, listener, Turns, Following
<1>4. ASSUME NEW c \in Commands, NEW n \in 0 .. MaxHold, Remote(c, n) PROVE TypeOK'
  <2>1. HeldAfter(c, n) \in [Holds -> Never .. MaxHold]
    BY HeldAfterType
  <2>2. held' \in [Holds -> Never .. MaxHold]
    BY <1>4, <2>1 DEF Remote, Never
  <2>3. AttentionAfter(c) \in Attentions
    BY AttentionAfterType
  <2>4. attention' \in Attentions
    BY <1>4, <2>3 DEF Remote, Attentions
  <2> QED
    BY <1>4, <2>2, <2>4 DEF Remote, tracker, startler, listener, Turns, Following
<1>5. CASE Startle
  <2>1. fired' \in Never .. StartleHold
    BY <1>5 DEF Startle, Never
  <2> QED
    BY <1>5, <2>1 DEF Startle, tracker, listener, Intents, Turns, Following
<1>6. ASSUME NEW userHold \in BOOLEAN, NoStartle(userHold) PROVE TypeOK'
  <2>1. fired' \in Never .. StartleHold
    BY <1>6 DEF NoStartle, FiredAfter, Never
  <2>2. intent' \in Intents
    BY <1>6 DEF NoStartle, Calmed, Intents
  <2>3. was_loud' \in BOOLEAN
    BY <1>6 DEF NoStartle
  <2> QED
    BY <1>6, <2>1, <2>2, <2>3 DEF NoStartle, tracker, listener, Turns, Following
<1>7. CASE Listen \/ StopListening \/ NotListening
  <2>1. RunLoud \in 0 .. ListenSustain
    BY CappedRange DEF RunLoud
  <2>2. LastLoud \in Never .. ListenRelease /\ Never \in Never .. ListenRelease
    BY DEF LastLoud, Never
  <2>3. run_loud' \in 0 .. ListenSustain /\ last_loud' \in Never .. ListenRelease
    BY <1>7, <2>1, <2>2 DEF Listen, StopListening, NotListening
  <2>4. attention' \in Attentions /\ intent' \in Intents
    BY <1>7 DEF Listen, StopListening, NotListening, Attentions, Intents
  <2> QED
    BY <1>7, <2>3, <2>4
       DEF Listen, StopListening, NotListening, tracker, startler, Turns, Following
<1>8. CASE Pet \/ Unpet
  <2>1. run_touched' \in 0 .. PetSustain
    BY <1>8, CappedRange DEF Pet, Unpet
  <2>2. intent' \in Intents
    BY <1>8 DEF Pet, Unpet, Intents
  <2> QED
    BY <1>8, <2>1, <2>2 DEF Pet, Unpet, tracker, startler, listener, Turns, Following
<1>9. ASSUME NEW d \in Detections, Handle(d) \/ Rest PROVE TypeOK'
  <2>1. intent' \in Intents /\ last_set' \in Detections
    BY <1>9 DEF Handle, Rest, Intents, Detections
  <2> QED
    BY <1>9, <2>1 DEF Handle, Rest, tracker, startler, listener, Turns, Following
<1>10. CASE UNCHANGED vars
  BY <1>10 DEF vars, tracker, startler, listener
<1> QED
  BY <1>1, <1>2, <1>3, <1>4, <1>5, <1>6, <1>7, <1>8, <1>9, <1>10
     DEF Next, Detections

(* Spec keeps every variable in its range. *)
THEOREM TypeCorrect == Spec => []TypeOK
  BY InitType, TypeStep, PTL DEF Spec

-----------------------------------------------------------------------------
(* No turn takes an attention away from the timer that will release it. *)
LEMMA OwnerStep == TypeOK /\ AttentionHasOwner /\ [Next]_vars => AttentionHasOwner'
<1> SUFFICES ASSUME TypeOK, AttentionHasOwner, [Next]_vars
             PROVE  AttentionHasOwner'
  OBVIOUS
<1>1. ASSUME NEW m \in Mics, Drain(m) PROVE AttentionHasOwner'
  <2>1. last_tracking # Never => last_tracking' # Never
    BY <1>1, Times, OlderRange DEF Drain, TypeOK
  <2>2. \A h \in Holds : held[h] # Never => held'[h] # Never
    BY <1>1 DEF Drain, TypeOK, Never
  <2> QED
    BY <1>1, <2>1, <2>2 DEF Drain, AttentionHasOwner
<1>2. ASSUME NEW o \in Motions, Observe(o) PROVE AttentionHasOwner'
  <2>1. CASE attention' = ByCamera
    <3>1. CASE attention = ByCamera
      BY <1>2, <2>1, <3>1, OwnersDiffer
         DEF Observe, Released, AttentionHasOwner, ByCamera, Never
    <3>2. CASE attention # ByCamera
      <4>1. Eligible(o)
        BY <1>2, <2>1, <3>2, OwnersDiffer, Times DEF Observe
      <4>2. last_tracking' = (IF o = "Tracking" THEN 0 ELSE last_tracking)
        BY <1>2, <2>1, <3>2, OwnersDiffer DEF Observe
      <4>3. last_tracking' # Never
        BY <4>1, <4>2 DEF Eligible, Never
      <4> QED
        BY <2>1, <4>3, OwnersDiffer DEF AttentionHasOwner
    <3> QED
      BY <3>1, <3>2
  <2>2. CASE attention' # ByCamera
    BY <1>2, <2>2, OwnersDiffer DEF Observe, AttentionHasOwner
  <2> QED
    BY <2>1, <2>2
<1>3. ASSUME NEW c \in Commands, NEW n \in 0 .. MaxHold, Remote(c, n)
      PROVE  AttentionHasOwner'
  <2> DEFINE hd == HeldAfter(c, n)
             at == AttentionAfter(c)
  <2>1. hd \in [Holds -> Never .. MaxHold]
    BY HeldAfterType DEF TypeOK
  <2>2. \A h \in Holds : at = HeldAttention[h] => hd[h] # Never
    BY OwnedAfter DEF TypeOK
  <2>3. at = ByCamera => attention = ByCamera
    BY OwnersDiffer DEF AttentionAfter, Commands, Holds
  <2>4. held' = [h \in Holds |-> IF hd[h] = 0 THEN Never ELSE hd[h]]
    BY <1>3 DEF Remote
  <2>5. ASSUME NEW h \in Holds, Asserts(h, hd), attention' = HeldAttention[h]
        PROVE  AttentionHasOwner'
    <3>1. held'[h] # Never
      BY <2>1, <2>4, <2>5 DEF Asserts, Never
    <3> QED
      BY <2>5, <3>1, OwnersDiffer DEF AttentionHasOwner
  <2>6. ASSUME \A h \in Holds : hd[h] <= 0,
               attention' = IF \E h \in Holds : hd[h] = 0 /\ at = HeldAttention[h]
                            THEN NoAttention ELSE at
        PROVE  AttentionHasOwner'
    <3>1. \A h \in Holds : attention' # HeldAttention[h]
      <4>1. \A h \in Holds : hd[h] \in {Never, 0}
        BY <2>1, <2>6, Times DEF Never
      <4> QED
        BY <2>2, <2>6, <4>1, OwnersDiffer
    <3>2. attention' = ByCamera => last_tracking' # Never
      BY <1>3, <2>3, <2>6, OwnersDiffer DEF Remote, tracker, AttentionHasOwner
    <3> QED
      BY <3>1, <3>2 DEF AttentionHasOwner
  <2> QED
    BY <1>3, <2>5, <2>6 DEF Remote
<1>4. CASE Listen \/ StopListening \/ NotListening
  BY <1>4, OwnersDiffer
     DEF Listen, StopListening, NotListening, tracker, AttentionHasOwner
<1>5. CASE \/ Untracked \/ Startle \/ (\E u \in BOOLEAN : NoStartle(u))
           \/ Pet \/ Unpet \/ (\E d \in Detections : Handle(d)) \/ Rest
           \/ UNCHANGED vars
  BY <1>5 DEF Untracked, Startle, NoStartle, Pet, Unpet, Handle, Rest, vars,
              tracker, AttentionHasOwner
<1> QED
  BY <1>1, <1>2, <1>3, <1>4, <1>5 DEF Next

(* No attention outlives the timer that will release it. *)
THEOREM AttentionOwned == Spec => []AttentionHasOwner
<1>1. Init => AttentionHasOwner
  BY OwnersDiffer DEF Init, AttentionHasOwner
<1> QED
  BY <1>1, TypeCorrect, OwnerStep, PTL DEF Spec

-----------------------------------------------------------------------------
(* No turn leaves a reaction behind that its writer has forgotten. *)
LEMMA IntentStep == TypeOK /\ IntentHasOwner /\ [Next]_vars => IntentHasOwner'
<1> SUFFICES ASSUME TypeOK, IntentHasOwner, [Next]_vars PROVE IntentHasOwner'
  OBVIOUS
<1> USE DEF IntentHasOwner
<1>1. ASSUME NEW m \in Mics, Drain(m) PROVE IntentHasOwner'
  <2>1. fired # Never => fired' # Never
    BY <1>1, Times, OlderRange DEF Drain, TypeOK
  <2> QED
    BY <1>1, <2>1 DEF Drain
<1>2. CASE Startle
  BY <1>2 DEF Startle, Never
<1>3. ASSUME NEW u \in BOOLEAN, NoStartle(u) PROVE IntentHasOwner'
  BY <1>3 DEF NoStartle, Calmed, FiredAfter
<1>4. CASE Listen \/ StopListening \/ NotListening
  BY <1>4 DEF Listen, StopListening, NotListening, startler
<1>5. CASE Pet
  <2>1. intent = "Petted" => run_touched' = PetSustain
    BY <1>5, Times DEF Pet, Capped
  <2>2. intent' = "Petted" => run_touched' = PetSustain
    BY <1>5, <2>1, Times DEF Pet, Capped, TypeOK
  <2>3. intent' \in {intent, "Petted"}
    BY <1>5 DEF Pet
  <2> QED
    BY <1>5, <2>2, <2>3 DEF Pet, startler
<1>6. CASE Unpet
  BY <1>6 DEF Unpet, startler
<1>7. ASSUME NEW d \in Detections, Handle(d) PROVE IntentHasOwner'
  BY <1>7 DEF Handle, Yields, Detections, startler
<1>8. CASE Rest
  BY <1>8 DEF Rest, startler
<1>9. CASE \/ Untracked \/ (\E o \in Motions : Observe(o))
           \/ (\E c \in Commands, n \in 0 .. MaxHold : Remote(c, n))
           \/ UNCHANGED vars
  BY <1>9 DEF Untracked, Observe, Remote, vars, startler
<1> QED
  BY <1>1, <1>2, <1>3, <1>4, <1>5, <1>6, <1>7, <1>8, <1>9 DEF Next

(* No startle, petting or handling outlives the writer that will clear it. *)
THEOREM IntentOwned == Spec => []IntentHasOwner
<1>1. Init => IntentHasOwner
  BY DEF Init, IntentHasOwner
<1> QED
  BY <1>1, TypeCorrect, IntentStep, PTL DEF Spec

-----------------------------------------------------------------------------
(* What RemoteCommand asserts stays in force while the head is posed. *)
LEMMA HeadStep == TypeOK /\ OperatorHasTheHead /\ [Next]_vars => OperatorHasTheHead'
<1> SUFFICES ASSUME TypeOK, OperatorHasTheHead, [Next]_vars,
                    turn' \in {"IntentFromLoud", "Listening"},
                    NEW k \in Holds, held'[k] # Never
             PROVE  \E h \in Holds : held'[h] # Never /\ attention' = HeldAttention[h]
  BY Zenon DEF OperatorHasTheHead
<1>1. ASSUME NEW c \in Commands, NEW n \in 0 .. MaxHold, Remote(c, n)
      PROVE  \E h \in Holds : held'[h] # Never /\ attention' = HeldAttention[h]
  <2> DEFINE hd == HeldAfter(c, n)
  <2>1. hd \in [Holds -> Never .. MaxHold]
    BY HeldAfterType DEF TypeOK
  <2>2. held' = [h \in Holds |-> IF hd[h] = 0 THEN Never ELSE hd[h]]
    BY <1>1 DEF Remote
  <2>3. hd[k] > 0
    BY <2>1, <2>2, Times DEF Never
  <2>4. PICK h \in Holds : Asserts(h, hd) /\ attention' = HeldAttention[h]
    BY <1>1, <2>1, <2>3, Times DEF Remote, Never
  <2>5. held'[h] # Never
    BY <2>1, <2>2, <2>4 DEF Asserts, Never
  <2> QED
    BY <2>4, <2>5
<1>2. CASE \/ Startle \/ (\E u \in BOOLEAN : NoStartle(u)) \/ UNCHANGED vars
  <2>1. turn \in {"IntentFromLoud", "Listening"} /\ held[k] # Never
    BY <1>2 DEF Startle, NoStartle, vars, Runs
  <2>2. attention' = attention /\ held' = held
    BY <1>2 DEF Startle, NoStartle, vars
  <2> QED
    BY <2>1, <2>2 DEF OperatorHasTheHead
<1>3. \/ turn = "RemoteCommand" \/ turn = "IntentFromLoud" \/ UNCHANGED turn
  BY DEF Next, vars, Runs, Following, TypeOK, Turns, Drain, Untracked, Observe,
         Remote, Startle, NoStartle, Listen, StopListening, NotListening, Pet,
         Unpet, Handle, Rest
<1> QED
  BY <1>1, <1>2, <1>3
     DEF Next, Runs, Following, Drain, Untracked, Observe, Listen, StopListening,
         NotListening, Pet, Unpet, Handle, Rest

(* A live hold has its attention whenever the head is posed. *)
THEOREM HeadOperated == Spec => []OperatorHasTheHead
<1>1. Init => OperatorHasTheHead
  BY DEF Init, OperatorHasTheHead
<1> QED
  BY <1>1, TypeCorrect, HeadStep, PTL DEF Spec

-----------------------------------------------------------------------------
(* Between Petting and Handling a sustained petting is the intent. *)
PetInv == turn = "Handling" /\ run_touched = PetSustain => intent = "Petted"

(* A turn keeps PetInv, and Handling yields to a petting but for a pickup or a shake. *)
LEMMA PetStep ==
    TypeOK /\ PetInv /\ PettingShows /\ [Next]_vars => PetInv' /\ PettingShows'
<1> SUFFICES ASSUME TypeOK, PetInv, PettingShows, [Next]_vars
             PROVE  PetInv' /\ PettingShows'
  OBVIOUS
<1>1. CASE Pet
  <2>1. turn' = "Handling"
    BY <1>1 DEF Pet, Runs, Following
  <2>2. run_touched' = PetSustain => intent' = "Petted"
    BY <1>1, Times DEF Pet
  <2> QED
    BY <2>1, <2>2 DEF PetInv, PettingShows
<1>2. CASE Unpet
  BY <1>2, Times DEF Unpet, PetInv, PettingShows
<1>3. ASSUME NEW d \in Detections, Handle(d) \/ Rest PROVE PetInv' /\ PettingShows'
  <2>1. turn = "Handling" /\ turn' = "Drain" /\ run_touched' = run_touched
    BY <1>3 DEF Handle, Rest, Runs, Following
  <2>2. intent = "Petted" => intent' \in {"Petted", "PickedUp", "Shaken"}
    BY <1>3 DEF Handle, Rest, Yields, Detections, TypeOK
  <2> QED
    BY <2>1, <2>2 DEF PetInv, PettingShows
<1>4. CASE UNCHANGED vars
  BY <1>4 DEF vars, PetInv, PettingShows
<1>5. ASSUME turn \in {"Drain", "AttentionFromTracking", "RemoteCommand",
                       "IntentFromLoud", "Listening"},
             turn' = Following[turn]
      PROVE  PetInv' /\ PettingShows'
  BY <1>5 DEF Following, PetInv, PettingShows
<1> QED
  BY <1>1, <1>2, <1>3, <1>4, <1>5
     DEF Next, Runs, Drain, Untracked, Observe, Remote, Startle, NoStartle,
         Listen, StopListening, NotListening, Detections

(* At the end of every frame a sustained petting shows. *)
THEOREM PettingShown == Spec => []PettingShows
<1>1. Init => PetInv /\ PettingShows
  BY Times DEF Init, PetInv, PettingShows
<1> QED
  BY <1>1, TypeCorrect, PetStep, PTL DEF Spec

-----------------------------------------------------------------------------
(***************************************************************************)
(* Settles.  In a quiet room every timer runs down, and once none has      *)
(* anything left one frame clears what it guards.                          *)
(***************************************************************************)
Remaining(t, window) == IF t = Never THEN 0 ELSE window - t
OfHold(h) == held[h] + 1

FramesLeft ==
    OfHold("LookAt") + OfHold("LookAtPoint") + OfHold("Listen") + OfHold("Thinking")
    + Remaining(last_tracking, TrackRelease) + Remaining(fired, StartleHold)
    + Remaining(last_loud, ListenRelease)

RanOut ==
    /\ \A h \in Holds : held[h] = Never
    /\ last_tracking \in {Never, TrackRelease}
    /\ fired \in {Never, StartleHold}
    /\ last_loud \in {Never, ListenRelease}

(* A hold of no frames is over within the frame.                           *)
HoldsRun == turn \notin {"AttentionFromTracking", "RemoteCommand"} =>
                \A h \in Holds : held[h] # 0

(* Without a report of the camera there is no time of the last one.        *)
Unwatched == ~watching => last_tracking = Never

Owned == TypeOK /\ AttentionHasOwner /\ IntentHasOwner /\ HoldsRun /\ Unwatched

LEMMA Ages ==
    ASSUME NEW window \in Nat, NEW t \in Never .. window
    PROVE  /\ Remaining(t, window) \in Nat
           /\ Remaining(Never, window) = 0
           /\ Remaining(t, window) = 0 <=> t \in {Never, window}
           /\ Remaining(Older(t, window), window) <= Remaining(t, window)
           /\ t \notin {Never, window} =>
                  Remaining(Older(t, window), window) < Remaining(t, window)
  BY DEF Remaining, Older, Capped, Never

LEMMA HoldsType ==
    ASSUME TypeOK
    PROVE  \A h \in Holds : held[h] \in Never .. MaxHold /\ OfHold(h) \in Nat
  BY Times DEF TypeOK, OfHold, Never

LEMMA LeftType ==
    ASSUME TypeOK
    PROVE  /\ FramesLeft \in Nat
           /\ FramesLeft = 0 <=> RanOut
<1>1. \A h \in Holds : OfHold(h) \in Nat /\ (OfHold(h) = 0 <=> held[h] = Never)
  BY HoldsType DEF OfHold, Never
<1>2. /\ OfHold("LookAt") \in Nat /\ OfHold("LookAtPoint") \in Nat
      /\ OfHold("Listen") \in Nat /\ OfHold("Thinking") \in Nat
  BY <1>1 DEF Holds
<1>3. /\ Remaining(last_tracking, TrackRelease) \in Nat
      /\ Remaining(last_tracking, TrackRelease) = 0 <=> last_tracking \in {Never, TrackRelease}
      /\ Remaining(fired, StartleHold) \in Nat
      /\ Remaining(fired, StartleHold) = 0 <=> fired \in {Never, StartleHold}
      /\ Remaining(last_loud, ListenRelease) \in Nat
      /\ Remaining(last_loud, ListenRelease) = 0 <=> last_loud \in {Never, ListenRelease}
  BY Times, Ages DEF TypeOK
<1>4. FramesLeft \in Nat
  BY <1>2, <1>3 DEF FramesLeft
<1>5. FramesLeft = 0 <=>
          /\ OfHold("LookAt") = 0 /\ OfHold("LookAtPoint") = 0
          /\ OfHold("Listen") = 0 /\ OfHold("Thinking") = 0
          /\ Remaining(last_tracking, TrackRelease) = 0
          /\ Remaining(fired, StartleHold) = 0
          /\ Remaining(last_loud, ListenRelease) = 0
  <2> DEFINE a == OfHold("LookAt")
             b == OfHold("LookAtPoint")
             c == OfHold("Listen")
             d == OfHold("Thinking")
             e == Remaining(last_tracking, TrackRelease)
             f == Remaining(fired, StartleHold)
             g == Remaining(last_loud, ListenRelease)
  <2>1. a \in Nat /\ b \in Nat /\ c \in Nat /\ d \in Nat /\ e \in Nat /\ f \in Nat /\ g \in Nat
    BY <1>2, <1>3
  <2>2. FramesLeft = a + b + c + d + e + f + g
    BY DEF FramesLeft
  <2> HIDE DEF a, b, c, d, e, f, g
  <2>3. FramesLeft = 0 <=> a = 0 /\ b = 0 /\ c = 0 /\ d = 0 /\ e = 0 /\ f = 0 /\ g = 0
    BY <2>1, <2>2
  <2> QED
    BY <2>3 DEF a, b, c, d, e, f, g
<1>6. (\A h \in Holds : held[h] = Never) <=>
          /\ OfHold("LookAt") = 0 /\ OfHold("LookAtPoint") = 0
          /\ OfHold("Listen") = 0 /\ OfHold("Thinking") = 0
  BY <1>1 DEF Holds
<1> QED
  BY <1>3, <1>4, <1>5, <1>6 DEF RanOut

LEMMA OwnedStep == Owned /\ [Next]_vars => Owned'
<1> SUFFICES ASSUME Owned, [Next]_vars PROVE HoldsRun' /\ Unwatched'
  BY TypeStep, OwnerStep, IntentStep DEF Owned
<1> USE DEF Owned
<1>1. ASSUME NEW m \in Mics, Drain(m) PROVE HoldsRun' /\ Unwatched'
  <2>1. turn' = "AttentionFromTracking"
    BY <1>1 DEF Drain, Runs, Following
  <2>2. last_tracking = Never => last_tracking' = Never
    BY <1>1 DEF Drain, Older
  <2> QED
    BY <1>1, <2>1, <2>2 DEF Drain, HoldsRun, Unwatched
<1>2. CASE Untracked
  <2>1. turn' = "RemoteCommand"
    BY <1>2 DEF Untracked, Runs, Following
  <2> QED
    BY <1>2, <2>1 DEF Untracked, HoldsRun, Unwatched
<1>3. ASSUME NEW o \in Motions, Observe(o) PROVE HoldsRun' /\ Unwatched'
  <2>1. turn' = "RemoteCommand" /\ watching'
    BY <1>3 DEF Observe, Runs, Following
  <2> QED
    BY <2>1 DEF HoldsRun, Unwatched
<1>4. ASSUME NEW c \in Commands, NEW n \in 0 .. MaxHold, Remote(c, n)
      PROVE  HoldsRun' /\ Unwatched'
  <2>1. \A h \in Holds : held'[h] # 0
    BY <1>4 DEF Remote, Never
  <2> QED
    BY <1>4, <2>1 DEF Remote, tracker, HoldsRun, Unwatched
<1>5. ASSUME turn \in {"IntentFromLoud", "Listening", "Petting", "Handling"},
             UNCHANGED <<tracker, held>>
      PROVE  HoldsRun' /\ Unwatched'
  BY <1>5 DEF tracker, HoldsRun, Unwatched
<1>6. CASE UNCHANGED vars
  BY <1>6 DEF vars, tracker, HoldsRun, Unwatched
<1> QED
  BY <1>1, <1>2, <1>3, <1>4, <1>5, <1>6
     DEF Next, Runs, Startle, NoStartle, Listen, StopListening, NotListening, Pet,
         Unpet, Handle, Rest

LEMMA AlwaysOwned == Spec => []Owned
<1>1. Init => Owned
  <2>1. Init => HoldsRun /\ Unwatched
    BY DEF Init, HoldsRun, Unwatched, Never
  <2>2. Init => AttentionHasOwner /\ IntentHasOwner
    BY OwnersDiffer DEF Init, AttentionHasOwner, IntentHasOwner
  <2> QED
    BY InitType, <2>1, <2>2 DEF Owned
<1> QED
  BY <1>1, OwnedStep, PTL DEF Spec

-----------------------------------------------------------------------------
(* What each of the quiet steps does to the timers.                        *)
LEMMA QuietTimers ==
    ASSUME Owned, QuietNext, ~Loud
    PROVE  /\ ~Loud'
           /\ \A h \in Holds : held'[h] <= held[h]
           /\ last_tracking' \in {last_tracking, Never, Older(last_tracking, TrackRelease)}
           /\ fired' \in {fired, Never, Older(fired, StartleHold)}
           /\ last_loud' \in {last_loud, Never, Older(last_loud, ListenRelease)}
<1> USE DEF Owned
<1>1. ASSUME NEW m \in {"none", "quiet"}, Drain(m)
      PROVE  ~Loud' /\ \A h \in Holds : held'[h] <= held[h]
  BY <1>1, HoldsType DEF Drain, Loud, Never
<1>2. CASE Untracked
  BY <1>2, HoldsType DEF Untracked, startler, listener, Loud, Never
<1>3. CASE Observe("Other")
  <2>1. ~Eligible("Other")
    BY DEF Eligible
  <2>2. last_tracking' \in {last_tracking, Never}
    BY <1>3, <2>1 DEF Observe
  <2> QED
    BY <1>3, <2>2, HoldsType DEF Observe, startler, listener, Loud, Never
<1>4. CASE Remote("none", 0)
  <2>1. held' = [h \in Holds |-> IF held[h] = 0 THEN Never ELSE held[h]]
    BY <1>4 DEF Remote, HeldAfter
  <2> QED
    BY <1>4, <2>1, HoldsType DEF Remote, tracker, startler, listener, Loud, Never
<1>5. ASSUME NEW u \in BOOLEAN, NoStartle(u)
      PROVE  ~Loud' /\ fired' \in {fired, Never}
             /\ UNCHANGED <<held, last_tracking, last_loud>>
  BY <1>5 DEF NoStartle, FiredAfter, tracker, listener, Loud
<1>6. CASE Listen \/ StopListening \/ NotListening
  BY <1>6, HoldsType
     DEF Listen, StopListening, NotListening, LastLoud, Loud, tracker, startler, Never
<1>7. CASE Unpet \/ Rest
  BY <1>7, HoldsType DEF Unpet, Rest, tracker, startler, listener, Loud, Never
<1>8. CASE \E m \in {"none", "quiet"} : Drain(m)
  BY <1>1, <1>8 DEF Drain
<1>9. CASE \E u \in BOOLEAN : NoStartle(u)
  BY <1>5, <1>9, HoldsType DEF Never
<1> QED
  BY <1>2, <1>3, <1>4, <1>6, <1>7, <1>8, <1>9 DEF QuietNext

LEMMA SumFalls ==
    ASSUME NEW a \in Nat, NEW b \in Nat, NEW c \in Nat, NEW d \in Nat,
           NEW e \in Nat, NEW f \in Nat, NEW g \in Nat,
           NEW aa \in Nat, NEW bb \in Nat, NEW cc \in Nat, NEW dd \in Nat,
           NEW ee \in Nat, NEW ff \in Nat, NEW gg \in Nat,
           aa <= a, bb <= b, cc <= c, dd <= d, ee <= e, ff <= f, gg <= g
    PROVE  /\ aa + bb + cc + dd + ee + ff + gg \in Nat
           /\ aa + bb + cc + dd + ee + ff + gg <= a + b + c + d + e + f + g
           /\ aa < a \/ bb < b \/ cc < c \/ dd < d \/ ee < e \/ ff < f \/ gg < g
                  => aa + bb + cc + dd + ee + ff + gg < a + b + c + d + e + f + g
  OBVIOUS

LEMMA QuietFalls ==
    ASSUME Owned, Owned', QuietNext, ~Loud
    PROVE  /\ FramesLeft' \in Nat /\ FramesLeft' <= FramesLeft
           /\ turn = "Drain" /\ FramesLeft # 0 => FramesLeft' < FramesLeft
<1>1. \A h \in Holds : /\ OfHold(h) \in Nat /\ OfHold(h)' \in Nat
                       /\ OfHold(h)' <= OfHold(h)
                       /\ turn = "Drain" /\ held[h] # Never => OfHold(h)' < OfHold(h)
  <2> SUFFICES ASSUME NEW h \in Holds
               PROVE  /\ OfHold(h) \in Nat /\ OfHold(h)' \in Nat
                      /\ OfHold(h)' <= OfHold(h)
                      /\ turn = "Drain" /\ held[h] # Never => OfHold(h)' < OfHold(h)
    OBVIOUS
  <2>1. held[h] \in Never .. MaxHold /\ held'[h] \in Never .. MaxHold /\ held'[h] <= held[h]
    BY HoldsType, QuietTimers DEF Owned, TypeOK
  <2>2. ASSUME turn = "Drain", held[h] # Never PROVE held'[h] = held[h] - 1
    <3>1. \E m \in Mics : Drain(m)
      BY <2>2, TurnsType DEF QuietNext, Runs, Untracked, Observe, Remote, NoStartle, Listen,
         StopListening, NotListening, Unpet, Rest, Mics
    <3>2. held[h] > 0
      BY <2>1, <2>2, Times DEF Owned, HoldsRun, Never
    <3> QED
      BY <3>1, <3>2 DEF Drain
  <2> QED
    BY <2>1, <2>2, Times DEF OfHold, Never
<1>2. /\ Remaining(last_tracking, TrackRelease) \in Nat
      /\ Remaining(last_tracking, TrackRelease)' \in Nat
      /\ Remaining(last_tracking, TrackRelease)' <= Remaining(last_tracking, TrackRelease)
  BY QuietTimers, Times, Ages DEF Owned, TypeOK
<1>3. /\ Remaining(fired, StartleHold) \in Nat /\ Remaining(fired, StartleHold)' \in Nat
      /\ Remaining(fired, StartleHold)' <= Remaining(fired, StartleHold)
  BY QuietTimers, Times, Ages DEF Owned, TypeOK
<1>4. /\ Remaining(last_loud, ListenRelease) \in Nat
      /\ Remaining(last_loud, ListenRelease)' \in Nat
      /\ Remaining(last_loud, ListenRelease)' <= Remaining(last_loud, ListenRelease)
  BY QuietTimers, Times, Ages DEF Owned, TypeOK
<1>5. ASSUME turn = "Drain", FramesLeft # 0
      PROVE  \/ \E h \in Holds : held[h] # Never
             \/ Remaining(last_tracking, TrackRelease)' < Remaining(last_tracking, TrackRelease)
             \/ Remaining(fired, StartleHold)' < Remaining(fired, StartleHold)
             \/ Remaining(last_loud, ListenRelease)' < Remaining(last_loud, ListenRelease)
  <2>1. \E m \in Mics : Drain(m)
    BY <1>5, TurnsType DEF QuietNext, Runs, Untracked, Observe, Remote, NoStartle, Listen,
       StopListening, NotListening, Unpet, Rest, Mics
  <2>2. /\ last_tracking' = Older(last_tracking, TrackRelease)
        /\ fired' = Older(fired, StartleHold)
        /\ last_loud' = Older(last_loud, ListenRelease)
    BY <2>1 DEF Drain
  <2>3. ~RanOut
    BY <1>5, LeftType DEF Owned
  <2> QED
    BY <2>2, <2>3, Times, Ages DEF RanOut, Owned, TypeOK
<1>6. /\ OfHold("LookAt") \in Nat /\ OfHold("LookAt")' \in Nat
      /\ OfHold("LookAtPoint") \in Nat /\ OfHold("LookAtPoint")' \in Nat
      /\ OfHold("Listen") \in Nat /\ OfHold("Listen")' \in Nat
      /\ OfHold("Thinking") \in Nat /\ OfHold("Thinking")' \in Nat
      /\ OfHold("LookAt")' <= OfHold("LookAt") /\ OfHold("LookAtPoint")' <= OfHold("LookAtPoint")
      /\ OfHold("Listen")' <= OfHold("Listen") /\ OfHold("Thinking")' <= OfHold("Thinking")
      /\ turn = "Drain" /\ (\E h \in Holds : held[h] # Never) =>
             \/ OfHold("LookAt")' < OfHold("LookAt")
             \/ OfHold("LookAtPoint")' < OfHold("LookAtPoint")
             \/ OfHold("Listen")' < OfHold("Listen")
             \/ OfHold("Thinking")' < OfHold("Thinking")
  BY <1>1 DEF Holds
<1> QED
  BY <1>2, <1>3, <1>4, <1>5, <1>6, SumFalls DEF FramesLeft

(* A quiet frame takes something off the timers, and nothing in it adds to them. *)
THEOREM QuietRunsDown ==
    Spec => [][QuietNext /\ ~Loud =>
                  /\ FramesLeft' <= FramesLeft
                  /\ turn = "Drain" /\ FramesLeft # 0 => FramesLeft' < FramesLeft]_vars
<1>1. Owned /\ Owned' /\ [Next]_vars =>
          [QuietNext /\ ~Loud =>
              /\ FramesLeft' <= FramesLeft
              /\ turn = "Drain" /\ FramesLeft # 0 => FramesLeft' < FramesLeft]_vars
  BY QuietFalls
<1> QED
  BY <1>1, AlwaysOwned, PTL DEF Spec

-----------------------------------------------------------------------------
(* Nothing is heard and no timer has anything left.                        *)
Still == Owned /\ FramesLeft = 0 /\ ~Loud

LEMMA StillRanOut == ASSUME Still PROVE RanOut
  BY LeftType DEF Still, Owned

(* Then whoever has the attention or the intent gives it up in its turn.   *)
Cleared(t) ==
    CASE t = "AttentionFromTracking" -> attention # ByCamera
      [] t = "IntentFromLoud"        -> intent # "Startled"
      [] t = "Listening"             -> attention # ByVoice
      [] t = "Petting"               -> intent # "Petted"
      [] t = "Handling"              -> intent \notin {"PickedUp", "Shaken", "Tilted"}
Clearing == {"AttentionFromTracking", "IntentFromLoud", "Listening", "Petting", "Handling"}

(* No operator's attention is left without a hold.                         *)
LEMMA StillAttention ==
    ASSUME Still
    PROVE  attention \in {NoAttention, ByCamera, ByVoice}
  BY StillRanOut DEF Still, Owned, TypeOK, Attentions, AttentionHasOwner, RanOut

LEMMA StillStep ==
    ASSUME Still, [Next]_vars, [QuietNext]_vars
    PROVE  Still'
<1>1. Owned'
  BY OwnedStep DEF Still
<1>2. CASE QuietNext
  <2>1. FramesLeft' \in Nat /\ FramesLeft' <= FramesLeft /\ ~Loud'
    BY <1>1, <1>2, QuietFalls, QuietTimers DEF Still
  <2> QED
    BY <1>1, <2>1 DEF Still
<1>3. CASE UNCHANGED vars
  BY <1>1, <1>3 DEF vars, tracker, startler, listener, Still, FramesLeft, OfHold, Loud
<1> QED
  BY <1>2, <1>3

(* What a quiet step leaves of the attention and the intent.               *)
LEMMA StillKeeps ==
    ASSUME Still, QuietNext
    PROVE  /\ attention' \in {attention, NoAttention}
           /\ intent' \in {intent, "Idle"}
<1>1. CASE Observe("Other")
  BY <1>1, Times DEF Observe, Eligible
<1>2. CASE Remote("none", 0)
  <2>1. HeldAfter("none", 0) = held /\ AttentionAfter("none") = attention
    BY DEF HeldAfter, AttentionAfter
  <2>2. \A h \in Holds : ~(held[h] > 0)
    BY StillRanOut DEF RanOut, Never
  <2> QED
    BY <1>2, <2>1, <2>2 DEF Remote, Asserts
<1>3. CASE Listen
  BY <1>3, Times DEF Listen, RunLoud, Still
<1>4. ASSUME NEW u \in BOOLEAN, NoStartle(u)
      PROVE  /\ attention' \in {attention, NoAttention}
             /\ intent' \in {intent, "Idle"}
  BY <1>4 DEF NoStartle, Calmed
<1>5. CASE StopListening \/ NotListening \/ Unpet \/ Rest
  BY <1>5 DEF StopListening, NotListening, Unpet, Rest
<1>6. CASE (\E m \in {"none", "quiet"} : Drain(m)) \/ Untracked
  BY <1>6 DEF Drain, Untracked
<1> QED
  BY <1>1, <1>2, <1>3, <1>4, <1>5, <1>6 DEF QuietNext

LEMMA ClearedStays ==
    ASSUME NEW t \in Clearing, Still, Cleared(t), [QuietNext]_vars
    PROVE  Cleared(t)'
<1>1. CASE QuietNext
  BY <1>1, StillKeeps, OwnersDiffer DEF Clearing, Cleared
<1>2. CASE UNCHANGED vars
  BY <1>2 DEF vars, Clearing, Cleared
<1> QED
  BY <1>1, <1>2

(* The turn of the one that is to clear it does.                           *)
LEMMA ClearedInTurn ==
    ASSUME NEW t \in Clearing, Still, turn = t, QuietNext
    PROVE  Cleared(t)'
<1> USE StillRanOut DEF Still, Owned
<1>1. CASE t = "AttentionFromTracking"
  <2>1. Untracked \/ Observe("Other")
    BY <1>1 DEF QuietNext, Runs, Drain, Remote, NoStartle, Listen, StopListening,
       NotListening, Unpet, Rest
  <2>2. CASE Untracked
    BY <1>1, <2>2 DEF Untracked, Unwatched, AttentionHasOwner, Cleared
  <2>3. CASE Observe("Other")
    <3>1. attention' = IF attention.kind = "Tracking" /\ Released(last_tracking)
                       THEN NoAttention ELSE attention
      BY <2>3, Times DEF Observe, Eligible
    <3>2. Released(last_tracking)
      BY Times DEF Released, RanOut
    <3> QED
      BY <1>1, <3>1, <3>2, OwnersDiffer DEF ByCamera, Cleared
  <2> QED
    BY <2>1, <2>2, <2>3
<1>2. CASE t = "IntentFromLoud"
  <2>1. PICK u \in BOOLEAN : NoStartle(u)
    BY <1>2 DEF QuietNext, Runs, Drain, Untracked, Observe, Remote, Listen, StopListening,
       NotListening, Unpet, Rest
  <2>2. intent = "Startled" => fired >= StartleHold
    BY Times DEF IntentHasOwner, RanOut
  <2> QED
    BY <1>2, <2>1, <2>2 DEF NoStartle, Calmed, StartleOver, Cleared
<1>3. CASE t = "Listening"
  <2>1. Listen \/ StopListening \/ NotListening
    BY <1>3 DEF QuietNext, Runs, Drain, Untracked, Observe, Remote, NoStartle, Unpet, Rest
  <2>2. ~Listen
    BY Times DEF Listen, RunLoud
  <2>3. ~Lingers
    BY Times DEF Lingers, LastLoud, RanOut, Never
  <2>4. attention = ByVoice => Attending
    BY DEF Attending, ByVoice
  <2> QED
    BY <1>3, <2>1, <2>2, <2>3, <2>4, OwnersDiffer DEF StopListening, NotListening, Cleared
<1>4. CASE t = "Petting"
  <2>1. Unpet
    BY <1>4 DEF QuietNext, Runs, Drain, Untracked, Observe, Remote, NoStartle, Listen,
       StopListening, NotListening, Rest
  <2> QED
    BY <1>4, <2>1 DEF Unpet, Cleared
<1>5. CASE t = "Handling"
  <2>1. Rest
    BY <1>5 DEF QuietNext, Runs, Drain, Untracked, Observe, Remote, NoStartle, Listen,
       StopListening, NotListening, Unpet
  <2> QED
    BY <1>5, <2>1 DEF Rest, IntentHasOwner, Cleared
<1> QED
  BY <1>1, <1>2, <1>3, <1>4, <1>5 DEF Clearing

(* Every action is somebody's turn and hands on to the next one.           *)
LEMMA TurnPasses == ASSUME Next PROVE turn' = Following[turn]
  BY DEF Next, Runs, Drain, Untracked, Observe, Remote, Startle, NoStartle, Listen,
     StopListening, NotListening, Pet, Unpet, Handle, Rest

LEMMA EveryTurnComes ==
    FairSpec /\ []ENABLED <<Next>>_vars
        => /\ []<>(turn = "Drain")
           /\ []<>(turn = "AttentionFromTracking") /\ []<>(turn = "IntentFromLoud")
           /\ []<>(turn = "Listening") /\ []<>(turn = "Petting") /\ []<>(turn = "Handling")
<1>1. \A t \in Turns : turn = t /\ [Next]_vars => (turn = t)' \/ (turn = Following[t])'
  BY TurnPasses DEF vars
<1>2. \A t \in Turns : turn = t /\ <<Next>>_vars => (turn = Following[t])'
  BY TurnPasses
<1>3. /\ turn = "Drain" /\ [Next]_vars
             => (turn = "Drain")' \/ (turn = "AttentionFromTracking")'
      /\ turn = "AttentionFromTracking" /\ [Next]_vars
             => (turn = "AttentionFromTracking")' \/ (turn = "RemoteCommand")'
      /\ turn = "RemoteCommand" /\ [Next]_vars
             => (turn = "RemoteCommand")' \/ (turn = "IntentFromLoud")'
      /\ turn = "IntentFromLoud" /\ [Next]_vars
             => (turn = "IntentFromLoud")' \/ (turn = "Listening")'
      /\ turn = "Listening" /\ [Next]_vars => (turn = "Listening")' \/ (turn = "Petting")'
      /\ turn = "Petting" /\ [Next]_vars => (turn = "Petting")' \/ (turn = "Handling")'
      /\ turn = "Handling" /\ [Next]_vars => (turn = "Handling")' \/ (turn = "Drain")'
  BY <1>1 DEF Turns, Following
<1>4. /\ turn = "Drain" /\ <<Next>>_vars => (turn = "AttentionFromTracking")'
      /\ turn = "AttentionFromTracking" /\ <<Next>>_vars => (turn = "RemoteCommand")'
      /\ turn = "RemoteCommand" /\ <<Next>>_vars => (turn = "IntentFromLoud")'
      /\ turn = "IntentFromLoud" /\ <<Next>>_vars => (turn = "Listening")'
      /\ turn = "Listening" /\ <<Next>>_vars => (turn = "Petting")'
      /\ turn = "Petting" /\ <<Next>>_vars => (turn = "Handling")'
      /\ turn = "Handling" /\ <<Next>>_vars => (turn = "Drain")'
  BY <1>2 DEF Turns, Following
<1>5. TypeOK => \/ turn = "Drain" \/ turn = "AttentionFromTracking" \/ turn = "RemoteCommand"
                \/ turn = "IntentFromLoud" \/ turn = "Listening" \/ turn = "Petting"
                \/ turn = "Handling"
  BY DEF TypeOK, Turns, Following
<1> QED
  BY <1>3, <1>4, <1>5, TypeCorrect, PTL DEF FairSpec, Spec

(* A quiet room has nobody in earshot from its first frame on.             *)
LEMMA QuietHushes ==
    FairSpec /\ []ENABLED <<Next>>_vars /\ <>[][QuietNext]_vars => <>[](Owned /\ ~Loud)
<1>1. turn = "Drain" /\ [QuietNext]_vars /\ <<Next>>_vars => (~Loud)'
  BY DEF QuietNext, Drain, Untracked, Observe, Remote, NoStartle, Listen, StopListening,
     NotListening, Unpet, Rest, Runs, Loud
<1>2. Owned /\ ~Loud /\ [QuietNext]_vars => (~Loud)'
  BY QuietTimers DEF vars, Loud
<1>3. [Next]_vars /\ turn = "Drain" => (turn = "Drain")' \/ <<Next>>_vars
  BY DEF vars
<1> QED
  BY <1>1, <1>2, <1>3, AlwaysOwned, EveryTurnComes, PTL DEF FairSpec, Spec

(* Whatever is left of the timers, there is less of it a frame later.      *)
LEMMA QuietComesDown ==
    ASSUME NEW n \in Nat \ {0}
    PROVE  [](Owned /\ ~Loud) /\ [][QuietNext]_vars /\ []<>(turn = "Drain")
               /\ []<>(turn = "Handling")
               => [](FramesLeft = n => <>(FramesLeft < n))
<1>1. Owned /\ Owned' /\ ~Loud /\ FramesLeft = n /\ [QuietNext]_vars
          => (FramesLeft = n)' \/ (FramesLeft < n)'
  <2>1. CASE QuietNext
    BY <2>1, QuietFalls, LeftType DEF Owned
  <2>2. CASE UNCHANGED vars
    BY <2>2 DEF vars, tracker, startler, listener, FramesLeft, OfHold
  <2> QED
    BY <2>1, <2>2
<1>2. Owned /\ Owned' /\ ~Loud /\ FramesLeft = n /\ turn = "Drain" /\ [QuietNext]_vars
          => (turn = "Drain")' \/ (FramesLeft < n)'
  BY QuietFalls, LeftType DEF Owned, vars
<1>3. ~(turn = "Drain" /\ turn = "Handling")
  OBVIOUS
<1> QED
  BY <1>1, <1>2, <1>3, PTL

(* A frame after the timers have run out the attention and the intent are  *)
(* cleared for good.                                                       *)
LEMMA SettlesOnceRunOut ==
    FairSpec /\ []ENABLED <<Next>>_vars
        /\ (<>[][QuietNext]_vars => []<>(FramesLeft = 0)) => Settles
<1> DEFINE Clear == attention = NoAttention /\ intent \in {"Idle", "Listening"}
<1>1. \A t \in Clearing :
        Still /\ Cleared(t) /\ [QuietNext]_vars => Cleared(t)'
  BY ClearedStays
<1>2. \A t \in Clearing :
        Still /\ turn = t /\ [QuietNext]_vars /\ <<Next>>_vars => Cleared(t)'
  BY ClearedInTurn
<1>3. /\ Still /\ Cleared("AttentionFromTracking") /\ [QuietNext]_vars
             => Cleared("AttentionFromTracking")'
      /\ Still /\ Cleared("IntentFromLoud") /\ [QuietNext]_vars => Cleared("IntentFromLoud")'
      /\ Still /\ Cleared("Listening") /\ [QuietNext]_vars => Cleared("Listening")'
      /\ Still /\ Cleared("Petting") /\ [QuietNext]_vars => Cleared("Petting")'
      /\ Still /\ Cleared("Handling") /\ [QuietNext]_vars => Cleared("Handling")'
  BY <1>1 DEF Clearing
<1>4. /\ Still /\ turn = "AttentionFromTracking" /\ [QuietNext]_vars /\ <<Next>>_vars
             => Cleared("AttentionFromTracking")'
      /\ Still /\ turn = "IntentFromLoud" /\ [QuietNext]_vars /\ <<Next>>_vars
             => Cleared("IntentFromLoud")'
      /\ Still /\ turn = "Listening" /\ [QuietNext]_vars /\ <<Next>>_vars
             => Cleared("Listening")'
      /\ Still /\ turn = "Petting" /\ [QuietNext]_vars /\ <<Next>>_vars
             => Cleared("Petting")'
      /\ Still /\ turn = "Handling" /\ [QuietNext]_vars /\ <<Next>>_vars
             => Cleared("Handling")'
  BY <1>2 DEF Clearing
<1>5. Still /\ Cleared("AttentionFromTracking") /\ Cleared("IntentFromLoud")
            /\ Cleared("Listening") /\ Cleared("Petting") /\ Cleared("Handling") => Clear
  BY StillAttention DEF Cleared, Still, Owned, TypeOK, Intents
<1>6. Still /\ [Next]_vars /\ [QuietNext]_vars => Still'
  BY StillStep
<1>9. Owned /\ ~Loud /\ FramesLeft = 0 => Still
  BY DEF Still
<1> HIDE DEF Clear
<1>10. /\ [Next]_vars /\ turn = "Drain" => (turn = "Drain")' \/ <<Next>>_vars
       /\ [Next]_vars /\ turn = "AttentionFromTracking"
              => (turn = "AttentionFromTracking")' \/ <<Next>>_vars
       /\ [Next]_vars /\ turn = "IntentFromLoud" => (turn = "IntentFromLoud")' \/ <<Next>>_vars
       /\ [Next]_vars /\ turn = "Listening" => (turn = "Listening")' \/ <<Next>>_vars
       /\ [Next]_vars /\ turn = "Petting" => (turn = "Petting")' \/ <<Next>>_vars
       /\ [Next]_vars /\ turn = "Handling" => (turn = "Handling")' \/ <<Next>>_vars
  BY DEF vars
<1>11. FairSpec /\ []ENABLED <<Next>>_vars /\ <>[][QuietNext]_vars => <>[](Owned /\ ~Loud)
  BY QuietHushes
<1>12. FairSpec /\ []ENABLED <<Next>>_vars /\ []<>(FramesLeft = 0) /\ <>[][QuietNext]_vars
           => <>[]Still
  BY <1>6, <1>9, <1>11, PTL DEF FairSpec, Spec
<1>13. FairSpec /\ []ENABLED <<Next>>_vars /\ []<>(FramesLeft = 0) /\ <>[][QuietNext]_vars
           => <>[]Cleared("AttentionFromTracking")
  BY <1>3, <1>4, <1>10, <1>12, EveryTurnComes, PTL DEF FairSpec, Spec
<1>14. FairSpec /\ []ENABLED <<Next>>_vars /\ []<>(FramesLeft = 0) /\ <>[][QuietNext]_vars
           => <>[]Cleared("IntentFromLoud")
  BY <1>3, <1>4, <1>10, <1>12, EveryTurnComes, PTL DEF FairSpec, Spec
<1>15. FairSpec /\ []ENABLED <<Next>>_vars /\ []<>(FramesLeft = 0) /\ <>[][QuietNext]_vars
           => <>[]Cleared("Listening")
  BY <1>3, <1>4, <1>10, <1>12, EveryTurnComes, PTL DEF FairSpec, Spec
<1>16. FairSpec /\ []ENABLED <<Next>>_vars /\ []<>(FramesLeft = 0) /\ <>[][QuietNext]_vars
           => <>[]Cleared("Petting") /\ <>[]Cleared("Handling")
  BY <1>3, <1>4, <1>10, <1>12, EveryTurnComes, PTL DEF FairSpec, Spec
<1> QED
  BY <1>5, <1>12, <1>13, <1>14, <1>15, <1>16, PTL DEF Settles, Clear

(***************************************************************************)
(* Once quiet for good the robot settles, for every length of its windows  *)
(* and holds.  That frames follow one another is the hypothesis on         *)
(* ENABLED: no turn is ever without an outcome.                            *)
(***************************************************************************)
THEOREM SettlesAlways ==
    FairSpec /\ []ENABLED <<Next>>_vars /\ NoEndlessDescent(FramesLeft) => Settles
<1>1. [](Owned /\ ~Loud) /\ [][QuietNext]_vars /\ []<>(turn = "Drain")
          /\ []<>(turn = "Handling")
          => \A n \in Nat \ {0} : [](FramesLeft = n => <>(FramesLeft < n))
  BY QuietComesDown
<1>2. Owned => FramesLeft \in Nat
  BY LeftType DEF Owned
<1>3. FairSpec /\ []ENABLED <<Next>>_vars /\ NoEndlessDescent(FramesLeft)
          => (<>[][QuietNext]_vars => []<>(FramesLeft = 0))
  BY <1>1, <1>2, QuietHushes, EveryTurnComes, PTL DEF NoEndlessDescent
<1> QED
  BY <1>3, SettlesOnceRunOut, PTL
=============================================================================
