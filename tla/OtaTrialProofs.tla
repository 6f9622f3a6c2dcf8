--------------------------- MODULE OtaTrialProofs ---------------------------
(***************************************************************************)
(* Proofs about OtaTrial, for every set of images and every bound.         *)
(*                                                                         *)
(* The argument has three layers: the types; what the flash always offers  *)
(* the bootloader (RunningImageWhole, FallbackInv); and what the two words *)
(* of RTC RAM can hold at each phase (LatchInv, MarkInv), which is what    *)
(* makes a rollback justified.                                             *)
(***************************************************************************)
EXTENDS OtaTrial, TLAPS

USE DEF Slots, NoSlot, Garbled

(* Every value the boot check, the update handler and the resets store is  *)
(* of its type.                                                            *)
LEMMA BootSlotType ==
    ASSUME NEW data, NEW img, NEW newest \in Slots
    PROVE  BootSlot(data, newest, img) \in Slots
  BY DEF BootSlot, Preferred, Other

LEMMA TypeStep == TypeOK /\ [Next]_vars => TypeOK'
<1> SUFFICES ASSUME TypeOK, [Next]_vars PROVE TypeOK'
  OBVIOUS
<1>0. Upset => upsets' \in 0 .. MaxUpsets
  BY BoundsAssumption DEF Upset, TypeOK
<1> USE ImagesAssumption, BoundsAssumption DEF TypeOK
<1>1. CASE UNCHANGED vars
  BY <1>1 DEF vars, flash, rtc, ram, bounds, history
<1>2. ASSUME NEW p \in BOOLEAN, Reset(p), armed' \in Slots
      PROVE  /\ running' \in Slots
             /\ phase' = "check"
             /\ boot_image' = "unknown"
             /\ crash' = NoSlot
             /\ trial_task' = FALSE
             /\ upd' = "idle"
             /\ prev' \in [slot : Slots \union {NoSlot}, panicked : BOOLEAN]
  BY <1>2, BootSlotType DEF Reset
<1>3. CASE Boot
  <2>1. CASE CheckUnreadable
    BY <1>0, <2>1 DEF CheckUnreadable, flash, rtc, ram, history
  <2>2. CASE CheckRollback
    <3>1. Reset(FALSE) /\ armed' \in Slots
      BY <2>2 DEF CheckRollback, Rollback
    <3> QED
      BY <2>2, <3>1, <1>2 DEF CheckRollback, Rollback, Crashed, CrashedTrial, bounds
  <2>3. CASE CheckTrial
    BY <1>0, <2>3 DEF CheckTrial, TrialMark, flash, history
  <2>4. CASE CheckConfirmed
    BY <2>4 DEF CheckConfirmed, flash, bounds, history
  <2>5. CASE DrainLatch
    BY <2>5 DEF DrainLatch, Drain, Crashed, flash, bounds
  <2>6. CASE BringUp
    BY <2>6 DEF BringUp, TrialSpawned, flash, rtc, bounds, history
  <2> QED
    BY <1>3, <2>1, <2>2, <2>3, <2>4, <2>5, <2>6 DEF Boot
<1>4. CASE Trial
  <2>1. CASE ConfirmTrial
    BY <2>1 DEF ConfirmTrial, bounds
  <2>2. CASE ConfirmFails
    <3>1. upsets' \in 0 .. MaxUpsets /\ trial_task' \in BOOLEAN
      BY <1>0, <2>2 DEF ConfirmFails
    <3>2. UNCHANGED <<flash, rtc, running, phase, boot_image, crash, upd,
                      updates, history>>
      BY <2>2 DEF ConfirmFails
    <3> QED
      BY <3>1, <3>2 DEF flash, rtc, history
  <2>3. CASE BadPanic
    <3>1. Reset(TRUE) /\ armed' \in Slots
      BY <2>3 DEF BadPanic, PanicReset, flash
    <3> QED
      BY <2>3, <3>1, <1>2 DEF BadPanic, PanicReset, flash
  <2> QED
    BY <1>4, <2>1, <2>2, <2>3 DEF Trial
<1>5. CASE Update
  <2>1. CASE UpdateStart
    BY <2>1 DEF UpdateStart, flash, rtc, history
  <2>2. CASE UpdateRejected
    BY <2>2 DEF UpdateRejected, flash, rtc, bounds, history
  <2>3. CASE UpdateWrite
    BY <2>3 DEF UpdateWrite, UpdateTarget, Other, rtc, bounds
  <2>4. CASE UpdateWriteFails
    BY <1>0, <2>4 DEF UpdateWriteFails, flash, rtc, history
  <2>5. CASE UpdateFlush
    BY <2>5 DEF UpdateFlush, UpdateTarget, FlushedState, Other, rtc, bounds, history
  <2>6. CASE UpdateReset
    <3>1. Reset(FALSE) /\ armed' \in Slots
      BY <2>6 DEF UpdateReset, flash
    <3> QED
      BY <2>6, <3>1, <1>2 DEF UpdateReset, flash, rtc, bounds
  <2>7. CASE UpdateUnanswered
    BY <2>7 DEF UpdateUnanswered, flash, rtc, bounds, history
  <2> QED
    BY <1>5, <2>1, <2>2, <2>3, <2>4, <2>5, <2>6, <2>7 DEF Update
<1>6. CASE Disturb
  <2>1. CASE StrayPanic
    <3>1. Reset(TRUE) /\ armed' \in Slots
      BY <2>1 DEF StrayPanic, PanicReset, flash
    <3> QED
      BY <1>0, <2>1, <3>1, <1>2 DEF StrayPanic, PanicReset, flash
  <2>2. CASE Restart
    <3>1. Reset(FALSE) /\ armed' \in Slots
      BY <2>2 DEF Restart, flash
    <3> QED
      BY <1>0, <2>2, <3>1, <1>2 DEF Restart, flash, rtc
  <2>3. CASE PowerLoss
    <3>1. Reset(FALSE) /\ armed' \in Slots
      BY <2>3 DEF PowerLoss, flash
    <3> QED
      BY <1>0, <2>3, <3>1, <1>2 DEF PowerLoss, flash
  <2>4. CASE LatchGarbled
    BY <1>0, <2>4 DEF LatchGarbled, flash, ram
  <2> QED
    BY <1>6, <2>1, <2>2, <2>3, <2>4 DEF Disturb
<1> QED
  BY <1>1, <1>3, <1>4, <1>5, <1>6 DEF Next

LEMMA TypeInit == Init => TypeOK
<1> SUFFICES ASSUME Init PROVE TypeOK
  OBVIOUS
<1>1. image \in [Slots -> Images \union {Torn}]
  BY DEF Init
<1>2. 0 \in 0 .. MaxUpdates /\ 0 \in 0 .. MaxUpsets
  BY BoundsAssumption
<1> QED
  BY <1>1, <1>2 DEF Init, TypeOK

THEOREM TypeCorrect == Spec => []TypeOK
  BY TypeInit, TypeStep, PTL DEF Spec

-----------------------------------------------------------------------------
(* No update runs and nothing is known of the image before the check.      *)
PhaseInv ==
    /\ upd # "idle" => phase = "up"
    /\ phase = "check" => boot_image = "unknown"

(* What the latch holds: nothing once main drained it, and a rolled back   *)
(* slot's panic until then.                                                *)
LatchInv ==
    /\ phase \in {"bringup", "up"} => latch = NoSlot
    /\ owed # NoSlot => phase \in {"check", "drain"} /\ latch = owed

(* A proven slot is not on trial, and is not the one being written.        *)
ProvenInv ==
    /\ \A s \in proven : otadata[s] # "new" /\ image[s] # Torn
    /\ upd = "writing" => Other(running) \notin proven

(* With a readable otadata: the bootloader's choice is reproducible, the   *)
(* mark is never another slot's once the check has run, and a pending      *)
(* latch with this slot's mark means this slot's previous boot panicked.   *)
OwnPanicInv ==
    /\ phase = "check" => running = BootSlot(otadata, armed, image)
    /\ phase = "check" /\ Crashed /\ trial_mark = running =>
           prev.panicked /\ prev.slot = running
    /\ phase # "check" => trial_mark \in {NoSlot, running}

(* With updates to confirmed images only: a whole slot that is neither on  *)
(* trial nor invalid is proven, and one such slot is always left.          *)
FallbackInv ==
    /\ \E s \in proven : otadata[s] # "invalid"
    /\ \A s \in Slots : image[s] # Torn /\ otadata[s] \in {"undefined", "valid"}
                           => s \in proven
    /\ otadata[running] # "invalid"
    /\ boot_image = "confirmed" => running \in proven
    /\ upd \in {"receiving", "writing"} => running \in proven

IInv ==
    /\ PhaseInv
    /\ RunningImageWhole
    /\ LatchInv
    /\ LatchIsFresh
    /\ MarkNamesRunningTrial
    /\ ProvenInv
    /\ ~FlashFaults => OwnPanicInv
    /\ ~UpdateDuringTrial => FallbackInv

LEMMA InitInv == Init => IInv
<1> SUFFICES ASSUME Init PROVE IInv
  OBVIOUS
<1>1. image[0] # Torn /\ image[1] = Torn
  BY ImagesAssumption DEF Init
<1> QED
  BY <1>1 DEF Init, IInv, RunningImageWhole, PhaseInv, LatchInv, LatchIsFresh, Crashed,
              MarkNamesRunningTrial, ProvenInv, OwnPanicInv, FallbackInv,
              BootSlot, Preferred, Other

(* The bootloader finds a whole image when the running one is whole, and a *)
(* slot that is not invalid when a proven one is left.                     *)
LEMMA BootChoice ==
    ASSUME NEW data, NEW img, NEW newest \in Slots
    PROVE  /\ \A s \in Slots : img[s] # Torn => img[BootSlot(data, newest, img)] # Torn
           /\ \A s \in Slots : img[s] # Torn /\ data[s] # "invalid"
                 => data[BootSlot(data, newest, img)] # "invalid"
  BY DEF BootSlot, Preferred, Other

(* A reset that leaves the flash and the history alone, or only invalidates*)
(* the running slot, and a latch that is empty or holds the running slot's *)
(* panic: every part of the invariant holds of the next boot.              *)
LEMMA ResetInv ==
    ASSUME TypeOK, TypeOK', IInv, NEW p \in BOOLEAN, Reset(p),
           UNCHANGED <<armed, image, proven>>,
           \/ otadata' = otadata
           \/ /\ otadata' = [otadata EXCEPT ![running] = "invalid"]
              /\ otadata[running] = "new"
              /\ trial_mark' = NoSlot,
           trial_mark' \in {trial_mark, NoSlot},
           owed' # NoSlot => latch' = owed',
           \/ latch' \notin Slots
           \/ latch' = owed' /\ trial_mark' = NoSlot
           \/ latch' = running /\ p = TRUE
    PROVE  IInv'
<1> USE DEF TypeOK, IInv
<1>1. /\ running' = BootSlot(otadata', armed', image')
      /\ phase' = "check"
      /\ boot_image' = "unknown"
      /\ upd' = "idle"
      /\ prev' = [slot |-> running, panicked |-> p]
  BY DEF Reset
<1>2. RunningImageWhole'
  <2>1. image'[running] # Torn
    BY DEF RunningImageWhole
  <2> QED
    BY <2>1, <1>1, BootChoice DEF RunningImageWhole
<1>3. LatchInv'
  BY <1>1 DEF LatchInv
<1>4. LatchIsFresh'
  BY <1>1 DEF LatchIsFresh, Crashed
<1>5. MarkNamesRunningTrial'
  BY <1>1 DEF MarkNamesRunningTrial
<1>6. ProvenInv'
  BY <1>1 DEF ProvenInv
<1>7. ~FlashFaults => OwnPanicInv'
  <2> SUFFICES ASSUME ~FlashFaults PROVE OwnPanicInv'
    OBVIOUS
  <2>1. ASSUME Crashed', trial_mark' = running'
        PROVE  prev'.panicked /\ prev'.slot = running'
    <3>1. trial_mark' = trial_mark /\ trial_mark # NoSlot /\ otadata' = otadata
      BY <2>1
    <3>2. latch' = running /\ p = TRUE
      BY <2>1, <3>1 DEF Crashed
    <3>3. CASE phase = "check"
      BY <3>1, <3>2, <3>3, <1>1 DEF OwnPanicInv
    <3>4. CASE phase # "check"
      BY <3>1, <3>2, <3>4, <2>1, <1>1 DEF OwnPanicInv
    <3> QED
      BY <3>3, <3>4
  <2> QED
    BY <2>1, <1>1 DEF OwnPanicInv
<1>8. ~UpdateDuringTrial => FallbackInv'
  <2> SUFFICES ASSUME ~UpdateDuringTrial PROVE FallbackInv'
    OBVIOUS
  <2>1. \E s \in proven' : otadata'[s] # "invalid"
    BY DEF FallbackInv, ProvenInv
  <2>2. \A s \in Slots : image'[s] # Torn /\ otadata'[s] \in {"undefined", "valid"}
                         => s \in proven'
    BY DEF FallbackInv
  <2>3. otadata'[running'] # "invalid"
    BY <1>1, <2>1, BootChoice DEF ProvenInv
  <2> QED
    BY <1>1, <2>1, <2>2, <2>3 DEF FallbackInv
<1>9. PhaseInv'
  BY <1>1 DEF PhaseInv
<1> QED
  BY <1>2, <1>3, <1>4, <1>5, <1>6, <1>7, <1>8, <1>9

(* Every action preserves the invariant.                                   *)
LEMMA StepInv == TypeOK /\ TypeOK' /\ IInv /\ [Next]_vars => IInv'
<1> SUFFICES ASSUME TypeOK, TypeOK', IInv, [Next]_vars PROVE IInv'
  OBVIOUS
<1> USE ImagesAssumption DEF TypeOK
<1>1. CASE UNCHANGED vars
  BY <1>1 DEF vars, flash, rtc, ram, bounds, history, IInv, RunningImageWhole, PhaseInv,
              LatchInv, LatchIsFresh, Crashed, MarkNamesRunningTrial, ProvenInv,
              OwnPanicInv, FallbackInv, BootSlot, Preferred, Other
<1>2. CASE Boot
  <2>1. CASE CheckUnreadable
    BY <2>1
       DEF CheckUnreadable, flash, rtc, ram, history, IInv, RunningImageWhole, PhaseInv, LatchInv, LatchIsFresh, Crashed,
           MarkNamesRunningTrial, ProvenInv, OwnPanicInv, FallbackInv
  <2>2. CASE CheckRollback
    <3>1. Reset(FALSE)
      BY <2>2 DEF CheckRollback, Rollback, Crashed, CrashedTrial, InTrial
    <3> QED
      BY <2>2, <3>1, ResetInv DEF CheckRollback, Rollback, Crashed, CrashedTrial, InTrial
  <2>3. CASE CheckTrial
    BY <2>3
       DEF CheckTrial, TrialMark, InTrial, flash, history, IInv, RunningImageWhole, PhaseInv, LatchInv, LatchIsFresh, Crashed,
           MarkNamesRunningTrial, ProvenInv, OwnPanicInv, FallbackInv
  <2>4. CASE CheckConfirmed
    BY <2>4
       DEF CheckConfirmed, InTrial, flash, bounds, history, IInv, RunningImageWhole, PhaseInv, LatchInv, LatchIsFresh, Crashed,
           MarkNamesRunningTrial, ProvenInv, OwnPanicInv, FallbackInv
  <2>5. CASE DrainLatch
    BY <2>5
       DEF DrainLatch, Drain, flash, bounds, IInv, RunningImageWhole, PhaseInv, LatchInv, LatchIsFresh, Crashed,
           MarkNamesRunningTrial, ProvenInv, OwnPanicInv, FallbackInv
  <2>6. CASE BringUp
    BY <2>6
       DEF BringUp, flash, rtc, bounds, history, IInv, RunningImageWhole, PhaseInv, LatchInv, LatchIsFresh, Crashed,
           MarkNamesRunningTrial, ProvenInv, OwnPanicInv, FallbackInv
  <2> QED
    BY <1>2, <2>1, <2>2, <2>3, <2>4, <2>5, <2>6 DEF Boot
<1>3. CASE Trial
  <2>1. CASE ConfirmTrial
    BY <2>1
       DEF ConfirmTrial, Other, bounds, IInv, RunningImageWhole, PhaseInv, LatchInv, LatchIsFresh, Crashed,
           MarkNamesRunningTrial, ProvenInv, OwnPanicInv, FallbackInv
  <2>2. CASE ConfirmFails
    BY <2>2
       DEF ConfirmFails, flash, rtc, history, IInv, RunningImageWhole, PhaseInv, LatchInv, LatchIsFresh, Crashed,
           MarkNamesRunningTrial, ProvenInv, OwnPanicInv, FallbackInv
  <2>3. CASE BadPanic
    <3>1. Reset(TRUE)
      BY <2>3 DEF BadPanic, PanicReset, flash
    <3> QED
      BY <2>3, <3>1, ResetInv DEF BadPanic, PanicReset, flash
  <2> QED
    BY <1>3, <2>1, <2>2, <2>3 DEF Trial
<1>4. CASE Update
  <2>1. CASE UpdateStart
    BY <2>1
       DEF UpdateStart, flash, rtc, history, IInv, RunningImageWhole, PhaseInv, LatchInv, LatchIsFresh, Crashed,
           MarkNamesRunningTrial, ProvenInv, OwnPanicInv, FallbackInv
  <2>2. CASE UpdateRejected
    BY <2>2
       DEF UpdateRejected, flash, rtc, bounds, history, IInv, RunningImageWhole, PhaseInv, LatchInv, LatchIsFresh, Crashed,
           MarkNamesRunningTrial, ProvenInv, OwnPanicInv, FallbackInv
  <2>3. CASE UpdateWrite
    BY <2>3
       DEF UpdateWrite, UpdateTarget, Other, rtc, bounds, IInv, RunningImageWhole, PhaseInv, LatchInv, LatchIsFresh, Crashed,
           MarkNamesRunningTrial, ProvenInv, OwnPanicInv, FallbackInv
  <2>4. CASE UpdateWriteFails
    BY <2>4
       DEF UpdateWriteFails, flash, rtc, history, IInv, RunningImageWhole, PhaseInv, LatchInv, LatchIsFresh, Crashed,
           MarkNamesRunningTrial, ProvenInv, OwnPanicInv, FallbackInv
  <2>5. CASE UpdateFlush
    BY <2>5
       DEF UpdateFlush, UpdateTarget, FlushedState, Other, rtc, bounds, history, IInv, RunningImageWhole, PhaseInv, LatchInv, LatchIsFresh, Crashed,
           MarkNamesRunningTrial, ProvenInv, OwnPanicInv, FallbackInv
  <2>6. CASE UpdateReset
    <3>1. Reset(FALSE)
      BY <2>6 DEF UpdateReset
    <3>2. latch = NoSlot /\ owed = NoSlot
      BY <2>6 DEF UpdateReset, IInv, PhaseInv, LatchInv
    <3>3. UNCHANGED <<otadata, armed, image, trial_mark, latch, owed, proven>>
      BY <2>6 DEF UpdateReset, flash, rtc
    <3>4. /\ UNCHANGED <<armed, image, proven>>
          /\ otadata' = otadata
          /\ trial_mark' \in {trial_mark, NoSlot}
          /\ owed' # NoSlot => latch' = owed'
          /\ latch' \notin Slots
      BY <3>2, <3>3
    <3> HIDE DEF TypeOK
    <3> QED
      BY <3>1, <3>4, ResetInv
  <2>7. CASE UpdateUnanswered
    BY <2>7
       DEF UpdateUnanswered, flash, rtc, bounds, history, IInv, RunningImageWhole, PhaseInv, LatchInv, LatchIsFresh, Crashed,
           MarkNamesRunningTrial, ProvenInv, OwnPanicInv, FallbackInv
  <2> QED
    BY <1>4, <2>1, <2>2, <2>3, <2>4, <2>5, <2>6, <2>7 DEF Update
<1>5. CASE Disturb
  <2>1. CASE StrayPanic
    <3>1. Reset(TRUE)
      BY <2>1 DEF StrayPanic, PanicReset, flash
    <3> QED
      BY <2>1, <3>1, ResetInv DEF StrayPanic, PanicReset, flash
  <2>2. CASE Restart
    <3>1. Reset(FALSE)
      BY <2>2 DEF Restart
    <3>2. latch = NoSlot /\ owed = NoSlot
      BY <2>2 DEF Restart, IInv, PhaseInv, LatchInv
    <3>3. UNCHANGED <<otadata, armed, image, trial_mark, latch, owed, proven>>
      BY <2>2 DEF Restart, flash, rtc
    <3>4. /\ UNCHANGED <<armed, image, proven>>
          /\ otadata' = otadata
          /\ trial_mark' \in {trial_mark, NoSlot}
          /\ owed' # NoSlot => latch' = owed'
          /\ latch' \notin Slots
      BY <3>2, <3>3
    <3> HIDE DEF TypeOK
    <3> QED
      BY <3>1, <3>4, ResetInv
  <2>3. CASE PowerLoss
    <3>1. Reset(FALSE)
      BY <2>3 DEF PowerLoss, flash
    <3> QED
      BY <2>3, <3>1, ResetInv DEF PowerLoss, flash
  <2>4. CASE LatchGarbled
    BY <2>4
       DEF LatchGarbled, flash, ram, IInv, RunningImageWhole, PhaseInv, LatchInv, LatchIsFresh, Crashed,
           MarkNamesRunningTrial, ProvenInv, OwnPanicInv, FallbackInv
  <2> QED
    BY <1>5, <2>1, <2>2, <2>3, <2>4 DEF Disturb
<1> QED
  BY <1>1, <1>2, <1>3, <1>4, <1>5 DEF Next

LEMMA Invariant == Spec => []IInv
  BY TypeCorrect, InitInv, StepInv, PTL DEF Spec

-----------------------------------------------------------------------------
(* The running slot always holds a whole image (ota.rs, bootloader).       *)
THEOREM WholeImage == Spec => []RunningImageWhole
  BY Invariant, PTL DEF IInv

(* A latch pending at the OTA check is a fresh panic (main.rs drains it).  *)
THEOREM FreshLatch == Spec => []LatchIsFresh
  BY Invariant, PTL DEF IInv

(* TRIAL_MARK names the trial that runs (check_boot_image).                *)
THEOREM TruthfulMark == Spec => []MarkNamesRunningTrial
  BY Invariant, PTL DEF IInv

(* Only check_boot_image ever marks the running slot invalid.              *)
LEMMA OnlyCheckRollsBack ==
    ASSUME TypeOK, IInv, [Next]_vars, RolledBack
    PROVE  CheckRollback
<1> USE DEF TypeOK, RolledBack
<1>1. otadata' # otadata
  OBVIOUS
<1>2. CASE ConfirmTrial
  BY <1>2 DEF ConfirmTrial
<1>3. CASE UpdateFlush
  BY <1>3 DEF UpdateFlush, UpdateTarget, FlushedState, Other
<1>4. ~UNCHANGED vars /\ ~Disturb
  BY <1>1 DEF vars, flash, Disturb, StrayPanic, PanicReset, Restart, PowerLoss,
              LatchGarbled
<1>5. CASE Boot
  BY <1>1, <1>5 DEF Boot, CheckUnreadable, CheckTrial, CheckConfirmed, DrainLatch,
                    Drain, BringUp, flash
<1>6. CASE Trial
  BY <1>1, <1>2, <1>6 DEF Trial, ConfirmFails, BadPanic, PanicReset, flash
<1>7. CASE Update
  BY <1>1, <1>3, <1>7 DEF Update, UpdateStart, UpdateRejected, UpdateWrite,
                          UpdateWriteFails, UpdateReset, UpdateUnanswered, flash
<1> QED
  BY <1>4, <1>5, <1>6, <1>7 DEF Next

(* No proven image is ever marked invalid (check_boot_image).              *)
THEOREM ProvenKept == Spec => ProvenNeverRolledBack
<1>1. TypeOK /\ IInv /\ [Next]_vars => (RolledBack => running \notin proven)
  BY OnlyCheckRollsBack
     DEF CheckRollback, Rollback, InTrial, IInv, ProvenInv
<1> QED
  BY <1>1, TypeCorrect, Invariant, PTL DEF Spec, ProvenNeverRolledBack

(* While otadata can be read, a rollback answers a panic of the slot's own *)
(* previous boot (check_boot_image, TRIAL_MARK).                           *)
THEOREM JustifiedRollback ==
    ASSUME FlashFaults = FALSE
    PROVE  Spec => RollbackOnlyOwnPanic
<1>1. TypeOK /\ IInv /\ [Next]_vars =>
          (RolledBack => prev.panicked /\ prev.slot = running)
  BY OnlyCheckRollsBack
     DEF CheckRollback, Rollback, CrashedTrial, IInv, OwnPanicInv
<1> QED
  BY <1>1, TypeCorrect, Invariant, PTL DEF Spec, RollbackOnlyOwnPanic

(* The image that runs after a rollback drains the panic that caused it.   *)
THEOREM ReportKept == Spec => RollbackKeepsReport
<1>1. TypeOK /\ IInv /\ [Next]_vars =>
          (phase = "drain" /\ phase' = "bringup" /\ owed # NoSlot => crash' = owed)
  <2> SUFFICES ASSUME TypeOK, IInv, [Next]_vars, phase = "drain",
                      phase' = "bringup", owed # NoSlot
               PROVE  crash' = owed
    OBVIOUS
  <2>1. latch = owed /\ latch \in Slots
    BY DEF IInv, LatchInv, TypeOK
  <2>2. DrainLatch
    BY DEF Next, Boot, Trial, Update, Disturb, CheckUnreadable, CheckRollback,
           Rollback, CheckTrial, CheckConfirmed, BringUp, ConfirmTrial,
           ConfirmFails, BadPanic, PanicReset, UpdateStart, UpdateRejected,
           UpdateWrite, UpdateWriteFails, UpdateFlush, UpdateReset,
           UpdateUnanswered, StrayPanic, Restart, PowerLoss, LatchGarbled,
           Reset, vars
  <2> QED
    BY <2>1, <2>2 DEF DrainLatch, Drain, Crashed
<1> QED
  BY <1>1, TypeCorrect, Invariant, PTL DEF Spec, RollbackKeepsReport

-----------------------------------------------------------------------------
(* How the last proven image can be lost.  A whole slot that is neither on *)
(* trial nor invalid is proven; with a proven one left the bootloader does *)
(* not run an invalid one, and a confirmed image is itself proven.         *)
ConfirmedInv ==
    /\ \A s \in Slots : image[s] # Torn /\ otadata[s] \in {"undefined", "valid"}
                           => s \in proven
    /\ phase = "check" /\ ProvenFallback => otadata[running] # "invalid"
    /\ boot_image = "confirmed" /\ ProvenFallback =>
           running \in proven /\ otadata[running] # "invalid"

LEMMA InitConfirmed == Init => ConfirmedInv
<1> SUFFICES ASSUME Init PROVE ConfirmedInv
  OBVIOUS
<1>1. image[1] = Torn
  BY DEF Init
<1> QED
  BY <1>1 DEF Init, ConfirmedInv

(* A reset boots a slot that is not invalid if a proven one is left, and a *)
(* rollback leaves every proven one.                                       *)
LEMMA ResetConfirmed ==
    ASSUME TypeOK, TypeOK', IInv, ConfirmedInv, NEW p \in BOOLEAN, Reset(p),
           UNCHANGED <<armed, image, proven>>,
           \/ otadata' = otadata
           \/ otadata' = [otadata EXCEPT ![running] = "invalid"]
    PROVE  ConfirmedInv'
<1>1. /\ running' = BootSlot(otadata', armed', image')
      /\ phase' = "check" /\ boot_image' = "unknown"
  BY DEF Reset
<1>2. \A s \in Slots : image'[s] # Torn /\ otadata'[s] \in {"undefined", "valid"}
                         => s \in proven'
  BY DEF TypeOK, ConfirmedInv
<1>3. ProvenFallback' => otadata'[running'] # "invalid"
  BY <1>1, BootChoice DEF TypeOK, ProvenFallback
<1> QED
  BY <1>1, <1>2, <1>3 DEF ConfirmedInv

LEMMA StepConfirmed == TypeOK /\ TypeOK' /\ IInv /\ ConfirmedInv /\ [Next]_vars => ConfirmedInv'
<1> SUFFICES ASSUME TypeOK, TypeOK', IInv, ConfirmedInv, [Next]_vars PROVE ConfirmedInv'
  OBVIOUS
<1>1. CASE UNCHANGED <<otadata, image, proven, running>> /\ phase' # "check"
           /\ boot_image' \in {boot_image, "unknown", "trial"}
  BY <1>1 DEF ConfirmedInv, ProvenFallback
<1>2. CASE UNCHANGED <<otadata, image, proven, running, phase, boot_image>>
  BY <1>2 DEF ConfirmedInv, ProvenFallback
<1>3. CASE \/ CheckUnreadable \/ CheckTrial \/ DrainLatch \/ BringUp \/ ConfirmFails
           \/ UpdateStart \/ UpdateRejected \/ UpdateWriteFails \/ UpdateUnanswered
  BY <1>1, <1>3
     DEF CheckUnreadable, CheckTrial, DrainLatch, Drain, BringUp, ConfirmFails, UpdateStart,
         UpdateRejected, UpdateWriteFails, UpdateUnanswered, flash, rtc, ram, bounds, history,
         IInv, PhaseInv
<1>4. CASE UNCHANGED vars \/ LatchGarbled
  BY <1>2, <1>4 DEF vars, LatchGarbled, flash, ram, history
<1>5. CASE CheckRollback
  BY <1>5, ResetConfirmed DEF CheckRollback, Rollback
<1>6. CASE BadPanic \/ StrayPanic
  BY <1>6, ResetConfirmed DEF BadPanic, StrayPanic, PanicReset, flash
<1>7. CASE UpdateReset \/ Restart \/ PowerLoss
  BY <1>7, ResetConfirmed DEF UpdateReset, Restart, PowerLoss, flash
<1>8. CASE CheckConfirmed
  <2>1. /\ phase = "check" /\ otadata[running] # "new" /\ phase' = "drain"
        /\ UNCHANGED <<otadata, image, proven, running>>
    BY <1>8 DEF CheckConfirmed, InTrial, flash, history
  <2>2. ProvenFallback => running \in proven /\ otadata[running] # "invalid"
    BY <2>1 DEF TypeOK, IInv, RunningImageWhole, ConfirmedInv
  <2> QED
    BY <2>1, <2>2 DEF ConfirmedInv, ProvenFallback
<1>9. CASE ConfirmTrial
  <2>1. /\ phase' = "up" /\ UNCHANGED <<image, running>>
        /\ otadata' = [otadata EXCEPT ![running] = "valid"]
        /\ proven' = proven \union {running}
    BY <1>9 DEF ConfirmTrial
  <2> QED
    BY <2>1 DEF TypeOK, ConfirmedInv
<1>10. CASE UpdateWrite
  <2>1. /\ phase = "up" /\ UNCHANGED <<otadata, running, phase, boot_image>>
        /\ image' = [image EXCEPT ![Other(running)] = Torn]
        /\ proven' = proven \ {Other(running)}
    BY <1>10 DEF UpdateWrite, UpdateTarget, IInv, PhaseInv
  <2>2. Other(running) \in Slots /\ Other(running) # running
    BY DEF TypeOK, Other
  <2>3. ProvenFallback' => ProvenFallback
    BY <2>1, <2>2 DEF TypeOK, ProvenFallback
  <2> QED
    BY <2>1, <2>2, <2>3 DEF TypeOK, ConfirmedInv
<1>11. CASE UpdateFlush
  <2>1. /\ phase = "up" /\ UNCHANGED <<running, phase, boot_image, proven>>
        /\ otadata' = [otadata EXCEPT ![Other(running)] = "new"]
        /\ \A s \in Slots : s # Other(running) => image'[s] = image[s]
        /\ Other(running) \notin proven
    BY <1>11 DEF UpdateFlush, UpdateTarget, FlushedState, history, IInv, PhaseInv, ProvenInv,
                 TypeOK
  <2>2. Other(running) \in Slots /\ Other(running) # running
    BY DEF TypeOK, Other
  <2>3. ProvenFallback' => ProvenFallback
    BY <2>1, <2>2 DEF TypeOK, ProvenFallback
  <2> QED
    BY <2>1, <2>2, <2>3 DEF TypeOK, ConfirmedInv
<1> QED
  BY <1>3, <1>4, <1>5, <1>6, <1>7, <1>8, <1>9, <1>10, <1>11
     DEF Next, Boot, Trial, Update, Disturb

LEMMA AlwaysConfirmed == Spec => []ConfirmedInv
  BY TypeCorrect, Invariant, InitConfirmed, StepConfirmed, PTL DEF Spec

(* The last proven image is given up only by an update pushed to an image  *)
(* that is not confirmed (handle_post_firmware_update, perform_update).    *)
THEOREM FallbackLostOnlySo == Spec => FallbackGivenUp
<1>1. TypeOK /\ TypeOK' /\ IInv /\ ConfirmedInv /\ [Next]_vars =>
          (ProvenFallback /\ ~ProvenFallback' => upd' = "writing" /\ boot_image # "confirmed")
  <2> SUFFICES ASSUME TypeOK, TypeOK', IInv, ConfirmedInv, [Next]_vars,
                      ProvenFallback, ~ProvenFallback'
               PROVE  upd' = "writing" /\ boot_image # "confirmed"
    OBVIOUS
  <2>1. PICK s \in proven : image[s] # Torn /\ otadata[s] # "invalid"
    BY DEF ProvenFallback
  <2>2. s \notin proven' \/ image'[s] = Torn \/ otadata'[s] = "invalid"
    BY DEF ProvenFallback
  <2>3. ~RolledBack \/ running # s
    BY <2>1, OnlyCheckRollsBack DEF CheckRollback, Rollback, InTrial, IInv, ProvenInv
  <2>4. UpdateWrite
    <3>1. CASE UNCHANGED <<otadata, image, proven>>
      BY <2>1, <2>2, <3>1
    <3>2. CASE CheckRollback
      BY <2>1, <2>2, <2>3, <3>2 DEF CheckRollback, Rollback, RolledBack, InTrial, TypeOK
    <3>3. CASE ConfirmTrial
      BY <2>1, <2>2, <3>3 DEF ConfirmTrial, TypeOK
    <3>4. CASE UpdateFlush
      BY <2>1, <2>2, <3>4
         DEF UpdateFlush, UpdateTarget, FlushedState, history, TypeOK, IInv, ProvenInv
    <3> QED
      BY <3>1, <3>2, <3>3, <3>4
         DEF Next, Boot, Trial, Update, Disturb, CheckUnreadable, CheckTrial, CheckConfirmed,
             DrainLatch, Drain, BringUp, ConfirmFails, BadPanic, PanicReset, UpdateStart,
             UpdateRejected, UpdateWriteFails, UpdateReset, UpdateUnanswered, StrayPanic,
             Restart, PowerLoss, LatchGarbled, vars, flash, rtc, ram, bounds, history
  <2>5. boot_image # "confirmed"
    <3> SUFFICES ASSUME boot_image = "confirmed" PROVE FALSE
      OBVIOUS
    <3>1. running \in proven /\ otadata[running] # "invalid" /\ image[running] # Torn
      BY DEF ConfirmedInv, IInv, RunningImageWhole
    <3>2. running # Other(running)
      BY DEF TypeOK, Other
    <3> QED
      BY <2>4, <3>1, <3>2 DEF UpdateWrite, UpdateTarget, TypeOK, ProvenFallback
  <2> QED
    BY <2>4, <2>5 DEF UpdateWrite
<1> QED
  BY <1>1, TypeCorrect, Invariant, AlwaysConfirmed, PTL DEF Spec, FallbackGivenUp

(* While updates are pushed to confirmed images only, /health's "confirmed"*)
(* is truthful and a proven slot is always left to boot.                   *)
THEOREM FallbackKept ==
    ASSUME UpdateDuringTrial = FALSE
    PROVE  Spec => [](ConfirmedMeansProven /\ ProvenFallback)
<1>1. IInv => ConfirmedMeansProven /\ ProvenFallback
  BY DEF IInv, FallbackInv, ProvenInv, ConfirmedMeansProven, ProvenFallback
<1> QED
  BY <1>1, Invariant, PTL

-----------------------------------------------------------------------------
(***************************************************************************)
(* Liveness, where otadata can be read and updates go to confirmed images. *)
(* Once nothing disturbs the device any more, what is left of a boot is a  *)
(* chain of steps without a branch back: a bad image's trial, its panic,   *)
(* its rollback and the confirmed boot of the other slot.  The invariant   *)
(* says what each link needs of the one before.                            *)
(***************************************************************************)
Operated == ~FlashFaults /\ ~UpdateDuringTrial

TrialInv ==
    /\ phase # "check" => boot_image # "unknown"
    /\ boot_image = "trial" =>
           /\ otadata[running] = "new"
           /\ running = BootSlot(otadata, armed, image)
           /\ upd = "idle"
           /\ phase = "up" => trial_task

(* A slot that is proven does not hold a bad image.                        *)
GoodInv == \A s \in proven : image[s] \notin Bad

Full == TypeOK /\ IInv /\ TrialInv /\ GoodInv

LEMMA GoodStep == TypeOK /\ IInv /\ GoodInv /\ [Next]_vars => GoodInv'
<1> SUFFICES ASSUME TypeOK, IInv, GoodInv, [Next]_vars PROVE GoodInv'
  OBVIOUS
<1> USE DEF GoodInv
<1>1. CASE UpdateWrite
  BY <1>1 DEF UpdateWrite, UpdateTarget, Other, TypeOK
<1>2. CASE UpdateFlush
  BY <1>2 DEF UpdateFlush, UpdateTarget, Other, TypeOK, IInv, ProvenInv, history
<1>3. CASE ConfirmTrial
  BY <1>3 DEF ConfirmTrial
<1>4. CASE Boot \/ Disturb \/ UNCHANGED vars
  BY <1>4 DEF Boot, Disturb, CheckUnreadable, CheckRollback, Rollback, CheckTrial,
       CheckConfirmed, DrainLatch, Drain, BringUp, StrayPanic, PanicReset, Restart,
       PowerLoss, LatchGarbled, flash, history, vars
<1>5. CASE ConfirmFails \/ BadPanic
  BY <1>5 DEF ConfirmFails, BadPanic, PanicReset, flash, history
<1>6. CASE UpdateStart \/ UpdateRejected \/ UpdateWriteFails \/ UpdateReset \/ UpdateUnanswered
  BY <1>6 DEF UpdateStart, UpdateRejected, UpdateWriteFails, UpdateReset,
       UpdateUnanswered, flash, history
<1> QED
  BY <1>1, <1>2, <1>3, <1>4, <1>5, <1>6 DEF Next, Trial, Update

LEMMA TrialStep ==
    ASSUME Operated, TypeOK, IInv, TrialInv, [Next]_vars
    PROVE  TrialInv'
<1> USE DEF TrialInv
<1>1. ASSUME NEW p, Reset(p) PROVE TrialInv'
  BY <1>1 DEF Reset
<1>2. CASE UNCHANGED vars
  BY <1>2 DEF vars, flash, ram, bounds, rtc, history, BootSlot, Preferred, Other
<1>3. CASE CheckTrial
  BY <1>3 DEF CheckTrial, InTrial, IInv, OwnPanicInv, PhaseInv, Operated, flash, BootSlot,
       Preferred, Other
<1>4. CASE CheckUnreadable \/ CheckRollback
  BY <1>4, <1>1 DEF CheckUnreadable, CheckRollback, Rollback, Operated
<1>5. CASE CheckConfirmed
  BY <1>5 DEF CheckConfirmed
<1>6. CASE DrainLatch \/ BringUp
  BY <1>6 DEF DrainLatch, Drain, BringUp, TrialSpawned, flash, BootSlot, Preferred, Other
<1>7. CASE Trial
  BY <1>7, <1>1 DEF Trial, ConfirmTrial, ConfirmFails, BadPanic, PanicReset, Operated
<1>8. CASE Update
  BY <1>8, <1>1 DEF Update, UpdateStart, UpdateRejected, UpdateWrite, UpdateWriteFails,
       UpdateFlush, UpdateReset, UpdateUnanswered, Operated
<1>9. CASE Disturb
  BY <1>9, <1>1 DEF Disturb, StrayPanic, PanicReset, Restart, PowerLoss, LatchGarbled,
       ram, flash, IInv, PhaseInv
<1> QED
  BY <1>2, <1>3, <1>4, <1>5, <1>6, <1>7, <1>8, <1>9 DEF Next, Boot

LEMMA AlwaysFull == ASSUME Operated PROVE Spec => []Full
<1>1. Init => TrialInv /\ GoodInv
  BY DEF Init, TrialInv, GoodInv
<1>2. TypeOK /\ IInv /\ TrialInv /\ [Next]_vars => TrialInv'
  BY TrialStep
<1> QED
  BY <1>1, <1>2, GoodStep, TypeCorrect, Invariant, PTL DEF Spec, Full

(* The links of the chain, in order; the last one is a confirmed boot.     *)
Confirmed == boot_image = "confirmed"
Trying    == phase = "check" /\ InTrial /\ ~CrashedTrial
InBoot(p) == boot_image = "trial" /\ phase = p
OnTrial   == boot_image = "trial" /\ phase = "up" /\ image[running] \notin Bad
Failing   == boot_image = "trial" /\ phase = "up" /\ image[running] \in Bad
Rolling   == phase = "check" /\ InTrial /\ CrashedTrial
Falling   == phase = "check" /\ ~InTrial

LEMMA EveryLink ==
    ASSUME Full
    PROVE  Confirmed \/ Trying \/ InBoot("drain") \/ InBoot("bringup") \/ OnTrial
           \/ Failing \/ Rolling \/ Falling
  BY DEF Full, TypeOK, TrialInv, Confirmed, Trying, InBoot, OnTrial, Failing, Rolling,
     Falling

(* In a boot that is not confirmed, and before the check, no update runs,  *)
(* and nothing but the boot and its trial takes a step.                    *)
LEMMA BootAlone ==
    ASSUME Operated, Full, ~Confirmed, [Next]_vars, ~Disturb, vars' # vars
    PROVE  /\ phase = "check" => CheckImage
           /\ phase = "drain" => DrainLatch
           /\ phase = "bringup" => BringUp
           /\ phase = "up" => ConfirmTrial \/ BadPanic
<1>1. upd = "idle" /\ (phase # "check" => boot_image = "trial")
  BY DEF Full, TypeOK, TrialInv, IInv, PhaseInv, Confirmed
<1>2. ~Update
  BY <1>1 DEF Update, UpdateStart, UpdateRejected, UpdateWrite, UpdateWriteFails, UpdateFlush,
       UpdateReset, UpdateUnanswered, Operated, Confirmed
<1>3. ~CheckUnreadable /\ ~ConfirmFails
  BY DEF CheckUnreadable, ConfirmFails, Operated
<1> QED
  BY <1>2, <1>3 DEF Next, Boot, Trial, CheckImage, CheckRollback, Rollback, CheckTrial,
     CheckConfirmed, DrainLatch, Drain, BringUp, ConfirmTrial, BadPanic

(* Where each link leads.                                                  *)
LEMMA TryingLeads == ASSUME Operated, Trying, CheckImage PROVE InBoot("drain")'
  BY DEF Trying, CheckImage, CheckRollback, Rollback, CheckTrial, CheckConfirmed,
     InBoot

LEMMA DrainLeads == ASSUME InBoot("drain"), DrainLatch PROVE InBoot("bringup")'
  BY DEF InBoot, DrainLatch, Drain

LEMMA BringUpLeads ==
    ASSUME InBoot("bringup"), BringUp PROVE OnTrial' \/ Failing'
  BY DEF InBoot, BringUp, OnTrial, Failing

LEMMA OnTrialLeads ==
    ASSUME OnTrial, ConfirmTrial \/ BadPanic PROVE Confirmed'
  BY DEF OnTrial, Confirmed, ConfirmTrial, BadPanic

(* The panic of a trial finds its way back to the same slot, where the     *)
(* latch and the mark name it.                                             *)
LEMMA FailingLeads ==
    ASSUME Operated, Full, Failing, ConfirmTrial \/ BadPanic PROVE Rolling'
<1>1. BadPanic
  BY DEF Failing, ConfirmTrial
<1>2. trial_mark = running /\ running \in Slots /\ otadata[running] = "new"
  BY DEF Failing, Full, TypeOK, IInv, MarkNamesRunningTrial, TrialInv
<1>3. running' = running
  BY <1>1 DEF BadPanic, PanicReset, Reset, flash, BootSlot, Preferred, Other, Full, TrialInv,
     Failing
<1> QED
  BY <1>1, <1>2, <1>3 DEF BadPanic, PanicReset, Reset, flash, Rolling, InTrial, CrashedTrial,
     Crashed

(* The slot that boots after a rollback is proven, so not on trial.        *)
LEMMA RollingLeads ==
    ASSUME Operated, Full, Full', Rolling, CheckImage PROVE Falling'
<1>1. CheckRollback
  BY DEF Rolling, CheckImage, CheckTrial, CheckConfirmed, Operated
<1>2. /\ otadata' = [otadata EXCEPT ![running] = "invalid"]
      /\ proven' = proven
      /\ phase' = "check"
  BY <1>1 DEF CheckRollback, Rollback, Reset
<1>3. otadata'[running'] # "invalid" /\ running' \in Slots
  BY DEF Full, TypeOK, IInv, FallbackInv, Operated
<1>4. \E s \in proven : otadata'[s] # "invalid" /\ otadata'[s] # "new"
  BY <1>2 DEF Full, IInv, FallbackInv, ProvenInv, Operated
<1>5. running' # running
  BY <1>2, <1>3 DEF Full, TypeOK
<1>6. otadata'[running'] # "new"
  BY <1>2, <1>3, <1>4, <1>5 DEF Full, TypeOK
<1> QED
  BY <1>2, <1>6 DEF Falling, InTrial

LEMMA FallingLeads == ASSUME Falling, CheckImage PROVE Confirmed'
  BY DEF Falling, CheckImage, CheckRollback, Rollback, CheckTrial, CheckConfirmed,
     Confirmed

(* Undisturbed, the device is confirmed again and again.                   *)
LEMMA ConfirmedAgain ==
    ASSUME Operated
    PROVE  FairSpec /\ []NeverHeldUp /\ Calm => []<>Confirmed
<1> DEFINE Step == [Next]_vars /\ [~Disturb]_vars
<1>1. /\ Full /\ Full' /\ Falling /\ Step => Falling' \/ Confirmed'
      /\ Full /\ Full' /\ Rolling /\ Step => Rolling' \/ Falling'
      /\ Full /\ Full' /\ Trying /\ Step => Trying' \/ InBoot("drain")'
  <2>1. ASSUME Full, Full', phase = "check", ~Confirmed, Step, vars' # vars PROVE CheckImage
    BY <2>1, BootAlone
  <2>2. Full /\ phase = "check" => ~Confirmed
    BY DEF Full, IInv, PhaseInv, Confirmed
  <2>3. vars' = vars => /\ Falling => Falling'
                        /\ Rolling => Rolling'
                        /\ Trying => Trying'
    BY DEF vars, flash, rtc, Falling, Rolling, Trying, InTrial, CrashedTrial, Crashed
  <2> QED
    BY <2>1, <2>2, <2>3, FallingLeads, RollingLeads, TryingLeads DEF Falling, Rolling, Trying
<1>2. /\ Full /\ Full' /\ InBoot("drain") /\ Step => InBoot("drain")' \/ InBoot("bringup")'
      /\ Full /\ Full' /\ InBoot("bringup") /\ Step => InBoot("bringup")' \/ OnTrial' \/ Failing'
      /\ Full /\ Full' /\ OnTrial /\ Step => OnTrial' \/ Confirmed'
      /\ Full /\ Full' /\ Failing /\ Step => Failing' \/ Rolling'
  <2>1. ASSUME Full, boot_image = "trial", Step, vars' # vars
        PROVE  /\ phase = "drain" => DrainLatch
               /\ phase = "bringup" => BringUp
               /\ phase = "up" => ConfirmTrial \/ BadPanic
    BY <2>1, BootAlone DEF Confirmed
  <2>2. vars' = vars => /\ InBoot("drain") => InBoot("drain")'
                        /\ InBoot("bringup") => InBoot("bringup")'
                        /\ OnTrial => OnTrial'
                        /\ Failing => Failing'
    BY DEF vars, flash, ram, InBoot, OnTrial, Failing
  <2> QED
    BY <2>1, <2>2, DrainLeads, BringUpLeads, OnTrialLeads, FailingLeads
       DEF InBoot, OnTrial, Failing
<1> HIDE DEF Step
<1>3. /\ Full /\ Full' /\ Falling /\ <<CheckImage>>_vars => Confirmed'
      /\ Full /\ Full' /\ Rolling /\ <<CheckImage>>_vars => Falling'
      /\ Full /\ Full' /\ Trying /\ <<CheckImage>>_vars => InBoot("drain")'
      /\ InBoot("drain") /\ <<DrainLatch>>_vars => InBoot("bringup")'
      /\ InBoot("bringup") /\ <<BringUp>>_vars => OnTrial' \/ Failing'
      /\ OnTrial /\ <<ConfirmTrial>>_vars => Confirmed'
      /\ Full /\ Full' /\ Failing /\ <<BadPanic>>_vars => Rolling'
  BY FallingLeads, RollingLeads, TryingLeads, DrainLeads, BringUpLeads, OnTrialLeads,
     FailingLeads
<1>4. Full /\ NeverHeldUp =>
          /\ Falling \/ Rolling \/ Trying => ENABLED <<CheckImage>>_vars
          /\ InBoot("drain") => ENABLED <<DrainLatch>>_vars
          /\ InBoot("bringup") => ENABLED <<BringUp>>_vars
          /\ OnTrial => ENABLED <<ConfirmTrial>>_vars
          /\ Failing => ENABLED <<BadPanic>>_vars
  BY DEF Full, TrialInv, NeverHeldUp, Falling, Rolling, Trying, InBoot, OnTrial, Failing
<1>5. Full => Confirmed \/ Trying \/ InBoot("drain") \/ InBoot("bringup") \/ OnTrial
              \/ Failing \/ Rolling \/ Falling
  BY EveryLink
<1> QED
  BY <1>1, <1>2, <1>3, <1>4, <1>5, AlwaysFull, PTL DEF FairSpec, Fairness, Spec, Calm, Step

(***************************************************************************)
(* A trial ends: the image is "marked valid" after TRIAL_WINDOW_SECS, or a *)
(* panic inside the window "rolls it back on the next boot" (ota.rs).      *)
(***************************************************************************)
THEOREM TrialAlwaysSettles ==
    ASSUME FlashFaults = FALSE, UpdateDuringTrial = FALSE
    PROVE  FairSpec /\ []NeverHeldUp /\ Calm => TrialSettles
<1>1. FairSpec /\ []NeverHeldUp /\ Calm => []<>Confirmed
  BY ConfirmedAgain DEF Operated
<1> QED
  BY <1>1, PTL DEF TrialSettles, Confirmed

(***************************************************************************)
(* A bad image never crash-loops: it fails its trial, and what boots then  *)
(* is a slot that passed one (check_boot_image).                           *)
(***************************************************************************)
THEOREM BadAlwaysAbandoned ==
    ASSUME FlashFaults = FALSE, UpdateDuringTrial = FALSE
    PROVE  FairSpec /\ []NeverHeldUp /\ Calm => BadImageAbandoned
<1>1. FairSpec /\ []NeverHeldUp /\ Calm => []<>Confirmed
  BY ConfirmedAgain DEF Operated
<1>2. Spec => []Full
  BY AlwaysFull DEF Operated
<1>3. Full /\ Confirmed => image[running] \notin Bad
  BY DEF Full, IInv, FallbackInv, GoodInv, Confirmed
<1> QED
  BY <1>1, <1>2, <1>3, PTL DEF FairSpec, BadImageAbandoned
=============================================================================
