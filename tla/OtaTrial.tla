------------------------------ MODULE OtaTrial ------------------------------
(***************************************************************************)
(* The trial boot of an over-the-air update, and the crash latch that      *)
(* decides it.  One CPU, two app slots, RTC RAM that survives a software   *)
(* reset and is lost with the power.                                       *)
(*                                                                         *)
(*   src/crates/stackchan-firmware/src/ota.rs      check_boot_image,       *)
(*                                                 confirm_after_trial,    *)
(*                                                 perform_update          *)
(*   src/crates/stackchan-firmware/src/crash.rs    the latch               *)
(*   src/crates/stackchan-firmware/src/main.rs     the order at boot       *)
(*   src/crates/stackchan-firmware/src/net/http.rs the update handler      *)
(*                                                                         *)
(* The ESP-IDF bootloader and esp-hal-ota are external: BootSlot and the   *)
(* per-slot otadata states model them the way ota.rs relies on them.       *)
(***************************************************************************)
EXTENDS Integers

CONSTANTS
    Images,             \* firmware images that can be pushed
    Bad,                \* those that panic inside every trial window
    MaxUpdates,         \* bound: accepted POST /firmware/update requests
    MaxUpsets,          \* bound: power losses, restarts, stray panics, faults
    FlashFaults,        \* may otadata reads and writes fail?
    UpdateDuringTrial   \* may the operator push an update to a trial image?

Slots  == {0, 1}
NoSlot == 2             \* NO_SLOT, an empty latch, a cleared TRIAL_MARK
Garbled == 3            \* a latch with its magic but not its checksum
Torn   == "torn"        \* an erased or half-written app slot

ASSUME ImagesAssumption == Bad \subseteq Images /\ Torn \notin Images
ASSUME BoundsAssumption == MaxUpdates \in Nat /\ MaxUpsets \in Nat
ASSUME EnvironmentAssumption ==
    FlashFaults \in BOOLEAN /\ UpdateDuringTrial \in BOOLEAN

VARIABLES
    otadata,     \* flash: image state of each slot
    armed,       \* flash: the slot of the newest otadata entry
    image,       \* flash: what each app slot holds
    trial_mark,  \* RTC RAM: TRIAL_MARK
    latch,       \* RTC RAM: CRASH_LATCH, as the slot whose panic it holds
    running,     \* the slot the chip executes
    phase,       \* where `main` is: check, drain, bringup, up
    boot_image,  \* BOOT_IMAGE
    crash,       \* main's local: the snapshot drained from the latch
    trial_task,  \* is confirm_after_trial waiting for its window?
    upd,         \* the update handler, holding OTA_IN_FLIGHT unless idle
    updates, upsets,   \* how much of the two bounds is used
    prev,        \* history: the boot before this one
    owed,        \* history: the panic a rollback left for the next image
    proven       \* history: slots whose image passed a trial or came by USB

flash == <<otadata, armed, image>>
rtc   == <<trial_mark, latch>>
ram   == <<boot_image, crash, trial_task, upd>>
bounds == <<updates, upsets>>
history == <<prev, owed, proven>>
vars  == <<flash, rtc, running, phase, ram, bounds, history>>

Other(s) == 1 - s

(* The bootloader skips an invalid entry, falls back to ota_0 when no      *)
(* entry is left, and skips an image that does not verify.                 *)
Preferred(data, newest) ==
    IF data[newest] # "invalid" THEN newest
    ELSE IF data[Other(newest)] # "invalid" THEN Other(newest)
    ELSE 0

BootSlot(data, newest, img) ==
    LET p == Preferred(data, newest)
    IN  IF img[p] # Torn THEN p ELSE Other(p)

-----------------------------------------------------------------------------

Init ==
    /\ otadata = [s \in Slots |-> "undefined"]   \* --erase-parts otadata
    /\ armed = 0
    /\ \E i \in Images \ Bad : image = [s \in Slots |-> IF s = 0 THEN i ELSE Torn]
    /\ trial_mark = NoSlot
    /\ latch = NoSlot
    /\ running = 0
    /\ phase = "check"
    /\ boot_image = "unknown"
    /\ crash = NoSlot
    /\ trial_task = FALSE
    /\ upd = "idle"
    /\ updates = 0
    /\ upsets = 0
    /\ prev = [slot |-> NoSlot, panicked |-> FALSE]
    /\ owed = NoSlot
    /\ proven = {0}

(* Every reset reinitialises the statics and lets the bootloader choose.   *)
Reset(panicked) ==
    /\ running' = BootSlot(otadata', armed', image')
    /\ phase' = "check"
    /\ boot_image' = "unknown"
    /\ crash' = NoSlot
    /\ trial_task' = FALSE
    /\ upd' = "idle"
    /\ prev' = [slot |-> running, panicked |-> panicked]

Upset == upsets < MaxUpsets /\ upsets' = upsets + 1

-----------------------------------------------------------------------------
(* check_boot_image, first thing in main.  A definition named D_Defect is  *)
(* D with a defect: the runs must notice when it takes D's place.          *)

Crashed == latch \in Slots      \* latch_pending()

InTrial_NotInvalid == otadata[running] # "invalid"
InTrial == otadata[running] = "new"

CrashedTrial_AnyTrial == Crashed
CrashedTrial == Crashed /\ trial_mark = running

TrialMark_Unset == NoSlot
TrialMark == running

(* Ota::new or get_ota_image_state failed: TRIAL_MARK is not touched.      *)
CheckUnreadable ==
    /\ phase = "check"
    /\ FlashFaults
    /\ Upset
    /\ phase' = "drain"
    /\ UNCHANGED <<flash, rtc, running, ram, updates, history>>

(* A crashed trial of this same slot: mark it invalid, reset at once and   *)
(* leave the latch for the image the bootloader falls back to.             *)
Rollback(left) ==
    /\ phase = "check"
    /\ InTrial
    /\ CrashedTrial
    /\ trial_mark' = NoSlot
    /\ latch' = left
    /\ otadata' = [otadata EXCEPT ![running] = "invalid"]
    /\ owed' = latch
    /\ UNCHANGED <<armed, image, bounds, proven>>
    /\ Reset(FALSE)

CheckRollback_Drained == Rollback(NoSlot)
CheckRollback == Rollback(latch)

(* A trial goes ahead: no crash of its own, or the rollback write failed.  *)
CheckTrial ==
    /\ phase = "check"
    /\ InTrial
    /\ IF CrashedTrial THEN FlashFaults /\ Upset ELSE UNCHANGED upsets
    /\ trial_mark' = TrialMark
    /\ boot_image' = "trial"
    /\ phase' = "drain"
    /\ UNCHANGED <<flash, latch, running, crash, trial_task, upd, updates, history>>

CheckConfirmed ==
    /\ phase = "check"
    /\ ~InTrial
    /\ trial_mark' = NoSlot
    /\ boot_image' = "confirmed"
    /\ phase' = "drain"
    /\ UNCHANGED <<flash, latch, running, crash, trial_task, upd, bounds, history>>

(* consume_latch: take a valid snapshot, clear a valid or garbled latch.   *)
Drain(left) ==
    /\ phase = "drain"
    /\ crash' = IF Crashed THEN latch ELSE NoSlot
    /\ latch' = left
    /\ owed' = NoSlot
    /\ phase' = "bringup"
    /\ UNCHANGED <<flash, trial_mark, running, boot_image, trial_task, upd,
                   bounds, prev, proven>>

DrainLatch == Drain(NoSlot)

TrialSpawned_Confirmed == boot_image = "confirmed"
TrialSpawned == boot_image = "trial"

(* The rest of main, up to the spawn of ota_trial_task.                    *)
BringUp ==
    /\ phase = "bringup"
    /\ crash' = NoSlot
    /\ trial_task' = TrialSpawned
    /\ phase' = "up"
    /\ UNCHANGED <<flash, rtc, running, boot_image, upd, bounds, history>>

(* confirm_after_trial, once TRIAL_WINDOW_SECS have passed.  perform_update*)
(* is synchronous, so the timer cannot fire in the middle of a write.      *)
ConfirmTrial ==
    /\ phase = "up"
    /\ trial_task
    /\ image[running] \notin Bad
    /\ upd # "writing"
    /\ trial_task' = FALSE
    /\ otadata' = [otadata EXCEPT ![running] = "valid"]
    /\ trial_mark' = NoSlot
    /\ boot_image' = "confirmed"
    /\ proven' = proven \union {running}
    /\ UNCHANGED <<armed, image, latch, running, phase, crash, upd, bounds,
                   prev, owed>>

(* ota_mark_app_valid failed: logged, the slot is left in trial.           *)
ConfirmFails ==
    /\ phase = "up"
    /\ trial_task
    /\ image[running] \notin Bad
    /\ upd # "writing"
    /\ FlashFaults
    /\ Upset
    /\ trial_task' = FALSE
    /\ UNCHANGED <<flash, rtc, running, phase, boot_image, crash, upd, updates,
                   history>>

-----------------------------------------------------------------------------
(* handle_post_firmware_update and perform_update.                         *)

UpdateTarget == Other(running)

FlushedState_Undefined == "undefined"
FlushedState == "new"

UpdateStart ==
    /\ phase = "up"
    /\ upd = "idle"
    /\ updates < MaxUpdates
    /\ UpdateDuringTrial \/ boot_image = "confirmed"
    /\ upd' = "receiving"
    /\ updates' = updates + 1
    /\ UNCHANGED <<flash, rtc, running, phase, boot_image, crash, trial_task,
                   upsets, history>>

(* The body did not arrive, or parse_and_verify rejected it.               *)
UpdateRejected ==
    /\ upd = "receiving"
    /\ upd' = "idle"
    /\ UNCHANGED <<flash, rtc, running, phase, boot_image, crash, trial_task,
                   bounds, history>>

(* ota_begin and the first chunk: the inactive slot is no longer an image. *)
UpdateWrite ==
    /\ upd = "receiving"
    /\ upd' = "writing"
    /\ image' = [image EXCEPT ![UpdateTarget] = Torn]
    /\ proven' = proven \ {UpdateTarget}
    /\ UNCHANGED <<otadata, armed, rtc, running, phase, boot_image, crash,
                   trial_task, bounds, prev, owed>>

UpdateWriteFails ==
    /\ upd = "writing"
    /\ FlashFaults
    /\ Upset
    /\ upd' = "idle"
    /\ UNCHANGED <<flash, rtc, running, phase, boot_image, crash, trial_task,
                   updates, history>>

(* The last chunk and ota_flush(true, true).                               *)
UpdateFlush ==
    /\ upd = "writing"
    /\ upd' = "flushed"
    /\ \E i \in Images : image' = [image EXCEPT ![UpdateTarget] = i]
    /\ otadata' = [otadata EXCEPT ![UpdateTarget] = FlushedState]
    /\ armed' = UpdateTarget
    /\ UNCHANGED <<rtc, running, phase, boot_image, crash, trial_task, bounds,
                   history>>

(* The 200 was sent: software_reset, 200 ms later.                         *)
UpdateReset ==
    /\ upd = "flushed"
    /\ UNCHANGED <<flash, rtc, bounds, owed, proven>>
    /\ Reset(FALSE)

(* Sending the 200 failed: `?` leaves the handler, the guard releases the  *)
(* latch, and nothing resets.                                              *)
UpdateUnanswered ==
    /\ upd = "flushed"
    /\ upd' = "idle"
    /\ UNCHANGED <<flash, rtc, running, phase, boot_image, crash, trial_task,
                   bounds, history>>

-----------------------------------------------------------------------------
(* Resets nobody ordered through an update.                                *)

PanicReset ==
    /\ latch' = running
    /\ owed' = NoSlot
    /\ UNCHANGED <<flash, trial_mark, updates, proven>>
    /\ Reset(TRUE)

(* A bad image, some time inside its trial window.                         *)
BadPanic ==
    /\ phase = "up"
    /\ trial_task
    /\ image[running] \in Bad
    /\ PanicReset
    /\ UNCHANGED upsets

(* Any image, anywhere: before the check, during bring-up, mid-update.     *)
StrayPanic ==
    /\ Upset
    /\ PanicReset

(* POST /restart, on another HTTP worker.                                  *)
Restart ==
    /\ phase = "up"
    /\ upd # "writing"
    /\ Upset
    /\ UNCHANGED <<flash, rtc, updates, owed, proven>>
    /\ Reset(FALSE)

PowerLoss ==
    /\ Upset
    /\ trial_mark' = NoSlot
    /\ latch' = NoSlot
    /\ owed' = NoSlot
    /\ UNCHANGED <<flash, updates, proven>>
    /\ Reset(FALSE)

(* The bootloader scribbled over the body of the latch.                    *)
LatchGarbled ==
    /\ phase = "check"
    /\ Crashed
    /\ Upset
    /\ latch' = Garbled
    /\ owed' = NoSlot
    /\ UNCHANGED <<flash, trial_mark, running, phase, ram, updates, prev, proven>>

-----------------------------------------------------------------------------

Boot == CheckUnreadable \/ CheckRollback \/ CheckTrial \/ CheckConfirmed
        \/ DrainLatch \/ BringUp
Trial == ConfirmTrial \/ ConfirmFails \/ BadPanic
Update == UpdateStart \/ UpdateRejected \/ UpdateWrite \/ UpdateWriteFails
          \/ UpdateFlush \/ UpdateReset \/ UpdateUnanswered
Disturb == StrayPanic \/ Restart \/ PowerLoss \/ LatchGarbled

Next == Boot \/ Trial \/ Update \/ Disturb

Spec == Init /\ [][Next]_vars

(* main never waits for anybody, a timer fires, a bad image panics, and an *)
(* update that started ends one way or the other.                          *)
CheckImage == CheckRollback \/ CheckTrial \/ CheckConfirmed
Receives   == UpdateRejected \/ UpdateWrite
Finishes   == UpdateReset \/ UpdateUnanswered

Fairness ==
    /\ WF_vars(CheckImage)
    /\ WF_vars(DrainLatch)
    /\ WF_vars(BringUp)
    /\ WF_vars(ConfirmTrial)
    /\ WF_vars(BadPanic)
    /\ WF_vars(Receives)
    /\ WF_vars(UpdateFlush)
    /\ WF_vars(Finishes)

FairSpec == Spec /\ Fairness

-----------------------------------------------------------------------------

TypeOK ==
    /\ otadata \in [Slots -> {"undefined", "new", "valid", "invalid"}]
    /\ armed \in Slots
    /\ image \in [Slots -> Images \union {Torn}]
    /\ trial_mark \in Slots \union {NoSlot}
    /\ latch \in Slots \union {NoSlot, Garbled}
    /\ running \in Slots
    /\ phase \in {"check", "drain", "bringup", "up"}
    /\ boot_image \in {"unknown", "trial", "confirmed"}
    /\ crash \in Slots \union {NoSlot}
    /\ trial_task \in BOOLEAN
    /\ upd \in {"idle", "receiving", "writing", "flushed"}
    /\ updates \in 0 .. MaxUpdates
    /\ upsets \in 0 .. MaxUpsets
    /\ prev \in [slot : Slots \union {NoSlot}, panicked : BOOLEAN]
    /\ owed \in Slots \union {NoSlot}
    /\ proven \subseteq Slots

(* The running slot always holds a whole image: no sequence of updates,    *)
(* torn writes, rollbacks and resets leaves the bootloader with nothing    *)
(* but a half-written slot.                                                *)
RunningImageWhole == image[running] # Torn

(* A pending latch at the OTA check is the panic of the boot just before,  *)
(* or the one a rollback handed on: main drains the latch before anything  *)
(* else can panic, so an old crash never condemns a later image.           *)
LatchIsFresh ==
    phase = "check" /\ Crashed => \/ prev.panicked /\ prev.slot = latch
                                  \/ owed = latch

(* While an image runs past its check the mark names that image or none,   *)
(* unless the check could not read otadata and left an older mark behind.  *)
MarkNamesRunningTrial ==
    phase # "check" /\ boot_image # "unknown" =>
        trial_mark = IF boot_image = "trial" THEN running ELSE NoSlot

(* check_boot_image rolls a slot back only when the boot just before was   *)
(* of that same slot and panicked.                                         *)
RolledBack == otadata[running] # "invalid" /\ otadata'[running] = "invalid"

RollbackOnlyOwnPanic ==
    [][RolledBack => prev.panicked /\ prev.slot = running]_vars

(* A slot whose image already passed its trial, or came over USB, is never *)
(* marked invalid, whatever panics later.                                  *)
ProvenNeverRolledBack ==
    [][RolledBack => running \notin proven]_vars

(* The image that runs after a rollback drains the very panic that caused  *)
(* it: the rollback reset does not lose the crash report.                  *)
RollbackKeepsReport ==
    [][phase = "drain" /\ phase' = "bringup" /\ owed # NoSlot => crash' = owed]_vars

(* /health says "confirmed" only of a slot whose image passed a trial or   *)
(* was written over USB.                                                   *)
ConfirmedMeansProven ==
    boot_image = "confirmed" => running \in proven

(* As long as updates are pushed to confirmed images only, one slot always *)
(* holds a proven, whole image the bootloader would accept.                *)
ProvenFallback ==
    \E s \in proven : image[s] # Torn /\ otadata[s] # "invalid"

(* However the flash fails and whatever panics, the last proven image is   *)
(* given up only at the first chunk of an update that was pushed to an     *)
(* image not confirmed: the handler does not ask whether it runs on trial. *)
FallbackGivenUp ==
    [][ProvenFallback /\ ~ProvenFallback' =>
           upd' = "writing" /\ boot_image # "confirmed"]_vars

(* The hypothesis under which the liveness theorems are proved: each fair  *)
(* step can happen where its guards let it.  It says nothing of the code;  *)
(* it spells out ENABLED, which the provers cannot evaluate.               *)
NeverHeldUp ==
    /\ phase = "check" => ENABLED <<CheckImage>>_vars
    /\ phase = "drain" => ENABLED <<DrainLatch>>_vars
    /\ phase = "bringup" => ENABLED <<BringUp>>_vars
    /\ phase = "up" /\ trial_task /\ upd # "writing" =>
           IF image[running] \in Bad THEN ENABLED <<BadPanic>>_vars
                                     ELSE ENABLED <<ConfirmTrial>>_vars
    /\ upd = "receiving" => ENABLED <<Receives>>_vars
    /\ upd = "writing" => ENABLED <<UpdateFlush>>_vars
    /\ upd = "flushed" => ENABLED <<Finishes>>_vars

(* Power losses, restarts and panics nobody ordered come to an end.        *)
(* MaxUpsets sees to it in the runs.                                       *)
Calm == <>[][~Disturb]_vars

(* A trial that starts ends: in a confirmed image, its own or the one      *)
(* before it.                                                              *)
TrialSettles == boot_image = "trial" ~> boot_image = "confirmed"

(* A bad image does not crash-loop: the device returns to another image.   *)
BadImageAbandoned == image[running] \in Bad ~> image[running] \notin Bad
=============================================================================
