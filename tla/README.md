# TLA+ models of StackChan Kai

This directory holds TLA+ models of the concurrent and stateful core of the
StackChan firmware (`crates/stackchan-firmware`, `crates/stackchan-core`), the
configurations that check them with TLC on small instances, and proofs, checked
by TLAPS, of what holds for every size. `PROJECT.json` maps each definition to
the source lines it stands for and lists the hazards, runs, mutants, findings
and theorems in machine-readable form. Paths below are relative to `src/`.

Contents: 1 the system, 2 what is hard, 3 the modules, 4 the runs, 5 the proofs,
6 where code and documentation disagree, 7 what is not modelled, 8 the plan.

To check a model: `tlc -config Mind_frames.cfg Mind.tla`. To check the proofs:
`tlapm MindProofs.tla`.

## 1. The system

StackChan is a desktop robot on an ESP32-S3. All of its Rust code runs on one
cooperative Embassy executor, so a task is interrupted only at an `await`; what
a test hardly reaches is what other tasks, a reset or a radio do at that point.

    phone, browser ── HTTP ──┐                       ┌── VoiceVox (HTTP)
    desktop app ──── BLE ────┤                       ├── agent sidecar (HTTP)
    other robots ─ ESP-NOW ──┼─> firmware tasks <────┘
    touch, mic, camera, IMU ─┘      │    │
                                    │    └─ SD card: STACKCHAN.RON, RUNTIME.RON
                                    │       flash: two app slots and otadata
              REMOTE_COMMAND_QUEUE, │       RTC RAM: crash latch, trial mark
              latest-wins signals   v
                     render loop: drain, Director::run, draw, pose, speak

| component | state it keeps | operations | talks to |
|---|---|---|---|
| OTA trial (`ota.rs`, `crash.rs`, boot in `main.rs`, update handler in `net/http.rs`) | otadata, two app slots, `TRIAL_MARK` and `CRASH_LATCH` in RTC RAM, `BOOT_IMAGE`, `OTA_IN_FLIGHT` | boot check, latch drain, confirmation after the trial window, update, panic handler | bootloader, HTTP, every task that may panic |
| Configuration (`storage.rs`, `audio.rs`, `net/http.rs`, `ble/server.rs`) | `STACKCHAN.RON`, `STKCFG.NEW`, `CONFIG_SNAPSHOT`, two mutexes, three signals | set volume, mute, a behavior flag, `PUT /settings`, BLE Wi-Fi provisioning, factory reset, boot read | Wi-Fi task, amplifier |
| Desktop permission (`desktop_permission.rs`, `ble/desktop.rs`, `ble/server.rs`) | active prompt, armed tap, decision latch, a lossy fan-out channel, one reply slot | inbound snapshot, 50 ms touch poll, send, connect, disconnect | desktop app over BLE, touch strip |
| Mind (`director.rs`, modifiers and skills of `stackchan-core`) | `mind.attention`, `mind.intent` and each writer's timers | one `update` or `invoke` per writer per frame | sensors in, head, eyes and face out |
| Conversation (`net/http.rs`, `main.rs`, `agent_sidecar.rs`, `voicevox.rs`, `audio.rs`) | command queue, the listen and thinking holds, the press trigger, two tasks' program counters, TX queue, preempt flag | post a command, press, capture, exchange, synthesise, render a frame, play | sidecar, VoiceVox, microphone, speaker |
| Desktop folder push and commands (`desktop_control.rs`) | folder and file being received | begin, file, chunk, file end, end, rename, queries | desktop app over BLE, SD card |
| Affect (`emotion_from_*`, `intent_from_*`, `emotion_cycle.rs`, `remote_command.rs`) | `mind.affect.emotion`, `mind.autonomy` (the hold and its source), the chirp, each writer's state | one `update` per writer per frame | sensors in, face and voice out |
| Provisioning (`ble/server.rs`, `net/wifi.rs`) | BluFi session, passkey, last report, Wi-Fi link state, credentials and backoff of the Wi-Fi task | credential frames, commit, status query and push, connect, pair; start, join, back off, reconfigure | phone over BLE, access point, configuration |
| Runtime store (`runtime_store.rs`) | `RUNTIME.RON`, its cache | merge and write a selection | HTTP, render loop |
| Reminders, chime (`reminders.rs`, `hourly_chime.rs`) | list of deadlines | add, cancel, take what is due | command queue |
| Sleep (`sleep.rs`) | one slot, a cache of it | command, drain, touch | render loop, touch |
| Dormancy (`dormancy_from_activity.rs`) | time of the last activity | one `update` per frame | render loop |
| Net stack, BLE, routing, parsers, drivers, numeric code, simulator, sidecar, tools | see `PROJECT.json` | | |

### What makes each of them correct

* **OTA trial.** The chip always has a whole image to boot. An image that
  passed its trial is never rolled back. A rollback answers a panic of the very
  image it removes, and its report survives the rollback. Every trial ends.
* **Configuration.** Concurrent writers lose no update. Memory, card and
  consumers agree at rest. A power loss leaves the old or the new settings.
* **Desktop permission.** No decision without two taps meant for that prompt,
  no second decision, no prompt shown that was withdrawn.
* **Mind.** Attention and intent are shared fields without an owner; whoever
  sets one must be able to clear it, and an operator's order must win.
* **Folder push.** What the desktop believes to be on the card is there; no
  file mixes two transfers; no state an attempt leaves refuses the next one.
* **Affect.** What a person chose gives way to nothing but time and people;
  the reactions that renew their holds do not starve each other.
* **Provisioning.** What is committed is what the phone sent, the network given
  last is the one the device joins, and the phone learns how it came out.
* **Conversation.** A press is served, an accepted answer is heard to the end,
  and the face does not stay in a pose whose reason is gone.

## 2. What is hard to test here

`PROJECT.json` lists the hazards with their lines. The recurring shapes are:

* *read, await, write*: a snapshot cloned before the card is written and
  installed after it (configuration, runtime store);
* *one slot, several producers*: latest-wins signals and `Option`s that hold the
  last value only (the desktop reply, the frame's modifier-bound command, the
  press trigger);
* *bounded queues that drop*: the command queue drops the newcomer, the desktop
  fan-out drops the oldest, a full TX queue refuses;
* *a condition over shared state guards the release of private state*: a
  modifier forgets its timer only while the shared field still is what it wrote;
* *a reset between two steps*: panic, restart, power loss at any line of an
  update, a rollback or a card write;
* *late answers*: a heartbeat sent before a reply arrived, a trigger pressed
  while an exchange runs.

## 3. The modules

| module | role |
|---|---|
| `OtaTrial` | the trial boot with the update handler and the latch |
| `OtaTrialProofs` | its theorems |
| `ConfigData` | values, patches and `Apply`, shared by the next three |
| `ConfigRegister` | abstract specification: one atomic register of settings, exposed to a power loss only between `Expose` and `Cover` |
| `ConfigStore` | tasks, mutexes, card, signals; implements `ConfigRegister` |
| `ConfigStoreProofs` | its theorems, the refinement included |
| `MCConfigStore` | bodies of `PUT /settings` and the symmetry of the workers for TLC |
| `DesktopPermission`, `DesktopPermissionProofs` | prompt, taps, latch, channels, link |
| `FileDelivery` | abstract specification: one file at a time is announced, stored or torn, confirmed |
| `FolderPush`, `FolderPushProofs` | the folder push, its channels, the card; implements `FileDelivery` |
| `Mind`, `MindProofs` | attention and intent, frame by frame |
| `Affect`, `AffectProofs` | emotion, hold and chirp, frame by frame |
| `Provisioning`, `ProvisioningProofs` | BluFi session, commit, status reports, the Wi-Fi task |
| `Conversation`, `ConversationProofs` | push to talk, command queue, speech |
| `Descent` | a natural number cannot fall for ever: the one formula the proofs about timers take from outside the provers |

The eight models share no variable. Where the components touch, the model has
the other side as an environment: `Conversation` reduces the modifiers to the
two holds that its commands set, `Mind` has these and the other holds in full
with one arbitrary command per frame; `Affect` has the skills' intent as a
choice and `Mind` the emotion's hold. `FolderPush` has the permission task's
replies as interference in the one reply slot, `DesktopPermission` the acks of
commands. `Provisioning` has the card write of `ConfigStore` as one await.

### 3.1 OtaTrial

`otadata`, `armed` and `image` are the flash, `trial_mark` and `latch` the RTC
RAM, the rest is RAM that a reset clears. `phase` is how far `main` has come:
the OTA check, the latch drain, the bring-up, running. Actions follow the code:
`CheckUnreadable`, `CheckRollback`, `CheckTrial` and `CheckConfirmed` are the
outcomes of `check_boot_image`; `DrainLatch` and `BringUp` the rest of the boot;
`ConfirmTrial` and `ConfirmFails` the task `confirm_after_trial`; the `Update*`
actions the handler with `perform_update`, one per erase, write, flush and
answer. `BadPanic`, `StrayPanic`, `Restart`, `PowerLoss` and `LatchGarbled` may
come between any two of them.

External, modelled from how `ota.rs` uses it: the bootloader (`BootSlot`: the
newest entry unless it is invalid or its image torn, then the other slot, and
slot 0 if neither will do) and `esp-hal-ota` (a state per slot). RTC RAM
survives a software reset and is cleared by a power loss. A bad image panics
after the check and before its window ends; an image that panics before the
check never reaches any code of this repository.

`prev`, `owed` and `proven` are history: the boot before this one, the panic a
rollback left behind, the slots that have passed a trial or came by USB.

### 3.2 ConfigStore

`cpu` is the task that is being polled; it changes hands only where a future is
pending (`Suspend`, `Poll`), so that what is atomic in the code is atomic here
for the reason it is there. A request walks through the steps of its handler:
the gate (HTTP only), the clone of the snapshot under `snap_lock`, the card
write under `store_lock` (staging file, truncation, live file, deletion of the
staging file, each with its failures), installation, signals. `Wipe` is factory
reset, `Boot` the read at boot, `Consume` a consumer taking its signal.
Redaction sentinels and byte formats are abstracted away; a file holds a whole
configuration, is absent, or is `Torn`.

`ConfigRegister` says what all of it promises: requests are pending, an update
applies one atomically, a refusal drops one, and a power loss drops what is
pending, after applying at most one of it: unless the register is exposed, when
its value falls back to the defaults.
The refinement mapping takes the snapshot for the register's value (what the
boot read will find, while there is none), the tasks' requests for `pending`,
and "the live file is unreadable" for `exposed`.

### 3.3 DesktopPermission

A `Tick` is a stretch of 50 ms polls in which the touch sensor changed once.
The inbound channel keeps the last `InboxCap` messages; the reply slot keeps
the last value. The desktop is external: each prompt has an id of its own,
heartbeats repeat it, an answer withdraws it. `Delay` bounds how long a reply
is on its way and how long the desktop takes to publish a withdrawal; the runs
take a latch that outlives a reply's and a withdrawal's delay together, which
is what the comment on `DECISION_LATCH_MS` says it is for. Ids are never used
again.

### 3.4 Mind

A frame is a round of turns: drain the command slot, `AttentionFromTracking`,
`RemoteCommand`, `IntentFromLoud`, `Listening`, `Petting`, `Handling`, in the
order of `Director::run`. The guards of one turn are disjoint, so each turn has
one outcome per input. An attention is told apart by its kind and by who set
it, as the code tells it by its `since` and target; the model assumes that the
camera never reports exactly the operator's target. Timers count frames and
stop where they have said all they can say. The emotion is an environment: its
manual hold (`userHold`) is arbitrary. The detectors in front of `Handling` are
reduced to what they decide.

### 3.5 Affect

The same frame as in `Mind`, seen by the modifiers that write the emotion: the
drain, `RemoteCommand`, `EmotionFromTouch`, `EmotionFromIntent`,
`EmotionFromVoice`, `IntentFromLoud`, `EmotionFromAmbient`,
`EmotionFromBattery`, `IntentFromBodyTouch`, `EmotionCycle`, then the skills.
`until` is what `manual_until` has left, in frames, `Live` whether a modifier
that respects holds stands down. Each modifier is one action per outcome
(`Tapped` and `Untapped`, `StoodDown`, `Dwells` and `Cycles`). Light and charge
are told apart where the thresholds do, hysteresis included. `Inputs` says which
of the inputs exist in a run.

### 3.6 FolderPush

`active_char` and `current_file` are the receiver's `PushState`; `inbox` the
bounded fan-out channel, `outbound` the single reply slot. Every command has its
accepted form and each of its refusals as an action. The desktop is external: it
sends one command at a time, waits for its ack (`types.rs:157`), repeats it or
gives up when nothing is under way any more, and gives up on a refusal or on a
counter that is not its own. What is legal in names and sizes is a boolean of
the message. A write that is cut short leaves `Torn`. `landed` and `meant` are
history: what the desktop was told, and where each transfer was to go.
`FileDelivery` is what is left without commands, channels, buffers and faults:
only the place announced last is written, and only until the desktop knows what
landed there. The mapping takes `meant[transfers]` for the place under way;
`DeliversInTurn` is the refinement.
Bonds are not modelled: `unpair` deletes the card's file only, the bonds in RAM
stay until the reboot.

### 3.7 Provisioning

A text is a sequence of pieces, a frame carries one or all of them; the caps
are 2 and 3 pieces; a `Long` text is over the first, a `Huge` one over both. `commit` is the await of
`apply_wifi_credentials`: while it lasts the GATT loop takes no event. `gatt` is
the custom service's two characteristics, the second way of committing. `task`
is the Wi-Fi task's place: before it reads the credentials (`boot`), without
any (`waiting`), starting the radio, connecting, backing off, connected,
leaving a network for another, or parked for good; new credentials come in
`reconfig`, a signal of one value. `link` is `WIFI_LINK_WATCH` and `unseen`
whether the session's receiver is behind it. The phone sends
any frame and begins any chain at any time, and subscribed to the reports.
`meant`, `told` and `polled` are its own view: the last text of each credential
that fits, or `Unsure` where it began a text over an unfinished chain of the same
credential or in fragments though it is over `PROV_PSK_CAP`; `doubts` counts
these. What such a text comes to, the pieces of several joined, is kept as
`Scrap`, which no network has for a name or passphrase; only whether it is below
`PROV_PSK_MIN` is told.

### 3.8 Conversation

Five tasks: whoever posts commands, the render loop, the sidecar task, the
VoiceVox task, the audio feeder. An action is what a task does from one await
to the next. `Frame` is a whole render frame: it drains the queue into one
modifier-bound slot, runs the modifier, ticks the holds and enqueues the frame's
other sounds. A command is kept for what it does to the two holds
(`SetEmotion` and `ExitThinking` both end a thinking hold: `ThinkingOver`). The
link is found up or down wherever a task looks at it. Every utterance of the
program has `Priority::Normal`, so eviction for a critical one is left out. Of
sounds the model tells the sidecar's `reply` from any other, and lets any other
be empty. A hold is 0 or `MaxHold` frames.

## 4. The runs

A run passes unless it is listed as a divergence. Every property of a passing
run also has a mutant in `PROJECT.json`: a plausible bug in one definition that
makes TLC find the property violated under the same bounds.

| run | bounds | properties |
|---|---|---|
| `ota_safety` | a good and a bad image, 4 updates, 4 upsets, flash faults, updates at any time | `ProvenNeverRolledBack`, `RollbackKeepsReport`, `FallbackGivenUp` |
| `ota_operated` | the same, no otadata faults, updates to confirmed images only | `RollbackOnlyOwnPanic`, `ProvenFallback`, `TrialSettles`, `BadImageAbandoned` |
| `config_updates` | two HTTP workers (symmetric) and BLE, two values per block, 3 requests, 1 power loss or failed write, torn writes | `TypeOK`, `NoLostUpdate`, `WifiFollowsSettings`, `AtomicRegister` |
| `permission` | 2 prompts, 5 touch patterns on 3 zones, window 3, latch 5, delay 2, channel of 2, 1 disconnection, 1 burst | `TwoTapsDecide`, `AnsweredOnce`, `NoGhostPrompt`, `GhostHeals`, `PromptReturns` |
| `pushes` | 2 folders, 1 file name, files of 2 chunks, channel of 2, 2 transfers, 2 upsets, 2 foreign messages | `LandedIsOnCard`, `NothingForeign`, `UndisturbedAccepted`, `DeliversInTurn` |
| `mind` | every window and hold 2 frames, every input every frame | `TypeOK`, `AttentionHasOwner`, `IntentHasOwner`, `OperatorHasTheHead`, `Settles` |
| `affect` | holds of 1 and 2 frames, every input but the voice and the battery, a cycle of 2 | `TypeOK`, `OperatorShows`, `ExplicitKept` |
| `moods` | holds up to 3 frames, voice, light and battery, a cycle of 5 | `VoiceWakes`, `MoodSettles` |
| `provisioning` | 2 names (one over both caps), 2 passphrases (one of three pieces, one too short), 2 backoffs, 1 text in doubt | `StagedAsSent`, `JoinsTheLast`, `PhoneLearns` |
| `conversation` | both queues of 2, holds of 0 or 2 frames | `NeverHeldUp`, `OneFace`, `NothingCutOff`, `PressServed`, `ReplyHeard`, `FaceComesBack` |
| `mind_startle` | as `mind`, holds of 1 | violates `StartleRearms` |
| `wifi_status` | as `provisioning` | violates `StatusIsCurrent` |

### What they show

* `ota_safety`: with the flash failing and power going at any point, a proven
  slot is never marked invalid, and the boot after a rollback drains the report
  that caused it. The last proven image is lost in one way only: at the first
  chunk of an update that was pushed to an image not confirmed, which the
  handler does not refuse (divergence 8).
* `ota_operated`: what holds when the flash answers and the operator waits for
  a confirmation before the next update. Both conditions are needed: the first
  by divergence 1, the second by divergence 8.
* `config_updates`: clone-then-write-then-install holds no lock from end to end
  and is safe only because the card driver blocks: no task waits while it holds
  a lock, so no lock is ever contended and nobody else runs between a clone and
  its installation. An `await` added inside `with_storage` would break it. What
  a power loss can destroy is exactly the truncated live file.
* `permission`: a decision always takes a tap and a second one on the same
  zone within the window, both made on this prompt. `AnsweredOnce` is stated
  for a link that never dropped and a channel that never overflowed,
  `NoGhostPrompt` for a channel that never overflowed; `GhostHeals` says the
  heartbeat repairs the rest. `PromptReturns` is what is left when an ack
  replaces a decision (divergence 3) or the link loses it: nobody sends it
  again, but the prompt, which stays up on the desktop, comes back on the device
  again and again, to be decided once more.
* `pushes`: `file_end` compares nothing with the announced size and commits what
  it has. That the desktop's picture of the card is right all the same rests on
  the byte counter in each ack, on `char_begin` forgetting the open file, and on
  one command at a time. `UndisturbedAccepted` says that an attempt that meets
  no fault of its own is never refused for what an earlier one left. `DeliversInTurn` adds what the card sees: no late
  command, repeated `file_end` or cut write touches any place but the one
  announced last, or one the desktop was already told about.
* `mind`: an attention or reaction in force always has behind it the timer that
  will release it; a live operator hold has the head when it is posed; once the
  room is quiet for good (only the steps of `QuietNext`) the avatar attends to
  nothing and every reaction ends but Listening, which divergence 4 is about.
* `affect`: neither a clap nor darkness takes the emotion from a person (nor,
  by the proof, a voice or a low battery); the end of an operator's hold does not cut a tap's; the operator's
  own hold is set again each frame, so a tap under it shows for one frame.
* `moods`: voice stands down under the holds of darkness and battery, which are
  set again the moment they end, and is heard all the same: it runs before them
  in the frame. In silence the cycle visits all of its emotions.
* `provisioning`: one buffer and no sequence check serve two credentials. The
  phone may send any frame and begin any chain at any time, so it abandons
  chains, mixes them with whole frames of either credential and begins them
  again. What is staged is the last text it sent whole, except where the code
  stages something else (divergence 17), which `StagedAsSent` names: a text begun
  over an unfinished chain of the same credential, and a chain given up for its
  length. Without the first exception TLC finds the joined SSID; so the comment
  of `BluFiSession`, which has the buffer reset on any switch, is not what holds;
  credentials that pile up in a
  one-value signal, or meet the Wi-Fi task anywhere in its loop, are not lost;
  pushing no report twice in a row, with the answer to the commit counted as
  one, still lets the phone learn the outcome, if it does not poll.
* `conversation`: presses are served, replies heard, sounds never cut off, and
  the face returns once commands stop, in spite of dropped commands.

`NeverHeldUp`, in `conversation`, lists the steps that are owed under weak or
strong fairness with the condition under which each can be taken. There it says
something of the code: no producer ever waits for a place in the command queue.
The definitions of that name in `OtaTrial`, `DesktopPermission` and
`Provisioning` say nothing of the code and are in no run: they are hypotheses of
the liveness theorems (section 5).

### Why the bounds are enough

Four updates and four upsets reach: a trial that is confirmed, a second update
over the old slot, a rollback, a power loss during each. Three requests are two
concurrent writers and a third that starts after one has finished; one upset
falls anywhere. Two prompts give replacement and withdrawal; a channel of two
overflows in one burst. Two transfers to two folders give a push that follows an
abandoned one into the same or the other place; two upsets lose a command and
its ack, or cut a write during a retry. With windows of two frames each timer has a value of
its own for "just started", "running" and "over"; a text of two pieces has a first and a
last fragment, one of three a middle one, one of four is over
both caps; one text in doubt is enough for a joined one, and after it
the phone has to be believed again; a second backoff is where the delay
stops growing. Queues of two fill, drop, and
order. Where an invariant is proved (section 5), the bound only matters to the
finite check.

`CHECK_DEADLOCK FALSE` stands where a run may stop: a bound is used up
(`OtaTrial`, `ConfigStore`, `DesktopPermission`, `FolderPush`) and the device
idles. `Mind`, `Affect`, `Provisioning` and `Conversation` have no such bound,
and TLC checks them for deadlock.

### Fairness

* `OtaTrial`: weak fairness of the boot's steps, the confirmation timer, the
  update handler's progress, and `BadPanic`, which makes "bad" mean that the
  panic does come. None of the upsets is fair, and they are finitely many: a
  device that loses power for ever confirms nothing.
* `DesktopPermission`: weak fairness of the task's receive and of connecting,
  strong fairness of the heartbeat, which the desktop repeats every few seconds
  whenever it is connected.
* `Mind`, `Affect`: weak fairness of the frame, driven by the render ticker.
* `Provisioning`: weak fairness of the steps of both tasks, strong fairness of
  `Joins`: an access point in range with the right passphrase accepts one of
  the attempts, between which the task does other things. The phone owes
  nothing. Its frames come first in the GATT loop's `select`, so that endless
  commits may starve the reports: the liveness properties speak of a phone that
  at last commits nothing more.
* `Conversation`: weak fairness of the two tasks (each of their awaits has a
  timeout, except that the microphone is assumed to deliver frames), of the
  render ticker and of playback (sounds are finite). Neither presses nor
  commands are fair.

## 5. The proofs

TLAPS proves, for every value of the constants that the named assumptions admit:

| theorem | says |
|---|---|
| `OtaTrialProofs`: `TypeCorrect` | the types |
| `WholeImage`, `FreshLatch`, `TruthfulMark` | the running slot holds a whole image; at the check a pending latch is the panic of the boot just before, or the one a rollback hands on; past it `TRIAL_MARK` names the running trial or nothing |
| `ProvenKept`, `JustifiedRollback`, `ReportKept` | the action properties, `RollbackOnlyOwnPanic` without flash faults |
| `FallbackKept` | `ProvenFallback` and `ConfirmedMeansProven` for updates to confirmed images |
| `FallbackLostOnlySo` | `FallbackGivenUp`, with flash faults and updates at any time |
| `TrialAlwaysSettles`, `BadAlwaysAbandoned` | the liveness of `ota_operated` |
| `ConfigStoreProofs`: `TypeCorrect`, `UpdatesKept`, `WifiFollows` | the invariants of `config_updates` |
| `PolledToTheEnd` | no lock is ever contended: a handler keeps the CPU from its first step to its reply |
| `CardAgrees`, `StagedFirst` | at rest the card holds the snapshot; the live file is truncated only once the staging file is whole |
| `Refinement` | `ConfigStore` implements `ConfigRegister` |
| `MindProofs`: `TypeCorrect`, `AttentionOwned`, `IntentOwned`, `HeadOperated` | the invariants of `mind` |
| `PettingShown` | sustained petting shows unless handling does |
| `QuietRunsDown` | in a quiet room every frame takes something off what is left of the holds and windows, and no step adds to it |
| `SettlesAlways` | the liveness of `mind`, for every length of the holds and windows |
| `DesktopPermissionProofs`: `TypeCorrect`, `TwoTapsAlways`, `NoGhostAlways` | the first three safety properties of `permission`, for every window, latch and delay |
| `AnsweredOnceAlways` | `AnsweredOnce`, for `Latch > 2 * Delay` |
| `GhostAlwaysHeals`, `PromptAlwaysReturns` | the liveness of `permission`, for a channel of at most 4 |
| `FolderPushProofs`: `TypeCorrect`, `LandedAlways`, `NothingForeignAlways`, `AcceptedAlways` | the properties of `pushes`, for every size and number of transfers, faults and foreign messages |
| `DeliversAlways` | `FolderPush` implements `FileDelivery` |
| `AffectProofs`: `TypeCorrect`, `OperatorAlways`, `ExplicitAlways` | the properties of `affect`, for every hold and with every input |
| `ReactionsWait` | under a live hold, whoever's, every reaction but a clap waits: light, battery, voice, lifting, shaking and cycle leave the hold alone |
| `VoiceAlwaysWakes`, `MoodAlwaysSettles` | the liveness of `moods`, for every hold, dwell and cycle length |
| `ProvisioningProofs`: `TypeCorrect`, `StagedAlways` | the types and `StagedAsSent`, for any names and passphrases and any number of texts in doubt |
| `NetworkAlwaysKept`, `ReportAlwaysOwed` | no step loses the credentials committed last, or the report of a link that changed |
| `AlwaysJoinsTheLast`, `PhoneAlwaysLearns` | the liveness of `provisioning` |
| `ConversationProofs`: `TypeCorrect`, `OneFaceAlways`, `NothingCutOffAlways` | the invariants of `conversation` |
| `ReplyComesNearer` | a queued reply only moves towards the player |
| `PressAlwaysServed`, `ReplyAlwaysHeard` | two of the three liveness properties of `conversation`, the second for a TX queue of at most 4 |
| `ExchangeAlwaysEnds` | without new presses both tasks come to rest and the command queue is empty for good |
| `HoldsRunDown`, `FaceAlwaysComesBack` | every frame takes something off a face's hold, and none is added; the third liveness property, for holds of every length |

The types of `OtaTrial`, `DesktopPermission`, `FolderPush`, `Provisioning` and
`Conversation`, `RunningImageWhole`, `LatchIsFresh`, `MarkNamesRunningTrial`,
`ConfirmedMeansProven`, `SnapshotOnCard`, `StagedBeforeClobbered` and
`PettingShows` are proved and no longer listed in a run.

**OtaTrial.** None of the properties is inductive. The invariant has layers,
each proved inductive with those before it: the types; no update runs and
nothing is known of the image before the check (`PhaseInv`); what the latch can
hold in each phase (`LatchInv`); a proven slot is whole, not on trial, and not
the one being written (`ProvenInv`). Two further layers need the environment's
assumptions: without flash faults a mark never outlives its trial, and a pending
latch under this slot's mark is this slot's own panic (`OwnPanicInv`); with
updates to confirmed images only, every whole slot that is neither on trial nor
invalid is proven, and one such slot is left (`FallbackInv`). Without either of
them `ConfirmedInv` is left, for `FallbackGivenUp`: a whole slot that is valid or
undefined in otadata is proven, and as long as some proven slot is left, an image
that runs as confirmed is one of them.

**ConfigStore.** `Order` says which task may be where: every task but the one
being polled is idle or at its reply, and only the polled task holds a lock, at
the steps that hold it. On top of it, `CloneInv`: the configuration a task
cloned still is the snapshot until it installs; `StagedInv`: before the live file
is truncated and until it is written, the staging file is that task's new
configuration; `StoreInv` and
`AbsentInv`: what the live file holds at every step; `WifiInv`. The refinement
has one lemma per action: a step of the register or a stutter.

**Mind.** `TypeOK` and `AttentionHasOwner` are inductive together, one lemma
per turn. `IntentHasOwner` and `OperatorHasTheHead` follow from the same, turn
by turn. `PettingShows` needs `PetInv`: when Handling runs, a sustained petting
still has the intent. `QuietRunsDown` adds up what is left of all holds and windows
(`FramesLeft`) and says what each turn does to the sum. Once it is 0, each turn
clears what it owns, and no other turn of a quiet frame brings it back.

**DesktopPermission.** `ArmedInv` ties the armed tap to the prompt that is up and
to the zone's last release, so that the tap that commits is the second of two.
`ToldInv`: the channel ends with what the desktop told last, whence
`NoGhostPrompt` once it has been read. `OnceInv` is the argument behind the
latch: a decision on its way is as old as the latch it set and arrives within
`Delay`; from then on the desktop owes a withdrawal and publishes it within
`Delay` again; until it has, the latch still names the prompt. The theorem needs
`Latch > 2 * Delay`, which the 5 s of `DECISION_LATCH_MS` give for delays below
2.5 s; the code does not enforce it.

**FolderPush.** `FlightInv`: at most one command of the push is under way, or its
ack, and it is the one the desktop waits for. On it rests what the desktop may
take for granted at each stage: nothing while it is idle (`IdleInv`: an earlier
push may have left any folder and file open), the folder open and no file
(`FolderInv`), the file with exactly the chunks acknowledged (`FileInv`). A chunk
sent twice is one too many from then on, and its counter says so, so that no
`file_end` follows (`ChunkInv`). `ForeignInv` is `NothingForeign` of the transfers
so far; `CleanInv` says that in an undisturbed push the command under way finds
what it needs. The refinement has one lemma per action that the card, the
desktop's knowledge or the transfers see: an open file is always that of the
transfer under way, of which the desktop has not been told, so a `file_end` or a
reset that cuts one stores or tears what `FileDelivery` allows.

**Affect.** `RemoteInv`: a hold that is the operator's ends with the operator's own.
`OperatorInv` says what the shared fields are from the operator's turn to the end of the
frame; every other writer stands down under a live hold or is a touch.
`ReactionsWait` is the same for all holds, turn by turn. The liveness theorems
assume the inputs of `moods` (`Room`: light, battery, voice), under which the
operator, the touch and the intent have nothing to say (`Alone`). A
voice wins over darkness because its turn comes first: of the frame in which the
hold has run out (`Free`) only the voice's turn can make another, and that one
lasts until the frame is shown. In the dark the hold of sleep is renewed in
`Ambient`'s turn of the frame in which it ends, before `EmotionCycle` sees it gone
(`Nightly`); in the light nobody starts a hold, and each dwell that ends brings
the cycle one step nearer to any given emotion (`Ahead`).

**Provisioning.** `BufferInv`: the buffer holds pieces exactly while it belongs to a
chain. `ChainInv` relates it to the phone's chain: it is of the same credential,
and it holds the beginning of the text under way, or the phone is in doubt about
that text (`Under`). So a text that ends without doubt is staged whole, and
`StageInv` carries that on: a frame of the other credential leaves both alone,
one of the same makes the phone doubt. While a commit waits for the card nothing is
staged (`CommitInv`). `WifiInv` gives the states of the
Wi-Fi task in which the link can be up.

**Conversation.** `OneFace` is inductive with the types; `NothingCutOff` is
inductive because the flag is raised only over silence and taken down by the
step that starts a sound. `ExchangeAlwaysEnds` goes through the waits of both
tasks to the one for a press, which nobody fills any more; from then on nothing
is posted, and the next frame drains what is left.

**Liveness.** A theorem of this kind reads

    FairSpec /\ []NeverHeldUp /\ <environment> => <liveness property>

ENABLED is opaque to the provers: `ENABLED <<A>>_vars` is for them a Boolean of
the state and nothing more. `NeverHeldUp` states, for each fair step the argument
uses, that its guard implies that it is enabled. It is a statement about the
module's own definitions; TLC, which computes ENABLED, confirms it when it is
added to the INVARIANTS of the component's cfg, and does so in `conversation`.
The rest is proved: each link of the chain
is an action lemma (what every step keeps, what the fair step brings about), and
the temporal logic puts the links together. So the theorems hold for all values of
the constants for which `NeverHeldUp` does. Leaving out the environment's condition, or turning a strong fairness
into a weak one, makes each proof fail.

* `TrialSettles`, `BadImageAbandoned`: `Calm`, "the upsets end", is the
  environment's part (the run has it from its bound on upsets), with the
  operator's discipline and the answering flash of `ota_operated`. The chain follows the boot:
  check, drain, bring-up, window. A bad image panics in the window, boots with
  its own latch and mark, and the check rolls it back to a whole slot that is
  not on trial.
* `GhostHeals`: `BurstsEnd`, "the channel stops overflowing". Then a heartbeat comes, is the last message of
  the channel, and is reached after as many receives as there are messages: one
  link for each length up to the capacity, hence `InboxCap <= 4`, which is
  `DESKTOP_INBOUND`'s. `PromptReturns` is the same chain for a prompt that stays
  (`ChannelDelivers`, for what the desktop goes on showing): from then on each receive
  brings it up.
* `JoinsTheLast`: once nothing is committed, `reconfig` is taken wherever the
  task is, the credentials are the last ones, and strong fairness of `Joins` ends the loop
  of attempts. `PhoneLearns`: a report is owed until sent (`ReportAlwaysOwed`).
* `PressServed`: every await of the two tasks ends. `ReplyHeard`: the position
  of a reply in the queue falls with every refill, one link for each position up
  to `AUDIO_TX_QUEUE_CAPACITY`.
* `Settles`, `VoiceWakes`, `MoodSettles` and `FaceComesBack` wait for timers of
  arbitrary length. For each there is a measure of the frames left, `FramesLeft`
  in `MindProofs`, `HoldLeft`, `DwellLeft` and `LoudLeft` in `AffectProofs`,
  `FramesHeld` in `ConversationProofs`, and the proof shows, for every n, that
  n frames left lead to fewer: the steps that run it down, those that leave it
  alone, and that none of the environment's wakes it again. That the measure
  therefore reaches 0 is the hypothesis `NoEndlessDescent(<measure>)` (see below);
  what follows then is proved again. `MindProofs` and `AffectProofs` assume
  `[]ENABLED <<Next>>_vars` in place of `NeverHeldUp`: a turn always has an
  outcome, which is what TLC's deadlock check of `mind`, `affect` and `moods`
  shows.

`NoEndlessDescent(left)` says: if `left` is a natural number from now on, and
every positive value of it is followed by a smaller one, it becomes 0. This holds
of every behaviour, whatever `left` stands for, by induction on the natural numbers;
it says nothing of this system, and its two premises are what the proofs supply.
It is a hypothesis and not a lemma because the provers have no induction under
the temporal operators.

**Only model-checked.** ENABLED, that is, `NeverHeldUp` of `Conversation` and the
absence of deadlocks. Taken as hypothesis: `NoEndlessDescent`, for the reason given. Every
other property that a passing run checks, safety and liveness, is stated by a theorem.

## 6. Where code and documentation disagree

Two of them have a run that shows them (see `findings` in `PROJECT.json`): 5,
`mind_startle`, and 16, `wifi_status`. The others were met while modelling; the
models behave as the code does.

1. An unreadable otadata leaves the mark of an older trial, and a fresh image is
   rolled back for the other slot's panic (`ota.rs:230`, against `ota.rs:215`).
   `RollbackOnlyOwnPanic` needs `FlashFaults = FALSE` for that reason.
2. `PUT /settings` persists and reports a volume the amplifier is never told
   (`net/http.rs:891`, against `:829`).
3. A command's ack replaces a permission decision not sent yet
   (`desktop_control.rs:528`, against `ble/desktop.rs:41`). `PromptReturns` is what
   remains of the promise.
4. An attention taken over while the Listening skill listens leaves the
   Listening intent for good (`skills/listening.rs:158`, against `:14`).
5. Petting or handling during a startle disarms it until the next boot
   (`modifiers/intent_from_loud.rs:153`, against `:24`).
6. Two modifier-bound commands in one frame share one slot (`main.rs:493`,
   against the comment at `:454`).
7. A power loss inside the live write leaves a torn `STACKCHAN.RON` although the
   staging file is whole: the boot read does not look at it (against
   `storage.rs:115`). `ConfigRegister` calls this state `exposed`.
8. An update pushed to an image on trial overwrites the only proven one, and
   `ConfirmedMeansProven` then fails (against `ota.rs:151`). `FallbackGivenUp` says
   that nothing else costs the device that image.
9. `factory_reset` deletes by short names only; `STACKCHAN.RON` is no 8.3 name,
   so the configuration survives (against `storage.rs:796`). `Wipe` does the same.
10. Without a card the snapshot stays `None` for the whole run (against
    `storage.rs:83` and `:90`).
11. After an unanswered 200 the update latch is released without a reset
    (against `net/http.rs:2178`). `UpdateUnanswered` is that step.
12. After a disconnection longer than the latch, an answered prompt can be
    answered again (against `desktop_permission.rs:24`).
13. A press during an exchange starts its capture when the exchange is over,
    not at the trigger's edge (`agent_sidecar.rs:472`).
14. The preempting path promotes the queue's head, not the newcomer
    (`audio.rs:378`); unreachable while every utterance is `Normal`.
15. In a quiet room the Listening skill clears an operator's listen attention at
    the end of every frame; the next frame restores it before posing.
16. `GetWifiStatus` and `/state` show a link that is always down: the flag's
    setter, `update_wifi`, has no caller (`ble/server.rs:1452`, against `:1440`
    and `snapshot.rs:251`).
17. "The buffer is reset on a subtype switch" only for fragments
    (`ble/server.rs:634`): an SSID chain that is abandoned, then a whole PSK
    frame, then the SSID in one frame, gives the two SSIDs joined. A chain
    begun again with the same credential is joined to the old one too, and the
    last plain frame of a chain given up for its length counts as a text.
    `Provisioning` does all three; `StagedAsSent` names them as its exceptions.
18. A rejected or ended file does not drop the push back to its default
    (`desktop_control.rs:101`): the folder stays active, across disconnections.
19. A voice respects a live hold, of whatever source (against
    `emotion_from_voice.rs:24`); waking in the light does not clear the
    darkness's own hold and a dark frame does not renew it (against the module
    comment of `emotion_from_ambient.rs`).
20. A tap or an infrared key does not change the intent, and so does not wake
    the avatar from dormancy (against `dormancy_from_activity.rs:19`).
21. Reminders due at once do not fire in their order: `swap_remove` reorders the
    list (`reminders.rs:176`).

## 7. What is not modelled

Parsers and formats (pure, unit-tested), drivers and the radio stack (I/O with
no state that outlives a call), face, dance and motion numerics, the wake-word
and vision inference, the simulator, tools, dashboard, and the Python sidecar,
which `Conversation` has as an environment. Most of the repository's lines are
of this kind: the face detector's cascade alone is a table of 90 000.

* `push-to-talk-and-speech` is partly modelled: the microphone's RMS loop,
  lip-sync hints and the wake-word inference are missing, and `capture_window`
  is assumed to get its frames though it waits without a timeout.
* `ble-provisioning`: advertising, the storage of bonds and the control and
  read-only characteristics are missing. `net-stack`: `wifi.rs` is modelled
  whole; mDNS, SNTP and ESP-NOW are not.
* `core-emotion`: the dormancy, and `EmotionFromRemote`, whose mapping the
  firmware leaves empty.
* The runtime store merges under one critical section and renders inside the
  storage lock, under which nobody waits (`ConfigStore`): the writes are as
  atomic as those of the configuration, for the same reason.
* Reminders and chime are producers of the command queue, whose commands
  `Conversation` already takes from anyone. The sleep slot's stale cache
  (`sleep.rs:91`) costs one touch.
* Display rings, the watchdog's counters and the read-only desktop consumers
  decide nothing.

`PROJECT.json` gives each component with its reason, and for each hazard without
a property why there is none.

## 8. The plan

Done, in this order: OtaTrial (a wrong step bricks the device), ConfigStore with
its abstract register, DesktopPermission, Mind, Conversation, FolderPush, Affect,
Provisioning; theorems of all of them: the invariants and action properties
first, then the refinements, then liveness.

Next, in order of weight:

1. **Servo bus** (`scservo`, `head.rs`): the half-duplex line, the drain of late
   status replies bounded by time, and reads that have nothing to resynchronise
   on when one is cut short.
2. **Reminders and ESP-NOW** as producers in `Conversation`, and the freshness of
   a capture.
3. **Runtime store** as a second file under `store_lock`, and **sleep** with the
   render loop's drain and the stale cache.
