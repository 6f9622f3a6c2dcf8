----------------------------- MODULE ConfigStore -----------------------------
(***************************************************************************)
(* STACKCHAN.RON on the SD card, its copy CONFIG_SNAPSHOT, and the tasks   *)
(* that change a setting: read the snapshot, let go of its lock, write the *)
(* card, take the lock again to install the result, signal the consumer.   *)
(*                                                                         *)
(*   src/crates/stackchan-firmware/src/storage.rs     write_config,        *)
(*                                       with_storage, factory_reset       *)
(*   src/crates/stackchan-firmware/src/audio.rs       persist_volume, _mute*)
(*   src/crates/stackchan-firmware/src/net/http.rs    handle_put_settings, *)
(*                                       persist_behavior_flag, the gate   *)
(*   src/crates/stackchan-firmware/src/ble/server.rs  apply_wifi_credentials*)
(*   src/crates/stackchan-firmware/src/main.rs        the boot read        *)
(*                                                                         *)
(* One cooperative executor runs every task: `cpu` is the task being       *)
(* polled, and it changes hands only where that task's future is pending.  *)
(* Power can go, and a card write fail, between any two steps.             *)
(***************************************************************************)
EXTENDS ConfigData, Integers

CONSTANTS
    Workers,        \* HTTP workers
    Ble,            \* the BLE server task
    Puts,           \* the partial settings that PUT /settings bodies carry
    NoPatch, None,
    Absent, Torn,   \* the states of a file besides a whole Config
    TornWrites,     \* can power or the card fail inside the live write?
    MaxRequests,    \* bound: settings requests accepted
    MaxUpsets       \* bound: power losses and failed card writes

Tasks  == Workers \union {Ble}
Live   == {"wifi", "volume", "muted"}       \* blocks with a signal

Requests ==
    {[kind |-> "put", patch |-> p] : p \in Puts}
        \union {[kind |-> b, patch |-> [c \in {b} |-> v]] : b \in Blocks, v \in Values}

ASSUME PutsAssumption == Puts \subseteq Patches
ASSUME TasksAssumption == Ble \notin Workers /\ None \notin Tasks
ASSUME SentinelAssumption ==
    /\ None \notin Configs \union Values
    /\ {Absent, Torn} \intersect Configs = {}
    /\ Absent # Torn
    /\ NoPatch \notin Requests \union Patches
ASSUME BoundsAssumption ==
    TornWrites \in BOOLEAN /\ MaxRequests \in Nat /\ MaxUpsets \in Nat

VARIABLES
    up,             \* is the firmware past its boot read?
    cpu,            \* the task being polled
    pc, req, base,  \* per task: next step, request, the snapshot it cloned
    snap_lock,      \* holder of the CONFIG_SNAPSHOT mutex
    store_lock,     \* holder of the SHARED_STORAGE mutex
    live, staging,  \* SD: STACKCHAN.RON and STKCFG.NEW
    snapshot,       \* CONFIG_SNAPSHOT; None with no card, as SHARED_STORAGE
    signals,        \* WIFI_RECONFIG, AUDIO_VOLUME_SIGNAL, AUDIO_MUTE_SIGNAL
    applied,        \* what the Wi-Fi task and the amplifier use
    wanted,         \* history: all persisted requests applied in turn
    requests, upsets    \* how much of the two bounds is used

task  == <<cpu, pc, req, base>>
locks == <<snap_lock, store_lock>>
card  == <<live, staging>>
ram   == <<snapshot, signals, applied>>
bounds == <<requests, upsets>>
vars  == <<up, task, locks, card, ram, wanted, bounds>>

(* BLE provisions Wi-Fi and sets volume and mute; HTTP does the rest too.  *)
Serves(t, r) ==
    IF t = Ble THEN r.kind \in Live ELSE r.kind # "wifi"

NewConfig_BodyOnly(t) == req[t].patch
NewConfig(t) == Apply(base[t], req[t].patch)

-----------------------------------------------------------------------------

Booted == IF live \in Configs THEN live ELSE DefaultConfig

Init ==
    /\ up = FALSE
    /\ cpu = None
    /\ pc = [t \in Tasks |-> "idle"]
    /\ req = [t \in Tasks |-> NoPatch]
    /\ base = [t \in Tasks |-> DefaultConfig]
    /\ snap_lock = None
    /\ store_lock = None
    /\ live \in {DefaultConfig, Absent}
    /\ staging = Absent
    /\ snapshot = None
    /\ signals = [b \in Live |-> None]
    /\ applied = [b \in Live |-> DefaultConfig[b]]
    /\ wanted = DefaultConfig
    /\ requests = 0
    /\ upsets = 0

(* main mounts the card and reads it before any task that serves requests; *)
(* without a card it runs on defaults and leaves CONFIG_SNAPSHOT empty.    *)
Boot ==
    /\ ~up
    /\ up' = TRUE
    /\ \/ /\ snapshot' = Booted
          /\ wanted' = Booted
       \/ /\ snapshot' = None
          /\ wanted' = DefaultConfig
    /\ applied' = [b \in Live |-> wanted'[b]]
    /\ UNCHANGED <<task, locks, card, signals, bounds>>

Upset == upsets < MaxUpsets /\ upsets' = upsets + 1

PowerLoss ==
    /\ up
    /\ Upset
    /\ TornWrites \/ live # Torn
    /\ up' = FALSE
    /\ cpu' = None
    /\ pc' = [t \in Tasks |-> "idle"]
    /\ req' = [t \in Tasks |-> NoPatch]
    /\ base' = [t \in Tasks |-> DefaultConfig]
    /\ snap_lock' = None
    /\ store_lock' = None
    /\ snapshot' = None
    /\ signals' = [b \in Live |-> None]
    /\ UNCHANGED <<card, applied, wanted, requests>>

-----------------------------------------------------------------------------
(* The executor.  A task's future is pending where it waits for a socket,  *)
(* or for a mutex some other task holds; anywhere else it keeps the CPU.   *)

Waits(t) ==
    \/ pc[t] = "reply"
    \/ pc[t] \in {"gate", "clone", "install"} /\ snap_lock # None
    \/ pc[t] \in {"open", "wipe"} /\ store_lock # None

Suspend(t) ==
    /\ cpu = t
    /\ Waits(t)
    /\ cpu' = None
    /\ UNCHANGED <<up, pc, req, base, locks, card, ram, wanted, bounds>>

Poll(t) ==
    /\ up
    /\ cpu = None
    /\ pc[t] # "idle"
    /\ cpu' = t
    /\ UNCHANGED <<up, pc, req, base, locks, card, ram, wanted, bounds>>

Goto(t, step) == pc' = [pc EXCEPT ![t] = step]
Runs(t, step) == cpu = t /\ pc[t] = step

Reply(t) ==
    /\ Goto(t, "reply")
    /\ req' = [req EXCEPT ![t] = NoPatch]

Accept(t) ==
    /\ up
    /\ cpu = None
    /\ pc[t] = "idle"
    /\ requests < MaxRequests
    /\ requests' = requests + 1
    /\ cpu' = t
    /\ \E r \in Requests :
        /\ Serves(t, r)
        /\ req' = [req EXCEPT ![t] = r]
        /\ Goto(t, IF t = Ble THEN "clone" ELSE "gate")
    /\ UNCHANGED <<up, base, locks, card, ram, wanted, upsets>>

AcceptWipe(t) ==
    /\ up
    /\ cpu = None
    /\ t \in Workers
    /\ pc[t] = "idle"
    /\ requests < MaxRequests
    /\ requests' = requests + 1
    /\ cpu' = t
    /\ Goto(t, "gate")
    /\ UNCHANGED <<up, req, base, locks, card, ram, wanted, upsets>>

Finish(t) ==
    /\ Runs(t, "reply")
    /\ cpu' = None
    /\ Goto(t, "idle")
    /\ UNCHANGED <<up, req, base, locks, card, ram, wanted, bounds>>

-----------------------------------------------------------------------------
(* The bearer-token gate reads the snapshot under its lock and drops it.   *)

GateLock(t) ==
    /\ Runs(t, "gate")
    /\ snap_lock = None
    /\ snap_lock' = t
    /\ Goto(t, "gated")
    /\ UNCHANGED <<up, cpu, req, base, store_lock, card, ram, wanted, bounds>>

GateDrop(t) ==
    /\ Runs(t, "gated")
    /\ snap_lock' = None
    /\ Goto(t, IF req[t] = NoPatch THEN "wipe" ELSE "clone")
    /\ UNCHANGED <<up, cpu, req, base, store_lock, card, ram, wanted, bounds>>

(* PUT merges with defaults where there is no snapshot; the others stop.   *)
Clone(t) ==
    /\ Runs(t, "clone")
    /\ snap_lock = None
    /\ IF snapshot = None /\ req[t].kind # "put"
       THEN Reply(t) /\ UNCHANGED base
       ELSE /\ base' = [base EXCEPT ![t] = IF snapshot = None THEN DefaultConfig ELSE snapshot]
            /\ Goto(t, "open")
            /\ UNCHANGED req
    /\ UNCHANGED <<up, cpu, locks, card, ram, wanted, bounds>>

-----------------------------------------------------------------------------
(* with_storage(write_config): the closure runs under the storage lock.    *)

NoStorage(t) ==
    /\ Runs(t, "open")
    /\ snapshot = None
    /\ Reply(t)
    /\ UNCHANGED <<up, cpu, base, locks, card, ram, wanted, bounds>>

OpenStaging(t) ==
    /\ Runs(t, "open")
    /\ snapshot # None
    /\ store_lock = None
    /\ store_lock' = t
    /\ staging' = Torn
    /\ Goto(t, "stage")
    /\ UNCHANGED <<up, cpu, req, base, snap_lock, live, ram, wanted, bounds>>

Stage(t, keeps) ==
    /\ Runs(t, "stage")
    /\ staging' = NewConfig(t)
    /\ cpu' = keeps
    /\ Goto(t, "truncate")
    /\ UNCHANGED <<up, req, base, locks, live, ram, wanted, bounds>>

WriteStaging_Waits(t) == Stage(t, None)     \* a card driver that awaits
WriteStaging(t) == Stage(t, t)

(* embedded-sdmmc cannot create a long name: no STACKCHAN.RON, no write.   *)
LookupFails(t) ==
    /\ Runs(t, "truncate")
    /\ live = Absent
    /\ store_lock' = None
    /\ Reply(t)
    /\ UNCHANGED <<up, cpu, base, snap_lock, card, ram, wanted, bounds>>

Truncate(t, step) ==
    /\ Runs(t, step)
    /\ live # Absent
    /\ live' = Torn
    /\ Goto(t, "write")
    /\ UNCHANGED <<up, cpu, req, base, locks, staging, ram, wanted, bounds>>

TruncateLive(t) == Truncate(t, "truncate")

WriteLive(t) ==
    /\ Runs(t, "write")
    /\ live' = NewConfig(t)
    /\ wanted' = Apply(wanted, req[t].patch)
    /\ Goto(t, "cleanup")
    /\ UNCHANGED <<up, cpu, req, base, locks, staging, ram, bounds>>

DeleteStaging(t) ==
    /\ Runs(t, "cleanup")
    /\ staging' = Absent
    /\ store_lock' = None
    /\ Goto(t, "install")
    /\ UNCHANGED <<up, cpu, req, base, snap_lock, live, ram, wanted, bounds>>

(* write or flush failed, on either file: StorageError::Write, 500.        *)
WriteFails(t) ==
    /\ \/ Runs(t, "stage")
       \/ Runs(t, "write") /\ TornWrites
    /\ Upset
    /\ store_lock' = None
    /\ Reply(t)
    /\ UNCHANGED <<up, cpu, base, snap_lock, card, ram, wanted, requests>>

(* Who hears of the new settings besides the snapshot.                     *)
Signalled_PutSilent(t) == {req[t].kind} \intersect Live
Signalled(t) ==
    IF req[t].kind = "put"
    THEN {b \in {"wifi"} : NewConfig(t)[b] # base[t][b]}
    ELSE {req[t].kind} \intersect Live

Installed(t) == NewConfig(t)

Install(t) ==
    /\ Runs(t, "install")
    /\ snap_lock = None
    /\ snapshot' = Installed(t)
    /\ signals' = [b \in Live |-> IF b \in Signalled(t) THEN NewConfig(t)[b]
                                                        ELSE signals[b]]
    /\ Reply(t)
    /\ UNCHANGED <<up, cpu, base, locks, card, applied, wanted, bounds>>

(* factory_reset deletes by short name only, and STACKCHAN.RON is not one: *)
(* the staging file goes, the configuration stays, the reply is a 500.     *)
Wipe(t) ==
    /\ Runs(t, "wipe")
    /\ store_lock = None
    /\ staging' = IF snapshot = None THEN staging ELSE Absent
    /\ Reply(t)
    /\ UNCHANGED <<up, cpu, base, locks, live, ram, wanted, bounds>>

-----------------------------------------------------------------------------
(* wifi_task and the amplifier loop take what was signalled.               *)
Consume(b) ==
    /\ up
    /\ cpu = None
    /\ signals[b] # None
    /\ applied' = [applied EXCEPT ![b] = signals[b]]
    /\ signals' = [signals EXCEPT ![b] = None]
    /\ UNCHANGED <<up, task, locks, card, snapshot, wanted, bounds>>

Serve(t) ==
    \/ Accept(t) \/ AcceptWipe(t) \/ Suspend(t) \/ Poll(t) \/ Finish(t)
    \/ GateLock(t) \/ GateDrop(t) \/ Clone(t)
    \/ NoStorage(t) \/ OpenStaging(t) \/ WriteStaging(t) \/ LookupFails(t)
    \/ TruncateLive(t) \/ WriteLive(t) \/ DeleteStaging(t) \/ WriteFails(t)
    \/ Install(t) \/ Wipe(t)

Next ==
    \/ Boot
    \/ PowerLoss
    \/ \E t \in Tasks : Serve(t)
    \/ \E b \in Live : Consume(b)

Spec == Init /\ [][Next]_vars

-----------------------------------------------------------------------------

Steps == {"idle", "gate", "gated", "clone", "open", "stage", "truncate",
          "write", "cleanup", "install", "reply", "wipe"}

TypeOK ==
    /\ up \in BOOLEAN
    /\ cpu \in Tasks \union {None}
    /\ pc \in [Tasks -> Steps]
    /\ req \in [Tasks -> Requests \union {NoPatch}]
    /\ base \in [Tasks -> Configs]
    /\ snap_lock \in Tasks \union {None}
    /\ store_lock \in Tasks \union {None}
    /\ live \in Configs \union {Absent, Torn}
    /\ staging \in Configs \union {Absent, Torn}
    /\ snapshot \in Configs \union {None}
    /\ signals \in [Live -> Values \union {None}]
    /\ applied \in [Live -> Values]
    /\ wanted \in Configs
    /\ requests \in 0 .. MaxRequests
    /\ upsets \in 0 .. MaxUpsets

Quiet == up /\ cpu = None       \* between two polls

(* Whenever another task can look, CONFIG_SNAPSHOT is every persisted      *)
(* request applied in turn to what was booted: although each handler lets  *)
(* go of the snapshot before its card write, no update is lost.            *)
NoLostUpdate == Quiet /\ snapshot # None => snapshot = wanted

(* GET /settings never shows a configuration other than the readable one   *)
(* on the card.                                                            *)
SnapshotOnCard ==
    Quiet /\ snapshot # None /\ live \in Configs => snapshot = live

(* The live file is truncated only while STKCFG.NEW holds, whole, what is  *)
(* about to be written over it.                                            *)
StagedBeforeClobbered ==
    [][live # Torn /\ live' = Torn =>
        \E t \in Tasks : cpu = t /\ req[t] # NoPatch /\ staging = NewConfig(t)]_vars

(* Once it has taken what was signalled, the Wi-Fi task uses the           *)
(* credentials GET /settings reports.                                      *)
WifiFollowsSettings ==
    Quiet /\ snapshot # None /\ signals["wifi"] = None =>
        applied["wifi"] = snapshot["wifi"]

(* Seen from outside, file and snapshot are one atomic register, exposed   *)
(* to a power loss only from write_config's truncation to its next write.  *)
Value == IF snapshot # None THEN snapshot ELSE Booted

Register == INSTANCE ConfigRegister WITH
    Clients <- Tasks,
    value   <- Value,
    exposed <- live = Torn,
    pending <- [t \in Tasks |-> IF req[t] = NoPatch THEN NoPatch ELSE req[t].patch]

AtomicRegister == Register!Spec
=============================================================================
