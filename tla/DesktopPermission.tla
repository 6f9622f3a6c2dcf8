-------------------------- MODULE DesktopPermission --------------------------
(***************************************************************************)
(* The permission prompt: a desktop asks over BLE, the operator answers    *)
(* with two taps on the back of the head.                                  *)
(*                                                                         *)
(*   src/crates/stackchan-firmware/src/desktop_permission.rs  the task     *)
(*   src/crates/stackchan-firmware/src/ble/desktop.rs         the channels *)
(*   src/crates/stackchan-firmware/src/ble/server.rs          the BLE loop *)
(*                                                                         *)
(* Time is discrete: one Tick stands for a stretch of 50 ms polls in which *)
(* the touch sensor changed once.  The desktop and the link are external:  *)
(* each prompt has an id of its own, heartbeats repeat it, an answer       *)
(* withdraws it; Delay bounds how long a reply or a withdrawal takes.      *)
(***************************************************************************)
EXTENDS Integers, Sequences

CONSTANTS
    None,
    Command,        \* an inbound message that is no snapshot
    Ack,            \* an outbound message that is no decision
    Touches,        \* what the touch sensor can report: sets of zones
    TapWindow,      \* TAP_TWICE_WINDOW_MS, in ticks
    Latch,          \* DECISION_LATCH_MS, in ticks
    Delay,          \* longest wait of a reply on its way, of a withdrawal
    InboxCap,       \* capacity of DESKTOP_INBOUND (4)
    MaxPrompts,     \* bound: prompts the desktop raises
    MaxDrops,       \* bound: disconnections
    MaxBursts       \* bound: bursts of commands

Zones == {"left", "centre", "right"}

ASSUME TouchesAssumption == Touches \subseteq SUBSET Zones
ASSUME TimesAssumption ==
    TapWindow \in Nat \ {0} /\ Latch \in Nat \ {0} /\ Delay \in Nat
ASSUME BoundsAssumption ==
    InboxCap \in Nat \ {0} /\ {MaxPrompts, MaxDrops, MaxBursts} \subseteq Nat
ASSUME SentinelsAssumption ==
    /\ {None, Command, Ack} \intersect Nat = {}
    /\ None # Command /\ None # Ack /\ None \notin Zones
    /\ None \notin [zones : SUBSET Zones, age : Nat] \union [id : Nat, age : Nat]

Ids   == 1 .. MaxPrompts

VARIABLES
    active, armed, decided, held,   \* State in desktop_permission.rs
    inbox,          \* DESKTOP_INBOUND, as its subscriber sees it
    outbound,       \* DESKTOP_OUTBOUND, and how long it has waited
    connected,
    prompt,         \* desktop: the prompt it shows
    told,           \* desktop: its prompt as last published
    owed,           \* desktop: age of a withdrawal it has not published
    raised, drops, bursts,  \* how much of each bound is used
    last_tap,       \* history: this prompt's last release event, and its age
    answers         \* history: decisions the desktop received for each id

state   == <<active, armed, decided, held>>
desktop == <<prompt, told, owed>>
bounds  == <<raised, drops, bursts>>
history == <<last_tap, answers>>
vars == <<state, inbox, outbound, connected, desktop, bounds, history>>

Init ==
    /\ active = None /\ armed = None /\ decided = None /\ held = {}
    /\ inbox = <<>>
    /\ outbound = None
    /\ connected = FALSE
    /\ prompt = None /\ told = None /\ owed = None
    /\ raised = 0 /\ drops = 0 /\ bursts = 0
    /\ last_tap = None
    /\ answers = [i \in Ids |-> 0]

-----------------------------------------------------------------------------
(* on_snapshot, for the prompt id a snapshot carries.                      *)

Notify(id) ==
    /\ active' = id
    /\ armed' = None
    /\ last_tap' = None

Withdraw_Ignored == UNCHANGED <<active, armed, last_tap>>
Withdraw ==
    /\ active' = None
    /\ armed' = None
    /\ last_tap' = None

Replaced_Kept(id) == active = None
Replaced(id) == id # active

OnSnapshot(id) ==
    \/ id # None /\ Replaced(id) /\ Notify(id)
    \/ id = None /\ active # None /\ Withdraw
    \/ id # None /\ ~Replaced(id) /\ UNCHANGED <<active, armed, last_tap>>
    \/ id = None /\ active = None /\ UNCHANGED <<active, armed, last_tap>>

Receive ==
    /\ inbox # <<>>
    /\ inbox' = Tail(inbox)
    /\ IF Head(inbox) = Command
       THEN UNCHANGED <<active, armed, last_tap>>
       ELSE OnSnapshot(Head(inbox))
    /\ UNCHANGED <<decided, held, outbound, connected, desktop, bounds, answers>>

-----------------------------------------------------------------------------
(* on_tick.  Timers age first, and an entry that reached its limit is gone.*)

LastOf(s, n) == IF Len(s) <= n THEN s ELSE SubSeq(s, Len(s) - n + 1, Len(s))

Aged(x, limit) ==
    IF x = None \/ x.age + 1 >= limit THEN None ELSE [x EXCEPT !.age = @ + 1]

Armed   == Aged(armed, TapWindow)
Decided == Aged(decided, Latch)

Later(x, limit) == IF x = None THEN None ELSE [x EXCEPT !.age = IF @ < limit THEN @ + 1 ELSE @]

(* select polls the subscriber first: a tick finds the inbox read.  While  *)
(* the link is up it keeps its delays: no tick passes them by.             *)
Timely ==
    /\ inbox = <<>>
    /\ connected =>
        /\ outbound # None => outbound.age < Delay
        /\ owed # None => owed < Delay

Released(touched) == held \ touched

(* What every tick does besides the gesture.                               *)
Poll(touched) ==
    /\ Timely
    /\ held' = touched
    /\ owed' = IF owed = None \/ owed = Delay THEN owed ELSE owed + 1
    /\ last_tap' = IF active # None /\ Released(touched) # {}
                   THEN [zones |-> Released(touched), age |-> 0]
                   ELSE IF active = None THEN None ELSE Later(last_tap, TapWindow)
    /\ UNCHANGED <<inbox, connected, prompt, told, bounds, answers>>

(* Left is looked at before right; centre matters while something is armed.*)
Cancelled(touched) == "centre" \in Released(touched) /\ Armed # None

Tapped(touched) ==
    IF active = None \/ Cancelled(touched) THEN None
    ELSE IF "left" \in Released(touched) THEN "left"
    ELSE IF "right" \in Released(touched) THEN "right"
    ELSE None

TickQuiet ==
    \E touched \in Touches :
        /\ Tapped(touched) = None
        /\ armed' = IF active # None /\ Cancelled(touched) THEN None ELSE Armed
        /\ decided' = Decided
        /\ outbound' = Later(outbound, Delay)
        /\ Poll(touched)
        /\ UNCHANGED active

SameZone_Any(zone) == TRUE
SameZone(zone) == Armed.zone = zone
Confirms(zone) == Armed # None /\ SameZone(zone)

TickArm ==
    \E touched \in Touches :
        LET zone == Tapped(touched) IN
        /\ zone # None
        /\ ~Confirms(zone)
        /\ armed' = [zone |-> zone, age |-> 0]
        /\ decided' = Decided
        /\ outbound' = Later(outbound, Delay)
        /\ Poll(touched)
        /\ UNCHANGED active

Suppressed_Never == FALSE
Suppressed == Decided # None /\ Decided.id = active

(* commit: a repeat within the latch is dropped, and leaves the tap armed. *)
TickSuppressed ==
    \E touched \in Touches :
        LET zone == Tapped(touched) IN
        /\ zone # None
        /\ Confirms(zone)
        /\ Suppressed
        /\ armed' = Armed
        /\ decided' = Decided
        /\ outbound' = Later(outbound, Delay)
        /\ Poll(touched)
        /\ UNCHANGED active

TickCommit ==
    \E touched \in Touches :
        LET zone == Tapped(touched) IN
        /\ zone # None
        /\ Confirms(zone)
        /\ ~Suppressed
        /\ outbound' = [id |-> active, zone |-> zone, age |-> 0]
        /\ decided' = [id |-> active, age |-> 0]
        /\ active' = None
        /\ armed' = None
        /\ Poll(touched)

-----------------------------------------------------------------------------
(* The BLE loop and the tasks that share DESKTOP_OUTBOUND.                 *)

(* desktop_control acknowledges commands through the same single slot.     *)
Acknowledge ==
    /\ connected
    /\ outbound' = [id |-> Ack, zone |-> Ack, age |-> 0]
    /\ UNCHANGED <<state, inbox, connected, desktop, bounds, history>>

(* notify_desktop_outbound: the slot is emptied, the desktop gets it.      *)
Send ==
    /\ connected
    /\ outbound # None
    /\ outbound' = None
    /\ \/ outbound.id = Ack /\ UNCHANGED <<answers, prompt, owed>>
       \/ UNCHANGED <<answers, prompt, owed>>         \* the notification failed
       \/ /\ outbound.id # Ack
          /\ answers' = [answers EXCEPT ![outbound.id] = @ + 1]
          /\ prompt' = IF outbound.id = prompt THEN None ELSE prompt
          /\ owed' = IF outbound.id = prompt THEN 0 ELSE owed
    /\ UNCHANGED <<state, inbox, connected, told, bounds, last_tap>>

(* gatt_events_task starts with an empty slot.                             *)
Connect ==
    /\ ~connected
    /\ connected' = TRUE
    /\ outbound' = None
    /\ owed' = IF owed = None THEN None ELSE 0
    /\ UNCHANGED <<state, inbox, prompt, told, bounds, history>>

Disconnect ==
    /\ connected
    /\ drops < MaxDrops
    /\ drops' = drops + 1
    /\ connected' = FALSE
    /\ UNCHANGED <<state, inbox, outbound, desktop, raised, bursts, history>>

-----------------------------------------------------------------------------
(* The desktop.                                                            *)

Raise ==
    /\ prompt = None
    /\ owed = None
    /\ raised < MaxPrompts
    /\ raised' = raised + 1
    /\ prompt' = raised + 1
    /\ UNCHANGED <<state, inbox, outbound, connected, told, owed, drops, bursts, history>>

(* Answered in the desktop's own window, or timed out there.               *)
Settle ==
    /\ prompt # None
    /\ prompt' = None
    /\ owed' = 0
    /\ UNCHANGED <<state, inbox, outbound, connected, told, bounds, history>>

(* A full channel drops the oldest message a subscriber has not read.      *)
Publish(messages) == inbox' = LastOf(inbox \o messages, InboxCap)

Heartbeat ==
    /\ connected
    /\ Publish(<<prompt>>)
    /\ told' = prompt
    /\ owed' = None
    /\ UNCHANGED <<state, outbound, connected, prompt, bounds, history>>

Burst ==
    /\ connected
    /\ bursts < MaxBursts
    /\ bursts' = bursts + 1
    /\ Publish([n \in 1 .. InboxCap |-> Command])
    /\ UNCHANGED <<state, outbound, connected, desktop, raised, drops, history>>

Tick == TickQuiet \/ TickArm \/ TickSuppressed \/ TickCommit
Link == Acknowledge \/ Send \/ Connect \/ Disconnect
Desktop == Raise \/ Settle \/ Heartbeat \/ Burst

Next == Receive \/ Tick \/ Link \/ Desktop

Spec == Init /\ [][Next]_vars

(* The task reads its messages; the link comes back; heartbeats go on.     *)
FairSpec ==
    Spec /\ WF_vars(Receive) /\ WF_vars(Connect) /\ SF_vars(Heartbeat)

-----------------------------------------------------------------------------

(* The values the task, the channels and the desktop work with.            *)
TypeOK ==
    /\ active \in Ids \union {None}
    /\ armed \in [zone : {"left", "right"}, age : 0 .. TapWindow - 1] \union {None}
    /\ decided \in [id : Ids, age : 0 .. Latch - 1] \union {None}
    /\ held \subseteq Zones
    /\ Len(inbox) <= InboxCap
    /\ outbound = None \/ outbound.id \in Ids \union {Ack}
    /\ connected \in BOOLEAN
    /\ {prompt, told} \subseteq Ids \union {None}
    /\ owed \in 0 .. Delay \union {None}

Commits == outbound' # None /\ outbound'.id \in Ids /\ outbound'.age = 0
           /\ decided' # None /\ decided'.age = 0 /\ decided' # decided

(* A decision takes two taps in a row on the zone that gives it, both      *)
(* while this very prompt was up and less than the window apart: no brush, *)
(* cancelled gesture or tap at an earlier prompt counts (handle_zone_tap). *)
TwoTapsDecide ==
    [][Commits => /\ outbound'.zone \in held \ held'
                  /\ "centre" \notin held \ held'
                  /\ last_tap # None
                  /\ outbound'.zone \in last_tap.zones
                  /\ last_tap.age + 1 < TapWindow]_vars

(* The desktop never gets two decisions for one prompt: the latch of       *)
(* commit outlives a late reply and a late withdrawal together, as long as *)
(* the link never dropped and the inbox never overflowed.                  *)
AnsweredOnce == drops = 0 /\ bursts = 0 => \A i \in Ids : answers[i] <= 1

(* Once the task has read its messages it shows what the desktop told it   *)
(* last, or nothing if it has answered that, unless a message was lost.    *)
NoGhostPrompt == bursts = 0 /\ inbox = <<>> /\ active # None => active = told

(* The hypothesis under which the liveness theorems are proved: each fair  *)
(* step can happen where its guards let it.  It says nothing of the code;  *)
(* it spells out ENABLED, which the provers cannot evaluate.               *)
NeverHeldUp ==
    /\ inbox # <<>> => ENABLED <<Receive>>_vars
    /\ ~connected => ENABLED <<Connect>>_vars
    /\ connected /\ inbox = <<>> => ENABLED <<Heartbeat>>_vars

(* Commands do not go on overflowing the channel for ever, which would let *)
(* no heartbeat through.  MaxBursts sees to it in the run.                 *)
BurstsEnd == <>[][~Burst]_vars

(* However many messages a burst pushes out, a prompt that is gone for     *)
(* good disappears from the device.                                        *)
GhostHeals == <>[](prompt = None) => <>[](active = None)

(* A decision that an acknowledgement replaced in the single outbound slot *)
(* (ack, desktop_control.rs:527) or that the link lost is sent by nobody   *)
(* again.  What recovers it: a prompt that stays up on the desktop is back *)
(* on the device again and again, through disconnections, overflow and the *)
(* operator's own taps, so that it can be decided once more.               *)
PromptReturns == \A i \in Ids : <>[](prompt = i) => []<>(active = i)

=============================================================================
