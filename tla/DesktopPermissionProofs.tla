---------------------- MODULE DesktopPermissionProofs ----------------------
(***************************************************************************)
(* Proofs about DesktopPermission, for every number of prompts, touch      *)
(* pattern, window and capacity of the channel.                            *)
(***************************************************************************)
EXTENDS DesktopPermission, SequenceTheorems, TLAPS

Items   == Ids \union {None, Command}
Replies == [id : Ids \union {Ack}, zone : Zones \union {Ack}, age : 0 .. Delay]

(* TypeOK says of the channel and the replies what TLC needs to be told;   *)
(* induction needs their elements and the counters too.                    *)
Types ==
    /\ TypeOK
    /\ inbox \in Seq(Items)
    /\ outbound \in Replies \union {None}
    /\ raised \in 0 .. MaxPrompts
    /\ drops \in Nat /\ bursts \in Nat
    /\ answers \in [Ids -> Nat]

LEMMA Times ==
    /\ TapWindow \in Nat /\ TapWindow > 0
    /\ Latch \in Nat /\ Latch > 0
    /\ Delay \in Nat
    /\ InboxCap \in Nat /\ InboxCap > 0
    /\ MaxPrompts \in Nat
  BY TimesAssumption, BoundsAssumption

LEMMA Sentinels == None \notin Ids /\ Ack \notin Ids /\ Command \notin Ids /\ None \notin Nat
  BY SentinelsAssumption, Times DEF Ids

LEMMA NoLength == Len(<<>>) = 0
  BY EmptySeq

(* What is left of a sequence that a full channel cuts ends as it did.     *)
LEMMA LastOfKept ==
    ASSUME NEW S, NEW s \in Seq(S), s # <<>>, NEW n \in Nat, n > 0
    PROVE  /\ LastOf(s, n) \in Seq(S)
           /\ Len(LastOf(s, n)) <= n
           /\ LastOf(s, n) # <<>>
           /\ LastOf(s, n)[Len(LastOf(s, n))] = s[Len(s)]
<1>1. Len(s) \in Nat /\ Len(s) > 0 /\ \A i \in 1 .. Len(s) : s[i] \in S
  BY LenProperties, EmptySeq, ElementOfSeq
<1>2. CASE Len(s) <= n
  BY <1>1, <1>2 DEF LastOf
<1>3. CASE ~(Len(s) <= n)
  <2> DEFINE t == SubSeq(s, Len(s) - n + 1, Len(s))
  <2>1. Len(s) - n + 1 \in Int /\ \A i \in Len(s) - n + 1 .. Len(s) : s[i] \in S
    BY <1>1, <1>3
  <2>2. /\ t \in Seq(S) /\ Len(t) = n
        /\ \A i \in 1 .. n : t[i] = s[Len(s) - n + 1 + i - 1]
    BY <2>1, <1>1, <1>3, SubSeqProperties
  <2>3. t[n] = s[Len(s)]
    BY <2>2, <1>1, <1>3
  <2>4. t # <<>>
    <3> HIDE DEF t
    <3> QED  BY <2>2, NoLength
  <2> QED
    BY <2>2, <2>3, <2>4, <1>3 DEF LastOf
<1> QED
  BY <1>2, <1>3

(* What a heartbeat or a burst leaves in the channel.                      *)
LEMMA PublishedOne ==
    ASSUME inbox \in Seq(Items), NEW m \in Items, inbox' = LastOf(inbox \o <<m>>, InboxCap)
    PROVE  /\ inbox' \in Seq(Items) /\ Len(inbox') <= InboxCap
           /\ inbox' # <<>> /\ inbox'[Len(inbox')] = m
<1>1. <<m>> \in Seq(Items) /\ Len(<<m>>) = 1
  OBVIOUS
<1>2. /\ inbox \o <<m>> \in Seq(Items)
      /\ Len(inbox \o <<m>>) = Len(inbox) + 1
      /\ Len(inbox) \in Nat
  BY <1>1, ConcatProperties, LenProperties
<1>3. (inbox \o <<m>>)[Len(inbox) + 1] = m
  BY <1>1, <1>2
<1>4. inbox \o <<m>> # <<>>
  BY <1>2, NoLength
<1> QED
  BY <1>2, <1>3, <1>4, LastOfKept, Times

LEMMA PublishedBurst ==
    ASSUME inbox \in Seq(Items),
           inbox' = LastOf(inbox \o [n \in 1 .. InboxCap |-> Command], InboxCap)
    PROVE  inbox' \in Seq(Items) /\ Len(inbox') <= InboxCap
<1> DEFINE b == [n \in 1 .. InboxCap |-> Command]
<1>1. b \in Seq(Items) /\ Len(b) = InboxCap
  BY Times DEF Items
<1>2. /\ inbox \o b \in Seq(Items)
      /\ Len(inbox \o b) = Len(inbox) + InboxCap
      /\ Len(inbox) \in Nat
  BY <1>1, ConcatProperties, LenProperties
<1>3. inbox \o b # <<>>
  BY <1>2, NoLength, Times
<1> QED
  BY <1>2, <1>3, LastOfKept, Times

(* What a receive leaves.                                                  *)
LEMMA Received ==
    ASSUME inbox \in Seq(Items), inbox # <<>>, inbox' = Tail(inbox)
    PROVE  /\ Head(inbox) \in Items /\ inbox' \in Seq(Items)
           /\ Len(inbox') = Len(inbox) - 1 /\ Len(inbox) \in Nat
           /\ inbox' = <<>> => Head(inbox) = inbox[Len(inbox)]
           /\ inbox' # <<>> => inbox'[Len(inbox')] = inbox[Len(inbox)]
<1>1. /\ Head(inbox) \in Items /\ inbox' \in Seq(Items)
      /\ Len(inbox') = Len(inbox) - 1
      /\ \A i \in 1 .. Len(inbox') : inbox'[i] = inbox[i + 1]
  BY HeadTailProperties
<1>2. Len(inbox) \in Nat /\ Len(inbox) > 0 /\ Len(inbox') \in Nat
  BY <1>1, LenProperties, EmptySeq
<1>3. Head(inbox) = inbox[1]
  OBVIOUS
<1>4. inbox' = <<>> => Len(inbox) = 1
  <2>1. inbox' = <<>> => Len(inbox') = 0
    BY NoLength, Zenon
  <2> QED
    BY <2>1, <1>1, <1>2
<1>5. inbox' # <<>> => Len(inbox') > 0
  BY <1>1, <1>2, EmptySeq
<1> QED
  BY <1>1, <1>2, <1>3, <1>4, <1>5

(* What a timer is after a tick.                                           *)
LEMMA ArmedLater ==
    ASSUME armed \in [zone : {"left", "right"}, age : 0 .. TapWindow - 1] \union {None}
    PROVE  /\ Armed \in [zone : {"left", "right"}, age : 0 .. TapWindow - 1] \union {None}
           /\ Armed # None => /\ armed # None
                              /\ Armed.zone = armed.zone
                              /\ Armed.age = armed.age + 1
                              /\ Armed.age < TapWindow
<1>1. CASE Armed = None
  BY <1>1
<1>2. CASE Armed # None
  <2>1. armed # None /\ armed.age + 1 < TapWindow /\ armed.age \in Nat
    BY <1>2, Times DEF Armed, Aged
  <2>2. Armed = [armed EXCEPT !.age = @ + 1]
    BY <1>2 DEF Armed, Aged
  <2> QED
    BY <2>1, <2>2, Times
<1> QED
  BY <1>1, <1>2

LEMMA DecidedLater ==
    ASSUME decided \in [id : Ids, age : 0 .. Latch - 1] \union {None}
    PROVE  /\ Decided \in [id : Ids, age : 0 .. Latch - 1] \union {None}
           /\ Decided # None => decided # None /\ Decided.age = decided.age + 1
           /\ decided # None /\ decided.age + 1 < Latch =>
                  /\ Decided # None
                  /\ Decided.id = decided.id
                  /\ Decided.age = decided.age + 1
<1>1. CASE decided = None \/ decided.age + 1 >= Latch
  <2>1. Decided = None
    BY <1>1 DEF Decided, Aged
  <2>2. decided # None => decided.age \in Nat
    BY Times
  <2> QED
    BY <1>1, <2>1, <2>2, Times
<1>2. CASE ~(decided = None \/ decided.age + 1 >= Latch)
  <2>1. decided # None /\ decided.age + 1 < Latch /\ decided.age \in Nat /\ decided.id \in Ids
    BY <1>2, Times
  <2>2. Decided = [decided EXCEPT !.age = @ + 1]
    BY <1>2 DEF Decided, Aged
  <2>3. Decided \in [id : Ids, age : 0 .. Latch - 1] /\ Decided.id = decided.id
        /\ Decided.age = decided.age + 1
    BY <2>1, <2>2, Times
  <2>4. Decided # None
    BY <2>3, SentinelsAssumption, Times DEF Ids
  <2> QED
    BY <2>1, <2>3, <2>4
<1> QED
  BY <1>1, <1>2

LEMMA ReplyLater ==
    ASSUME outbound \in Replies \union {None},
           outbound' = Later(outbound, Delay)
    PROVE  /\ outbound' \in Replies \union {None}
           /\ outbound # None => outbound'.id = outbound.id
           /\ outbound = None => outbound' = None
           /\ outbound # None /\ outbound.age < Delay => outbound'.age = outbound.age + 1
<1>1. CASE outbound = None
  BY <1>1 DEF Later
<1>2. CASE outbound # None
  <2>1. outbound \in Replies /\ outbound.age \in 0 .. Delay
    BY <1>2 DEF Replies
  <2>2. outbound' = [outbound EXCEPT !.age = IF outbound.age < Delay THEN outbound.age + 1
                                             ELSE outbound.age]
    BY <1>2 DEF Later
  <2>3. (IF outbound.age < Delay THEN outbound.age + 1 ELSE outbound.age) \in 0 .. Delay
    BY <2>1, Times
  <2> QED
    BY <1>2, <2>1, <2>2, <2>3 DEF Replies
<1> QED
  BY <1>1, <1>2

LEMMA TapZones ==
    ASSUME NEW touched \in Touches
    PROVE  /\ Tapped(touched) \in {"left", "right", None}
           /\ Tapped(touched) # None =>
                  /\ active # None
                  /\ Tapped(touched) \in Released(touched)
                  /\ ~Cancelled(touched)
  BY DEF Tapped

-----------------------------------------------------------------------------
(* The types are inductive.                                                *)
LEMMA InitTypes == Init => Types
<1> SUFFICES ASSUME Init PROVE Types
  OBVIOUS
<1>1. inbox \in Seq(Items) /\ Len(inbox) <= InboxCap
  BY NoLength, Times DEF Init
<1>2. answers \in [Ids -> Nat] /\ 0 \in 0 .. MaxPrompts
  BY Times DEF Init
<1> QED
  BY <1>1, <1>2 DEF Init, Types, TypeOK

(* What Poll touches.                                                      *)
LEMMA PollTypes ==
    ASSUME Types, NEW touched \in Touches, Poll(touched)
    PROVE  /\ held' \subseteq Zones
           /\ owed' \in 0 .. Delay \union {None}
           /\ inbox' \in Seq(Items) /\ Len(inbox') <= InboxCap
           /\ connected' \in BOOLEAN
           /\ {prompt, told}' \subseteq Ids \union {None}
           /\ raised' \in 0 .. MaxPrompts /\ drops' \in Nat /\ bursts' \in Nat
           /\ answers' \in [Ids -> Nat]
<1>1. held' \subseteq Zones
  BY TouchesAssumption DEF Poll
<1>2. owed' \in 0 .. Delay \union {None}
  BY Times, Sentinels DEF Poll, Types, TypeOK
<1> QED
  BY <1>1, <1>2 DEF Poll, bounds, Types, TypeOK

LEMMA TickTypes ==
    ASSUME Types, Tick
    PROVE  Types'
<1> USE Times DEF Types, TypeOK
<1>1. CASE TickQuiet
  <2>1. PICK touched \in Touches :
            /\ armed' = IF active # None /\ Cancelled(touched) THEN None ELSE Armed
            /\ decided' = Decided
            /\ outbound' = Later(outbound, Delay)
            /\ Poll(touched)
            /\ active' = active
    BY <1>1 DEF TickQuiet
  <2>2. /\ armed' \in [zone : {"left", "right"}, age : 0 .. TapWindow - 1] \union {None}
        /\ decided' \in [id : Ids, age : 0 .. Latch - 1] \union {None}
    BY <2>1, ArmedLater, DecidedLater
  <2>3. outbound' \in Replies \union {None}
    BY <2>1, ReplyLater
  <2> QED
    BY <2>1, <2>2, <2>3, PollTypes DEF Replies
<1>2. CASE TickArm
  <2>1. PICK touched \in Touches :
            /\ Tapped(touched) # None
            /\ armed' = [zone |-> Tapped(touched), age |-> 0]
            /\ decided' = Decided
            /\ outbound' = Later(outbound, Delay)
            /\ Poll(touched)
            /\ active' = active
    BY <1>2 DEF TickArm
  <2>2. /\ armed' \in [zone : {"left", "right"}, age : 0 .. TapWindow - 1]
        /\ decided' \in [id : Ids, age : 0 .. Latch - 1] \union {None}
    BY <2>1, TapZones, DecidedLater
  <2>3. outbound' \in Replies \union {None}
    BY <2>1, ReplyLater
  <2> QED
    BY <2>1, <2>2, <2>3, PollTypes DEF Replies
<1>3. CASE TickSuppressed
  <2>1. PICK touched \in Touches :
            /\ armed' = Armed
            /\ decided' = Decided
            /\ outbound' = Later(outbound, Delay)
            /\ Poll(touched)
            /\ active' = active
    BY <1>3 DEF TickSuppressed
  <2>2. /\ armed' \in [zone : {"left", "right"}, age : 0 .. TapWindow - 1] \union {None}
        /\ decided' \in [id : Ids, age : 0 .. Latch - 1] \union {None}
    BY <2>1, ArmedLater, DecidedLater
  <2>3. outbound' \in Replies \union {None}
    BY <2>1, ReplyLater
  <2> QED
    BY <2>1, <2>2, <2>3, PollTypes DEF Replies
<1>4. CASE TickCommit
  <2>1. PICK touched \in Touches :
            /\ Tapped(touched) # None
            /\ outbound' = [id |-> active, zone |-> Tapped(touched), age |-> 0]
            /\ decided' = [id |-> active, age |-> 0]
            /\ active' = None
            /\ armed' = None
            /\ Poll(touched)
    BY <1>4 DEF TickCommit
  <2>2. active \in Ids /\ Tapped(touched) \in Zones
    BY <2>1, TapZones DEF Zones
  <2>3. /\ outbound' \in Replies
        /\ decided' \in [id : Ids, age : 0 .. Latch - 1]
    BY <2>1, <2>2 DEF Replies
  <2> QED
    BY <2>1, <2>3, PollTypes DEF Replies
<1> QED
  BY <1>1, <1>2, <1>3, <1>4 DEF Tick

LEMMA StepTypes == Types /\ [Next]_vars => Types'
<1> SUFFICES ASSUME Types, [Next]_vars PROVE Types'
  OBVIOUS
<1> USE Times, Sentinels DEF Types, TypeOK
<1>1. CASE Receive
  <2>1. /\ Head(inbox) \in Items /\ inbox' \in Seq(Items)
        /\ Len(inbox') = Len(inbox) - 1 /\ Len(inbox) \in Nat
    BY <1>1, Received DEF Receive
  <2>2. active' \in Ids \union {None} /\ armed' \in {armed, None}
    BY <1>1, <2>1 DEF Receive, OnSnapshot, Notify, Withdraw, Items
  <2> QED
    BY <1>1, <2>1, <2>2 DEF Receive, desktop, bounds
<1>2. CASE Tick
  BY <1>2, TickTypes
<1>3. CASE Acknowledge
  BY <1>3 DEF Acknowledge, Replies, state, desktop, bounds, history
<1>4. CASE Send
  <2>1. outbound \in Replies /\ outbound # None
    BY <1>4 DEF Send
  <2>2. answers' \in [Ids -> Nat]
    BY <1>4, <2>1 DEF Send, Replies
  <2>3. prompt' \in {prompt, None} /\ owed' \in {owed, 0}
    BY <1>4 DEF Send
  <2>4. outbound' = None
    BY <1>4 DEF Send
  <2>5. UNCHANGED <<state, inbox, connected, told, bounds>>
    BY <1>4 DEF Send
  <2> QED
    BY <2>2, <2>3, <2>4, <2>5 DEF state, bounds
<1>5. CASE Connect
  BY <1>5 DEF Connect, state, bounds, history
<1>6. CASE Disconnect
  <2>1. drops' \in Nat /\ connected' = FALSE
    BY <1>6 DEF Disconnect
  <2> QED
    BY <1>6, <2>1 DEF Disconnect, state, desktop, history
<1>7. CASE Raise
  BY <1>7 DEF Raise, Ids, state, history
<1>8. CASE Settle
  BY <1>8 DEF Settle, state, bounds, history
<1>9. CASE Heartbeat
  <2>1. inbox' \in Seq(Items) /\ Len(inbox') <= InboxCap
    BY <1>9, PublishedOne DEF Heartbeat, Publish, Items
  <2> QED
    BY <1>9, <2>1 DEF Heartbeat, state, bounds, history
<1>10. CASE Burst
  <2>1. inbox' \in Seq(Items) /\ Len(inbox') <= InboxCap
    BY <1>10, PublishedBurst DEF Burst, Publish
  <2> QED
    BY <1>10, <2>1 DEF Burst, state, desktop, history
<1>11. CASE UNCHANGED vars
  BY <1>11 DEF vars, state, desktop, bounds, history
<1> QED
  BY <1>1, <1>2, <1>3, <1>4, <1>5, <1>6, <1>7, <1>8, <1>9, <1>10, <1>11
     DEF Next, Link, Desktop

(***************************************************************************)
(* Every variable of the task, the channels and the desktop stays in its   *)
(* range, whatever the taps, the messages and the link do.                 *)
(***************************************************************************)
THEOREM TypeCorrect == Spec => []TypeOK
<1>1. Types => TypeOK
  BY DEF Types
<1> QED
  BY InitTypes, StepTypes, <1>1, PTL DEF Spec

-----------------------------------------------------------------------------
(* An armed tap was the zone's last release, made on the prompt that is up,*)
(* and nothing was released since.                                         *)
ArmedInv ==
    armed # None =>
        /\ active # None
        /\ last_tap \in [zones : SUBSET Zones, age : Nat]
        /\ armed.zone \in last_tap.zones
        /\ last_tap.age <= armed.age

LEMMA TapIsSome == \A tap \in [zones : SUBSET Zones, age : Nat] : tap # None
  BY SentinelsAssumption

LEMMA StepArmed == Types /\ ArmedInv /\ [Next]_vars => ArmedInv'
<1> SUFFICES ASSUME Types, ArmedInv, [Next]_vars PROVE ArmedInv'
  OBVIOUS
<1>1. CASE Receive
  BY <1>1 DEF Receive, OnSnapshot, Notify, Withdraw, ArmedInv
<1>2. CASE Tick
  <2>0. /\ armed \in [zone : {"left", "right"}, age : 0 .. TapWindow - 1] \union {None}
        /\ held \subseteq Zones
    BY DEF Types, TypeOK
  <2>1. ASSUME NEW touched \in Touches, Poll(touched), Released(touched) # {},
               armed' # None, active # None, active' = active,
               armed'.zone \in Released(touched), armed'.age \in Nat
        PROVE  ArmedInv'
    <3>1. last_tap' = [zones |-> Released(touched), age |-> 0]
      BY <2>1 DEF Poll
    <3>2. Released(touched) \in SUBSET Zones
      BY <2>0 DEF Released
    <3>3. last_tap' \in [zones : SUBSET Zones, age : Nat]
      BY <3>1, <3>2
    <3> QED
      BY <2>1, <3>1, <3>3 DEF ArmedInv
  <2>2. CASE TickQuiet
    <3>1. PICK touched \in Touches :
              /\ Tapped(touched) = None
              /\ armed' = IF active # None /\ Cancelled(touched) THEN None ELSE Armed
              /\ Poll(touched)
              /\ active' = active
      BY <2>2 DEF TickQuiet
    <3> SUFFICES ASSUME armed' # None PROVE ArmedInv'
      BY DEF ArmedInv
    <3>2. armed' = Armed /\ Armed # None /\ active # None /\ ~Cancelled(touched)
      BY <3>1, <2>0, ArmedLater DEF ArmedInv
    <3>3. /\ armed # None /\ armed'.zone = armed.zone
          /\ armed'.age = armed.age + 1 /\ armed'.age < TapWindow
      BY <3>2, <2>0, ArmedLater
    <3>4. Released(touched) = {}
      <4>1. Released(touched) \subseteq {"left", "centre", "right"}
        BY <2>0 DEF Released, Zones
      <4>2. "centre" \notin Released(touched)
        BY <3>2 DEF Cancelled
      <4>3. "left" # None /\ "right" # None
        BY SentinelsAssumption DEF Zones
      <4>4. "left" \notin Released(touched) /\ "right" \notin Released(touched)
        BY <3>1, <3>2, <4>3 DEF Tapped
      <4> QED
        BY <4>1, <4>2, <4>4
    <3>5. last_tap' = Later(last_tap, TapWindow)
      BY <3>1, <3>2, <3>4 DEF Poll
    <3>6. armed.age \in Nat /\ last_tap \in [zones : SUBSET Zones, age : Nat]
          /\ last_tap.age <= armed.age /\ armed.zone \in last_tap.zones
      BY <3>3, <2>0 DEF ArmedInv
    <3>7. last_tap' = [last_tap EXCEPT !.age = last_tap.age + 1]
      BY <3>3, <3>5, <3>6, TapIsSome, Times DEF Later
    <3> QED
      BY <3>1, <3>2, <3>3, <3>6, <3>7, <2>0 DEF ArmedInv
  <2>3. CASE TickArm
    <3>1. PICK touched \in Touches :
              /\ Tapped(touched) # None
              /\ armed' = [zone |-> Tapped(touched), age |-> 0]
              /\ Poll(touched)
              /\ active' = active
      BY <2>3 DEF TickArm
    <3>2. active # None /\ Tapped(touched) \in Released(touched)
      BY <3>1, TapZones
    <3> QED
      BY <3>1, <3>2, <2>1 DEF ArmedInv
  <2>4. CASE TickSuppressed
    <3>1. PICK touched \in Touches :
              /\ Tapped(touched) # None
              /\ Confirms(Tapped(touched))
              /\ armed' = Armed
              /\ Poll(touched)
              /\ active' = active
      BY <2>4 DEF TickSuppressed
    <3>2. active # None /\ Tapped(touched) \in Released(touched)
      BY <3>1, TapZones
    <3>3. armed' # None /\ armed'.zone = Tapped(touched)
      BY <3>1 DEF Confirms, SameZone
    <3>4. armed'.age \in Nat
      BY <3>1, <3>3, <2>0, ArmedLater, Times
    <3> QED
      BY <3>1, <3>2, <3>3, <3>4, <2>1
  <2>5. CASE TickCommit
    BY <2>5 DEF TickCommit, ArmedInv
  <2> QED
    BY <1>2, <2>2, <2>3, <2>4, <2>5 DEF Tick
<1>3. CASE Link \/ Desktop \/ UNCHANGED vars
  <2>1. UNCHANGED <<active, armed, last_tap>>
    BY <1>3 DEF Link, Desktop, Acknowledge, Send, Connect, Disconnect, Raise,
                Settle, Heartbeat, Burst, vars, state, history
  <2> QED
    BY <2>1 DEF ArmedInv
<1> QED
  BY <1>1, <1>2, <1>3 DEF Next

(* What TwoTapsDecide asks of a step that makes a decision.                *)
TappedTwice ==
    /\ outbound'.zone \in held \ held'
    /\ "centre" \notin held \ held'
    /\ last_tap # None
    /\ outbound'.zone \in last_tap.zones
    /\ last_tap.age + 1 < TapWindow

(* Only TickCommit makes one.                                              *)
LEMMA TwoTapsStep == Types /\ ArmedInv /\ [Next]_vars => [Commits => TappedTwice]_vars
<1> SUFFICES ASSUME Types, ArmedInv, Next, Commits PROVE TappedTwice
  OBVIOUS
<1> USE Times
<1>0. /\ decided \in [id : Ids, age : 0 .. Latch - 1] \union {None}
      /\ armed \in [zone : {"left", "right"}, age : 0 .. TapWindow - 1] \union {None}
  BY DEF Types, TypeOK
<1>1. CASE TickCommit
  <2>1. PICK touched \in Touches :
            /\ Tapped(touched) # None
            /\ Confirms(Tapped(touched))
            /\ outbound' = [id |-> active, zone |-> Tapped(touched), age |-> 0]
            /\ Poll(touched)
    BY <1>1 DEF TickCommit
  <2>2. Armed # None /\ Armed.zone = Tapped(touched)
    BY <2>1 DEF Confirms, SameZone
  <2>3. /\ armed # None /\ armed.zone = Tapped(touched)
        /\ armed.age + 1 < TapWindow /\ armed.age \in Nat
    BY <2>2, <1>0, ArmedLater
  <2>4. held \ held' = Released(touched) /\ outbound'.zone = Tapped(touched)
    BY <2>1 DEF Poll, Released
  <2>5. Tapped(touched) \in Released(touched) /\ "centre" \notin Released(touched)
    BY <2>1, <2>2, TapZones DEF Cancelled
  <2> QED
    BY <2>3, <2>4, <2>5, TapIsSome DEF ArmedInv, TappedTwice
<1>2. CASE ~TickCommit
  <2>1. decided' \in {decided, Decided}
    BY <1>2 DEF Next, Tick, TickQuiet, TickArm, TickSuppressed, Receive, Link, Desktop,
                Acknowledge, Send, Connect, Disconnect, Raise, Settle, Heartbeat, Burst, state
  <2>2. decided' = Decided /\ decided' # None /\ decided'.age = 0
    BY <2>1 DEF Commits
  <2>3. decided # None /\ Decided.age = decided.age + 1
    BY <2>2, <1>0, DecidedLater
  <2> QED
    BY <2>2, <2>3, <1>0
<1> QED
  BY <1>1, <1>2

(***************************************************************************)
(* A decision takes two taps in a row on the zone that gives it, both made *)
(* while this very prompt was up and less than the window apart.           *)
(***************************************************************************)
THEOREM TwoTapsAlways == Spec => TwoTapsDecide
<1>1. Init => ArmedInv
  BY DEF Init, ArmedInv
<1> QED
  BY InitTypes, StepTypes, <1>1, StepArmed, TwoTapsStep, PTL
     DEF Spec, TwoTapsDecide, TappedTwice

-----------------------------------------------------------------------------
(* The channel ends with what the desktop told last, unless it overflowed. *)
ToldInv ==
    bursts = 0 =>
        /\ \A i \in 1 .. Len(inbox) : inbox[i] # Command
        /\ inbox # <<>> => inbox[Len(inbox)] = told
        /\ inbox = <<>> /\ active # None => active = told

(* What every tick leaves alone.                                           *)
LEMMA TickKeeps ==
    ASSUME Tick
    PROVE  /\ inbox = <<>> /\ Timely
           /\ UNCHANGED <<inbox, connected, prompt, told, raised, drops, bursts, answers>>
           /\ owed' = IF owed = None \/ owed = Delay THEN owed ELSE owed + 1
           /\ active' \in {active, None}
  BY DEF Tick, TickQuiet, TickArm, TickSuppressed, TickCommit, Poll, Timely, bounds

(* A heartbeat brings no command into a channel that has none.             *)
LEMMA NoCommands ==
    ASSUME inbox \in Seq(Items), \A n \in 1 .. Len(inbox) : inbox[n] # Command,
           NEW m \in Ids \union {None}, inbox' = LastOf(inbox \o <<m>>, InboxCap)
    PROVE  \A n \in 1 .. Len(inbox') : inbox'[n] # Command
<1> DEFINE Prompts == Ids \union {None}
<1>1. Len(inbox) \in Nat /\ \A n \in 1 .. Len(inbox) : inbox[n] \in Prompts
  BY LenProperties, ElementOfSeq DEF Items
<1>2. inbox \in Seq(Prompts)
  BY <1>1, LenProperties
<1>3. inbox \o <<m>> \in Seq(Prompts) /\ Len(inbox \o <<m>>) = Len(inbox) + 1
  BY <1>2, ConcatProperties, LenProperties
<1>4. inbox' \in Seq(Prompts)
  <2>1. inbox \o <<m>> # <<>>
    BY <1>1, <1>3, NoLength
  <2> QED
    BY <1>3, <2>1, LastOfKept, Times
<1>5. \A n \in 1 .. Len(inbox') : inbox'[n] \in Prompts
  BY <1>4, ElementOfSeq
<1> QED
  BY <1>5, Sentinels, SentinelsAssumption

LEMMA StepTold == Types /\ ToldInv /\ [Next]_vars => ToldInv'
<1> SUFFICES ASSUME Types, ToldInv, [Next]_vars, bursts' = 0 PROVE ToldInv'
  BY DEF ToldInv
<1> USE Times, Sentinels
<1>1. CASE Receive
  <2>1. inbox \in Seq(Items) /\ inbox # <<>> /\ inbox' = Tail(inbox)
    BY <1>1 DEF Receive, Types
  <2>2. told' = told /\ bursts = 0
    BY <1>1 DEF Receive, desktop, bounds
  <2>3. Len(inbox) \in Nat /\ Len(inbox) > 0 /\ Len(inbox') = Len(inbox) - 1
    BY <2>1, Received, EmptySeq
  <2>4. \A n \in 1 .. Len(inbox) : inbox[n] # Command
    BY <2>2 DEF ToldInv
  <2>5. inbox[Len(inbox)] = told
    BY <2>1, <2>2 DEF ToldInv
  <2>6. \A n \in 1 .. Len(inbox') : inbox'[n] = inbox[n + 1]
    BY <2>1, HeadTailProperties
  <2>7. \A n \in 1 .. Len(inbox') : inbox'[n] # Command
    BY <2>3, <2>4, <2>6
  <2>8. inbox' # <<>> => inbox'[Len(inbox')] = told
    BY <2>1, <2>5, Received
  <2>9. ASSUME inbox' = <<>>, active' # None PROVE active' = told
    <3>1. Head(inbox) = told
      BY <2>1, <2>5, <2>9, Received
    <3>2. told # Command
      BY <2>3, <2>4, <2>5
    <3> QED
      BY <1>1, <2>9, <3>1, <3>2 DEF Receive, OnSnapshot, Replaced, Notify, Withdraw
  <2> QED
    BY <2>2, <2>7, <2>8, <2>9 DEF ToldInv
<1>2. CASE Tick
  BY <1>2, TickKeeps DEF ToldInv
<1>3. CASE Heartbeat
  <2>1. /\ inbox' \in Seq(Items)
        /\ inbox' # <<>> /\ inbox'[Len(inbox')] = prompt
    BY <1>3, PublishedOne DEF Heartbeat, Publish, Types, TypeOK, Items
  <2>2. told' = prompt /\ prompt # Command /\ bursts = 0
    BY <1>3, SentinelsAssumption DEF Heartbeat, Types, TypeOK, bounds
  <2>3. \A n \in 1 .. Len(inbox) : inbox[n] # Command
    BY <2>2 DEF ToldInv
  <2>4. \A n \in 1 .. Len(inbox') : inbox'[n] # Command
    BY <1>3, <2>2, <2>3, NoCommands DEF Heartbeat, Publish, Types, TypeOK
  <2> QED
    BY <2>1, <2>2, <2>4 DEF ToldInv
<1>4. CASE Burst
  BY <1>4 DEF Burst, Types
<1>5. CASE Link \/ Raise \/ Settle \/ UNCHANGED vars
  <2>1. UNCHANGED <<inbox, active, told, bursts>>
    BY <1>5 DEF Link, Acknowledge, Send, Connect, Disconnect, Raise, Settle, vars, state,
                desktop, bounds
  <2> QED
    BY <2>1 DEF ToldInv
<1> QED
  BY <1>1, <1>2, <1>3, <1>4, <1>5 DEF Next, Desktop

(***************************************************************************)
(* Once it has read its messages the task shows what the desktop told it   *)
(* last, or nothing, as long as no message was lost.                       *)
(***************************************************************************)
THEOREM NoGhostAlways == Spec => []NoGhostPrompt
<1>1. Init => ToldInv
  BY NoLength DEF Init, ToldInv
<1>2. ToldInv => NoGhostPrompt
  BY DEF ToldInv, NoGhostPrompt
<1> QED
  BY InitTypes, StepTypes, <1>1, <1>2, StepTold, PTL DEF Spec

-----------------------------------------------------------------------------
(***************************************************************************)
(* Why nothing is answered twice: a decision on its way is as old as the   *)
(* latch it set, so it arrives within Delay; from then on the desktop owes *)
(* the withdrawal, published within Delay again; until it is, the latch    *)
(* remembers the prompt.                                                   *)
(***************************************************************************)
Steady == drops = 0 /\ bursts = 0

(* Nothing has come before the first connection.                           *)
DownInv == ~connected => told = None /\ active = None /\ outbound = None /\ inbox = <<>>

(* A prompt still told to the device but no longer up is owed a withdrawal,*)
(* and until it is published no other is raised.                           *)
OwedInv ==
    /\ told # None /\ prompt # told => owed # None
    /\ owed # None => prompt = None

(* Ids are used in their order; an answered prompt is not up.              *)
RaisedInv ==
    /\ prompt # None => prompt <= raised
    /\ told # None => told <= raised
    /\ \A i \in Ids : answers[i] > 0 => i <= raised /\ prompt # i

(* The decision in the slot is the latched one, and the first.             *)
ReplyInv ==
    outbound # None /\ outbound.id # Ack =>
        /\ answers[outbound.id] = 0
        /\ outbound.id <= raised
        /\ decided # None
        /\ decided.id = outbound.id
        /\ decided.age = outbound.age

(* While the device may still be shown an answered prompt, the latch holds.*)
LatchInv ==
    told # None /\ answers[told] > 0 =>
        /\ decided # None
        /\ decided.id = told
        /\ decided.age <= Delay + owed

OnceInv ==
    Steady => /\ DownInv /\ OwedInv /\ RaisedInv /\ ReplyInv /\ LatchInv
              /\ \A i \in Ids : answers[i] <= 1

(* What the following proofs use of the types.                             *)
LEMMA OnceTypes ==
    ASSUME Types
    PROVE  /\ active \in Ids \union {None}
           /\ decided \in [id : Ids, age : 0 .. Latch - 1] \union {None}
           /\ outbound \in Replies \union {None}
           /\ connected \in BOOLEAN
           /\ prompt \in Ids \union {None} /\ told \in Ids \union {None}
           /\ owed \in 0 .. Delay \union {None}
           /\ raised \in Nat /\ MaxPrompts \in Nat
           /\ drops \in Nat /\ bursts \in Nat
           /\ answers \in [Ids -> Nat]
           /\ Ids \subseteq Nat
           /\ None \notin Nat /\ None \notin Ids /\ Ack \notin Ids
  BY Times, Sentinels DEF Types, TypeOK, Ids

(* A tick that commits nothing ages the reply, the latch and the debt.     *)
LEMMA OnceAges ==
    ASSUME Latch > 2 * Delay, Types, ToldInv, OnceInv, Tick, Steady,
           decided' = Decided, outbound' = Later(outbound, Delay)
    PROVE  OnceInv'
<1> USE OnceTypes, Times
<1>1. /\ DownInv /\ OwedInv /\ RaisedInv /\ ReplyInv /\ LatchInv
      /\ \A i \in Ids : answers[i] <= 1
  BY DEF OnceInv
<1>2. /\ Timely /\ inbox = <<>>
      /\ UNCHANGED <<inbox, connected, prompt, told, raised, drops, bursts, answers>>
      /\ owed' = IF owed = None \/ owed = Delay THEN owed ELSE owed + 1
      /\ active' \in {active, None}
  BY TickKeeps
<1>3. /\ outbound' \in Replies \union {None}
      /\ outbound # None => outbound'.id = outbound.id
      /\ outbound = None => outbound' = None
      /\ outbound # None /\ outbound.age < Delay => outbound'.age = outbound.age + 1
  BY ReplyLater
<1>4. /\ decided # None /\ decided.age + 1 < Latch =>
             /\ decided' # None
             /\ decided'.id = decided.id
             /\ decided'.age = decided.age + 1
  BY DecidedLater
<1>5. DownInv'
  BY <1>1, <1>2, <1>3 DEF DownInv
<1>6. OwedInv'
  BY <1>1, <1>2 DEF OwedInv
<1>7. RaisedInv'
  BY <1>1, <1>2 DEF RaisedInv
<1>8. ReplyInv'
  <2> SUFFICES ASSUME outbound' # None, outbound'.id # Ack PROVE ReplyInv'
    BY DEF ReplyInv
  <2>1. outbound # None /\ outbound.id # Ack /\ connected
    BY <1>1, <1>3 DEF DownInv
  <2>2. outbound.age < Delay
    BY <1>2, <2>1 DEF Timely
  <2>3. decided # None /\ decided.age = outbound.age /\ outbound.age \in Nat
    BY <1>1, <2>1 DEF ReplyInv, Replies
  <2> QED
    BY <1>1, <1>2, <1>3, <1>4, <2>1, <2>2, <2>3 DEF ReplyInv
<1>9. LatchInv'
  <2> SUFFICES ASSUME told # None, answers[told] > 0
               PROVE  decided' # None /\ decided'.id = told /\ decided'.age <= Delay + owed'
    BY <1>2 DEF LatchInv
  <2>1. connected /\ owed # None
    BY <1>1 DEF DownInv, RaisedInv, OwedInv
  <2>2. owed \in Nat /\ owed < Delay /\ owed' = owed + 1
    BY <1>2, <2>1 DEF Timely
  <2>3. decided # None /\ decided.id = told /\ decided.age <= Delay + owed /\ decided.age \in Nat
    BY <1>1 DEF LatchInv
  <2>4. decided.age + 1 < Latch
    BY <2>2, <2>3
  <2> QED
    BY <1>4, <2>2, <2>3, <2>4
<1> QED
  BY <1>1, <1>2, <1>5, <1>6, <1>7, <1>8, <1>9 DEF OnceInv

(* A decision is made on a prompt that has not been answered.              *)
LEMMA OnceCommit ==
    ASSUME Latch > 2 * Delay, Types, ToldInv, OnceInv, TickCommit, Steady
    PROVE  OnceInv'
<1> USE OnceTypes, Times
<1>1. /\ DownInv /\ OwedInv /\ RaisedInv /\ ReplyInv /\ LatchInv
      /\ \A i \in Ids : answers[i] <= 1
  BY DEF OnceInv
<1>2. /\ Timely /\ inbox = <<>>
      /\ UNCHANGED <<inbox, connected, prompt, told, raised, drops, bursts, answers>>
      /\ owed' = IF owed = None \/ owed = Delay THEN owed ELSE owed + 1
  BY TickKeeps DEF Tick
<1>3. /\ active # None /\ ~Suppressed
      /\ outbound'.id = active /\ outbound'.age = 0
      /\ decided' = [id |-> active, age |-> 0]
      /\ active' = None
  BY TapZones DEF TickCommit
<1>4. active = told /\ connected
  BY <1>1, <1>2, <1>3 DEF ToldInv, DownInv, Steady
<1>5. answers[told] = 0
  <2> SUFFICES ASSUME answers[told] > 0 PROVE FALSE
    BY <1>3, <1>4
  <2>1. owed # None
    BY <1>1, <1>3, <1>4 DEF RaisedInv, OwedInv
  <2>2. owed \in Nat /\ owed < Delay
    BY <1>2, <1>4, <2>1 DEF Timely
  <2>3. decided # None /\ decided.id = told /\ decided.age <= Delay + owed /\ decided.age \in Nat
    BY <1>1, <1>3, <1>4 DEF LatchInv
  <2>4. decided.age + 1 < Latch
    BY <2>2, <2>3
  <2>5. Decided # None /\ Decided.id = told
    BY <2>3, <2>4, DecidedLater
  <2> QED
    BY <1>3, <1>4, <2>5 DEF Suppressed
<1>6. decided' # None
  BY <1>3, SentinelsAssumption
<1>7. DownInv' /\ OwedInv' /\ RaisedInv'
  BY <1>1, <1>2, <1>4 DEF DownInv, OwedInv, RaisedInv
<1>8. ReplyInv'
  BY <1>1, <1>2, <1>3, <1>4, <1>5, <1>6 DEF ReplyInv, RaisedInv
<1>9. LatchInv'
  BY <1>2, <1>5 DEF LatchInv
<1> QED
  BY <1>1, <1>2, <1>7, <1>8, <1>9 DEF OnceInv

(* The desktop hears a decision for the first time.                        *)
LEMMA OnceSend ==
    ASSUME Types, OnceInv, Send, Steady
    PROVE  OnceInv'
<1> USE OnceTypes, Times
<1>1. /\ DownInv /\ OwedInv /\ RaisedInv /\ ReplyInv /\ LatchInv
      /\ \A i \in Ids : answers[i] <= 1
  BY DEF OnceInv
<1>2. /\ connected /\ outbound # None /\ outbound' = None
      /\ UNCHANGED <<active, decided, inbox, connected, told, raised, drops, bursts>>
  BY DEF Send, state, bounds
<1>3. CASE UNCHANGED <<answers, prompt, owed>>
  <2>1. DownInv' /\ OwedInv' /\ RaisedInv' /\ ReplyInv' /\ LatchInv'
    BY <1>1, <1>2, <1>3 DEF DownInv, OwedInv, RaisedInv, ReplyInv, LatchInv
  <2> QED
    BY <1>1, <1>2, <1>3, <2>1 DEF OnceInv
<1>4. CASE ~UNCHANGED <<answers, prompt, owed>>
  <2>1. /\ outbound.id \in Ids
        /\ answers' = [answers EXCEPT ![outbound.id] = @ + 1]
        /\ prompt' = IF outbound.id = prompt THEN None ELSE prompt
        /\ owed' = IF outbound.id = prompt THEN 0 ELSE owed
    BY <1>2, <1>4 DEF Send, Replies
  <2> DEFINE id == outbound.id
  <2>2. /\ answers[id] = 0 /\ id <= raised
        /\ decided # None /\ decided.id = id
        /\ decided.age = outbound.age /\ outbound.age \in 0 .. Delay
    BY <1>1, <1>2, <2>1 DEF ReplyInv, Replies
  <2>3. answers'[id] = 1 /\ \A i \in Ids : i # id => answers'[i] = answers[i]
    BY <2>1, <2>2
  <2>4. prompt' # id
    BY <2>1
  <2>5. DownInv' /\ ReplyInv'
    BY <1>1, <1>2 DEF DownInv, ReplyInv
  <2>6. OwedInv'
    BY <1>1, <1>2, <2>1 DEF OwedInv
  <2>7. RaisedInv'
    BY <1>1, <1>2, <2>1, <2>2, <2>3, <2>4 DEF RaisedInv
  <2>8. LatchInv'
    <3> SUFFICES ASSUME told # None, answers'[told] > 0
                 PROVE  decided # None /\ decided.id = told /\ decided.age <= Delay + owed'
      BY <1>2 DEF LatchInv
    <3>1. owed' # None
      BY <1>2, <2>6, <2>7 DEF OwedInv, RaisedInv
    <3>2. owed' \in Nat
      BY <2>1, <3>1
    <3>3. CASE told = id
      BY <2>2, <3>2, <3>3
    <3>4. CASE told # id
      <4>1. answers[told] > 0 /\ prompt # told
        BY <1>1, <2>3, <3>4 DEF RaisedInv
      <4>2. prompt = None
        BY <1>1, <4>1 DEF OwedInv
      <4>3. owed' = owed
        BY <2>1, <4>2
      <4> QED
        BY <1>1, <4>1, <4>3 DEF LatchInv
    <3> QED
      BY <3>3, <3>4
  <2> QED
    BY <1>1, <1>2, <2>3, <2>5, <2>6, <2>7, <2>8 DEF OnceInv
<1> QED
  BY <1>3, <1>4

LEMMA OnceConnect ==
    ASSUME Types, OnceInv, Connect, Steady
    PROVE  OnceInv'
<1> USE OnceTypes
<1>1. DownInv /\ OwedInv /\ RaisedInv /\ \A i \in Ids : answers[i] <= 1
  BY DEF OnceInv
<1>2. told = None /\ connected' /\ outbound' = None
  BY <1>1 DEF Connect, DownInv
<1>3. /\ owed # None <=> owed' # None
      /\ UNCHANGED <<told, prompt, raised, drops, bursts, answers>>
  BY DEF Connect, bounds, history
<1>4. DownInv' /\ OwedInv' /\ RaisedInv' /\ ReplyInv' /\ LatchInv'
  BY <1>1, <1>2, <1>3 DEF DownInv, OwedInv, RaisedInv, ReplyInv, LatchInv
<1> QED
  BY <1>1, <1>3, <1>4 DEF OnceInv

(* The desktop raises no prompt while it owes a withdrawal.                *)
LEMMA OnceDesktop ==
    ASSUME Types, OnceInv, Raise \/ Settle \/ Heartbeat, Steady
    PROVE  OnceInv'
<1> USE OnceTypes
<1>1. /\ DownInv /\ OwedInv /\ RaisedInv /\ ReplyInv /\ LatchInv
      /\ \A i \in Ids : answers[i] <= 1
  BY DEF OnceInv
<1>2. CASE Raise
  <2>1. /\ prompt = None /\ owed = None /\ owed' = None
        /\ prompt' = raised + 1 /\ raised' = raised + 1
        /\ UNCHANGED <<active, decided, inbox, outbound, connected, told, answers>>
    BY <1>2 DEF Raise, state, history
  <2>2. told = None
    BY <1>1, <2>1 DEF OwedInv
  <2>3. RaisedInv'
    BY <1>1, <2>1, <2>2 DEF RaisedInv
  <2>4. DownInv' /\ OwedInv' /\ ReplyInv' /\ LatchInv'
    BY <1>1, <2>1, <2>2 DEF DownInv, OwedInv, ReplyInv, LatchInv
  <2> QED
    BY <1>1, <2>1, <2>3, <2>4 DEF OnceInv
<1>3. CASE Settle
  <2>1. /\ prompt # None /\ prompt' = None /\ owed' = 0
        /\ UNCHANGED <<active, decided, inbox, outbound, connected, told, raised, answers>>
    BY <1>3 DEF Settle, state, bounds, history
  <2>2. told # None => ~(answers[told] > 0)
    BY <1>1, <2>1 DEF OwedInv, RaisedInv
  <2>3. DownInv' /\ OwedInv' /\ RaisedInv' /\ ReplyInv' /\ LatchInv'
    BY <1>1, <2>1, <2>2 DEF DownInv, OwedInv, RaisedInv, ReplyInv, LatchInv
  <2> QED
    BY <1>1, <2>1, <2>3 DEF OnceInv
<1>4. CASE Heartbeat
  <2>1. /\ connected /\ connected' /\ told' = prompt /\ prompt' = prompt /\ owed' = None
        /\ UNCHANGED <<active, decided, outbound, raised, answers>>
    BY <1>4 DEF Heartbeat, state, bounds, history
  <2>2. prompt # None => ~(answers[prompt] > 0)
    BY <1>1 DEF RaisedInv
  <2>3. DownInv' /\ OwedInv' /\ RaisedInv' /\ ReplyInv' /\ LatchInv'
    BY <1>1, <2>1, <2>2 DEF DownInv, OwedInv, RaisedInv, ReplyInv, LatchInv
  <2> QED
    BY <1>1, <2>1, <2>3 DEF OnceInv
<1> QED
  BY <1>2, <1>3, <1>4

LEMMA StepOnce ==
    ASSUME Latch > 2 * Delay
    PROVE  Types /\ ToldInv /\ OnceInv /\ [Next]_vars => OnceInv'
<1> SUFFICES ASSUME Types, ToldInv, OnceInv, [Next]_vars, Steady' PROVE OnceInv'
  BY DEF OnceInv
<1> USE OnceTypes
<1>1. CASE Receive
  <2>1. /\ inbox # <<>>
        /\ UNCHANGED <<decided, outbound, connected, prompt, told, owed, raised, drops,
                       bursts, answers>>
    BY <1>1 DEF Receive, desktop, bounds
  <2>2. Steady
    BY <2>1 DEF Steady
  <2> QED
    BY <2>1, <2>2
       DEF OnceInv, DownInv, OwedInv, RaisedInv, ReplyInv, LatchInv
<1>2. CASE Tick
  <2>1. Steady
    BY <1>2, TickKeeps DEF Steady
  <2>2. CASE TickCommit
    BY <2>1, <2>2, OnceCommit
  <2>3. CASE ~TickCommit
    <3>1. decided' = Decided /\ outbound' = Later(outbound, Delay)
      BY <1>2, <2>3 DEF Tick, TickQuiet, TickArm, TickSuppressed
    <3> QED
      BY <1>2, <2>1, <3>1, OnceAges
  <2> QED
    BY <2>2, <2>3
<1>3. CASE Acknowledge
  <2>1. /\ connected /\ outbound'.id = Ack
        /\ UNCHANGED <<active, decided, inbox, connected, prompt, told, owed, raised,
                       drops, bursts, answers>>
    BY <1>3 DEF Acknowledge, state, desktop, bounds, history
  <2>2. Steady
    BY <2>1 DEF Steady
  <2> QED
    BY <2>1, <2>2
       DEF OnceInv, DownInv, OwedInv, RaisedInv, ReplyInv, LatchInv
<1>4. CASE Send
  <2>1. Steady
    BY <1>4 DEF Send, bounds, Steady
  <2> QED
    BY <1>4, <2>1, OnceSend
<1>5. CASE Connect
  <2>1. Steady
    BY <1>5 DEF Connect, bounds, Steady
  <2> QED
    BY <1>5, <2>1, OnceConnect
<1>6. CASE Disconnect
  BY <1>6 DEF Disconnect, Steady
<1>7. CASE Raise \/ Settle \/ Heartbeat
  <2>1. Steady
    BY <1>7 DEF Raise, Settle, Heartbeat, bounds, Steady
  <2> QED
    BY <1>7, <2>1, OnceDesktop
<1>8. CASE Burst
  BY <1>8 DEF Burst, Steady
<1>9. CASE UNCHANGED vars
  BY <1>9 DEF vars, state, desktop, bounds, history, Steady, OnceInv, DownInv, OwedInv,
              RaisedInv, ReplyInv, LatchInv
<1> QED
  BY <1>1, <1>2, <1>3, <1>4, <1>5, <1>6, <1>7, <1>8, <1>9 DEF Next, Link, Desktop

(***************************************************************************)
(* A latch longer than a reply's and a withdrawal's delay together keeps   *)
(* any prompt from being answered twice, on a link that never dropped and  *)
(* a channel that never overflowed.                                        *)
(***************************************************************************)
THEOREM AnsweredOnceAlways ==
    ASSUME Latch > 2 * Delay
    PROVE  Spec => []AnsweredOnce
<1>1. Init => ToldInv
  BY NoLength DEF Init, ToldInv
<1>2. Init => OnceInv
  BY OnceTypes, Sentinels, Times DEF Init, OnceInv, DownInv, OwedInv, RaisedInv, ReplyInv, LatchInv
<1>3. OnceInv => AnsweredOnce
  BY DEF OnceInv, AnsweredOnce, Steady
<1>4. Types /\ ToldInv /\ OnceInv /\ [Next]_vars => OnceInv'
  BY StepOnce
<1> QED
  BY InitTypes, StepTypes, StepTold, <1>1, <1>2, <1>3, <1>4, PTL DEF Spec


-----------------------------------------------------------------------------
(***************************************************************************)
(* A prompt that stays, or stays away.  While the desktop shows m, one     *)
(* prompt or none, it publishes nothing else, so the messages that can     *)
(* still say otherwise are at the front of the channel, and each receive   *)
(* leaves one less of them.                                                *)
(***************************************************************************)
Messages      == Ids \union {None}
Shown(m)      == prompt = m
Only(s, m, k) == \A i \in k + 1 .. Len(s) : s[i] = m
Pure(m, k)    == Only(inbox, m, k)

LEMMA LastOfPure ==
    ASSUME NEW s \in Seq(Items), NEW k \in Nat, NEW m,
           Only(s, m, k)
    PROVE  Only(LastOf(s, InboxCap), m, k)
<1> USE Times DEF Only
<1>1. Len(s) \in Nat /\ \A i \in 1 .. Len(s) : s[i] \in Items
  BY LenProperties, ElementOfSeq
<1>2. CASE Len(s) <= InboxCap
  BY <1>2 DEF LastOf
<1>3. CASE ~(Len(s) <= InboxCap)
  <2> DEFINE t == SubSeq(s, Len(s) - InboxCap + 1, Len(s))
  <2>1. Len(s) - InboxCap + 1 \in Int /\ \A i \in Len(s) - InboxCap + 1 .. Len(s) : s[i] \in Items
    BY <1>1, <1>3
  <2>2. /\ Len(t) = InboxCap
        /\ \A i \in 1 .. InboxCap : t[i] = s[Len(s) - InboxCap + 1 + i - 1]
    BY <2>1, <1>1, <1>3, SubSeqProperties
  <2>3. LastOf(s, InboxCap) = t
    BY <1>3 DEF LastOf
  <2> HIDE DEF t
  <2>4. ASSUME NEW i \in k + 1 .. InboxCap PROVE t[i] = m
    <3>1. Len(s) - InboxCap + 1 + i - 1 \in k + 1 .. Len(s) /\ i \in 1 .. InboxCap
      BY <1>1, <1>3
    <3> QED
      BY <3>1, <2>2
  <2> QED
    BY <2>2, <2>3, <2>4
<1> QED
  BY <1>2, <1>3

(* A heartbeat adds nothing but what the desktop shows.                    *)
LEMMA HeartbeatPure ==
    ASSUME Types, NEW m \in Messages, Shown(m), Heartbeat, NEW k \in Nat, Pure(m, k)
    PROVE  Pure(m, k)'
<1> DEFINE s == inbox \o <<m>>
<1>1. inbox' = LastOf(s, InboxCap)
  BY DEF Heartbeat, Publish, Shown
<1>2. inbox \in Seq(Items) /\ Len(inbox) \in Nat /\ <<m>> \in Seq(Items)
  BY LenProperties DEF Types, Items, Messages
<1>3. /\ s \in Seq(Items)
      /\ Len(s) = Len(inbox) + 1
      /\ \A i \in 1 .. Len(inbox) : s[i] = inbox[i]
      /\ s[Len(inbox) + 1] = m
  BY <1>2, ConcatProperties
<1> HIDE DEF s
<1>4. Only(s, m, k)
  <2> SUFFICES ASSUME NEW i \in k + 1 .. Len(s) PROVE s[i] = m
    BY DEF Only
  <2>1. CASE i <= Len(inbox)
    BY <2>1, <1>2, <1>3 DEF Pure, Only
  <2>2. CASE i = Len(inbox) + 1
    BY <2>2, <1>3
  <2> QED
    BY <2>1, <2>2, <1>2, <1>3
<1>5. Only(LastOf(s, InboxCap), m, k)
  BY <1>3, <1>4, LastOfPure
<1> QED
  BY <1>1, <1>5 DEF Pure

LEMMA ReceivePure ==
    ASSUME Types, NEW m, Receive, NEW j \in Nat, Pure(m, j)
    PROVE  /\ Pure(m, j)'
           /\ \A k \in Nat : j = k + 1 => Pure(m, k)'
           /\ j = 0 => Head(inbox) = m
           /\ inbox' # inbox
<1>1. inbox \in Seq(Items) /\ inbox # <<>> /\ inbox' = Tail(inbox)
  BY DEF Receive, Types
<1>2. /\ Len(inbox) \in Nat /\ Len(inbox) > 0
      /\ Len(inbox') = Len(inbox) - 1
      /\ \A i \in 1 .. Len(inbox') : inbox'[i] = inbox[i + 1]
  BY <1>1, HeadTailProperties, LenProperties, EmptySeq
<1>3. Head(inbox) = inbox[1]
  BY <1>1
<1>4. inbox' # inbox
  BY <1>2
<1> QED
  BY <1>2, <1>3, <1>4 DEF Pure, Only

(* Every step but a burst keeps the channel as pure as it was.             *)
LEMMA StepPure ==
    ASSUME Types, NEW m \in Messages, Shown(m), [Next]_vars, ~Burst, NEW k \in Nat, Pure(m, k)
    PROVE  Pure(m, k)'
<1>1. CASE Receive
  BY <1>1, ReceivePure
<1>2. CASE Heartbeat
  BY <1>2, HeartbeatPure
<1>3. ASSUME inbox' = inbox PROVE Pure(m, k)'
  BY <1>3 DEF Pure, Only
<1>4. CASE Tick
  BY <1>4, <1>3 DEF Tick, TickQuiet, TickArm, TickSuppressed, TickCommit, Poll
<1>5. CASE Link \/ Raise \/ Settle \/ UNCHANGED vars
  BY <1>5, <1>3 DEF Link, Acknowledge, Send, Connect, Disconnect, Raise, Settle, vars
<1> QED
  BY <1>1, <1>2, <1>4, <1>5 DEF Next, Desktop

(* A channel that has a message keeps it until it is read.                 *)
LEMMA StepWaits ==
    ASSUME Types, [Next]_vars, inbox # <<>>
    PROVE  inbox' # <<>> \/ <<Receive>>_vars
<1>1. CASE Receive
  <2>1. Pure(None, Len(inbox)) /\ Len(inbox) \in Nat
    BY LenProperties DEF Pure, Only, Types
  <2> QED
    BY <1>1, <2>1, ReceivePure DEF vars
<1>2. CASE Heartbeat
  BY <1>2, PublishedOne DEF Heartbeat, Publish, Types, TypeOK, Items
<1>3. CASE Burst
  <2> DEFINE s == inbox \o [n \in 1 .. InboxCap |-> Command]
  <2>1. [n \in 1 .. InboxCap |-> Command] \in Seq(Items) /\ inbox \in Seq(Items)
        /\ Len([n \in 1 .. InboxCap |-> Command]) = InboxCap
    BY Times DEF Items, Types
  <2>2. s \in Seq(Items) /\ Len(s) = Len(inbox) + InboxCap /\ Len(inbox) \in Nat
    BY <2>1, ConcatProperties, LenProperties
  <2>3. s # <<>>
    BY <2>2, NoLength, Times
  <2> QED
    BY <1>3, <2>2, <2>3, LastOfKept, Times DEF Burst, Publish
<1>4. CASE Tick
  BY <1>4 DEF Tick, TickQuiet, TickArm, TickSuppressed, TickCommit, Poll
<1>5. CASE Link \/ Raise \/ Settle \/ UNCHANGED vars
  BY <1>5 DEF Link, Acknowledge, Send, Connect, Disconnect, Raise, Settle, vars
<1> QED
  BY <1>1, <1>2, <1>3, <1>4, <1>5 DEF Next, Desktop

(* With nothing but what the desktop shows in the channel, no prompt comes *)
(* up that is gone, and each receive brings up the one that is there.      *)
LEMMA StepHealed ==
    ASSUME Types, Pure(None, 0), [Next]_vars
    PROVE  /\ active = None => active' = None
           /\ Receive => active' = None
<1>1. Receive => active' = None
  <2> SUFFICES ASSUME Receive PROVE active' = None
    OBVIOUS
  <2>1. Head(inbox) = None
    BY ReceivePure
  <2>2. None # Command
    BY SentinelsAssumption
  <2> QED
    BY <2>1, <2>2 DEF Receive, OnSnapshot, Withdraw
<1>2. CASE Tick
  BY <1>1, <1>2 DEF Tick, TickQuiet, TickArm, TickSuppressed, TickCommit
<1>3. CASE Link \/ Desktop \/ UNCHANGED vars
  BY <1>1, <1>3 DEF Link, Acknowledge, Send, Connect, Disconnect, Desktop, Raise, Settle,
     Heartbeat, Burst, state, vars
<1> QED
  BY <1>1, <1>2, <1>3 DEF Next

LEMMA ReceiveShows ==
    ASSUME Types, NEW i \in Ids, Pure(i, 0), Receive
    PROVE  active' = i
<1>1. Head(inbox) = i
  BY ReceivePure
<1>2. i # Command /\ i # None
  BY Sentinels
<1> QED
  BY <1>1, <1>2 DEF Receive, OnSnapshot, Replaced, Notify

(* What the desktop goes on showing is all the channel carries in the end, *)
(* and the task reads it again and again, though the link may go down for  *)
(* ever again.  The chain of receives is as long as the channel:           *)
(* DESKTOP_INBOUND holds 4 messages, and the lemma is for at most these.   *)
Delivers(m) ==
    FairSpec /\ []NeverHeldUp /\ BurstsEnd /\ <>[]Shown(m) =>
        <>[]Pure(m, 0) /\ []<><<Receive>>_vars

LEMMA ChannelDelivers ==
    ASSUME InboxCap <= 4, NEW m \in Messages
    PROVE  Delivers(m)
<1> DEFINE Step == [Next]_vars /\ [~Burst]_vars
<1>1. Types => Pure(m, 4)
  BY Times, LenProperties DEF Types, TypeOK, Pure, Only
<1>2. \A k \in 0 .. 4 : Types /\ Shown(m) /\ Pure(m, k) /\ Step => Pure(m, k)'
  <2>1. vars' = vars => inbox' = inbox
    BY DEF vars
  <2>2. inbox' = inbox => \A k \in 0 .. 4 : Pure(m, k) => Pure(m, k)'
    BY DEF Pure, Only
  <2> QED
    BY <2>1, <2>2, StepPure
<1>3. /\ Types /\ Pure(m, 4) /\ <<Receive>>_vars => Pure(m, 3)'
      /\ Types /\ Pure(m, 3) /\ <<Receive>>_vars => Pure(m, 2)'
      /\ Types /\ Pure(m, 2) /\ <<Receive>>_vars => Pure(m, 1)'
      /\ Types /\ Pure(m, 1) /\ <<Receive>>_vars => Pure(m, 0)'
  BY ReceivePure
<1>4. Types /\ Step /\ ~(inbox = <<>>) => ~(inbox = <<>>)' \/ <<Receive>>_vars
  BY StepWaits
<1>5. Types /\ <<Heartbeat>>_vars => ~(inbox = <<>>)'
  BY PublishedOne DEF Heartbeat, Publish, Types, TypeOK, Items
<1>6. <<Connect>>_vars => (connected = TRUE)'
  BY DEF Connect
<1>7. NeverHeldUp =>
        /\ ~(inbox = <<>>) => ENABLED <<Receive>>_vars
        /\ ~(connected = TRUE) => ENABLED <<Connect>>_vars
        /\ connected = TRUE /\ inbox = <<>> => ENABLED <<Heartbeat>>_vars
  BY DEF NeverHeldUp
<1>8. Spec => []Types
  BY InitTypes, StepTypes, PTL DEF Spec
<1>9. /\ Types /\ Shown(m) /\ Pure(m, 0) /\ Step => Pure(m, 0)'
      /\ Types /\ Shown(m) /\ Pure(m, 1) /\ Step => Pure(m, 1)'
      /\ Types /\ Shown(m) /\ Pure(m, 2) /\ Step => Pure(m, 2)'
      /\ Types /\ Shown(m) /\ Pure(m, 3) /\ Step => Pure(m, 3)'
  BY <1>2
<1> QED
  BY <1>1, <1>3, <1>4, <1>5, <1>6, <1>7, <1>8, <1>9, PTL
     DEF FairSpec, Spec, BurstsEnd, Delivers

(***************************************************************************)
(* A prompt that is gone for good disappears from the device once bursts   *)
(* no longer push the heartbeats out, though the link may go down for ever *)
(* again.                                                                  *)
(***************************************************************************)
THEOREM GhostAlwaysHeals ==
    ASSUME InboxCap <= 4
    PROVE  FairSpec /\ []NeverHeldUp /\ BurstsEnd => GhostHeals
<1>1. Delivers(None)
  BY ChannelDelivers DEF Messages
<1>2. /\ Types /\ Pure(None, 0) /\ active = None /\ [Next]_vars => (active = None)'
      /\ Types /\ Pure(None, 0) /\ [Next]_vars /\ <<Receive>>_vars => (active = None)'
  BY StepHealed
<1>3. Spec => []Types
  BY InitTypes, StepTypes, PTL DEF Spec
<1>4. Shown(None) <=> prompt = None
  BY DEF Shown
<1> QED
  BY <1>1, <1>2, <1>3, <1>4, PTL DEF FairSpec, Spec, Delivers, GhostHeals

(***************************************************************************)
(* A prompt that stays up on the desktop, though it was decided and the    *)
(* decision lost to an acknowledgement or to the link, comes back on the   *)
(* device again and again, once bursts no longer push the heartbeats out.  *)
(***************************************************************************)
THEOREM PromptAlwaysReturns ==
    ASSUME InboxCap <= 4
    PROVE  FairSpec /\ []NeverHeldUp /\ BurstsEnd => PromptReturns
<1> SUFFICES ASSUME NEW i \in Ids
             PROVE  FairSpec /\ []NeverHeldUp /\ BurstsEnd =>
                        (<>[](prompt = i) => []<>(active = i))
  BY DEF PromptReturns
<1>1. Delivers(i)
  BY ChannelDelivers DEF Messages
<1>2. Types /\ Pure(i, 0) /\ <<Receive>>_vars => (active = i)'
  BY ReceiveShows
<1>3. Spec => []Types
  BY InitTypes, StepTypes, PTL DEF Spec
<1>4. Shown(i) <=> prompt = i
  BY DEF Shown
<1> QED
  BY <1>1, <1>2, <1>3, <1>4, PTL DEF FairSpec, Spec, Delivers
=============================================================================
