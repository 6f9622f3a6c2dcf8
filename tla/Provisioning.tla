---------------------------- MODULE Provisioning ----------------------------
(***************************************************************************)
(* A phone gives the device its Wi-Fi network over Bluetooth and watches   *)
(* whether the device joins it.                                            *)
(*                                                                         *)
(*   src/crates/stackchan-firmware/src/ble/server.rs   the BluFi session,  *)
(*       the commit, the status reports, the GATT loop of one connection   *)
(*   src/crates/stackchan-net/src/blufi.rs             fragments           *)
(*   src/crates/stackchan-firmware/src/ble/mod.rs      the passkey shown   *)
(*   src/crates/stackchan-firmware/src/net/wifi.rs     the Wi-Fi task      *)
(*                                                                         *)
(* Text is a sequence of pieces, as many as a frame carries: the assembled *)
(* credential is right when its pieces are.  The phone sends any frame and *)
(* begins any chain at any time.  It, the pairing and the radio are the    *)
(* environment.  ConfigStore.tla has the writing of the card: here it is   *)
(* one await, after which it was done or it failed.                        *)
(***************************************************************************)
EXTENDS Integers, Sequences

CONSTANTS
    Ssids, Psks,    \* the names and passphrases the phone knows
    Tiny,           \* those of one piece, below PROV_PSK_MIN
    Long,           \* those of three pieces, above PROV_SSID_CAP
    Huge,           \* those of four pieces, above PROV_PSK_CAP
    Home, Key,      \* the access point in range, and its passphrase
    Scrap,          \* a text the phone never sent, come of others' pieces
    Rejected,       \* those passphrases, and Scrap, that set_config refuses
    PskCap, SsidCap,    \* PROV_PSK_CAP, PROV_SSID_CAP, in pieces
    Backoffs,       \* the length of RETRY_BACKOFF_MS
    MaxDoubts       \* bound: texts the phone sends in doubt

ASSUME ProvisioningAssumption ==
    /\ Tiny \cup {Key} \subseteq Psks /\ Rejected \subseteq Psks \cup {Scrap}
    /\ Scrap \notin Ssids \cup Psks \cup Long \cup Huge
    /\ Home \in Ssids \ (Long \cup Huge) /\ Key \notin Tiny \cup Rejected \cup Huge
    /\ SsidCap = 2 /\ PskCap = 3 /\ Backoffs \in Nat \ {0} /\ MaxDoubts \in Nat

VARIABLES
    peer,           \* "none", "plain" or "authenticated": the link to the phone
    passkey,        \* PASSKEY_DISPLAY is set
    staged,         \* BluFiSession: staged_ssid, staged_psk
    chain, reasm,   \* BluFiSession: reasm_subtype, reasm
    watching,       \* BluFiSession: watch_link
    last_reported,  \* BluFiSession
    gatt,           \* the SSID and PSK characteristics of the custom service
    commit,         \* the credentials apply_wifi_credentials is writing, and for whom
    installed,      \* CONFIG_SNAPSHOT: wifi
    reconfig,       \* WIFI_RECONFIG
    link, unseen,   \* WIFI_LINK_WATCH, and whether the session's receiver is behind
    task, creds, started, backoff,  \* the Wi-Fi task
    sending, meant, told,   \* the phone: a chain under way, what it sent, what it heard
    polled,         \* the phone: it asked for the status after its commit
    doubts          \* how much of MaxDoubts is used

session == <<staged, chain, reasm, watching, last_reported>>
wifi    == <<task, creds, started, backoff>>
phone   == <<sending, meant, told, polled, doubts>>
vars == <<peer, passkey, session, gatt, commit, installed, reconfig, link, unseen,
          wifi, phone>>

Subtypes == {"Ssid", "Psk"}
Empty    == [s \in Subtypes |-> <<>>]
Values(s) == IF s = "Ssid" THEN Ssids ELSE Psks

(* A text cut into pieces. *)
Whole(v) == [n \in 1 .. CASE v \in Tiny -> 1 [] v \in Long -> 3
                               [] v \in Huge -> 4 [] OTHER -> 2 |-> <<v, n>>]
HomeNetwork == [Ssid |-> Whole(Home), Psk |-> Whole(Key)]
Usable(c) == c.Ssid # <<>> /\ \A v \in Rejected : c.Psk # Whole(v)

Links == {"Disconnected", "Connecting", "Connected"}
NoChain == <<"none", "none", 0, TRUE>>
NoCommit == [by |-> "nobody", creds |-> Empty]
NoSignal == Empty                       \* a commit always names a network
Idle == commit = NoCommit               \* the GATT loop waits for its next event

Init ==
    /\ peer = "none" /\ passkey = FALSE
    /\ staged = Empty /\ chain = "none" /\ reasm = <<>>
    /\ watching = FALSE /\ last_reported = "none"
    /\ installed \in {Empty, HomeNetwork}
    /\ gatt = [installed EXCEPT !.Psk = <<>>]
    /\ commit = NoCommit
    /\ reconfig = NoSignal
    /\ link = "none" /\ unseen = FALSE
    /\ task = "boot" /\ creds = installed /\ started = FALSE /\ backoff = 0
    /\ sending = NoChain /\ meant = Empty /\ told = "none" /\ polled = FALSE
    /\ doubts = 0

-----------------------------------------------------------------------------
(***************************************************************************)
(* The connection.  A session lasts as long: its secrets end with it.      *)
(***************************************************************************)
Connect ==
    /\ peer = "none"
    /\ peer' = "plain"
    /\ staged' = Empty /\ chain' = "none" /\ reasm' = <<>>
    /\ watching' = FALSE /\ last_reported' = "none"
    /\ unseen' = (link # "none")
    /\ sending' = NoChain /\ meant' = Empty /\ told' = "none" /\ polled' = FALSE
    /\ UNCHANGED <<passkey, gatt, commit, installed, reconfig, link, wifi, doubts>>

ShowPasskey ==
    /\ peer = "plain" /\ Idle
    /\ passkey' = TRUE
    /\ UNCHANGED <<peer, session, gatt, commit, installed, reconfig, link, unseen,
                   wifi, phone>>

(* Pairing complete or failed, or a bond of an earlier connection resumed. *)
Paired(level) ==
    /\ peer # "none" /\ Idle
    /\ peer' = level
    /\ passkey' = FALSE
    /\ UNCHANGED <<session, gatt, commit, installed, reconfig, link, unseen, wifi,
                   phone>>

Disconnected ==
    /\ peer # "none" /\ Idle
    /\ peer' = "none"
    /\ passkey' = FALSE
    /\ UNCHANGED <<session, gatt, commit, installed, reconfig, link, unseen, wifi,
                   phone>>

-----------------------------------------------------------------------------
(***************************************************************************)
(* One BluFi credential frame of the phone: a fragment announces the whole *)
(* length and carries a part; the last part comes in a plain frame.        *)
(***************************************************************************)
Fits(s, text) == Len(text) <= IF s = "Ssid" THEN SsidCap ELSE PskCap

(* Of a text that is none of the phone's it counts only whether it is a    *)
(* PSK below PROV_PSK_MIN.                                                 *)
Kept(s, text) == IF \E v \in Values(s) : text = Whole(v) THEN text
                 ELSE IF s = "Psk" /\ Len(text) < 2 THEN <<<<Scrap, 1>>>> ELSE Whole(Scrap)

Stage(s, text) ==
    staged' = IF Fits(s, text) THEN [staged EXCEPT ![s] = Kept(s, text)] ELSE staged

Reassembled_NoSwitch(s, part) == reasm \o part
Reassembled(s, part) == IF chain = s THEN reasm \o part ELSE part

PushFragment(s, total, part) ==
    LET text    == Reassembled(s, part)
        aborted == total > PskCap \/ Len(text) > PskCap
        more    == ~aborted /\ Len(text) < total
    IN  /\ chain' = IF more THEN s ELSE "none"
        /\ reasm' = IF more THEN text ELSE <<>>
        /\ IF aborted \/ more THEN UNCHANGED staged ELSE Stage(s, text)

PlainFrame(s, part) ==
    \/ chain = s /\ PushFragment(s, Len(reasm) + Len(part), part)
    \/ chain # s /\ Stage(s, part) /\ UNCHANGED <<chain, reasm>>

(* What the phone takes to be staged: the last text of each credential    *)
(* that fits.  Unsure stands for one it began over an unfinished chain of  *)
(* the same credential, or in fragments though it is above PROV_PSK_CAP.   *)
Unsure == [n \in 1 .. 3 |-> <<Scrap, n>>]
Doubts(s) == meant' = [meant EXCEPT ![s] = Unsure]
Again == doubts < MaxDoubts /\ doubts' = doubts + 1
Means(s, v) ==
    meant' = IF Fits(s, Whole(v)) THEN [meant EXCEPT ![s] = Whole(v)] ELSE meant

Elsewhere == UNCHANGED <<peer, passkey, watching, last_reported, gatt, commit,
                         installed, reconfig, link, unseen, wifi, told, polled>>

(* The phone sends a credential in one frame, whatever came before it, *)
SendWhole(s, v) ==
    /\ peer # "none" /\ Idle
    /\ PlainFrame(s, Whole(v))
    /\ \/ sending[1] = s /\ Again /\ Doubts(s) /\ sending' = NoChain
       \/ sending[1] # s /\ Means(s, v) /\ UNCHANGED <<sending, doubts>>
    /\ Elsewhere

(* or begins a chain, which abandons any other; *)
SendFirst(s, v) ==
    LET clean == sending[1] # s /\ Len(Whole(v)) <= PskCap
    IN  /\ peer # "none" /\ Idle
        /\ v \notin Tiny
        /\ PushFragment(s, Len(Whole(v)), SubSeq(Whole(v), 1, 1))
        /\ sending' = <<s, v, 1, clean>>
        /\ IF clean THEN UNCHANGED <<meant, doubts>> ELSE Again /\ Doubts(s)
        /\ Elsewhere

(* it goes on with it and ends it. *)
SendNext ==
    LET s     == sending[1]
        v     == sending[2]
        n     == sending[3] + 1
        clean == sending[4]
    IN  /\ peer # "none" /\ Idle
        /\ sending # NoChain
        /\ \/ /\ n < Len(Whole(v))
              /\ PushFragment(s, Len(Whole(v)), SubSeq(Whole(v), n, n))
              /\ sending' = <<s, v, n, clean>>
              /\ IF clean THEN UNCHANGED meant ELSE Doubts(s)
           \/ /\ n = Len(Whole(v))
              /\ PlainFrame(s, SubSeq(Whole(v), n, n))
              /\ IF clean THEN Means(s, v) ELSE Doubts(s)
              /\ sending' = NoChain
        /\ UNCHANGED doubts
        /\ Elsewhere

-----------------------------------------------------------------------------
(***************************************************************************)
(* apply_wifi_credentials, for ConnectToAp and for a write of the PSK      *)
(* characteristic: the checks, the wait for the card, the installation.    *)
(***************************************************************************)
Acceptable(c) ==
    /\ peer = "authenticated"
    /\ c.Ssid # <<>>
    /\ c.Psk = <<>> \/ Len(c.Psk) >= 2

ConnectToAp ==
    /\ peer # "none" /\ Idle
    /\ Acceptable(staged)
    /\ commit' = [by |-> "blufi", creds |-> staged]
    /\ UNCHANGED <<peer, passkey, session, gatt, installed, reconfig, link, unseen,
                   wifi, phone>>

WriteSsid(v) ==
    /\ peer # "none" /\ Idle
    /\ gatt' = [gatt EXCEPT !.Ssid = Whole(v)]
    /\ UNCHANGED <<peer, passkey, session, commit, installed, reconfig, link, unseen,
                   wifi, phone>>

WritePsk(v) ==
    LET new == [gatt EXCEPT !.Psk = Whole(v)]
    IN  /\ peer # "none" /\ Idle
        /\ \/ /\ Acceptable(new)
              /\ commit' = [by |-> "prov", creds |-> new]
              /\ gatt' = new
           \/ /\ ~Acceptable(new)
              /\ UNCHANGED <<commit, gatt>>
        /\ UNCHANGED <<peer, passkey, session, installed, reconfig, link, unseen,
                       wifi, phone>>

(***************************************************************************)
(* The avatar snapshot's link flag, which GetWifiStatus and the commit     *)
(* answer from: its setter, snapshot::update_wifi, has no caller.          *)
(***************************************************************************)
SnapshotConnected == FALSE

Report(up) == IF up THEN "Connected" ELSE "NotConnected"

ReplyStatus_Unrecorded ==
    /\ told' = Report(SnapshotConnected)
    /\ UNCHANGED last_reported
ReplyStatus ==
    /\ told' = Report(SnapshotConnected)
    /\ last_reported' = Report(SnapshotConnected)

Installs ==
    /\ installed' = commit.creds
    /\ reconfig' = commit.creds
    /\ commit' = NoCommit

CommittedBluFi ==
    /\ commit.by = "blufi"
    /\ Installs
    /\ staged' = [staged EXCEPT !.Psk = <<>>]
    /\ meant' = [meant EXCEPT !.Psk = <<>>]
    /\ watching' = TRUE
    /\ ReplyStatus
    /\ UNCHANGED <<peer, passkey, chain, reasm, gatt, link, unseen, wifi, sending, polled,
                   doubts>>

CommittedProv ==
    /\ commit.by = "prov"
    /\ Installs
    /\ gatt' = [gatt EXCEPT !.Psk = <<>>]
    /\ UNCHANGED <<peer, passkey, session, link, unseen, wifi, phone>>

(* The card refuses: an Error frame, nothing installed. *)
CommitFails ==
    /\ ~Idle
    /\ commit' = NoCommit
    /\ gatt' = IF commit.by = "prov" THEN [gatt EXCEPT !.Psk = <<>>] ELSE gatt
    /\ UNCHANGED <<peer, passkey, session, installed, reconfig, link, unseen, wifi,
                   phone>>

GetWifiStatus ==
    /\ peer # "none" /\ Idle
    /\ ReplyStatus
    /\ polled' = watching
    /\ UNCHANGED <<peer, passkey, staged, chain, reasm, watching, gatt, commit,
                   installed, reconfig, link, unseen, wifi, sending, meant, doubts>>

(* The receiver's turn: the latest state only, and no report twice in a row. *)
PushStatus ==
    /\ peer # "none" /\ Idle
    /\ watching /\ unseen
    /\ unseen' = FALSE
    /\ last_reported' = Report(link = "Connected")
    /\ told' = IF last_reported = Report(link = "Connected")
               THEN told ELSE Report(link = "Connected")
    /\ UNCHANGED <<peer, passkey, staged, chain, reasm, watching, gatt, commit,
                   installed, reconfig, link, wifi, sending, meant, polled, doubts>>

-----------------------------------------------------------------------------
(***************************************************************************)
(* The Wi-Fi task.  Enter is the way from credentials to the connection    *)
(* attempt; the radio is started once, for the first usable ones.          *)
(***************************************************************************)
Others == UNCHANGED <<peer, passkey, session, gatt, commit, installed, phone>>

Publish(l) == link' = l /\ unseen' = TRUE

Enter(c) ==
    /\ backoff' = 0
    /\ \/ /\ ~Usable(c)
          /\ task' = "waiting"
          /\ Publish("Disconnected")
       \/ /\ Usable(c)
          /\ started
          /\ task' = "connecting"
          /\ Publish("Connecting")
       \/ /\ Usable(c)
          /\ ~started
          /\ task' = "starting"
          /\ UNCHANGED <<link, unseen>>

Boot ==
    /\ task = "boot"
    /\ Enter(creds)
    /\ UNCHANGED <<creds, started, reconfig>>
    /\ Others

(* start_async fails: the task parks for good. *)
Start(ok) ==
    /\ task = "starting"
    /\ started' = ok
    /\ \/ ok /\ task' = "connecting" /\ Publish("Connecting")
       \/ ~ok /\ task' = "parked" /\ UNCHANGED <<link, unseen>>
    /\ UNCHANGED <<creds, backoff, reconfig>>
    /\ Others

(* New credentials, while waiting for them, connecting or backing off; *)
Reconfigured_KeepsOld ==
    /\ reconfig # NoSignal
    /\ reconfig' = NoSignal
    /\ task \in {"waiting", "connecting", "backoff"}
    /\ Enter(creds)
    /\ UNCHANGED <<creds, started>>
    /\ Others
Reconfigured ==
    /\ reconfig # NoSignal
    /\ reconfig' = NoSignal
    /\ task \in {"waiting", "connecting", "backoff"}
    /\ creds' = reconfig
    /\ Enter(reconfig)
    /\ UNCHANGED started
    /\ Others

(* while connected, the old network is left first. *)
Leaves ==
    /\ reconfig # NoSignal
    /\ reconfig' = NoSignal
    /\ task = "connected"
    /\ task' = "leaving"
    /\ creds' = reconfig
    /\ UNCHANGED <<started, backoff, link, unseen>>
    /\ Others

Left ==
    /\ task = "leaving"
    /\ Enter(creds)
    /\ UNCHANGED <<creds, started, reconfig>>
    /\ Others

Joins ==
    /\ task = "connecting"
    /\ creds = HomeNetwork
    /\ task' = "connected" /\ backoff' = 0
    /\ Publish("Connected")
    /\ UNCHANGED <<creds, started, reconfig>>
    /\ Others

JoinFails ==
    /\ task = "connecting"
    /\ task' = "backoff"
    /\ Publish("Disconnected")
    /\ UNCHANGED <<creds, started, backoff, reconfig>>
    /\ Others

Retries ==
    /\ task = "backoff"
    /\ task' = "connecting"
    /\ backoff' = IF backoff + 1 < Backoffs THEN backoff + 1 ELSE backoff
    /\ Publish("Connecting")
    /\ UNCHANGED <<creds, started, reconfig>>
    /\ Others

(* Disconnected is published, and Connecting at once after it. *)
LinkDrops ==
    /\ task = "connected"
    /\ task' = "connecting"
    /\ Publish("Connecting")
    /\ UNCHANGED <<creds, started, backoff, reconfig>>
    /\ Others

-----------------------------------------------------------------------------
Next ==
    \/ Connect
    \/ ShowPasskey
    \/ \E level \in {"plain", "authenticated"} : Paired(level)
    \/ Disconnected
    \/ \E s \in Subtypes : \E v \in Values(s) : SendWhole(s, v)
    \/ \E s \in Subtypes : \E v \in Values(s) : SendFirst(s, v)
    \/ SendNext
    \/ ConnectToAp
    \/ \E v \in Ssids \ (Long \cup Huge) : WriteSsid(v)
    \/ \E v \in Psks \ Huge : WritePsk(v)
    \/ CommittedBluFi
    \/ CommittedProv
    \/ CommitFails
    \/ GetWifiStatus
    \/ PushStatus
    \/ Boot
    \/ \E ok \in BOOLEAN : Start(ok)
    \/ Reconfigured
    \/ Leaves
    \/ Left
    \/ Joins
    \/ JoinFails
    \/ Retries
    \/ LinkDrops

Spec == Init /\ [][Next]_vars

(***************************************************************************)
(* The executor polls both tasks; an access point in range answers sooner  *)
(* or later.  The phone owes nothing.                                      *)
(***************************************************************************)
CommitEnds   == CommittedBluFi \/ CommittedProv \/ CommitFails
TaskSteps    == Boot \/ Start(TRUE) \/ Start(FALSE) \/ Left \/ Retries
TakesNetwork == Reconfigured \/ Leaves

FairSpec ==
    /\ Spec
    /\ WF_vars(PushStatus)
    /\ WF_vars(CommitEnds)
    /\ WF_vars(TaskSteps)
    /\ WF_vars(Joins \/ JoinFails)
    /\ WF_vars(TakesNetwork)
    /\ SF_vars(Joins)

(***************************************************************************)
(* Every variable stays in its range; a code is on the display only while  *)
(* a phone is connected, and a PSK is in the GATT table only during its    *)
(* commit.                                                                 *)
(***************************************************************************)
Texts(s) == {<<>>} \cup {Whole(v) : v \in Values(s)}
Credentials == [Ssid : Texts("Ssid"), Psk : Texts("Psk")]
TypeOK ==
    /\ peer \in {"none", "plain", "authenticated"}
    /\ passkey => peer # "none"
    /\ chain \in Subtypes \cup {"none"}
    /\ Len(reasm) <= PskCap /\ (chain = "none") = (reasm = <<>>)
    /\ Len(staged.Ssid) <= SsidCap /\ Len(staged.Psk) <= PskCap
    /\ watching \in BOOLEAN /\ polled \in BOOLEAN
    /\ last_reported \in {"none", "Connected", "NotConnected"}
    /\ gatt \in Credentials
    /\ gatt.Psk # <<>> => commit.by = "prov"
    /\ commit.by \in {"nobody", "blufi", "prov"}
    /\ installed.Psk # <<>> => installed.Ssid # <<>>
    /\ link \in Links \cup {"none"} /\ unseen \in BOOLEAN
    /\ started \in BOOLEAN /\ backoff \in 0 .. Backoffs - 1
    /\ (link = "Connected") = (task \in {"connected", "leaving"})

(***************************************************************************)
(* What is staged, and so what is committed, is the last text the phone    *)
(* sent whole, whatever whole frames and chains it mixed or abandoned.     *)
(* Two kinds of text are out (Unsure): one begun over an unfinished chain  *)
(* of the same credential is joined to the old pieces, even with a whole   *)
(* frame of the other in between, though BluFiSession's comment has the    *)
(* buffer reset "on a subtype switch mid-chain"; and of a chain given up   *)
(* for its length the last frame counts as a text.                         *)
(***************************************************************************)
Agrees(texts) == \A s \in Subtypes : meant[s] \in {Unsure, texts[s]}
StagedAsSent ==
    peer # "none" => Agrees(staged) /\ (commit.by = "blufi" => Agrees(commit.creds))

(***************************************************************************)
(* The hypothesis under which the liveness theorems are proved: each fair  *)
(* step can happen where its guards let it.  It says nothing of the code;  *)
(* it spells out ENABLED, which the provers cannot evaluate.               *)
(***************************************************************************)
Takes == {"waiting", "connecting", "backoff", "connected"}
NeverHeldUp ==
    /\ ~Idle => ENABLED <<CommitEnds>>_vars
    /\ task \in {"boot", "starting", "leaving", "backoff"} => ENABLED <<TaskSteps>>_vars
    /\ reconfig # NoSignal /\ task \in Takes => ENABLED <<TakesNetwork>>_vars
    /\ task = "connecting" /\ creds = HomeNetwork => ENABLED <<Joins>>_vars
    /\ peer # "none" /\ Idle /\ watching /\ unseen => ENABLED <<PushStatus>>_vars

(***************************************************************************)
(* No network is lost on its way: the one the configuration holds is in    *)
(* the signal, or else it is the one the Wi-Fi task works with.            *)
(***************************************************************************)
NetworkKept ==
    IF reconfig # NoSignal THEN reconfig = installed ELSE creds = installed

(***************************************************************************)
(* A phone that stays after its commit and does not poll was told how the  *)
(* link is, or a report is on its way: the receiver is behind, or the task *)
(* is about to publish on its way to another network.                      *)
(***************************************************************************)
ReportOwed ==
    peer # "none" /\ watching /\ ~polled =>
        \/ told = Report(link = "Connected")
        \/ unseen
        \/ task = "leaving"
        \/ reconfig # NoSignal /\ task \in Takes

(***************************************************************************)
(* The network given last is the one the device ends up on: commits that   *)
(* pile up in the one-value signal, or meet the task at any point of its   *)
(* loop, are not lost, unless the radio never started.  The GATT loop      *)
(* takes the phone's frames first: both properties speak of a phone that   *)
(* at last commits nothing more.                                           *)
(***************************************************************************)
Commits == ConnectToAp \/ \E v \in Psks \ Huge : WritePsk(v)
Quiet == <>[][~Commits]_vars

JoinsTheLast ==
    Quiet /\ <>[](installed = HomeNetwork) /\ <>[][~LinkDrops]_vars
        => <>[](task = "parked" \/ (link = "Connected" /\ creds = HomeNetwork))

(***************************************************************************)
(* "The phone observes the post-reconnect state without polling": a phone  *)
(* that stays after its commit and does not poll learns how the link came  *)
(* out, though the answer to the commit was recorded as a report and the   *)
(* receiver shows the latest state only.                                   *)
(***************************************************************************)
PhoneLearns ==
    \A l \in {"Connected", "NotConnected"} :
        Quiet /\ <>[](peer # "none" /\ watching /\ ~polled /\ Report(link = "Connected") = l)
            => <>[](told = l)

(***************************************************************************)
(* What server.rs says of GetWifiStatus: it replies "with the current      *)
(* STA-link state".  The flag it reads is never set.                       *)
(***************************************************************************)
StatusIsCurrent == [][GetWifiStatus => told' = Report(link = "Connected")]_vars
=============================================================================
