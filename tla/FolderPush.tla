----------------------------- MODULE FolderPush -----------------------------
(***************************************************************************)
(* A desktop pushes a folder over BLE onto the SD card: char_begin, then   *)
(* for each file file, chunks and file_end, then char_end, each of them    *)
(* acknowledged.                                                           *)
(*                                                                         *)
(*   src/crates/stackchan-firmware/src/desktop_control.rs     the receiver *)
(*   src/crates/stackchan-firmware/src/ble/desktop.rs         the channels *)
(*   src/crates/stackchan-desktop-protocol/src/frame.rs       the lines    *)
(*   src/crates/stackchan-firmware/src/storage.rs             the card     *)
(*                                                                         *)
(* Two things on the way lose messages: a full DESKTOP_INBOUND drops the   *)
(* oldest, and DESKTOP_OUTBOUND keeps only the newest reply, whoever wrote *)
(* it.  The desktop is external and sequential: it waits for the ack of    *)
(* each command; when none comes it sends the command again or gives up.   *)
(* Bytes are counted in chunks, and chunk i of transfer t is <<t, i>>.     *)
(***************************************************************************)
EXTENDS Integers, Sequences

CONSTANTS
    None,
    Absent, Torn,   \* a file that is not there; one cut short
    Folders, Files, \* names
    MaxFile,        \* MAX_DESKTOP_FILE_BYTES, in chunks
    InboxCap,       \* capacity of DESKTOP_INBOUND (4)
    MaxTransfers,   \* bound: files announced by the desktop
    MaxUpsets,      \* bound: lost lines and notifications, failures, resets
    MaxTraffic      \* bound: messages and replies that are no push

ASSUME SizesAssumption == MaxFile \in Nat /\ InboxCap \in Nat \ {0}
ASSUME BoundsAssumption ==
    MaxTransfers \in Nat /\ MaxUpsets \in Nat /\ MaxTraffic \in Nat
ASSUME NamesAssumption == None \notin Folders \union Files

Paths     == Folders \X Files
Transfers == 1 .. MaxTransfers
PushCmds  == {"char_begin", "file", "chunk", "file_end", "char_end"}

(* What a file holds after the first n chunks of transfer t.               *)
Content(t, n) == [i \in 1 .. n |-> <<t, i>>]

VARIABLES
    active_char, current_file,  \* PushState
    rebooting,      \* set_name waits before its reset
    inbox,          \* DESKTOP_INBOUND, as its subscriber sees it
    outbound,       \* DESKTOP_OUTBOUND
    connected,
    card,
    stage,          \* desktop: what it has open, as acknowledged
    folder, file,   \* desktop: what it pushes
    sent,           \* desktop: chunks of this file sent
    waits,          \* desktop: the command it waits for an ack of
    transfers,      \* desktop: files announced so far
    meant,          \* history: where each transfer was to land
    landed,         \* history: what the desktop knows to be on the card
    clean,          \* history: nothing went wrong in this push
    upsets, traffic \* how much of each bound is used

push    == <<active_char, current_file>>
plan    == <<folder, file, sent, transfers, meant>>
desktop == <<stage, waits, landed, clean, plan>>
bounds  == <<upsets, traffic>>
vars == <<push, rebooting, inbox, outbound, connected, card, desktop, bounds>>

Init ==
    /\ active_char = None /\ current_file = None
    /\ rebooting = FALSE
    /\ inbox = <<>> /\ outbound = None
    /\ connected = FALSE
    /\ card = [p \in Paths |-> Absent]
    /\ stage = "idle" /\ waits = None
    /\ folder = None /\ file = None /\ sent = 0
    /\ transfers = 0
    /\ meant = [t \in Transfers |-> None]
    /\ landed = [p \in Paths |-> None]
    /\ clean = FALSE
    /\ upsets = 0 /\ traffic = 0

Upset   == upsets < MaxUpsets /\ upsets' = upsets + 1 /\ UNCHANGED traffic
Traffic == traffic < MaxTraffic /\ traffic' = traffic + 1 /\ UNCHANGED upsets

-----------------------------------------------------------------------------
(* The receiver.  Each command is answered in the slot.                    *)

Ack(cmd, ok, n) == outbound' = [cmd |-> cmd, ok |-> ok, n |-> n]

CharBegin_KeepsFile(m) ==
    /\ m.cmd = "char_begin"
    /\ active_char' = IF m.legal THEN m.arg ELSE active_char
    /\ Ack("char_begin", m.legal, 0)
    /\ UNCHANGED <<current_file, card, clean>>
CharBegin(m) ==
    /\ m.cmd = "char_begin"
    /\ \/ /\ ~m.legal
          /\ Ack("char_begin", FALSE, 0)
          /\ UNCHANGED push
       \/ /\ m.legal
          /\ active_char' = m.arg
          /\ current_file' = None
          /\ Ack("char_begin", TRUE, 0)
    /\ UNCHANGED <<card, clean>>

FileStray(m) ==
    /\ active_char = None
    /\ Ack("file", FALSE, 0)
    /\ UNCHANGED push

FilePriorOpen(m) ==
    /\ active_char # None
    /\ current_file # None
    /\ Ack("file", FALSE, 0)
    /\ current_file' = None
    /\ UNCHANGED active_char

FileRejected(m) ==
    /\ active_char # None
    /\ current_file = None
    /\ ~m.legal
    /\ Ack("file", FALSE, 0)
    /\ UNCHANGED push

FileOpened(m) ==
    /\ active_char # None
    /\ current_file = None
    /\ m.legal
    /\ current_file' = [name |-> m.arg, buffer |-> <<>>]
    /\ Ack("file", TRUE, 0)
    /\ UNCHANGED active_char

FileAnnounce(m) ==
    /\ m.cmd = "file"
    /\ FileStray(m) \/ FilePriorOpen(m) \/ FileRejected(m) \/ FileOpened(m)
    /\ UNCHANGED <<card, clean>>

ChunkStray(m) ==
    /\ current_file = None
    /\ Ack("chunk", FALSE, 0)
    /\ UNCHANGED push

ChunkTooMuch(m) ==
    /\ current_file # None
    /\ Len(current_file.buffer) + 1 > MaxFile
    /\ Ack("chunk", FALSE, 0)
    /\ active_char' = None
    /\ current_file' = None

ChunkAppended_CountsData(m) ==
    /\ current_file # None
    /\ Len(current_file.buffer) + 1 <= MaxFile
    /\ current_file' = [current_file EXCEPT !.buffer = Append(@, m.arg)]
    /\ Ack("chunk", TRUE, 1)
    /\ UNCHANGED active_char
ChunkAppended_OneOver(m) ==
    /\ current_file # None
    /\ Len(current_file.buffer) <= MaxFile
    /\ current_file' = [current_file EXCEPT !.buffer = Append(@, m.arg)]
    /\ Ack("chunk", TRUE, Len(current_file.buffer) + 1)
    /\ UNCHANGED active_char
ChunkAppended(m) ==
    /\ current_file # None
    /\ Len(current_file.buffer) + 1 <= MaxFile
    /\ current_file' = [current_file EXCEPT !.buffer = Append(@, m.arg)]
    /\ Ack("chunk", TRUE, Len(current_file.buffer) + 1)
    /\ UNCHANGED active_char

Chunk(m) ==
    /\ m.cmd = "chunk"
    /\ ChunkStray(m) \/ ChunkTooMuch(m) \/ ChunkAppended(m)
    /\ UNCHANGED <<card, clean>>

Path == <<active_char, current_file.name>>

FileEndStray(m) ==
    /\ current_file = None \/ active_char = None
    /\ Ack("file_end", FALSE, 0)
    /\ current_file' = None
    /\ UNCHANGED <<active_char, card, clean, bounds>>

FileEndWritten(m) ==
    /\ current_file # None /\ active_char # None
    /\ card' = [card EXCEPT ![Path] = current_file.buffer]
    /\ Ack("file_end", TRUE, Len(current_file.buffer))
    /\ current_file' = None
    /\ UNCHANGED <<active_char, clean, bounds>>

FileEndFails_Acked(m) ==
    /\ current_file # None /\ active_char # None
    /\ Upset
    /\ card' \in {card, [card EXCEPT ![Path] = Torn]}
    /\ Ack("file_end", TRUE, Len(current_file.buffer))
    /\ current_file' = None
    /\ UNCHANGED <<active_char, clean>>

(* No card, or a write that failed before or after the truncation.         *)
FileEndFails(m) ==
    /\ current_file # None /\ active_char # None
    /\ Upset
    /\ card' \in {card, [card EXCEPT ![Path] = Torn]}
    /\ Ack("file_end", FALSE, 0)
    /\ current_file' = None
    /\ clean' = FALSE
    /\ UNCHANGED active_char

FileEnd(m) ==
    /\ m.cmd = "file_end"
    /\ FileEndStray(m) \/ FileEndWritten(m) \/ FileEndFails(m)

CharEnd(m) ==
    /\ m.cmd = "char_end"
    /\ active_char' = None
    /\ current_file' = None
    /\ Ack("char_end", current_file = None /\ active_char # None, 0)
    /\ UNCHANGED <<card, clean>>

(* status, owner, unpair: an ack that changes nothing here.                *)
Query(m) ==
    /\ m.cmd = "status"
    /\ Ack("status", TRUE, 0)
    /\ UNCHANGED <<push, card, clean>>

(* A snapshot, a turn or a time-sync: no ack.                              *)
Unanswered(m) ==
    /\ m.cmd = "snapshot"
    /\ UNCHANGED <<push, outbound, card, clean>>

(* A name that reached the card is answered, and reset for 250 ms later.   *)
SetName(m) ==
    /\ m.cmd = "name"
    /\ \E stored \in BOOLEAN :
        /\ Ack("name", stored, 0)
        /\ rebooting' = stored
    /\ UNCHANGED <<push, card, clean>>

Handle(m) ==
    \/ /\ \/ CharBegin(m) \/ FileAnnounce(m) \/ Chunk(m) \/ CharEnd(m)
          \/ Query(m) \/ Unanswered(m)
       /\ UNCHANGED <<rebooting, bounds>>
    \/ FileEnd(m) /\ UNCHANGED rebooting
    \/ SetName(m) /\ UNCHANGED bounds

Receive ==
    /\ ~rebooting
    /\ inbox # <<>>
    /\ inbox' = Tail(inbox)
    /\ Handle(Head(inbox))
    /\ UNCHANGED <<connected, stage, waits, landed, plan>>

-----------------------------------------------------------------------------
(* The BLE loop.                                                           *)

LastOf(s, n) == IF Len(s) <= n THEN s ELSE SubSeq(s, Len(s) - n + 1, Len(s))

(* A full channel drops the oldest message a subscriber has not read.      *)
Publish(m) == inbox' = LastOf(Append(inbox, m), InboxCap)

(* A line that is too long, or does not parse, is skipped without a reply. *)
LineSkipped == UNCHANGED inbox

Ingest(m) ==
    \/ Publish(m) /\ UNCHANGED bounds
    \/ LineSkipped /\ Upset

(* gatt_events_task starts with an empty slot, and the desktop afresh.     *)
Connect ==
    /\ ~connected
    /\ ~rebooting
    /\ inbox = <<>>
    /\ connected' = TRUE
    /\ outbound' = None
    /\ stage' = "idle"
    /\ waits' = None
    /\ UNCHANGED <<push, rebooting, inbox, card, landed, clean, plan, bounds>>

Disconnect ==
    /\ connected
    /\ Upset
    /\ connected' = FALSE
    /\ UNCHANGED <<push, rebooting, inbox, outbound, card, desktop>>

RamCleared ==
    /\ active_char' = None /\ current_file' = None
    /\ rebooting' = FALSE
    /\ inbox' = <<>> /\ outbound' = None

(* The reset of set_name, a panic, or power that goes, in the latter case  *)
(* perhaps in the middle of file_end's write.                              *)
Reset ==
    /\ \/ rebooting /\ UNCHANGED bounds
       \/ ~rebooting /\ Upset
    /\ \/ UNCHANGED card
       \/ /\ ~rebooting /\ current_file # None /\ active_char # None
          /\ inbox # <<>> /\ Head(inbox).cmd = "file_end"
          /\ card' = [card EXCEPT ![Path] = Torn]
    /\ RamCleared
    /\ connected' = FALSE
    /\ stage' = "idle"
    /\ waits' = None
    /\ UNCHANGED <<landed, clean, plan>>

(* The permission task answers a prompt through the same slot.             *)
Decide ==
    /\ Traffic
    /\ outbound' = [cmd |-> "permission", ok |-> TRUE, n |-> 0]
    /\ UNCHANGED <<push, rebooting, inbox, connected, card, desktop>>

-----------------------------------------------------------------------------
(* The desktop.                                                            *)

Message(cmd, arg, legal) == [cmd |-> cmd, arg |-> arg, legal |-> legal]

(* Heartbeats and other commands go between those of the push.             *)
OtherMessage ==
    /\ connected
    /\ Traffic
    /\ \E cmd \in {"status", "snapshot", "name"} : Publish(Message(cmd, None, TRUE))
    /\ UNCHANGED <<push, rebooting, outbound, connected, card, desktop>>

Say(m) ==
    /\ connected
    /\ waits = None
    /\ waits' = m
    /\ Ingest(m)
    /\ UNCHANGED <<push, rebooting, outbound, connected, card>>

SayCharBegin ==
    /\ stage = "idle"
    /\ \E name \in Folders, legal \in BOOLEAN :
        /\ Say(Message("char_begin", name, legal))
        /\ folder' = name
        /\ clean' = legal
    /\ UNCHANGED <<stage, file, sent, transfers, meant, landed>>

(* From here on the desktop knows nothing of what the card has there.      *)
SayFile ==
    /\ stage = "folder"
    /\ transfers < MaxTransfers
    /\ transfers' = transfers + 1
    /\ \E name \in Files, legal \in BOOLEAN :
        /\ Say(Message("file", name, legal))
        /\ file' = name
        /\ meant' = [meant EXCEPT ![transfers + 1] = <<folder, name>>]
        /\ landed' = [landed EXCEPT ![<<folder, name>>] = None]
        /\ clean' = (clean /\ legal)
    /\ sent' = 0
    /\ UNCHANGED <<stage, folder>>

(* The desktop may send more than a file may hold.                         *)
SayChunk ==
    /\ stage = "file"
    /\ sent <= MaxFile
    /\ Say(Message("chunk", <<transfers, sent + 1>>, TRUE))
    /\ sent' = sent + 1
    /\ clean' = (clean /\ sent < MaxFile)
    /\ UNCHANGED <<stage, folder, file, transfers, meant, landed>>

SayFileEnd ==
    /\ stage = "file"
    /\ Say(Message("file_end", None, TRUE))
    /\ UNCHANGED <<stage, landed, clean, plan>>

(* At the end of the folder, or when the operator cancels a file.          *)
SayCharEnd ==
    /\ stage \in {"folder", "file"}
    /\ Say(Message("char_end", None, TRUE))
    /\ clean' = (clean /\ stage = "folder")
    /\ UNCHANGED <<stage, landed, plan>>

(* No ack is on its way any more.                                          *)
TimedOut == connected /\ waits # None /\ inbox = <<>> /\ outbound = None

SayAgain ==
    /\ TimedOut
    /\ Ingest(waits)
    /\ clean' = FALSE
    /\ UNCHANGED <<push, rebooting, outbound, connected, card, stage, waits, landed, plan>>

GiveUp ==
    /\ TimedOut
    /\ stage' = "idle"
    /\ waits' = None
    /\ UNCHANGED <<push, rebooting, inbox, outbound, connected, card, landed, clean, plan, bounds>>

Expected(ack) == waits # None /\ ack.cmd = waits.cmd

(* The counter must say what the desktop has sent.                         *)
Agreed(ack) ==
    /\ ack.ok
    /\ ack.cmd \in {"chunk", "file_end"} => ack.n = sent

Reached(cmd) ==
    CASE cmd \in {"char_begin", "file_end"} -> "folder"
      [] cmd \in {"file", "chunk"} -> "file"
      [] OTHER -> "idle"

(* notify_desktop_outbound has sent a reply.                               *)
Hear ==
    /\ connected
    /\ outbound # None
    /\ outbound' = None
    /\ \/ /\ ~Expected(outbound)
          /\ UNCHANGED <<stage, waits, landed, bounds>>
       \/ /\ Expected(outbound) /\ ~Agreed(outbound)
          /\ stage' = "idle" /\ waits' = None
          /\ UNCHANGED <<landed, bounds>>
       \/ /\ Expected(outbound) /\ Agreed(outbound)
          /\ stage' = Reached(waits.cmd) /\ waits' = None
          /\ landed' = IF waits.cmd = "file_end"
                       THEN [landed EXCEPT ![<<folder, file>>] = Content(transfers, sent)]
                       ELSE landed
          /\ UNCHANGED bounds
       \/ Upset /\ UNCHANGED <<stage, waits, landed>>      \* the notification failed
    /\ UNCHANGED <<push, rebooting, inbox, connected, card, clean, plan>>

Link == Connect \/ Disconnect \/ Reset \/ Decide
Desktop ==
    \/ SayCharBegin \/ SayFile \/ SayChunk \/ SayFileEnd \/ SayCharEnd
    \/ SayAgain \/ GiveUp \/ Hear \/ OtherMessage

Next == Receive \/ Link \/ Desktop

Spec == Init /\ [][Next]_vars

-----------------------------------------------------------------------------

Cmds == PushCmds \union {"status", "snapshot", "name"}
Messages == [cmd : Cmds, legal : BOOLEAN,
             arg : Folders \union Files \union (Transfers \X Nat) \union {None}]
Replies == [cmd : Cmds \union {"permission"}, ok : BOOLEAN, n : 0 .. MaxFile]

(* None is no message, no reply and no open file.                          *)
ASSUME SentinelAssumption ==
    /\ None \notin Messages \union Replies
    /\ None \notin [name : Files, buffer : Seq(Transfers \X Nat)]

(* What the receiver, the channels and the desktop work with.              *)
TypeOK ==
    /\ active_char \in Folders \union {None}
    /\ current_file # None =>
        /\ active_char # None
        /\ current_file.name \in Files
        /\ current_file.buffer \in Seq(Transfers \X Nat)
        /\ Len(current_file.buffer) <= MaxFile
    /\ {rebooting, connected, clean} \subseteq BOOLEAN
    /\ inbox \in Seq(Messages) /\ Len(inbox) <= InboxCap
    /\ outbound \in Replies \union {None}
    /\ waits \in Messages \union {None}
    /\ stage \in {"idle", "folder", "file"}
    /\ folder \in Folders \union {None} /\ file \in Files \union {None}
    /\ transfers \in 0 .. MaxTransfers
    /\ sent \in 0 .. MaxFile + 1

(* What the desktop was told has landed is on the card, in that folder     *)
(* under that name, whole and with every chunk once: file_end compares the *)
(* buffer with nothing, so only the counters of the acks, the reset at     *)
(* char_begin and one command at a time make it so.                        *)
LandedIsOnCard ==
    \A p \in Paths : landed[p] # None => card[p] = landed[p]

(* Whatever the messages lost, the file an interrupted push left open and  *)
(* the folder it was for, no file on the card has chunks of two transfers, *)
(* a gap, or the place of another transfer.                                *)
NothingForeign ==
    \A p \in Paths :
        card[p] \in {Absent, Torn}
        \/ \E t \in Transfers : meant[t] = p /\ card[p] = Content(t, Len(card[p]))

(* The receiver never gets wedged between attempts: whatever state the     *)
(* last one left, a new one that sends each command once and meets no      *)
(* failure of the card is never refused.                                   *)
UndisturbedAccepted ==
    clean /\ connected /\ outbound # None /\ Expected(outbound) => outbound.ok

(* Seen from the card and the desktop alone, the push delivers one file at *)
(* a time: no retry, late command or cut write touches a place other than  *)
(* the one announced last, or one the desktop already knows about.         *)
Place == IF transfers = 0 THEN None ELSE meant[transfers]

Delivery == INSTANCE FileDelivery WITH place <- Place

DeliversInTurn == Delivery!Spec
=============================================================================
