-------------------------- MODULE FolderPushProofs --------------------------
(***************************************************************************)
(* Proofs about FolderPush, for any folders, files, sizes and bounds.      *)
(***************************************************************************)
EXTENDS FolderPush, SequenceTheorems, TLAPS

Pushes(m) == m.cmd \in PushCmds
Opened    == [name : Files, buffer : Seq(Transfers \X Nat)]
Texts     == Seq(Transfers \X Nat)

(***************************************************************************)
(* TypeOK and what it leaves out: histories, card and counters.            *)
(***************************************************************************)
PushOK ==
    /\ active_char \in Folders \union {None}
    /\ current_file \in Opened \union {None}
    /\ current_file # None => active_char # None /\ Len(current_file.buffer) <= MaxFile
ChannelOK ==
    /\ inbox \in Seq(Messages) /\ Len(inbox) <= InboxCap
    /\ outbound \in Replies \union {None}
DesktopOK ==
    /\ waits \in Messages \union {None}
    /\ stage \in {"idle", "folder", "file"}
    /\ folder \in Folders \union {None} /\ file \in Files \union {None}
    /\ transfers \in 0 .. MaxTransfers
    /\ sent \in 0 .. MaxFile + 1
    /\ meant \in [Transfers -> Paths \union {None}]
    /\ landed \in [Paths -> Texts \union {None}]
CardOK  == card \in [Paths -> Texts \union {Absent, Torn}]
FlagsOK == rebooting \in BOOLEAN /\ connected \in BOOLEAN /\ clean \in BOOLEAN

Types == PushOK /\ ChannelOK /\ DesktopOK /\ CardOK /\ FlagsOK

(***************************************************************************)
(* One command is under way, or its ack: the one the desktop waits for.    *)
(***************************************************************************)
FlightInv ==
    /\ waits # None => Pushes(waits)
    /\ \A i \in 1 .. Len(inbox) : Pushes(inbox[i]) =>
          /\ waits # None /\ inbox[i] = waits
          /\ outbound # None => outbound.cmd \notin PushCmds
          /\ \A j \in 1 .. Len(inbox) : Pushes(inbox[j]) => j = i
    /\ outbound # None /\ outbound.cmd \in PushCmds =>
          waits # None /\ outbound.cmd = waits.cmd

(* The command was done, and the desktop will be told so.                  *)
Acked == outbound # None /\ outbound.cmd \in PushCmds /\ outbound.ok

(* The receiver in the folder, no file open; a file open with n chunks.    *)
Open     == active_char = folder /\ folder \in Folders /\ current_file = None
Holds(n) ==
    /\ active_char = folder /\ folder \in Folders
    /\ current_file = [name |-> file, buffer |-> Content(transfers, n)]

(* The transfer under way has its place, and nothing is known to be there. *)
Announced ==
    /\ transfers \in Transfers
    /\ folder \in Folders /\ file \in Files
    /\ meant[transfers] = <<folder, file>>
    /\ landed[<<folder, file>>] = None

(***************************************************************************)
(* What the desktop may take for granted at each stage.  Before its        *)
(* char_begin has been acknowledged it is nothing: an earlier push may     *)
(* have left any folder and file open.                                     *)
(***************************************************************************)
IdleInv ==
    stage = "idle" /\ waits # None =>
        /\ waits.cmd = "char_begin" /\ waits.arg = folder /\ folder \in Folders
        /\ Acked => Open

FolderInv ==
    stage = "folder" =>
        \/ waits = None /\ Open
        \/ waits # None /\ waits.cmd = "char_end"
        \/ /\ waits # None /\ waits.cmd = "file"
           /\ waits.arg = file /\ sent = 0
           /\ Announced
           /\ Open \/ Holds(0)
           /\ Acked => Holds(0)

(* A chunk that is sent again is there twice, and its counter says so.     *)
ChunkInv ==
    /\ waits # None /\ waits.cmd = "chunk"
    /\ waits.arg = <<transfers, sent>> /\ sent >= 1
    /\ \/ Holds(sent - 1) \/ Holds(sent)
       \/ current_file = None \/ Len(current_file.buffer) > sent
    /\ Acked /\ outbound.n = sent => Holds(sent)

FileEndInv ==
    /\ waits # None /\ waits.cmd = "file_end"
    /\ Holds(sent) \/ Open
    /\ Acked /\ outbound.n = sent =>
          Open /\ card[<<folder, file>>] = Content(transfers, sent)

FileInv ==
    stage = "file" =>
        /\ Announced
        /\ \/ waits = None /\ Holds(sent)
           \/ waits # None /\ waits.cmd = "char_end"
           \/ ChunkInv
           \/ FileEndInv

(***************************************************************************)
(* NothingForeign, of the transfers so far.                                *)
(***************************************************************************)
ForeignInv ==
    \A p \in Paths :
        card[p] \in {Absent, Torn}
        \/ \E t \in 1 .. transfers : meant[t] = p /\ card[p] = Content(t, Len(card[p]))

(***************************************************************************)
(* In a push that nothing disturbed, the command under way finds what it   *)
(* needs.                                                                  *)
(***************************************************************************)
Fresh ==
    /\ waits.legal
    /\ waits.cmd = "file" => Open
    /\ waits.cmd = "chunk" => Holds(sent - 1) /\ sent <= MaxFile
    /\ waits.cmd = "file_end" => Holds(sent)
    /\ waits.cmd = "char_end" => Open

CleanInv ==
    clean =>
        /\ (\E i \in 1 .. Len(inbox) : Pushes(inbox[i])) => Fresh
        /\ outbound # None /\ outbound.cmd \in PushCmds => outbound.ok

Inv == /\ Types /\ FlightInv /\ IdleInv /\ FolderInv /\ FileInv
       /\ ForeignInv /\ LandedIsOnCard /\ CleanInv

-----------------------------------------------------------------------------
LEMMA Sizes ==
    /\ MaxFile \in Nat /\ InboxCap \in Nat /\ InboxCap > 0
    /\ MaxTransfers \in Nat
    /\ None \notin Folders /\ None \notin Files
    /\ None \notin Messages /\ None \notin Replies /\ None \notin Opened
  BY SizesAssumption, BoundsAssumption, NamesAssumption, SentinelAssumption DEF Opened

LEMMA NoLength == Len(<<>>) = 0 /\ \A t : Len(t) # 0 => t # <<>>
<1>1. Len(<<>>) = 0
  BY EmptySeq
<1> QED
  BY <1>1, Zenon

(* The first n chunks of a transfer, and the next one.                     *)
LEMMA Chunks ==
    ASSUME NEW t \in Transfers, NEW n \in Nat
    PROVE  /\ Content(t, n) \in Texts
           /\ Len(Content(t, n)) = n
           /\ Append(Content(t, n), <<t, n + 1>>) = Content(t, n + 1)
<1>1. Content(t, n) \in Texts /\ Len(Content(t, n)) = n
  BY DEF Content, Texts
<1>2. Content(t, n + 1) \in Texts /\ Len(Content(t, n + 1)) = n + 1
  BY DEF Content, Texts
<1> DEFINE s == Append(Content(t, n), <<t, n + 1>>)
<1>3. s \in Texts /\ Len(s) = n + 1
      /\ \A i \in 1 .. n : s[i] = Content(t, n)[i]
      /\ s[n + 1] = <<t, n + 1>>
  BY <1>1, AppendProperties DEF Texts
<1>4. \A i \in 1 .. n + 1 : s[i] = Content(t, n + 1)[i]
  <2> SUFFICES ASSUME NEW i \in 1 .. n + 1 PROVE s[i] = Content(t, n + 1)[i]
    OBVIOUS
  <2>1. CASE i = n + 1
    BY <1>3, <2>1 DEF Content
  <2>2. CASE i # n + 1
    BY <1>3, <2>2 DEF Content
  <2> QED
    BY <2>1, <2>2
<1>5. s = Content(t, n + 1)
  <2> HIDE DEF s
  <2> QED
    BY <1>2, <1>3, <1>4, SeqEqual DEF Texts
<1> QED
  BY <1>1, <1>5

(* What a message adds to the channel, and what it may push out.           *)
LEMMA Published ==
    ASSUME inbox \in Seq(Messages), NEW m \in Messages, Publish(m)
    PROVE  /\ inbox' \in Seq(Messages) /\ Len(inbox') <= InboxCap
           /\ \E d \in Nat :
                /\ Len(inbox') + d = Len(inbox) + 1
                /\ \A i \in 1 .. Len(inbox') :
                      inbox'[i] = IF i + d <= Len(inbox) THEN inbox[i + d] ELSE m
<1> DEFINE s == Append(inbox, m)
<1>1. /\ s \in Seq(Messages) /\ Len(s) = Len(inbox) + 1
      /\ \A i \in 1 .. Len(inbox) : s[i] = inbox[i]
      /\ s[Len(inbox) + 1] = m
  BY AppendProperties
<1>2. Len(inbox) \in Nat /\ \A i \in 1 .. Len(s) : s[i] \in Messages
  BY <1>1, LenProperties, ElementOfSeq
<1>3. inbox' = LastOf(s, InboxCap)
  BY DEF Publish
<1> HIDE DEF s
<1>4. CASE Len(s) <= InboxCap
  <2>1. inbox' = s
    BY <1>3, <1>4 DEF LastOf
  <2>2. /\ Len(inbox') + 0 = Len(inbox) + 1
        /\ \A i \in 1 .. Len(inbox') :
              inbox'[i] = IF i + 0 <= Len(inbox) THEN inbox[i + 0] ELSE m
    BY <2>1, <1>1, <1>2
  <2> QED
    BY <2>1, <2>2, <1>1, <1>4
<1>5. CASE ~(Len(s) <= InboxCap)
  <2> DEFINE d == Len(s) - InboxCap
  <2>1. inbox' = SubSeq(s, d + 1, Len(s))
    BY <1>3, <1>5 DEF LastOf
  <2>2. d \in Nat /\ d + InboxCap = Len(s)
    BY <1>1, <1>2, <1>5, Sizes
  <2> HIDE DEF d
  <2>3. d + 1 \in Int /\ Len(s) \in Int /\ \A i \in d + 1 .. Len(s) : s[i] \in Messages
    BY <1>1, <1>2, <2>2
  <2>4. /\ inbox' \in Seq(Messages) /\ Len(inbox') = InboxCap
        /\ \A i \in 1 .. InboxCap : inbox'[i] = s[d + 1 + i - 1]
    BY <2>1, <2>2, <2>3, <1>1, <1>2, Sizes, SubSeqProperties
  <2>5. \A i \in 1 .. InboxCap : inbox'[i] = s[i + d] /\ i + d \in 1 .. Len(inbox) + 1
    BY <2>2, <2>4, <1>1, <1>2, Sizes
  <2>6. /\ Len(inbox') + d = Len(inbox) + 1
        /\ \A i \in 1 .. Len(inbox') :
              inbox'[i] = IF i + d <= Len(inbox) THEN inbox[i + d] ELSE m
    BY <2>2, <2>4, <2>5, <1>1, <1>2
  <2> QED
    BY <2>2, <2>4, <2>6, Sizes
<1> QED
  BY <1>4, <1>5

(* What a receive leaves.                                                  *)
LEMMA Received ==
    ASSUME inbox \in Seq(Messages), inbox # <<>>, inbox' = Tail(inbox)
    PROVE  /\ Head(inbox) \in Messages /\ inbox' \in Seq(Messages)
           /\ Len(inbox) \in Nat /\ Len(inbox) > 0 /\ Len(inbox') = Len(inbox) - 1
           /\ Head(inbox) = inbox[1]
           /\ \A i \in 1 .. Len(inbox') : inbox'[i] = inbox[i + 1]
<1>1. /\ Head(inbox) \in Messages /\ inbox' \in Seq(Messages)
      /\ Len(inbox') = Len(inbox) - 1
      /\ \A i \in 1 .. Len(inbox') : inbox'[i] = inbox[i + 1]
  BY HeadTailProperties
<1>2. Len(inbox) \in Nat /\ Len(inbox) > 0
  BY <1>1, LenProperties, EmptySeq
<1> QED
  BY <1>1, <1>2

-----------------------------------------------------------------------------
(* A command of the push enters a channel that has none.                   *)
LEMMA SaidFlight ==
    ASSUME inbox \in Seq(Messages), Len(inbox) <= InboxCap, NEW m \in Messages, Pushes(m), Ingest(m),
           \A i \in 1 .. Len(inbox) : ~Pushes(inbox[i]),
           waits' = m, outbound' = outbound,
           outbound # None => outbound.cmd \notin PushCmds
    PROVE  FlightInv' /\ inbox' \in Seq(Messages) /\ Len(inbox') <= InboxCap
<1>0. m # None
  BY Sizes
<1>1. CASE Publish(m)
  <2>1. PICK d \in Nat :
            /\ Len(inbox') + d = Len(inbox) + 1
            /\ \A i \in 1 .. Len(inbox') :
                  inbox'[i] = IF i + d <= Len(inbox) THEN inbox[i + d] ELSE m
    BY <1>1, Published
  <2>2. inbox' \in Seq(Messages) /\ Len(inbox') <= InboxCap /\ Len(inbox) \in Nat /\ Len(inbox') \in Nat
    BY <1>1, Published, LenProperties
  <2>3. ASSUME NEW i \in 1 .. Len(inbox'), Pushes(inbox'[i])
        PROVE  i = Len(inbox') /\ inbox'[i] = m
    BY <2>1, <2>2, <2>3
  <2> QED
    BY <1>0, <2>2, <2>3 DEF FlightInv, Pushes
<1>2. CASE LineSkipped
  BY <1>0, <1>2 DEF LineSkipped, FlightInv, Pushes
<1> QED
  BY <1>1, <1>2 DEF Ingest

(* Any other message leaves at most the commands that were there.          *)
LEMMA OtherFlight ==
    ASSUME Types, FlightInv, NEW m \in Messages, ~Pushes(m), Publish(m),
           UNCHANGED <<waits, outbound>>
    PROVE  /\ FlightInv' /\ inbox' \in Seq(Messages) /\ Len(inbox') <= InboxCap
           /\ (\E i \in 1 .. Len(inbox') : Pushes(inbox'[i])) =>
                 \E i \in 1 .. Len(inbox) : Pushes(inbox[i])
<1>0. inbox \in Seq(Messages) /\ Len(inbox) \in Nat
  BY LenProperties DEF Types, ChannelOK
<1>1. PICK d \in Nat :
          /\ Len(inbox') + d = Len(inbox) + 1
          /\ \A i \in 1 .. Len(inbox') :
                inbox'[i] = IF i + d <= Len(inbox) THEN inbox[i + d] ELSE m
  BY <1>0, Published
<1>2. inbox' \in Seq(Messages) /\ Len(inbox') <= InboxCap /\ Len(inbox') \in Nat
  BY <1>0, Published, LenProperties
<1>3. ASSUME NEW i \in 1 .. Len(inbox'), Pushes(inbox'[i])
      PROVE  i + d \in 1 .. Len(inbox) /\ inbox'[i] = inbox[i + d]
  BY <1>0, <1>1, <1>2, <1>3
<1>4. ASSUME NEW i \in 1 .. Len(inbox'), Pushes(inbox'[i]),
             NEW j \in 1 .. Len(inbox'), Pushes(inbox'[j])
      PROVE  j = i
  <2>1. i + d \in 1 .. Len(inbox) /\ Pushes(inbox[i + d])
        /\ j + d \in 1 .. Len(inbox) /\ Pushes(inbox[j + d])
    BY <1>3, <1>4
  <2>2. j + d = i + d
    BY <2>1 DEF FlightInv
  <2> QED
    BY <2>2, <1>2
<1>5. ASSUME NEW i \in 1 .. Len(inbox'), Pushes(inbox'[i])
      PROVE  /\ waits # None /\ inbox'[i] = waits
             /\ outbound # None => outbound.cmd \notin PushCmds
             /\ \E k \in 1 .. Len(inbox) : Pushes(inbox[k])
  <2>1. i + d \in 1 .. Len(inbox) /\ Pushes(inbox[i + d]) /\ inbox'[i] = inbox[i + d]
    BY <1>3, <1>5
  <2> QED
    BY <2>1 DEF FlightInv
<1> QED
  BY <1>2, <1>4, <1>5 DEF FlightInv, Pushes

LEMMA InvTypes == Inv => TypeOK
  BY DEF Inv, Types, PushOK, ChannelOK, DesktopOK, FlagsOK, TypeOK, Opened

LEMMA InvNothingForeign == Inv => NothingForeign
<1> SUFFICES ASSUME Inv, NEW p \in Paths, card[p] \notin {Absent, Torn}
             PROVE  \E t \in Transfers : meant[t] = p /\ card[p] = Content(t, Len(card[p]))
  BY DEF NothingForeign
<1>1. PICK t \in 1 .. transfers : meant[t] = p /\ card[p] = Content(t, Len(card[p]))
  BY DEF Inv, ForeignInv
<1>2. t \in Transfers
  BY Sizes DEF Inv, Types, DesktopOK, Transfers
<1> QED
  BY <1>1, <1>2

LEMMA InvAccepted == Inv => UndisturbedAccepted
<1> SUFFICES ASSUME Inv, clean, outbound # None, Expected(outbound) PROVE outbound.ok
  BY DEF UndisturbedAccepted
<1>1. outbound.cmd \in PushCmds
  BY DEF Expected, Inv, FlightInv, Pushes
<1> QED
  BY <1>1 DEF Inv, CleanInv

(* Where the desktop is while it waits for the ack of each command.        *)
LEMMA StageOf ==
    ASSUME Inv, waits # None
    PROVE  /\ waits.cmd = "char_begin" => stage = "idle" /\ waits.arg = folder /\ folder \in Folders
           /\ waits.cmd = "file" =>
                 /\ stage = "folder" /\ waits.arg = file /\ sent = 0
                 /\ Announced /\ (Open \/ Holds(0))
           /\ waits.cmd = "chunk" => stage = "file" /\ Announced /\ ChunkInv
           /\ waits.cmd = "file_end" => stage = "file" /\ Announced /\ FileEndInv
           /\ waits.cmd = "char_end" => stage \in {"folder", "file"}
<1>1. CASE stage = "idle"
  BY <1>1 DEF Inv, IdleInv
<1>2. CASE stage = "folder"
  BY <1>2 DEF Inv, FolderInv
<1>3. CASE stage = "file"
  <2>1. Announced /\ (waits.cmd = "char_end" \/ ChunkInv \/ FileEndInv)
    BY <1>3 DEF Inv, FileInv
  <2>2. waits.cmd = "char_end" \/ (ChunkInv /\ waits.cmd = "chunk") \/ (FileEndInv /\ waits.cmd = "file_end")
    BY <2>1 DEF ChunkInv, FileEndInv
  <2> QED
    BY <1>3, <2>1, <2>2, Zenon
<1> QED
  BY <1>1, <1>2, <1>3 DEF Inv, Types, DesktopOK

(***************************************************************************)
(* Nothing that the desktop relies on moves, and no new success is told.   *)
(***************************************************************************)
LEMMA Undisturbed ==
    ASSUME Inv, UNCHANGED <<push, stage, waits, plan, landed, card>>,
           outbound' = outbound \/ ~Acked'
    PROVE  IdleInv' /\ FolderInv' /\ FileInv' /\ ForeignInv' /\ LandedIsOnCard'
<1>1. Open' = Open /\ Announced' = Announced /\ (\A n : Holds(n)' = Holds(n))
  BY DEF Open, Announced, Holds, push, plan
<1>2. Acked' => Acked /\ outbound' = outbound
  BY DEF Acked
<1>3. IdleInv'
  BY <1>1, <1>2 DEF Inv, IdleInv, plan
<1>4. FolderInv'
  BY <1>1, <1>2 DEF Inv, FolderInv, plan
<1>5. FileInv'
  <2>1. ChunkInv => ChunkInv'
    <3>1. SUFFICES ASSUME ChunkInv PROVE ChunkInv'
      OBVIOUS
    <3>2. Acked' /\ outbound'.n = sent => Holds(sent)
      BY <1>2, <3>1 DEF ChunkInv
    <3> QED
      BY <1>1, <3>1, <3>2 DEF ChunkInv, plan, push
  <2>2. FileEndInv => FileEndInv'
    BY <1>1, <1>2 DEF FileEndInv, plan
  <2> QED
    BY <1>1, <2>1, <2>2 DEF Inv, FileInv, plan
<1>6. ForeignInv' /\ LandedIsOnCard'
  BY DEF Inv, ForeignInv, LandedIsOnCard, plan
<1> QED
  BY <1>3, <1>4, <1>5, <1>6

(* The desktop begins anew: a connection, a reset, or it gave up.          *)
LEMMA Anew ==
    ASSUME Inv, stage' = "idle", waits' = None, inbox' = <<>>, outbound' = None
    PROVE  FlightInv' /\ IdleInv' /\ FolderInv' /\ FileInv' /\ CleanInv'
<1>1. Len(inbox') = 0
  BY NoLength
<1>2. FlightInv' /\ CleanInv'
  BY <1>1 DEF FlightInv, CleanInv
<1> QED
  BY <1>2 DEF IdleInv, FolderInv, FileInv

(* What is written lies where the transfer under way belongs.              *)
LEMMA Written ==
    ASSUME Inv, Announced, NEW v, card' = [card EXCEPT ![<<folder, file>>] = v],
           v = Torn \/ \E n \in Nat : v = Content(transfers, n),
           UNCHANGED <<transfers, meant, landed>>
    PROVE  CardOK' /\ ForeignInv' /\ LandedIsOnCard'
<1> DEFINE q == <<folder, file>>
<1>1. q \in Paths /\ transfers \in 1 .. transfers /\ meant[transfers] = q /\ landed[q] = None
  BY Sizes DEF Announced, Paths, Transfers
<1>2. v \in Texts \union {Absent, Torn} /\ (v = Torn \/ v = Content(transfers, Len(v)))
  <2>1. ASSUME NEW n \in Nat, v = Content(transfers, n)
        PROVE  v \in Texts /\ v = Content(transfers, Len(v))
    BY <2>1, Chunks DEF Announced
  <2> QED
    BY <2>1
<1>3. card \in [Paths -> Texts \union {Absent, Torn}] /\ card' = [card EXCEPT ![q] = v]
  BY DEF Inv, Types, CardOK
<1> HIDE DEF q
<1>4. CardOK'
  BY <1>1, <1>2, <1>3 DEF CardOK
<1>5. card'[q] = v /\ \A p \in Paths : p # q => card'[p] = card[p]
  BY <1>1, <1>3
<1>6. ForeignInv'
  <2> SUFFICES ASSUME NEW p \in Paths, card'[p] \notin {Absent, Torn}
               PROVE  \E t \in 1 .. transfers : meant[t] = p /\ card'[p] = Content(t, Len(card'[p]))
    BY DEF ForeignInv
  <2>1. CASE p = q
    BY <1>1, <1>2, <1>5, <2>1
  <2>2. CASE p # q
    BY <1>5, <2>2 DEF Inv, ForeignInv
  <2> QED
    BY <2>1, <2>2
<1>7. LandedIsOnCard'
  BY <1>1, <1>5 DEF Inv, LandedIsOnCard
<1> QED
  BY <1>4, <1>6, <1>7

-----------------------------------------------------------------------------
LEMMA InitInv == Init => Inv
<1> SUFFICES ASSUME Init PROVE Inv
  OBVIOUS
<1>1. Types
  <2>1. PushOK /\ CardOK /\ FlagsOK
    BY DEF Init, PushOK, CardOK, FlagsOK
  <2>2. ChannelOK
    BY Sizes, NoLength DEF Init, ChannelOK
  <2>3. DesktopOK
    BY Sizes DEF Init, DesktopOK
  <2> QED
    BY <2>1, <2>2, <2>3 DEF Types
<1>2. FlightInv /\ CleanInv
  BY NoLength DEF Init, FlightInv, CleanInv
<1>3. IdleInv /\ FolderInv /\ FileInv /\ ForeignInv /\ LandedIsOnCard
  BY DEF Init, IdleInv, FolderInv, FileInv, ForeignInv, LandedIsOnCard
<1> QED
  BY <1>1, <1>2, <1>3 DEF Inv

(* The BLE loop.                                                           *)
LEMMA ConnectInv ==
    ASSUME Inv, Connect
    PROVE  Inv'
<1>1. inbox' = <<>> /\ outbound' = None /\ stage' = "idle" /\ waits' = None
      /\ connected' = TRUE
      /\ UNCHANGED <<push, rebooting, card, landed, clean, plan>>
  BY DEF Connect
<1>2. Types'
  <2>1. PushOK' /\ CardOK' /\ FlagsOK'
    BY <1>1 DEF Inv, Types, PushOK, CardOK, FlagsOK, push
  <2>2. ChannelOK'
    BY <1>1, Sizes, NoLength DEF ChannelOK
  <2>3. DesktopOK'
    BY <1>1 DEF Inv, Types, DesktopOK, plan
  <2> QED
    BY <2>1, <2>2, <2>3 DEF Types
<1>3. ForeignInv' /\ LandedIsOnCard'
  BY <1>1 DEF Inv, ForeignInv, LandedIsOnCard, plan
<1> QED
  BY <1>1, <1>2, <1>3, Anew DEF Inv

LEMMA GiveUpInv ==
    ASSUME Inv, GiveUp
    PROVE  Inv'
<1>1. inbox' = <<>> /\ outbound' = None /\ stage' = "idle" /\ waits' = None
      /\ UNCHANGED <<push, rebooting, connected, card, landed, clean, plan>>
  BY DEF GiveUp, TimedOut
<1>2. Types'
  <2>1. PushOK' /\ CardOK' /\ FlagsOK'
    BY <1>1 DEF Inv, Types, PushOK, CardOK, FlagsOK, push
  <2>2. ChannelOK'
    BY <1>1, Sizes, NoLength DEF ChannelOK
  <2>3. DesktopOK'
    BY <1>1 DEF Inv, Types, DesktopOK, plan
  <2> QED
    BY <2>1, <2>2, <2>3 DEF Types
<1>3. ForeignInv' /\ LandedIsOnCard'
  BY <1>1 DEF Inv, ForeignInv, LandedIsOnCard, plan
<1> QED
  BY <1>1, <1>2, <1>3, Anew DEF Inv

(* What lies at the head of the channel is what the desktop waits for.     *)
LEMMA HeadOf ==
    ASSUME Inv, inbox # <<>>, Pushes(Head(inbox))
    PROVE  /\ waits # None /\ Head(inbox) = waits
           /\ outbound # None => outbound.cmd \notin PushCmds
           /\ \A j \in 1 .. Len(inbox) : Pushes(inbox[j]) => j = 1
           /\ clean => Fresh
<1>1. Len(inbox) \in Nat /\ Len(inbox) > 0 /\ Head(inbox) = inbox[1]
  BY LenProperties, EmptySeq DEF Inv, Types, ChannelOK
<1>2. 1 \in 1 .. Len(inbox) /\ Pushes(inbox[1])
  BY <1>1
<1> QED
  BY <1>1, <1>2 DEF Inv, FlightInv, CleanInv

(* At file_end a file that is open is the one under way.                   *)
LEMMA FileEndPlace ==
    ASSUME Inv, waits # None, waits.cmd = "file_end", current_file # None
    PROVE  /\ Announced /\ stage = "file" /\ Holds(sent)
           /\ Path = <<folder, file>> /\ current_file.buffer = Content(transfers, sent)
           /\ sent \in Nat
<1>1. Announced /\ stage = "file" /\ FileEndInv
  BY StageOf
<1>2. Holds(sent)
  BY <1>1 DEF FileEndInv, Open
<1>3. sent \in Nat
  BY Sizes DEF Inv, Types, DesktopOK
<1> QED
  BY <1>1, <1>2, <1>3 DEF Holds, Path

LEMMA ResetInv ==
    ASSUME Inv, Reset
    PROVE  Inv'
<1>1. /\ inbox' = <<>> /\ outbound' = None /\ stage' = "idle" /\ waits' = None
      /\ active_char' = None /\ current_file' = None
      /\ rebooting' = FALSE /\ connected' = FALSE
      /\ UNCHANGED <<landed, clean, plan>>
  BY DEF Reset, RamCleared
<1>2. CardOK' /\ ForeignInv' /\ LandedIsOnCard'
  <2>1. CASE UNCHANGED card
    BY <1>1, <2>1 DEF Inv, Types, CardOK, ForeignInv, LandedIsOnCard, plan
  <2>2. CASE /\ current_file # None /\ active_char # None
             /\ inbox # <<>> /\ Head(inbox).cmd = "file_end"
             /\ card' = [card EXCEPT ![Path] = Torn]
    <3>1. Pushes(Head(inbox))
      BY <2>2 DEF Pushes, PushCmds
    <3>2. waits # None /\ waits.cmd = "file_end"
      BY <2>2, <3>1, HeadOf
    <3>3. Announced /\ card' = [card EXCEPT ![<<folder, file>>] = Torn]
      BY <2>2, <3>2, FileEndPlace
    <3>4. UNCHANGED <<transfers, meant, landed>>
      BY <1>1 DEF plan
    <3> QED
      BY <3>3, <3>4, Written
  <2> QED
    BY <2>1, <2>2 DEF Reset
<1>3. Types'
  <2>1. PushOK' /\ FlagsOK'
    BY <1>1 DEF Inv, Types, PushOK, FlagsOK
  <2>2. ChannelOK'
    BY <1>1, Sizes, NoLength DEF ChannelOK
  <2>3. DesktopOK'
    BY <1>1 DEF Inv, Types, DesktopOK, plan
  <2> QED
    BY <1>2, <2>1, <2>2, <2>3 DEF Types
<1> QED
  BY <1>1, <1>2, <1>3, Anew DEF Inv

LEMMA LinkInv ==
    ASSUME Inv, Disconnect \/ Decide
    PROVE  Inv'
<1>1. /\ UNCHANGED <<push, rebooting, inbox, card, stage, waits, landed, clean, plan>>
      /\ connected' \in BOOLEAN
      /\ \/ outbound' = outbound
         \/ outbound' = [cmd |-> "permission", ok |-> TRUE, n |-> 0]
  BY DEF Disconnect, Decide, desktop, Inv, Types, FlagsOK
<1>2. outbound' = outbound \/ ~(outbound' # None /\ outbound'.cmd \in PushCmds)
  BY <1>1 DEF PushCmds
<1>3. Types'
  <2>1. PushOK' /\ CardOK' /\ FlagsOK'
    BY <1>1 DEF Inv, Types, PushOK, CardOK, FlagsOK, push
  <2>2. ChannelOK'
    <3>1. [cmd |-> "permission", ok |-> TRUE, n |-> 0] \in Replies
      BY Sizes DEF Replies
    <3> QED
      BY <1>1, <3>1 DEF Inv, Types, ChannelOK
  <2>3. DesktopOK'
    BY <1>1 DEF Inv, Types, DesktopOK, plan
  <2> QED
    BY <2>1, <2>2, <2>3 DEF Types
<1>4. FlightInv'
  BY <1>1, <1>2 DEF Inv, FlightInv, Pushes
<1>5. CleanInv'
  <2>1. Fresh' = Fresh
    BY <1>1 DEF Fresh, Open, Holds, push, plan
  <2> QED
    BY <1>1, <1>2, <2>1 DEF Inv, CleanInv, Pushes
<1> QED
  BY <1>1, <1>2, <1>3, <1>4, <1>5, Undisturbed DEF Inv, Acked

-----------------------------------------------------------------------------
(* The desktop.                                                            *)
LEMMA OtherMessageInv ==
    ASSUME Inv, OtherMessage
    PROVE  Inv'
<1>1. UNCHANGED <<push, rebooting, outbound, connected, card, stage, waits, landed, clean, plan>>
  BY DEF OtherMessage, desktop
<1>2. PICK m \in Messages : ~Pushes(m) /\ Publish(m)
  <2>1. PICK cmd \in {"status", "snapshot", "name"} : Publish(Message(cmd, None, TRUE))
    BY DEF OtherMessage
  <2>2. Message(cmd, None, TRUE) \in Messages /\ ~Pushes(Message(cmd, None, TRUE))
    BY DEF Message, Messages, Cmds, Pushes, PushCmds
  <2> QED
    BY <2>1, <2>2
<1>3. /\ FlightInv' /\ inbox' \in Seq(Messages) /\ Len(inbox') <= InboxCap
      /\ (\E i \in 1 .. Len(inbox') : Pushes(inbox'[i])) =>
            \E i \in 1 .. Len(inbox) : Pushes(inbox[i])
  BY <1>1, <1>2, OtherFlight DEF Inv
<1>4. Types'
  <2>1. PushOK' /\ CardOK' /\ FlagsOK'
    BY <1>1 DEF Inv, Types, PushOK, CardOK, FlagsOK, push
  <2>2. ChannelOK'
    BY <1>1, <1>3 DEF Inv, Types, ChannelOK
  <2>3. DesktopOK'
    BY <1>1 DEF Inv, Types, DesktopOK, plan
  <2> QED
    BY <2>1, <2>2, <2>3 DEF Types
<1>5. CleanInv'
  <2>1. Fresh' = Fresh
    BY <1>1 DEF Fresh, Open, Holds, push, plan
  <2> QED
    BY <1>1, <1>3, <2>1 DEF Inv, CleanInv, Pushes
<1> QED
  BY <1>1, <1>3, <1>4, <1>5, Undisturbed DEF Inv

LEMMA SayAgainInv ==
    ASSUME Inv, SayAgain
    PROVE  Inv'
<1>1. /\ UNCHANGED <<push, rebooting, outbound, connected, card, stage, waits, landed, plan>>
      /\ clean' = FALSE /\ waits # None /\ inbox = <<>> /\ outbound = None /\ Ingest(waits)
  BY DEF SayAgain, TimedOut
<1>2. /\ waits \in Messages /\ Pushes(waits)
      /\ inbox \in Seq(Messages) /\ Len(inbox) <= InboxCap
      /\ \A i \in 1 .. Len(inbox) : ~Pushes(inbox[i])
  BY <1>1, NoLength DEF Inv, Types, DesktopOK, ChannelOK, FlightInv
<1>3. FlightInv' /\ inbox' \in Seq(Messages) /\ Len(inbox') <= InboxCap
  <2>1. waits' = waits /\ outbound' = outbound
    BY <1>1
  <2> QED
    BY <1>1, <1>2, <2>1, SaidFlight
<1>4. Types'
  <2>1. PushOK' /\ CardOK' /\ FlagsOK'
    BY <1>1 DEF Inv, Types, PushOK, CardOK, FlagsOK, push
  <2>2. ChannelOK'
    BY <1>1, <1>3 DEF Inv, Types, ChannelOK
  <2>3. DesktopOK'
    BY <1>1 DEF Inv, Types, DesktopOK, plan
  <2> QED
    BY <2>1, <2>2, <2>3 DEF Types
<1>5. CleanInv'
  BY <1>1 DEF CleanInv
<1> QED
  BY <1>1, <1>3, <1>4, <1>5, Undisturbed DEF Inv

(* The desktop sends a command: none is under way, and no ack of one.      *)
LEMMA Said ==
    ASSUME Inv, NEW m \in Messages, Pushes(m), Say(m)
    PROVE  /\ waits = None /\ waits' = m /\ waits' # None
           /\ UNCHANGED <<push, rebooting, outbound, connected, card>>
           /\ ~Acked /\ ~Acked'
           /\ FlightInv' /\ ChannelOK' /\ PushOK' /\ CardOK'
           /\ (clean' => Fresh') => CleanInv'
<1>1. /\ waits = None /\ waits' = m /\ Ingest(m)
      /\ UNCHANGED <<push, rebooting, outbound, connected, card>>
  BY DEF Say
<1>2. /\ \A i \in 1 .. Len(inbox) : ~Pushes(inbox[i])
      /\ outbound # None => outbound.cmd \notin PushCmds
      /\ inbox \in Seq(Messages) /\ Len(inbox) <= InboxCap
  BY <1>1 DEF Inv, FlightInv, Types, ChannelOK
<1>3. FlightInv' /\ inbox' \in Seq(Messages) /\ Len(inbox') <= InboxCap
  <2>1. outbound' = outbound
    BY <1>1
  <2> QED
    BY <1>1, <1>2, <2>1, SaidFlight
<1>4. ~Acked /\ ~Acked'
  BY <1>1, <1>2 DEF Acked
<1>5. ChannelOK' /\ PushOK' /\ CardOK'
  BY <1>1, <1>3 DEF Inv, Types, ChannelOK, PushOK, CardOK, push
<1>6. (clean' => Fresh') => CleanInv'
  BY <1>1, <1>2 DEF CleanInv
<1> QED
  BY <1>1, <1>3, <1>4, <1>5, <1>6, Sizes

LEMMA SayCharBeginInv ==
    ASSUME Inv, SayCharBegin
    PROVE  Inv'
<1>1. PICK name \in Folders, legal \in BOOLEAN :
          Say(Message("char_begin", name, legal)) /\ folder' = name /\ clean' = legal
  BY DEF SayCharBegin
<1> DEFINE m == Message("char_begin", name, legal)
<1>2. /\ m \in Messages /\ Pushes(m)
      /\ m.cmd = "char_begin" /\ m.arg = name /\ m.legal = legal
  BY DEF Message, Messages, Cmds, Pushes, PushCmds
<1> HIDE DEF m
<1>3. stage = "idle" /\ UNCHANGED <<stage, file, sent, transfers, meant, landed>>
  BY DEF SayCharBegin
<1>4. /\ waits = None /\ waits' = m /\ waits' # None
      /\ UNCHANGED <<push, rebooting, outbound, connected, card>>
      /\ ~Acked /\ ~Acked'
      /\ FlightInv' /\ ChannelOK' /\ PushOK' /\ CardOK'
      /\ (clean' => Fresh') => CleanInv'
  <2>1. Say(m)
    BY <1>1 DEF m
  <2> QED
    BY <1>2, <2>1, Said
<1>5. DesktopOK' /\ FlagsOK'
  BY <1>1, <1>2, <1>3, <1>4 DEF Inv, Types, DesktopOK, FlagsOK
<1>6. IdleInv' /\ FolderInv' /\ FileInv'
  BY <1>1, <1>2, <1>3, <1>4 DEF IdleInv, FolderInv, FileInv
<1>7. ForeignInv' /\ LandedIsOnCard'
  BY <1>3, <1>4 DEF Inv, ForeignInv, LandedIsOnCard
<1>8. CleanInv'
  <2>1. clean' => Fresh'
    BY <1>1, <1>2, <1>4 DEF Fresh
  <2> QED
    BY <1>4, <2>1
<1> QED
  BY <1>4, <1>5, <1>6, <1>7, <1>8 DEF Inv, Types

LEMMA SayFileInv ==
    ASSUME Inv, SayFile
    PROVE  Inv'
<1>1. PICK name \in Files, legal \in BOOLEAN :
          /\ Say(Message("file", name, legal))
          /\ file' = name
          /\ meant' = [meant EXCEPT ![transfers + 1] = <<folder, name>>]
          /\ landed' = [landed EXCEPT ![<<folder, name>>] = None]
          /\ clean' = (clean /\ legal)
  BY DEF SayFile
<1> DEFINE m == Message("file", name, legal)
<1>2. /\ m \in Messages /\ Pushes(m)
      /\ m.cmd = "file" /\ m.arg = name /\ m.legal = legal
  BY DEF Message, Messages, Cmds, Pushes, PushCmds
<1> HIDE DEF m
<1>3. /\ stage = "folder" /\ transfers < MaxTransfers
      /\ transfers' = transfers + 1 /\ sent' = 0
      /\ UNCHANGED <<stage, folder>>
  BY DEF SayFile
<1>4. /\ waits = None /\ waits' = m /\ waits' # None
      /\ UNCHANGED <<push, rebooting, outbound, connected, card>>
      /\ ~Acked /\ ~Acked'
      /\ FlightInv' /\ ChannelOK' /\ PushOK' /\ CardOK'
      /\ (clean' => Fresh') => CleanInv'
  <2>1. Say(m)
    BY <1>1 DEF m
  <2> QED
    BY <1>2, <2>1, Said
<1>5. Open
  BY <1>3, <1>4 DEF Inv, FolderInv
<1>6. /\ transfers \in 0 .. MaxTransfers /\ transfers + 1 \in Transfers
      /\ <<folder, name>> \in Paths
      /\ meant \in [Transfers -> Paths \union {None}]
      /\ landed \in [Paths -> Texts \union {None}]
  BY <1>3, <1>5, Sizes DEF Inv, Types, DesktopOK, Transfers, Paths, Open
<1>7. /\ meant' \in [Transfers -> Paths \union {None}]
      /\ meant'[transfers + 1] = <<folder, name>>
      /\ \A t \in 1 .. transfers : meant'[t] = meant[t]
  <2>1. \A t \in 1 .. transfers : t \in Transfers /\ t # transfers + 1
    BY <1>6, Sizes DEF Transfers
  <2> QED
    BY <1>1, <1>6, <2>1
<1>8. /\ landed' \in [Paths -> Texts \union {None}]
      /\ landed'[<<folder, name>>] = None
      /\ \A p \in Paths : landed'[p] = landed[p] \/ landed'[p] = None
  BY <1>1, <1>6
<1>9. DesktopOK' /\ FlagsOK'
  <2>1. transfers' \in 0 .. MaxTransfers /\ sent' \in 0 .. MaxFile + 1
    BY <1>3, <1>6, Sizes
  <2> QED
    BY <1>1, <1>2, <1>3, <1>4, <1>7, <1>8, <2>1 DEF Inv, Types, DesktopOK, FlagsOK
<1>10. Open' /\ Announced'
  <2>1. Open'
    BY <1>3, <1>4, <1>5 DEF Open, push
  <2> QED
    BY <1>1, <1>3, <1>6, <1>7, <1>8, <2>1 DEF Announced, Open
<1>11. IdleInv' /\ FolderInv' /\ FileInv'
  BY <1>1, <1>2, <1>3, <1>4, <1>10 DEF IdleInv, FolderInv, FileInv
<1>12. ForeignInv'
  <2> SUFFICES ASSUME NEW p \in Paths, card[p] \notin {Absent, Torn}
               PROVE  \E t \in 1 .. transfers' : meant'[t] = p /\ card[p] = Content(t, Len(card[p]))
    BY <1>4 DEF ForeignInv
  <2>1. PICK t \in 1 .. transfers : meant[t] = p /\ card[p] = Content(t, Len(card[p]))
    BY DEF Inv, ForeignInv
  <2>2. t \in 1 .. transfers'
    BY <1>3, <1>6
  <2> QED
    BY <1>7, <2>1, <2>2
<1>13. LandedIsOnCard'
  BY <1>4, <1>8 DEF Inv, LandedIsOnCard
<1>14. CleanInv'
  <2>1. clean' => Fresh'
    BY <1>1, <1>2, <1>4, <1>10 DEF Fresh
  <2> QED
    BY <1>4, <2>1
<1> QED
  BY <1>4, <1>9, <1>11, <1>12, <1>13, <1>14 DEF Inv, Types

(* The last three leave all but the counter as it is.                      *)
LEMMA SayOnInv ==
    ASSUME Inv, SayChunk \/ SayFileEnd \/ SayCharEnd
    PROVE  Inv'
<1>1. PICK m \in Messages :
          /\ Pushes(m) /\ Say(m) /\ m.legal
          /\ \/ /\ stage = "file" /\ m.cmd = "chunk" /\ m.arg = <<transfers, sent + 1>>
                /\ sent <= MaxFile /\ sent' = sent + 1 /\ clean' = (clean /\ sent < MaxFile)
             \/ /\ stage = "file" /\ m.cmd = "file_end" /\ sent' = sent /\ clean' = clean
             \/ /\ stage \in {"folder", "file"} /\ m.cmd = "char_end" /\ sent' = sent
                /\ clean' = (clean /\ stage = "folder")
          /\ UNCHANGED <<stage, folder, file, transfers, meant, landed>>
  <2>1. CASE SayChunk
    <3> DEFINE m == Message("chunk", <<transfers, sent + 1>>, TRUE)
    <3>1. transfers \in Transfers /\ sent \in Nat
      BY <2>1, Sizes DEF SayChunk, Inv, FileInv, Announced, Types, DesktopOK
    <3>2. m \in Messages /\ Pushes(m) /\ m.cmd = "chunk" /\ m.legal /\ m.arg = <<transfers, sent + 1>>
      BY <3>1 DEF Message, Messages, Cmds, Pushes, PushCmds
    <3>3. Say(m)
      BY <2>1 DEF SayChunk
    <3> HIDE DEF m
    <3> QED
      BY <2>1, <3>2, <3>3 DEF SayChunk
  <2>2. CASE SayFileEnd
    <3> DEFINE m == Message("file_end", None, TRUE)
    <3>2. m \in Messages /\ Pushes(m) /\ m.cmd = "file_end" /\ m.legal
      BY DEF Message, Messages, Cmds, Pushes, PushCmds
    <3>3. Say(m)
      BY <2>2 DEF SayFileEnd
    <3> HIDE DEF m
    <3> QED
      BY <2>2, <3>2, <3>3 DEF SayFileEnd, plan
  <2>3. CASE SayCharEnd
    <3> DEFINE m == Message("char_end", None, TRUE)
    <3>2. m \in Messages /\ Pushes(m) /\ m.cmd = "char_end" /\ m.legal
      BY DEF Message, Messages, Cmds, Pushes, PushCmds
    <3>3. Say(m)
      BY <2>3 DEF SayCharEnd
    <3> HIDE DEF m
    <3> QED
      BY <2>3, <3>2, <3>3 DEF SayCharEnd, plan
  <2> QED
    BY <2>1, <2>2, <2>3
<1>4. /\ waits = None /\ waits' = m /\ waits' # None
      /\ UNCHANGED <<push, rebooting, outbound, connected, card>>
      /\ ~Acked /\ ~Acked'
      /\ FlightInv' /\ ChannelOK' /\ PushOK' /\ CardOK'
      /\ (clean' => Fresh') => CleanInv'
  BY <1>1, Said
<1>5. sent \in 0 .. MaxFile + 1 /\ sent' \in 0 .. MaxFile + 1
  <2>1. sent \in 0 .. MaxFile + 1
    BY DEF Inv, Types, DesktopOK
  <2>2. sent' = sent \/ (sent <= MaxFile /\ sent' = sent + 1)
    BY <1>1
  <2> QED
    BY <2>1, <2>2, Sizes
<1>6. DesktopOK' /\ FlagsOK'
  <2>1. clean' \in BOOLEAN
    BY <1>1 DEF Inv, Types, FlagsOK
  <2> QED
    BY <1>1, <1>4, <1>5, <2>1 DEF Inv, Types, DesktopOK, FlagsOK
<1>7. /\ stage = "file" => Announced /\ Announced' /\ Holds(sent)
      /\ stage = "folder" => Open
      /\ Open' = Open /\ \A n : Holds(n)' = Holds(n)
  BY <1>1, <1>4 DEF Inv, FileInv, FolderInv, Announced, Holds, Open, push, ChunkInv, FileEndInv
<1>8. IdleInv' /\ FolderInv'
  BY <1>1, <1>4 DEF IdleInv, FolderInv
<1>9. FileInv'
  <2>1. CASE stage = "file" /\ m.cmd = "chunk"
    <3>1. sent' = sent + 1 /\ m.arg = <<transfers, sent + 1>>
      BY <1>1, <2>1
    <3>2. sent' - 1 = sent /\ sent' >= 1
      BY <1>5, <3>1
    <3>4. active_char' = folder' /\ folder' \in Folders
          /\ current_file' = [name |-> file', buffer |-> Content(transfers', sent' - 1)]
      BY <1>1, <1>4, <1>7, <2>1, <3>2 DEF Holds, push
    <3> QED
      BY <1>1, <1>4, <1>7, <2>1, <3>1, <3>2, <3>4 DEF FileInv, ChunkInv, Holds
  <2>2. CASE stage = "file" /\ m.cmd = "file_end"
    <3>1. sent' = sent
      BY <1>1, <2>2
    <3>2. active_char' = folder' /\ folder' \in Folders
          /\ current_file' = [name |-> file', buffer |-> Content(transfers', sent')]
      BY <1>1, <1>4, <1>7, <2>2, <3>1 DEF Holds, push
    <3> QED
      BY <1>1, <1>4, <1>7, <2>2, <3>2 DEF FileInv, FileEndInv, Holds
  <2>3. CASE stage = "file" /\ m.cmd = "char_end"
    BY <1>1, <1>4, <1>7, <2>3 DEF FileInv
  <2> QED
    BY <1>1, <2>1, <2>2, <2>3 DEF FileInv
<1>10. ForeignInv' /\ LandedIsOnCard'
  BY <1>1, <1>4 DEF Inv, ForeignInv, LandedIsOnCard
<1>11. CleanInv'
  <2>1. ASSUME clean' PROVE Fresh'
    <3>1. CASE m.cmd = "chunk"
      <4>1. sent' = sent + 1 /\ sent < MaxFile /\ stage = "file"
        BY <1>1, <2>1, <3>1
      <4>2. sent' - 1 = sent /\ sent' <= MaxFile
        BY <1>5, <4>1, Sizes
      <4>3. active_char' = folder' /\ folder' \in Folders
            /\ current_file' = [name |-> file', buffer |-> Content(transfers', sent' - 1)]
        BY <1>1, <1>4, <1>7, <4>1, <4>2 DEF Holds, push
      <4> QED
        BY <1>1, <1>4, <3>1, <4>2, <4>3 DEF Fresh, Holds
    <3>2. CASE m.cmd = "file_end"
      <4>1. sent' = sent /\ stage = "file"
        BY <1>1, <3>2
      <4>3. active_char' = folder' /\ folder' \in Folders
            /\ current_file' = [name |-> file', buffer |-> Content(transfers', sent')]
        BY <1>1, <1>4, <1>7, <4>1 DEF Holds, push
      <4> QED
        BY <1>1, <1>4, <3>2, <4>3 DEF Fresh, Holds
    <3>3. CASE m.cmd = "char_end"
      <4>1. stage = "folder" /\ Open'
        BY <1>1, <1>7, <2>1, <3>3
      <4> QED
        BY <1>1, <1>4, <3>3, <4>1 DEF Fresh
    <3> QED
      BY <1>1, <3>1, <3>2, <3>3
  <2> QED
    BY <1>4, <2>1
<1> QED
  BY <1>4, <1>6, <1>8, <1>9, <1>10, <1>11 DEF Inv, Types

(* The desktop hears the ack of its command: no command is under way.      *)
LEMMA HeardFlight ==
    ASSUME Inv, outbound # None, Expected(outbound), waits' = None,
           outbound' = None, inbox' = inbox
    PROVE  FlightInv' /\ CleanInv' /\ outbound.cmd \in PushCmds /\ (outbound.ok => Acked)
<1>1. waits # None /\ outbound.cmd = waits.cmd /\ outbound.cmd \in PushCmds
  BY DEF Expected, Inv, FlightInv, Pushes
<1>2. \A k \in 1 .. Len(inbox) : ~Pushes(inbox[k])
  BY <1>1 DEF Inv, FlightInv
<1>3. FlightInv' /\ CleanInv'
  BY <1>2 DEF FlightInv, CleanInv, Pushes
<1> QED
  BY <1>1, <1>3 DEF Acked

LEMMA HearInv ==
    ASSUME Inv, Hear
    PROVE  Inv'
<1>1. /\ outbound # None /\ outbound' = None
      /\ UNCHANGED <<push, rebooting, inbox, connected, card, clean, plan>>
  BY DEF Hear
<1>2. PushOK' /\ ChannelOK' /\ CardOK' /\ FlagsOK'
  BY <1>1 DEF Inv, Types, PushOK, ChannelOK, CardOK, FlagsOK, push
<1>3. ~Acked'
  BY <1>1 DEF Acked
<1>4. CASE UNCHANGED <<stage, waits, landed>>
  <2>1. DesktopOK'
    BY <1>1, <1>4 DEF Inv, Types, DesktopOK, plan
  <2>2. FlightInv'
    BY <1>1, <1>4 DEF Inv, FlightInv, Pushes
  <2>3. Fresh' = Fresh
    BY <1>1, <1>4 DEF Fresh, Open, Holds, push, plan
  <2>4. CleanInv'
    BY <1>1, <2>3 DEF Inv, CleanInv, Pushes
  <2> QED
    BY <1>1, <1>2, <1>3, <1>4, <2>1, <2>2, <2>4, Undisturbed DEF Inv, Types
<1>5. CASE Expected(outbound) /\ stage' = "idle" /\ waits' = None /\ UNCHANGED landed
  <2>1. DesktopOK'
    BY <1>1, <1>5 DEF Inv, Types, DesktopOK, plan
  <2>2. FlightInv' /\ CleanInv'
    BY <1>1, <1>5, HeardFlight
  <2>3. IdleInv' /\ FolderInv' /\ FileInv'
    BY <1>5 DEF IdleInv, FolderInv, FileInv
  <2>4. ForeignInv' /\ LandedIsOnCard'
    BY <1>1, <1>5 DEF Inv, ForeignInv, LandedIsOnCard, plan
  <2> QED
    BY <1>2, <2>1, <2>2, <2>3, <2>4 DEF Inv, Types
<1>6. CASE /\ Expected(outbound) /\ Agreed(outbound)
           /\ stage' = Reached(waits.cmd) /\ waits' = None
           /\ landed' = IF waits.cmd = "file_end"
                        THEN [landed EXCEPT ![<<folder, file>>] = Content(transfers, sent)]
                        ELSE landed
  <2>1. FlightInv' /\ CleanInv' /\ Acked /\ outbound.cmd = waits.cmd
        /\ waits # None /\ outbound.cmd \in PushCmds
    BY <1>1, <1>6, HeardFlight DEF Agreed, Expected
  <2>2. /\ Open' = Open /\ (\A n : Holds(n)' = Holds(n))
        /\ landed' = landed => Announced' = Announced
    BY <1>1 DEF Open, Announced, Holds, push, plan
  <2>3. sent' = sent /\ sent \in Nat
    BY <1>1, Sizes DEF plan, Inv, Types, DesktopOK
  <2>4. CASE waits.cmd = "file_end"
    <3>1. Announced /\ FileEndInv /\ outbound.n = sent /\ stage' = "folder"
      BY <1>6, <2>1, <2>4, StageOf DEF Agreed, Reached
    <3>2. Open /\ card[<<folder, file>>] = Content(transfers, sent)
      BY <2>1, <3>1 DEF FileEndInv
    <3>3. /\ Content(transfers, sent) \in Texts /\ <<folder, file>> \in Paths
          /\ landed \in [Paths -> Texts \union {None}]
      BY <2>3, <3>1, Chunks DEF Announced, Paths, Inv, Types, DesktopOK
    <3>4. /\ landed' \in [Paths -> Texts \union {None}]
          /\ landed'[<<folder, file>>] = Content(transfers, sent)
          /\ \A q \in Paths : q # <<folder, file>> => landed'[q] = landed[q]
      BY <1>6, <2>4, <3>3
    <3>5. DesktopOK'
      BY <1>1, <1>6, <3>1, <3>4 DEF Inv, Types, DesktopOK, plan
    <3>6. IdleInv' /\ FolderInv' /\ FileInv'
      BY <1>6, <2>2, <3>1, <3>2 DEF IdleInv, FolderInv, FileInv
    <3>7. ForeignInv'
      BY <1>1 DEF Inv, ForeignInv, plan
    <3>8. LandedIsOnCard'
      BY <1>1, <3>2, <3>4 DEF Inv, LandedIsOnCard
    <3> QED
      BY <1>2, <2>1, <3>5, <3>6, <3>7, <3>8 DEF Inv, Types
  <2>5. CASE waits.cmd # "file_end"
    <3>1. landed' = landed
      BY <1>6, <2>5
    <3>2. stage' \in {"idle", "folder", "file"}
      BY <1>6 DEF Reached
    <3>3. DesktopOK'
      BY <1>1, <1>6, <3>1, <3>2 DEF Inv, Types, DesktopOK, plan
    <3>4. ForeignInv' /\ LandedIsOnCard'
      BY <1>1, <3>1 DEF Inv, ForeignInv, LandedIsOnCard, plan
    <3>5. IdleInv' /\ FolderInv' /\ FileInv'
      <4>1. CASE waits.cmd = "char_begin"
        <5>1. stage = "idle" /\ Open /\ stage' = "folder"
          BY <1>6, <2>1, <4>1, StageOf DEF Inv, IdleInv, Reached
        <5> QED
          BY <1>6, <2>2, <5>1 DEF IdleInv, FolderInv, FileInv
      <4>2. CASE waits.cmd = "file"
        <5>1. stage = "folder" /\ sent = 0 /\ Announced /\ stage' = "file"
          BY <1>6, <4>2, <2>1, StageOf DEF Reached
        <5>2. Holds(0)
          BY <2>1, <4>2, <5>1 DEF Inv, FolderInv
        <5>3. Holds(sent)
          BY <5>1, <5>2
        <5>4. active_char' = folder' /\ folder' \in Folders
              /\ current_file' = [name |-> file', buffer |-> Content(transfers', sent')]
          BY <1>1, <5>3 DEF Holds, push, plan
        <5> QED
          BY <1>6, <2>2, <3>1, <5>1, <5>4 DEF IdleInv, FolderInv, FileInv, Holds
      <4>3. CASE waits.cmd = "chunk"
        <5>1. Announced /\ ChunkInv /\ stage' = "file" /\ outbound.n = sent
          BY <1>6, <4>3, <2>1, StageOf DEF Reached, Agreed
        <5>3. Holds(sent)
          BY <2>1, <5>1 DEF ChunkInv
        <5>4. active_char' = folder' /\ folder' \in Folders
              /\ current_file' = [name |-> file', buffer |-> Content(transfers', sent')]
          BY <1>1, <5>3 DEF Holds, push, plan
        <5> QED
          BY <1>6, <2>2, <3>1, <5>1, <5>4 DEF IdleInv, FolderInv, FileInv, Holds
      <4>4. CASE waits.cmd = "char_end"
        <5>1. stage' = "idle"
          BY <1>6, <4>4 DEF Reached
        <5> QED
          BY <1>6, <5>1 DEF IdleInv, FolderInv, FileInv
      <4> QED
        BY <2>1, <2>5, <4>1, <4>2, <4>3, <4>4 DEF PushCmds
    <3> QED
      BY <1>2, <2>1, <3>3, <3>4, <3>5 DEF Inv, Types
  <2> QED
    BY <2>4, <2>5
<1> QED
  BY <1>4, <1>5, <1>6 DEF Hear

-----------------------------------------------------------------------------
(* The receiver takes a command of the push from the channel.              *)
LEMMA Taken ==
    ASSUME Inv, inbox # <<>>, inbox' = Tail(inbox), waits' = waits,
           Pushes(Head(inbox)), outbound' \in Replies, outbound'.cmd = Head(inbox).cmd
    PROVE  /\ waits # None /\ Head(inbox) = waits
           /\ clean => Fresh
           /\ FlightInv' /\ ChannelOK'
           /\ (clean' => outbound'.ok) => CleanInv'
<1>1. /\ waits # None /\ Head(inbox) = waits
      /\ \A j \in 1 .. Len(inbox) : Pushes(inbox[j]) => j = 1
      /\ clean => Fresh
  BY HeadOf
<1>2. /\ inbox \in Seq(Messages) /\ Len(inbox) <= InboxCap
      /\ inbox' \in Seq(Messages)
      /\ Len(inbox) \in Nat /\ Len(inbox) > 0 /\ Len(inbox') = Len(inbox) - 1
      /\ \A i \in 1 .. Len(inbox') : inbox'[i] = inbox[i + 1]
  BY Received DEF Inv, Types, ChannelOK
<1>3. ASSUME NEW i \in 1 .. Len(inbox'), Pushes(inbox'[i]) PROVE FALSE
  <2>1. i + 1 \in 1 .. Len(inbox) /\ Pushes(inbox[i + 1])
    BY <1>2, <1>3
  <2>2. i + 1 = 1
    BY <1>1, <2>1
  <2> QED
    BY <1>2, <2>2
<1>4. FlightInv'
  BY <1>1, <1>3 DEF FlightInv, Pushes
<1>5. ChannelOK'
  <2>1. Len(inbox') <= InboxCap
    BY <1>2, Sizes
  <2> QED
    BY <1>2, <2>1 DEF ChannelOK
<1>6. (clean' => outbound'.ok) => CleanInv'
  BY <1>3 DEF CleanInv, Pushes
<1> QED
  BY <1>1, <1>4, <1>5, <1>6

LEMMA Zero == 0 \in 0 .. MaxFile /\ PushCmds \subseteq Cmds
  BY Sizes DEF Cmds

LEMMA Reply ==
    ASSUME NEW cmd \in Cmds, NEW ok \in BOOLEAN, NEW n \in 0 .. MaxFile, Ack(cmd, ok, n)
    PROVE  outbound' \in Replies /\ outbound'.cmd = cmd /\ outbound'.ok = ok /\ outbound'.n = n
  BY DEF Ack, Replies

(* Messages that are no push change no state of it.                        *)
LEMMA TakenOther ==
    ASSUME Inv, Receive, ~Pushes(Head(inbox))
    PROVE  Inv'
<1> DEFINE m == Head(inbox)
<1>0. /\ inbox # <<>> /\ inbox' = Tail(inbox) /\ Handle(m)
      /\ UNCHANGED <<connected, stage, waits, landed, plan>>
  BY DEF Receive
<1>a. m.cmd \notin PushCmds
  BY DEF Pushes
<1> HIDE DEF m
<1>1. /\ UNCHANGED <<push, card, clean>> /\ rebooting' \in BOOLEAN
      /\ outbound' = outbound \/ (outbound' \in Replies /\ outbound'.cmd \notin PushCmds)
  <2>1. CASE Query(m) /\ UNCHANGED <<rebooting, bounds>>
    <3>1. outbound' \in Replies /\ outbound'.cmd = "status"
      <4>1. Ack("status", TRUE, 0)
        BY <2>1 DEF Query
      <4> QED
        BY <4>1, Zero, Reply DEF Cmds
    <3> QED
      BY <2>1, <3>1 DEF Query, Inv, Types, FlagsOK, PushCmds
  <2>2. CASE Unanswered(m) /\ UNCHANGED <<rebooting, bounds>>
    BY <2>2 DEF Unanswered, Inv, Types, FlagsOK
  <2>3. CASE SetName(m)
    <3>1. outbound' \in Replies /\ outbound'.cmd = "name"
      BY <2>3, Sizes, Reply DEF SetName, Cmds
    <3> QED
      BY <2>3, <3>1 DEF SetName, PushCmds
  <2> QED
    BY <1>0, <1>a, <2>1, <2>2, <2>3
       DEF Handle, CharBegin, FileAnnounce, Chunk, FileEnd, CharEnd, PushCmds
<1>2. /\ inbox \in Seq(Messages) /\ Len(inbox) <= InboxCap
      /\ inbox' \in Seq(Messages)
      /\ Len(inbox) \in Nat /\ Len(inbox) > 0 /\ Len(inbox') = Len(inbox) - 1
      /\ \A i \in 1 .. Len(inbox') : inbox'[i] = inbox[i + 1]
  BY <1>0, Received DEF Inv, Types, ChannelOK
<1>3. ASSUME NEW i \in 1 .. Len(inbox') PROVE i + 1 \in 1 .. Len(inbox) /\ inbox'[i] = inbox[i + 1]
  BY <1>2
<1>4. FlightInv'
  <2>1. ASSUME NEW i \in 1 .. Len(inbox'), Pushes(inbox'[i])
        PROVE  /\ waits # None /\ inbox'[i] = waits
               /\ outbound # None => outbound.cmd \notin PushCmds
               /\ \A j \in 1 .. Len(inbox') : Pushes(inbox'[j]) => j = i
    <3>1. i + 1 \in 1 .. Len(inbox) /\ Pushes(inbox[i + 1]) /\ inbox'[i] = inbox[i + 1]
      BY <1>3, <2>1
    <3>2. ASSUME NEW j \in 1 .. Len(inbox'), Pushes(inbox'[j]) PROVE j = i
      <4>1. j + 1 \in 1 .. Len(inbox) /\ Pushes(inbox[j + 1])
        BY <1>3, <3>2
      <4>2. j + 1 = i + 1
        BY <3>1, <4>1 DEF Inv, FlightInv
      <4> QED
        BY <1>2, <4>2
    <3> QED
      BY <3>1, <3>2 DEF Inv, FlightInv
  <2>2. outbound' # None => outbound'.cmd \notin PushCmds \/ outbound' = outbound
    BY <1>1
  <2> QED
    BY <1>0, <2>1, <2>2 DEF Inv, FlightInv, Pushes
<1>5. ChannelOK' /\ PushOK' /\ CardOK' /\ FlagsOK' /\ DesktopOK'
  <2>1. Len(inbox') <= InboxCap
    BY <1>2, Sizes
  <2>2. ChannelOK'
    BY <1>1, <1>2, <2>1 DEF Inv, Types, ChannelOK
  <2>3. PushOK' /\ CardOK' /\ FlagsOK'
    BY <1>0, <1>1 DEF Inv, Types, PushOK, CardOK, FlagsOK, push
  <2>4. DesktopOK'
    BY <1>0 DEF Inv, Types, DesktopOK, plan
  <2> QED
    BY <2>2, <2>3, <2>4
<1>6. CleanInv'
  <2>1. Fresh' = Fresh
    BY <1>0, <1>1 DEF Fresh, Open, Holds, push, plan
  <2>2. (\E i \in 1 .. Len(inbox') : Pushes(inbox'[i])) => \E i \in 1 .. Len(inbox) : Pushes(inbox[i])
    BY <1>3
  <2>3. outbound' # None => outbound'.cmd \notin PushCmds \/ outbound' = outbound
    BY <1>1
  <2> QED
    BY <1>1, <2>1, <2>2, <2>3 DEF Inv, CleanInv, Pushes
<1>7. outbound' = outbound \/ ~Acked'
  BY <1>1 DEF Acked
<1> QED
  BY <1>0, <1>1, <1>4, <1>5, <1>6, <1>7, Undisturbed DEF Inv, Types

(* What every command of the push has in common, once what it does to the  *)
(* receiver is known.                                                      *)
LEMMA ReceiveFrame ==
    ASSUME Inv, Receive, Pushes(Head(inbox))
    PROVE  /\ inbox # <<>> /\ inbox' = Tail(inbox)
           /\ waits # None /\ Head(inbox) = waits /\ Handle(waits)
           /\ UNCHANGED <<connected, stage, waits, landed, plan, rebooting>>
           /\ DesktopOK'
<1>1. /\ inbox # <<>> /\ inbox' = Tail(inbox) /\ Handle(Head(inbox))
      /\ UNCHANGED <<connected, stage, waits, landed, plan>>
  BY DEF Receive
<1>2. waits # None /\ Head(inbox) = waits
  BY <1>1, HeadOf
<1>3. rebooting' = rebooting
  BY <1>1 DEF Handle, SetName, Pushes, PushCmds
<1>4. DesktopOK'
  BY <1>1 DEF Inv, Types, DesktopOK, plan
<1> QED
  BY <1>1, <1>2, <1>3, <1>4

LEMMA TakenCharBegin ==
    ASSUME Inv, Receive, Pushes(Head(inbox)), Head(inbox).cmd = "char_begin"
    PROVE  Inv'
<1>1. /\ inbox # <<>> /\ inbox' = Tail(inbox)
      /\ waits # None /\ Head(inbox) = waits /\ Handle(waits)
      /\ UNCHANGED <<connected, stage, waits, landed, plan, rebooting>>
      /\ DesktopOK'
  BY ReceiveFrame
<1>2. waits.cmd = "char_begin" /\ stage = "idle" /\ waits.arg = folder /\ folder \in Folders
  BY <1>1, StageOf
<1>3. CharBegin(waits)
  BY <1>1, <1>2 DEF Handle, FileAnnounce, Chunk, FileEnd, CharEnd, Query, Unanswered, SetName
<1>4. /\ UNCHANGED <<card, clean>>
      /\ \/ ~waits.legal /\ Ack("char_begin", FALSE, 0) /\ UNCHANGED push
         \/ waits.legal /\ Ack("char_begin", TRUE, 0) /\ active_char' = folder /\ current_file' = None
  BY <1>2, <1>3 DEF CharBegin
<1>5. outbound' \in Replies /\ outbound'.cmd = "char_begin" /\ outbound'.ok = waits.legal
  <2>1. CASE ~waits.legal /\ Ack("char_begin", FALSE, 0)
    <3>1. outbound' \in Replies /\ outbound'.cmd = "char_begin" /\ outbound'.ok = FALSE
      BY <2>1, Zero, Reply DEF PushCmds
    <3> QED
      BY <1>1, <2>1, <3>1 DEF Inv, Types, DesktopOK, Messages
  <2>2. CASE waits.legal /\ Ack("char_begin", TRUE, 0)
    <3>1. outbound' \in Replies /\ outbound'.cmd = "char_begin" /\ outbound'.ok = TRUE
      BY <2>2, Zero, Reply DEF PushCmds
    <3> QED
      BY <1>1, <2>2, <3>1 DEF Inv, Types, DesktopOK, Messages
  <2> QED
    BY <1>4, <2>1, <2>2
<1>6. /\ clean => Fresh
      /\ FlightInv' /\ ChannelOK'
      /\ (clean' => outbound'.ok) => CleanInv'
  BY <1>1, <1>2, <1>5, Taken
<1>7. PushOK' /\ CardOK' /\ FlagsOK'
  BY <1>1, <1>2, <1>4 DEF Inv, Types, PushOK, CardOK, FlagsOK, push
<1>8. IdleInv' /\ FolderInv' /\ FileInv'
  <2>1. waits.legal => Open'
    BY <1>1, <1>2, <1>4 DEF Open, plan
  <2> QED
    BY <1>1, <1>2, <1>5, <2>1 DEF IdleInv, FolderInv, FileInv, Acked, plan
<1>9. ForeignInv' /\ LandedIsOnCard'
  BY <1>1, <1>4 DEF Inv, ForeignInv, LandedIsOnCard, plan
<1>10. CleanInv'
  BY <1>4, <1>5, <1>6 DEF Fresh
<1> QED
  BY <1>1, <1>6, <1>7, <1>8, <1>9, <1>10 DEF Inv, Types

LEMMA TakenFile ==
    ASSUME Inv, Receive, Pushes(Head(inbox)), Head(inbox).cmd = "file"
    PROVE  Inv'
<1>1. /\ inbox # <<>> /\ inbox' = Tail(inbox)
      /\ waits # None /\ Head(inbox) = waits /\ Handle(waits)
      /\ UNCHANGED <<connected, stage, waits, landed, plan, rebooting>>
      /\ DesktopOK'
  BY ReceiveFrame
<1>2. /\ waits.cmd = "file" /\ stage = "folder" /\ waits.arg = file /\ sent = 0
      /\ Announced /\ (Open \/ Holds(0))
  BY <1>1, StageOf
<1>3. FileAnnounce(waits)
  BY <1>1, <1>2 DEF Handle, CharBegin, Chunk, FileEnd, CharEnd, Query, Unanswered, SetName
<1>4. active_char = folder /\ folder \in Folders /\ folder # None
  BY <1>2, Sizes DEF Open, Holds
<1>5. /\ UNCHANGED <<card, clean, active_char>>
      /\ \/ /\ Ack("file", FALSE, 0) /\ current_file' = None
            /\ ~waits.legal \/ current_file # None
         \/ /\ Ack("file", TRUE, 0)
            /\ current_file' = [name |-> file, buffer |-> <<>>]
  BY <1>2, <1>3, <1>4
     DEF FileAnnounce, FileStray, FilePriorOpen, FileRejected, FileOpened, push
<1>6. \/ Open' /\ (~waits.legal \/ current_file # None)
         /\ outbound' \in Replies /\ outbound'.cmd = "file" /\ outbound'.ok = FALSE
      \/ Holds(0)' /\ outbound' \in Replies /\ outbound'.cmd = "file" /\ outbound'.ok = TRUE
  <2>1. CASE Ack("file", FALSE, 0) /\ current_file' = None
             /\ (~waits.legal \/ current_file # None)
    <3>1. outbound' \in Replies /\ outbound'.cmd = "file" /\ outbound'.ok = FALSE
      BY <2>1, Zero, Reply DEF PushCmds
    <3> QED
      BY <1>1, <1>4, <1>5, <2>1, <3>1 DEF Open, plan
  <2>2. CASE Ack("file", TRUE, 0) /\ current_file' = [name |-> file, buffer |-> <<>>]
    <3>1. outbound' \in Replies /\ outbound'.cmd = "file" /\ outbound'.ok = TRUE
      BY <2>2, Zero, Reply DEF PushCmds
    <3>2. Content(transfers, 0) = <<>>
      BY DEF Content
    <3>3. Holds(0)'
      BY <1>1, <1>4, <1>5, <2>2, <3>2 DEF Holds, plan, Content
    <3> QED
      BY <3>1, <3>3
  <2> QED
    BY <1>5, <2>1, <2>2
<1>7. /\ clean => Fresh
      /\ FlightInv' /\ ChannelOK'
      /\ (clean' => outbound'.ok) => CleanInv'
  <2>1. outbound' \in Replies /\ outbound'.cmd = "file"
    BY <1>6
  <2> QED
    BY <1>1, <1>2, <2>1, Taken
<1>8. PushOK' /\ CardOK' /\ FlagsOK'
  <2>1. [name |-> file, buffer |-> <<>>] \in Opened /\ Len(<<>>) = 0
    BY <1>2, NoLength DEF Opened, Announced
  <2>2. /\ current_file' \in Opened \union {None}
        /\ current_file' # None => Len(current_file'.buffer) <= MaxFile
    <3>1. CASE current_file' = None
      BY <3>1
    <3>2. CASE current_file' = [name |-> file, buffer |-> <<>>]
      BY <2>1, <3>2, Sizes
    <3> QED
      BY <1>5, <3>1, <3>2
  <2>3. PushOK'
    BY <1>4, <1>5, <2>2 DEF PushOK
  <2> QED
    BY <1>1, <1>5, <2>3 DEF Inv, Types, CardOK, FlagsOK
<1>9. Announced'
  BY <1>1, <1>2 DEF Announced, plan
<1>10. IdleInv' /\ FolderInv' /\ FileInv'
  BY <1>1, <1>2, <1>6, <1>9 DEF IdleInv, FolderInv, FileInv, Acked, plan
<1>11. ForeignInv' /\ LandedIsOnCard'
  BY <1>1, <1>5 DEF Inv, ForeignInv, LandedIsOnCard, plan
<1>12. CleanInv'
  <2>1. clean' => waits.legal /\ current_file = None
    BY <1>2, <1>5, <1>7 DEF Fresh, Open
  <2> QED
    BY <1>6, <1>7, <2>1
<1> QED
  BY <1>1, <1>7, <1>8, <1>10, <1>11, <1>12 DEF Inv, Types

LEMMA TakenCharEnd ==
    ASSUME Inv, Receive, Pushes(Head(inbox)), Head(inbox).cmd = "char_end"
    PROVE  Inv'
<1>1. /\ inbox # <<>> /\ inbox' = Tail(inbox)
      /\ waits # None /\ Head(inbox) = waits /\ Handle(waits)
      /\ UNCHANGED <<connected, stage, waits, landed, plan, rebooting>>
      /\ DesktopOK'
  BY ReceiveFrame
<1>2. waits.cmd = "char_end" /\ stage \in {"folder", "file"}
  BY <1>1, StageOf
<1>3. CharEnd(waits)
  BY <1>1, <1>2 DEF Handle, CharBegin, FileAnnounce, Chunk, FileEnd, Query, Unanswered, SetName
<1> DEFINE ok == current_file = None /\ active_char # None
<1>4. /\ active_char' = None /\ current_file' = None
      /\ Ack("char_end", ok, 0) /\ UNCHANGED <<card, clean>>
  BY <1>3 DEF CharEnd
<1>5. outbound' \in Replies /\ outbound'.cmd = "char_end" /\ outbound'.ok = ok
  <2>1. ok \in BOOLEAN /\ "char_end" \in Cmds
    BY Zero DEF PushCmds
  <2> HIDE DEF ok
  <2> QED
    BY <1>4, <2>1, Zero, Reply
<1>6. /\ clean => Fresh
      /\ FlightInv' /\ ChannelOK'
      /\ (clean' => outbound'.ok) => CleanInv'
  <2> HIDE DEF ok
  <2> QED
    BY <1>1, <1>2, <1>5, Taken
<1>7. PushOK' /\ CardOK' /\ FlagsOK'
  BY <1>1, <1>4 DEF Inv, Types, PushOK, CardOK, FlagsOK
<1>8. IdleInv' /\ FolderInv' /\ FileInv'
  <2>1. stage = "file" => Announced'
    BY <1>1, <1>2 DEF Inv, FileInv, Announced, plan
  <2> QED
    BY <1>1, <1>2, <2>1 DEF IdleInv, FolderInv, FileInv
<1>9. ForeignInv' /\ LandedIsOnCard'
  BY <1>1, <1>4 DEF Inv, ForeignInv, LandedIsOnCard, plan
<1>10. CleanInv'
  <2>1. clean' => ok
    BY <1>2, <1>4, <1>6, Sizes DEF Fresh, Open
  <2> QED
    BY <1>5, <1>6, <2>1
<1> QED
  BY <1>1, <1>6, <1>7, <1>8, <1>9, <1>10 DEF Inv, Types

LEMMA TakenFileEnd ==
    ASSUME Inv, Receive, Pushes(Head(inbox)), Head(inbox).cmd = "file_end"
    PROVE  Inv'
<1>1. /\ inbox # <<>> /\ inbox' = Tail(inbox)
      /\ waits # None /\ Head(inbox) = waits /\ Handle(waits)
      /\ UNCHANGED <<connected, stage, waits, landed, plan, rebooting>>
      /\ DesktopOK'
  BY ReceiveFrame
<1>2. /\ waits.cmd = "file_end" /\ stage = "file" /\ Announced /\ (Holds(sent) \/ Open)
      /\ sent \in Nat
  BY <1>1, StageOf, Sizes DEF FileEndInv, Inv, Types, DesktopOK
<1>3. FileEndStray(waits) \/ FileEndWritten(waits) \/ FileEndFails(waits)
  BY <1>1, <1>2 DEF Handle, CharBegin, FileAnnounce, Chunk, FileEnd, CharEnd, Query, Unanswered, SetName
<1>4. active_char = folder /\ folder \in Folders /\ folder # None
  BY <1>2, Sizes DEF Open, Holds
<1>5. active_char' = folder' /\ folder' \in Folders /\ current_file' = None /\ Open'
      /\ UNCHANGED <<active_char, transfers, folder, file, sent, meant, landed>>
  BY <1>1, <1>3, <1>4 DEF FileEndStray, FileEndWritten, FileEndFails, Open, plan
<1>6. PushOK'
  BY <1>4, <1>5 DEF Inv, Types, PushOK
<1>7. Announced'
  BY <1>2, <1>5 DEF Announced
<1>8. ASSUME CardOK', ForeignInv', LandedIsOnCard', FlagsOK',
             outbound' \in Replies, outbound'.cmd = "file_end",
             outbound'.ok /\ outbound'.n = sent => card'[<<folder, file>>] = Content(transfers, sent),
             clean' => outbound'.ok
      PROVE  Inv'
  <2>1. FlightInv' /\ ChannelOK' /\ CleanInv'
    BY <1>1, <1>2, <1>8, Taken
  <2>2. FileEndInv'
    BY <1>1, <1>2, <1>5, <1>8 DEF FileEndInv, Acked
  <2>3. IdleInv' /\ FolderInv' /\ FileInv'
    BY <1>1, <1>2, <1>7, <2>2 DEF IdleInv, FolderInv, FileInv
  <2> QED
    BY <1>1, <1>6, <1>8, <2>1, <2>3 DEF Inv, Types
<1>9. clean => Holds(sent)
  BY <1>1, <1>2, HeadOf DEF Fresh
<1>10. CASE FileEndStray(waits)
  <2>1. current_file = None /\ UNCHANGED <<card, clean>> /\ Ack("file_end", FALSE, 0)
    BY <1>4, <1>10 DEF FileEndStray
  <2>2. outbound' \in Replies /\ outbound'.cmd = "file_end" /\ outbound'.ok = FALSE
    BY <2>1, Zero, Reply DEF PushCmds
  <2>3. CardOK' /\ FlagsOK' /\ ForeignInv' /\ LandedIsOnCard'
    BY <1>1, <1>5, <2>1 DEF Inv, Types, CardOK, FlagsOK, ForeignInv, LandedIsOnCard
  <2>4. ~clean'
    <3>1. ~Holds(sent)
      <4>1. [name |-> file, buffer |-> Content(transfers, sent)] \in Opened
        BY <1>2, Chunks DEF Announced, Opened, Texts
      <4> QED
        BY <2>1, <4>1, Sizes DEF Holds
    <3> QED
      BY <1>9, <2>1, <3>1
  <2> QED
    BY <1>8, <2>2, <2>3, <2>4
<1>11. CASE FileEndWritten(waits)
  <2>1. /\ current_file # None /\ UNCHANGED clean
        /\ card' = [card EXCEPT ![Path] = current_file.buffer]
        /\ Ack("file_end", TRUE, Len(current_file.buffer))
    BY <1>11 DEF FileEndWritten
  <2>2. Path = <<folder, file>> /\ current_file.buffer = Content(transfers, sent)
    BY <1>1, <1>2, <2>1, FileEndPlace
  <2>3. card' = [card EXCEPT ![<<folder, file>>] = Content(transfers, sent)]
    BY <2>1, <2>2
  <2>4. CardOK' /\ ForeignInv' /\ LandedIsOnCard'
    BY <1>2, <1>5, <2>3, Written
  <2>5. outbound' \in Replies /\ outbound'.cmd = "file_end" /\ outbound'.ok = TRUE
    <3>1. Len(current_file.buffer) \in 0 .. MaxFile
      BY <1>2, <2>1, <2>2, Chunks, Sizes DEF Announced, Inv, Types, PushOK
    <3> QED
      BY <2>1, <3>1, Zero, Reply DEF PushCmds
  <2>6. card'[<<folder, file>>] = Content(transfers, sent)
    BY <1>2, <2>3 DEF Announced, Paths, Inv, Types, CardOK
  <2>7. FlagsOK'
    BY <1>1, <2>1 DEF Inv, Types, FlagsOK
  <2> QED
    BY <1>8, <2>4, <2>5, <2>6, <2>7
<1>12. CASE FileEndFails(waits)
  <2>1. /\ current_file # None /\ clean' = FALSE
        /\ card' = card \/ card' = [card EXCEPT ![Path] = Torn]
        /\ Ack("file_end", FALSE, 0)
    BY <1>12 DEF FileEndFails
  <2>2. Path = <<folder, file>>
    BY <1>1, <1>2, <2>1, FileEndPlace
  <2>4. CardOK' /\ ForeignInv' /\ LandedIsOnCard'
    <3>1. CASE card' = card
      BY <1>5, <3>1 DEF Inv, Types, CardOK, ForeignInv, LandedIsOnCard
    <3>2. CASE card' = [card EXCEPT ![<<folder, file>>] = Torn]
      BY <1>2, <1>5, <3>2, Written
    <3> QED
      BY <2>1, <2>2, <3>1, <3>2
  <2>5. outbound' \in Replies /\ outbound'.cmd = "file_end" /\ outbound'.ok = FALSE
    BY <2>1, Zero, Reply DEF PushCmds
  <2>7. FlagsOK'
    BY <1>1, <2>1 DEF Inv, Types, FlagsOK
  <2> QED
    BY <1>8, <2>1, <2>4, <2>5, <2>7
<1> QED
  BY <1>3, <1>10, <1>11, <1>12

(***************************************************************************)
(* A chunk: the first time it follows those before it; after that it is    *)
(* one too many, and so is every one that follows.                         *)
(***************************************************************************)
LEMMA TakenChunk ==
    ASSUME Inv, Receive, Pushes(Head(inbox)), Head(inbox).cmd = "chunk"
    PROVE  Inv'
<1>1. /\ inbox # <<>> /\ inbox' = Tail(inbox)
      /\ waits # None /\ Head(inbox) = waits /\ Handle(waits)
      /\ UNCHANGED <<connected, stage, waits, landed, plan, rebooting>>
      /\ DesktopOK'
  BY ReceiveFrame
<1>2. /\ waits.cmd = "chunk" /\ stage = "file" /\ Announced
      /\ waits.arg = <<transfers, sent>> /\ sent >= 1 /\ transfers \in Transfers
      /\ \/ Holds(sent - 1) \/ Holds(sent)
         \/ current_file = None \/ Len(current_file.buffer) > sent
  BY <1>1, StageOf DEF ChunkInv, Announced
<1>a. sent \in 0 .. MaxFile + 1
  BY DEF Inv, Types, DesktopOK
<1>b. sent \in Nat /\ sent - 1 \in Nat
  BY <1>2, <1>a, Sizes
<1>3. /\ ChunkStray(waits) \/ ChunkTooMuch(waits) \/ ChunkAppended(waits)
      /\ UNCHANGED <<card, clean>>
  BY <1>1, <1>2 DEF Handle, CharBegin, FileAnnounce, Chunk, FileEnd, CharEnd, Query, Unanswered, SetName
<1>4. ForeignInv' /\ LandedIsOnCard' /\ Announced' /\ CardOK' /\ FlagsOK'
  BY <1>1, <1>2, <1>3 DEF Inv, Types, CardOK, FlagsOK, ForeignInv, LandedIsOnCard, Announced, plan
<1>5. clean => Holds(sent - 1) /\ sent <= MaxFile
  BY <1>1, <1>2, HeadOf DEF Fresh
<1>6. ASSUME PushOK', outbound' \in Replies, outbound'.cmd = "chunk",
             \/ Holds(sent)' \/ current_file' = None \/ Len(current_file'.buffer) > sent,
             outbound'.ok /\ outbound'.n = sent => Holds(sent)',
             clean' => outbound'.ok
      PROVE  Inv'
  <2>1. FlightInv' /\ ChannelOK' /\ CleanInv'
    BY <1>1, <1>2, <1>6, Taken
  <2>0. UNCHANGED <<transfers, sent, folder, file>>
    BY <1>1 DEF plan
  <2>2. ChunkInv'
    BY <1>1, <1>2, <1>6, <2>0 DEF ChunkInv, Acked
  <2>3. IdleInv' /\ FolderInv' /\ FileInv'
    BY <1>1, <1>2, <1>4, <2>2 DEF IdleInv, FolderInv, FileInv
  <2> QED
    BY <1>1, <1>4, <1>6, <2>1, <2>3 DEF Inv, Types
<1>7. ASSUME NEW n \in Nat, Holds(n)
      PROVE  current_file # None /\ Len(current_file.buffer) = n
             /\ current_file.buffer = Content(transfers, n) /\ current_file.name = file
             /\ active_char = folder /\ folder \in Folders
  <2>1. [name |-> file, buffer |-> Content(transfers, n)] \in Opened /\ Len(Content(transfers, n)) = n
    BY <1>2, Chunks DEF Announced, Opened, Texts
  <2> QED
    BY <1>7, <2>1, Sizes DEF Holds
<1>8. CASE ChunkStray(waits)
  <2>1. current_file = None /\ UNCHANGED push /\ Ack("chunk", FALSE, 0)
    BY <1>8 DEF ChunkStray
  <2>2. outbound' \in Replies /\ outbound'.cmd = "chunk" /\ outbound'.ok = FALSE
    BY <2>1, Zero, Reply DEF PushCmds
  <2>3. ~clean'
    BY <1>3, <1>5, <1>7, <1>b, <2>1
  <2>4. PushOK' /\ current_file' = None
    BY <2>1 DEF Inv, Types, PushOK, push
  <2> QED
    BY <1>6, <2>2, <2>3, <2>4
<1>9. CASE ChunkTooMuch(waits)
  <2>1. /\ current_file # None /\ Len(current_file.buffer) + 1 > MaxFile
        /\ active_char' = None /\ current_file' = None /\ Ack("chunk", FALSE, 0)
    BY <1>9 DEF ChunkTooMuch
  <2>2. outbound' \in Replies /\ outbound'.cmd = "chunk" /\ outbound'.ok = FALSE
    BY <2>1, Zero, Reply DEF PushCmds
  <2>3. ~clean'
    <3>1. ASSUME Holds(sent - 1), sent <= MaxFile PROVE FALSE
      <4>1. Len(current_file.buffer) = sent - 1
        BY <1>7, <1>b, <3>1
      <4> QED
        BY <1>b, <2>1, <3>1, <4>1, Sizes
    <3> QED
      BY <1>3, <1>5, <3>1
  <2>4. PushOK'
    BY <2>1 DEF PushOK
  <2> QED
    BY <1>6, <2>1, <2>2, <2>3, <2>4
<1>10. CASE ChunkAppended(waits)
  <2> DEFINE len == Len(current_file.buffer)
             new == Append(current_file.buffer, <<transfers, sent>>)
  <2>1. /\ current_file # None /\ len + 1 <= MaxFile
        /\ current_file' = [current_file EXCEPT !.buffer = new]
        /\ Ack("chunk", TRUE, len + 1) /\ active_char' = active_char
    BY <1>2, <1>10 DEF ChunkAppended
  <2>2. /\ current_file \in Opened /\ active_char # None /\ active_char \in Folders \union {None}
        /\ current_file.buffer \in Seq(Transfers \X Nat)
    BY <2>1 DEF Inv, Types, PushOK, Opened
  <2>3. len \in Nat /\ new \in Seq(Transfers \X Nat) /\ Len(new) = len + 1
    BY <1>2, <1>b, <2>2, LenProperties, AppendProperties
  <2>4. /\ current_file' \in Opened
        /\ current_file'.buffer = new /\ current_file'.name = current_file.name
    <3> HIDE DEF new
    <3> QED
      BY <2>1, <2>2, <2>3 DEF Opened
  <2>5. PushOK'
    <3> HIDE DEF new, len
    <3>1. Len(current_file'.buffer) <= MaxFile
      BY <2>1, <2>3, <2>4
    <3> QED
      BY <2>1, <2>2, <2>4, <3>1 DEF PushOK
  <2>6. outbound' \in Replies /\ outbound'.cmd = "chunk" /\ outbound'.ok = TRUE
        /\ outbound'.n = len + 1
    <3> HIDE DEF len
    <3>1. len + 1 \in 0 .. MaxFile
      BY <2>1, <2>3, Sizes
    <3> QED
      BY <2>1, <3>1, Zero, Reply DEF PushCmds
  <2>7. CASE Holds(sent - 1)
    <3>1. /\ current_file.buffer = Content(transfers, sent - 1) /\ current_file.name = file
          /\ active_char = folder /\ folder \in Folders
      BY <1>7, <1>b, <2>7
    <3>2. new = Content(transfers, sent)
      <4>1. (sent - 1) + 1 = sent
        BY <1>b
      <4>2. Append(Content(transfers, sent - 1), <<transfers, (sent - 1) + 1>>)
                = Content(transfers, (sent - 1) + 1)
        BY <1>2, <1>b, Chunks
      <4> QED
        BY <3>1, <4>1, <4>2
    <3>3. current_file' = [name |-> file, buffer |-> Content(transfers, sent)]
      <4> HIDE DEF new
      <4> QED
        BY <2>4, <3>1, <3>2 DEF Opened
    <3>4. Holds(sent)'
      BY <1>1, <2>1, <3>1, <3>3 DEF Holds, plan
    <3> QED
      BY <1>6, <2>5, <2>6, <3>4
  <2>8. CASE ~Holds(sent - 1)
    <3>1. len >= sent
      <4>1. ASSUME Holds(sent) PROVE len = sent
        BY <1>7, <1>b, <4>1
      <4>2. Holds(sent) \/ len > sent
        BY <1>2, <2>1, <2>8
      <4> HIDE DEF len
      <4> QED
        BY <1>b, <2>3, <4>1, <4>2
    <3>2. Len(current_file'.buffer) > sent /\ outbound'.n # sent
      <4> HIDE DEF len, new
      <4> QED
        BY <1>b, <2>3, <2>4, <2>6, <3>1
    <3> QED
      BY <1>6, <2>5, <2>6, <3>2
  <2> QED
    BY <2>7, <2>8
<1> QED
  BY <1>3, <1>8, <1>9, <1>10

-----------------------------------------------------------------------------
LEMMA StepInv == Inv /\ [Next]_vars => Inv'
<1> SUFFICES ASSUME Inv, [Next]_vars PROVE Inv'
  OBVIOUS
<1>1. CASE UNCHANGED vars
  <2>1. /\ UNCHANGED <<push, rebooting, inbox, outbound, connected, card>>
        /\ UNCHANGED <<stage, waits, landed, clean, plan>>
    BY <1>1 DEF vars, desktop
  <2>2. Types'
    BY <2>1 DEF Inv, Types, PushOK, ChannelOK, DesktopOK, CardOK, FlagsOK, push, plan
  <2>3. FlightInv'
    BY <2>1 DEF Inv, FlightInv, Pushes
  <2>4. CleanInv'
    <3>1. Fresh' = Fresh
      BY <2>1 DEF Fresh, Open, Holds, push, plan
    <3> QED
      BY <2>1, <3>1 DEF Inv, CleanInv, Pushes
  <2> QED
    BY <2>1, <2>2, <2>3, <2>4, Undisturbed DEF Inv
<1>2. CASE Receive
  <2>1. CASE ~Pushes(Head(inbox))
    BY <1>2, <2>1, TakenOther
  <2>2. CASE Pushes(Head(inbox))
    BY <1>2, <2>2, TakenCharBegin, TakenFile, TakenChunk, TakenFileEnd, TakenCharEnd
       DEF Pushes, PushCmds
  <2> QED
    BY <2>1, <2>2
<1>3. CASE Link
  BY <1>3, ConnectInv, ResetInv, LinkInv DEF Link
<1>4. CASE Desktop
  BY <1>4, SayCharBeginInv, SayFileInv, SayOnInv, SayAgainInv, GiveUpInv, HearInv, OtherMessageInv
     DEF Desktop
<1> QED
  BY <1>1, <1>2, <1>3, <1>4 DEF Next

LEMMA AlwaysInv == Spec => []Inv
  BY InitInv, StepInv, PTL DEF Spec

(* What the receiver, the channels and the desktop work with stays in its  *)
(* range: no file outgrows MAX_DESKTOP_FILE_BYTES, no channel its capacity. *)
THEOREM TypeCorrect == Spec => []TypeOK
  BY AlwaysInv, InvTypes, PTL

(* What the desktop was told has landed is on the card, in its place and   *)
(* whole, whatever is lost, repeated, cut short or reset.                  *)
THEOREM LandedAlways == Spec => []LandedIsOnCard
<1>1. Inv => LandedIsOnCard
  BY DEF Inv
<1> QED
  BY AlwaysInv, <1>1, PTL

(* No file on the card mixes two transfers, has a gap, or lies in another  *)
(* one's place.                                                            *)
THEOREM NothingForeignAlways == Spec => []NothingForeign
  BY AlwaysInv, InvNothingForeign, PTL

(* A push that nothing disturbs is accepted, whatever earlier ones left.   *)
THEOREM AcceptedAlways == Spec => []UndisturbedAccepted
  BY AlwaysInv, InvAccepted, PTL


-----------------------------------------------------------------------------
(***************************************************************************)
(* The refinement of FileDelivery, action by action.                       *)
(***************************************************************************)
Seen == <<card, landed, transfers, meant>>

LEMMA SameSeen ==
    ASSUME UNCHANGED Seen
    PROVE  UNCHANGED <<card, landed, transfers, Place>>
  BY DEF Seen, Place

(* The place of a transfer that was announced.                             *)
LEMMA UnderWay ==
    ASSUME Inv, Announced
    PROVE  Place = <<folder, file>> /\ Place \in Paths /\ Delivery!Unsettled
<1>1. transfers # 0 /\ transfers \in Transfers
  BY DEF Announced, Transfers
<1>2. Place = <<folder, file>> /\ <<folder, file>> \in Paths
  BY <1>1 DEF Place, Announced, Paths
<1> QED
  BY <1>1, <1>2 DEF Announced, Delivery!Unsettled

(* SayFile announces.                                                      *)
LEMMA SayFileDelivers ==
    ASSUME Inv, SayFile
    PROVE  \E p \in Paths : Delivery!Announce(p)
<1>1. PICK name \in Files :
        /\ meant' = [meant EXCEPT ![transfers + 1] = <<folder, name>>]
        /\ landed' = [landed EXCEPT ![<<folder, name>>] = None]
  BY DEF SayFile
<1>2. /\ transfers < MaxTransfers /\ transfers' = transfers + 1
      /\ stage = "folder" /\ waits = None /\ card' = card
  BY DEF SayFile, Say
<1>3. folder \in Folders
  BY <1>2 DEF Inv, FolderInv, Open
<1>4. transfers + 1 \in Transfers /\ transfers + 1 # 0
  BY <1>2, Sizes DEF Inv, Types, DesktopOK, Transfers
<1>5. Place' = <<folder, name>>
  BY <1>1, <1>2, <1>4 DEF Place, Inv, Types, DesktopOK
<1>6. <<folder, name>> \in Paths
  BY <1>3 DEF Paths
<1> QED
  BY <1>1, <1>2, <1>5, <1>6 DEF Delivery!Announce

(* file_end stores the transfer under way, or leaves it torn.              *)
LEMMA FileEndDelivers ==
    ASSUME Inv, Receive, Pushes(Head(inbox)), Head(inbox).cmd = "file_end"
    PROVE  \/ \E n \in 0 .. MaxFile : Delivery!Store(n)
           \/ Delivery!Tear
           \/ UNCHANGED <<card, landed, transfers, Place>>
<1>1. /\ waits # None /\ Head(inbox) = waits /\ Handle(waits) /\ waits.cmd = "file_end"
      /\ UNCHANGED <<landed, plan>>
  BY ReceiveFrame
<1>2. FileEndStray(waits) \/ FileEndWritten(waits) \/ FileEndFails(waits)
  BY <1>1 DEF Handle, CharBegin, FileAnnounce, Chunk, FileEnd, CharEnd, Query, Unanswered, SetName
<1>3. UNCHANGED <<landed, transfers, meant>> /\ Place' = Place
  BY <1>1 DEF plan, Place
<1>4. ASSUME card' = card
      PROVE  UNCHANGED <<card, landed, transfers, Place>>
  BY <1>3, <1>4
<1>5. ASSUME current_file # None
      PROVE  /\ Delivery!Unsettled /\ Path = Place
             /\ current_file.buffer = Delivery!Content(transfers, sent)
             /\ sent \in 0 .. MaxFile
  <2>1. /\ Announced /\ Path = <<folder, file>>
        /\ current_file.buffer = Content(transfers, sent) /\ sent \in Nat
    BY <1>1, <1>5, FileEndPlace
  <2>2. Len(current_file.buffer) <= MaxFile
    BY <1>5 DEF Inv, Types, PushOK
  <2>3. Len(Content(transfers, sent)) = sent
    BY <2>1 DEF Content
  <2> QED
    BY <2>1, <2>2, <2>3, UnderWay, Sizes DEF Content, Delivery!Content
<1>6. CASE FileEndStray(waits)
  BY <1>4, <1>6 DEF FileEndStray
<1>7. CASE FileEndWritten(waits)
  BY <1>3, <1>5, <1>7 DEF FileEndWritten, Delivery!Store
<1>8. CASE FileEndFails(waits)
  BY <1>3, <1>4, <1>5, <1>8 DEF FileEndFails, Delivery!Tear
<1> QED
  BY <1>2, <1>6, <1>7, <1>8

LEMMA ReceiveDelivers ==
    ASSUME Inv, Receive
    PROVE  \/ \E n \in 0 .. MaxFile : Delivery!Store(n)
           \/ Delivery!Tear
           \/ UNCHANGED <<card, landed, transfers, Place>>
<1>1. CASE Head(inbox).cmd = "file_end"
  BY <1>1, FileEndDelivers DEF Pushes, PushCmds
<1>2. CASE Head(inbox).cmd # "file_end"
  <2>1. UNCHANGED Seen
    BY <1>2 DEF Receive, Handle, FileEnd, CharBegin, FileAnnounce, Chunk, CharEnd, Query,
       Unanswered, SetName, plan, Seen
  <2> QED
    BY <2>1, SameSeen
<1> QED
  BY <1>1, <1>2

(* A reset may cut the write of the transfer under way.                    *)
LEMMA ResetDelivers ==
    ASSUME Inv, Reset
    PROVE  Delivery!Tear \/ UNCHANGED <<card, landed, transfers, Place>>
<1>1. UNCHANGED <<landed, transfers, meant>> /\ Place' = Place
  BY DEF Reset, plan, Place
<1>2. CASE UNCHANGED card
  BY <1>1, <1>2
<1>3. CASE /\ current_file # None /\ inbox # <<>> /\ Head(inbox).cmd = "file_end"
           /\ card' = [card EXCEPT ![Path] = Torn]
  <2>1. waits # None /\ waits.cmd = "file_end"
    BY <1>3, HeadOf DEF Pushes, PushCmds
  <2>2. Announced /\ Path = <<folder, file>>
    BY <1>3, <2>1, FileEndPlace
  <2> QED
    BY <1>1, <1>3, <2>2, UnderWay DEF Delivery!Tear
<1> QED
  BY <1>2, <1>3 DEF Reset

(* Hearing the ack of a file_end confirms.                                 *)
LEMMA HearDelivers ==
    ASSUME Inv, Hear
    PROVE  \/ \E n \in 0 .. MaxFile : Delivery!Confirm(n)
           \/ UNCHANGED <<card, landed, transfers, Place>>
<1>1. UNCHANGED <<card, transfers, meant>> /\ Place' = Place
  BY DEF Hear, plan, Place
<1>2. CASE landed' = landed
  BY <1>1, <1>2
<1>3. CASE /\ Expected(outbound) /\ Agreed(outbound) /\ waits.cmd = "file_end"
           /\ landed' = [landed EXCEPT ![<<folder, file>>] = Content(transfers, sent)]
  <2>1. outbound # None /\ waits # None /\ outbound.ok /\ outbound.cmd = "file_end"
        /\ outbound.n = sent
    BY <1>3 DEF Hear, Expected, Agreed
  <2>2. Announced /\ FileEndInv
    BY <1>3, <2>1, StageOf
  <2>3. card[<<folder, file>>] = Content(transfers, sent)
    BY <2>1, <2>2 DEF FileEndInv, Acked, PushCmds
  <2>4. sent \in 0 .. MaxFile
    BY <2>1 DEF Inv, Types, ChannelOK, Replies
  <2>5. Content(transfers, sent) = Delivery!Content(transfers, sent)
    BY DEF Content, Delivery!Content
  <2> QED
    BY <1>1, <1>3, <2>2, <2>3, <2>4, <2>5, UnderWay DEF Delivery!Confirm
<1> QED
  BY <1>2, <1>3 DEF Hear

LEMMA DeliveryStep ==
    ASSUME Inv, [Next]_vars
    PROVE  [Delivery!Next]_<<card, landed, transfers, Place>>
<1>1. CASE Receive
  BY <1>1, ReceiveDelivers DEF Delivery!Next
<1>2. CASE Reset
  BY <1>2, ResetDelivers DEF Delivery!Next
<1>3. CASE Hear
  BY <1>3, HearDelivers DEF Delivery!Next
<1>4. CASE SayFile
  BY <1>4, SayFileDelivers DEF Delivery!Next
<1>5. CASE Connect \/ Disconnect \/ Decide \/ UNCHANGED vars
  BY <1>5, SameSeen DEF Connect, Disconnect, Decide, Seen, plan, desktop, vars
<1>6. CASE SayCharBegin \/ SayChunk \/ SayFileEnd \/ SayCharEnd
  BY <1>6, SameSeen DEF SayCharBegin, SayChunk, SayFileEnd, SayCharEnd, Say, Seen, plan
<1>7. CASE SayAgain \/ GiveUp \/ OtherMessage
  BY <1>7, SameSeen DEF SayAgain, GiveUp, OtherMessage, Seen, plan, desktop
<1> QED
  BY <1>1, <1>2, <1>3, <1>4, <1>5, <1>6, <1>7 DEF Next, Link, Desktop

(***************************************************************************)
(* The push of desktop_control.rs delivers one file at a time: it          *)
(* implements FileDelivery, whatever is lost, repeated, cut or reset.      *)
(***************************************************************************)
THEOREM DeliversAlways == Spec => DeliversInTurn
<1>1. Init => Delivery!Init
  BY DEF Init, Delivery!Init, Place
<1>2. Inv /\ [Next]_vars => [Delivery!Next]_<<card, landed, transfers, Place>>
  BY DeliveryStep
<1> QED
  BY <1>1, <1>2, AlwaysInv, PTL DEF Spec, DeliversInTurn, Delivery!Spec
=============================================================================
