------------------------- MODULE ProvisioningProofs -------------------------
(***************************************************************************)
(* Proofs about Provisioning, for any names, passphrases and backoffs.     *)
(***************************************************************************)
EXTENDS Provisioning, SequenceTheorems, TLAPS

LEMMA Caps ==
    SsidCap = 2 /\ PskCap = 3 /\ Backoffs \in Nat /\ Backoffs > 0 /\ MaxDoubts \in Nat
  BY ProvisioningAssumption

LEMMA NoLength == Len(<<>>) = 0 /\ \A t : Len(t) # 0 => t # <<>>
<1>1. Len(<<>>) = 0
  BY EmptySeq
<1> QED
  BY <1>1, Zenon

(* A text is one to four pieces long, two at least if it is not tiny.      *)
Pieces(v) == {v} \X Nat

LEMMA WholeSeq ==
    ASSUME NEW v
    PROVE  /\ Whole(v) \in Seq(Pieces(v))
           /\ Len(Whole(v)) \in 1 .. 4
           /\ v \notin Tiny => Len(Whole(v)) >= 2
           /\ Whole(v) # <<>>
<1> DEFINE len == CASE v \in Tiny -> 1 [] v \in Long -> 3 [] v \in Huge -> 4 [] OTHER -> 2
<1>1. len \in 1 .. 4 /\ (v \notin Tiny => len >= 2)
  OBVIOUS
<1> HIDE DEF len
<1>2. Whole(v) = [n \in 1 .. len |-> <<v, n>>]
  BY DEF Whole, len
<1>3. Whole(v) \in Seq(Pieces(v)) /\ Len(Whole(v)) = len
  BY <1>1, <1>2 DEF Pieces
<1>4. Whole(v) # <<>>
  BY <1>1, <1>3, NoLength
<1> QED
  BY <1>1, <1>3, <1>4

LEMMA ScrapSeq ==
    /\ Len(Whole(Scrap)) = 2 /\ Whole(Scrap) # <<>>
    /\ Len(<<<<Scrap, 1>>>>) = 1 /\ <<<<Scrap, 1>>>> # <<>>
<1>1. Scrap \notin Tiny \cup Long \cup Huge
  BY ProvisioningAssumption
<1>2. Whole(Scrap) = [n \in 1 .. 2 |-> <<Scrap, n>>]
  BY <1>1 DEF Whole
<1>3. Len(Whole(Scrap)) = 2
  BY <1>2
<1> QED
  BY <1>3, WholeSeq

LEMMA ScrapCaps ==
    ASSUME NEW t \in {Whole(Scrap), <<<<Scrap, 1>>>>}
    PROVE  Len(t) <= SsidCap /\ Len(t) <= PskCap
<1>1. Len(t) \in 1 .. 2
  BY ScrapSeq
<1>2. ASSUME NEW n \in 1 .. 2 PROVE n <= SsidCap /\ n <= PskCap
  BY Caps
<1> QED
  BY <1>1, <1>2, Zenon

(* What of a text goes in frames is a sequence of pieces.                  *)
Stuff == (Ssids \cup Psks) \X Nat

LEMMA WholeStuff ==
    ASSUME NEW s \in Subtypes, NEW v \in Values(s)
    PROVE  /\ Whole(v) \in Seq(Stuff) /\ Len(Whole(v)) \in Nat
           /\ \A n \in 1 .. Len(Whole(v)) : SubSeq(Whole(v), n, n) \in Seq(Stuff)
                                            /\ Len(SubSeq(Whole(v), n, n)) = 1
<1> DEFINE w == Whole(v)
<1>1. v \in Ssids \cup Psks
  BY DEF Values, Subtypes
<1>2. w \in Seq(Pieces(v)) /\ Len(w) \in 1 .. 4
  BY WholeSeq
<1>3. \A i \in 1 .. Len(w) : w[i] \in Stuff
  BY <1>1, <1>2, ElementOfSeq DEF Pieces, Stuff
<1> HIDE DEF w
<1>4. w \in Seq(Stuff)
  BY <1>2, <1>3
<1>5. ASSUME NEW n \in 1 .. Len(w)
      PROVE  SubSeq(w, n, n) \in Seq(Stuff) /\ Len(SubSeq(w, n, n)) = 1
  BY <1>3, <1>4, <1>5, SubSeqProperties
<1> QED
  BY <1>2, <1>4, <1>5 DEF w

(* The beginning of a text, the piece after it, and both together.         *)
LEMMA Beginnings ==
    ASSUME NEW v, NEW n \in 1 .. Len(Whole(v)) - 1
    PROVE  /\ SubSeq(Whole(v), 1, n) \o SubSeq(Whole(v), n + 1, n + 1) = SubSeq(Whole(v), 1, n + 1)
           /\ Len(SubSeq(Whole(v), 1, n)) = n
           /\ Len(SubSeq(Whole(v), n + 1, n + 1)) = 1
           /\ Len(SubSeq(Whole(v), 1, n + 1)) = n + 1
           /\ SubSeq(Whole(v), 1, n) # <<>>
           /\ n + 1 = Len(Whole(v)) => SubSeq(Whole(v), 1, n + 1) = Whole(v)
<1> DEFINE w == Whole(v)
<1>1. /\ w \in Seq(Pieces(v)) /\ Len(w) \in Nat
      /\ \A i \in 1 .. Len(w) : w[i] \in Pieces(v)
  BY WholeSeq, ElementOfSeq, LenProperties
<1> HIDE DEF w
<1>2. n \in 1 .. Len(w) - 1
  BY DEF w
<1>3. SubSeq(w, 1, n) \o SubSeq(w, n + 1, n + 1) = SubSeq(w, 1, n + 1)
  BY <1>1, <1>2, ConcatAdjacentSubSeq
<1>4. Len(SubSeq(w, 1, n)) = n
  BY <1>1, <1>2, SubSeqProperties
<1>5. Len(SubSeq(w, n + 1, n + 1)) = 1
  BY <1>1, <1>2, SubSeqProperties
<1>6. Len(SubSeq(w, 1, n + 1)) = n + 1
  BY <1>1, <1>2, SubSeqProperties
<1>7. SubSeq(w, 1, n) # <<>>
  BY <1>2, <1>4, NoLength
<1>8. n + 1 = Len(w) => SubSeq(w, 1, n + 1) = w
  BY <1>1, SubSeqFull
<1> QED
  BY <1>3, <1>4, <1>5, <1>6, <1>7, <1>8 DEF w

-----------------------------------------------------------------------------
(***************************************************************************)
(* The reassembly buffer holds pieces exactly while a chain is in it.      *)
(***************************************************************************)
BufferInv ==
    /\ reasm \in Seq(Stuff) /\ Len(reasm) <= PskCap
    /\ (chain = "none") = (reasm = <<>>)

(***************************************************************************)
(* It is a chain of the credential the phone is sending: the beginning of  *)
(* that text, unless the phone is in doubt about it.                       *)
(***************************************************************************)
Under(s, v, n) ==
    \/ /\ sending = <<s, v, n, TRUE>> /\ Len(Whole(v)) <= PskCap
       /\ chain = s /\ reasm = SubSeq(Whole(v), 1, n)
    \/ sending = <<s, v, n, FALSE>> /\ chain \in {"none", s}

ChainInv ==
    \/ sending = NoChain /\ chain = "none"
    \/ \E s \in Subtypes : \E v \in Values(s) : \E n \in 1 .. Len(Whole(v)) - 1 :
           Under(s, v, n)

(* What is staged is what the phone means, where it means anything.        *)
Stageable(s) == Texts(s) \cup {Whole(Scrap), <<<<Scrap, 1>>>>}
AnyCredentials == [Ssid : Stageable("Ssid"), Psk : Stageable("Psk")]
Meanings == {Unsure} \cup Stageable("Ssid") \cup Stageable("Psk")
StageInv ==
    /\ staged \in AnyCredentials
    /\ meant \in [Subtypes -> Meanings]
    /\ Agrees(staged)
    /\ Len(staged.Ssid) <= SsidCap /\ Len(staged.Psk) <= PskCap

(* What is being written was acceptable, and by BluFi it was staged.       *)
CommitInv ==
    \/ commit = NoCommit
    \/ /\ commit.by \in {"blufi", "prov"}
       /\ commit.creds \in AnyCredentials /\ commit.creds.Ssid # <<>>
       /\ commit.by = "blufi" => commit.creds = staged
       /\ peer # "none"

StoredInv ==
    /\ gatt \in Credentials
    /\ gatt.Psk # <<>> => commit.by = "prov"
    /\ installed \in AnyCredentials
    /\ installed.Psk # <<>> => installed.Ssid # <<>>

LinkInv ==
    /\ peer \in {"none", "plain", "authenticated"}
    /\ passkey => peer # "none"
    /\ watching \in BOOLEAN /\ polled \in BOOLEAN
    /\ last_reported \in {"none", "Connected", "NotConnected"}

(* No network is being joined or left before the radio has started.        *)
WifiInv ==
    /\ link \in Links \cup {"none"} /\ unseen \in BOOLEAN
    /\ started \in BOOLEAN /\ backoff \in 0 .. Backoffs - 1
    /\ (link = "Connected") = (task \in {"connected", "leaving"})
    /\ task \in {"connecting", "backoff", "connected", "leaving"} => started

Inv == BufferInv /\ ChainInv /\ StageInv /\ CommitInv /\ StoredInv /\ LinkInv /\ WifiInv

LEMMA InvTypes == Inv => TypeOK /\ StagedAsSent
<1> SUFFICES ASSUME Inv PROVE TypeOK /\ StagedAsSent
  OBVIOUS
<1>1. chain \in Subtypes \cup {"none"}
  BY DEF Inv, ChainInv, Under
<1>2. commit.by \in {"nobody", "blufi", "prov"}
  BY DEF Inv, CommitInv, NoCommit
<1>3. StagedAsSent
  BY DEF Inv, CommitInv, StageInv, StagedAsSent, NoCommit
<1> QED
  BY <1>1, <1>2, <1>3 DEF Inv, BufferInv, StageInv, StoredInv, LinkInv, WifiInv, TypeOK

(* Texts and credentials.                                                  *)
LEMMA NoText ==
    /\ <<>> \in Texts("Ssid") /\ <<>> \in Texts("Psk")
    /\ <<>> \in Stageable("Ssid") /\ <<>> \in Stageable("Psk")
    /\ Empty \in Credentials /\ Empty.Ssid = <<>> /\ Empty.Psk = <<>>
    /\ Empty \in [Subtypes -> Meanings]
  BY DEF Texts, Empty, Credentials, Subtypes, Stageable, Meanings

LEMMA OneText ==
    ASSUME NEW s \in Subtypes, NEW v \in Values(s)
    PROVE  Whole(v) \in Texts(s) /\ Whole(v) \in Stageable(s)
  BY DEF Texts, Stageable

LEMMA AnyCredential == Credentials \subseteq AnyCredentials
  BY DEF Credentials, AnyCredentials, Stageable

LEMMA OneChanged ==
    ASSUME NEW c \in Credentials, NEW s \in Subtypes, NEW t \in Texts(s)
    PROVE  /\ [c EXCEPT ![s] = t] \in Credentials
           /\ s = "Ssid" => [c EXCEPT ![s] = t].Ssid = t /\ [c EXCEPT ![s] = t].Psk = c.Psk
           /\ s = "Psk" => [c EXCEPT ![s] = t].Psk = t /\ [c EXCEPT ![s] = t].Ssid = c.Ssid
  BY DEF Credentials, Subtypes

LEMMA OneRestaged ==
    ASSUME NEW c \in AnyCredentials, NEW s \in Subtypes, NEW t \in Stageable(s)
    PROVE  /\ [c EXCEPT ![s] = t] \in AnyCredentials
           /\ s = "Ssid" => [c EXCEPT ![s] = t].Ssid = t /\ [c EXCEPT ![s] = t].Psk = c.Psk
           /\ s = "Psk" => [c EXCEPT ![s] = t].Psk = t /\ [c EXCEPT ![s] = t].Ssid = c.Ssid
  BY DEF AnyCredentials, Subtypes

LEMMA HomeTexts ==
    HomeNetwork \in Credentials /\ HomeNetwork.Ssid # <<>>
<1>1. Home \in Values("Ssid") /\ Key \in Values("Psk")
  BY ProvisioningAssumption DEF Values
<1>2. Whole(Home) \in Texts("Ssid") /\ Whole(Key) \in Texts("Psk") /\ Whole(Home) # <<>>
  BY <1>1, OneText, WholeSeq DEF Subtypes
<1> QED
  BY <1>2 DEF HomeNetwork, Credentials

-----------------------------------------------------------------------------
LEMMA InitInv == Init => Inv
<1> SUFFICES ASSUME Init PROVE Inv
  OBVIOUS
<1>1. BufferInv /\ ChainInv
  BY EmptySeq, Caps DEF Init, BufferInv, ChainInv
<1>2. StageInv
  BY NoText, NoLength, Caps, AnyCredential DEF Init, StageInv, Agrees
<1>3. CommitInv
  BY DEF Init, CommitInv
<1>4. StoredInv
  <2>1. installed \in Credentials /\ (installed.Psk # <<>> => installed.Ssid # <<>>)
    BY NoText, HomeTexts DEF Init
  <2>2. gatt = [installed EXCEPT !["Psk"] = <<>>]
    BY DEF Init
  <2>3. gatt \in Credentials /\ gatt.Psk = <<>>
    BY <2>1, <2>2, NoText, OneChanged DEF Subtypes
  <2> QED
    BY <2>1, <2>3, AnyCredential DEF StoredInv
<1>5. LinkInv
  BY DEF Init, LinkInv
<1>6. WifiInv
  <2>1. task = "boot" /\ link = "none" /\ unseen = FALSE /\ started = FALSE /\ backoff = 0
    BY DEF Init
  <2>2. 0 \in 0 .. Backoffs - 1
    BY Caps
  <2>3. (link = "Connected") = (task \in {"connected", "leaving"})
    BY <2>1
  <2> QED
    BY <2>1, <2>2, <2>3 DEF WifiInv
<1> QED
  BY <1>1, <1>2, <1>3, <1>4, <1>5, <1>6 DEF Inv

(* What a frame of the phone leaves alone.                                 *)
LEMMA ElsewhereInv ==
    ASSUME Inv, Idle, Elsewhere
    PROVE  CommitInv' /\ StoredInv' /\ LinkInv' /\ WifiInv'
  BY DEF Inv, Idle, Elsewhere, CommitInv, StoredInv, LinkInv, WifiInv, wifi

(***************************************************************************)
(* Staging: what is staged is a text or a scrap, and within its cap.       *)
(***************************************************************************)
LEMMA KeptText ==
    ASSUME NEW s \in Subtypes, NEW text, Fits(s, text)
    PROVE  /\ Kept(s, text) \in Stageable(s)
           /\ s = "Ssid" => Len(Kept(s, text)) <= SsidCap
           /\ s = "Psk" => Len(Kept(s, text)) <= PskCap
<1>1. CASE \E v \in Values(s) : text = Whole(v)
  <2>1. Kept(s, text) = text /\ text \in Stageable(s)
    BY <1>1, OneText DEF Kept
  <2> QED
    BY <2>1 DEF Fits
<1>2. CASE ~\E v \in Values(s) : text = Whole(v)
  <2>1. Kept(s, text) \in {Whole(Scrap), <<<<Scrap, 1>>>>}
    BY <1>2 DEF Kept
  <2> QED
    BY <2>1, ScrapCaps DEF Stageable
<1> QED
  BY <1>1, <1>2

LEMMA StagedSomething ==
    ASSUME StageInv, NEW s \in Subtypes, NEW text, Stage(s, text)
    PROVE  /\ staged' \in AnyCredentials
           /\ Len(staged'.Ssid) <= SsidCap /\ Len(staged'.Psk) <= PskCap
           /\ s = "Ssid" => staged'.Psk = staged.Psk
           /\ s = "Psk" => staged'.Ssid = staged.Ssid
<1>1. CASE ~Fits(s, text)
  BY <1>1 DEF Stage, StageInv
<1>2. CASE Fits(s, text)
  <2> DEFINE kept == Kept(s, text)
             new  == [staged EXCEPT ![s] = kept]
  <2>1. staged' = new
    BY <1>2 DEF Stage
  <2>2. /\ kept \in Stageable(s)
        /\ s = "Ssid" => Len(kept) <= SsidCap
        /\ s = "Psk" => Len(kept) <= PskCap
    BY <1>2, KeptText
  <2> HIDE DEF kept
  <2>3. /\ new \in AnyCredentials
        /\ s = "Ssid" => new.Ssid = kept /\ new.Psk = staged.Psk
        /\ s = "Psk" => new.Psk = kept /\ new.Ssid = staged.Ssid
    BY <2>2, OneRestaged DEF StageInv
  <2> HIDE DEF new
  <2> QED
    BY <2>1, <2>2, <2>3 DEF StageInv, Subtypes
<1> QED
  BY <1>1, <1>2

(* The whole text is staged exactly when the phone expects it to be;       *)
LEMMA StagedText ==
    ASSUME StageInv, NEW s \in Subtypes, NEW v \in Values(s), Stage(s, Whole(v)), Means(s, v)
    PROVE  StageInv'
<1>1. CASE ~Fits(s, Whole(v))
  BY <1>1 DEF Stage, Means, StageInv, Agrees
<1>2. CASE Fits(s, Whole(v))
  <2> DEFINE w == Whole(v)
  <2>1. w \in Stageable(s) /\ Kept(s, w) = w /\ w \in Meanings
    BY OneText DEF Kept, Meanings, Subtypes
  <2>2. staged' = [staged EXCEPT ![s] = w] /\ meant' = [meant EXCEPT ![s] = w]
    BY <1>2, <2>1 DEF Stage, Means
  <2> HIDE DEF w
  <2>3. /\ s = "Ssid" => staged'.Ssid = w /\ staged'.Psk = staged.Psk
        /\ s = "Psk" => staged'.Psk = w /\ staged'.Ssid = staged.Ssid
    BY <2>1, <2>2, OneRestaged DEF StageInv
  <2>4. meant' \in [Subtypes -> Meanings] /\ Agrees(staged)
    BY <2>1, <2>2 DEF StageInv
  <2>5. Agrees(staged)'
    BY <2>2, <2>3, <2>4 DEF StageInv, Agrees, Subtypes
  <2> QED
    BY <2>4, <2>5, StagedSomething DEF StageInv
<1> QED
  BY <1>1, <1>2

(* in doubt, it may be anything.                                           *)
LEMMA StagedInDoubt ==
    ASSUME StageInv, NEW s \in Subtypes, Doubts(s), staged' = staged \/ \E text : Stage(s, text)
    PROVE  StageInv'
<1>1. meant' = [meant EXCEPT ![s] = Unsure] /\ meant' \in [Subtypes -> Meanings]
  BY DEF Doubts, StageInv, Meanings
<1>2. /\ staged' \in AnyCredentials
      /\ Len(staged'.Ssid) <= SsidCap /\ Len(staged'.Psk) <= PskCap
      /\ s = "Ssid" => staged'.Psk = staged.Psk
      /\ s = "Psk" => staged'.Ssid = staged.Ssid
  BY StagedSomething DEF StageInv
<1>3. Agrees(staged)'
  BY <1>1, <1>2 DEF StageInv, Agrees, Subtypes
<1> QED
  BY <1>1, <1>2, <1>3 DEF StageInv

(***************************************************************************)
(* The outcomes of a fragment: its chain goes on, or its text is staged,   *)
(***************************************************************************)
LEMMA PushedMore ==
    ASSUME NEW s, NEW total \in Nat, NEW part, PushFragment(s, total, part),
           Len(Reassembled(s, part)) \in Nat, Len(Reassembled(s, part)) < total,
           total <= PskCap
    PROVE  chain' = s /\ reasm' = Reassembled(s, part) /\ staged' = staged
<1> DEFINE text == Reassembled(s, part)
           aborted == total > PskCap \/ Len(text) > PskCap
<1>1. ~aborted /\ Len(text) < total
  BY Caps
<1> HIDE DEF text
<1> QED
  BY <1>1, Zenon DEF PushFragment, text

LEMMA PushedLast ==
    ASSUME NEW s, NEW total \in Nat, NEW part, PushFragment(s, total, part),
           Len(Reassembled(s, part)) = total
    PROVE  /\ chain' = "none" /\ reasm' = <<>>
           /\ staged' = staged \/ Stage(s, Reassembled(s, part))
           /\ total <= PskCap => Stage(s, Reassembled(s, part))
<1> DEFINE text == Reassembled(s, part)
           aborted == total > PskCap \/ Len(text) > PskCap
<1>1. ~(Len(text) < total) /\ (total <= PskCap => ~aborted)
  BY Caps
<1> HIDE DEF text
<1> QED
  BY <1>1, Zenon DEF PushFragment, text

(* or it is given up.                                                      *)
LEMMA Pushed ==
    ASSUME BufferInv, NEW s \in Subtypes, NEW total \in Nat, NEW part \in Seq(Stuff),
           Len(part) >= 1, PushFragment(s, total, part)
    PROVE  /\ BufferInv' /\ chain' \in {"none", s}
           /\ staged' = staged \/ Stage(s, Reassembled(s, part))
<1> DEFINE text == Reassembled(s, part)
           aborted == total > PskCap \/ Len(text) > PskCap
           more == ~aborted /\ Len(text) < total
<1>1. text \in Seq(Stuff) /\ Len(text) \in Nat /\ Len(text) >= 1
  <2>1. CASE chain = s
    BY <2>1, ConcatProperties, LenProperties DEF Reassembled, BufferInv
  <2>2. CASE chain # s
    BY <2>2, LenProperties DEF Reassembled
  <2> QED
    BY <2>1, <2>2
<1>2. text # <<>>
  BY <1>1, NoLength
<1> HIDE DEF text
<1>3. CASE more
  <2>1. chain' = s /\ reasm' = text /\ staged' = staged
    BY <1>3, Zenon DEF PushFragment, text
  <2>2. Len(text) <= PskCap
    BY <1>1, <1>3, Caps
  <2> QED
    BY <1>1, <1>2, <2>1, <2>2 DEF BufferInv, Subtypes
<1>4. CASE ~more
  <2>1. chain' = "none" /\ reasm' = <<>> /\ (staged' = staged \/ Stage(s, text))
    BY <1>4, Zenon DEF PushFragment, text
  <2> QED
    BY <2>1, EmptySeq, Caps DEF BufferInv, text
<1> QED
  BY <1>3, <1>4

(* A plain frame of the chain's credential ends the chain.                 *)
LEMMA PlainEnds ==
    ASSUME BufferInv, NEW s \in Subtypes, NEW part \in Seq(Stuff), Len(part) >= 1,
           PlainFrame(s, part), chain \in {"none", s}
    PROVE  /\ chain' = "none" /\ reasm' = <<>>
           /\ staged' = staged \/ \E text : Stage(s, text)
<1>1. CASE chain # s
  BY <1>1 DEF PlainFrame, BufferInv
<1>2. CASE chain = s
  <2> DEFINE total == Len(reasm) + Len(part)
  <2>1. PushFragment(s, total, part)
    BY <1>2 DEF PlainFrame
  <2>2. total \in Nat /\ Len(Reassembled(s, part)) = total
    BY <1>2, ConcatProperties, LenProperties DEF Reassembled, BufferInv
  <2> HIDE DEF total
  <2> QED
    BY <2>1, <2>2, PushedLast
<1> QED
  BY <1>1, <1>2

LEMMA EmptyBuffer ==
    ASSUME chain' = "none", reasm' = <<>>
    PROVE  BufferInv'
  BY EmptySeq, Caps DEF BufferInv

LEMMA ChainSent == ChainInv => chain \in {"none", sending[1]}
<1> SUFFICES ASSUME ChainInv PROVE chain \in {"none", sending[1]}
  OBVIOUS
<1>1. ASSUME NEW s, NEW v, NEW n, Under(s, v, n)
      PROVE  chain \in {"none", sending[1]}
  <2>1. CASE sending = <<s, v, n, TRUE>> /\ chain = s
    BY <2>1
  <2>2. CASE sending = <<s, v, n, FALSE>> /\ chain \in {"none", s}
    BY <2>2
  <2> QED
    BY <1>1, <2>1, <2>2 DEF Under
<1> QED
  BY <1>1 DEF ChainInv

LEMMA SentWhole ==
    ASSUME Inv, NEW s \in Subtypes, NEW v \in Values(s), SendWhole(s, v)
    PROVE  Inv'
<1>1. Idle /\ Elsewhere /\ PlainFrame(s, Whole(v))
  BY DEF SendWhole
<1>2. CASE sending[1] = s /\ Doubts(s) /\ sending' = NoChain
  <2>1. chain \in {"none", s}
    BY <1>2, ChainSent DEF Inv
  <2>2. Whole(v) \in Seq(Stuff) /\ Len(Whole(v)) >= 1
    BY WholeStuff, WholeSeq
  <2>3. chain' = "none" /\ reasm' = <<>> /\ (staged' = staged \/ \E text : Stage(s, text))
    BY <1>1, <2>1, <2>2, PlainEnds DEF Inv
  <2>4. BufferInv' /\ ChainInv'
    BY <1>2, <2>3, EmptyBuffer DEF ChainInv
  <2>5. StageInv'
    BY <1>2, <2>3, StagedInDoubt DEF Inv
  <2> QED
    BY <1>1, <2>4, <2>5, ElsewhereInv DEF Inv
<1>3. CASE sending[1] # s /\ Means(s, v) /\ UNCHANGED sending
  <2>1. chain # s
    BY <1>3, ChainSent DEF Inv, Subtypes
  <2>2. Stage(s, Whole(v)) /\ UNCHANGED <<chain, reasm>>
    BY <1>1, <2>1 DEF PlainFrame
  <2>3. BufferInv' /\ ChainInv'
    BY <1>3, <2>2 DEF Inv, BufferInv, ChainInv, Under
  <2>4. StageInv'
    BY <1>3, <2>2, StagedText DEF Inv
  <2> QED
    BY <1>1, <2>3, <2>4, ElsewhereInv DEF Inv
<1> QED
  BY <1>2, <1>3 DEF SendWhole

LEMMA SentFirst ==
    ASSUME Inv, NEW s \in Subtypes, NEW v \in Values(s), SendFirst(s, v)
    PROVE  Inv'
<1> DEFINE part  == SubSeq(Whole(v), 1, 1)
           len   == Len(Whole(v))
           clean == sending[1] # s /\ len <= PskCap
<1>1. /\ PushFragment(s, len, part)
      /\ sending' = <<s, v, 1, clean>>
      /\ clean => meant' = meant
      /\ ~clean => Doubts(s)
      /\ Idle /\ Elsewhere /\ v \notin Tiny
  BY DEF SendFirst
<1>2. len \in 2 .. 4 /\ part \in Seq(Stuff) /\ Len(part) = 1 /\ 1 \in 1 .. len - 1
  <2>1. len \in 1 .. 4 /\ len >= 2
    BY <1>1, WholeSeq
  <2>2. part \in Seq(Stuff) /\ Len(part) = 1
    BY <2>1, WholeStuff
  <2> HIDE DEF len, part
  <2> QED
    BY <2>1, <2>2
<1>3. BufferInv' /\ chain' \in {"none", s} /\ (staged' = staged \/ \E text : Stage(s, text))
  <2> HIDE DEF part, len
  <2>1. len \in Nat /\ Len(part) >= 1
    BY <1>2
  <2> QED
    BY <1>1, <1>2, <2>1, Pushed DEF Inv
<1>4. CASE clean
  <2>1. chain # s
    BY <1>4, ChainSent DEF Inv, Subtypes
  <2>2. Reassembled(s, part) = part
    BY <2>1 DEF Reassembled
  <2>3. chain' = s /\ reasm' = part /\ staged' = staged
    <3>1. len <= PskCap
      BY <1>4
    <3> HIDE DEF part, len
    <3>2. /\ len \in Nat
          /\ Len(Reassembled(s, part)) \in Nat /\ Len(Reassembled(s, part)) < len
      BY <1>2, <2>2
    <3> QED
      BY <1>1, <2>2, <3>1, <3>2, PushedMore
  <2>4. sending' = <<s, v, 1, TRUE>> /\ meant' = meant
    BY <1>1, <1>4
  <2>5. Under(s, v, 1)'
    BY <1>4, <2>3, <2>4 DEF Under
  <2>6. ChainInv'
    BY <1>2, <2>5 DEF ChainInv
  <2>7. StageInv'
    BY <2>3, <2>4 DEF Inv, StageInv, Agrees
  <2> QED
    BY <1>1, <1>3, <2>6, <2>7, ElsewhereInv DEF Inv
<1>5. CASE ~clean
  <2>1. sending' = <<s, v, 1, FALSE>> /\ Doubts(s)
    BY <1>1, <1>5
  <2>2. Under(s, v, 1)'
    BY <1>3, <2>1 DEF Under
  <2>3. ChainInv'
    BY <1>2, <2>2 DEF ChainInv
  <2>4. StageInv'
    BY <1>3, <2>1, StagedInDoubt DEF Inv
  <2> QED
    BY <1>1, <1>3, <2>3, <2>4, ElsewhereInv DEF Inv
<1> QED
  BY <1>4, <1>5

(* A chain goes on, as the phone sent it                                   *)
LEMMA SentNextClean ==
    ASSUME Inv, SendNext, NEW s \in Subtypes, NEW v \in Values(s),
           NEW n \in 1 .. Len(Whole(v)) - 1, sending = <<s, v, n, TRUE>>,
           Len(Whole(v)) <= PskCap, chain = s, reasm = SubSeq(Whole(v), 1, n)
    PROVE  BufferInv' /\ ChainInv' /\ StageInv'
<1> DEFINE w == Whole(v)
           part == SubSeq(w, n + 1, n + 1)
           text == SubSeq(w, 1, n + 1)
<1>1. Len(w) \in 1 .. 4 /\ n \in 1 .. Len(w) - 1 /\ Len(w) <= PskCap
  BY WholeSeq
<1>2. /\ Reassembled(s, part) = text
      /\ Len(reasm) = n /\ Len(part) = 1 /\ Len(text) = n + 1
      /\ n + 1 = Len(w) => text = w
  BY Beginnings DEF Reassembled
<1>3. part \in Seq(Stuff) /\ Len(part) >= 1
  <2>1. n + 1 \in 1 .. Len(w)
    <3> HIDE DEF w
    <3> QED
      BY <1>1
  <2> QED
    BY <2>1, WholeStuff
<1>4. \/ /\ n + 1 < Len(w)
         /\ PushFragment(s, Len(w), part)
         /\ sending' = <<s, v, n + 1, TRUE>>
         /\ UNCHANGED meant
      \/ /\ n + 1 = Len(w)
         /\ PlainFrame(s, part)
         /\ Means(s, v)
         /\ sending' = NoChain
  BY DEF SendNext
<1>5. CASE n + 1 < Len(w)
  <2>1. PushFragment(s, Len(w), part) /\ sending' = <<s, v, n + 1, TRUE>> /\ meant' = meant
    <3> HIDE DEF w, part
    <3>1. n + 1 # Len(w)
      BY <1>1, <1>5
    <3> QED
      BY <1>4, <3>1, Zenon
  <2>2. chain' = s /\ reasm' = text /\ staged' = staged
    <3> HIDE DEF w, part, text
    <3>1. Len(w) \in Nat
      BY <1>1
    <3>2. Len(Reassembled(s, part)) \in Nat /\ Len(Reassembled(s, part)) < Len(w)
      BY <1>1, <1>2, <1>5
    <3> QED
      BY <1>1, <1>2, <2>1, <3>1, <3>2, PushedMore
  <2>3. n + 1 \in 1 .. Len(w) - 1
    <3> HIDE DEF w
    <3> QED
      BY <1>1, <1>5
  <2>4. Under(s, v, n + 1)'
    BY <1>1, <2>1, <2>2 DEF Under
  <2>5. ChainInv'
    BY <2>3, <2>4 DEF ChainInv
  <2>6. BufferInv'
    <3> HIDE DEF w, part, text
    <3>1. Len(w) \in Nat
      BY <1>1
    <3> QED
      BY <1>3, <2>1, <3>1, Pushed DEF Inv
  <2>7. StageInv'
    BY <2>1, <2>2 DEF Inv, StageInv, Agrees
  <2> QED
    BY <2>5, <2>6, <2>7
<1>6. CASE n + 1 = Len(w)
  <2>1. PlainFrame(s, part) /\ Means(s, v) /\ sending' = NoChain
    <3> HIDE DEF w, part
    <3>1. ~(n + 1 < Len(w))
      BY <1>1, <1>6
    <3> QED
      BY <1>4, <3>1, Zenon
  <2>2. PushFragment(s, n + 1, part)
    BY <1>2, <2>1 DEF PlainFrame
  <2>3. Stage(s, w) /\ chain' = "none" /\ reasm' = <<>>
    <3>1. text = w
      BY <1>2, <1>6
    <3> HIDE DEF w, part, text
    <3>2. n + 1 \in Nat /\ Len(Reassembled(s, part)) = n + 1 /\ n + 1 <= PskCap
      BY <1>1, <1>2, <1>6
    <3> QED
      BY <1>2, <2>2, <3>1, <3>2, PushedLast
  <2>4. BufferInv' /\ ChainInv'
    BY <2>1, <2>3, EmptyBuffer DEF ChainInv
  <2>5. StageInv'
    BY <2>1, <2>3, StagedText DEF Inv
  <2> QED
    BY <2>4, <2>5
<1> QED
  BY <1>1, <1>5, <1>6

(* or in doubt.                                                            *)
LEMMA SentNextInDoubt ==
    ASSUME Inv, SendNext, NEW s \in Subtypes, NEW v \in Values(s),
           NEW n \in 1 .. Len(Whole(v)) - 1, sending = <<s, v, n, FALSE>>,
           chain \in {"none", s}
    PROVE  BufferInv' /\ ChainInv' /\ StageInv'
<1> DEFINE w == Whole(v)
           part == SubSeq(w, n + 1, n + 1)
<1>1. Len(w) \in 1 .. 4 /\ n \in 1 .. Len(w) - 1
  BY WholeSeq
<1>2. part \in Seq(Stuff) /\ Len(part) >= 1
  <2>1. n + 1 \in 1 .. Len(w)
    <3> HIDE DEF w
    <3> QED
      BY <1>1
  <2> QED
    BY <2>1, WholeStuff
<1>3. \/ /\ n + 1 < Len(w)
         /\ PushFragment(s, Len(w), part)
         /\ sending' = <<s, v, n + 1, FALSE>>
         /\ Doubts(s)
      \/ /\ n + 1 = Len(w)
         /\ PlainFrame(s, part)
         /\ Doubts(s)
         /\ sending' = NoChain
  BY DEF SendNext
<1>4. CASE n + 1 < Len(w)
  <2>1. PushFragment(s, Len(w), part) /\ sending' = <<s, v, n + 1, FALSE>> /\ Doubts(s)
    <3> HIDE DEF w, part
    <3>1. n + 1 # Len(w)
      BY <1>1, <1>4
    <3> QED
      BY <1>3, <3>1, Zenon
  <2>2. BufferInv' /\ chain' \in {"none", s} /\ (staged' = staged \/ \E text : Stage(s, text))
    <3> HIDE DEF w, part
    <3>1. Len(w) \in Nat
      BY <1>1
    <3> QED
      BY <1>2, <2>1, <3>1, Pushed DEF Inv
  <2>3. n + 1 \in 1 .. Len(w) - 1
    <3> HIDE DEF w
    <3> QED
      BY <1>1, <1>4
  <2>4. Under(s, v, n + 1)'
    BY <2>1, <2>2 DEF Under
  <2>5. ChainInv'
    BY <2>3, <2>4 DEF ChainInv
  <2> QED
    BY <2>1, <2>2, <2>5, StagedInDoubt DEF Inv
<1>5. CASE n + 1 = Len(w)
  <2>1. PlainFrame(s, part) /\ Doubts(s) /\ sending' = NoChain
    <3> HIDE DEF w, part
    <3>1. ~(n + 1 < Len(w))
      BY <1>1, <1>5
    <3> QED
      BY <1>3, <3>1, Zenon
  <2>2. chain' = "none" /\ reasm' = <<>> /\ (staged' = staged \/ \E text : Stage(s, text))
    <3> HIDE DEF part
    <3> QED
      BY <1>2, <2>1, PlainEnds DEF Inv
  <2>3. BufferInv' /\ ChainInv'
    BY <2>1, <2>2, EmptyBuffer DEF ChainInv
  <2> QED
    BY <2>1, <2>2, <2>3, StagedInDoubt DEF Inv
<1> QED
  BY <1>1, <1>4, <1>5

LEMMA SentNext ==
    ASSUME Inv, SendNext
    PROVE  Inv'
<1>1. sending # NoChain /\ Idle /\ Elsewhere
  BY DEF SendNext
<1>2. PICK s \in Subtypes : \E v \in Values(s) : \E n \in 1 .. Len(Whole(v)) - 1 : Under(s, v, n)
  BY <1>1 DEF Inv, ChainInv
<1>3. PICK v \in Values(s) : \E n \in 1 .. Len(Whole(v)) - 1 : Under(s, v, n)
  BY <1>2
<1>4. PICK n \in 1 .. Len(Whole(v)) - 1 : Under(s, v, n)
  BY <1>3
<1>5. BufferInv' /\ ChainInv' /\ StageInv'
  BY <1>4, SentNextClean, SentNextInDoubt DEF Under
<1> QED
  BY <1>1, <1>5, ElsewhereInv DEF Inv

-----------------------------------------------------------------------------
(* A new connection begins a new session and a new phone.                  *)
LEMMA Connected ==
    ASSUME Inv, Connect
    PROVE  Inv'
<1>1. commit = NoCommit
  BY DEF Connect, Inv, CommitInv
<1>2. BufferInv' /\ ChainInv'
  BY EmptyBuffer DEF Connect, ChainInv
<1>3. StageInv'
  <2>1. staged' = Empty /\ meant' = Empty
    BY DEF Connect
  <2> QED
    BY <2>1, NoText, NoLength, Caps, AnyCredential DEF StageInv, Agrees
<1>4. CommitInv'
  BY <1>1 DEF Connect, CommitInv
<1>5. StoredInv' /\ LinkInv'
  BY DEF Connect, Inv, StoredInv, LinkInv
<1>6. WifiInv'
  BY DEF Connect, Inv, WifiInv, wifi
<1> QED
  BY <1>2, <1>3, <1>4, <1>5, <1>6 DEF Inv

(* What the pairing and the disconnection leave alone.                     *)
LEMMA PeerMoves ==
    ASSUME Inv, Idle, peer' \in {"none", "plain", "authenticated"},
           passkey' => peer' # "none",
           UNCHANGED <<session, gatt, commit, installed, reconfig, link, unseen, wifi, phone>>
    PROVE  Inv'
<1>1. BufferInv' /\ ChainInv' /\ StageInv'
  BY DEF Inv, BufferInv, ChainInv, Under, StageInv, Agrees, session, phone
<1>2. CommitInv' /\ StoredInv' /\ LinkInv'
  BY DEF Inv, Idle, CommitInv, StoredInv, LinkInv, session, phone
<1>3. WifiInv'
  BY DEF Inv, WifiInv, wifi
<1> QED
  BY <1>1, <1>2, <1>3 DEF Inv

(* A commit begins: by BluFi with what is staged, by GATT with what was    *)
(* written.                                                                *)
LEMMA CommitBegins ==
    ASSUME Inv, ConnectToAp \/ \E v \in Psks \ Huge : WritePsk(v)
    PROVE  Inv'
<1>1. ASSUME ConnectToAp PROVE Inv'
  <2>1. /\ peer # "none" /\ staged.Ssid # <<>> /\ gatt.Psk = <<>>
        /\ commit'.by = "blufi" /\ commit'.creds = staged
    BY <1>1 DEF ConnectToAp, Acceptable, Inv, StoredInv, Idle, NoCommit
  <2>2. BufferInv' /\ ChainInv' /\ StageInv' /\ LinkInv'
    BY <1>1 DEF ConnectToAp, Inv, BufferInv, ChainInv, Under, StageInv, Agrees, LinkInv, session, phone
  <2>3. CommitInv' /\ StoredInv'
    BY <1>1, <2>1 DEF ConnectToAp, Inv, CommitInv, StageInv, StoredInv, session
  <2>4. WifiInv'
    BY <1>1 DEF ConnectToAp, Inv, WifiInv, wifi
  <2> QED
    BY <2>2, <2>3, <2>4 DEF Inv
<1>2. ASSUME NEW v \in Psks \ Huge, WritePsk(v) PROVE Inv'
  <2> DEFINE new == [gatt EXCEPT !["Psk"] = Whole(v)]
  <2>1. /\ peer # "none" /\ Idle
        /\ UNCHANGED <<peer, passkey, session, installed, reconfig, link, unseen, wifi, phone>>
        /\ \/ Acceptable(new) /\ commit' = [by |-> "prov", creds |-> new] /\ gatt' = new
           \/ UNCHANGED <<commit, gatt>>
    BY <1>2 DEF WritePsk
  <2>2. new \in Credentials
    BY OneText, OneChanged DEF Inv, StoredInv, Subtypes, Values
  <2> HIDE DEF new
  <2>3. BufferInv' /\ ChainInv' /\ StageInv' /\ LinkInv'
    BY <2>1 DEF Inv, BufferInv, ChainInv, Under, StageInv, Agrees, LinkInv, session, phone
  <2>4. CommitInv' /\ StoredInv'
    <3>1. CASE Acceptable(new) /\ commit' = [by |-> "prov", creds |-> new] /\ gatt' = new
      BY <2>1, <2>2, <3>1, AnyCredential DEF Inv, CommitInv, StoredInv, Acceptable
    <3>2. CASE UNCHANGED <<commit, gatt>>
      BY <2>1, <3>2 DEF Inv, Idle, CommitInv, StoredInv
    <3> QED
      BY <2>1, <3>1, <3>2
  <2>5. WifiInv'
    BY <2>1 DEF Inv, WifiInv, wifi
  <2> QED
    BY <2>3, <2>4, <2>5 DEF Inv
<1> QED
  BY <1>1, <1>2

LEMMA Unwritten ==
    ASSUME NEW c \in Credentials
    PROVE  /\ [c EXCEPT !["Psk"] = <<>>] \in Credentials
           /\ [c EXCEPT !["Psk"] = <<>>].Psk = <<>>
           /\ [c EXCEPT !["Psk"] = <<>>].Ssid = c.Ssid
  BY NoText, OneChanged DEF Subtypes

LEMMA SsidWritten ==
    ASSUME Inv, NEW v \in Ssids \ (Long \cup Huge), WriteSsid(v)
    PROVE  Inv'
<1> DEFINE new == [gatt EXCEPT !["Ssid"] = Whole(v)]
<1>1. /\ Idle /\ gatt' = new
      /\ UNCHANGED <<peer, passkey, session, commit, installed, reconfig, link, unseen, wifi, phone>>
  BY DEF WriteSsid
<1>2. new \in Credentials /\ new.Psk = gatt.Psk
  BY OneText, OneChanged DEF Inv, StoredInv, Subtypes, Values
<1> HIDE DEF new
<1>3. BufferInv' /\ ChainInv' /\ StageInv' /\ LinkInv'
  BY <1>1 DEF Inv, BufferInv, ChainInv, Under, StageInv, Agrees, LinkInv, session, phone
<1>4. CommitInv' /\ StoredInv'
  BY <1>1, <1>2 DEF Inv, Idle, CommitInv, StoredInv
<1>5. WifiInv'
  BY <1>1 DEF Inv, WifiInv, wifi
<1> QED
  BY <1>3, <1>4, <1>5 DEF Inv

(* The card has answered.                                                  *)
LEMMA CommitDone ==
    ASSUME Inv, CommittedBluFi \/ CommittedProv \/ CommitFails
    PROVE  Inv'
<1>1. ASSUME CommittedBluFi PROVE Inv'
  <2> DEFINE new == [staged EXCEPT !["Psk"] = <<>>]
  <2>1. /\ commit.by = "blufi" /\ installed' = commit.creds /\ commit' = NoCommit
        /\ staged' = new /\ meant' = [meant EXCEPT !["Psk"] = <<>>]
        /\ watching' = TRUE /\ last_reported' = Report(FALSE)
        /\ UNCHANGED <<peer, passkey, chain, reasm, gatt, link, unseen, wifi, sending, polled>>
    BY <1>1 DEF CommittedBluFi, Installs, ReplyStatus, SnapshotConnected
  <2>2. /\ new \in AnyCredentials /\ new.Psk = <<>> /\ new.Ssid = staged.Ssid
    BY OneRestaged, NoText DEF Inv, StageInv, Subtypes
  <2> HIDE DEF new
  <2>3. meant' \in [Subtypes -> Meanings] /\ meant'["Psk"] = <<>> /\ meant'["Ssid"] = meant["Ssid"]
    BY <2>1, NoText DEF Inv, StageInv, Subtypes, Meanings
  <2>4. BufferInv' /\ ChainInv'
    BY <2>1 DEF Inv, BufferInv, ChainInv, Under
  <2>5. StageInv'
    BY <2>1, <2>2, <2>3, NoLength, Caps DEF Inv, StageInv, Agrees, Subtypes
  <2>6. commit # NoCommit /\ commit.creds \in AnyCredentials /\ commit.creds.Ssid # <<>>
    BY <2>1 DEF Inv, CommitInv, NoCommit
  <2>7. CommitInv' /\ StoredInv'
    BY <2>1, <2>6 DEF Inv, CommitInv, StoredInv
  <2>8. LinkInv'
    BY <2>1 DEF Inv, LinkInv, Report
  <2>9. WifiInv'
    BY <2>1 DEF Inv, WifiInv, wifi
  <2> QED
    BY <2>4, <2>5, <2>7, <2>8, <2>9 DEF Inv
<1>2. ASSUME CommittedProv \/ CommitFails PROVE Inv'
  <2> DEFINE new == [gatt EXCEPT !["Psk"] = <<>>]
  <2>1. /\ commit # NoCommit /\ commit' = NoCommit
        /\ installed' \in {installed, commit.creds}
        /\ gatt' \in {gatt, new} /\ (commit.by = "prov" => gatt' = new)
        /\ UNCHANGED <<peer, passkey, session, link, unseen, wifi, phone>>
    BY <1>2 DEF CommittedProv, CommitFails, Installs, Idle, NoCommit
  <2>2. new \in Credentials /\ new.Psk = <<>>
    BY Unwritten DEF Inv, StoredInv
  <2> HIDE DEF new
  <2>3. commit.creds \in AnyCredentials /\ commit.creds.Ssid # <<>>
    BY <2>1 DEF Inv, CommitInv
  <2>4. BufferInv' /\ ChainInv' /\ StageInv' /\ LinkInv'
    BY <2>1 DEF Inv, BufferInv, ChainInv, Under, StageInv, Agrees, LinkInv, session, phone
  <2>5. CommitInv' /\ StoredInv'
    BY <2>1, <2>2, <2>3 DEF Inv, CommitInv, StoredInv
  <2>6. WifiInv'
    BY <2>1 DEF Inv, WifiInv, wifi
  <2> QED
    BY <2>4, <2>5, <2>6 DEF Inv
<1> QED
  BY <1>1, <1>2

LEMMA StatusTold ==
    ASSUME Inv, GetWifiStatus \/ PushStatus
    PROVE  Inv'
<1>1. /\ last_reported' \in {"Connected", "NotConnected"}
      /\ polled' \in BOOLEAN /\ unseen' \in BOOLEAN
      /\ UNCHANGED <<peer, passkey, staged, chain, reasm, watching, gatt, commit,
                     installed, reconfig, link, wifi, sending, meant>>
  <2>1. CASE GetWifiStatus
    BY <2>1 DEF GetWifiStatus, ReplyStatus, Report, Inv, LinkInv, WifiInv
  <2>2. CASE PushStatus
    BY <2>2 DEF PushStatus, Report, Inv, LinkInv, WifiInv
  <2> QED
    BY <2>1, <2>2
<1>2. BufferInv' /\ ChainInv' /\ StageInv' /\ LinkInv'
  BY <1>1 DEF Inv, BufferInv, ChainInv, Under, StageInv, Agrees, LinkInv
<1>3. CommitInv' /\ StoredInv'
  BY <1>1 DEF Inv, CommitInv, StoredInv
<1>4. WifiInv'
  BY <1>1 DEF Inv, WifiInv, wifi
<1> QED
  BY <1>2, <1>3, <1>4 DEF Inv

-----------------------------------------------------------------------------
(* The Wi-Fi task leaves the phone's side alone.                           *)
LEMMA OthersInv ==
    ASSUME Inv, Others
    PROVE  BufferInv' /\ ChainInv' /\ StageInv' /\ CommitInv' /\ StoredInv' /\ LinkInv'
<1>1. BufferInv' /\ ChainInv' /\ StageInv' /\ LinkInv'
  BY DEF Inv, Others, BufferInv, ChainInv, Under, StageInv, Agrees, LinkInv, session, phone
<1>2. CommitInv' /\ StoredInv'
  BY DEF Inv, Others, CommitInv, StoredInv, session
<1> QED
  BY <1>1, <1>2

LEMMA Entered ==
    ASSUME Inv, NEW c, Enter(c), started' = started
    PROVE  WifiInv'
<1>1. backoff' \in 0 .. Backoffs - 1 /\ started' \in BOOLEAN
  BY Caps DEF Enter, Inv, WifiInv
<1>2. CASE task' = "waiting" /\ Publish("Disconnected")
  BY <1>1, <1>2 DEF Publish, WifiInv, Links
<1>3. CASE started /\ task' = "connecting" /\ Publish("Connecting")
  BY <1>1, <1>3 DEF Publish, WifiInv, Links
<1>4. CASE ~started /\ task' = "starting" /\ UNCHANGED <<link, unseen>>
  <2>1. link # "Connected"
    BY <1>4 DEF Inv, WifiInv
  <2> QED
    BY <1>1, <1>4, <2>1 DEF Inv, WifiInv
<1> QED
  BY <1>2, <1>3, <1>4, Zenon DEF Enter

LEMMA RadioStep ==
    ASSUME Inv,
           \/ Boot \/ (\E ok \in BOOLEAN : Start(ok)) \/ Reconfigured \/ Leaves \/ Left
           \/ Joins \/ JoinFails \/ Retries \/ LinkDrops
    PROVE  Inv'
<1>1. Others
  BY DEF Boot, Start, Reconfigured, Leaves, Left, Joins, JoinFails, Retries, LinkDrops
<1>2. WifiInv'
  <2>1. CASE Boot \/ Left \/ Reconfigured
    BY <2>1, Entered DEF Boot, Left, Reconfigured
  <2>2. ASSUME NEW ok \in BOOLEAN, Start(ok) PROVE WifiInv'
    <3>1. backoff' = backoff /\ started' = ok /\ task = "starting"
      BY <2>2 DEF Start
    <3>2. CASE ok /\ task' = "connecting" /\ Publish("Connecting")
      BY <3>1, <3>2 DEF Publish, Inv, WifiInv, Links
    <3>3. CASE ~ok /\ task' = "parked" /\ UNCHANGED <<link, unseen>>
      BY <3>1, <3>3 DEF Inv, WifiInv
    <3> QED
      BY <2>2, <3>2, <3>3 DEF Start
  <2>3. CASE Leaves
    BY <2>3 DEF Leaves, Inv, WifiInv
  <2>4. CASE Joins
    <3>1. backoff' = 0 /\ 0 \in 0 .. Backoffs - 1
      BY <2>4, Caps DEF Joins
    <3> QED
      BY <2>4, <3>1 DEF Joins, Publish, Inv, WifiInv, Links
  <2>5. CASE JoinFails \/ LinkDrops
    <3>1. /\ link' \in {"Disconnected", "Connecting"} /\ unseen' = TRUE
          /\ task' \in {"backoff", "connecting"} /\ started
          /\ started' = started /\ backoff' = backoff
      BY <2>5 DEF JoinFails, LinkDrops, Publish, Inv, WifiInv
    <3> QED
      BY <3>1 DEF Inv, WifiInv, Links
  <2>6. CASE Retries
    <3>1. backoff' \in 0 .. Backoffs - 1
      BY <2>6, Caps DEF Retries, Inv, WifiInv
    <3> QED
      BY <2>6, <3>1 DEF Retries, Publish, Inv, WifiInv, Links
  <2> QED
    BY <2>1, <2>2, <2>3, <2>4, <2>5, <2>6
<1> QED
  BY <1>1, <1>2, OthersInv DEF Inv

-----------------------------------------------------------------------------
LEMMA StepInv == Inv /\ [Next]_vars => Inv'
<1> SUFFICES ASSUME Inv, [Next]_vars PROVE Inv'
  OBVIOUS
<1>1. CASE UNCHANGED vars
  <2>1. BufferInv' /\ ChainInv' /\ StageInv' /\ LinkInv'
    BY <1>1 DEF Inv, vars, BufferInv, ChainInv, Under, StageInv, Agrees, LinkInv, session, phone
  <2>2. CommitInv' /\ StoredInv'
    BY <1>1 DEF Inv, vars, CommitInv, StoredInv, session
  <2>3. WifiInv'
    BY <1>1 DEF Inv, vars, WifiInv, wifi
  <2> QED
    BY <2>1, <2>2, <2>3 DEF Inv
<1>2. CASE Connect
  BY <1>2, Connected
<1>3. CASE ShowPasskey
  <2>1. peer' = "plain" /\ Idle
    BY <1>3 DEF ShowPasskey
  <2> QED
    BY <1>3, <2>1, PeerMoves DEF ShowPasskey
<1>4. ASSUME NEW level \in {"plain", "authenticated"}, Paired(level) PROVE Inv'
  BY <1>4, PeerMoves DEF Paired
<1>5. CASE Disconnected
  BY <1>5, PeerMoves DEF Disconnected
<1>6. ASSUME NEW s \in Subtypes, NEW v \in Values(s), SendWhole(s, v) \/ SendFirst(s, v)
      PROVE  Inv'
  BY <1>6, SentWhole, SentFirst
<1>7. CASE SendNext
  BY <1>7, SentNext
<1>8. CASE ConnectToAp \/ \E v \in Psks \ Huge : WritePsk(v)
  BY <1>8, CommitBegins
<1>9. ASSUME NEW v \in Ssids \ (Long \cup Huge), WriteSsid(v) PROVE Inv'
  BY <1>9, SsidWritten
<1>10. CASE CommittedBluFi \/ CommittedProv \/ CommitFails
  BY <1>10, CommitDone
<1>11. CASE GetWifiStatus \/ PushStatus
  BY <1>11, StatusTold
<1>12. CASE \/ Boot \/ (\E ok \in BOOLEAN : Start(ok)) \/ Reconfigured \/ Leaves \/ Left
            \/ Joins \/ JoinFails \/ Retries \/ LinkDrops
  BY <1>12, RadioStep
<1> QED
  BY <1>1, <1>2, <1>3, <1>4, <1>5, <1>6, <1>7, <1>8, <1>9, <1>10, <1>11, <1>12, Zenon DEF Next

LEMMA AlwaysInv == Spec => []Inv
  BY InitInv, StepInv, PTL DEF Spec

(***************************************************************************)
(* Every variable stays in its range; a code is on the display only while  *)
(* a phone is connected, and a PSK is in the GATT table only during its    *)
(* commit.                                                                 *)
(***************************************************************************)
THEOREM TypeCorrect == Spec => []TypeOK
  BY AlwaysInv, InvTypes, PTL

(***************************************************************************)
(* What is staged, and so what a BluFi commit writes, is the last text the *)
(* phone sent of each credential, whatever frames and chains it mixed or   *)
(* abandoned, but for a text begun over an unfinished chain of the same    *)
(* credential or sent in fragments though above PROV_PSK_CAP.              *)
(***************************************************************************)
THEOREM StagedAlways == Spec => []StagedAsSent
  BY AlwaysInv, InvTypes, PTL

-----------------------------------------------------------------------------
(***************************************************************************)
(* The Wi-Fi task before its radio has started, and without a network.     *)
(***************************************************************************)
TaskInv ==
    /\ task \in {"boot", "starting", "leaving", "parked"} \cup Takes
    /\ task \in {"boot", "starting", "parked"} => ~started
    /\ task = "waiting" => ~Usable(creds)

(* The session records what it tells; a link told was up once.             *)
ToldInv ==
    /\ told = last_reported
    /\ told = "Connected" => started
    /\ watching => told # "none"

Full == Inv /\ TaskInv /\ ToldInv /\ NetworkKept /\ ReportOwed

LEMMA InitFull == Init => Full
<1> SUFFICES ASSUME Init PROVE Full
  OBVIOUS
<1>1. TaskInv /\ ToldInv
  BY DEF Init, TaskInv, ToldInv
<1>2. NetworkKept /\ ReportOwed
  BY DEF Init, NetworkKept, ReportOwed
<1> QED
  BY <1>1, <1>2, InitInv DEF Full

(* What neither gives a network, nor reports, nor belongs to the task.     *)
LEMMA Apart ==
    ASSUME Full, peer' # "none" => peer # "none",
           UNCHANGED <<watching, last_reported, installed, reconfig, link, unseen, wifi,
                       told, polled>>
    PROVE  TaskInv' /\ ToldInv' /\ NetworkKept' /\ ReportOwed'
<1>1. TaskInv' /\ ToldInv'
  BY DEF Full, TaskInv, ToldInv, wifi, Usable
<1>2. NetworkKept' /\ ReportOwed'
  BY DEF Full, NetworkKept, ReportOwed, wifi
<1> QED
  BY <1>1, <1>2

(* A network that a commit gives is one.                                   *)
LEMMA GivenOne ==
    ASSUME Inv, ~Idle
    PROVE  commit.creds # NoSignal
<1>1. commit.creds.Ssid # <<>>
  BY DEF Inv, CommitInv, Idle
<1> QED
  BY <1>1, NoText DEF NoSignal

LEMMA DownUnlessUp ==
    ASSUME Inv, ~started
    PROVE  Report(link = "Connected") = "NotConnected"
  BY DEF Inv, WifiInv, Report

LEMMA CommitEndsFull ==
    ASSUME Full, CommitEnds
    PROVE  TaskInv' /\ ToldInv' /\ NetworkKept' /\ ReportOwed'
<1>1. CASE CommittedBluFi
  <2>1. commit.by = "blufi" /\ ~Idle
    BY <1>1 DEF CommittedBluFi, Idle, NoCommit
  <2>2. /\ reconfig' = commit.creds /\ installed' = commit.creds
        /\ told' = "NotConnected" /\ last_reported' = "NotConnected"
        /\ UNCHANGED <<peer, link, unseen, wifi, polled>>
    BY <1>1 DEF CommittedBluFi, Installs, ReplyStatus, Report, SnapshotConnected
  <2>3. reconfig' # NoSignal
    BY <2>1, <2>2, GivenOne DEF Full
  <2>4. TaskInv' /\ ToldInv'
    BY <2>2 DEF Full, TaskInv, ToldInv, wifi, Usable
  <2>5. NetworkKept'
    BY <2>2, <2>3 DEF NetworkKept
  <2>6. ReportOwed'
    BY <2>2, <2>3 DEF Full, Inv, WifiInv, ReportOwed, Report, Takes, wifi
  <2> QED
    BY <2>4, <2>5, <2>6
<1>2. CASE CommittedProv
  <2>1. commit.by = "prov" /\ ~Idle
    BY <1>2 DEF CommittedProv, Idle, NoCommit
  <2>2. /\ reconfig' = commit.creds /\ installed' = commit.creds
        /\ UNCHANGED <<peer, session, link, unseen, wifi, phone>>
    BY <1>2 DEF CommittedProv, Installs
  <2>3. reconfig' # NoSignal
    BY <2>1, <2>2, GivenOne DEF Full
  <2>4. TaskInv' /\ ToldInv'
    BY <2>2 DEF Full, TaskInv, ToldInv, wifi, session, phone, Usable
  <2>5. NetworkKept'
    BY <2>2, <2>3 DEF NetworkKept
  <2>6. ReportOwed'
    BY <2>2, <2>3 DEF Full, ReportOwed, wifi, session, phone
  <2> QED
    BY <2>4, <2>5, <2>6
<1>3. CASE CommitFails
  BY <1>3, Apart DEF CommitFails, session, phone
<1> QED
  BY <1>1, <1>2, <1>3 DEF CommitEnds

LEMMA ToldFull ==
    ASSUME Full, GetWifiStatus \/ PushStatus
    PROVE  TaskInv' /\ ToldInv' /\ NetworkKept' /\ ReportOwed'
<1>1. UNCHANGED <<peer, watching, installed, reconfig, link, wifi>>
  BY DEF GetWifiStatus, PushStatus
<1>2. TaskInv' /\ NetworkKept'
  BY <1>1 DEF Full, TaskInv, NetworkKept, wifi, Usable
<1>3. CASE GetWifiStatus
  <2>1. told' = "NotConnected" /\ last_reported' = "NotConnected" /\ polled' = watching
    BY <1>3 DEF GetWifiStatus, ReplyStatus, Report, SnapshotConnected
  <2> QED
    BY <1>1, <1>2, <2>1 DEF ToldInv, ReportOwed
<1>4. CASE PushStatus
  <2>1. told' = Report(link = "Connected") /\ last_reported' = told'
    BY <1>4 DEF PushStatus, Full, ToldInv
  <2>2. told' = "Connected" => started
    BY <2>1 DEF Report, Full, Inv, WifiInv
  <2> QED
    BY <1>1, <1>2, <2>1, <2>2 DEF ToldInv, ReportOwed, Report, wifi
<1> QED
  BY <1>3, <1>4

-----------------------------------------------------------------------------
(* The task enters a network: it publishes, or its radio has yet to start. *)
LEMMA EntersFull ==
    ASSUME Full, NEW c, Enter(c), creds' = c, started' = started,
           UNCHANGED <<peer, watching, last_reported, told, polled>>
    PROVE  TaskInv' /\ ToldInv' /\ ReportOwed'
<1>1. ToldInv'
  BY DEF Full, ToldInv
<1>2. CASE ~Usable(c) /\ task' = "waiting" /\ Publish("Disconnected")
  <2>1. ~Usable(creds')
    BY <1>2
  <2> QED
    BY <1>1, <1>2, <2>1 DEF Publish, TaskInv, ReportOwed, Takes, Usable
<1>3. CASE task' = "connecting" /\ Publish("Connecting")
  BY <1>1, <1>3 DEF Publish, TaskInv, ReportOwed, Takes
<1>4. CASE ~started /\ task' = "starting" /\ UNCHANGED <<link, unseen>>
  <2>1. watching /\ peer # "none" => told = Report(link = "Connected")
    BY <1>4, DownUnlessUp DEF Full, Inv, LinkInv, ToldInv
  <2> QED
    BY <1>1, <1>4, <2>1 DEF TaskInv, ReportOwed
<1> QED
  BY <1>2, <1>3, <1>4, Zenon DEF Enter

LEMMA RadioFull ==
    ASSUME Full,
           \/ Boot \/ (\E ok \in BOOLEAN : Start(ok)) \/ Reconfigured \/ Leaves \/ Left
           \/ Joins \/ JoinFails \/ Retries \/ LinkDrops
    PROVE  TaskInv' /\ ToldInv' /\ NetworkKept' /\ ReportOwed'
<1>1. UNCHANGED <<peer, watching, last_reported, told, polled, installed>>
  BY DEF Boot, Start, Reconfigured, Leaves, Left, Joins, JoinFails, Retries, LinkDrops,
         Others, session, phone
<1>2. NetworkKept'
  BY <1>1 DEF Full, NetworkKept, Boot, Start, Reconfigured, Leaves, Left, Joins, JoinFails,
         Retries, LinkDrops
<1>3. CASE Boot \/ Left \/ Reconfigured
  BY <1>1, <1>2, <1>3, EntersFull DEF Boot, Left, Reconfigured
<1>4. ASSUME NEW ok \in BOOLEAN, Start(ok) PROVE TaskInv' /\ ToldInv' /\ ReportOwed'
  <2>1. CASE ok /\ task' = "connecting" /\ Publish("Connecting")
    BY <1>1, <1>4, <2>1 DEF Start, Publish, Full, TaskInv, ToldInv, ReportOwed, Takes
  <2>2. CASE ~ok /\ task' = "parked" /\ UNCHANGED <<link, unseen>>
    <3>1. ~started /\ ~started' /\ task = "starting"
      BY <1>4, <2>2 DEF Start, Full, TaskInv
    <3>2. ReportOwed'
      BY <1>1, <2>2, <3>1 DEF Full, ReportOwed, Takes
    <3> QED
      BY <1>1, <2>2, <3>1, <3>2 DEF Full, TaskInv, ToldInv
  <2> QED
    BY <1>4, <2>1, <2>2 DEF Start
<1>5. CASE Leaves
  <2>1. task' = "leaving" /\ started' = started
    BY <1>5 DEF Leaves
  <2> QED
    BY <1>1, <1>2, <2>1 DEF Full, TaskInv, ToldInv, ReportOwed
<1>6. CASE Joins \/ JoinFails \/ Retries \/ LinkDrops
  <2>1. task' \in {"connected", "backoff", "connecting"} /\ unseen' = TRUE
        /\ started' = started
    BY <1>6 DEF Joins, JoinFails, Retries, LinkDrops, Publish
  <2> QED
    BY <1>1, <1>2, <2>1 DEF Full, TaskInv, ToldInv, ReportOwed, Takes
<1> QED
  BY <1>2, <1>3, <1>4, <1>5, <1>6

LEMMA StepFull == Full /\ [Next]_vars => Full'
<1> SUFFICES ASSUME Full, [Next]_vars PROVE TaskInv' /\ ToldInv' /\ NetworkKept' /\ ReportOwed'
  BY StepInv DEF Full
<1>1. CASE UNCHANGED vars
  BY <1>1, Apart DEF vars, session, phone
<1>2. CASE Connect
  <2>1. /\ watching' = FALSE /\ told' = "none" /\ last_reported' = "none"
        /\ UNCHANGED <<installed, reconfig, wifi>>
    BY <1>2 DEF Connect
  <2> QED
    BY <2>1 DEF Full, TaskInv, ToldInv, NetworkKept, ReportOwed, wifi, Usable
<1>3. CASE ShowPasskey \/ (\E level \in {"plain", "authenticated"} : Paired(level)) \/ Disconnected
  BY <1>3, Apart DEF ShowPasskey, Paired, Disconnected, session, phone
<1>4. CASE \E s \in Subtypes : \E v \in Values(s) : SendWhole(s, v) \/ SendFirst(s, v)
  BY <1>4, Apart DEF SendWhole, SendFirst, Elsewhere
<1>5. CASE SendNext
  BY <1>5, Apart DEF SendNext, Elsewhere
<1>6. CASE ConnectToAp \/ (\E v \in Ssids \ (Long \cup Huge) : WriteSsid(v)) \/ \E v \in Psks \ Huge : WritePsk(v)
  BY <1>6, Apart DEF ConnectToAp, WriteSsid, WritePsk, session, phone
<1>7. CASE CommittedBluFi \/ CommittedProv \/ CommitFails
  BY <1>7, CommitEndsFull DEF CommitEnds
<1>8. CASE GetWifiStatus \/ PushStatus
  BY <1>8, ToldFull
<1>9. CASE \/ Boot \/ (\E ok \in BOOLEAN : Start(ok)) \/ Reconfigured \/ Leaves \/ Left
           \/ Joins \/ JoinFails \/ Retries \/ LinkDrops
  BY <1>9, RadioFull
<1> QED
  BY <1>1, <1>2, <1>3, <1>4, <1>5, <1>6, <1>7, <1>8, <1>9, Zenon DEF Next

LEMMA AlwaysFull == Spec => []Full
  BY InitFull, StepFull, PTL DEF Spec

(***************************************************************************)
(* No network is lost on its way from CONFIG_SNAPSHOT to the Wi-Fi task,   *)
(* however many are given and wherever the task is.                        *)
(***************************************************************************)
THEOREM NetworkAlwaysKept == Spec => []NetworkKept
<1>1. Full => NetworkKept
  BY DEF Full
<1> QED
  BY AlwaysFull, <1>1, PTL

(***************************************************************************)
(* A phone that stays and does not poll knows how the link is, or a report *)
(* is on its way to it.                                                    *)
(***************************************************************************)
THEOREM ReportAlwaysOwed == Spec => []ReportOwed
<1>1. Full => ReportOwed
  BY DEF Full
<1> QED
  BY AlwaysFull, <1>1, PTL

-----------------------------------------------------------------------------
(***************************************************************************)
(* Liveness, from the fairness of the tasks and the hypothesis NeverHeldUp:*)
(* what a task can always do when it has to, it does at last.              *)
(*                                                                         *)
(* When the phone commits nothing more, the last commit ends.              *)
(***************************************************************************)
LEMMA IdleStays == Idle /\ [Next]_vars /\ [~Commits]_vars => Idle'
<1> SUFFICES ASSUME Idle, [Next]_vars, [~Commits]_vars PROVE commit' = NoCommit
  BY DEF Idle
<1>1. UNCHANGED commit \/ CommitEnds
  BY DEF Next, Connect, ShowPasskey, Paired, Disconnected, SendWhole, SendFirst, SendNext,
         Elsewhere, Commits, WriteSsid, GetWifiStatus, PushStatus, Boot, Start, Reconfigured,
         Leaves, Left, Joins, JoinFails, Retries, LinkDrops, Others, vars, CommitEnds
<1> QED
  BY <1>1 DEF Idle, CommitEnds, CommittedBluFi, CommittedProv, CommitFails, Installs

LEMMA CommitsOver == FairSpec /\ []NeverHeldUp /\ Quiet => <>[]Idle
<1>1. <<CommitEnds>>_vars => Idle'
  BY DEF CommitEnds, CommittedBluFi, CommittedProv, CommitFails, Installs, Idle
<1>2. NeverHeldUp /\ ~Idle => ENABLED <<CommitEnds>>_vars
  BY DEF NeverHeldUp
<1> QED
  BY <1>1, <1>2, IdleStays, PTL DEF FairSpec, Spec, Quiet

-----------------------------------------------------------------------------
(***************************************************************************)
(* The phone: what it may be waiting for, with the link at rest.           *)
(***************************************************************************)
Given == reconfig # NoSignal /\ task \in Takes
Steady(l) ==
    peer # "none" /\ watching /\ ~polled /\ Report(link = "Connected") = l /\ Idle

LEMMA Waiting ==
    ASSUME Full, NEW l, Steady(l)
    PROVE  told = l \/ unseen \/ task = "leaving" \/ Given
  BY DEF Full, ReportOwed, Steady, Given

(* What is told stays told,                                                *)
LEMMA StaysTold ==
    ASSUME Full, [Next]_vars, NEW l, Steady(l), Steady(l)', told = l
    PROVE  told' = l
<1>1. CASE PushStatus
  BY <1>1 DEF PushStatus, Steady
<1>2. CASE GetWifiStatus
  BY <1>2 DEF GetWifiStatus, Steady
<1>3. CASE CommittedBluFi
  BY <1>3 DEF CommittedBluFi, Steady, Idle, NoCommit
<1>4. CASE Connect
  BY <1>4 DEF Connect, Steady
<1> QED
  BY <1>1, <1>2, <1>3, <1>4
     DEF Next, ShowPasskey, Paired, Disconnected, SendWhole, SendFirst, SendNext,
         Elsewhere, ConnectToAp, WriteSsid, WritePsk, CommittedProv, CommitFails, Boot, Start,
         Reconfigured, Leaves, Left, Joins, JoinFails, Retries, LinkDrops, Others, vars, phone

(* and what is unseen stays so until it is pushed.                         *)
LEMMA StaysUnseen ==
    ASSUME [Next]_vars, NEW l, Steady(l), unseen
    PROVE  unseen' \/ PushStatus
<1>1. peer # "none"
  BY DEF Steady
<1>2. UNCHANGED unseen \/ unseen' = TRUE \/ PushStatus
  BY <1>1
     DEF Next, Connect, ShowPasskey, Paired, Disconnected, SendWhole, SendFirst, SendNext,
         Elsewhere, ConnectToAp, WriteSsid, WritePsk, CommittedBluFi, CommittedProv,
         CommitFails, GetWifiStatus, Boot, Start, Reconfigured, Leaves, Left, Enter, Joins,
         JoinFails, Retries, LinkDrops, Publish, vars
<1> QED
  BY <1>2

LEMMA PushTells ==
    ASSUME Full, NEW l, Steady(l), PushStatus
    PROVE  told' = l
  BY DEF PushStatus, Steady, Full, ToldInv

(* A task that leaves, or was given a network, publishes on its way.       *)
LEMMA EnterPublishes ==
    ASSUME NEW c, Enter(c), started
    PROVE  unseen'
  BY DEF Enter, Publish

LEMMA StaysLeaving ==
    ASSUME Full, [Next]_vars, task = "leaving"
    PROVE  task' = "leaving" \/ (Left /\ unseen')
<1>1. started
  BY DEF Full, Inv, WifiInv
<1>2. CASE Left
  BY <1>1, <1>2, EnterPublishes DEF Left
<1> QED
  BY <1>2
     DEF Next, Connect, ShowPasskey, Paired, Disconnected, SendWhole, SendFirst, SendNext,
         Elsewhere, ConnectToAp, WriteSsid, WritePsk, CommittedBluFi, CommittedProv,
         CommitFails, GetWifiStatus, PushStatus, Boot, Start, Reconfigured, Leaves, Joins,
         JoinFails, Retries, LinkDrops, vars, wifi

LEMMA LeavesAtLast ==
    ASSUME Full, task = "leaving", TaskSteps
    PROVE  unseen'
<1>1. started
  BY DEF Full, Inv, WifiInv
<1>2. Enter(creds)
  BY DEF TaskSteps, Boot, Start, Left, Retries
<1> QED
  BY <1>1, <1>2, EnterPublishes

LEMMA TakenPublishes ==
    ASSUME Full, NEW l, Steady(l), TakesNetwork
    PROVE  task' = "leaving" \/ unseen' \/ told' = l
<1>1. CASE Leaves
  BY <1>1 DEF Leaves
<1>2. CASE Reconfigured /\ started
  BY <1>2, EnterPublishes DEF Reconfigured
<1>3. CASE Reconfigured /\ ~started
  <2>1. told = l
    BY <1>3, DownUnlessUp DEF Full, Inv, LinkInv, ToldInv, Steady
  <2> QED
    BY <1>3, <2>1 DEF Reconfigured, Others, phone
<1> QED
  BY <1>1, <1>2, <1>3 DEF TakesNetwork

LEMMA StaysGiven ==
    ASSUME Full, [Next]_vars, Given
    PROVE  Given' \/ unseen' \/ TakesNetwork
<1>1. CASE Joins \/ JoinFails \/ Retries \/ LinkDrops
  BY <1>1 DEF Joins, JoinFails, Retries, LinkDrops, Publish
<1>2. CASE CommittedBluFi \/ CommittedProv
  <2>1. ~Idle
    BY <1>2 DEF CommittedBluFi, CommittedProv, Idle, NoCommit
  <2>2. reconfig' # NoSignal
    BY <1>2, <2>1, GivenOne DEF CommittedBluFi, CommittedProv, Installs, Full
  <2> QED
    BY <1>2, <2>2 DEF CommittedBluFi, CommittedProv, Given, wifi
<1>3. task \notin {"boot", "starting", "leaving"}
  BY DEF Given, Takes
<1> QED
  BY <1>1, <1>2, <1>3
     DEF Next, Connect, ShowPasskey, Paired, Disconnected, SendWhole, SendFirst, SendNext,
         Elsewhere, ConnectToAp, WriteSsid, WritePsk, CommitFails, GetWifiStatus, PushStatus,
         Boot, Start, Left, TakesNetwork, vars, wifi, Given

(***************************************************************************)
(* "The phone observes the post-reconnect state without polling"           *)
(* (BluFiSession::push_status): a phone that stays and does not poll is    *)
(* told how the link came out.                                             *)
(***************************************************************************)
THEOREM PhoneAlwaysLearns == FairSpec /\ []NeverHeldUp => PhoneLearns
<1> SUFFICES ASSUME NEW l \in {"Connected", "NotConnected"}
             PROVE  FairSpec /\ []NeverHeldUp =>
                        (Quiet /\ <>[](peer # "none" /\ watching /\ ~polled
                                       /\ Report(link = "Connected") = l)
                            => <>[](told = l))
  BY DEF PhoneLearns
<1>1. Idle /\ (peer # "none" /\ watching /\ ~polled /\ Report(link = "Connected") = l)
          => Steady(l)
  BY DEF Steady
<1>2. Full /\ Steady(l) => told = l \/ unseen \/ task = "leaving" \/ Given
  BY Waiting
<1>3. Full /\ [Next]_vars /\ Steady(l) /\ Steady(l)' /\ told = l => (told = l)'
  BY StaysTold
<1>4. Full /\ [Next]_vars /\ Steady(l) /\ unseen => unseen' \/ (told = l)'
  BY StaysUnseen, PushTells
<1>5. Full /\ Steady(l) /\ <<PushStatus>>_vars => (told = l)'
  BY PushTells
<1>6. Full /\ [Next]_vars /\ task = "leaving" => (task = "leaving")' \/ unseen'
  BY StaysLeaving
<1>7. Full /\ task = "leaving" /\ <<TaskSteps>>_vars => unseen'
  BY LeavesAtLast
<1>8. Full /\ [Next]_vars /\ Steady(l) /\ Given =>
          Given' \/ (task = "leaving")' \/ unseen' \/ (told = l)'
  BY StaysGiven, TakenPublishes
<1>9. Full /\ Steady(l) /\ <<TakesNetwork>>_vars =>
          (task = "leaving")' \/ unseen' \/ (told = l)'
  BY TakenPublishes
<1>10. /\ NeverHeldUp /\ Given => ENABLED <<TakesNetwork>>_vars
       /\ NeverHeldUp /\ task = "leaving" => ENABLED <<TaskSteps>>_vars
       /\ NeverHeldUp /\ Steady(l) /\ unseen => ENABLED <<PushStatus>>_vars
  BY DEF NeverHeldUp, Given, Steady
<1> QED
  BY <1>1, <1>2, <1>3, <1>4, <1>5, <1>6, <1>7, <1>8, <1>9, <1>10, AlwaysFull, CommitsOver, PTL
     DEF FairSpec, Spec

-----------------------------------------------------------------------------
(***************************************************************************)
(* The Wi-Fi task, once no commit comes any more: the network in the       *)
(* signal is taken,                                                        *)
(***************************************************************************)
Calm == Idle /\ reconfig = NoSignal

LEMMA StaysCalm ==
    ASSUME [Next]_vars, Calm, Idle'
    PROVE  Calm'
  BY DEF Calm, Next, Connect, ShowPasskey, Paired, Disconnected, SendWhole, SendFirst,
         SendNext, Elsewhere, ConnectToAp, WriteSsid, WritePsk, Idle, NoCommit, CommittedBluFi,
         CommittedProv, CommitFails, GetWifiStatus, PushStatus, Boot, Start, Reconfigured,
         Leaves, Left, Joins, JoinFails, Retries, LinkDrops, vars

(* Where a step of the Wi-Fi task leads, by whoever it was.                *)
LEMMA TaskMoves ==
    ASSUME Full, [Next]_vars
    PROVE  /\ task = "parked" => task' = "parked"
           /\ task = "boot" => task' \in {"boot", "waiting", "starting"}
           /\ task = "starting" => task' \in {"starting", "connecting", "parked"}
           /\ task = "leaving" => task' \in {"leaving", "waiting", "connecting"}
           /\ task \in Takes => task' \in Takes \/ TakesNetwork
           /\ reconfig # NoSignal => reconfig' # NoSignal \/ TakesNetwork
<1>1. CASE Boot
  BY <1>1 DEF Boot, Enter, Full, TaskInv, Takes
<1>2. CASE Left
  BY <1>2 DEF Left, Enter, Full, Inv, WifiInv, Takes
<1>3. CASE \E ok \in BOOLEAN : Start(ok)
  BY <1>3 DEF Start, Takes
<1>4. CASE TakesNetwork
  BY <1>4 DEF TakesNetwork, Reconfigured, Leaves, Takes
<1>5. CASE Joins \/ JoinFails \/ Retries \/ LinkDrops
  BY <1>5 DEF Joins, JoinFails, Retries, LinkDrops, Takes
<1>6. CASE CommittedBluFi \/ CommittedProv
  <2>1. ~Idle
    BY <1>6 DEF CommittedBluFi, CommittedProv, Idle, NoCommit
  <2>2. reconfig' # NoSignal
    BY <1>6, <2>1, GivenOne DEF CommittedBluFi, CommittedProv, Installs, Full
  <2> QED
    BY <1>6, <2>2 DEF CommittedBluFi, CommittedProv, wifi
<1>7. CASE UNCHANGED <<task, reconfig>>
  BY <1>7
<1> QED
  BY <1>1, <1>2, <1>3, <1>4, <1>5, <1>6, <1>7
     DEF Next, Connect, ShowPasskey, Paired, Disconnected, SendWhole, SendFirst, SendNext,
         Elsewhere, ConnectToAp, WriteSsid, WritePsk, CommitFails, GetWifiStatus, PushStatus,
         TakesNetwork, vars, wifi

LEMMA NetworkTaken ==
    FairSpec /\ []NeverHeldUp /\ <>[]Idle => <>[](Calm \/ task = "parked")
<1>1. [Next]_vars /\ Calm /\ Idle' => Calm'
  BY StaysCalm
<1>2. Full /\ [Next]_vars /\ task = "parked" => (task = "parked")'
  BY TaskMoves
<1>3. Full /\ Idle =>
          Calm \/ Given \/ task = "parked" \/ task = "boot" \/ task = "starting" \/ task = "leaving"
  BY DEF Full, TaskInv, Calm, Given
<1>4. Full /\ [Next]_vars /\ Given /\ Idle' => Given' \/ Calm'
  BY TaskMoves DEF Given, Calm, TakesNetwork, Reconfigured, Leaves
<1>5. <<TakesNetwork>>_vars /\ Idle' => Calm'
  BY DEF Calm, TakesNetwork, Reconfigured, Leaves
<1>6. Full /\ [Next]_vars /\ task = "boot" /\ Idle' =>
          (task = "boot")' \/ (task = "starting")' \/ Given' \/ Calm'
  BY TaskMoves DEF Given, Calm, Takes
<1>7. Full /\ [Next]_vars /\ task = "starting" /\ Idle' =>
          (task = "starting")' \/ (task = "parked")' \/ Given' \/ Calm'
  BY TaskMoves DEF Given, Calm, Takes
<1>8. Full /\ [Next]_vars /\ task = "leaving" /\ Idle' =>
          (task = "leaving")' \/ Given' \/ Calm'
  BY TaskMoves DEF Given, Calm, Takes
<1>9. /\ task = "boot" /\ <<TaskSteps>>_vars => ~(task = "boot")'
      /\ task = "starting" /\ <<TaskSteps>>_vars => ~(task = "starting")'
      /\ task = "leaving" /\ <<TaskSteps>>_vars => ~(task = "leaving")'
  BY DEF TaskSteps, Boot, Start, Left, Retries, Enter
<1>10. /\ NeverHeldUp /\ Given => ENABLED <<TakesNetwork>>_vars
       /\ NeverHeldUp /\ (task = "boot" \/ task = "starting" \/ task = "leaving")
              => ENABLED <<TaskSteps>>_vars
  BY DEF NeverHeldUp, Given
<1> QED
  BY <1>1, <1>2, <1>3, <1>4, <1>5, <1>6, <1>7, <1>8, <1>9, <1>10, AlwaysFull, PTL
     DEF FairSpec, Spec

(* and with the network of the access point in range the task comes to it. *)
LEMMA HomeUsable == Usable(HomeNetwork)
<1>1. ASSUME NEW v PROVE Whole(v)[1][1] = v
  <2>1. Whole(v) \in Seq(Pieces(v)) /\ Len(Whole(v)) \in 1 .. 4
    BY WholeSeq
  <2>2. Whole(v)[1] \in Pieces(v)
    BY <2>1, ElementOfSeq
  <2> QED
    BY <2>2 DEF Pieces
<1>2. \A v \in Rejected : Whole(Key) # Whole(v)
  <2> SUFFICES ASSUME NEW v \in Rejected, Whole(Key) = Whole(v) PROVE FALSE
    OBVIOUS
  <2>1. Whole(Key)[1][1] = Key /\ Whole(v)[1][1] = v
    BY <1>1
  <2>2. Key = v
    BY <2>1
  <2> QED
    BY <2>2, ProvisioningAssumption
<1>3. HomeNetwork.Psk = Whole(Key)
  BY DEF HomeNetwork
<1> QED
  BY <1>2, <1>3, HomeTexts DEF Usable

HomeBound == Calm /\ creds = HomeNetwork

LEMMA HomeMoves ==
    ASSUME Full, Full', [Next]_vars, HomeBound, HomeBound'
    PROVE  /\ task # "waiting"
           /\ task = "boot" => task' \in {"boot", "starting"}
           /\ task = "starting" => task' \in {"starting", "connecting", "parked"}
           /\ task = "leaving" => task' \in {"leaving", "connecting"}
           /\ task = "connecting" => task' \in {"connecting", "backoff", "connected"}
           /\ task = "backoff" => task' \in {"backoff", "connecting"}
           /\ task = "connected" => task' = "connected" \/ LinkDrops
<1>1. task # "waiting" /\ task' # "waiting"
  BY HomeUsable DEF Full, TaskInv, HomeBound
<1>2. ~TakesNetwork
  BY DEF TakesNetwork, Reconfigured, Leaves, HomeBound, Calm
<1>3. task = "connecting" => task' \in {"connecting", "backoff", "connected"}
  BY <1>2 DEF Next, Connect, ShowPasskey, Paired, Disconnected, SendWhole, SendFirst, SendNext,
         Elsewhere, ConnectToAp, WriteSsid, WritePsk, CommittedBluFi, CommittedProv,
         CommitFails, GetWifiStatus, PushStatus, Boot, Start, Left, Joins, JoinFails, Retries,
         LinkDrops, TakesNetwork, vars, wifi
<1>4. task = "backoff" => task' \in {"backoff", "connecting"}
  BY <1>2 DEF Next, Connect, ShowPasskey, Paired, Disconnected, SendWhole, SendFirst, SendNext,
         Elsewhere, ConnectToAp, WriteSsid, WritePsk, CommittedBluFi, CommittedProv,
         CommitFails, GetWifiStatus, PushStatus, Boot, Start, Left, Joins, JoinFails, Retries,
         LinkDrops, TakesNetwork, vars, wifi
<1>5. task = "connected" => task' = "connected" \/ LinkDrops
  BY <1>2 DEF Next, Connect, ShowPasskey, Paired, Disconnected, SendWhole, SendFirst, SendNext,
         Elsewhere, ConnectToAp, WriteSsid, WritePsk, CommittedBluFi, CommittedProv,
         CommitFails, GetWifiStatus, PushStatus, Boot, Start, Left, Joins, JoinFails, Retries,
         TakesNetwork, vars, wifi
<1> QED
  BY <1>1, <1>3, <1>4, <1>5, TaskMoves

LEMMA ComesHome ==
    FairSpec /\ []NeverHeldUp /\ <>[](HomeBound \/ task = "parked") /\ <>[][~LinkDrops]_vars
        => <>[](task = "parked" \/ (HomeBound /\ task = "connected"))
<1>1. Full /\ [Next]_vars /\ task = "parked" => (task = "parked")'
  BY TaskMoves
<1>2. Full /\ HomeBound =>
          \/ task = "boot" \/ task = "starting" \/ task = "leaving" \/ task = "connecting"
          \/ task = "backoff" \/ task = "connected" \/ task = "parked"
  BY HomeUsable DEF Full, TaskInv, Takes, HomeBound
<1>3. Full /\ Full' /\ [Next]_vars /\ HomeBound /\ HomeBound' =>
          /\ task = "boot" => (task = "boot")' \/ (task = "starting")'
          /\ task = "starting" =>
                 (task = "starting")' \/ (task = "connecting")' \/ (task = "parked")'
          /\ task = "leaving" => (task = "leaving")' \/ (task = "connecting")'
          /\ task = "connecting" =>
                 (task = "connecting")' \/ (task = "backoff")' \/ (task = "connected")'
          /\ task = "backoff" => (task = "backoff")' \/ (task = "connecting")'
  BY HomeMoves
<1>4. Full /\ Full' /\ [Next]_vars /\ HomeBound /\ HomeBound' /\ [~LinkDrops]_vars
          /\ task = "connected" => (task = "connected")'
  BY HomeMoves DEF vars, wifi
<1>5. /\ task = "boot" /\ <<TaskSteps>>_vars => ~(task = "boot")'
      /\ task = "starting" /\ <<TaskSteps>>_vars => ~(task = "starting")'
      /\ task = "leaving" /\ <<TaskSteps>>_vars => ~(task = "leaving")'
      /\ task = "backoff" /\ <<TaskSteps>>_vars => ~(task = "backoff")'
  BY DEF TaskSteps, Boot, Start, Left, Retries, Enter
<1>6. <<Joins>>_vars => (task = "connected")'
  BY DEF Joins
<1>7. /\ NeverHeldUp /\ (task = "boot" \/ task = "starting" \/ task = "leaving" \/ task = "backoff")
              => ENABLED <<TaskSteps>>_vars
      /\ NeverHeldUp /\ task = "connecting" /\ HomeBound => ENABLED <<Joins>>_vars
  BY DEF NeverHeldUp, HomeBound
<1> QED
  BY <1>1, <1>2, <1>3, <1>4, <1>5, <1>6, <1>7, AlwaysFull, PTL DEF FairSpec, Spec

(***************************************************************************)
(* The network given last is the one the device ends up on (WIFI_RECONFIG  *)
(* and the loop of wifi_task), unless the radio never started.             *)
(***************************************************************************)
THEOREM AlwaysJoinsTheLast == FairSpec /\ []NeverHeldUp => JoinsTheLast
<1>1. Full /\ (Calm \/ task = "parked") /\ installed = HomeNetwork => HomeBound \/ task = "parked"
  BY DEF Full, NetworkKept, Calm, HomeBound
<1>2. Full /\ (task = "parked" \/ (HomeBound /\ task = "connected"))
          => task = "parked" \/ (link = "Connected" /\ creds = HomeNetwork)
  BY DEF Full, Inv, WifiInv, HomeBound
<1> QED
  BY <1>1, <1>2, AlwaysFull, CommitsOver, NetworkTaken, ComesHome, PTL
     DEF FairSpec, JoinsTheLast
=============================================================================
