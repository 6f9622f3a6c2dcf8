---------------------------- MODULE FileDelivery ----------------------------
(***************************************************************************)
(* What the folder push promises the desktop, without commands, channels   *)
(* and faults: files are delivered one at a time.  Only the place of the   *)
(* transfer under way is ever written, with what that transfer has sent or *)
(* torn; a place the desktop was told about stays as it was told until the *)
(* next file is announced for it.                                          *)
(***************************************************************************)
EXTENDS Integers

CONSTANTS
    None,
    Absent, Torn,
    Paths,          \* folders with the names in them
    MaxFile,        \* most chunks of a file
    MaxTransfers    \* bound: files announced

Content(t, n) == [i \in 1 .. n |-> <<t, i>>]

VARIABLES
    card,       \* what each place holds
    landed,     \* what the desktop was told of it
    transfers,  \* files announced so far: the last one is under way
    place       \* where it is to land

Init ==
    /\ card = [p \in Paths |-> Absent]
    /\ landed = [p \in Paths |-> None]
    /\ transfers = 0
    /\ place = None

Announce(p) ==
    /\ transfers < MaxTransfers
    /\ transfers' = transfers + 1
    /\ place' = p
    /\ landed' = [landed EXCEPT ![p] = None]
    /\ UNCHANGED card

(* What of the transfer under way the desktop has not been told.           *)
Unsettled == transfers # 0 /\ landed[place] = None

Store(n) ==
    /\ Unsettled
    /\ card' = [card EXCEPT ![place] = Content(transfers, n)]
    /\ UNCHANGED <<landed, transfers, place>>

Tear ==
    /\ Unsettled
    /\ card' = [card EXCEPT ![place] = Torn]
    /\ UNCHANGED <<landed, transfers, place>>

Confirm(n) ==
    /\ Unsettled
    /\ card[place] = Content(transfers, n)
    /\ landed' = [landed EXCEPT ![place] = card[place]]
    /\ UNCHANGED <<card, transfers, place>>

Next ==
    \/ \E p \in Paths : Announce(p)
    \/ \E n \in 0 .. MaxFile : Store(n) \/ Confirm(n)
    \/ Tear

Spec == Init /\ [][Next]_<<card, landed, transfers, place>>
=============================================================================
