-------------------------- MODULE ConfigStoreProofs --------------------------
(***************************************************************************)
(* Proofs about ConfigStore, for every set of workers, values and request  *)
(* bodies and every bound.                                                 *)
(*                                                                         *)
(* The inductive invariant says who may be in the middle of what: only the *)
(* task being polled is past its idle point (Exclusive), so a lock is held *)
(* by that task or by nobody (LocksInv), its clone is still the snapshot   *)
(* (CloneInv), and snapshot and card differ only between its live write    *)
(* and its install (StoreInv).                                             *)
(***************************************************************************)
EXTENDS ConfigStore, TLAPS

(* What bare_json and the handlers build is a configuration.               *)
LEMMA ApplyType ==
    ASSUME NEW config \in Configs, NEW patch \in Patches
    PROVE  Apply(config, patch) \in Configs
<1>1. PICK B \in SUBSET Blocks : patch \in [B -> Values]
  BY DEF Patches
<1> QED
  BY <1>1 DEF Apply, Configs

LEMMA PatchType ==
    ASSUME NEW r \in Requests
    PROVE  /\ r.patch \in Patches
           /\ r.kind # "put" => /\ r.kind \in Blocks
                                /\ \A b \in DOMAIN r.patch : b = r.kind
<1>1. CASE \E p \in Puts : r = [kind |-> "put", patch |-> p]
  BY <1>1, PutsAssumption
<1>2. ASSUME NEW b \in Blocks, NEW v \in Values,
             r = [kind |-> b, patch |-> [c \in {b} |-> v]]
      PROVE  /\ r.patch \in Patches
             /\ r.kind # "put" => /\ r.kind \in Blocks
                                  /\ \A c \in DOMAIN r.patch : c = r.kind
  <2>1. [c \in {b} |-> v] \in [{b} -> Values] /\ {b} \in SUBSET Blocks
    OBVIOUS
  <2>2. [c \in {b} |-> v] \in Patches
    BY <2>1 DEF Patches
  <2> QED
    BY <1>2, <2>2
<1>3. \/ \E p \in Puts : r = [kind |-> "put", patch |-> p]
      \/ \E b \in Blocks, v \in Values : r = [kind |-> b, patch |-> [c \in {b} |-> v]]
  <2>1. CASE r \in {[kind |-> "put", patch |-> p] : p \in Puts}
    BY <2>1
  <2>2. CASE r \in {[kind |-> b, patch |-> [c \in {b} |-> v]] : b \in Blocks, v \in Values}
    BY <2>2
  <2> QED
    BY <2>1, <2>2 DEF Requests
<1> QED
  BY <1>1, <1>2, <1>3, Zenon

LEMMA DefaultType == DefaultConfig \in Configs
  BY ValuesAssumption DEF DefaultConfig, Configs

LEMMA BootedType == Booted \in Configs
  BY DefaultType DEF Booted

LEMMA NewConfigType ==
    ASSUME TypeOK, NEW t \in Tasks, req[t] # NoPatch
    PROVE  /\ req[t] \in Requests
           /\ NewConfig(t) \in Configs
<1>1. req[t] \in Requests /\ base[t] \in Configs
  BY DEF TypeOK
<1> QED
  BY <1>1, PatchType, ApplyType DEF NewConfig

-----------------------------------------------------------------------------
(* Types.                                                                  *)

LEMMA GotoType ==
    ASSUME TypeOK, NEW t \in Tasks, NEW step \in Steps, Goto(t, step)
    PROVE  pc' \in [Tasks -> Steps]
  BY DEF Goto, TypeOK

LEMMA ReplyType ==
    ASSUME TypeOK, NEW t \in Tasks, Reply(t)
    PROVE  pc' \in [Tasks -> Steps] /\ req' \in [Tasks -> Requests \union {NoPatch}]
<1>1. pc' \in [Tasks -> Steps]
  BY GotoType DEF Reply, Steps
<1> QED
  BY <1>1 DEF Reply, TypeOK

(* The bounds are apart: they alone need arithmetic.                       *)
BoundsOK == requests \in 0 .. MaxRequests /\ upsets \in 0 .. MaxUpsets

LEMMA BoundsStep == BoundsOK /\ [Next]_vars => BoundsOK'
<1> SUFFICES ASSUME BoundsOK, [Next]_vars PROVE BoundsOK'
  OBVIOUS
<1> USE BoundsAssumption DEF BoundsOK
<1>1. Upset => upsets' \in 0 .. MaxUpsets
  BY DEF Upset
<1>2. CASE UNCHANGED vars
  BY <1>2 DEF vars, bounds
<1>3. CASE Boot
  BY <1>3 DEF Boot, bounds
<1>4. CASE PowerLoss
  BY <1>1, <1>4 DEF PowerLoss
<1>5. ASSUME NEW b \in Live, Consume(b) PROVE BoundsOK'
  BY <1>5 DEF Consume, bounds
<1>6. ASSUME NEW t \in Tasks, Serve(t) PROVE BoundsOK'
  <2>1. CASE Accept(t)
    BY <2>1 DEF Accept
  <2>2. CASE AcceptWipe(t)
    BY <2>2 DEF AcceptWipe
  <2>3. CASE WriteFails(t)
    BY <1>1, <2>3 DEF WriteFails
  <2>4. CASE Suspend(t) \/ Poll(t) \/ Finish(t) \/ GateLock(t) \/ GateDrop(t) \/ Clone(t)
    BY <2>4 DEF Suspend, Poll, Finish, GateLock, GateDrop, Clone, bounds
  <2>5. CASE NoStorage(t) \/ OpenStaging(t) \/ WriteStaging(t) \/ LookupFails(t)
    BY <2>5 DEF NoStorage, OpenStaging, WriteStaging, Stage, LookupFails, bounds
  <2>6. CASE TruncateLive(t) \/ WriteLive(t) \/ DeleteStaging(t) \/ Install(t) \/ Wipe(t)
    BY <2>6 DEF TruncateLive, Truncate, WriteLive, DeleteStaging, Install, Wipe, bounds
  <2> QED
    BY <1>6, <2>1, <2>2, <2>3, <2>4, <2>5, <2>6 DEF Serve
<1> QED
  BY <1>2, <1>3, <1>4, <1>5, <1>6 DEF Next

(* A task that builds a new configuration has a request in hand.           *)
Working == {"clone", "open", "stage", "truncate", "write", "cleanup", "install"}
ReqInv == \A t \in Tasks : pc[t] \in Working => req[t] # NoPatch

LEMMA TypeStep == TypeOK /\ ReqInv /\ [Next]_vars => TypeOK'
<1> SUFFICES ASSUME TypeOK, ReqInv, [Next]_vars PROVE TypeOK'
  OBVIOUS
<1>0. requests' \in 0 .. MaxRequests /\ upsets' \in 0 .. MaxUpsets
  BY BoundsStep DEF BoundsOK, TypeOK
<1>1. CASE UNCHANGED vars
  BY <1>0, <1>1 DEF TypeOK, vars, task, locks, card, ram
<1>2. CASE Boot
  <2>1. wanted' \in Configs /\ snapshot' \in Configs \union {None}
    BY <1>2, BootedType, DefaultType DEF Boot
  <2>2. applied' \in [Live -> Values]
    BY <1>2, <2>1 DEF Boot, Live, Configs, Blocks
  <2> QED
    BY <1>0, <1>2, <2>1, <2>2 DEF Boot, TypeOK, task, locks, card
<1>3. CASE PowerLoss
  <2>1. pc' \in [Tasks -> Steps] /\ base' \in [Tasks -> Configs]
    BY <1>3, DefaultType DEF PowerLoss, Steps
  <2> QED
    BY <1>0, <1>3, <2>1 DEF PowerLoss, TypeOK, card
<1>4. ASSUME NEW b \in Live, Consume(b) PROVE TypeOK'
  BY <1>0, <1>4 DEF Consume, TypeOK, task, locks, card
<1>5. ASSUME NEW t \in Tasks, Serve(t) PROVE TypeOK'
  <2>1. CASE Accept(t)
    <3>1. PICK r \in Requests : req' = [req EXCEPT ![t] = r]
                              /\ Goto(t, IF t = Ble THEN "clone" ELSE "gate")
      BY <2>1 DEF Accept
    <3>2. pc' \in [Tasks -> Steps]
      BY <3>1, GotoType DEF Steps
    <3> QED
      BY <1>0, <2>1, <3>1, <3>2 DEF Accept, TypeOK, locks, card, ram
  <2>2. CASE AcceptWipe(t)
    <3>1. pc' \in [Tasks -> Steps]
      BY <2>2, GotoType DEF AcceptWipe, Steps
    <3> QED
      BY <1>0, <2>2, <3>1 DEF AcceptWipe, TypeOK, locks, card, ram
  <2>3. CASE Suspend(t)
    BY <1>0, <2>3 DEF Suspend, TypeOK, locks, card, ram
  <2>4. CASE Poll(t)
    BY <1>0, <2>4 DEF Poll, TypeOK, locks, card, ram
  <2>5. CASE Finish(t)
    <3>1. pc' \in [Tasks -> Steps]
      BY <2>5, GotoType DEF Finish, Steps
    <3> QED
      BY <1>0, <2>5, <3>1 DEF Finish, TypeOK, locks, card, ram
  <2>6. CASE GateLock(t)
    <3>1. pc' \in [Tasks -> Steps]
      BY <2>6, GotoType DEF GateLock, Steps
    <3> QED
      BY <1>0, <2>6, <3>1 DEF GateLock, TypeOK, card, ram
  <2>7. CASE GateDrop(t)
    <3>1. pc' \in [Tasks -> Steps]
      BY <2>7, GotoType DEF GateDrop, Steps
    <3> QED
      BY <1>0, <2>7, <3>1 DEF GateDrop, TypeOK, card, ram
  <2>8. CASE Clone(t)
    <3>1. pc' \in [Tasks -> Steps] /\ req' \in [Tasks -> Requests \union {NoPatch}]
      <4>1. CASE snapshot = None /\ req[t].kind # "put"
        BY <2>8, <4>1, ReplyType DEF Clone
      <4>2. CASE ~(snapshot = None /\ req[t].kind # "put")
        BY <2>8, <4>2, GotoType DEF Clone, Steps, TypeOK
      <4> QED
        BY <4>1, <4>2
    <3>2. base' \in [Tasks -> Configs]
      BY <2>8, DefaultType DEF Clone, TypeOK
    <3> QED
      BY <1>0, <2>8, <3>1, <3>2 DEF Clone, TypeOK, locks, card, ram
  <2>9. CASE NoStorage(t)
    BY <1>0, <2>9, ReplyType DEF NoStorage, TypeOK, locks, card, ram
  <2>10. CASE OpenStaging(t)
    <3>1. pc' \in [Tasks -> Steps]
      BY <2>10, GotoType DEF OpenStaging, Steps
    <3> QED
      BY <1>0, <2>10, <3>1 DEF OpenStaging, TypeOK, ram
  <2>11. CASE WriteStaging(t)
    <3>1. pc' \in [Tasks -> Steps]
      BY <2>11, GotoType DEF WriteStaging, Stage, Steps
    <3>2. req[t] \in Requests /\ NewConfig(t) \in Configs
      BY <2>11, NewConfigType DEF WriteStaging, Stage, Runs, ReqInv, Working
    <3> QED
      BY <1>0, <2>11, <3>1, <3>2 DEF WriteStaging, Stage, TypeOK, locks, ram
  <2>12. CASE LookupFails(t)
    BY <1>0, <2>12, ReplyType DEF LookupFails, TypeOK, card, ram
  <2>13. CASE TruncateLive(t)
    <3>1. pc' \in [Tasks -> Steps]
      BY <2>13, GotoType DEF TruncateLive, Truncate, Steps
    <3> QED
      BY <1>0, <2>13, <3>1 DEF TruncateLive, Truncate, TypeOK, locks, ram
  <2>14. CASE WriteLive(t)
    <3>1. pc' \in [Tasks -> Steps]
      BY <2>14, GotoType DEF WriteLive, Steps
    <3>2. req[t] \in Requests /\ NewConfig(t) \in Configs
      BY <2>14, NewConfigType DEF WriteLive, Runs, ReqInv, Working
    <3>3. wanted' \in Configs
      BY <2>14, <3>2, PatchType, ApplyType DEF WriteLive, TypeOK
    <3> QED
      BY <1>0, <2>14, <3>1, <3>2, <3>3 DEF WriteLive, TypeOK, locks, ram
  <2>15. CASE DeleteStaging(t)
    <3>1. pc' \in [Tasks -> Steps]
      BY <2>15, GotoType DEF DeleteStaging, Steps
    <3> QED
      BY <1>0, <2>15, <3>1 DEF DeleteStaging, TypeOK, ram
  <2>16. CASE WriteFails(t)
    BY <1>0, <2>16, ReplyType DEF WriteFails, TypeOK, card, ram
  <2>17. CASE Install(t)
    <3>1. req[t] \in Requests /\ NewConfig(t) \in Configs
      BY <2>17, NewConfigType DEF Install, Runs, ReqInv, Working
    <3>2. signals' \in [Live -> Values \union {None}]
      BY <2>17, <3>1 DEF Install, TypeOK, Live, Configs, Blocks
    <3>3. snapshot' \in Configs
      BY <2>17, <3>1 DEF Install, Installed
    <3>4. pc' \in [Tasks -> Steps] /\ req' \in [Tasks -> Requests \union {NoPatch}]
      BY <2>17, ReplyType DEF Install
    <3> QED
      BY <1>0, <2>17, <3>2, <3>3, <3>4 DEF Install, TypeOK, locks, card
  <2>18. CASE Wipe(t)
    BY <1>0, <2>18, ReplyType DEF Wipe, TypeOK, locks, ram
  <2> QED
    BY <1>5, <2>1, <2>2, <2>3, <2>4, <2>5, <2>6, <2>7, <2>8, <2>9, <2>10,
       <2>11, <2>12, <2>13, <2>14, <2>15, <2>16, <2>17, <2>18 DEF Serve
<1> QED
  BY <1>1, <1>2, <1>3, <1>4, <1>5 DEF Next

-----------------------------------------------------------------------------
(* Who may be where.                                                       *)

Exclusive == \A t \in Tasks : t # cpu => pc[t] \in {"idle", "reply"}

LocksInv ==
    /\ snap_lock # None => snap_lock = cpu /\ pc[cpu] = "gated"
    /\ store_lock # None => /\ store_lock = cpu
                            /\ pc[cpu] \in {"stage", "truncate", "write", "cleanup"}

DownInv ==
    ~up => /\ cpu = None
           /\ snapshot = None
           /\ \A b \in Live : signals[b] = None

(* Outside Working only a request to come is in hand.                      *)
IdleInv == \A t \in Tasks : pc[t] \in {"idle", "reply", "wipe"} => req[t] = NoPatch

Order == ReqInv /\ Exclusive /\ LocksInv /\ DownInv /\ IdleInv

LEMMA OrderInit == Init => Order
  BY DEF Init, Order, ReqInv, Exclusive, LocksInv, DownInv, IdleInv, Working

LEMMA OrderStep == TypeOK /\ Order /\ [Next]_vars => Order'
<1> SUFFICES ASSUME TypeOK, Order, [Next]_vars PROVE Order'
  OBVIOUS
<1> USE TasksAssumption, SentinelAssumption
        DEF TypeOK, Order, ReqInv, Exclusive, LocksInv, DownInv, IdleInv, Working
<1>1. CASE UNCHANGED vars
  BY <1>1 DEF vars, task, locks, ram
<1>2. CASE Boot
  BY <1>2 DEF Boot, task, locks
<1>3. CASE PowerLoss
  BY <1>3 DEF PowerLoss
<1>4. ASSUME NEW b \in Live, Consume(b) PROVE Order'
  BY <1>4 DEF Consume, task, locks
<1>5. ASSUME NEW t \in Tasks, Serve(t) PROVE Order'
  <2> USE DEF Goto, Runs
  <2>1. CASE Accept(t)
    BY <2>1 DEF Accept, locks, ram
  <2>2. CASE AcceptWipe(t)
    BY <2>2 DEF AcceptWipe, locks, ram
  <2>3. CASE Suspend(t)
    BY <2>3 DEF Suspend, Waits, locks, ram
  <2>4. CASE Poll(t)
    BY <2>4 DEF Poll, locks, ram
  <2>5. CASE Finish(t)
    BY <2>5 DEF Finish, locks, ram
  <2>6. CASE GateLock(t)
    BY <2>6 DEF GateLock, ram
  <2>7. CASE GateDrop(t)
    BY <2>7 DEF GateDrop, ram
  <2>8. CASE Clone(t)
    BY <2>8 DEF Clone, Reply, locks, ram
  <2>9. CASE NoStorage(t)
    BY <2>9 DEF NoStorage, Reply, locks, ram
  <2>10. CASE OpenStaging(t)
    BY <2>10 DEF OpenStaging, ram
  <2>11. CASE WriteStaging(t)
    BY <2>11 DEF WriteStaging, Stage, locks, ram
  <2>12. CASE LookupFails(t)
    BY <2>12 DEF LookupFails, Reply, ram
  <2>13. CASE TruncateLive(t)
    BY <2>13 DEF TruncateLive, Truncate, locks, ram
  <2>14. CASE WriteLive(t)
    BY <2>14 DEF WriteLive, locks, ram
  <2>15. CASE DeleteStaging(t)
    BY <2>15 DEF DeleteStaging, ram
  <2>16. CASE WriteFails(t)
    BY <2>16 DEF WriteFails, Reply, ram
  <2>17. CASE Install(t)
    BY <2>17 DEF Install, Reply, locks
  <2>18. CASE Wipe(t)
    BY <2>18 DEF Wipe, Reply, locks, ram
  <2> QED
    BY <1>5, <2>1, <2>2, <2>3, <2>4, <2>5, <2>6, <2>7, <2>8, <2>9, <2>10,
       <2>11, <2>12, <2>13, <2>14, <2>15, <2>16, <2>17, <2>18 DEF Serve
<1> QED
  BY <1>1, <1>2, <1>3, <1>4, <1>5 DEF Next

-----------------------------------------------------------------------------
(* What the task in the middle of a write knows.                           *)

OnCard == {"stage", "truncate", "write", "cleanup", "install"}
Written == {"cleanup", "install"}

(* No lock is held from the clone to the install, but nobody else ran.     *)
CloneInv == \A t \in Tasks :
    pc[t] \in OnCard \union {"open"} /\ snapshot # None => base[t] = snapshot

StagedInv == \A t \in Tasks :
    /\ pc[t] \in OnCard => snapshot # None
    /\ pc[t] \in {"truncate", "write"} => staging = NewConfig(t)
    /\ pc[t] = "write" => live = Torn

StoreInv ==
    /\ \A t \in Tasks :
         pc[t] \in Written => wanted = NewConfig(t) /\ live = NewConfig(t)
    /\ (\A t \in Tasks : pc[t] \notin Written) /\ snapshot # None =>
         /\ wanted = snapshot
         /\ live \in Configs => live = snapshot

AbsentInv == live = Absent /\ snapshot # None => snapshot = DefaultConfig

IInv == TypeOK /\ Order /\ CloneInv /\ StagedInv /\ StoreInv /\ AbsentInv

LEMMA NewConfigKept ==
    ASSUME NEW t \in Tasks, base'[t] = base[t], req'[t] = req[t]
    PROVE  NewConfig(t)' = NewConfig(t)
  BY DEF NewConfig

LEMMA TypeInit == Init => TypeOK
<1> SUFFICES ASSUME Init PROVE TypeOK
  OBVIOUS
<1>1. requests \in 0 .. MaxRequests /\ upsets \in 0 .. MaxUpsets
  BY BoundsAssumption DEF Init
<1>2. wanted \in Configs /\ base \in [Tasks -> Configs] /\ live \in Configs \union {Absent}
  BY DefaultType DEF Init
<1>3. signals \in [Live -> Values \union {None}] /\ applied \in [Live -> Values]
  BY DefaultType DEF Init, Live, Configs, Blocks
<1> QED
  BY <1>1, <1>2, <1>3 DEF Init, TypeOK, Steps

LEMMA IInvInit == Init => IInv
<1> SUFFICES ASSUME Init PROVE IInv
  OBVIOUS
<1>1. TypeOK /\ Order
  BY TypeInit, OrderInit
<1> QED
  BY <1>1 DEF Init, IInv, CloneInv, StagedInv, StoreInv, AbsentInv, OnCard, Written

LEMMA IInvStep == IInv /\ [Next]_vars => IInv'
<1> SUFFICES ASSUME IInv, [Next]_vars PROVE IInv'
  OBVIOUS
<1>0. TypeOK /\ Order /\ TypeOK' /\ Order'
  BY TypeStep, OrderStep DEF IInv, Order
<1> SUFFICES CloneInv' /\ StagedInv' /\ StoreInv' /\ AbsentInv'
  BY <1>0 DEF IInv
<1> USE TasksAssumption, SentinelAssumption
        DEF IInv, CloneInv, StagedInv, StoreInv, AbsentInv, OnCard, Written
<1>1. CASE UNCHANGED vars
  BY <1>1 DEF vars, task, card, ram, NewConfig
<1>2. CASE Boot
  <2>1. \A t \in Tasks : pc[t] \in {"idle", "reply"}
    BY <1>0, <1>2 DEF Boot, Order, Exclusive, DownInv, TypeOK
  <2> QED
    BY <1>2, <2>1 DEF Boot, Booted, task, card
<1>3. CASE PowerLoss
  BY <1>3 DEF PowerLoss
<1>4. ASSUME NEW b \in Live, Consume(b)
      PROVE  CloneInv' /\ StagedInv' /\ StoreInv' /\ AbsentInv'
  BY <1>4 DEF Consume, task, card, NewConfig
<1>5. ASSUME NEW t \in Tasks, Serve(t)
      PROVE  CloneInv' /\ StagedInv' /\ StoreInv' /\ AbsentInv'
  <2> USE DEF Goto, Runs
  <2>0. cpu = t => \A u \in Tasks \ {t} : pc[u] \in {"idle", "reply"}
    BY <1>0 DEF Order, Exclusive
  <2>1. CASE Accept(t)
    BY <1>0, <2>1 DEF Accept, card, ram, TypeOK, Order, Exclusive
  <2>2. CASE AcceptWipe(t)
    BY <1>0, <2>2 DEF AcceptWipe, card, ram, TypeOK, Order, Exclusive
  <2>3. CASE Suspend(t) \/ Poll(t)
    BY <2>3 DEF Suspend, Poll, card, ram, NewConfig
  <2>4. CASE Finish(t)
    BY <1>0, <2>0, <2>4 DEF Finish, card, ram, TypeOK
  <2>5. CASE GateLock(t)
    BY <1>0, <2>0, <2>5 DEF GateLock, card, ram, TypeOK
  <2>6. CASE GateDrop(t)
    BY <1>0, <2>0, <2>6 DEF GateDrop, card, ram, TypeOK
  <2>7. CASE Clone(t)
    BY <1>0, <2>0, <2>7 DEF Clone, Reply, card, ram, TypeOK
  <2>8. CASE NoStorage(t)
    BY <1>0, <2>0, <2>8 DEF NoStorage, Reply, card, ram, TypeOK
  <2>9. CASE OpenStaging(t)
    BY <1>0, <2>0, <2>9 DEF OpenStaging, ram, TypeOK
  <2>10. CASE WriteStaging(t)
    BY <1>0, <2>0, <2>10, NewConfigKept DEF WriteStaging, Stage, ram, TypeOK
  <2>11. CASE LookupFails(t)
    BY <1>0, <2>0, <2>11 DEF LookupFails, Reply, card, ram, TypeOK
  <2>12. CASE TruncateLive(t)
    BY <1>0, <2>0, <2>12, NewConfigKept DEF TruncateLive, Truncate, ram, TypeOK
  <2>13. CASE WriteLive(t)
    BY <1>0, <2>0, <2>13, NewConfigKept, NewConfigType
       DEF WriteLive, ram, TypeOK, NewConfig, Order, ReqInv, Working
  <2>14. CASE DeleteStaging(t)
    BY <1>0, <2>0, <2>14, NewConfigKept DEF DeleteStaging, ram, TypeOK
  <2>15. CASE WriteFails(t)
    BY <1>0, <2>0, <2>15 DEF WriteFails, Reply, card, ram, TypeOK
  <2>16. CASE Install(t)
    BY <1>0, <2>0, <2>16, NewConfigType
       DEF Install, Installed, Reply, card, TypeOK, Order, ReqInv, Working
  <2>17. CASE Wipe(t)
    BY <1>0, <2>0, <2>17 DEF Wipe, Reply, ram, TypeOK
  <2> QED
    BY <1>5, <2>1, <2>2, <2>3, <2>4, <2>5, <2>6, <2>7, <2>8, <2>9, <2>10,
       <2>11, <2>12, <2>13, <2>14, <2>15, <2>16, <2>17 DEF Serve
<1> QED
  BY <1>1, <1>2, <1>3, <1>4, <1>5 DEF Next

LEMMA Invariant == Spec => []IInv
  BY IInvInit, IInvStep, PTL DEF Spec

(* Every variable stays in its set, for every set of workers and values.   *)
THEOREM TypeCorrect == Spec => []TypeOK
<1>1. IInv => TypeOK
  BY DEF IInv
<1> QED
  BY <1>1, Invariant, PTL

(***************************************************************************)
(* Between its first step and its reply a handler is never left waiting:   *)
(* the locks it comes to are free, so only a power loss takes the CPU from *)
(* it.  This is what makes clone, card write and installation one step for *)
(* everybody else.                                                         *)
(***************************************************************************)
THEOREM PolledToTheEnd ==
    Spec => [][cpu # None /\ cpu' # cpu /\ up' => pc[cpu] = "reply"]_vars
<1>1. IInv /\ [Next]_vars => [cpu # None /\ cpu' # cpu /\ up' => pc[cpu] = "reply"]_vars
  <2> SUFFICES ASSUME IInv, Next, cpu # None, cpu' # cpu, up' PROVE pc[cpu] = "reply"
    OBVIOUS
  <2>1. /\ cpu \in Tasks /\ up
        /\ snap_lock # None => pc[cpu] = "gated"
        /\ store_lock # None => pc[cpu] \in {"stage", "truncate", "write", "cleanup"}
    BY DEF IInv, TypeOK, Order, LocksInv, DownInv
  <2>2. ~Boot /\ ~PowerLoss /\ ~(\E b \in Live : Consume(b))
    BY <2>1 DEF Boot, PowerLoss, Consume, task
  <2>3. PICK t \in Tasks : Serve(t)
    BY <2>2 DEF Next
  <2>4. Suspend(t) \/ Finish(t)
    BY <2>3 DEF Serve, Accept, AcceptWipe, Poll, GateLock, GateDrop, Clone, NoStorage,
       OpenStaging, Stage, WriteStaging, LookupFails, Truncate, TruncateLive, WriteLive,
       DeleteStaging, WriteFails, Install, Wipe, Runs
  <2> QED
    BY <2>1, <2>4 DEF Suspend, Waits, Finish, Runs
<1> QED
  BY <1>1, Invariant, PTL DEF Spec

(* The read-modify-write handlers lose no update, however many they are.   *)
THEOREM UpdatesKept == Spec => []NoLostUpdate
<1>1. IInv => NoLostUpdate
  BY TasksAssumption
     DEF IInv, NoLostUpdate, Quiet, Order, Exclusive, StoreInv, Written, TypeOK
<1> QED
  BY <1>1, Invariant, PTL

(* What GET /settings shows is what write_config left on the card.         *)
THEOREM CardAgrees == Spec => []SnapshotOnCard
<1>1. IInv => SnapshotOnCard
  BY TasksAssumption
     DEF IInv, SnapshotOnCard, Quiet, Order, Exclusive, StoreInv, Written, TypeOK
<1> QED
  BY <1>1, Invariant, PTL

(* write_config truncates STACKCHAN.RON under a whole STKCFG.NEW only.     *)
THEOREM StagedFirst == Spec => StagedBeforeClobbered
<1>1. IInv /\ [Next]_vars =>
        (live # Torn /\ live' = Torn =>
            \E t \in Tasks : cpu = t /\ req[t] # NoPatch /\ staging = NewConfig(t))
  <2> SUFFICES ASSUME IInv, [Next]_vars, live # Torn, live' = Torn
               PROVE  \E t \in Tasks : cpu = t /\ req[t] # NoPatch /\ staging = NewConfig(t)
    OBVIOUS
  <2>1. PICK t \in Tasks : Serve(t) /\ live' # live
    BY DEF Next, Boot, PowerLoss, Consume, vars, card
  <2>2. TruncateLive(t) \/ WriteLive(t)
    BY <2>1 DEF Serve, Accept, AcceptWipe, Suspend, Poll, Finish, GateLock, GateDrop,
       Clone, NoStorage, OpenStaging, WriteStaging, Stage, LookupFails, DeleteStaging,
       WriteFails, Install, Wipe, card
  <2>3. pc[t] \in {"truncate", "write"} /\ cpu = t
    BY <2>2 DEF TruncateLive, Truncate, WriteLive, Runs
  <2> QED
    BY <2>3 DEF IInv, StagedInv, Order, ReqInv, Working
<1> QED
  BY <1>1, Invariant, PTL DEF Spec, StagedBeforeClobbered

-----------------------------------------------------------------------------
(* The Wi-Fi task.  WIFI_RECONFIG holds the credentials of the snapshot,   *)
(* or nothing, and then the task uses them already.                        *)

WifiInv ==
    snapshot # None =>
        snapshot["wifi"] = IF signals["wifi"] = None THEN applied["wifi"]
                                                     ELSE signals["wifi"]

LEMMA InstallSignals ==
    ASSUME IInv, WifiInv, NEW t \in Tasks, Install(t)
    PROVE  WifiInv'
<1>1. /\ pc[t] = "install" /\ snapshot # None /\ base[t] = snapshot
      /\ req[t] # NoPatch
  BY DEF Install, Runs, IInv, CloneInv, StagedInv, OnCard, Order, ReqInv, Working
<1>2. req[t] \in Requests /\ NewConfig(t) \in Configs
  BY <1>1, NewConfigType DEF IInv
<1>3. NewConfig(t)["wifi"] # None
  BY <1>2, SentinelAssumption DEF Configs, Blocks
<1>4. /\ snapshot'["wifi"] = NewConfig(t)["wifi"]
      /\ signals'["wifi"] = IF "wifi" \in Signalled(t) THEN NewConfig(t)["wifi"]
                                                       ELSE signals["wifi"]
      /\ applied' = applied
      /\ snapshot' # None
  BY <1>2, SentinelAssumption DEF Install, Installed, Live
<1>5. "wifi" \notin Signalled(t) => NewConfig(t)["wifi"] = snapshot["wifi"]
  <2>1. CASE req[t].kind = "put"
    BY <1>1, <2>1 DEF Signalled
  <2>2. CASE req[t].kind # "put"
    BY <1>1, <1>2, <2>2, PatchType DEF Signalled, Live, NewConfig, Apply, Blocks
  <2> QED
    BY <2>1, <2>2
<1> QED
  BY <1>1, <1>3, <1>4, <1>5 DEF WifiInv

LEMMA WifiStep == IInv /\ WifiInv /\ [Next]_vars => WifiInv'
<1> SUFFICES ASSUME IInv, WifiInv, [Next]_vars PROVE WifiInv'
  OBVIOUS
<1>1. CASE Boot
  <2>1. \A b \in Live : signals'[b] = None
    BY <1>1 DEF Boot, IInv, Order, DownInv
  <2> QED
    BY <1>1, <2>1 DEF Boot, WifiInv, Live
<1>2. CASE PowerLoss
  BY <1>2 DEF PowerLoss, WifiInv
<1>3. ASSUME NEW b \in Live, Consume(b) PROVE WifiInv'
  BY <1>3 DEF Consume, WifiInv, IInv, TypeOK, Live
<1>4. ASSUME NEW t \in Tasks, Serve(t) PROVE WifiInv'
  <2>1. CASE Install(t)
    BY <2>1, InstallSignals
  <2>2. CASE ~Install(t)
    <3>1. UNCHANGED <<snapshot, signals, applied>>
      BY <1>4, <2>2 DEF Serve, Accept, AcceptWipe, Suspend, Poll, Finish, GateLock,
         GateDrop, Clone, NoStorage, OpenStaging, WriteStaging, Stage, LookupFails,
         TruncateLive, Truncate, WriteLive, DeleteStaging, WriteFails, Wipe, ram
    <3> QED
      BY <3>1 DEF WifiInv
  <2> QED
    BY <2>1, <2>2
<1>5. CASE UNCHANGED vars
  BY <1>5 DEF vars, ram, WifiInv
<1> QED
  BY <1>1, <1>2, <1>3, <1>4, <1>5 DEF Next

(* The Wi-Fi task ends up with the credentials GET /settings reports.      *)
THEOREM WifiFollows == Spec => []WifiFollowsSettings
<1>1. Init => WifiInv
  BY DEF Init, WifiInv
<1>2. WifiInv => WifiFollowsSettings
  BY DEF WifiInv, WifiFollowsSettings
<1> QED
  BY <1>1, <1>2, Invariant, WifiStep, PTL DEF Spec

-----------------------------------------------------------------------------
(* File and snapshot as one register: who takes which abstract step.       *)

Pending == [t \in Tasks |-> IF req[t] = NoPatch THEN NoPatch ELSE req[t].patch]

(* The register speaks of the same configurations and patches.             *)
LEMMA RegisterData ==
    /\ Register!Configs = Configs
    /\ Register!Patches = Patches
    /\ Register!DefaultConfig = DefaultConfig
    /\ \A config, patch : Register!Apply(config, patch) = Apply(config, patch)
  BY DEF Register!Configs, Configs, Register!Blocks, Blocks, Register!Patches, Patches,
         Register!DefaultConfig, DefaultConfig, Register!Apply, Apply

LEMMA RegisterInit == Init => Register!Init
<1> SUFFICES ASSUME Init PROVE Register!Init
  OBVIOUS
<1>1. Value \in Configs
  BY BootedType DEF Init, Value
<1>2. [t \in Tasks |-> IF req[t] = NoPatch THEN NoPatch ELSE req[t].patch]
        = [t \in Tasks |-> NoPatch]
  BY DEF Init
<1>3. (live = Torn) = FALSE
  BY SentinelAssumption, DefaultType DEF Init
<1> QED
  BY <1>1, <1>2, <1>3, RegisterData DEF Register!Init

(* A step that leaves requests, snapshot and live file alone stutters.     *)
LEMMA RegisterStutter ==
    ASSUME UNCHANGED <<req, snapshot, live>>
    PROVE  UNCHANGED <<Value, Pending, live = Torn>>
  BY DEF Value, Booted, Pending

(* A reply without an install refuses the request, if there was one.       *)
LEMMA RegisterRefuse ==
    ASSUME IInv, NEW t \in Tasks, Reply(t), UNCHANGED <<snapshot, live>>
    PROVE  Register!Refuse(t) \/ UNCHANGED <<Value, Pending, live = Torn>>
<1>1. UNCHANGED <<Value, live = Torn>>
  BY DEF Value, Booted
<1>2. req' = [req EXCEPT ![t] = NoPatch]
  BY DEF Reply
<1>3. CASE req[t] = NoPatch
  <2>1. req' = req
    BY <1>2, <1>3 DEF IInv, TypeOK
  <2> QED
    BY <1>1, <2>1 DEF Pending
<1>4. CASE req[t] # NoPatch
  <2>1. Pending[t] # NoPatch
    BY <1>4, PatchType, SentinelAssumption DEF Pending, IInv, TypeOK
  <2>2. Pending' = [Pending EXCEPT ![t] = NoPatch]
    BY <1>2 DEF Pending, IInv, TypeOK
  <2> QED
    BY <1>1, <2>1, <2>2 DEF Register!Refuse, Pending
<1> QED
  BY <1>3, <1>4

LEMMA RegisterRequest ==
    ASSUME IInv, NEW t \in Tasks, Accept(t)
    PROVE  Register!Request(t)
<1>1. PICK r \in Requests : req' = [req EXCEPT ![t] = r]
  BY DEF Accept
<1>2. r.patch \in Patches /\ r # NoPatch
  BY PatchType, SentinelAssumption
<1>3. req[t] = NoPatch
  BY DEF Accept, IInv, Order, IdleInv
<1>4. Pending[t] = NoPatch /\ Pending' = [Pending EXCEPT ![t] = r.patch]
  BY <1>1, <1>2, <1>3 DEF Pending, IInv, TypeOK
<1>5. UNCHANGED <<Value, live = Torn>>
  BY DEF Accept, card, ram, Value, Booted
<1> QED
  BY <1>2, <1>4, <1>5, RegisterData DEF Register!Request, Pending

LEMMA RegisterWrite ==
    ASSUME IInv, NEW t \in Tasks, TruncateLive(t) \/ WriteLive(t)
    PROVE  Register!Expose(t) \/ Register!Cover(t)
<1>1. pc[t] \in {"truncate", "write"}
  BY DEF TruncateLive, Truncate, WriteLive, Runs
<1>2. snapshot # None /\ req[t] # NoPatch
  BY <1>1 DEF IInv, StagedInv, OnCard, Order, ReqInv, Working
<1>3. Pending[t] # NoPatch
  BY <1>2, PatchType, SentinelAssumption DEF Pending, IInv, TypeOK
<1>4. UNCHANGED <<Value, Pending>>
  BY <1>2 DEF TruncateLive, Truncate, WriteLive, Value, Pending, ram
<1>5. CASE TruncateLive(t)
  <2>1. (live = Torn)' = TRUE
    BY <1>5 DEF TruncateLive, Truncate
  <2> QED
    BY <1>3, <1>4, <2>1 DEF Register!Expose, Pending
<1>6. CASE WriteLive(t)
  <2>1. (live = Torn)' = FALSE
    BY <1>2, <1>6, NewConfigType, SentinelAssumption DEF WriteLive, IInv
  <2> QED
    BY <1>3, <1>4, <2>1 DEF Register!Cover, Pending
<1> QED
  BY <1>5, <1>6

LEMMA RegisterUpdate ==
    ASSUME IInv, NEW t \in Tasks, Install(t)
    PROVE  Register!Update(t)
<1>1. /\ pc[t] = "install" /\ snapshot # None /\ base[t] = snapshot
      /\ req[t] # NoPatch /\ live = NewConfig(t)
  BY DEF Install, Runs, IInv, CloneInv, StagedInv, StoreInv, OnCard, Written,
         Order, ReqInv, Working
<1>2. req[t] \in Requests /\ NewConfig(t) \in Configs
  BY <1>1, NewConfigType DEF IInv
<1>3. Pending[t] = req[t].patch /\ Pending[t] # NoPatch
  BY <1>1, <1>2, PatchType, SentinelAssumption DEF Pending
<1>4. (live = Torn) = FALSE /\ UNCHANGED (live = Torn)
  BY <1>1, <1>2, SentinelAssumption DEF Install, card
<1>5. Value = snapshot /\ Value' = Apply(snapshot, req[t].patch)
  BY <1>1, <1>2, SentinelAssumption DEF Install, Installed, Value, NewConfig
<1>6. Pending' = [Pending EXCEPT ![t] = NoPatch]
  BY DEF Install, Reply, Pending, IInv, TypeOK
<1> QED
  BY <1>3, <1>4, <1>5, <1>6, RegisterData DEF Register!Update, Pending

LEMMA RegisterPowerLoss ==
    ASSUME IInv, PowerLoss
    PROVE  Register!PowerLoss
<1>1. Pending' = [t \in Tasks |-> NoPatch]
  BY DEF PowerLoss, Pending
<1>2. UNCHANGED (live = Torn) /\ Value' = Booted
  BY DEF PowerLoss, card, Value, Booted
<1>3. CASE live = Torn
  BY <1>1, <1>2, <1>3, SentinelAssumption, RegisterData DEF Booted, Register!PowerLoss, Pending
<1>4. CASE live # Torn
  <2>1. CASE snapshot = None
    BY <1>1, <1>2, <1>4, <2>1 DEF Value, Register!PowerLoss, Pending
  <2>2. CASE snapshot # None /\ \A t \in Tasks : pc[t] \notin Written
    <3>1. Booted = snapshot
      BY <1>4, <2>2 DEF Booted, IInv, TypeOK, StoreInv, AbsentInv
    <3> QED
      BY <1>1, <1>2, <1>4, <2>2, <3>1 DEF Value, Register!PowerLoss, Pending
  <2>3. ASSUME NEW t \in Tasks, snapshot # None, pc[t] \in Written
        PROVE  Register!PowerLoss
    <3>1. base[t] = snapshot /\ req[t] # NoPatch /\ live = NewConfig(t)
      BY <2>3 DEF IInv, CloneInv, OnCard, Written, StoreInv, Order, ReqInv, Working
    <3>2. req[t] \in Requests /\ NewConfig(t) \in Configs
      BY <3>1, NewConfigType DEF IInv
    <3>3. Pending[t] = req[t].patch /\ Pending[t] # NoPatch
      BY <3>1, <3>2, PatchType, SentinelAssumption DEF Pending
    <3>4. Booted = Apply(Value, Pending[t])
      BY <2>3, <3>1, <3>2, <3>3 DEF Booted, Value, NewConfig
    <3> QED
      BY <1>1, <1>2, <1>4, <3>3, <3>4, RegisterData DEF Register!PowerLoss, Pending
  <2> QED
    BY <2>1, <2>2, <2>3
<1> QED
  BY <1>3, <1>4

LEMMA RegisterStep ==
    IInv /\ [Next]_vars => [Register!Next]_<<Value, Pending, live = Torn>>
<1> SUFFICES ASSUME IInv, [Next]_vars
             PROVE  Register!Next \/ UNCHANGED <<Value, Pending, live = Torn>>
  OBVIOUS
<1>1. CASE UNCHANGED vars
  BY <1>1, RegisterStutter DEF vars, task, card, ram
<1>2. CASE Boot
  <2>1. UNCHANGED <<req, live>> /\ snapshot = None /\ snapshot' \in {Booted, None}
    BY <1>2 DEF Boot, task, card, IInv, Order, DownInv
  <2> QED
    BY <2>1 DEF Value, Booted, Pending
<1>3. CASE PowerLoss
  BY <1>3, RegisterPowerLoss DEF Register!Next
<1>4. ASSUME NEW b \in Live, Consume(b)
      PROVE  UNCHANGED <<Value, Pending, live = Torn>>
  BY <1>4, RegisterStutter DEF Consume, task, card
<1>5. ASSUME NEW t \in Tasks, Serve(t)
      PROVE  Register!Next \/ UNCHANGED <<Value, Pending, live = Torn>>
  <2>1. CASE Accept(t)
    BY <2>1, RegisterRequest DEF Register!Next
  <2>2. CASE TruncateLive(t) \/ WriteLive(t)
    BY <2>2, RegisterWrite DEF Register!Next
  <2>3. CASE Install(t)
    BY <2>3, RegisterUpdate DEF Register!Next
  <2>4. CASE NoStorage(t) \/ LookupFails(t) \/ WriteFails(t) \/ Wipe(t)
    <3>1. Reply(t) /\ UNCHANGED <<snapshot, live>>
      BY <2>4 DEF NoStorage, LookupFails, WriteFails, Wipe, card, ram
    <3> QED
      BY <3>1, RegisterRefuse DEF Register!Next
  <2>5. CASE Clone(t)
    <3>1. UNCHANGED <<snapshot, live>> /\ (Reply(t) \/ UNCHANGED req)
      BY <2>5 DEF Clone, card, ram
    <3> QED
      BY <3>1, RegisterRefuse, RegisterStutter DEF Register!Next
  <2>6. CASE AcceptWipe(t) \/ Suspend(t) \/ Poll(t) \/ Finish(t) \/ GateLock(t)
             \/ GateDrop(t) \/ OpenStaging(t) \/ WriteStaging(t) \/ DeleteStaging(t)
    BY <2>6, RegisterStutter DEF AcceptWipe, Suspend, Poll, Finish, GateLock, GateDrop,
       OpenStaging, WriteStaging, Stage, DeleteStaging, card, ram
  <2> QED
    BY <1>5, <2>1, <2>2, <2>3, <2>4, <2>5, <2>6 DEF Serve
<1> QED
  BY <1>1, <1>2, <1>3, <1>4, <1>5 DEF Next

(* STACKCHAN.RON with CONFIG_SNAPSHOT is one atomic register, which only   *)
(* the window in write_config exposes to a power loss.                     *)
THEOREM Refinement == Spec => AtomicRegister
<1>1. IInv /\ [Next]_vars =>
        [Register!Next]_<<Value, [t \in Tasks |-> IF req[t] = NoPatch THEN NoPatch
                                                                      ELSE req[t].patch],
                          live = Torn>>
  BY RegisterStep DEF Pending
<1> QED
  BY <1>1, RegisterInit, Invariant, PTL DEF Spec, AtomicRegister, Register!Spec
=============================================================================
