---------------------------- MODULE Volume_proof ----------------------------
(***************************************************************************)
(* Theorems of Volume, for disks of up to 31 partitions, whether mountVol  *)
(* has room for their device nodes or reads past its array, and any number *)
(* of plugs and requests: what the mount table holds; that a retry of a    *)
(* mount does not reach another disk unless it was left behind outside     *)
(* Pending; that a removal is seen in the end, and unmounts what was       *)
(* mounted; and that a failed unmount is undone on primary storage.        *)
(*                                                                         *)
(* A thread is resting before the first action of a call and after the     *)
(* last one.  When both rest, Rest says what mState means for the mounts;  *)
(* while one thread is at work, Busy says what it has mounted so far.  As  *)
(* long as the two are not at work together a step takes one of the two to *)
(* one of the two (After); a thread that begins while the other is at work *)
(* finds nothing to fix, and the next step puts the race on record.        *)
(***************************************************************************)
EXTENDS Volume, TLAPS

(***************************************************************************)
(* Types                                                                   *)
(***************************************************************************)
StateTyped ==
    /\ mState \in States
    /\ mRetryMount \in BOOLEAN
    /\ mCurrentlyMountedKdev \in -1..Elsewhere
    /\ lun \in BOOLEAN
    /\ asked \in BOOLEAN /\ failed \in BOOLEAN /\ leaked \in BOOLEAN

MountsTyped ==
    /\ staging \in Seq(Mounts)
    /\ public \in Seq(Mounts)
    /\ asec \in Seq(Devices)

PcTyped ==
    /\ pc \in [Threads -> Pcs]
    /\ nodes \in [Threads -> Seq(Nodes)]
    /\ \A t \in Threads : pc[t] \in InLoop => nodes[t] # <<>>

KernelTyped ==
    /\ mDiskNumParts \in 0..MaxParts
    /\ mPendingPartMap \subseteq 1..MaxParts
    /\ plugged \in BOOLEAN
    /\ parts \in 0..MaxParts
    /\ uevents \in Seq([action : Actions, part : 0..MaxParts, ok : BOOLEAN])

Typed == StateTyped /\ MountsTyped /\ PcTyped /\ KernelTyped

LEMMA TopPop ==
    ASSUME NEW S, NEW s \in Seq(S), s # <<>>
    PROVE  Top(s) \in S /\ Pop(s) \in Seq(S)
<1>1. Len(s) \in 1..Len(s) /\ Len(s) \in Nat
  OBVIOUS
<1>2. Top(s) \in S
  BY <1>1 DEF Top
<1>3. Pop(s) \in Seq(S)
  BY <1>1 DEF Pop
<1> QED BY <1>2, <1>3

LEMMA AppendTyped ==
    ASSUME NEW S, NEW s \in Seq(S), NEW x \in S
    PROVE  Append(s, x) \in Seq(S)
  OBVIOUS

LEMMA ConcatTyped ==
    ASSUME NEW S, NEW s \in Seq(S), NEW r \in Seq(S)
    PROVE  s \o r \in Seq(S)
  OBVIOUS

LEMMA HeadTail ==
    ASSUME NEW S, NEW s \in Seq(S), s # <<>>
    PROVE  Head(s) \in S /\ Tail(s) \in Seq(S)
  OBVIOUS

LEMMA NodeTyped ==
    ASSUME PcTyped, NEW t \in Threads, pc[t] \in InLoop
    PROVE  /\ Head(nodes[t]).dev \in Devices /\ Tail(nodes[t]) \in Seq(Nodes)
           /\ Head(nodes[t]).past \in BOOLEAN
           /\ ~Head(nodes[t]).past => Head(nodes[t]).dev \in 0..MaxParts
<1>1. nodes[t] \in Seq(Nodes) /\ nodes[t] # <<>>
  BY DEF PcTyped
<1>2. Head(nodes[t]) \in Nodes /\ Tail(nodes[t]) \in Seq(Nodes)
  BY <1>1, HeadTail
<1>3. 0..MaxParts \subseteq Devices
  BY PartsAssumption DEF Devices, Elsewhere
<1> QED BY <1>2, <1>3 DEF Nodes

LEMMA WithTmpfsTyped ==
    ASSUME NEW s \in Seq(Mounts), s # <<>>, NEW n \in Nat
    PROVE  WithTmpfs(s, n) \in Seq(Mounts)
<1>1. Top(s) \in Mounts /\ Pop(s) \in Seq(Mounts)
  BY TopPop
<1>2. [dev |-> Top(s).dev, tmpfs |-> n] \in Mounts
  BY <1>1 DEF Mounts
<1> QED BY <1>1, <1>2 DEF WithTmpfs

(* A thread goes on without touching its device nodes. *)
GoesTo(t, labels) ==
    /\ nodes' = nodes
    /\ \E l \in labels : Goto(t, l)

LEMMA PcOutside ==
    ASSUME PcTyped, NEW t \in Threads, GoesTo(t, Pcs \ InLoop)
    PROVE  PcTyped'
  BY DEF PcTyped, GoesTo, Goto

LEMMA PcInLoop ==
    ASSUME PcTyped, NEW t \in Threads, pc[t] \in InLoop, GoesTo(t, Pcs)
    PROVE  PcTyped'
  BY DEF PcTyped, GoesTo, Goto

LEMMA MountVolTyped ==
    ASSUME Typed, NEW t \in Threads, MountVol(t)
    PROVE  Typed'
<1>1. StateTyped'
  BY DEF Typed, StateTyped, States, MountVol, fields, history, SetState
<1>2. MountsTyped'
  BY DEF Typed, MountsTyped, MountVol, mounts
<1>3. PcTyped'
  <2>1. ASSUME NEW devs \in DeviceNodes PROVE devs \in Seq(Nodes)
    <3> DEFINE own(d) == [dev |-> d, past |-> FALSE]
               read(d) == [dev |-> d, past |-> TRUE]
    <3>1. \A d \in 0..MaxParts : own(d) \in Nodes
      BY DEF Nodes
    <3>2. \A d \in StackHolds : read(d) \in Nodes
      BY StackAssumption DEF Nodes, Devices, Elsewhere
    <3>3. CASE PartIdx # 0
      <4>1. PartIdx \in 0..MaxParts
        BY PartsAssumption
      <4>2. own(PartIdx) \in Nodes /\ devs = <<own(PartIdx)>>
        BY <2>1, <3>1, <3>3, <4>1 DEF DeviceNodes
      <4> HIDE DEF own, read
      <4> QED BY <4>2
    <3>4. CASE PartIdx = 0 /\ mDiskNumParts = 0
      <4>1. 0 \in 0..MaxParts
        BY PartsAssumption
      <4>2. own(0) \in Nodes /\ devs = <<own(0)>>
        BY <2>1, <3>1, <3>4, <4>1 DEF DeviceNodes
      <4> HIDE DEF own, read
      <4> QED BY <4>2
    <3>5. CASE PartIdx = 0 /\ mDiskNumParts # 0
      <4>1. mDiskNumParts \in Nat /\ mDiskNumParts =< MaxParts
        BY PartsAssumption DEF Typed, KernelTyped
      <4>2. PICK stack \in [DeviceSlots + 1..mDiskNumParts -> StackHolds] :
                devs = [i \in 1..mDiskNumParts |->
                            IF i <= DeviceSlots THEN own(i) ELSE read(stack[i])]
        BY <2>1, <3>5 DEF DeviceNodes
      <4>3. ASSUME NEW i \in 1..mDiskNumParts
            PROVE  (IF i <= DeviceSlots THEN own(i) ELSE read(stack[i])) \in Nodes
        <5>1. CASE i <= DeviceSlots
          BY <3>1, <4>1, <5>1, PartsAssumption
        <5>2. CASE ~(i <= DeviceSlots)
          <6>1. i \in DeviceSlots + 1..mDiskNumParts
            BY <4>1, <5>2, SlotsAssumption
          <6>2. stack[i] \in StackHolds
            BY <6>1
          <6> QED BY <3>2, <5>2, <6>2
        <5> QED BY <5>1, <5>2
      <4> HIDE DEF own, read
      <4>4. devs \in [1..mDiskNumParts -> Nodes]
        BY <4>2, <4>3
      <4> QED BY <4>1, <4>4
    <3> QED BY <3>3, <3>4, <3>5
  <2> QED BY <2>1
          DEF Typed, PcTyped, MountVol, Goto, Return, Threads, Pcs, MountPcs, UnmountPcs,
              OtherPcs, InLoop
<1>4. KernelTyped'
  BY DEF Typed, KernelTyped, MountVol, disk, kernel
<1> QED BY <1>1, <1>2, <1>3, <1>4 DEF Typed

LEMMA RetryTyped ==
    ASSUME Typed, NEW t \in Threads, Retry(t)
    PROVE  Typed'
<1>1. StateTyped'
  BY DEF Typed, StateTyped, States, Retry, fields, history
<1>2. MountsTyped'
  BY DEF Typed, MountsTyped, Retry, mounts
<1>3. PcTyped'
  <2>1. GoesTo(t, Pcs \ InLoop)
    BY DEF Retry, GoesTo, Return, Threads, Pcs, MountPcs, UnmountPcs, OtherPcs, InLoop
  <2> QED BY <2>1, PcOutside DEF Typed
<1>4. KernelTyped'
  BY DEF Typed, KernelTyped, Retry, disk, kernel
<1> QED BY <1>1, <1>2, <1>3, <1>4 DEF Typed

LEMMA CheckTyped ==
    ASSUME Typed, NEW t \in Threads, Check(t)
    PROVE  Typed'
<1>1. StateTyped'
  BY DEF Typed, StateTyped, States, Check, fields, history, SetState
<1>2. MountsTyped'
  BY DEF Typed, MountsTyped, Check, mounts
<1>3. PcTyped'
  <2> QED BY DEF Typed, PcTyped, Check, Goto, Return, Threads, Pcs, MountPcs, UnmountPcs,
                 OtherPcs, InLoop
<1>4. KernelTyped'
  BY DEF Typed, KernelTyped, Check, disk, kernel
<1> QED BY <1>1, <1>2, <1>3, <1>4 DEF Typed

LEMMA FsckTyped ==
    ASSUME Typed, NEW t \in Threads, Fsck(t)
    PROVE  Typed'
<1>1. StateTyped'
  BY DEF Typed, StateTyped, States, Fsck, fields, history, SetState
<1>2. MountsTyped'
  BY DEF Typed, MountsTyped, Fsck, mounts
<1>3. PcTyped'
  <2>1. pc[t] \in InLoop /\ GoesTo(t, Pcs)
    BY DEF Fsck, GoesTo, Return, Threads, Pcs, MountPcs, UnmountPcs, OtherPcs, InLoop
  <2> QED BY <2>1, PcInLoop DEF Typed
<1>4. KernelTyped'
  BY DEF Typed, KernelTyped, Fsck, disk, kernel
<1> QED BY <1>1, <1>2, <1>3, <1>4 DEF Typed

LEMMA StageTyped ==
    ASSUME Typed, NEW t \in Threads, Stage(t)
    PROVE  Typed'
<1>1. StateTyped'
  BY DEF Typed, StateTyped, States, Stage, fields, history
<1>2. MountsTyped'
  <2>1. Head(nodes[t]).dev \in Devices
    BY NodeTyped DEF Typed, Stage, InLoop
  <2>2. [dev |-> Head(nodes[t]).dev, tmpfs |-> 0] \in Mounts
    BY <2>1 DEF Mounts
  <2> QED BY <2>2, AppendTyped DEF Typed, MountsTyped, Stage, Node
<1>3. PcTyped'
  <2>1. Tail(nodes[t]) \in Seq(Nodes)
    BY NodeTyped DEF Typed, Stage, InLoop
  <2>2. CASE pc' = [pc EXCEPT ![t] = "check"]
    BY <2>1, <2>2
    DEF Typed, PcTyped, Stage, Goto, Threads, Pcs, MountPcs, UnmountPcs, OtherPcs, InLoop
  <2>3. CASE pc' # [pc EXCEPT ![t] = "check"]
    <3>1. pc[t] \in InLoop /\ GoesTo(t, Pcs)
      BY <2>3 DEF Stage, GoesTo, Goto, Threads, Pcs, MountPcs, UnmountPcs, OtherPcs, InLoop
    <3> QED BY <3>1, PcInLoop DEF Typed
  <2> QED BY <2>2, <2>3
<1>4. KernelTyped'
  BY DEF Typed, KernelTyped, Stage, disk, kernel
<1> QED BY <1>1, <1>2, <1>3, <1>4 DEF Typed

LEMMA BindTyped ==
    ASSUME Typed, NEW t \in Threads, Bind(t)
    PROVE  Typed'
<1>1. StateTyped'
  BY DEF Typed, StateTyped, States, Bind, fields, history, SetState, AbortMount
<1>2. MountsTyped'
  <2>1. staging # <<>> => Top(staging) \in Mounts /\ Pop(staging) \in Seq(Mounts)
    BY TopPop DEF Typed, MountsTyped
  <2>2. staging # <<>> => Top(staging).dev \in Devices
    BY <2>1 DEF Mounts
  <2> QED BY <2>1, <2>2, AppendTyped DEF Typed, MountsTyped, Bind, AbortMount, DropStaging
<1>3. PcTyped'
  <2>1. pc[t] \in InLoop /\ GoesTo(t, Pcs)
    BY DEF Bind, GoesTo, Return, Threads, Pcs, MountPcs, UnmountPcs, OtherPcs, InLoop,
           AbortMount
  <2> QED BY <2>1, PcInLoop DEF Typed
<1>4. KernelTyped'
  BY DEF Typed, KernelTyped, Bind, disk, kernel
<1> QED BY <1>1, <1>2, <1>3, <1>4 DEF Typed

LEMMA TmpfsTyped ==
    ASSUME Typed, NEW t \in Threads, Tmpfs(t)
    PROVE  Typed'
<1>1. StateTyped'
  BY DEF Typed, StateTyped, States, Tmpfs, fields, history, SetState, AbortMount
<1>2. MountsTyped'
  <2>1. staging # <<>> => Top(staging) \in Mounts /\ Pop(staging) \in Seq(Mounts)
    BY TopPop DEF Typed, MountsTyped
  <2>2. staging # <<>> => WithTmpfs(staging, Top(staging).tmpfs + 1) \in Seq(Mounts)
    <3>1. staging # <<>> => Top(staging).tmpfs + 1 \in Nat
      BY <2>1 DEF Mounts
    <3> QED BY <3>1, WithTmpfsTyped DEF Typed, MountsTyped
  <2> QED BY <2>1, <2>2 DEF Typed, MountsTyped, Tmpfs, AbortMount, DropStaging
<1>3. PcTyped'
  <2>1. pc[t] \in InLoop /\ GoesTo(t, Pcs)
    BY DEF Tmpfs, GoesTo, Return, Threads, Pcs, MountPcs, UnmountPcs, OtherPcs, InLoop,
           AbortMount
  <2> QED BY <2>1, PcInLoop DEF Typed
<1>4. KernelTyped'
  BY DEF Typed, KernelTyped, Tmpfs, disk, kernel
<1> QED BY <1>1, <1>2, <1>3, <1>4 DEF Typed

LEMMA MoveTyped ==
    ASSUME Typed, NEW t \in Threads, Move(t)
    PROVE  Typed'
<1>1. StateTyped'
  BY DEF Typed, StateTyped, States, Move, fields, history, SetState, AbortMount
<1>2. MountsTyped'
  <2>1. staging # <<>> => Top(staging) \in Mounts /\ Pop(staging) \in Seq(Mounts)
    BY TopPop DEF Typed, MountsTyped
  <2> QED BY <2>1, AppendTyped DEF Typed, MountsTyped, Move, AbortMount, DropStaging
<1>3. PcTyped'
  <2>1. pc[t] \in InLoop /\ GoesTo(t, Pcs)
    BY DEF Move, GoesTo, Return, Threads, Pcs, MountPcs, UnmountPcs, OtherPcs, InLoop,
           AbortMount
  <2> QED BY <2>1, PcInLoop DEF Typed
<1>4. KernelTyped'
  BY DEF Typed, KernelTyped, Move, disk, kernel
<1> QED BY <1>1, <1>2, <1>3, <1>4 DEF Typed

LEMMA MountedTyped ==
    ASSUME Typed, NEW t \in Threads, Mounted(t)
    PROVE  Typed'
<1>1. StateTyped'
  <2>1. Head(nodes[t]).dev \in Devices
    BY NodeTyped DEF Typed, Mounted, InLoop
  <2>2. StackHolds \subseteq Devices
    BY StackAssumption DEF Devices, Elsewhere
  <2>3. mCurrentlyMountedKdev' \in Devices
    BY <2>1, <2>2 DEF Mounted, Node
  <2>4. Devices \subseteq -1..Elsewhere
    BY PartsAssumption DEF Devices, Elsewhere
  <2> QED BY <2>3, <2>4 DEF Typed, StateTyped, States, Mounted, SetState, history
<1>2. MountsTyped'
  BY DEF Typed, MountsTyped, Mounted, mounts
<1>3. PcTyped'
  <2>1. pc[t] \in InLoop /\ GoesTo(t, Pcs)
    BY DEF Mounted, GoesTo, Return, Threads, Pcs, MountPcs, UnmountPcs, OtherPcs, InLoop
  <2> QED BY <2>1, PcInLoop DEF Typed
<1>4. KernelTyped'
  BY DEF Typed, KernelTyped, Mounted, disk, kernel
<1> QED BY <1>1, <1>2, <1>3, <1>4 DEF Typed

LEMMA UnmountVolTyped ==
    ASSUME Typed, NEW t \in Threads, UnmountVol(t)
    PROVE  Typed'
<1>1. StateTyped'
  BY DEF Typed, StateTyped, States, UnmountVol, fields, history
<1>2. MountsTyped'
  BY DEF Typed, MountsTyped, UnmountVol, mounts
<1>3. PcTyped'
  <2>1. GoesTo(t, Pcs \ InLoop)
    BY DEF UnmountVol, GoesTo, Return, Threads, Pcs, MountPcs, UnmountPcs, OtherPcs, InLoop
  <2> QED BY <2>1, PcOutside DEF Typed
<1>4. KernelTyped'
  BY DEF Typed, KernelTyped, UnmountVol, disk, kernel
<1> QED BY <1>1, <1>2, <1>3, <1>4 DEF Typed

LEMMA UnmountingTyped ==
    ASSUME Typed, NEW t \in Threads, Unmounting(t)
    PROVE  Typed'
<1>1. StateTyped'
  BY DEF Typed, StateTyped, States, Unmounting, fields, history, SetState
<1>2. MountsTyped'
  BY DEF Typed, MountsTyped, Unmounting, mounts
<1>3. PcTyped'
  <2>1. GoesTo(t, Pcs \ InLoop)
    BY DEF Unmounting, GoesTo, Return, Threads, Pcs, MountPcs, UnmountPcs, OtherPcs, InLoop
  <2> QED BY <2>1, PcOutside DEF Typed
<1>4. KernelTyped'
  BY DEF Typed, KernelTyped, Unmounting, disk, kernel
<1> QED BY <1>1, <1>2, <1>3, <1>4 DEF Typed

LEMMA UnpublishTyped ==
    ASSUME Typed, NEW t \in Threads, Unpublish(t)
    PROVE  Typed'
<1>1. StateTyped'
  BY DEF Typed, StateTyped, States, Unpublish, fields, history, SetState, GiveUp
<1>2. MountsTyped'
  <2>1. public # <<>> => Top(public) \in Mounts /\ Pop(public) \in Seq(Mounts)
    BY TopPop DEF Typed, MountsTyped
  <2> QED BY <2>1, AppendTyped DEF Typed, MountsTyped, Unpublish, GiveUp, mounts
<1>3. PcTyped'
  <2>1. GoesTo(t, Pcs \ InLoop)
    BY DEF Unpublish, GoesTo, Return, Threads, Pcs, MountPcs, UnmountPcs, OtherPcs, InLoop,
           GiveUp
  <2> QED BY <2>1, PcOutside DEF Typed
<1>4. KernelTyped'
  BY DEF Typed, KernelTyped, Unpublish, disk, kernel
<1> QED BY <1>1, <1>2, <1>3, <1>4 DEF Typed

LEMMA UntmpfsTyped ==
    ASSUME Typed, NEW t \in Threads, Untmpfs(t)
    PROVE  Typed'
<1>1. StateTyped'
  BY DEF Typed, StateTyped, States, Untmpfs, fields, history
<1>2. MountsTyped'
  <2>1. staging # <<>> => Top(staging) \in Mounts /\ Pop(staging) \in Seq(Mounts)
    BY TopPop DEF Typed, MountsTyped
  <2>2. staging # <<>> /\ Top(staging).tmpfs > 0
            => WithTmpfs(staging, Top(staging).tmpfs - 1) \in Seq(Mounts)
    <3>1. staging # <<>> /\ Top(staging).tmpfs > 0 => Top(staging).tmpfs - 1 \in Nat
      BY <2>1 DEF Mounts
    <3> QED BY <3>1, WithTmpfsTyped DEF Typed, MountsTyped
  <2> QED BY <2>2 DEF Typed, MountsTyped, Untmpfs
<1>3. PcTyped'
  <2>1. GoesTo(t, Pcs \ InLoop)
    BY DEF Untmpfs, GoesTo, Return, Threads, Pcs, MountPcs, UnmountPcs, OtherPcs, InLoop
  <2> QED BY <2>1, PcOutside DEF Typed
<1>4. KernelTyped'
  BY DEF Typed, KernelTyped, Untmpfs, disk, kernel
<1> QED BY <1>1, <1>2, <1>3, <1>4 DEF Typed

LEMMA UnbindTyped ==
    ASSUME Typed, NEW t \in Threads, Unbind(t)
    PROVE  Typed'
<1>1. StateTyped'
  BY DEF Typed, StateTyped, States, Unbind, fields, history
<1>2. MountsTyped'
  <2>1. asec # <<>> => Pop(asec) \in Seq(Devices)
    BY TopPop DEF Typed, MountsTyped
  <2> QED BY <2>1 DEF Typed, MountsTyped, Unbind
<1>3. PcTyped'
  <2>1. GoesTo(t, Pcs \ InLoop)
    BY DEF Unbind, GoesTo, Return, Threads, Pcs, MountPcs, UnmountPcs, OtherPcs, InLoop
  <2> QED BY <2>1, PcOutside DEF Typed
<1>4. KernelTyped'
  BY DEF Typed, KernelTyped, Unbind, disk, kernel
<1> QED BY <1>1, <1>2, <1>3, <1>4 DEF Typed

LEMMA UnstageTyped ==
    ASSUME Typed, NEW t \in Threads, Unstage(t)
    PROVE  Typed'
<1>1. StateTyped'
  BY DEF Typed, StateTyped, States, Unstage, fields, history
<1>2. MountsTyped'
  <2>1. staging # <<>> => Top(staging) \in Mounts /\ Pop(staging) \in Seq(Mounts)
    BY TopPop DEF Typed, MountsTyped
  <2> QED BY <2>1 DEF Typed, MountsTyped, Unstage
<1>3. PcTyped'
  <2>1. GoesTo(t, Pcs \ InLoop)
    BY DEF Unstage, GoesTo, Return, Threads, Pcs, MountPcs, UnmountPcs, OtherPcs, InLoop
  <2> QED BY <2>1, PcOutside DEF Typed
<1>4. KernelTyped'
  BY DEF Typed, KernelTyped, Unstage, disk, kernel
<1> QED BY <1>1, <1>2, <1>3, <1>4 DEF Typed

LEMMA UnmountedTyped ==
    ASSUME Typed, NEW t \in Threads, Unmounted(t)
    PROVE  Typed'
<1>1. StateTyped'
  BY PartsAssumption
  DEF Typed, StateTyped, States, Unmounted, fields, history, SetState, Elsewhere
<1>2. MountsTyped'
  BY DEF Typed, MountsTyped, Unmounted, mounts
<1>3. PcTyped'
  <2>1. GoesTo(t, Pcs \ InLoop)
    BY DEF Unmounted, GoesTo, Return, Threads, Pcs, MountPcs, UnmountPcs, OtherPcs, InLoop
  <2> QED BY <2>1, PcOutside DEF Typed
<1>4. KernelTyped'
  BY DEF Typed, KernelTyped, Unmounted, disk, kernel
<1> QED BY <1>1, <1>2, <1>3, <1>4 DEF Typed

LEMMA RebindTyped ==
    ASSUME Typed, NEW t \in Threads, Rebind(t)
    PROVE  Typed'
<1>1. StateTyped'
  BY DEF Typed, StateTyped, States, Rebind, fields, history, SetState, GiveUp
<1>2. MountsTyped'
  <2>1. staging # <<>> => Top(staging) \in Mounts /\ Pop(staging) \in Seq(Mounts)
    BY TopPop DEF Typed, MountsTyped
  <2>2. staging # <<>> => Top(staging).dev \in Devices
    BY <2>1 DEF Mounts
  <2> QED BY <2>1, <2>2, AppendTyped DEF Typed, MountsTyped, Rebind, GiveUp, mounts
<1>3. PcTyped'
  <2>1. GoesTo(t, Pcs \ InLoop)
    BY DEF Rebind, GoesTo, Return, Threads, Pcs, MountPcs, UnmountPcs, OtherPcs, InLoop,
           GiveUp
  <2> QED BY <2>1, PcOutside DEF Typed
<1>4. KernelTyped'
  BY DEF Typed, KernelTyped, Rebind, disk, kernel
<1> QED BY <1>1, <1>2, <1>3, <1>4 DEF Typed

LEMMA RetmpfsTyped ==
    ASSUME Typed, NEW t \in Threads, Retmpfs(t)
    PROVE  Typed'
<1>1. StateTyped'
  BY DEF Typed, StateTyped, States, Retmpfs, fields, history, SetState, GiveUp
<1>2. MountsTyped'
  <2>1. staging # <<>> => Top(staging) \in Mounts /\ Pop(staging) \in Seq(Mounts)
    BY TopPop DEF Typed, MountsTyped
  <2>2. staging # <<>> => WithTmpfs(staging, Top(staging).tmpfs + 1) \in Seq(Mounts)
    <3>1. staging # <<>> => Top(staging).tmpfs + 1 \in Nat
      BY <2>1 DEF Mounts
    <3> QED BY <3>1, WithTmpfsTyped DEF Typed, MountsTyped
  <2> QED BY <2>1, <2>2 DEF Typed, MountsTyped, Retmpfs, GiveUp, mounts
<1>3. PcTyped'
  <2>1. GoesTo(t, Pcs \ InLoop)
    BY DEF Retmpfs, GoesTo, Return, Threads, Pcs, MountPcs, UnmountPcs, OtherPcs, InLoop,
           GiveUp
  <2> QED BY <2>1, PcOutside DEF Typed
<1>4. KernelTyped'
  BY DEF Typed, KernelTyped, Retmpfs, disk, kernel
<1> QED BY <1>1, <1>2, <1>3, <1>4 DEF Typed

LEMMA RepublishTyped ==
    ASSUME Typed, NEW t \in Threads, Republish(t)
    PROVE  Typed'
<1>1. StateTyped'
  BY DEF Typed, StateTyped, States, Republish, fields, history, SetState, GiveUp
<1>2. MountsTyped'
  <2>1. staging # <<>> => Top(staging) \in Mounts /\ Pop(staging) \in Seq(Mounts)
    BY TopPop DEF Typed, MountsTyped
  <2> QED BY <2>1, AppendTyped DEF Typed, MountsTyped, Republish, GiveUp, mounts
<1>3. PcTyped'
  <2>1. GoesTo(t, Pcs \ InLoop)
    BY DEF Republish, GoesTo, Return, Threads, Pcs, MountPcs, UnmountPcs, OtherPcs, InLoop,
           GiveUp
  <2> QED BY <2>1, PcOutside DEF Typed
<1>4. KernelTyped'
  BY DEF Typed, KernelTyped, Republish, disk, kernel
<1> QED BY <1>1, <1>2, <1>3, <1>4 DEF Typed

LEMMA ShareVolumeTyped ==
    ASSUME Typed, NEW t \in Threads, ShareVolume(t)
    PROVE  Typed'
<1>1. StateTyped'
  BY DEF Typed, StateTyped, States, ShareVolume, fields, history
<1>2. MountsTyped'
  BY DEF Typed, MountsTyped, ShareVolume, mounts
<1>3. PcTyped'
  <2>1. GoesTo(t, Pcs \ InLoop)
    BY DEF ShareVolume, GoesTo, Return, Threads, Pcs, MountPcs, UnmountPcs, OtherPcs, InLoop
  <2> QED BY <2>1, PcOutside DEF Typed
<1>4. KernelTyped'
  BY DEF Typed, KernelTyped, ShareVolume, disk, kernel
<1> QED BY <1>1, <1>2, <1>3, <1>4 DEF Typed

LEMMA LunWriteTyped ==
    ASSUME Typed, NEW t \in Threads, LunWrite(t)
    PROVE  Typed'
<1>1. StateTyped'
  BY DEF Typed, StateTyped, States, LunWrite, fields, history
<1>2. MountsTyped'
  BY DEF Typed, MountsTyped, LunWrite, mounts
<1>3. PcTyped'
  <2>1. GoesTo(t, Pcs \ InLoop)
    BY DEF LunWrite, GoesTo, Return, Threads, Pcs, MountPcs, UnmountPcs, OtherPcs, InLoop
  <2> QED BY <2>1, PcOutside DEF Typed
<1>4. KernelTyped'
  BY DEF Typed, KernelTyped, LunWrite, disk, kernel
<1> QED BY <1>1, <1>2, <1>3, <1>4 DEF Typed

LEMMA SharedTyped ==
    ASSUME Typed, NEW t \in Threads, Shared(t)
    PROVE  Typed'
<1>1. StateTyped'
  BY DEF Typed, StateTyped, States, Shared, fields, history, SetState
<1>2. MountsTyped'
  BY DEF Typed, MountsTyped, Shared, mounts
<1>3. PcTyped'
  <2>1. GoesTo(t, Pcs \ InLoop)
    BY DEF Shared, GoesTo, Return, Threads, Pcs, MountPcs, UnmountPcs, OtherPcs, InLoop
  <2> QED BY <2>1, PcOutside DEF Typed
<1>4. KernelTyped'
  BY DEF Typed, KernelTyped, Shared, disk, kernel
<1> QED BY <1>1, <1>2, <1>3, <1>4 DEF Typed

LEMMA UnshareVolumeTyped ==
    ASSUME Typed, NEW t \in Threads, UnshareVolume(t)
    PROVE  Typed'
<1>1. StateTyped'
  BY DEF Typed, StateTyped, States, UnshareVolume, fields, history
<1>2. MountsTyped'
  BY DEF Typed, MountsTyped, UnshareVolume, mounts
<1>3. PcTyped'
  <2>1. GoesTo(t, Pcs \ InLoop)
    BY DEF UnshareVolume, GoesTo, Return, Threads, Pcs, MountPcs, UnmountPcs, OtherPcs,
           InLoop
  <2> QED BY <2>1, PcOutside DEF Typed
<1>4. KernelTyped'
  BY DEF Typed, KernelTyped, UnshareVolume, disk, kernel
<1> QED BY <1>1, <1>2, <1>3, <1>4 DEF Typed

LEMMA LunClearTyped ==
    ASSUME Typed, NEW t \in Threads, LunClear(t)
    PROVE  Typed'
<1>1. StateTyped'
  BY DEF Typed, StateTyped, States, LunClear, fields, history
<1>2. MountsTyped'
  BY DEF Typed, MountsTyped, LunClear, mounts
<1>3. PcTyped'
  <2>1. GoesTo(t, Pcs \ InLoop)
    BY DEF LunClear, GoesTo, Return, Threads, Pcs, MountPcs, UnmountPcs, OtherPcs, InLoop
  <2> QED BY <2>1, PcOutside DEF Typed
<1>4. KernelTyped'
  BY DEF Typed, KernelTyped, LunClear, disk, kernel
<1> QED BY <1>1, <1>2, <1>3, <1>4 DEF Typed

LEMMA UnsharedTyped ==
    ASSUME Typed, NEW t \in Threads, Unshared(t)
    PROVE  Typed'
<1>1. StateTyped'
  BY DEF Typed, StateTyped, States, Unshared, fields, history, SetState
<1>2. MountsTyped'
  BY DEF Typed, MountsTyped, Unshared, mounts
<1>3. PcTyped'
  <2>1. GoesTo(t, Pcs \ InLoop)
    BY DEF Unshared, GoesTo, Return, Threads, Pcs, MountPcs, UnmountPcs, OtherPcs, InLoop
  <2> QED BY <2>1, PcOutside DEF Typed
<1>4. KernelTyped'
  BY DEF Typed, KernelTyped, Unshared, disk, kernel
<1> QED BY <1>1, <1>2, <1>3, <1>4 DEF Typed

LEMMA FormatVolTyped ==
    ASSUME Typed, NEW t \in Threads, FormatVol(t)
    PROVE  Typed'
<1>1. StateTyped'
  BY DEF Typed, StateTyped, States, FormatVol, fields, history, SetState
<1>2. MountsTyped'
  BY DEF Typed, MountsTyped, FormatVol, mounts
<1>3. PcTyped'
  <2>1. GoesTo(t, Pcs \ InLoop)
    BY DEF FormatVol, GoesTo, Return, Threads, Pcs, MountPcs, UnmountPcs, OtherPcs, InLoop
  <2> QED BY <2>1, PcOutside DEF Typed
<1>4. KernelTyped'
  BY DEF Typed, KernelTyped, FormatVol, disk, kernel
<1> QED BY <1>1, <1>2, <1>3, <1>4 DEF Typed

LEMMA FormattingTyped ==
    ASSUME Typed, NEW t \in Threads, Formatting(t)
    PROVE  Typed'
<1>1. StateTyped'
  BY DEF Typed, StateTyped, States, Formatting, fields, history, SetState
<1>2. MountsTyped'
  BY DEF Typed, MountsTyped, Formatting, mounts
<1>3. PcTyped'
  <2>1. GoesTo(t, Pcs \ InLoop)
    BY DEF Formatting, GoesTo, Return, Threads, Pcs, MountPcs, UnmountPcs, OtherPcs, InLoop
  <2> QED BY <2>1, PcOutside DEF Typed
<1>4. KernelTyped'
  BY DEF Typed, KernelTyped, Formatting, disk, kernel
<1> QED BY <1>1, <1>2, <1>3, <1>4 DEF Typed

LEMMA AnnounceTyped ==
    ASSUME NEW n \in 0..MaxParts, NEW bad
    PROVE  Announce(n, bad) \in Seq([action : Actions, part : 0..MaxParts, ok : BOOLEAN])
  BY PartsAssumption DEF Announce, Actions

LEMMA WithdrawTyped ==
    ASSUME parts \in 0..MaxParts
    PROVE  Withdraw \in Seq([action : Actions, part : 0..MaxParts, ok : BOOLEAN])
  BY PartsAssumption DEF Withdraw, Actions

LEMMA DiskEventTyped ==
    ASSUME NEW n \in 0..MaxParts, NEW action \in Actions
    PROVE  DiskEvent(action, n) \in Seq([action : Actions, part : 0..MaxParts, ok : BOOLEAN])
  BY DEF DiskEvent

LEMMA RepartitionTyped ==
    ASSUME KernelTyped, NEW n \in 0..MaxParts, NEW bad, Repartition(n, bad), UNCHANGED disk
    PROVE  KernelTyped'
<1>1. uevents' \in Seq([action : Actions, part : 0..MaxParts, ok : BOOLEAN])
  BY AnnounceTyped, WithdrawTyped, DiskEventTyped, ConcatTyped
  DEF Repartition, KernelTyped, Actions
<1> QED BY <1>1 DEF Repartition, KernelTyped, disk

LEMMA MbrTyped ==
    ASSUME Typed, NEW t \in Threads, Mbr(t)
    PROVE  Typed'
<1>1. StateTyped'
  BY DEF Typed, StateTyped, States, Mbr, fields, history, SetState
<1>2. MountsTyped'
  BY DEF Typed, MountsTyped, Mbr, mounts
<1>3. PcTyped'
  <2>1. GoesTo(t, Pcs \ InLoop)
    BY DEF Mbr, GoesTo, Return, Threads, Pcs, MountPcs, UnmountPcs, OtherPcs, InLoop
  <2> QED BY <2>1, PcOutside DEF Typed
<1>4. KernelTyped'
  <2>1. CASE Repartition(1, 0)
    BY <2>1, RepartitionTyped, PartsAssumption DEF Typed, Mbr, disk
  <2>2. CASE UNCHANGED <<plugged, parts, uevents>>
    BY <2>2 DEF Typed, KernelTyped, Mbr, disk
  <2> QED BY <2>1, <2>2 DEF Mbr
<1> QED BY <1>1, <1>2, <1>3, <1>4 DEF Typed

LEMMA FormatTyped ==
    ASSUME Typed, NEW t \in Threads, Format(t)
    PROVE  Typed'
<1>1. StateTyped'
  BY DEF Typed, StateTyped, States, Format, fields, history, SetState
<1>2. MountsTyped'
  BY DEF Typed, MountsTyped, Format, mounts
<1>3. PcTyped'
  <2>1. GoesTo(t, Pcs \ InLoop)
    BY DEF Format, GoesTo, Return, Threads, Pcs, MountPcs, UnmountPcs, OtherPcs, InLoop
  <2> QED BY <2>1, PcOutside DEF Typed
<1>4. KernelTyped'
  BY DEF Typed, KernelTyped, Format, disk, kernel
<1> QED BY <1>1, <1>2, <1>3, <1>4 DEF Typed

LEMMA HeadEvent ==
    ASSUME KernelTyped, uevents # <<>>
    PROVE  /\ Head(uevents) \in [action : Actions, part : 0..MaxParts, ok : BOOLEAN]
           /\ Tail(uevents) \in Seq([action : Actions, part : 0..MaxParts, ok : BOOLEAN])
  BY HeadTail DEF KernelTyped

LEMMA BlockEventTyped ==
    ASSUME Typed, BlockEvent
    PROVE  Typed'
<1>1. uevents # <<>> /\ pc["netlink"] = "idle"
  BY DEF BlockEvent, HandleDiskAdded, HandlePartitionAdded, HandleDiskChanged,
         HandleDiskRemoved,
         HandlePartitionRemoved, Handles
<1>2. /\ Head(uevents).part \in 0..MaxParts
      /\ Head(uevents) \in [action : Actions, part : 0..MaxParts, ok : BOOLEAN]
      /\ Tail(uevents) \in Seq([action : Actions, part : 0..MaxParts, ok : BOOLEAN])
  BY <1>1, HeadEvent DEF Typed
<1>3. /\ UNCHANGED <<mCurrentlyMountedKdev, mounts, lun, plugged, parts, nodes, failed, leaked>>
      /\ uevents' = Tail(uevents)
  BY DEF BlockEvent, HandleDiskAdded, HandlePartitionAdded, HandleDiskChanged,
         HandleDiskRemoved,
         HandlePartitionRemoved, Handles
<1>4. StateTyped'
  BY <1>3
  DEF Typed, StateTyped, States, SetState, BlockEvent, HandleDiskAdded,
      HandlePartitionAdded,
              HandleDiskChanged, HandleDiskRemoved, HandlePartitionRemoved
<1>5. MountsTyped'
  BY <1>3 DEF Typed, MountsTyped, mounts
<1>6. PcTyped'
  <2>1. pc' = pc \/ \E l \in Entries \union {"idle"} : Goto("netlink", l)
    <3>1. CASE HandlePartitionAdded
      BY <1>1, <3>1 DEF HandlePartitionAdded, Goto, Entries
    <3>2. CASE ~HandlePartitionAdded
      BY <3>2 DEF BlockEvent, HandleDiskAdded, HandleDiskChanged, HandleDiskRemoved,
                  HandlePartitionRemoved, Entries
    <3> QED BY <3>1, <3>2
  <2>2. CASE pc' = pc
    BY <1>3, <2>2 DEF Typed, PcTyped
  <2>3. CASE \E l \in Entries \union {"idle"} : Goto("netlink", l)
    <3>1. GoesTo("netlink", Pcs \ InLoop) /\ "netlink" \in Threads
      BY <1>3, <2>3
      DEF GoesTo, Entries, Threads, Pcs, MountPcs, UnmountPcs, OtherPcs, InLoop
    <3> QED BY <3>1, PcOutside DEF Typed
  <2> QED BY <2>1, <2>2, <2>3
<1>7. KernelTyped'
  <2>1. mDiskNumParts' \in 0..MaxParts /\ mPendingPartMap' \subseteq 1..MaxParts
    <3>1. CASE UNCHANGED disk
      BY <3>1 DEF Typed, KernelTyped, disk
    <3>2. CASE HandleDiskAdded \/ HandleDiskChanged
      <4>1. 1..Head(uevents).part \subseteq 1..MaxParts
        BY <1>2, PartsAssumption
      <4> QED BY <1>2, <3>2, <4>1 DEF HandleDiskAdded, HandleDiskChanged
    <3>3. CASE HandlePartitionAdded
      BY <1>2, <3>3 DEF Typed, KernelTyped, HandlePartitionAdded, disk
    <3> QED
      BY <3>1, <3>2, <3>3 DEF BlockEvent, HandleDiskRemoved, HandlePartitionRemoved
  <2> QED BY <1>2, <1>3, <2>1 DEF Typed, KernelTyped
<1> QED BY <1>4, <1>5, <1>6, <1>7 DEF Typed

LEMMA WorldTyped ==
    ASSUME Typed, World
    PROVE  Typed'
<1>1. Quiet
  BY DEF World, Plug, Change, Unplug, Request
<1>2. StateTyped' /\ MountsTyped'
  BY <1>1 DEF Quiet, Typed, StateTyped, MountsTyped, fields, mounts, history
<1>3. PcTyped'
  <2>1. pc' = pc \/ \E l \in Entries : Goto("command", l)
    BY DEF World, Plug, Change, Unplug, Request
  <2>2. CASE pc' = pc
    BY <1>1, <2>2 DEF Typed, PcTyped, Quiet
  <2>3. CASE \E l \in Entries : Goto("command", l)
    <3>1. GoesTo("command", Pcs \ InLoop) /\ "command" \in Threads
      BY <1>1, <2>3
      DEF Quiet, GoesTo, Entries, Threads, Pcs, MountPcs, UnmountPcs, OtherPcs, InLoop
    <3> QED BY <3>1, PcOutside DEF Typed
  <2> QED BY <2>1, <2>2, <2>3
<1>4. KernelTyped'
  <2>1. ASSUME NEW n \in 0..MaxParts, NEW bad, Plug(n, bad) PROVE KernelTyped'
    <3>1. uevents' \in Seq([action : Actions, part : 0..MaxParts, ok : BOOLEAN])
      BY <2>1, AnnounceTyped, DiskEventTyped, ConcatTyped
      DEF Plug, Typed, KernelTyped, Actions
    <3> QED BY <1>1, <2>1, <3>1 DEF Plug, Quiet, disk, Typed, KernelTyped
  <2>2. ASSUME NEW n \in 0..MaxParts, NEW bad, Change(n, bad) PROVE KernelTyped'
    BY <1>1, <2>2, RepartitionTyped DEF Change, Quiet, Typed
  <2>3. CASE Unplug
    <3>1. 0 \in 0..MaxParts
      BY PartsAssumption
    <3>2. uevents' \in Seq([action : Actions, part : 0..MaxParts, ok : BOOLEAN])
      BY <2>3, <3>1, WithdrawTyped, DiskEventTyped, ConcatTyped
      DEF Unplug, Typed, KernelTyped, Actions
    <3> QED BY <1>1, <2>3, <3>1, <3>2 DEF Unplug, Quiet, disk, Typed, KernelTyped
  <2>4. CASE Request
    BY <1>1, <2>4 DEF Request, Quiet, disk, kernel, Typed, KernelTyped
  <2>5. \A n \in 0..MaxParts : 0..n \subseteq Int
    OBVIOUS
  <2> QED BY <2>1, <2>2, <2>3, <2>4 DEF World
<1> QED BY <1>2, <1>3, <1>4 DEF Typed

LEMMA NextTyped ==
    ASSUME Typed, CommandStep \/ NetlinkStep \/ World
    PROVE  Typed'
<1>1. ASSUME NEW t \in Threads, ThreadStep(t) PROVE Typed'
  BY <1>1,
     MountVolTyped, RetryTyped, CheckTyped, FsckTyped, StageTyped, BindTyped, TmpfsTyped,
     MoveTyped, MountedTyped, UnmountVolTyped, UnmountingTyped, UnpublishTyped,
     UntmpfsTyped, UnbindTyped, UnstageTyped, UnmountedTyped, RebindTyped, RetmpfsTyped,
     RepublishTyped, ShareVolumeTyped, LunWriteTyped, SharedTyped, UnshareVolumeTyped,
     LunClearTyped, UnsharedTyped
  DEF ThreadStep
<1>2. "command" \in Threads /\ "netlink" \in Threads
  BY DEF Threads
<1>3. CASE CommandStep
  BY <1>1, <1>2, <1>3, FormatVolTyped, FormattingTyped, MbrTyped, FormatTyped
  DEF CommandStep
<1>4. CASE NetlinkStep
  BY <1>1, <1>2, <1>4, BlockEventTyped DEF NetlinkStep
<1> QED BY <1>3, <1>4, WorldTyped

LEMMA InitTyped == Init => Typed
<1> SUFFICES ASSUME Init PROVE Typed
  OBVIOUS
<1>1. 0 \in 0..MaxParts /\ -1 \in -1..Elsewhere
  BY PartsAssumption DEF Elsewhere
<1>2. StateTyped
  BY <1>1 DEF Init, StateTyped, States
<1>3. MountsTyped
  BY DEF Init, MountsTyped
<1>4. KernelTyped
  <2>1. <<>> \in Seq([action : Actions, part : 0..MaxParts, ok : BOOLEAN])
    OBVIOUS
  <2> QED BY <1>1, <2>1 DEF Init, KernelTyped
<1>5. PcTyped
  BY DEF Init, PcTyped, Threads, Pcs, InLoop
<1> QED BY <1>2, <1>3, <1>4, <1>5 DEF Typed

Watched ==
    /\ {raced, orphan, overrun, strayed} \subseteq BOOLEAN
    /\ \A t \in Threads : pc[t] \in InLoop /\ Past(t) => strayed

LEMMA NextWatched == Watched /\ [Next]_vars => Watched'
<1> SUFFICES ASSUME Watched, [Next]_vars PROVE Watched'
  OBVIOUS
<1>1. CASE UNCHANGED vars
  BY <1>1 DEF Watched, Past, vars
<1>2. CASE Next
  BY <1>2 DEF Watched, Next, Watch
<1> QED BY <1>1, <1>2

LEMMA AlwaysTyped == Spec => []Typed
<1>1. Typed /\ [Next]_vars => Typed'
  <2>1. CASE UNCHANGED vars
    BY <2>1 DEF vars, fields, disk, mounts, kernel, history, Typed, StateTyped, MountsTyped,
                PcTyped, KernelTyped
  <2> QED BY <2>1, NextTyped DEF Next
<1> QED BY InitTyped, <1>1, PTL DEF Spec

LEMMA AlwaysWatched == Spec => []Watched
<1>1. Init => Watched
  BY DEF Init, Watched, InLoop, Threads
<1> QED BY <1>1, NextWatched, PTL DEF Spec

(* The variables keep their types: the loop of mountVol is never at work   *)
(* when its count is used up, the node it is at is a partition of the disk *)
(* or was read past the array, what was mounted by then may be a device    *)
(* elsewhere, and no mount has fewer than no tmpfs in it.                  *)
THEOREM TypeCorrect == Spec => []TypeOK
<1>1. Typed /\ Watched => TypeOK
  BY DEF Typed, StateTyped, MountsTyped, PcTyped, KernelTyped, Watched, TypeOK
<1> QED BY AlwaysTyped, AlwaysWatched, <1>1, PTL

(***************************************************************************)
(* What is exported is not mounted                                         *)
(***************************************************************************)
Empty == staging = <<>> /\ public = <<>> /\ asec = <<>>

(* The tmpfs hides the secure directory of m, or there is neither.         *)
Sealed(m) == IF Primary THEN m.tmpfs = 1 /\ Len(asec) = 1 ELSE m.tmpfs = 0 <=> asec = <<>>
Unsealed(m) == (m.tmpfs = 0 <=> asec = <<>>) /\ (Primary => asec = <<>>)

Published == staging = <<>> /\ \E m \in Mounts : public = <<m>> /\ Sealed(m)
Staged(m) == staging = <<m>> /\ public = <<>>

(* While no thread is at work: mState tells the truth.                     *)
Rest ==
    /\ lun => mState = "Shared"
    /\ IF mState = "Mounted" THEN Published ELSE Empty

(* While t is at work alone: what it has mounted or unmounted so far.      *)
Busy(t) ==
    LET at(labels) == pc[t] \in labels IN
    /\ at({"retry"}) => Rest
    /\ at({"lunWrite"}) => Rest /\ mState = "Idle"
    /\ at({"lunClear"}) => Rest /\ mState = "Shared"
    /\ at({"check", "fsck", "stage", "unmounted", "formatting", "mbr", "format", "shared",
           "unshared"}) => Empty
    /\ at(InLoop) => mState = "Checking"
    /\ at({"unmounting"}) => mState = "Mounted"
    /\ at({"unpublish"}) => mState = "Unmounting"
    /\ at({"mounted", "unmounting", "unpublish"}) => Published
    /\ at({"bind", "tmpfs", "untmpfs", "unbind"}) => Primary
    /\ at({"bind"}) => asec = <<>> /\ \E m \in Mounts : Staged(m) /\ m.tmpfs = 0
    /\ at({"tmpfs", "unbind"}) => Len(asec) = 1 /\ \E m \in Mounts : Staged(m) /\ m.tmpfs = 0
    /\ at({"move"}) => \E m \in Mounts : Staged(m) /\ Sealed(m) /\ (~Primary => m.tmpfs = 0)
    /\ at({"untmpfs", "republish"}) => \E m \in Mounts : Staged(m) /\ Sealed(m)
    /\ at({"unstage", "rebind"}) => \E m \in Mounts : Staged(m) /\ Unsealed(m)
    /\ at({"retmpfs"}) => /\ asec # <<>> /\ (Primary => Len(asec) = 1)
                          /\ \E m \in Mounts : Staged(m) /\ (Primary => m.tmpfs = 0)
    /\ ~at({"retry", "lunWrite", "lunClear", "shared"}) => ~lun

Resting(t) == pc[t] \in {"idle"} \union Entries
After(t) == IF Resting(t) THEN Rest ELSE Busy(t)

LEMMA OneMount ==
    ASSUME NEW m \in Mounts
    PROVE  /\ <<m>> # <<>> /\ Top(<<m>>) = m /\ Pop(<<m>>) = <<>>
           /\ m.tmpfs \in Nat /\ m.dev \in Devices
           /\ \A n : n \in Nat => WithTmpfs(<<m>>, n) = <<[dev |-> m.dev, tmpfs |-> n]>>
           /\ \A n \in Nat : [dev |-> m.dev, tmpfs |-> n] \in Mounts
           /\ Append(<<>>, m) = <<m>>
<1>1. Len(<<m>>) = 1 /\ <<m>> # <<>>
  OBVIOUS
<1>2. Top(<<m>>) = m
  BY DEF Top
<1>3. Pop(<<m>>) = <<>>
  BY DEF Pop
<1>4. ASSUME NEW x PROVE Append(<<>>, x) = <<x>>
  OBVIOUS
<1>5. /\ m.tmpfs \in Nat /\ m.dev \in Devices
      /\ \A n \in Nat : [dev |-> m.dev, tmpfs |-> n] \in Mounts
  BY DEF Mounts
<1> QED
  BY <1>1, <1>2, <1>3, <1>4, <1>5 DEF WithTmpfs

LEMMA Directory ==
    ASSUME MountsTyped, NEW d \in Devices
    PROVE  /\ Append(asec, d) # <<>> /\ (asec = <<>> => Len(Append(asec, d)) = 1)
           /\ Len(asec) = 1 => asec # <<>> /\ Pop(asec) = <<>>
<1>1. Append(asec, d) # <<>> /\ (asec = <<>> => Len(Append(asec, d)) = 1)
  BY DEF MountsTyped
<1>2. ASSUME Len(asec) = 1 PROVE asec # <<>> /\ Pop(asec) = <<>>
  <2>1. asec # <<>>
    BY <1>2
  <2>2. SubSeq(asec, 1, 0) = <<>>
    BY DEF MountsTyped
  <2> QED BY <1>2, <2>1, <2>2 DEF Pop
<1> QED BY <1>1, <1>2

LEMMA Moved ==
    ASSUME PcTyped, NEW t \in Threads, NEW l, Goto(t, l)
    PROVE  pc'[t] = l
  BY DEF PcTyped, Goto

LEMMA MountVolAfter ==
    ASSUME Typed, NEW t \in Threads, MountVol(t), Rest
    PROVE  After(t)'
  BY Moved
  DEF Typed, MountVol, Return, SetState, After, Busy, fields, history, mounts, Resting,
      Entries, InLoop, Empty, Published, Staged, Sealed, Unsealed, Rest

LEMMA RetryAfter ==
    ASSUME Typed, NEW t \in Threads, Retry(t), Busy(t), ~leaked'
    PROVE  After(t)'
  BY Moved, OneMount, Directory
  DEF Typed, Retry, Return, After, Busy, fields, history, mounts, States, Resting, Entries,
      InLoop, Empty, Published, Staged, Sealed, Unsealed, Rest

LEMMA CheckAfter ==
    ASSUME Typed, NEW t \in Threads, Check(t), Busy(t), ~leaked'
    PROVE  After(t)'
  BY Moved, OneMount, Directory
  DEF Typed, Check, Return, SetState, After, Busy, fields, history, mounts, States, Resting,
      Entries, InLoop, Empty, Published, Staged, Sealed, Unsealed, Rest

LEMMA FsckAfter ==
    ASSUME Typed, NEW t \in Threads, Fsck(t), Busy(t), ~leaked'
    PROVE  After(t)'
  BY Moved, OneMount, Directory
  DEF Typed, Fsck, Return, SetState, After, Busy, fields, history, mounts, States, Resting,
      Entries, InLoop, Empty, Published, Staged, Sealed, Unsealed, Rest

LEMMA StageAfter ==
    ASSUME Typed, NEW t \in Threads, Stage(t), Busy(t), ~leaked'
    PROVE  After(t)'
<1>1. Empty /\ ~lun /\ mState = "Checking" /\ UNCHANGED <<fields, public, asec, lun>>
  BY DEF Stage, Busy, InLoop
<1>2. CASE Goto(t, "check") /\ UNCHANGED staging
  <2>1. pc'[t] = "check"
    BY <1>2, Moved DEF Typed
  <2> QED BY <1>1, <1>2, <2>1
          DEF After, Busy, fields, Resting, Entries, InLoop, Empty, Published, Staged,
              Sealed, Unsealed, Rest
<1>3. CASE /\ staging' = Append(staging, [dev |-> Head(nodes[t]).dev, tmpfs |-> 0])
           /\ Goto(t, IF Primary THEN "bind" ELSE "move")
  <2>1. pc'[t] = IF Primary THEN "bind" ELSE "move"
    BY <1>3, Moved DEF Typed
  <2>2. Head(nodes[t]).dev \in Devices
    BY NodeTyped DEF Typed, Stage, InLoop
  <2>3. [dev |-> Head(nodes[t]).dev, tmpfs |-> 0] \in Mounts
    BY <2>2 DEF Mounts
  <2>4. staging' = <<[dev |-> Head(nodes[t]).dev, tmpfs |-> 0]>>
    BY <1>1, <1>3 DEF Empty
  <2>5. \E m \in Mounts : staging' = <<m>> /\ m.tmpfs = 0
    BY <2>3, <2>4
  <2> QED BY <1>1, <2>1, <2>5
          DEF After, Busy, fields, Resting, Entries, InLoop, Empty, Published, Staged,
              Sealed, Unsealed, Rest
<1> QED BY <1>2, <1>3 DEF Stage, Node

LEMMA BindAfter ==
    ASSUME Typed, NEW t \in Threads, Bind(t), Busy(t), ~leaked'
    PROVE  After(t)'
  BY Moved, OneMount, Directory
  DEF Typed, Bind, Return, SetState, AbortMount, DropStaging, After, Busy, fields, history,
      mounts, States, Resting, Entries, InLoop, Empty, Published, Staged, Sealed, Unsealed,
      Rest

LEMMA TmpfsAfter ==
    ASSUME Typed, NEW t \in Threads, Tmpfs(t), Busy(t), ~leaked'
    PROVE  After(t)'
<1>1. Primary /\ ~lun /\ mState = "Checking" /\ Len(asec) = 1
  BY DEF Tmpfs, Busy, InLoop
<1>2. PICK m \in Mounts : Staged(m) /\ m.tmpfs = 0
  BY DEF Tmpfs, Busy
<1>3. ~AbortMount(t)
  BY <1>1 DEF Tmpfs, AbortMount
<1>4. /\ staging' = WithTmpfs(staging, Top(staging).tmpfs + 1)
      /\ Goto(t, "move") /\ UNCHANGED <<mState, public, asec, lun>>
  BY <1>3 DEF Tmpfs, fields
<1>5. pc'[t] = "move"
  BY <1>4, Moved DEF Typed
<1>6. staging' = <<[dev |-> m.dev, tmpfs |-> 1]>> /\ [dev |-> m.dev, tmpfs |-> 1] \in Mounts
  BY <1>2, <1>4, OneMount DEF Staged
<1>7. \E n \in Mounts : staging' = <<n>> /\ n.tmpfs = 1
  BY <1>6
<1> QED BY <1>1, <1>2, <1>4, <1>5, <1>7
        DEF After, Busy, Resting, Entries, InLoop, Empty, Published, Staged, Sealed,
            Unsealed, Rest

LEMMA MoveAfter ==
    ASSUME Typed, NEW t \in Threads, Move(t), Busy(t), ~leaked'
    PROVE  After(t)'
<1>1. ~lun /\ mState = "Checking"
  BY DEF Move, Busy, InLoop
<1>2. PICK m \in Mounts : Staged(m) /\ Sealed(m) /\ (~Primary => m.tmpfs = 0)
  BY DEF Move, Busy
<1>3. CASE AbortMount(t)
  <2>1. ~Primary /\ asec = <<>>
    BY <1>2, <1>3 DEF AbortMount, Move, Sealed
  <2>2. pc'[t] = "idle" /\ mState' = "Idle" /\ Empty' /\ ~lun'
    BY <1>1, <1>2, <1>3, <2>1, OneMount, Moved
    DEF AbortMount, DropStaging, SetState, Return, Move, Staged, Empty, Typed
  <2> QED BY <2>2 DEF After, Rest, Resting
<1>4. CASE ~AbortMount(t)
  <2>1. /\ pc'[t] = "mounted" /\ public' = <<m>> /\ staging' = <<>>
        /\ UNCHANGED <<mState, asec, lun>>
    BY <1>2, <1>4, OneMount, Moved DEF Move, Staged, Typed, fields
  <2> QED BY <1>1, <1>2, <2>1
          DEF After, Busy, Resting, Entries, InLoop, Empty, Published, Staged, Sealed,
              Unsealed, Rest
<1> QED BY <1>3, <1>4

LEMMA MountedAfter ==
    ASSUME Typed, NEW t \in Threads, Mounted(t), Busy(t), ~leaked'
    PROVE  After(t)'
  BY Moved, OneMount, Directory
  DEF Typed, Mounted, Return, SetState, After, Busy, fields, history, mounts, States,
      Resting, Entries, InLoop, Empty, Published, Staged, Sealed, Unsealed, Rest

LEMMA UnmountVolAfter ==
    ASSUME Typed, NEW t \in Threads, UnmountVol(t), Rest
    PROVE  After(t)'
  BY Moved
  DEF Typed, UnmountVol, Return, After, Busy, fields, history, mounts, Resting, Entries,
      InLoop, Empty, Published, Staged, Sealed, Unsealed, Rest

LEMMA UnmountingAfter ==
    ASSUME Typed, NEW t \in Threads, Unmounting(t), Busy(t), ~leaked'
    PROVE  After(t)'
  BY Moved, OneMount, Directory
  DEF Typed, Unmounting, Return, SetState, After, Busy, fields, history, mounts, States,
      Resting, Entries, InLoop, Empty, Published, Staged, Sealed, Unsealed, Rest

LEMMA UnpublishAfter ==
    ASSUME Typed, NEW t \in Threads, Unpublish(t), Busy(t), ~leaked'
    PROVE  After(t)'
  BY Moved, OneMount, Directory
  DEF Typed, Unpublish, Return, SetState, GiveUp, After, Busy, fields, history, mounts,
      States, Resting, Entries, InLoop, Empty, Published, Staged, Sealed, Unsealed, Rest

LEMMA UntmpfsAfter ==
    ASSUME Typed, NEW t \in Threads, Untmpfs(t), Busy(t), ~leaked'
    PROVE  After(t)'
<1>1. Primary /\ ~lun /\ UNCHANGED <<mState, public, asec, lun>>
  BY DEF Untmpfs, Busy, InLoop, fields
<1>2. PICK m \in Mounts : Staged(m) /\ Sealed(m)
  BY DEF Untmpfs, Busy
<1>3. m.tmpfs = 1 /\ Len(asec) = 1 /\ staging # <<>> /\ Top(staging) = m
  BY <1>1, <1>2, OneMount DEF Staged, Sealed
<1>4. CASE Goto(t, "republish") /\ UNCHANGED staging
  <2>1. pc'[t] = "republish"
    BY <1>4, Moved DEF Typed
  <2> QED BY <1>1, <1>2, <1>4, <2>1
          DEF After, Busy, Resting, Entries, InLoop, Empty, Published, Staged, Sealed,
              Unsealed, Rest
<1>5. CASE Goto(t, "unbind") /\ staging' = WithTmpfs(staging, Top(staging).tmpfs - 1)
  <2>1. pc'[t] = "unbind"
    BY <1>5, Moved DEF Typed
  <2>2. staging' = <<[dev |-> m.dev, tmpfs |-> 0]>> /\ [dev |-> m.dev, tmpfs |-> 0] \in Mounts
    BY <1>2, <1>3, <1>5, OneMount DEF Staged
  <2>3. \E n \in Mounts : staging' = <<n>> /\ n.tmpfs = 0
    BY <2>2
  <2> QED BY <1>1, <1>2, <1>3, <2>1, <2>3
          DEF After, Busy, Resting, Entries, InLoop, Empty, Published, Staged, Sealed,
              Unsealed, Rest
<1> QED BY <1>3, <1>4, <1>5 DEF Untmpfs

LEMMA UnbindAfter ==
    ASSUME Typed, NEW t \in Threads, Unbind(t), Busy(t), ~leaked'
    PROVE  After(t)'
  BY Moved, OneMount, Directory
  DEF Typed, Unbind, Return, After, Busy, fields, history, mounts, States, Resting, Entries,
      InLoop, Empty, Published, Staged, Sealed, Unsealed, Rest

LEMMA UnstageAfter ==
    ASSUME Typed, NEW t \in Threads, Unstage(t), Busy(t), ~leaked'
    PROVE  After(t)'
  BY Moved, OneMount, Directory
  DEF Typed, Unstage, Return, After, Busy, fields, history, mounts, States, Resting,
      Entries, InLoop, Empty, Published, Staged, Sealed, Unsealed, Rest

LEMMA UnmountedAfter ==
    ASSUME Typed, NEW t \in Threads, Unmounted(t), Busy(t), ~leaked'
    PROVE  After(t)'
  BY Moved, OneMount, Directory
  DEF Typed, Unmounted, Return, SetState, After, Busy, fields, history, mounts, States,
      Resting, Entries, InLoop, Empty, Published, Staged, Sealed, Unsealed, Rest

LEMMA RebindAfter ==
    ASSUME Typed, NEW t \in Threads, Rebind(t), Busy(t), ~leaked'
    PROVE  After(t)'
  BY Moved, OneMount, Directory
  DEF Typed, Rebind, Return, SetState, GiveUp, After, Busy, fields, history, mounts, States,
      Resting, Entries, InLoop, Empty, Published, Staged, Sealed, Unsealed, Rest

LEMMA RetmpfsAfter ==
    ASSUME Typed, NEW t \in Threads, Retmpfs(t), Busy(t), ~leaked'
    PROVE  After(t)'
<1>1. /\ ~lun /\ lun' = lun /\ asec # <<>> /\ (Primary => Len(asec) = 1)
      /\ ~GiveUp(t, "NoMedia")
  BY DEF Retmpfs, Busy, GiveUp
<1>2. PICK m \in Mounts : Staged(m) /\ (Primary => m.tmpfs = 0)
  BY DEF Retmpfs, Busy
<1>3. /\ staging' = WithTmpfs(staging, Top(staging).tmpfs + 1)
      /\ UNCHANGED <<mState, public, asec>>
      /\ pc'[t] = "republish"
  BY <1>1, Moved DEF Retmpfs, fields, Typed
<1>4. m.tmpfs + 1 \in Nat /\ Top(staging) = m /\ staging = <<m>>
  BY <1>2, OneMount DEF Staged
<1>5. /\ staging' = <<[dev |-> m.dev, tmpfs |-> m.tmpfs + 1]>>
      /\ [dev |-> m.dev, tmpfs |-> m.tmpfs + 1] \in Mounts
  BY <1>3, <1>4, OneMount
<1>6. \E n \in Mounts : staging' = <<n>> /\ n.tmpfs = m.tmpfs + 1 /\ n.tmpfs # 0
  <2>1. m.tmpfs + 1 # 0
    <3>1. m.tmpfs \in Nat
      BY OneMount
    <3> QED BY <3>1
  <2> QED BY <1>5, <2>1
<1>7. \E n \in Mounts : staging' = <<n>> /\ Sealed(n)'
  BY <1>1, <1>2, <1>3, <1>6 DEF Sealed
<1> QED BY <1>1, <1>2, <1>3, <1>7
        DEF After, Busy, Resting, Entries, InLoop, Empty, Published, Staged, Sealed,
            Unsealed, Rest

LEMMA RepublishAfter ==
    ASSUME Typed, NEW t \in Threads, Republish(t), Busy(t), ~leaked'
    PROVE  After(t)'
<1>1. ~lun /\ lun' = lun /\ ~GiveUp(t, "NoMedia")
  BY DEF Republish, Busy, GiveUp
<1>2. PICK m \in Mounts : Staged(m) /\ Sealed(m)
  BY DEF Republish, Busy
<1>3. /\ pc'[t] = "idle" /\ mState' = "Mounted" /\ asec' = asec
      /\ public' = <<m>> /\ staging' = <<>>
  BY <1>1, <1>2, OneMount, Moved DEF Republish, Return, SetState, Staged, Typed
<1> QED BY <1>1, <1>2, <1>3
        DEF After, Resting, Entries, InLoop, Empty, Published, Staged, Sealed, Unsealed,
            Rest

LEMMA ShareVolumeAfter ==
    ASSUME Typed, NEW t \in Threads, ShareVolume(t), Rest
    PROVE  After(t)'
  BY Moved
  DEF Typed, ShareVolume, Return, After, Busy, fields, history, mounts, Resting, Entries,
      InLoop, Empty, Published, Staged, Sealed, Unsealed, Rest

LEMMA LunWriteAfter ==
    ASSUME Typed, NEW t \in Threads, LunWrite(t), Busy(t), ~leaked'
    PROVE  After(t)'
  BY Moved, OneMount, Directory
  DEF Typed, LunWrite, Return, After, Busy, fields, history, mounts, States, Resting,
      Entries, InLoop, Empty, Published, Staged, Sealed, Unsealed, Rest

LEMMA SharedAfter ==
    ASSUME Typed, NEW t \in Threads, Shared(t), Busy(t), ~leaked'
    PROVE  After(t)'
  BY Moved, OneMount, Directory
  DEF Typed, Shared, Return, SetState, After, Busy, fields, history, mounts, States,
      Resting, Entries, InLoop, Empty, Published, Staged, Sealed, Unsealed, Rest

LEMMA UnshareVolumeAfter ==
    ASSUME Typed, NEW t \in Threads, UnshareVolume(t), Rest
    PROVE  After(t)'
  BY Moved
  DEF Typed, UnshareVolume, Return, After, Busy, fields, history, mounts, Resting, Entries,
      InLoop, Empty, Published, Staged, Sealed, Unsealed, Rest

LEMMA LunClearAfter ==
    ASSUME Typed, NEW t \in Threads, LunClear(t), Busy(t), ~leaked'
    PROVE  After(t)'
  BY Moved, OneMount, Directory
  DEF Typed, LunClear, Return, After, Busy, fields, history, mounts, States, Resting,
      Entries, InLoop, Empty, Published, Staged, Sealed, Unsealed, Rest

LEMMA UnsharedAfter ==
    ASSUME Typed, NEW t \in Threads, Unshared(t), Busy(t), ~leaked'
    PROVE  After(t)'
  BY Moved, OneMount, Directory
  DEF Typed, Unshared, Return, SetState, After, Busy, fields, history, mounts, States,
      Resting, Entries, InLoop, Empty, Published, Staged, Sealed, Unsealed, Rest

LEMMA FormatVolAfter ==
    ASSUME Typed, NEW t \in Threads, FormatVol(t), Rest
    PROVE  After(t)'
  BY Moved
  DEF Typed, FormatVol, Return, SetState, After, Busy, fields, history, mounts, Resting,
      Entries, InLoop, Empty, Published, Staged, Sealed, Unsealed, Rest

LEMMA FormattingAfter ==
    ASSUME Typed, NEW t \in Threads, Formatting(t), Busy(t), ~leaked'
    PROVE  After(t)'
  BY Moved, OneMount, Directory
  DEF Typed, Formatting, Return, SetState, After, Busy, fields, history, mounts, States,
      Resting, Entries, InLoop, Empty, Published, Staged, Sealed, Unsealed, Rest

LEMMA MbrAfter ==
    ASSUME Typed, NEW t \in Threads, Mbr(t), Busy(t), ~leaked'
    PROVE  After(t)'
  BY Moved, OneMount, Directory
  DEF Typed, Mbr, Return, SetState, After, Busy, fields, history, mounts, States, Resting,
      Entries, InLoop, Empty, Published, Staged, Sealed, Unsealed, Rest

LEMMA FormatAfter ==
    ASSUME Typed, NEW t \in Threads, Format(t), Busy(t), ~leaked'
    PROVE  After(t)'
  BY Moved, OneMount, Directory
  DEF Typed, Format, Return, SetState, After, Busy, fields, history, mounts, States,
      Resting, Entries, InLoop, Empty, Published, Staged, Sealed, Unsealed, Rest

(* The excuses of ExportedIsUnmounted have not occurred.                   *)
Clean == ~raced /\ ~overrun /\ ~leaked

Guarded ==
    /\ lun => Empty
    /\ (\A t \in Threads : Resting(t)) => Rest
    /\ \A t \in Threads : ~Resting(t) /\ (\A u \in Threads \ {t} : Resting(u)) => Busy(t)

Safe == Clean => Guarded

LEMMA NothingToFix ==
    ASSUME PcTyped, NEW t \in Threads, ~Resting(t), Busy(t), mState = "Idle"
    PROVE  public = <<>>
  BY DEF PcTyped, Pcs, MountPcs, UnmountPcs, OtherPcs, Busy, Resting, Entries, InLoop,
         Empty, Published,
         Staged, Rest

(* A step of a thread while the other is not at work.                      *)
LEMMA AloneStep ==
    ASSUME Typed, Typed', Safe, Clean, NEW t \in Threads,
           \A u \in Threads \ {t} : Resting(u) /\ pc'[u] = pc[u],
           After(t) => After(t)'
    PROVE  Guarded'
<1>1. After(t)
  BY DEF Safe, Guarded, After
<1>2. After(t)' /\ \A u \in Threads \ {t} : Resting(u)'
  BY <1>1 DEF Resting
<1>3. lun' => Empty'
  BY <1>2 DEF Typed, PcTyped, After, Busy, Rest, Empty
<1> QED BY <1>2, <1>3 DEF After, Guarded

(* A thread finds nothing to do, or begins, while the other is at work.    *)
Enters(t) ==
    /\ Resting(t)
    /\ UNCHANGED <<mounts, lun>>
    /\ mState' # mState => mState = "Idle" /\ public # <<>>

LEMMA EnterBesides ==
    ASSUME Typed, Safe, Clean, NEW t \in Threads, NEW u \in Threads \ {t}, ~Resting(u),
           pc'[u] = pc[u], Enters(t)
    PROVE  Guarded'
<1>1. \A v \in Threads \ {u} : v = t
  BY DEF Threads
<1>2. Busy(u) /\ (lun => Empty)
  BY <1>1 DEF Safe, Guarded, Enters
<1>3. mState' = mState
  BY <1>2, NothingToFix DEF Enters, Typed
<1>4. Busy(u)' /\ ~Resting(u)' /\ (lun' => Empty')
  BY <1>2, <1>3
  DEF Enters, mounts, Busy, Rest, Empty, Published, Staged, Sealed, Unsealed, Resting
<1>5. ASSUME NEW v \in Threads, ~Resting(v)', \A w \in Threads \ {v} : Resting(w)'
      PROVE  Busy(v)'
  <2>1. v = u
    BY <1>4, <1>5
  <2> QED BY <1>4, <2>1
<1> QED BY <1>4, <1>5 DEF Guarded

(* Two threads at work are on record after the next step.                  *)
LEMMA BothAtWork ==
    ASSUME Watch, NEW t \in Threads, NEW u \in Threads \ {t}, ~Resting(t), ~Resting(u)
    PROVE  raced'
<1>1. AtWork("command") /\ AtWork("netlink")
  BY DEF Threads, AtWork, Resting
<1> QED BY <1>1 DEF Watch

LEMMA CleanBefore ==
    ASSUME Watch, Clean', leaked => leaked'
    PROVE  Clean
  BY DEF Watch, Clean

EntryStep(t) ==
    MountVol(t) \/ UnmountVol(t) \/ ShareVolume(t) \/ UnshareVolume(t) \/ FormatVol(t)

LEMMA EntryEnters ==
    ASSUME NEW t \in Threads, EntryStep(t)
    PROVE  Enters(t) /\ leaked' = leaked
  BY DEF EntryStep, MountVol, UnmountVol, ShareVolume, UnshareVolume, FormatVol, Enters,
         Resting, Entries,
         fields, mounts, history

LEMMA EntryAfter ==
    ASSUME Typed, NEW t \in Threads, EntryStep(t), Rest
    PROVE  After(t)'
  BY MountVolAfter, UnmountVolAfter, ShareVolumeAfter, UnshareVolumeAfter, FormatVolAfter
  DEF EntryStep

InnerStep(t) ==
    \/ Retry(t) \/ Check(t) \/ Fsck(t) \/ Stage(t) \/ Bind(t)
    \/ Tmpfs(t) \/ Move(t) \/ Mounted(t) \/ Unmounting(t) \/ Unpublish(t)
    \/ Untmpfs(t) \/ Unbind(t) \/ Unstage(t) \/ Unmounted(t) \/ Rebind(t)
    \/ Retmpfs(t) \/ Republish(t) \/ LunWrite(t) \/ Shared(t) \/ LunClear(t)
    \/ Unshared(t) \/ Formatting(t) \/ Mbr(t) \/ Format(t)

LEMMA InnerAfter ==
    ASSUME Typed, NEW t \in Threads, InnerStep(t), Busy(t), ~leaked'
    PROVE  After(t)'
  BY RetryAfter, CheckAfter, FsckAfter, StageAfter, BindAfter, TmpfsAfter, MoveAfter,
     MountedAfter, UnmountingAfter, UnpublishAfter, UntmpfsAfter, UnbindAfter,
     UnstageAfter, UnmountedAfter, RebindAfter, RetmpfsAfter, RepublishAfter,
     LunWriteAfter, SharedAfter, LunClearAfter, UnsharedAfter, FormattingAfter, MbrAfter,
     FormatAfter
  DEF InnerStep

LEMMA InnerIsAtWork ==
    ASSUME leaked \in BOOLEAN, NEW t \in Threads, InnerStep(t)
    PROVE  ~Resting(t) /\ (leaked => leaked')
<1>1. CASE Retry(t)
  BY <1>1 DEF Retry, Resting, Entries, history
<1>2. CASE Check(t)
  BY <1>2 DEF Check, Resting, Entries, history
<1>3. CASE Fsck(t)
  BY <1>3 DEF Fsck, Resting, Entries, history
<1>4. CASE Stage(t)
  BY <1>4 DEF Stage, Resting, Entries, history
<1>5. CASE Bind(t)
  BY <1>5 DEF Bind, Resting, Entries, history, AbortMount
<1>6. CASE Tmpfs(t)
  BY <1>6 DEF Tmpfs, Resting, Entries, history, AbortMount
<1>7. CASE Move(t)
  BY <1>7 DEF Move, Resting, Entries, history, AbortMount
<1>8. CASE Mounted(t)
  BY <1>8 DEF Mounted, Resting, Entries, history
<1>9. CASE Unmounting(t)
  BY <1>9 DEF Unmounting, Resting, Entries, history
<1>10. CASE Unpublish(t)
  BY <1>10 DEF Unpublish, Resting, Entries, history, GiveUp
<1>11. CASE Untmpfs(t)
  BY <1>11 DEF Untmpfs, Resting, Entries, history
<1>12. CASE Unbind(t)
  BY <1>12 DEF Unbind, Resting, Entries, history
<1>13. CASE Unstage(t)
  BY <1>13 DEF Unstage, Resting, Entries, history
<1>14. CASE Unmounted(t)
  BY <1>14 DEF Unmounted, Resting, Entries, history
<1>15. CASE Rebind(t)
  BY <1>15 DEF Rebind, Resting, Entries, history, GiveUp
<1>16. CASE Retmpfs(t)
  BY <1>16 DEF Retmpfs, Resting, Entries, history, GiveUp
<1>17. CASE Republish(t)
  BY <1>17 DEF Republish, Resting, Entries, history, GiveUp
<1>18. CASE LunWrite(t)
  BY <1>18 DEF LunWrite, Resting, Entries, history
<1>19. CASE Shared(t)
  BY <1>19 DEF Shared, Resting, Entries, history
<1>20. CASE LunClear(t)
  BY <1>20 DEF LunClear, Resting, Entries, history
<1>21. CASE Unshared(t)
  BY <1>21 DEF Unshared, Resting, Entries, history
<1>22. CASE Formatting(t)
  BY <1>22 DEF Formatting, Resting, Entries, history
<1>23. CASE Mbr(t)
  BY <1>23 DEF Mbr, Resting, Entries, history
<1>24. CASE Format(t)
  BY <1>24 DEF Format, Resting, Entries, history
<1> QED
  BY <1>1, <1>2, <1>3, <1>4, <1>5, <1>6, <1>7, <1>8, <1>9, <1>10, <1>11, <1>12, <1>13,
     <1>14, <1>15, <1>16, <1>17, <1>18, <1>19, <1>20, <1>21, <1>22, <1>23, <1>24 DEF InnerStep

LEMMA NextCases ==
    ASSUME Next
    PROVE  /\ Watch
           /\ \/ \E t \in Threads : EntryStep(t) \/ InnerStep(t)
              \/ BlockEvent
              \/ World
<1>1. Watch /\ (CommandStep \/ NetlinkStep \/ World)
  BY DEF Next
<1>2. ASSUME NEW t \in Threads, ThreadStep(t) PROVE EntryStep(t) \/ InnerStep(t)
  BY <1>2 DEF ThreadStep, EntryStep, InnerStep
<1>3. CommandStep => EntryStep("command") \/ InnerStep("command")
  BY <1>2 DEF CommandStep, EntryStep, InnerStep, Threads
<1>4. NetlinkStep => EntryStep("netlink") \/ InnerStep("netlink") \/ BlockEvent
  BY <1>2 DEF NetlinkStep, Threads
<1> QED BY <1>1, <1>3, <1>4 DEF Threads

LEMMA StepsAlone ==
    ASSUME NEW t \in Threads, EntryStep(t) \/ InnerStep(t)
    PROVE  \E l : Goto(t, l)
<1>1. CASE EntryStep(t)
  BY <1>1 DEF EntryStep, MountVol, UnmountVol, ShareVolume, UnshareVolume, FormatVol, Return
<1>2. CASE InnerStep(t)
  BY <1>2
  DEF InnerStep, Retry, Check, Fsck, Stage, Bind, Tmpfs, Move, Mounted, Unmounting,
      Unpublish,
              Untmpfs, Unbind, Unstage, Unmounted, Rebind, Retmpfs, Republish, LunWrite,
              Shared, LunClear, Unshared, Formatting, Mbr, Format,
              Return, AbortMount, GiveUp
<1> QED BY <1>1, <1>2

LEMMA ThreadSafe ==
    ASSUME Typed, Typed', Safe, Watch, NEW t \in Threads, EntryStep(t) \/ InnerStep(t)
    PROVE  Safe'
<1> SUFFICES ASSUME Clean' PROVE Guarded'
  BY DEF Safe
<1>1. \A u \in Threads \ {t} : pc'[u] = pc[u]
  BY StepsAlone DEF Goto, Typed, PcTyped
<1>0. leaked \in BOOLEAN
  BY DEF Typed, StateTyped
<1>2. Clean
  BY <1>0, CleanBefore, EntryEnters, InnerIsAtWork
<1>3. CASE \A u \in Threads \ {t} : Resting(u)
  <2>1. ~leaked'
    BY DEF Clean
  <2>2. After(t) => After(t)'
    BY <1>0, <2>1, EntryAfter, EntryEnters, InnerAfter, InnerIsAtWork DEF After, Enters
  <2> QED BY <1>1, <1>2, <1>3, <2>2, AloneStep
<1>4. ASSUME NEW u \in Threads \ {t}, ~Resting(u) PROVE Guarded'
  <2>1. ~InnerStep(t)
    BY <1>0, <1>4, BothAtWork, InnerIsAtWork DEF Clean
  <2>2. Enters(t)
    BY <2>1, EntryEnters
  <2> QED BY <1>1, <1>2, <1>4, <2>2, EnterBesides
<1> QED BY <1>3, <1>4

LEMMA BlockEventRests ==
    ASSUME Typed, BlockEvent, pc["netlink"] = "idle", \A t \in Threads : Resting(t)
    PROVE  \A t \in Threads : Resting(t)'
<1>1. /\ pc'["command"] = pc["command"]
      /\ pc'["netlink"] \in {"idle"} \union Entries
  <2>1. CASE HandlePartitionAdded
    BY <2>1 DEF HandlePartitionAdded, Entries, Typed, PcTyped, Threads
  <2>2. CASE ~HandlePartitionAdded
    BY <2>2 DEF BlockEvent, HandleDiskAdded, HandleDiskChanged, HandleDiskRemoved,
                HandlePartitionRemoved, Entries, Goto, Typed, PcTyped, Threads
  <2> QED BY <2>1, <2>2
<1> QED BY <1>1 DEF Resting, Threads

LEMMA BlockEventSafe ==
    ASSUME Typed, Typed', Safe, Watch, BlockEvent
    PROVE  Safe'
<1> SUFFICES ASSUME Clean' PROVE Guarded'
  BY DEF Safe
<1>1. pc["netlink"] = "idle" /\ UNCHANGED <<mounts, lun, leaked>>
  BY DEF BlockEvent, HandleDiskAdded, HandlePartitionAdded, HandleDiskChanged,
         HandleDiskRemoved,
         HandlePartitionRemoved, Handles
<1>2. Clean
  BY <1>1, CleanBefore
<1>3. Resting("command") /\ Resting("netlink")
  BY <1>1 DEF Watch, Clean, AtWork, Resting
<1>4. Rest
  BY <1>2, <1>3 DEF Threads, Safe, Guarded
<1>5. mState' = mState \/ (mState \notin {"Mounted", "Shared"} /\ mState' # "Mounted")
  <2>1. mState' # mState => mState \notin {"Mounted", "Shared"}
    BY DEF Watch, Clean
  <2>2. mState' # "Mounted" \/ mState' = mState
    BY DEF BlockEvent, HandleDiskAdded, HandlePartitionAdded, HandleDiskChanged,
           HandleDiskRemoved,
           HandlePartitionRemoved, SetState
  <2> QED BY <2>1, <2>2
<1>6. Rest' /\ (lun' => Empty')
  BY <1>1, <1>4, <1>5 DEF Rest, Empty, Published, Sealed, mounts
<1>7. \A t \in Threads : Resting(t)'
  BY <1>1, <1>3, BlockEventRests DEF Threads
<1> QED BY <1>6, <1>7 DEF Guarded

LEMMA WorldSafe ==
    ASSUME Typed, Typed', Safe, Watch, World
    PROVE  Safe'
<1> SUFFICES ASSUME Clean' PROVE Guarded'
  BY DEF Safe
<1>1. UNCHANGED <<fields, mounts, lun, leaked>>
  BY DEF World, Plug, Change, Unplug, Request, Quiet, history
<1>2. Clean
  BY <1>1, CleanBefore
<1>3. pc' = pc \/ (pc["command"] = "idle" /\ \E l \in Entries : Goto("command", l))
  BY DEF World, Plug, Change, Unplug, Request
<1>4. \A t \in Threads : /\ Resting(t)' <=> Resting(t)
                         /\ ~Resting(t) => pc'[t] = pc[t]
  BY <1>3 DEF Goto, Resting, Entries, Threads, Typed, PcTyped
<1>5. Rest' <=> Rest
  BY <1>1 DEF Rest, Empty, Published, Sealed, mounts, fields
<1>6. \A t \in Threads : ~Resting(t) /\ Busy(t) => Busy(t)'
  BY <1>1, <1>4, <1>5 DEF Busy, Empty, Published, Staged, Sealed, Unsealed, mounts, fields
<1>7. lun' /\ (lun => Empty) => Empty'
  BY <1>1 DEF Empty, mounts
<1> QED BY <1>2, <1>4, <1>5, <1>6, <1>7 DEF Safe, Guarded

(* While the device is exported to the USB host nothing of it is mounted,  *)
(* for any number of partitions, plugs and requests, primary storage or    *)
(* not: ShareVolume looks at mState only, and it is because one thread     *)
(* works at a time that mState tells the truth about the mount table.      *)
THEOREM ExportIsExclusive == Spec => []ExportedIsUnmounted
<1>1. Init => Safe
  BY DEF Init, Safe, Guarded, Resting, Rest, Empty, Threads
<1>2. Typed /\ Typed' /\ Safe /\ [Next]_vars => Safe'
  <2> SUFFICES ASSUME Typed, Typed', Safe, [Next]_vars PROVE Safe'
    OBVIOUS
  <2>1. CASE UNCHANGED vars
    BY <2>1
    DEF vars, fields, mounts, history, Safe, Clean, Guarded, Resting, Rest, Busy, Empty,
        Published,
                Staged, Sealed, Unsealed
  <2>2. CASE Next
    BY <2>2, NextCases, ThreadSafe, BlockEventSafe, WorldSafe
  <2> QED BY <2>1, <2>2
<1>3. Safe => ExportedIsUnmounted
  BY DEF Safe, Clean, Guarded, Empty, ExportedIsUnmounted, mounts
<1> QED BY <1>1, <1>2, <1>3, AlwaysTyped, PTL DEF Spec
(***************************************************************************)
(* What is mounted at the public mount point is the device that the volume *)
(* believes to be mounted, also after mounts were left behind, as long as  *)
(* no mountVol has read past its device nodes.                             *)
(***************************************************************************)
Known == \E m \in Mounts : public = <<m>> /\ (strayed \/ m.dev = mCurrentlyMountedKdev)
OnTop(d) == public = <<>> /\ staging # <<>> /\ Top(staging).dev = d
KnownOnTop ==
    public = <<>> /\ staging # <<>> /\ (strayed \/ Top(staging).dev = mCurrentlyMountedKdev)

(* What each step leaves of strayed, and what the loop of mountVol needs.  *)
Onward ==
    /\ strayed => strayed'
    /\ \A t \in Threads : pc[t] \in InLoop /\ Past(t) => strayed

LEMMA WatchOnward ==
    ASSUME Watched, Watch
    PROVE  Onward
  BY DEF Watched, Watch, Onward

KnownRest ==
    /\ public = <<>> \/ Known
    /\ mState = "Mounted" => public # <<>>

KnownBusy(t) ==
    LET at(labels) == pc[t] \in labels IN
    /\ at({"retry"} \union OtherPcs) => KnownRest
    /\ at({"check", "fsck", "stage", "unmounted"}) => public = <<>>
    /\ at({"bind", "tmpfs", "move"}) => OnTop(Head(nodes[t]).dev)
    /\ at({"mounted"}) => \E m \in Mounts : public = <<m>> /\ m.dev = Head(nodes[t]).dev
    /\ at({"unmounting", "unpublish"}) => Known
    /\ at({"untmpfs", "unbind", "unstage", "rebind", "retmpfs", "republish"})
           => KnownOnTop

KnownAfter(t) == IF Resting(t) THEN KnownRest ELSE KnownBusy(t)

LEMMA Stacked ==
    ASSUME MountsTyped, NEW m \in Mounts
    PROVE  Append(staging, m) # <<>> /\ Top(Append(staging, m)) = m
<1>1. Append(staging, m) \in Seq(Mounts) /\ Len(Append(staging, m)) = Len(staging) + 1
  BY DEF MountsTyped
<1>2. Append(staging, m) # <<>> /\ Append(staging, m)[Len(staging) + 1] = m
  BY DEF MountsTyped
<1> QED BY <1>1, <1>2 DEF Top

LEMMA TopTmpfs ==
    ASSUME MountsTyped, staging # <<>>
    PROVE  Top(staging).tmpfs \in Nat
<1>1. Top(staging) \in Mounts
  BY TopPop DEF MountsTyped
<1> QED BY <1>1 DEF Mounts

LEMMA SameDevice ==
    ASSUME MountsTyped, staging # <<>>, NEW n \in Nat
    PROVE  WithTmpfs(staging, n) # <<>> /\ Top(WithTmpfs(staging, n)).dev = Top(staging).dev
<1> DEFINE m == [dev |-> Top(staging).dev, tmpfs |-> n]
<1>1. Top(staging) \in Mounts /\ Pop(staging) \in Seq(Mounts)
  BY TopPop DEF MountsTyped
<1>2. m \in Mounts
  BY <1>1 DEF Mounts
<1>3. /\ Append(Pop(staging), m) # <<>>
      /\ Len(Append(Pop(staging), m)) = Len(Pop(staging)) + 1
      /\ Append(Pop(staging), m)[Len(Pop(staging)) + 1] = m
  BY <1>1, <1>2
<1> QED BY <1>3 DEF WithTmpfs, Top

LEMMA MountVolKnown ==
    ASSUME Typed, NEW t \in Threads, MountVol(t), KnownRest, Onward
    PROVE  KnownAfter(t)'
  BY Moved
  DEF Typed, MountVol, Return, SetState, KnownAfter, KnownBusy, fields, mounts, Resting,
      Entries, InLoop, OtherPcs, KnownRest, Known, OnTop, KnownOnTop, Onward

LEMMA RetryKnown ==
    ASSUME Typed, NEW t \in Threads, Retry(t), KnownBusy(t), Onward
    PROVE  KnownAfter(t)'
  BY Moved
  DEF Typed, Retry, Return, KnownAfter, KnownBusy, fields, mounts, States, Resting, Entries,
      InLoop, OtherPcs, KnownRest, Known, OnTop, KnownOnTop, Onward

LEMMA CheckKnown ==
    ASSUME Typed, NEW t \in Threads, Check(t), KnownBusy(t), Onward
    PROVE  KnownAfter(t)'
  BY Moved
  DEF Typed, Check, Return, SetState, KnownAfter, KnownBusy, fields, mounts, States,
      Resting, Entries, InLoop, OtherPcs, KnownRest, Known, OnTop, KnownOnTop, Onward

LEMMA FsckKnown ==
    ASSUME Typed, NEW t \in Threads, Fsck(t), KnownBusy(t), Onward
    PROVE  KnownAfter(t)'
  BY Moved
  DEF Typed, Fsck, Return, SetState, KnownAfter, KnownBusy, fields, mounts, States, Resting,
      Entries, InLoop, OtherPcs, KnownRest, Known, OnTop, KnownOnTop, Onward

LEMMA StageKnown ==
    ASSUME Typed, NEW t \in Threads, Stage(t), KnownBusy(t), Onward
    PROVE  KnownAfter(t)'
<1>1. public = <<>> /\ UNCHANGED <<fields, public>>
  BY DEF Stage, KnownBusy
<1>2. CASE Goto(t, "check")
  <2>1. pc'[t] = "check"
    BY <1>2, Moved DEF Typed
  <2> QED BY <1>1, <2>1 DEF KnownAfter, KnownBusy, Resting, Entries, InLoop, OtherPcs
<1>3. CASE /\ staging' = Append(staging, [dev |-> Head(nodes[t]).dev, tmpfs |-> 0])
           /\ Goto(t, IF Primary THEN "bind" ELSE "move") /\ UNCHANGED nodes
  <2>1. pc'[t] = IF Primary THEN "bind" ELSE "move"
    BY <1>3, Moved DEF Typed
  <2>2. [dev |-> Head(nodes[t]).dev, tmpfs |-> 0] \in Mounts
    BY NodeTyped DEF Typed, Stage, InLoop, Mounts
  <2>3. OnTop(Head(nodes[t]).dev)'
    BY <1>1, <1>3, <2>2, Stacked DEF Typed, OnTop
  <2> QED BY <2>1, <2>3 DEF KnownAfter, KnownBusy, Resting, Entries, InLoop, OtherPcs
<1> QED BY <1>2, <1>3 DEF Stage, Node

LEMMA BindKnown ==
    ASSUME Typed, NEW t \in Threads, Bind(t), KnownBusy(t), Onward
    PROVE  KnownAfter(t)'
  BY Moved
  DEF Typed, Bind, Return, SetState, AbortMount, KnownAfter, KnownBusy, fields, mounts,
      States, Resting, Entries, InLoop, OtherPcs, KnownRest, Known, OnTop, KnownOnTop, Onward

LEMMA TmpfsKnown ==
    ASSUME Typed, NEW t \in Threads, Tmpfs(t), KnownBusy(t), Onward
    PROVE  KnownAfter(t)'
<1>1. OnTop(Head(nodes[t]).dev)
  BY DEF Tmpfs, KnownBusy
<1>2. CASE AbortMount(t)
  <2>1. pc'[t] = "idle" /\ public' = <<>> /\ mState' # "Mounted"
    BY <1>1, <1>2, Moved DEF AbortMount, Return, SetState, OnTop, mounts, Typed
  <2> QED BY <2>1 DEF KnownAfter, Resting, KnownRest
<1>3. CASE /\ staging' = WithTmpfs(staging, Top(staging).tmpfs + 1)
           /\ Goto(t, "move") /\ UNCHANGED <<fields, public>>
  <2>1. pc'[t] = "move"
    BY <1>3, Moved DEF Typed
  <2>2. Top(staging).tmpfs + 1 \in Nat
    BY <1>1, TopTmpfs DEF Typed, OnTop
  <2>3. OnTop(Head(nodes[t]).dev)'
    BY <1>1, <1>3, <2>2, SameDevice DEF Typed, OnTop, fields, Tmpfs
  <2> QED BY <2>1, <2>3 DEF KnownAfter, KnownBusy, Resting, Entries, InLoop, OtherPcs
<1> QED BY <1>2, <1>3 DEF Tmpfs

LEMMA MoveKnown ==
    ASSUME Typed, NEW t \in Threads, Move(t), KnownBusy(t), Onward
    PROVE  KnownAfter(t)'
<1>1. OnTop(Head(nodes[t]).dev)
  BY DEF Move, KnownBusy
<1>2. CASE AbortMount(t)
  <2>1. pc'[t] = "idle" /\ public' = <<>> /\ mState' # "Mounted"
    BY <1>1, <1>2, Moved DEF AbortMount, Return, SetState, OnTop, mounts, Typed
  <2> QED BY <2>1 DEF KnownAfter, Resting, KnownRest
<1>3. CASE ~AbortMount(t)
  <2>1. Top(staging) \in Mounts /\ Top(staging).dev = Head(nodes[t]).dev
    BY <1>1, TopPop DEF OnTop, Typed, MountsTyped
  <2>2. public' = <<Top(staging)>>
    BY <1>1, <1>3, <2>1, OneMount DEF Move, OnTop
  <2>3. pc'[t] = "mounted" /\ UNCHANGED <<mCurrentlyMountedKdev, nodes>>
    BY <1>3, Moved DEF Move, Return, fields, Typed
  <2> QED BY <2>1, <2>2, <2>3, OneMount
          DEF KnownAfter, KnownBusy, Resting, Entries, InLoop, OtherPcs, KnownRest, Known,
              OnTop
<1> QED BY <1>2, <1>3

LEMMA MountedKnown ==
    ASSUME Typed, NEW t \in Threads, Mounted(t), KnownBusy(t), Onward
    PROVE  KnownAfter(t)'
<1>1. pc'[t] = "idle" /\ UNCHANGED public
  BY Moved DEF Mounted, Return, Typed, mounts
<1>2. PICK m \in Mounts : public = <<m>> /\ m.dev = Head(nodes[t]).dev
  BY DEF Mounted, KnownBusy
<1>3. strayed' \/ mCurrentlyMountedKdev' = Head(nodes[t]).dev
  BY DEF Mounted, Onward, InLoop, Past, Node
<1>4. Known'
  BY <1>1, <1>2, <1>3 DEF Known
<1>5. public # <<>>
  BY <1>2, OneMount
<1> QED BY <1>1, <1>4, <1>5 DEF KnownAfter, Resting, KnownRest

LEMMA UnmountVolKnown ==
    ASSUME Typed, NEW t \in Threads, UnmountVol(t), KnownRest, Onward
    PROVE  KnownAfter(t)'
  BY Moved
  DEF Typed, UnmountVol, Return, KnownAfter, KnownBusy, fields, mounts, Resting, Entries,
      InLoop, OtherPcs, KnownRest, Known, OnTop, KnownOnTop, Onward

LEMMA UnmountingKnown ==
    ASSUME Typed, NEW t \in Threads, Unmounting(t), KnownBusy(t), Onward
    PROVE  KnownAfter(t)'
  BY Moved
  DEF Typed, Unmounting, Return, SetState, KnownAfter, KnownBusy, fields, mounts, States,
      Resting, Entries, InLoop, OtherPcs, KnownRest, Known, OnTop, KnownOnTop, Onward

LEMMA UnpublishKnown ==
    ASSUME Typed, NEW t \in Threads, Unpublish(t), KnownBusy(t), Onward
    PROVE  KnownAfter(t)'
<1>1. PICK m \in Mounts : public = <<m>> /\ (strayed \/ m.dev = mCurrentlyMountedKdev)
  BY DEF Unpublish, KnownBusy, Known
<1>2. CASE GiveUp(t, "Mounted")
  <2>1. pc'[t] = "idle" /\ UNCHANGED <<public, mCurrentlyMountedKdev>>
    BY <1>2, Moved DEF GiveUp, Return, mounts, Typed
  <2>2. Known'
    BY <1>1, <2>1 DEF Known, Onward
  <2>3. public # <<>>
    BY <1>1, OneMount
  <2> QED BY <2>1, <2>2, <2>3 DEF KnownAfter, Resting, KnownRest
<1>3. CASE ~GiveUp(t, "Mounted")
  <2>1. /\ staging' = Append(staging, m) /\ public' = <<>> /\ UNCHANGED mCurrentlyMountedKdev
        /\ pc'[t] \in {"untmpfs", "unstage"}
    BY <1>1, <1>3, OneMount, Moved DEF Unpublish, Typed, fields
  <2>2. KnownOnTop'
    BY <1>1, <2>1, Stacked DEF Typed, KnownOnTop, Onward
  <2> QED BY <2>1, <2>2 DEF KnownAfter, KnownBusy, Resting, Entries, InLoop, OtherPcs
<1> QED BY <1>2, <1>3

LEMMA UntmpfsKnown ==
    ASSUME Typed, NEW t \in Threads, Untmpfs(t), KnownBusy(t), Onward
    PROVE  KnownAfter(t)'
<1>1. KnownOnTop /\ UNCHANGED <<mCurrentlyMountedKdev, public>>
  BY DEF Untmpfs, KnownBusy, fields
<1>2. pc'[t] \in {"unbind", "republish"}
  BY Moved DEF Untmpfs, Typed
<1>3. KnownOnTop'
  <2>1. CASE UNCHANGED staging
    BY <1>1, <2>1 DEF KnownOnTop, Onward
  <2>2. CASE staging # <<>> /\ Top(staging).tmpfs > 0
                /\ staging' = WithTmpfs(staging, Top(staging).tmpfs - 1)
    <3>1. Top(staging).tmpfs - 1 \in Nat
      BY <2>2, TopTmpfs DEF Typed
    <3> QED BY <1>1, <2>2, <3>1, SameDevice DEF Typed, KnownOnTop, Onward
  <2> QED BY <2>1, <2>2 DEF Untmpfs
<1> QED BY <1>2, <1>3 DEF KnownAfter, KnownBusy, Resting, Entries, InLoop, OtherPcs

LEMMA UnbindKnown ==
    ASSUME Typed, NEW t \in Threads, Unbind(t), KnownBusy(t), Onward
    PROVE  KnownAfter(t)'
  BY Moved
  DEF Typed, Unbind, Return, KnownAfter, KnownBusy, fields, mounts, States, Resting,
      Entries, InLoop, OtherPcs, KnownRest, Known, OnTop, KnownOnTop, Onward

LEMMA UnstageKnown ==
    ASSUME Typed, NEW t \in Threads, Unstage(t), KnownBusy(t), Onward
    PROVE  KnownAfter(t)'
  BY Moved
  DEF Typed, Unstage, Return, KnownAfter, KnownBusy, fields, mounts, States, Resting,
      Entries, InLoop, OtherPcs, KnownRest, Known, OnTop, KnownOnTop, Onward

LEMMA UnmountedKnown ==
    ASSUME Typed, NEW t \in Threads, Unmounted(t), KnownBusy(t), Onward
    PROVE  KnownAfter(t)'
  BY Moved
  DEF Typed, Unmounted, Return, SetState, KnownAfter, KnownBusy, fields, mounts, States,
      Resting, Entries, InLoop, OtherPcs, KnownRest, Known, OnTop, KnownOnTop, Onward

LEMMA RebindKnown ==
    ASSUME Typed, NEW t \in Threads, Rebind(t), KnownBusy(t), Onward
    PROVE  KnownAfter(t)'
  BY Moved
  DEF Typed, Rebind, Return, SetState, GiveUp, KnownAfter, KnownBusy, fields, mounts,
      States, Resting, Entries, InLoop, OtherPcs, KnownRest, Known, OnTop, KnownOnTop, Onward

LEMMA RetmpfsKnown ==
    ASSUME Typed, NEW t \in Threads, Retmpfs(t), KnownBusy(t), Onward
    PROVE  KnownAfter(t)'
<1>1. KnownOnTop
  BY DEF Retmpfs, KnownBusy
<1>2. CASE GiveUp(t, "NoMedia")
  <2>1. pc'[t] = "idle" /\ public' = <<>> /\ mState' # "Mounted"
    BY <1>1, <1>2, Moved DEF GiveUp, Return, SetState, KnownOnTop, mounts, Typed
  <2> QED BY <2>1 DEF KnownAfter, Resting, KnownRest
<1>3. CASE /\ staging' = WithTmpfs(staging, Top(staging).tmpfs + 1)
           /\ Goto(t, "republish") /\ UNCHANGED <<fields, public>>
  <2>1. pc'[t] = "republish"
    BY <1>3, Moved DEF Typed
  <2>2. Top(staging).tmpfs + 1 \in Nat
    BY <1>1, TopTmpfs DEF Typed, KnownOnTop
  <2>3. KnownOnTop'
    BY <1>1, <1>3, <2>2, SameDevice DEF Typed, KnownOnTop, fields, Retmpfs, Onward
  <2> QED BY <2>1, <2>3 DEF KnownAfter, KnownBusy, Resting, Entries, InLoop, OtherPcs
<1> QED BY <1>2, <1>3 DEF Retmpfs

LEMMA RepublishKnown ==
    ASSUME Typed, NEW t \in Threads, Republish(t), KnownBusy(t), Onward
    PROVE  KnownAfter(t)'
<1>1. KnownOnTop
  BY DEF Republish, KnownBusy
<1>2. CASE GiveUp(t, "NoMedia")
  <2>1. pc'[t] = "idle" /\ public' = <<>> /\ mState' # "Mounted"
    BY <1>1, <1>2, Moved DEF GiveUp, Return, SetState, KnownOnTop, mounts, Typed
  <2> QED BY <2>1 DEF KnownAfter, Resting, KnownRest
<1>3. CASE ~GiveUp(t, "NoMedia")
  <2>1. /\ Top(staging) \in Mounts
        /\ strayed \/ Top(staging).dev = mCurrentlyMountedKdev
    BY <1>1, TopPop DEF KnownOnTop, Typed, MountsTyped
  <2>2. public' = <<Top(staging)>>
    BY <1>1, <1>3, <2>1, OneMount DEF Republish, KnownOnTop
  <2>3. pc'[t] = "idle" /\ UNCHANGED <<mCurrentlyMountedKdev, nodes>>
    BY <1>3, Moved DEF Republish, Return, fields, Typed
  <2>4. Known'
    BY <2>1, <2>2, <2>3 DEF Known, Onward
  <2>5. public' # <<>>
    BY <2>1, <2>2, OneMount
  <2> QED BY <2>3, <2>4, <2>5 DEF KnownAfter, Resting, KnownRest
<1> QED BY <1>2, <1>3

LEMMA ShareVolumeKnown ==
    ASSUME Typed, NEW t \in Threads, ShareVolume(t), KnownRest, Onward
    PROVE  KnownAfter(t)'
  BY Moved
  DEF Typed, ShareVolume, Return, KnownAfter, KnownBusy, fields, mounts, Resting, Entries,
      InLoop, OtherPcs, KnownRest, Known, OnTop, KnownOnTop, Onward

LEMMA LunWriteKnown ==
    ASSUME Typed, NEW t \in Threads, LunWrite(t), KnownBusy(t), Onward
    PROVE  KnownAfter(t)'
  BY Moved
  DEF Typed, LunWrite, Return, KnownAfter, KnownBusy, fields, mounts, States, Resting,
      Entries, InLoop, OtherPcs, KnownRest, Known, OnTop, KnownOnTop, Onward

LEMMA SharedKnown ==
    ASSUME Typed, NEW t \in Threads, Shared(t), KnownBusy(t), Onward
    PROVE  KnownAfter(t)'
  BY Moved
  DEF Typed, Shared, Return, SetState, KnownAfter, KnownBusy, fields, mounts, States,
      Resting, Entries, InLoop, OtherPcs, KnownRest, Known, OnTop, KnownOnTop, Onward

LEMMA UnshareVolumeKnown ==
    ASSUME Typed, NEW t \in Threads, UnshareVolume(t), KnownRest, Onward
    PROVE  KnownAfter(t)'
  BY Moved
  DEF Typed, UnshareVolume, Return, KnownAfter, KnownBusy, fields, mounts, Resting, Entries,
      InLoop, OtherPcs, KnownRest, Known, OnTop, KnownOnTop, Onward

LEMMA LunClearKnown ==
    ASSUME Typed, NEW t \in Threads, LunClear(t), KnownBusy(t), Onward
    PROVE  KnownAfter(t)'
  BY Moved
  DEF Typed, LunClear, Return, KnownAfter, KnownBusy, fields, mounts, States, Resting,
      Entries, InLoop, OtherPcs, KnownRest, Known, OnTop, KnownOnTop, Onward

LEMMA UnsharedKnown ==
    ASSUME Typed, NEW t \in Threads, Unshared(t), KnownBusy(t), Onward
    PROVE  KnownAfter(t)'
  BY Moved
  DEF Typed, Unshared, Return, SetState, KnownAfter, KnownBusy, fields, mounts, States,
      Resting, Entries, InLoop, OtherPcs, KnownRest, Known, OnTop, KnownOnTop, Onward

LEMMA FormatVolKnown ==
    ASSUME Typed, NEW t \in Threads, FormatVol(t), KnownRest, Onward
    PROVE  KnownAfter(t)'
  BY Moved
  DEF Typed, FormatVol, Return, SetState, KnownAfter, KnownBusy, fields, mounts, Resting,
      Entries, InLoop, OtherPcs, KnownRest, Known, OnTop, KnownOnTop, Onward

LEMMA FormattingKnown ==
    ASSUME Typed, NEW t \in Threads, Formatting(t), KnownBusy(t), Onward
    PROVE  KnownAfter(t)'
  BY Moved
  DEF Typed, Formatting, Return, SetState, KnownAfter, KnownBusy, fields, mounts, States,
      Resting, Entries, InLoop, OtherPcs, KnownRest, Known, OnTop, KnownOnTop, Onward

LEMMA MbrKnown ==
    ASSUME Typed, NEW t \in Threads, Mbr(t), KnownBusy(t), Onward
    PROVE  KnownAfter(t)'
  BY Moved
  DEF Typed, Mbr, Return, SetState, KnownAfter, KnownBusy, fields, mounts, States, Resting,
      Entries, InLoop, OtherPcs, KnownRest, Known, OnTop, KnownOnTop, Onward

LEMMA FormatKnown ==
    ASSUME Typed, NEW t \in Threads, Format(t), KnownBusy(t), Onward
    PROVE  KnownAfter(t)'
  BY Moved
  DEF Typed, Format, Return, SetState, KnownAfter, KnownBusy, fields, mounts, States,
      Resting, Entries, InLoop, OtherPcs, KnownRest, Known, OnTop, KnownOnTop, Onward

LEMMA EntryKnown ==
    ASSUME Typed, NEW t \in Threads, EntryStep(t), KnownRest, Onward
    PROVE  KnownAfter(t)'
  BY MountVolKnown, UnmountVolKnown, ShareVolumeKnown, UnshareVolumeKnown, FormatVolKnown
  DEF EntryStep

LEMMA InnerKnown ==
    ASSUME Typed, NEW t \in Threads, InnerStep(t), KnownBusy(t), Onward
    PROVE  KnownAfter(t)'
  BY RetryKnown, CheckKnown, FsckKnown, StageKnown, BindKnown, TmpfsKnown, MoveKnown,
     MountedKnown, UnmountingKnown, UnpublishKnown, UntmpfsKnown, UnbindKnown,
     UnstageKnown, UnmountedKnown, RebindKnown, RetmpfsKnown, RepublishKnown,
     LunWriteKnown, SharedKnown, LunClearKnown, UnsharedKnown, FormattingKnown, MbrKnown,
     FormatKnown
  DEF InnerStep

KnownGuarded ==
    /\ (\A t \in Threads : Resting(t)) => KnownRest
    /\ \A t \in Threads : ~Resting(t) /\ (\A u \in Threads \ {t} : Resting(u)) => KnownBusy(t)

KnownSafe == ~raced => KnownGuarded

(* While the other thread is at work, one that begins can only change the  *)
(* state to Mounted where something is mounted.                            *)
LEMMA EntryBesidesKnown ==
    ASSUME Typed, KnownGuarded, NEW t \in Threads, NEW u \in Threads \ {t}, ~Resting(u),
           pc'[u] = pc[u], EntryStep(t), Onward
    PROVE  KnownGuarded'
<1>1. \A v \in Threads \ {u} : v = t
  BY DEF Threads
<1>2. /\ Resting(t) /\ UNCHANGED <<mounts, mCurrentlyMountedKdev>> /\ nodes'[u] = nodes[u]
      /\ mState' = mState \/ public # <<>>
  BY DEF EntryStep, MountVol, UnmountVol, ShareVolume, UnshareVolume, FormatVol, Resting,
         Entries,
         fields, Typed, PcTyped
<1>3. KnownBusy(u)
  BY <1>1, <1>2 DEF KnownGuarded
<1>4. KnownBusy(u)' /\ ~Resting(u)'
  BY <1>2, <1>3 DEF mounts, KnownBusy, KnownRest, Known, OnTop, KnownOnTop, Onward, Resting
<1>5. ASSUME NEW v \in Threads, ~Resting(v)', \A w \in Threads \ {v} : Resting(w)'
      PROVE  KnownBusy(v)'
  <2>1. v = u
    BY <1>4, <1>5
  <2> QED BY <1>4, <2>1
<1> QED BY <1>4, <1>5 DEF KnownGuarded

LEMMA ThreadKnown ==
    ASSUME Typed, KnownSafe, Watch, Watched, NEW t \in Threads, EntryStep(t) \/ InnerStep(t)
    PROVE  KnownSafe'
<1> SUFFICES ASSUME ~raced' PROVE KnownGuarded'
  BY DEF KnownSafe
<1>0. leaked \in BOOLEAN /\ Onward
  BY WatchOnward DEF Typed, StateTyped
<1>1. \A u \in Threads \ {t} : pc'[u] = pc[u]
  BY StepsAlone DEF Goto, Typed, PcTyped
<1>2. KnownGuarded
  BY DEF Watch, KnownSafe
<1>3. CASE \A u \in Threads \ {t} : Resting(u)
  <2>1. KnownAfter(t)
    BY <1>2, <1>3 DEF KnownGuarded, KnownAfter
  <2>2. KnownAfter(t)'
    BY <1>0, <2>1, EntryKnown, EntryEnters, InnerKnown, InnerIsAtWork DEF KnownAfter, Enters
  <2>3. \A u \in Threads \ {t} : Resting(u)'
    BY <1>1, <1>3 DEF Resting
  <2> QED BY <2>2, <2>3 DEF KnownAfter, KnownGuarded
<1>4. ASSUME NEW u \in Threads \ {t}, ~Resting(u) PROVE KnownGuarded'
  <2>1. EntryStep(t)
    BY <1>0, <1>4, BothAtWork, InnerIsAtWork
  <2> QED BY <1>0, <1>1, <1>2, <1>4, <2>1, EntryBesidesKnown
<1> QED BY <1>3, <1>4

LEMMA BlockEventKnown ==
    ASSUME Typed, KnownSafe, Watch, Watched, BlockEvent
    PROVE  KnownSafe'
<1> SUFFICES ASSUME ~raced' PROVE KnownGuarded'
  BY DEF KnownSafe
<1>1. pc["netlink"] = "idle" /\ UNCHANGED <<mounts, mCurrentlyMountedKdev>>
  BY DEF BlockEvent, HandleDiskAdded, HandlePartitionAdded, HandleDiskChanged,
         HandleDiskRemoved,
         HandlePartitionRemoved, Handles
<1>2. \A t \in Threads : Resting(t)
  BY <1>1 DEF Watch, AtWork, Resting, Threads
<1>3. KnownRest
  BY <1>2 DEF Watch, KnownSafe, KnownGuarded
<1>4. mState' # "Mounted" \/ mState' = mState
  BY DEF BlockEvent, HandleDiskAdded, HandlePartitionAdded, HandleDiskChanged,
         HandleDiskRemoved,
         HandlePartitionRemoved, SetState
<1>5. KnownRest'
  BY <1>1, <1>3, <1>4, WatchOnward DEF KnownRest, Known, mounts, Onward
<1>6. \A t \in Threads : Resting(t)'
  BY <1>1, <1>2, BlockEventRests
<1> QED BY <1>5, <1>6 DEF KnownGuarded

LEMMA WorldKnown ==
    ASSUME Typed, KnownSafe, Watch, Watched, World
    PROVE  KnownSafe'
<1> SUFFICES ASSUME ~raced' PROVE KnownGuarded'
  BY DEF KnownSafe
<1>1. UNCHANGED <<fields, mounts, nodes>>
  BY DEF World, Plug, Change, Unplug, Request, Quiet
<1>2. KnownGuarded
  BY DEF Watch, KnownSafe
<1>3. pc' = pc \/ (pc["command"] = "idle" /\ \E l \in Entries : Goto("command", l))
  BY DEF World, Plug, Change, Unplug, Request
<1>4. \A t \in Threads : /\ Resting(t)' <=> Resting(t)
                         /\ ~Resting(t) => pc'[t] = pc[t]
  BY <1>3 DEF Goto, Resting, Entries, Threads, Typed, PcTyped
<1>5. KnownRest => KnownRest'
  BY <1>1, WatchOnward DEF KnownRest, Known, mounts, fields, Onward
<1>6. \A t \in Threads : ~Resting(t) /\ KnownBusy(t) => KnownBusy(t)'
  BY <1>1, <1>4, <1>5, WatchOnward DEF KnownBusy, Known, OnTop, KnownOnTop, mounts, fields, Onward
<1> QED BY <1>2, <1>4, <1>5, <1>6 DEF KnownGuarded

LEMMA AlwaysKnown == Spec => []KnownSafe
<1>1. Init => KnownSafe
  BY DEF Init, KnownSafe, KnownGuarded, Resting, KnownRest, Threads
<1>2. Typed /\ Watched /\ KnownSafe /\ [Next]_vars => KnownSafe'
  <2> SUFFICES ASSUME Typed, Watched, KnownSafe, [Next]_vars PROVE KnownSafe'
    OBVIOUS
  <2>1. CASE UNCHANGED vars
    BY <2>1
    DEF vars, fields, mounts, KnownSafe, KnownGuarded, Resting, KnownRest, KnownBusy, Known,
        OnTop, KnownOnTop
  <2>2. CASE Next
    BY <2>2, NextCases, ThreadKnown, BlockEventKnown, WorldKnown
  <2> QED BY <2>1, <2>2
<1> QED BY <1>1, <1>2, AlwaysTyped, AlwaysWatched, PTL DEF Spec

(* A volume at rest in state Mounted is mounted where the framework looks  *)
(* for it, and mCurrentlyMountedKdev is the device that is mounted there,  *)
(* unless a device node was read that getDeviceNodes has not written.      *)
(* Nothing else but a race is an excuse: mountVol refuses to mount over    *)
(* what an earlier one has left, and "fixes" the state instead.            *)
THEOREM MountedIsKnown == Spec => []MountedIsPublished
<1>1. KnownSafe => MountedIsPublished
  <2> SUFFICES ASSUME KnownSafe, mState = "Mounted", AtRest, ~raced
               PROVE  public # <<>> /\ (strayed \/ mCurrentlyMountedKdev = Top(public).dev)
    BY DEF MountedIsPublished
  <2>1. KnownRest
    BY DEF KnownSafe, KnownGuarded, AtRest, Resting
  <2> QED BY <2>1, OneMount DEF KnownRest, Known
<1> QED BY <1>1, AlwaysKnown, PTL
(***************************************************************************)
(* The retry of a mount.                                                   *)
(*                                                                         *)
(* The inductive invariant says where a pending retry can be: in a Pending *)
(* volume whose mount was asked for.  Almost every step moves the state    *)
(* with setState or not at all; Calm says so, and CalmKeepsRetry is all    *)
(* there is to know about such a step.                                     *)
(***************************************************************************)
Kinds ==
    /\ pc = [u \in Threads |-> pc[u]]
    /\ mRetryMount \in BOOLEAN
    /\ asked \in BOOLEAN
    /\ orphan \in BOOLEAN

RetryIsPending == mRetryMount /\ ~orphan => mState = "Pending" /\ asked

RetryInv == Kinds /\ RetryIsPending

(* The state changes through setState, or not; the history is kept.        *)
Calm ==
    /\ asked' = asked
    /\ \/ \E s \in States : SetState(s)
       \/ mState' = mState /\ mRetryMount' = mRetryMount

LEMMA CalmKeepsRetry ==
    ASSUME RetryInv, Calm, Watch
    PROVE  RetryIsPending' /\ mRetryMount' \in BOOLEAN /\ asked' \in BOOLEAN
<1>1. orphan' = \/ orphan
                \/ mRetryMount' /\ mState' = "Idle"
                \/ mRetryMount' /\ ~mRetryMount /\ mState' # "Pending"
  BY DEF Watch
<1>2. CASE mState' = mState /\ mRetryMount' = mRetryMount
  BY <1>1, <1>2 DEF RetryInv, Kinds, RetryIsPending, Calm
<1>3. ASSUME NEW s \in States, SetState(s) PROVE RetryIsPending' /\ mRetryMount' \in BOOLEAN
  <2>1. /\ mState' = s
        /\ mRetryMount' = (mRetryMount /\ (mState = "Pending" => s \in {"Idle", "Pending"}))
    BY <1>3 DEF SetState
  <2>2. ASSUME mRetryMount', ~orphan' PROVE mState' = "Pending" /\ asked'
    <3>1. ~orphan /\ mRetryMount /\ s # "Idle"
      BY <1>1, <2>1, <2>2 DEF RetryInv, Kinds
    <3>2. mState = "Pending" /\ asked
      BY <3>1 DEF RetryInv, RetryIsPending
    <3> QED
      BY <2>1, <2>2, <3>1, <3>2 DEF Calm
  <2>3. mRetryMount' \in BOOLEAN
    BY <2>1 DEF RetryInv, Kinds
  <2> QED
    BY <2>2, <2>3 DEF RetryIsPending
<1> QED
  BY <1>2, <1>3 DEF Calm, RetryInv, Kinds

(* What every step of a thread does to the program counters.               *)
Moves(t) ==
    /\ pc' = [u \in Threads |-> pc'[u]]
    /\ pc[t] # "idle"
    /\ \A u \in Threads \ {t} : pc'[u] = pc[u]

LEMMA MountVolIsCalm ==
    ASSUME Kinds, NEW t \in Threads, MountVol(t)
    PROVE  Calm /\ Moves(t)
<1>1. pc' = [u \in Threads |-> pc'[u]] /\ \A u \in Threads \ {t} : pc'[u] = pc[u]
  BY DEF Kinds, MountVol, Goto, Return
<1>2. Calm
  BY DEF MountVol, Goto, Return, Calm, SetState, States, fields, history
<1> QED
  BY <1>1, <1>2 DEF MountVol, Moves

LEMMA CheckIsCalm ==
    ASSUME Kinds, NEW t \in Threads, Check(t)
    PROVE  Calm /\ Moves(t)
<1>1. pc' = [u \in Threads |-> pc'[u]] /\ \A u \in Threads \ {t} : pc'[u] = pc[u]
  BY DEF Kinds, Check, Goto, Return
<1>2. Calm
  BY DEF Check, Goto, Return, Calm, SetState, States, fields, history
<1> QED
  BY <1>1, <1>2 DEF Check, Moves

LEMMA FsckIsCalm ==
    ASSUME Kinds, NEW t \in Threads, Fsck(t)
    PROVE  Calm /\ Moves(t)
<1>1. pc' = [u \in Threads |-> pc'[u]] /\ \A u \in Threads \ {t} : pc'[u] = pc[u]
  BY DEF Kinds, Fsck, Goto, Return
<1>2. Calm
  BY DEF Fsck, Goto, Return, Calm, SetState, States, fields, history
<1> QED
  BY <1>1, <1>2 DEF Fsck, Moves

LEMMA StageIsCalm ==
    ASSUME Kinds, NEW t \in Threads, Stage(t)
    PROVE  Calm /\ Moves(t)
<1>1. pc' = [u \in Threads |-> pc'[u]] /\ \A u \in Threads \ {t} : pc'[u] = pc[u]
  BY DEF Kinds, Stage, Goto, Return
<1>2. Calm
  BY DEF Stage, Goto, Return, Calm, SetState, States, fields, history
<1> QED
  BY <1>1, <1>2 DEF Stage, Moves

LEMMA BindIsCalm ==
    ASSUME Kinds, NEW t \in Threads, Bind(t)
    PROVE  Calm /\ Moves(t)
<1>1. pc' = [u \in Threads |-> pc'[u]] /\ \A u \in Threads \ {t} : pc'[u] = pc[u]
  BY DEF Kinds, Bind, Goto, Return, AbortMount
<1>2. Calm
  BY DEF Bind, Goto, Return, AbortMount, Calm, SetState, States, fields, history
<1> QED
  BY <1>1, <1>2 DEF Bind, Moves

LEMMA TmpfsIsCalm ==
    ASSUME Kinds, NEW t \in Threads, Tmpfs(t)
    PROVE  Calm /\ Moves(t)
<1>1. pc' = [u \in Threads |-> pc'[u]] /\ \A u \in Threads \ {t} : pc'[u] = pc[u]
  BY DEF Kinds, Tmpfs, Goto, Return, AbortMount
<1>2. Calm
  BY DEF Tmpfs, Goto, Return, AbortMount, Calm, SetState, States, fields, history
<1> QED
  BY <1>1, <1>2 DEF Tmpfs, Moves

LEMMA MoveIsCalm ==
    ASSUME Kinds, NEW t \in Threads, Move(t)
    PROVE  Calm /\ Moves(t)
<1>1. pc' = [u \in Threads |-> pc'[u]] /\ \A u \in Threads \ {t} : pc'[u] = pc[u]
  BY DEF Kinds, Move, Goto, Return, AbortMount
<1>2. Calm
  BY DEF Move, Goto, Return, AbortMount, Calm, SetState, States, fields, history
<1> QED
  BY <1>1, <1>2 DEF Move, Moves

LEMMA MountedIsCalm ==
    ASSUME Kinds, NEW t \in Threads, Mounted(t)
    PROVE  Calm /\ Moves(t)
<1>1. pc' = [u \in Threads |-> pc'[u]] /\ \A u \in Threads \ {t} : pc'[u] = pc[u]
  BY DEF Kinds, Mounted, Goto, Return
<1>2. Calm
  BY DEF Mounted, Goto, Return, Calm, SetState, States, fields, history
<1> QED
  BY <1>1, <1>2 DEF Mounted, Moves

LEMMA UnmountVolIsCalm ==
    ASSUME Kinds, NEW t \in Threads, UnmountVol(t)
    PROVE  Calm /\ Moves(t)
<1>1. pc' = [u \in Threads |-> pc'[u]] /\ \A u \in Threads \ {t} : pc'[u] = pc[u]
  BY DEF Kinds, UnmountVol, Goto, Return
<1>2. Calm
  BY DEF UnmountVol, Goto, Return, Calm, SetState, States, fields, history
<1> QED
  BY <1>1, <1>2 DEF UnmountVol, Moves

LEMMA UnmountingIsCalm ==
    ASSUME Kinds, NEW t \in Threads, Unmounting(t)
    PROVE  Calm /\ Moves(t)
<1>1. pc' = [u \in Threads |-> pc'[u]] /\ \A u \in Threads \ {t} : pc'[u] = pc[u]
  BY DEF Kinds, Unmounting, Goto, Return
<1>2. Calm
  BY DEF Unmounting, Goto, Return, Calm, SetState, States, fields, history
<1> QED
  BY <1>1, <1>2 DEF Unmounting, Moves

LEMMA UnpublishIsCalm ==
    ASSUME Kinds, NEW t \in Threads, Unpublish(t)
    PROVE  Calm /\ Moves(t)
<1>1. pc' = [u \in Threads |-> pc'[u]] /\ \A u \in Threads \ {t} : pc'[u] = pc[u]
  BY DEF Kinds, Unpublish, Goto, Return, GiveUp
<1>2. Calm
  BY DEF Unpublish, Goto, Return, GiveUp, Calm, SetState, States, fields, history
<1> QED
  BY <1>1, <1>2 DEF Unpublish, Moves

LEMMA UntmpfsIsCalm ==
    ASSUME Kinds, NEW t \in Threads, Untmpfs(t)
    PROVE  Calm /\ Moves(t)
<1>1. pc' = [u \in Threads |-> pc'[u]] /\ \A u \in Threads \ {t} : pc'[u] = pc[u]
  BY DEF Kinds, Untmpfs, Goto, Return
<1>2. Calm
  BY DEF Untmpfs, Goto, Return, Calm, SetState, States, fields, history
<1> QED
  BY <1>1, <1>2 DEF Untmpfs, Moves

LEMMA UnbindIsCalm ==
    ASSUME Kinds, NEW t \in Threads, Unbind(t)
    PROVE  Calm /\ Moves(t)
<1>1. pc' = [u \in Threads |-> pc'[u]] /\ \A u \in Threads \ {t} : pc'[u] = pc[u]
  BY DEF Kinds, Unbind, Goto, Return
<1>2. Calm
  BY DEF Unbind, Goto, Return, Calm, SetState, States, fields, history
<1> QED
  BY <1>1, <1>2 DEF Unbind, Moves

LEMMA UnstageIsCalm ==
    ASSUME Kinds, NEW t \in Threads, Unstage(t)
    PROVE  Calm /\ Moves(t)
<1>1. pc' = [u \in Threads |-> pc'[u]] /\ \A u \in Threads \ {t} : pc'[u] = pc[u]
  BY DEF Kinds, Unstage, Goto, Return
<1>2. Calm
  BY DEF Unstage, Goto, Return, Calm, SetState, States, fields, history
<1> QED
  BY <1>1, <1>2 DEF Unstage, Moves

LEMMA UnmountedIsCalm ==
    ASSUME Kinds, NEW t \in Threads, Unmounted(t)
    PROVE  Calm /\ Moves(t)
<1>1. pc' = [u \in Threads |-> pc'[u]] /\ \A u \in Threads \ {t} : pc'[u] = pc[u]
  BY DEF Kinds, Unmounted, Goto, Return
<1>2. Calm
  BY DEF Unmounted, Goto, Return, Calm, SetState, States, fields, history
<1> QED
  BY <1>1, <1>2 DEF Unmounted, Moves

LEMMA RebindIsCalm ==
    ASSUME Kinds, NEW t \in Threads, Rebind(t)
    PROVE  Calm /\ Moves(t)
<1>1. pc' = [u \in Threads |-> pc'[u]] /\ \A u \in Threads \ {t} : pc'[u] = pc[u]
  BY DEF Kinds, Rebind, Goto, Return, GiveUp
<1>2. Calm
  BY DEF Rebind, Goto, Return, GiveUp, Calm, SetState, States, fields, history
<1> QED
  BY <1>1, <1>2 DEF Rebind, Moves

LEMMA RetmpfsIsCalm ==
    ASSUME Kinds, NEW t \in Threads, Retmpfs(t)
    PROVE  Calm /\ Moves(t)
<1>1. pc' = [u \in Threads |-> pc'[u]] /\ \A u \in Threads \ {t} : pc'[u] = pc[u]
  BY DEF Kinds, Retmpfs, Goto, Return, GiveUp
<1>2. Calm
  BY DEF Retmpfs, Goto, Return, GiveUp, Calm, SetState, States, fields, history
<1> QED
  BY <1>1, <1>2 DEF Retmpfs, Moves

LEMMA RepublishIsCalm ==
    ASSUME Kinds, NEW t \in Threads, Republish(t)
    PROVE  Calm /\ Moves(t)
<1>1. pc' = [u \in Threads |-> pc'[u]] /\ \A u \in Threads \ {t} : pc'[u] = pc[u]
  BY DEF Kinds, Republish, Goto, Return, GiveUp
<1>2. Calm
  BY DEF Republish, Goto, Return, GiveUp, Calm, SetState, States, fields, history
<1> QED
  BY <1>1, <1>2 DEF Republish, Moves

LEMMA ShareVolumeIsCalm ==
    ASSUME Kinds, NEW t \in Threads, ShareVolume(t)
    PROVE  Calm /\ Moves(t)
<1>1. pc' = [u \in Threads |-> pc'[u]] /\ \A u \in Threads \ {t} : pc'[u] = pc[u]
  BY DEF Kinds, ShareVolume, Goto, Return
<1>2. Calm
  BY DEF ShareVolume, Goto, Return, Calm, SetState, States, fields, history
<1> QED
  BY <1>1, <1>2 DEF ShareVolume, Moves

LEMMA LunWriteIsCalm ==
    ASSUME Kinds, NEW t \in Threads, LunWrite(t)
    PROVE  Calm /\ Moves(t)
<1>1. pc' = [u \in Threads |-> pc'[u]] /\ \A u \in Threads \ {t} : pc'[u] = pc[u]
  BY DEF Kinds, LunWrite, Goto, Return
<1>2. Calm
  BY DEF LunWrite, Goto, Return, Calm, SetState, States, fields, history
<1> QED
  BY <1>1, <1>2 DEF LunWrite, Moves

LEMMA SharedIsCalm ==
    ASSUME Kinds, NEW t \in Threads, Shared(t)
    PROVE  Calm /\ Moves(t)
<1>1. pc' = [u \in Threads |-> pc'[u]] /\ \A u \in Threads \ {t} : pc'[u] = pc[u]
  BY DEF Kinds, Shared, Goto, Return
<1>2. Calm
  BY DEF Shared, Goto, Return, Calm, SetState, States, fields, history
<1> QED
  BY <1>1, <1>2 DEF Shared, Moves

LEMMA UnshareVolumeIsCalm ==
    ASSUME Kinds, NEW t \in Threads, UnshareVolume(t)
    PROVE  Calm /\ Moves(t)
<1>1. pc' = [u \in Threads |-> pc'[u]] /\ \A u \in Threads \ {t} : pc'[u] = pc[u]
  BY DEF Kinds, UnshareVolume, Goto, Return
<1>2. Calm
  BY DEF UnshareVolume, Goto, Return, Calm, SetState, States, fields, history
<1> QED
  BY <1>1, <1>2 DEF UnshareVolume, Moves

LEMMA LunClearIsCalm ==
    ASSUME Kinds, NEW t \in Threads, LunClear(t)
    PROVE  Calm /\ Moves(t)
<1>1. pc' = [u \in Threads |-> pc'[u]] /\ \A u \in Threads \ {t} : pc'[u] = pc[u]
  BY DEF Kinds, LunClear, Goto, Return
<1>2. Calm
  BY DEF LunClear, Goto, Return, Calm, SetState, States, fields, history
<1> QED
  BY <1>1, <1>2 DEF LunClear, Moves

LEMMA UnsharedIsCalm ==
    ASSUME Kinds, NEW t \in Threads, Unshared(t)
    PROVE  Calm /\ Moves(t)
<1>1. pc' = [u \in Threads |-> pc'[u]] /\ \A u \in Threads \ {t} : pc'[u] = pc[u]
  BY DEF Kinds, Unshared, Goto, Return
<1>2. Calm
  BY DEF Unshared, Goto, Return, Calm, SetState, States, fields, history
<1> QED
  BY <1>1, <1>2 DEF Unshared, Moves

LEMMA FormatVolIsCalm ==
    ASSUME Kinds, NEW t \in Threads, FormatVol(t)
    PROVE  Calm /\ Moves(t)
<1>1. pc' = [u \in Threads |-> pc'[u]] /\ \A u \in Threads \ {t} : pc'[u] = pc[u]
  BY DEF Kinds, FormatVol, Goto, Return
<1>2. Calm
  BY DEF FormatVol, Goto, Return, Calm, SetState, States, fields, history
<1> QED
  BY <1>1, <1>2 DEF FormatVol, Moves

LEMMA FormattingIsCalm ==
    ASSUME Kinds, NEW t \in Threads, Formatting(t)
    PROVE  Calm /\ Moves(t)
<1>1. pc' = [u \in Threads |-> pc'[u]] /\ \A u \in Threads \ {t} : pc'[u] = pc[u]
  BY DEF Kinds, Formatting, Goto, Return
<1>2. Calm
  BY DEF Formatting, Goto, Return, Calm, SetState, States, fields, history
<1> QED
  BY <1>1, <1>2 DEF Formatting, Moves

LEMMA MbrIsCalm ==
    ASSUME Kinds, NEW t \in Threads, Mbr(t)
    PROVE  Calm /\ Moves(t)
<1>1. pc' = [u \in Threads |-> pc'[u]] /\ \A u \in Threads \ {t} : pc'[u] = pc[u]
  BY DEF Kinds, Mbr, Goto, Return
<1>2. Calm
  BY DEF Mbr, Goto, Return, Calm, SetState, States, fields, history
<1> QED
  BY <1>1, <1>2 DEF Mbr, Moves

LEMMA FormatIsCalm ==
    ASSUME Kinds, NEW t \in Threads, Format(t)
    PROVE  Calm /\ Moves(t)
<1>1. pc' = [u \in Threads |-> pc'[u]] /\ \A u \in Threads \ {t} : pc'[u] = pc[u]
  BY DEF Kinds, Format, Goto, Return
<1>2. Calm
  BY DEF Format, Goto, Return, Calm, SetState, States, fields, history
<1> QED
  BY <1>1, <1>2 DEF Format, Moves

(* The conclusion of every lemma on a step: the invariant holds again, and  *)
(* a retry that starts was asked for.                                      *)
Asked == pc["netlink"] = "idle" /\ pc'["netlink"] = "mountVol" => asked \/ orphan

LEMMA CalmStep ==
    ASSUME RetryInv, Watch, Calm, pc' = [u \in Threads |-> pc'[u]], Asked
    PROVE  RetryInv' /\ Asked
<1>1. orphan' \in BOOLEAN
  BY DEF Watch, RetryInv, Kinds
<1> QED
  BY <1>1, CalmKeepsRetry DEF RetryInv, Kinds

LEMMA ThreadMoves ==
    ASSUME NEW t \in Threads, Moves(t)
    PROVE  Asked
BY DEF Moves, Asked, Threads

LEMMA RetryStep ==
    ASSUME RetryInv, Watch, NEW t \in Threads, Retry(t)
    PROVE  RetryInv' /\ Asked
<1>1. orphan' = \/ orphan
                \/ mRetryMount' /\ mState' = "Idle"
                \/ mRetryMount' /\ ~mRetryMount /\ mState' # "Pending"
  BY DEF Watch
<1>2. mRetryMount' = TRUE /\ asked' = TRUE /\ mState' = mState
  BY DEF Retry
<1>3. ASSUME ~orphan' PROVE mState' = "Pending"
  <2>1. CASE mRetryMount
    BY <1>1, <1>2, <1>3, <2>1 DEF RetryInv, RetryIsPending
  <2>2. CASE ~mRetryMount
    BY <1>1, <1>2, <1>3, <2>2
  <2> QED
    BY <2>1, <2>2
<1>4. pc' = [u \in Threads |-> pc'[u]] /\ Moves(t)
  BY DEF RetryInv, Kinds, Retry, Return, Goto, Moves
<1>5. orphan' \in BOOLEAN
  BY <1>1 DEF RetryInv, Kinds
<1> QED
  BY <1>2, <1>3, <1>4, <1>5, ThreadMoves DEF RetryInv, Kinds, RetryIsPending

LEMMA ThreadStepKeeps ==
    ASSUME RetryInv, Watch, NEW t \in Threads,
           ThreadStep(t) \/ FormatVol(t) \/ Formatting(t) \/ Mbr(t) \/ Format(t)
    PROVE  RetryInv' /\ Asked
<1>1. ASSUME Calm, Moves(t) PROVE RetryInv' /\ Asked
  BY <1>1, CalmStep, ThreadMoves DEF Moves
<1>2. CASE MountVol(t)
  BY <1>1, <1>2, MountVolIsCalm DEF RetryInv
<1>3. CASE Check(t)
  BY <1>1, <1>3, CheckIsCalm DEF RetryInv
<1>4. CASE Fsck(t)
  BY <1>1, <1>4, FsckIsCalm DEF RetryInv
<1>5. CASE Stage(t)
  BY <1>1, <1>5, StageIsCalm DEF RetryInv
<1>6. CASE Bind(t)
  BY <1>1, <1>6, BindIsCalm DEF RetryInv
<1>7. CASE Tmpfs(t)
  BY <1>1, <1>7, TmpfsIsCalm DEF RetryInv
<1>8. CASE Move(t)
  BY <1>1, <1>8, MoveIsCalm DEF RetryInv
<1>9. CASE Mounted(t)
  BY <1>1, <1>9, MountedIsCalm DEF RetryInv
<1>10. CASE UnmountVol(t)
  BY <1>1, <1>10, UnmountVolIsCalm DEF RetryInv
<1>11. CASE Unmounting(t)
  BY <1>1, <1>11, UnmountingIsCalm DEF RetryInv
<1>12. CASE Unpublish(t)
  BY <1>1, <1>12, UnpublishIsCalm DEF RetryInv
<1>13. CASE Untmpfs(t)
  BY <1>1, <1>13, UntmpfsIsCalm DEF RetryInv
<1>14. CASE Unbind(t)
  BY <1>1, <1>14, UnbindIsCalm DEF RetryInv
<1>15. CASE Unstage(t)
  BY <1>1, <1>15, UnstageIsCalm DEF RetryInv
<1>16. CASE Unmounted(t)
  BY <1>1, <1>16, UnmountedIsCalm DEF RetryInv
<1>17. CASE Rebind(t)
  BY <1>1, <1>17, RebindIsCalm DEF RetryInv
<1>18. CASE Retmpfs(t)
  BY <1>1, <1>18, RetmpfsIsCalm DEF RetryInv
<1>19. CASE Republish(t)
  BY <1>1, <1>19, RepublishIsCalm DEF RetryInv
<1>20. CASE ShareVolume(t)
  BY <1>1, <1>20, ShareVolumeIsCalm DEF RetryInv
<1>21. CASE LunWrite(t)
  BY <1>1, <1>21, LunWriteIsCalm DEF RetryInv
<1>22. CASE Shared(t)
  BY <1>1, <1>22, SharedIsCalm DEF RetryInv
<1>23. CASE UnshareVolume(t)
  BY <1>1, <1>23, UnshareVolumeIsCalm DEF RetryInv
<1>24. CASE LunClear(t)
  BY <1>1, <1>24, LunClearIsCalm DEF RetryInv
<1>25. CASE Unshared(t)
  BY <1>1, <1>25, UnsharedIsCalm DEF RetryInv
<1>26. CASE FormatVol(t)
  BY <1>1, <1>26, FormatVolIsCalm DEF RetryInv
<1>27. CASE Formatting(t)
  BY <1>1, <1>27, FormattingIsCalm DEF RetryInv
<1>28. CASE Mbr(t)
  BY <1>1, <1>28, MbrIsCalm DEF RetryInv
<1>29. CASE Format(t)
  BY <1>1, <1>29, FormatIsCalm DEF RetryInv
<1>30. CASE Retry(t)
  BY <1>30, RetryStep
<1> QED
  BY <1>2, <1>3, <1>4, <1>5, <1>6, <1>7, <1>8, <1>9, <1>10, <1>11, <1>12, <1>13, <1>14,
     <1>15, <1>16, <1>17, <1>18, <1>19, <1>20, <1>21, <1>22, <1>23, <1>24, <1>25,
     <1>26, <1>27, <1>28, <1>29, <1>30 DEF ThreadStep

LEMMA BlockEventKeeps ==
    ASSUME RetryInv, Watch, BlockEvent
    PROVE  RetryInv' /\ Asked
<1> USE DEF Handles
<1>1. CASE HandleDiskAdded
  <2>1. Calm
    BY <1>1 DEF HandleDiskAdded, Calm, SetState, States
  <2> QED
    BY <1>1, <2>1, CalmStep DEF HandleDiskAdded, RetryInv, Kinds, Asked
<1>2. CASE HandleDiskChanged
  <2>1. Calm
    BY <1>2 DEF HandleDiskChanged, Calm, SetState, States
  <2> QED
    BY <1>2, <2>1, CalmStep DEF HandleDiskChanged, RetryInv, Kinds, Asked
<1>3. CASE HandlePartitionRemoved
  <2>1. Calm
    BY <1>3 DEF HandlePartitionRemoved, Calm
  <2>2. /\ pc' = [u \in Threads |-> pc'[u]]
        /\ pc'["netlink"] \in {"idle", "unmountVol", "unshareVolume"}
    BY <1>3 DEF HandlePartitionRemoved, Goto, RetryInv, Kinds, Threads
  <2>3. Asked
    BY <2>2 DEF Asked
  <2> QED
    BY <2>1, <2>2, <2>3, CalmStep
<1>4. CASE HandleDiskRemoved
  <2>1. /\ mRetryMount' = (mRetryMount /\ mState # "Pending")
        /\ asked' = FALSE /\ pc' = pc
    BY <1>4 DEF HandleDiskRemoved, SetState, RetryInv, Kinds
  <2>2. orphan' \in BOOLEAN /\ (orphan => orphan')
    BY DEF Watch, RetryInv, Kinds
  <2>3. mRetryMount' => orphan'
    BY <2>1, <2>2 DEF RetryInv, RetryIsPending
  <2> QED
    BY <2>1, <2>2, <2>3 DEF RetryInv, Kinds, RetryIsPending, Asked
<1>5. CASE HandlePartitionAdded
  <2>1. CASE mRetryMount' = FALSE /\ asked' = asked
    <3>1. pc' = pc \/ (mRetryMount /\ pc' = [u \in Threads |-> pc'[u]])
      BY <1>5 DEF HandlePartitionAdded, RetryInv, Kinds
    <3>2. orphan' \in BOOLEAN
      BY DEF Watch, RetryInv, Kinds
    <3>3. mRetryMount => asked \/ orphan
      BY DEF RetryInv, RetryIsPending
    <3> QED
      BY <2>1, <3>1, <3>2, <3>3 DEF RetryInv, Kinds, RetryIsPending, Asked
  <2>2. CASE UNCHANGED <<mState, mRetryMount, pc, asked>>
    BY <2>2, CalmStep DEF Calm, RetryInv, Kinds, Asked
  <2>3. UNCHANGED <<mState, mRetryMount, pc, asked>> \/ (mRetryMount' = FALSE /\ asked' = asked)
    BY <1>5 DEF HandlePartitionAdded
  <2> QED
    BY <2>1, <2>2, <2>3
<1> QED
  BY <1>1, <1>2, <1>3, <1>4, <1>5 DEF BlockEvent

LEMMA WorldKeeps ==
    ASSUME RetryInv, Watch, World
    PROVE  RetryInv' /\ Asked
<1>1. Quiet
  BY DEF World, Plug, Change, Unplug, Request
<1>2. Calm
  BY <1>1 DEF Quiet, Calm, fields, history
<1>3. pc' = pc \/ \E entry \in Entries : Goto("command", entry)
  BY DEF World, Plug, Change, Unplug, Request
<1>4. pc' = [u \in Threads |-> pc'[u]] /\ pc'["netlink"] = pc["netlink"]
  BY <1>3 DEF Goto, RetryInv, Kinds, Threads
<1> QED
  BY <1>2, <1>4, CalmStep DEF Asked

LEMMA NextKeeps ==
    ASSUME RetryInv, Next
    PROVE  RetryInv' /\ Asked
<1>1. Watch /\ (CommandStep \/ NetlinkStep \/ World)
  BY DEF Next
<1>2. CASE World
  BY <1>1, <1>2, WorldKeeps
<1>3. CASE CommandStep
  <2>1. "command" \in Threads
    BY DEF Threads
  <2> QED
    BY <1>1, <1>3, <2>1, ThreadStepKeeps DEF CommandStep
<1>4. CASE NetlinkStep
  <2>1. "netlink" \in Threads
    BY DEF Threads
  <2> QED
    BY <1>1, <1>4, <2>1, ThreadStepKeeps, BlockEventKeeps DEF NetlinkStep
<1> QED
  BY <1>1, <1>2, <1>3, <1>4

(* A disk is mounted by a retry only if a mount was asked for since the    *)
(* last disk was removed, or the retry was left behind (orphan): in every  *)
(* behaviour of the two threads, setState included, for disks of up to 31  *)
(* partitions, also when they are more than mountVol has room for.         *)
THEOREM RetriesAreAskedFor == Spec => RetryWasAsked
<1>1. Init => RetryInv
  BY DEF Init, RetryInv, Kinds, RetryIsPending
<1>2. RetryInv /\ [Next]_vars => RetryInv'
  <2> SUFFICES ASSUME RetryInv, [Next]_vars PROVE RetryInv'
    OBVIOUS
  <2>1. CASE Next
    BY <2>1, NextKeeps
  <2>2. CASE UNCHANGED vars
    BY <2>2 DEF vars, fields, history, RetryInv, Kinds, RetryIsPending
  <2> QED
    BY <2>1, <2>2
<1>3. RetryInv /\ [Next]_vars
      => [pc["netlink"] = "idle" /\ pc'["netlink"] = "mountVol" => asked \/ orphan]_vars
  BY NextKeeps DEF Asked
<1> QED
  BY <1>1, <1>2, <1>3, PTL DEF Spec, RetryWasAsked
(***************************************************************************)
(* A disk that is gone is seen to be gone.                                 *)
(*                                                                         *)
(* Its removal is the last event until another disk is plugged in.  When   *)
(* the netlink thread handles it neither thread is at work, and what       *)
(* begins after that finds NoMedia, in which no call does anything.        *)
(***************************************************************************)
Withdrawn == uevents # <<>> /\ Top(uevents).action = "diskRemove"
Forgotten == uevents = <<>> /\ mState = "NoMedia" /\ \A t \in Threads : Resting(t)

Gone == ~plugged /\ ~raced => Withdrawn \/ Forgotten

(* Only formatVol makes events of its own, for a disk that is there.       *)
LEMMA ThreadsMakeNoEvents ==
    ASSUME NEW t \in Threads, EntryStep(t) \/ InnerStep(t)
    PROVE  plugged' = plugged /\ (~plugged => uevents' = uevents)
<1>1. CASE Mbr(t)
  BY <1>1 DEF Mbr, Repartition
<1>2. CASE ~Mbr(t)
  <2>1. UNCHANGED kernel
    BY <1>2
    DEF EntryStep, InnerStep, MountVol, UnmountVol, ShareVolume, UnshareVolume, FormatVol,
        Retry, Check, Fsck, Stage, Bind, Tmpfs, Move, Mounted, Unmounting, Unpublish,
        Untmpfs, Unbind, Unstage, Unmounted, Rebind, Retmpfs, Republish, LunWrite,
        Shared, LunClear, Unshared, Formatting, Format
  <2> QED BY <2>1 DEF kernel
<1> QED BY <1>1, <1>2

(* No call does anything without a medium.                                 *)
LEMMA NoMediaStays ==
    ASSUME PcTyped, NEW t \in Threads, EntryStep(t), mState = "NoMedia"
    PROVE  mState' = "NoMedia" /\ pc'[t] = "idle"
  BY DEF EntryStep, MountVol, UnmountVol, ShareVolume, UnshareVolume, FormatVol, Goto,
         Return, fields, PcTyped

LEMMA ThreadGone ==
    ASSUME Typed, Gone, Watch, NEW t \in Threads, EntryStep(t) \/ InnerStep(t)
    PROVE  Gone'
<1> SUFFICES ASSUME ~plugged', ~raced' PROVE (Withdrawn \/ Forgotten)'
  BY DEF Gone
<1>1. ~plugged /\ ~raced /\ uevents' = uevents
  BY ThreadsMakeNoEvents DEF Watch
<1>2. CASE Withdrawn
  BY <1>1, <1>2 DEF Withdrawn
<1>3. CASE Forgotten
  <2>1. EntryStep(t)
    BY <1>3, InnerIsAtWork DEF Forgotten, Typed, StateTyped
  <2>2. mState' = "NoMedia" /\ pc'[t] = "idle"
    BY <1>3, <2>1, NoMediaStays DEF Forgotten, Typed
  <2>3. \A u \in Threads \ {t} : pc'[u] = pc[u]
    BY StepsAlone DEF Goto, Typed, PcTyped
  <2>4. \A u \in Threads : Resting(u)'
    BY <1>3, <2>2, <2>3 DEF Forgotten, Resting
  <2> QED BY <1>1, <1>3, <2>2, <2>4 DEF Forgotten
<1> QED BY <1>1, <1>2, <1>3 DEF Gone

LEMMA NonEmpty ==
    ASSUME NEW S, NEW s \in Seq(S), s # <<>>
    PROVE  Len(s) # 0
  OBVIOUS

LEMMA LastOfTail ==
    ASSUME NEW S, NEW s \in Seq(S), s # <<>>, Tail(s) # <<>>
    PROVE  Top(Tail(s)) = Top(s)
<1>1. Len(s) \in Nat /\ Len(Tail(s)) = Len(s) - 1 /\ Len(Tail(s)) # 0
  <2>1. Tail(s) \in Seq(S)
    BY HeadTail
  <2>2. Len(Tail(s)) # 0
    BY <2>1, NonEmpty
  <2>3. Len(s) \in Nat /\ Len(Tail(s)) = Len(s) - 1
    OBVIOUS
  <2> QED BY <2>2, <2>3
<1>2. \A i \in 1 .. Len(s) - 1 : Tail(s)[i] = s[i + 1]
  OBVIOUS
<1> QED BY <1>1, <1>2 DEF Top

LEMMA OnlyOne ==
    ASSUME NEW S, NEW s \in Seq(S), s # <<>>, Tail(s) = <<>>
    PROVE  Top(s) = Head(s)
<1> DEFINE t == Tail(s)
<1>1. Len(s) \in Nat /\ Len(t) = Len(s) - 1
  OBVIOUS
<1>2. t = <<>>
  OBVIOUS
<1> HIDE DEF t
<1>3. Len(t) = 0
  BY <1>2
<1>4. Len(s) = 1
  BY <1>1, <1>3
<1> QED BY <1>4 DEF Top

LEMMA BlockEventGone ==
    ASSUME Typed, Gone, Watch, BlockEvent
    PROVE  Gone'
<1> SUFFICES ASSUME ~plugged', ~raced' PROVE (Withdrawn \/ Forgotten)'
  BY DEF Gone
<1>1. /\ pc["netlink"] = "idle" /\ uevents # <<>> /\ uevents' = Tail(uevents)
      /\ plugged' = plugged
  BY DEF BlockEvent, HandleDiskAdded, HandlePartitionAdded, HandleDiskChanged,
         HandleDiskRemoved, HandlePartitionRemoved, Handles
<1>2. Withdrawn /\ \A t \in Threads : Resting(t)
  BY <1>1 DEF Gone, Watch, Forgotten, AtWork, Resting, Threads
<1>3. uevents \in Seq([action : Actions, part : 0..MaxParts, ok : BOOLEAN])
  BY DEF Typed, KernelTyped
<1>4. CASE uevents' # <<>>
  BY <1>1, <1>2, <1>3, <1>4, LastOfTail DEF Withdrawn
<1>5. CASE uevents' = <<>>
  <2>1. Head(uevents).action = "diskRemove"
    BY <1>1, <1>2, <1>3, <1>5, OnlyOne DEF Withdrawn
  <2>2. HandleDiskRemoved
    BY <2>1 DEF BlockEvent, HandleDiskAdded, HandlePartitionAdded, HandleDiskChanged,
                HandlePartitionRemoved, Handles
  <2>3. mState' = "NoMedia"
    BY <2>2 DEF HandleDiskRemoved, SetState
  <2>4. \A t \in Threads : Resting(t)'
    BY <1>1, <1>2, BlockEventRests
  <2> QED BY <1>5, <2>3, <2>4 DEF Forgotten
<1> QED BY <1>4, <1>5

LEMMA WorldGone ==
    ASSUME Typed, Typed', Gone, Watch, World
    PROVE  Gone'
<1> SUFFICES ASSUME ~plugged', ~raced' PROVE (Withdrawn \/ Forgotten)'
  BY DEF Gone
<1>1. CASE Unplug
  <2> DEFINE E == [action : Actions, part : 0..MaxParts, ok : BOOLEAN]
             pulled == uevents \o Withdraw
             last == [action |-> "diskRemove", part |-> 0, ok |-> TRUE]
  <2>1. uevents' = pulled \o <<last>>
    BY <1>1 DEF Unplug, DiskEvent
  <2>2. pulled \in Seq(E)
    BY ConcatTyped, WithdrawTyped DEF Typed, KernelTyped
  <2>3. last \in E
    BY PartsAssumption DEF Actions
  <2> HIDE DEF pulled, last, E
  <2>4. pulled \o <<last>> = Append(pulled, last)
    BY <2>2, <2>3
  <2>5. Append(pulled, last) # <<>> /\ Top(Append(pulled, last)) = last
    <3>1. Len(Append(pulled, last)) = Len(pulled) + 1 /\ Len(pulled) \in Nat
          /\ Append(pulled, last)[Len(pulled) + 1] = last
      BY <2>2, <2>3
    <3>2. Append(pulled, last) # <<>>
      <4>1. Len(<<>>) = 0 /\ \A n \in Nat : n + 1 # 0
        OBVIOUS
      <4> QED BY <3>1, <4>1
    <3> QED BY <3>1, <3>2 DEF Top
  <2>6. last.action = "diskRemove"
    BY DEF last
  <2>7. uevents' # <<>> /\ Top(uevents') = last
    BY <2>1, <2>4, <2>5
  <2>8. Withdrawn'
    BY <2>6, <2>7 DEF Withdrawn
  <2> QED BY <2>8
<1>2. CASE Request
  <2>1. ~plugged /\ ~raced /\ uevents' = uevents /\ mState' = mState
        /\ \E l \in Entries : Goto("command", l)
    BY <1>2 DEF Request, Quiet, kernel, fields, Watch
  <2>2. \A t \in Threads : Resting(t) => Resting(t)'
    BY <2>1 DEF Goto, Resting, Threads, Typed, PcTyped
  <2> QED BY <2>1, <2>2 DEF Gone, Withdrawn, Forgotten
<1>3. CASE \E n \in 0..MaxParts : \E bad \in 0..n : Plug(n, bad) \/ Change(n, bad)
  <2>1. plugged'
    BY <1>3 DEF Plug, Change, Repartition
  <2> QED BY <2>1
<1> QED BY <1>1, <1>2, <1>3 DEF World

(* When all events are handled and no call is at work a disk that is gone  *)
(* leaves the volume in NoMedia, in whatever state it was removed: nothing *)
(* that the framework asks for later brings it back to life.               *)
THEOREM RemovalIsSeen == Spec => []GoneIsSeen
<1>1. Init => Gone
  BY DEF Init, Gone, Forgotten, Resting, Threads
<1>2. Typed /\ Typed' /\ Gone /\ [Next]_vars => Gone'
  <2> SUFFICES ASSUME Typed, Typed', Gone, [Next]_vars PROVE Gone'
    OBVIOUS
  <2>1. CASE UNCHANGED vars
    BY <2>1 DEF vars, fields, kernel, Gone, Withdrawn, Forgotten, Resting
  <2>2. CASE Next
    BY <2>2, NextCases, ThreadGone, BlockEventGone, WorldGone
  <2> QED BY <2>1, <2>2
<1>3. Gone => GoneIsSeen
  BY DEF Gone, Withdrawn, Forgotten, GoneIsSeen
<1> QED BY <1>1, <1>2, <1>3, AlwaysTyped, PTL DEF Spec
(***************************************************************************)
(* An unmount that fails puts everything back, on primary storage.         *)
(*                                                                         *)
(* A volume that is published is sealed: the secure directory on top is    *)
(* its own and a tmpfs hides it.  The steps of unmountVol take this apart  *)
(* in an order that its failure handling goes back, label by label, and    *)
(* the place of the thread says how far it has come from before.           *)
(***************************************************************************)
SealedTop ==
    public # <<>> => asec # <<>> /\ Top(asec) = Top(public).dev /\ Top(public).tmpfs # 0

(* The mounts when unmountVol began: m is published, d is the stack of     *)
(* secure directories.                                                     *)
Began(s, m, d) ==
    /\ before = <<s, <<m>>, d>>
    /\ m.tmpfs # 0
    /\ d # <<>> /\ Top(d) = m.dev

Bare(m) == [dev |-> m.dev, tmpfs |-> m.tmpfs - 1]
MountsAre(s, p, d) == staging = s /\ public = p /\ asec = d

Taken(s, m, d, staged, dir) == Began(s, m, d) /\ MountsAre(Append(s, staged), <<>>, dir)

Hidden == \E s \in Seq(Mounts), m \in Mounts, d \in Seq(Devices) : Taken(s, m, d, m, d)
Bound ==
    \E s \in Seq(Mounts), m \in Mounts, d \in Seq(Devices) : Taken(s, m, d, Bare(m), d)
Unbound ==
    \E s \in Seq(Mounts), m \in Mounts, d \in Seq(Devices) :
        Taken(s, m, d, Bare(m), Pop(d))

SealBusy(t) ==
    LET at(labels) == pc[t] \in labels IN
    /\ at({"retry", "mounted"} \union OtherPcs) => SealedTop
    /\ at({"tmpfs", "move"}) => asec # <<>> /\ Top(asec) = Head(nodes[t]).dev
    /\ at({"move"}) => Top(staging).tmpfs # 0
    /\ at({"unmounting", "unpublish"}) => SealedTop /\ before = mounts
    /\ at({"untmpfs", "republish"}) => Hidden
    /\ at({"unbind", "retmpfs"}) => Bound
    /\ at({"unstage", "rebind"}) => Unbound

SealAfter(t) == IF Resting(t) THEN SealedTop ELSE SealBusy(t)

LEMMA Push ==
    ASSUME NEW S, NEW s \in Seq(S), NEW x \in S
    PROVE  Append(s, x) # <<>> /\ Top(Append(s, x)) = x /\ Pop(Append(s, x)) = s
<1> DEFINE r == Append(s, x)
<1>1. r \in Seq(S) /\ Len(r) = Len(s) + 1 /\ Len(s) \in Nat /\ r[Len(s) + 1] = x
  OBVIOUS
<1>2. \A i \in 1..Len(s) : r[i] = s[i]
  OBVIOUS
<1> HIDE DEF r
<1>3. r # <<>>
  <2>1. Len(<<>>) = 0 /\ \A n \in Nat : n + 1 # 0
    OBVIOUS
  <2> QED BY <1>1, <2>1
<1>4. Top(r) = x
  BY <1>1 DEF Top
<1>5. Pop(r) = s
  <2>1. Pop(r) = SubSeq(r, 1, Len(s))
    BY <1>1 DEF Pop
  <2>2. SubSeq(r, 1, Len(s)) = s
    BY <1>1, <1>2
  <2> QED BY <2>1, <2>2
<1> QED BY <1>3, <1>4, <1>5 DEF r

LEMMA PushBack ==
    ASSUME NEW S, NEW s \in Seq(S), s # <<>>
    PROVE  Append(Pop(s), Top(s)) = s
<1>1. Len(s) \in Nat /\ Len(s) # 0 /\ DOMAIN s = 1..Len(s)
  BY NonEmpty
<1>2. Pop(s) \in Seq(S) /\ Top(s) \in S
  BY TopPop
<1>3. Len(Pop(s)) = Len(s) - 1 /\ \A i \in 1 .. Len(s) - 1 : Pop(s)[i] = s[i]
  BY <1>1 DEF Pop
<1>4. Top(s) = s[Len(s)]
  BY DEF Top
<1> DEFINE p == Pop(s)
           x == Top(s)
           r == Append(p, x)
<1> HIDE DEF p, x
<1>5. /\ r \in Seq(S) /\ Len(r) = Len(p) + 1 /\ r[Len(p) + 1] = x
      /\ \A i \in 1..Len(p) : r[i] = p[i]
  BY <1>2 DEF p, x
<1>6. Len(p) = Len(s) - 1 /\ x = s[Len(s)] /\ \A i \in 1 .. Len(s) - 1 : p[i] = s[i]
  BY <1>3, <1>4 DEF p, x
<1> HIDE DEF r
<1>7. Len(r) = Len(s) /\ \A i \in 1..Len(s) : r[i] = s[i]
  BY <1>1, <1>5, <1>6
<1>8. r = s
  BY <1>5, <1>7
<1> QED BY <1>8 DEF r, p, x

LEMMA BareMount ==
    ASSUME NEW m \in Mounts, m.tmpfs # 0
    PROVE  /\ Bare(m) \in Mounts /\ m.tmpfs \in Nat /\ m.tmpfs > 0
           /\ [dev |-> m.dev, tmpfs |-> m.tmpfs - 1] = Bare(m)
           /\ Bare(m).dev = m.dev
           /\ [dev |-> Bare(m).dev, tmpfs |-> Bare(m).tmpfs + 1] = m
<1>1. m.tmpfs \in Nat /\ m.dev \in Devices /\ m = [dev |-> m.dev, tmpfs |-> m.tmpfs]
  BY DEF Mounts
<1>2. m.tmpfs > 0 /\ m.tmpfs - 1 \in Nat /\ m.tmpfs - 1 + 1 = m.tmpfs
  BY <1>1
<1>3. Bare(m) \in Mounts /\ Bare(m).dev = m.dev /\ Bare(m).tmpfs = m.tmpfs - 1
  BY <1>1, <1>2 DEF Bare, Mounts
<1>4. [dev |-> Bare(m).dev, tmpfs |-> Bare(m).tmpfs + 1] = [dev |-> m.dev, tmpfs |-> m.tmpfs]
  BY <1>2, <1>3
<1> QED BY <1>1, <1>2, <1>3, <1>4 DEF Bare

(* Steps that neither mount nor unmount anything.                          *)
LEMMA PlainSeal ==
    ASSUME Typed, NEW t \in Threads, SealBusy(t), KnownBusy(t),
           \/ Retry(t) \/ Mounted(t) \/ LunWrite(t) \/ Shared(t) \/ LunClear(t)
           \/ Unshared(t) \/ Formatting(t) \/ Mbr(t) \/ Format(t)
    PROVE  SealAfter(t)'
<1>1. SealedTop
  BY DEF Retry, Mounted, LunWrite, Shared, LunClear, Unshared, Formatting, Mbr, Format,
         OtherPcs, SealBusy
<1>2. UNCHANGED mounts
  BY DEF Retry, Mounted, LunWrite, Shared, LunClear, Unshared, Formatting, Mbr, Format
<1>3. \E l \in {"idle"} \union OtherPcs : Goto(t, l)
  BY DEF Retry, Mounted, LunWrite, Shared, LunClear, Unshared, Formatting, Mbr, Format,
         OtherPcs, Return
<1>4. pc'[t] \in {"idle"} \union OtherPcs
  BY <1>3, Moved DEF Typed
<1>5. SealedTop'
  BY <1>1, <1>2 DEF SealedTop, mounts
<1> QED BY <1>4, <1>5 DEF SealAfter, SealBusy, Resting, Entries, OtherPcs

(* Steps of mountVol before anything is mounted, and the end of unmountVol. *)
LEMMA BareSeal ==
    ASSUME Primary, Typed, NEW t \in Threads, SealBusy(t), KnownBusy(t),
           Check(t) \/ Fsck(t) \/ Stage(t) \/ Unmounted(t)
    PROVE  SealAfter(t)'
<1>1. public = <<>>
  BY DEF KnownBusy, Check, Fsck, Stage, Unmounted
<1>2. public' = public
  BY DEF Check, Fsck, Stage, Unmounted, mounts
<1>3. \E l \in {"idle", "check", "fsck", "stage", "bind"} : Goto(t, l)
  BY DEF Check, Fsck, Stage, Unmounted, Return
<1>4. pc'[t] \in {"idle", "check", "fsck", "stage", "bind"}
  BY <1>3, Moved DEF Typed
<1>5. SealedTop'
  BY <1>1, <1>2 DEF SealedTop
<1> QED BY <1>4, <1>5 DEF SealAfter, SealBusy, Resting, Entries, OtherPcs

LEMMA AbortSeal ==
    ASSUME Typed, NEW t \in Threads, OnTop(Head(nodes[t]).dev), AbortMount(t)
    PROVE  SealAfter(t)'
<1>1. pc'[t] = "idle" /\ public' = <<>>
  BY Moved DEF AbortMount, Return, OnTop, Typed
<1> QED BY <1>1 DEF SealAfter, SealedTop, Resting

LEMMA BindSeal ==
    ASSUME Typed, NEW t \in Threads, Bind(t), KnownBusy(t)
    PROVE  SealAfter(t)'
<1>1. OnTop(Head(nodes[t]).dev)
  BY DEF Bind, KnownBusy
<1>2. CASE ~AbortMount(t)
  <2>1. asec' = Append(asec, Top(staging).dev) /\ nodes' = nodes /\ Goto(t, "tmpfs")
    BY <1>2 DEF Bind
  <2>2. Top(staging).dev = Head(nodes[t]).dev /\ Head(nodes[t]).dev \in Devices
    BY <1>1, NodeTyped DEF OnTop, Typed, Bind, InLoop
  <2>3. asec' # <<>> /\ Top(asec') = Head(nodes'[t]).dev
    BY <2>1, <2>2, Push DEF Typed, MountsTyped
  <2>4. pc'[t] = "tmpfs"
    BY <2>1, Moved DEF Typed
  <2> QED BY <2>3, <2>4 DEF SealAfter, SealBusy, Resting, Entries, OtherPcs
<1> QED BY <1>1, <1>2, AbortSeal

LEMMA TmpfsSeal ==
    ASSUME Typed, NEW t \in Threads, Tmpfs(t), SealBusy(t), KnownBusy(t)
    PROVE  SealAfter(t)'
<1>1. OnTop(Head(nodes[t]).dev) /\ asec # <<>> /\ Top(asec) = Head(nodes[t]).dev
  BY DEF Tmpfs, KnownBusy, SealBusy
<1>2. CASE ~AbortMount(t)
  <2> DEFINE n == Top(staging).tmpfs + 1
             m == [dev |-> Top(staging).dev, tmpfs |-> n]
  <2>1. staging' = Append(Pop(staging), m) /\ asec' = asec /\ nodes' = nodes /\ Goto(t, "move")
    BY <1>2 DEF Tmpfs, WithTmpfs
  <2>2. Top(staging) \in Mounts /\ Pop(staging) \in Seq(Mounts)
    BY <1>1, TopPop DEF OnTop, Typed, MountsTyped
  <2>3. n \in Nat /\ n # 0 /\ m \in Mounts
    BY <2>2 DEF Mounts
  <2>4. Top(staging').tmpfs # 0
    BY <2>1, <2>2, <2>3, Push
  <2>5. pc'[t] = "move"
    BY <2>1, Moved DEF Typed
  <2> QED BY <1>1, <2>1, <2>4, <2>5 DEF SealAfter, SealBusy, Resting, Entries, OtherPcs
<1> QED BY <1>1, <1>2, AbortSeal

LEMMA MoveSeal ==
    ASSUME Typed, NEW t \in Threads, Move(t), SealBusy(t), KnownBusy(t)
    PROVE  SealAfter(t)'
<1>1. /\ OnTop(Head(nodes[t]).dev) /\ asec # <<>> /\ Top(asec) = Head(nodes[t]).dev
      /\ Top(staging).tmpfs # 0
  BY DEF Move, KnownBusy, SealBusy
<1>2. CASE ~AbortMount(t)
  <2>1. public' = Append(public, Top(staging)) /\ asec' = asec /\ Goto(t, "mounted")
    BY <1>2 DEF Move
  <2>2. Top(staging) \in Mounts
    BY <1>1, TopPop DEF OnTop, Typed, MountsTyped
  <2>3. Top(public') = Top(staging)
    BY <2>1, <2>2, Push DEF Typed, MountsTyped
  <2>4. SealedTop'
    BY <1>1, <2>1, <2>3 DEF SealedTop, OnTop
  <2>5. pc'[t] = "mounted"
    BY <2>1, Moved DEF Typed
  <2> QED BY <2>4, <2>5 DEF SealAfter, SealBusy, Resting, Entries, OtherPcs
<1> QED BY <1>1, <1>2, AbortSeal

LEMMA GiveUpSeal ==
    ASSUME Typed, NEW t \in Threads, NEW s, public = <<>>, GiveUp(t, s)
    PROVE  SealAfter(t)'
<1>1. pc'[t] = "idle" /\ public' = <<>>
  BY Moved DEF GiveUp, Return, mounts, Typed
<1> QED BY <1>1 DEF SealAfter, SealedTop, Resting

LEMMA UnmountingSeal ==
    ASSUME Typed, NEW t \in Threads, Unmounting(t), SealBusy(t)
    PROVE  SealAfter(t)'
<1>1. SealedTop /\ before = mounts
  BY DEF Unmounting, SealBusy
<1>2. UNCHANGED <<mounts, before>> /\ pc'[t] = "unpublish"
  BY Moved DEF Unmounting, history, Typed
<1> QED BY <1>1, <1>2
        DEF SealAfter, SealBusy, SealedTop, mounts, Resting, Entries, OtherPcs

LEMMA UnpublishSeal ==
    ASSUME Primary, Typed, NEW t \in Threads, Unpublish(t), SealBusy(t), KnownBusy(t)
    PROVE  SealAfter(t)'
<1>1. SealedTop /\ before = mounts
  BY DEF Unpublish, SealBusy
<1>2. PICK m \in Mounts : public = <<m>>
  BY DEF Unpublish, KnownBusy, Known
<1>3. asec # <<>> /\ Top(asec) = m.dev /\ m.tmpfs # 0
  BY <1>1, <1>2, OneMount DEF SealedTop
<1>4. CASE GiveUp(t, "Mounted")
  <2>1. UNCHANGED mounts /\ pc'[t] = "idle"
    BY <1>4, Moved DEF GiveUp, Return, Typed
  <2> QED BY <1>1, <2>1 DEF SealAfter, SealedTop, mounts, Resting
<1>5. CASE ~GiveUp(t, "Mounted")
  <2>1. /\ staging' = Append(staging, m) /\ public' = <<>> /\ asec' = asec
        /\ before' = before /\ Goto(t, "untmpfs")
    BY <1>2, <1>5, OneMount DEF Unpublish, history
  <2>2. PICK s \in Seq(Mounts), d \in Seq(Devices) : s = staging /\ d = asec
    BY DEF Typed, MountsTyped
  <2>3. Taken(s, m, d, m, d)'
    BY <1>1, <1>2, <1>3, <2>1, <2>2 DEF Taken, Began, MountsAre, mounts
  <2>4. Hidden'
    BY <2>3 DEF Hidden
  <2>5. pc'[t] = "untmpfs"
    BY <2>1, Moved DEF Typed
  <2> QED BY <2>4, <2>5 DEF SealAfter, SealBusy, Resting, Entries, OtherPcs
<1> QED BY <1>4, <1>5

LEMMA UntmpfsSeal ==
    ASSUME Typed, NEW t \in Threads, Untmpfs(t), SealBusy(t)
    PROVE  SealAfter(t)'
<1>1. PICK s \in Seq(Mounts), m \in Mounts, d \in Seq(Devices) : Taken(s, m, d, m, d)
  BY DEF Untmpfs, SealBusy, Hidden
<1>2. /\ staging = Append(s, m) /\ public = <<>> /\ asec = d /\ m.tmpfs # 0
      /\ UNCHANGED <<public, asec, before>>
  BY <1>1 DEF Taken, Began, MountsAre, Untmpfs, history
<1>3. staging # <<>> /\ Top(staging) = m /\ Pop(staging) = s
  BY <1>2, Push
<1>4. CASE Goto(t, "republish") /\ UNCHANGED staging
  <2>1. Taken(s, m, d, m, d)'
    BY <1>1, <1>2, <1>4 DEF Taken, Began, MountsAre
  <2>2. Hidden' /\ pc'[t] = "republish"
    BY <1>4, <2>1, Moved DEF Hidden, Typed
  <2> QED BY <2>2 DEF SealAfter, SealBusy, Resting, Entries, OtherPcs
<1>5. CASE /\ staging' = IF staging # <<>> /\ Top(staging).tmpfs > 0
                         THEN WithTmpfs(staging, Top(staging).tmpfs - 1) ELSE staging
           /\ Goto(t, "unbind")
  <2>1. staging' = Append(s, Bare(m))
    BY <1>2, <1>3, <1>5, BareMount DEF WithTmpfs
  <2>2. Taken(s, m, d, Bare(m), d)'
    BY <1>1, <1>2, <2>1 DEF Taken, Began, MountsAre
  <2>3. Bound' /\ pc'[t] = "unbind"
    BY <1>5, <2>2, Moved DEF Bound, Typed
  <2> QED BY <2>3 DEF SealAfter, SealBusy, Resting, Entries, OtherPcs
<1> QED BY <1>4, <1>5 DEF Untmpfs

LEMMA UnbindSeal ==
    ASSUME Typed, NEW t \in Threads, Unbind(t), SealBusy(t)
    PROVE  SealAfter(t)'
<1>1. PICK s \in Seq(Mounts), m \in Mounts, d \in Seq(Devices) : Taken(s, m, d, Bare(m), d)
  BY DEF Unbind, SealBusy, Bound
<1>2. asec = d /\ d # <<>> /\ UNCHANGED <<staging, public, before>>
  BY <1>1 DEF Taken, Began, MountsAre, Unbind, history
<1>3. CASE Goto(t, "retmpfs") /\ UNCHANGED asec
  <2>1. Taken(s, m, d, Bare(m), d)'
    BY <1>1, <1>2, <1>3 DEF Taken, Began, MountsAre
  <2>2. Bound' /\ pc'[t] = "retmpfs"
    BY <1>3, <2>1, Moved DEF Bound, Typed
  <2> QED BY <2>2 DEF SealAfter, SealBusy, Resting, Entries, OtherPcs
<1>4. CASE asec' = Pop(asec) /\ Goto(t, "unstage")
  <2>1. Taken(s, m, d, Bare(m), Pop(d))'
    BY <1>1, <1>2, <1>4 DEF Taken, Began, MountsAre
  <2>2. Unbound' /\ pc'[t] = "unstage"
    BY <1>4, <2>1, Moved DEF Unbound, Typed
  <2> QED BY <2>2 DEF SealAfter, SealBusy, Resting, Entries, OtherPcs
<1> QED BY <1>2, <1>3, <1>4 DEF Unbind

LEMMA UnstageSeal ==
    ASSUME Typed, NEW t \in Threads, Unstage(t), SealBusy(t)
    PROVE  SealAfter(t)'
<1>1. CASE Goto(t, "rebind") /\ UNCHANGED staging
  <2>1. Unbound /\ UNCHANGED <<mounts, before>>
    BY <1>1 DEF Unstage, SealBusy, mounts, history
  <2>2. Unbound'
    BY <2>1 DEF Unbound, Taken, Began, MountsAre, mounts
  <2>3. pc'[t] = "rebind"
    BY <1>1, Moved DEF Typed
  <2> QED BY <2>2, <2>3 DEF SealAfter, SealBusy, Resting, Entries, OtherPcs
<1>2. CASE Goto(t, "unmounted")
  <2>1. pc'[t] = "unmounted"
    BY <1>2, Moved DEF Typed
  <2> QED BY <2>1 DEF SealAfter, SealBusy, Resting, Entries, OtherPcs
<1> QED BY <1>1, <1>2 DEF Unstage

LEMMA RebindSeal ==
    ASSUME Typed, NEW t \in Threads, Rebind(t), SealBusy(t)
    PROVE  SealAfter(t)'
<1>1. PICK s \in Seq(Mounts), m \in Mounts, d \in Seq(Devices) :
          Taken(s, m, d, Bare(m), Pop(d))
  BY DEF Rebind, SealBusy, Unbound
<1>2. /\ staging = Append(s, Bare(m)) /\ public = <<>> /\ asec = Pop(d)
      /\ d # <<>> /\ Top(d) = m.dev /\ m.tmpfs # 0
  BY <1>1 DEF Taken, Began, MountsAre
<1>3. CASE GiveUp(t, "NoMedia")
  BY <1>2, <1>3, GiveUpSeal
<1>4. CASE ~GiveUp(t, "NoMedia")
  <2>1. /\ asec' = Append(asec, Top(staging).dev) /\ Goto(t, "retmpfs")
        /\ UNCHANGED <<staging, public, before>>
    BY <1>4 DEF Rebind, history
  <2>2. Top(staging).dev = m.dev
    BY <1>2, BareMount, Push
  <2>3. asec' = d
    BY <1>2, <2>1, <2>2, PushBack
  <2>4. Taken(s, m, d, Bare(m), d)'
    BY <1>1, <2>1, <2>3 DEF Taken, Began, MountsAre
  <2>5. Bound' /\ pc'[t] = "retmpfs"
    BY <2>1, <2>4, Moved DEF Bound, Typed
  <2> QED BY <2>5 DEF SealAfter, SealBusy, Resting, Entries, OtherPcs
<1> QED BY <1>3, <1>4

LEMMA RetmpfsSeal ==
    ASSUME Typed, NEW t \in Threads, Retmpfs(t), SealBusy(t)
    PROVE  SealAfter(t)'
<1>1. PICK s \in Seq(Mounts), m \in Mounts, d \in Seq(Devices) : Taken(s, m, d, Bare(m), d)
  BY DEF Retmpfs, SealBusy, Bound
<1>2. staging = Append(s, Bare(m)) /\ public = <<>> /\ asec = d /\ m.tmpfs # 0
  BY <1>1 DEF Taken, Began, MountsAre
<1>3. CASE GiveUp(t, "NoMedia")
  BY <1>2, <1>3, GiveUpSeal
<1>4. CASE ~GiveUp(t, "NoMedia")
  <2>1. /\ staging' = WithTmpfs(staging, Top(staging).tmpfs + 1) /\ Goto(t, "republish")
        /\ UNCHANGED <<public, asec, before>>
    BY <1>4 DEF Retmpfs, history
  <2>2. Top(staging) = Bare(m) /\ Pop(staging) = s
    BY <1>2, BareMount, Push
  <2>3. staging' = Append(s, m)
    BY <1>2, <2>1, <2>2, BareMount DEF WithTmpfs
  <2>4. Taken(s, m, d, m, d)'
    BY <1>1, <2>1, <2>3 DEF Taken, Began, MountsAre
  <2>5. Hidden' /\ pc'[t] = "republish"
    BY <2>1, <2>4, Moved DEF Hidden, Typed
  <2> QED BY <2>5 DEF SealAfter, SealBusy, Resting, Entries, OtherPcs
<1> QED BY <1>3, <1>4

(* The last label puts the file system back where it was found.            *)
LEMMA RepublishSeal ==
    ASSUME Typed, NEW t \in Threads, Republish(t), SealBusy(t)
    PROVE  /\ SealAfter(t)'
           /\ ~refused' => mState' = "Mounted" /\ mounts' = before
<1>1. PICK s \in Seq(Mounts), m \in Mounts, d \in Seq(Devices) : Taken(s, m, d, m, d)
  BY DEF Republish, SealBusy, Hidden
<1>2. /\ staging = Append(s, m) /\ public = <<>> /\ asec = d /\ before = <<s, <<m>>, d>>
      /\ d # <<>> /\ Top(d) = m.dev /\ m.tmpfs # 0
  BY <1>1 DEF Taken, Began, MountsAre
<1>3. CASE GiveUp(t, "NoMedia") /\ refused' = TRUE
  BY <1>2, <1>3, GiveUpSeal
<1>4. CASE ~(GiveUp(t, "NoMedia") /\ refused' = TRUE)
  <2>1. /\ public' = Append(public, Top(staging)) /\ staging' = Pop(staging) /\ asec' = asec
        /\ mState' = "Mounted" /\ Return(t)
    BY <1>4 DEF Republish, SetState
  <2>2. Top(staging) = m /\ Pop(staging) = s
    BY <1>2, Push
  <2>3. public' = <<m>> /\ staging' = s /\ asec' = d
    BY <1>2, <2>1, <2>2, OneMount
  <2>4. SealedTop'
    BY <1>2, <2>3, OneMount DEF SealedTop
  <2>5. pc'[t] = "idle"
    BY <2>1, Moved DEF Return, Typed
  <2>6. mounts' = before
    BY <1>2, <2>3 DEF mounts
  <2> QED BY <2>1, <2>4, <2>5, <2>6 DEF SealAfter, Resting
<1> QED BY <1>3, <1>4

LEMMA EntrySeal ==
    ASSUME Typed, NEW t \in Threads, EntryStep(t), SealedTop
    PROVE  SealAfter(t)'
<1>1. UNCHANGED mounts
  BY DEF EntryStep, MountVol, UnmountVol, ShareVolume, UnshareVolume, FormatVol
<1>2. SealedTop'
  BY <1>1 DEF SealedTop, mounts
<1>3. CASE Goto(t, "unmounting") /\ before' = mounts
  <2>1. pc'[t] = "unmounting" /\ before' = mounts'
    BY <1>1, <1>3, Moved DEF Typed
  <2> QED BY <1>2, <2>1 DEF SealAfter, SealBusy, Resting, Entries, OtherPcs, mounts
<1>4. CASE \E l \in {"idle", "retry", "check"} \union OtherPcs : Goto(t, l)
  <2>1. pc'[t] \in {"idle", "retry", "check"} \union OtherPcs
    BY <1>4, Moved DEF Typed
  <2> QED BY <1>2, <2>1 DEF SealAfter, SealBusy, Resting, Entries, OtherPcs
<1> QED BY <1>3, <1>4
        DEF EntryStep, MountVol, UnmountVol, ShareVolume, UnshareVolume, FormatVol, Return,
            OtherPcs

LEMMA InnerSeal ==
    ASSUME Primary, Typed, NEW t \in Threads, InnerStep(t), SealBusy(t), KnownBusy(t)
    PROVE  SealAfter(t)'
  BY PlainSeal, BareSeal, BindSeal, TmpfsSeal, MoveSeal, UnmountingSeal, UnpublishSeal,
     UntmpfsSeal, UnbindSeal, UnstageSeal, RebindSeal, RetmpfsSeal, RepublishSeal
  DEF InnerStep

SealGuarded ==
    /\ (\A t \in Threads : Resting(t)) => SealedTop
    /\ \A t \in Threads : ~Resting(t) /\ (\A u \in Threads \ {t} : Resting(u)) => SealBusy(t)

SealSafe == ~raced => SealGuarded

(* One that begins while the other is at work touches no mount, and is at  *)
(* work itself if it is an unmountVol that writes down what it found.      *)
LEMMA EntryBesidesSeal ==
    ASSUME Typed, SealGuarded, NEW t \in Threads, NEW u \in Threads \ {t}, ~Resting(u),
           pc'[u] = pc[u], EntryStep(t)
    PROVE  SealGuarded'
<1>1. \A v \in Threads \ {u} : v = t
  BY DEF Threads
<1>2. Resting(t) /\ UNCHANGED mounts /\ nodes'[u] = nodes[u]
  BY DEF EntryStep, MountVol, UnmountVol, ShareVolume, UnshareVolume, FormatVol, Resting,
         Entries, Typed, PcTyped
<1>3. SealBusy(u) /\ ~Resting(u)'
  BY <1>1, <1>2 DEF SealGuarded, Resting
<1>4. CASE before' = before
  <2>1. SealBusy(u)'
    BY <1>2, <1>3, <1>4
    DEF SealBusy, SealedTop, Hidden, Bound, Unbound, Taken, Began, MountsAre, mounts
  <2> QED BY <1>1, <1>3, <2>1 DEF SealGuarded
<1>5. CASE before' # before
  <2>1. Goto(t, "unmounting")
    BY <1>5 DEF EntryStep, MountVol, UnmountVol, ShareVolume, UnshareVolume, FormatVol, history
  <2>2. pc'[t] = "unmounting"
    BY <2>1, Moved DEF Typed
  <2>3. ~Resting(t)'
    BY <2>2 DEF Resting, Entries
  <2> QED BY <1>1, <1>3, <2>3 DEF SealGuarded
<1> QED BY <1>4, <1>5

LEMMA ThreadSeal ==
    ASSUME Primary, Typed, KnownSafe, SealSafe, Watch, NEW t \in Threads,
           EntryStep(t) \/ InnerStep(t)
    PROVE  SealSafe'
<1> SUFFICES ASSUME ~raced' PROVE SealGuarded'
  BY DEF SealSafe
<1>0. leaked \in BOOLEAN
  BY DEF Typed, StateTyped
<1>1. \A u \in Threads \ {t} : pc'[u] = pc[u]
  BY StepsAlone DEF Goto, Typed, PcTyped
<1>2. SealGuarded /\ KnownGuarded
  BY DEF Watch, KnownSafe, SealSafe
<1>3. CASE \A u \in Threads \ {t} : Resting(u)
  <2>1. KnownAfter(t) /\ SealAfter(t)
    BY <1>2, <1>3 DEF KnownGuarded, KnownAfter, SealGuarded, SealAfter
  <2>2. SealAfter(t)'
    BY <1>0, <2>1, EntrySeal, EntryEnters, InnerSeal, InnerIsAtWork
    DEF KnownAfter, SealAfter, Enters
  <2>3. \A u \in Threads \ {t} : Resting(u)'
    BY <1>1, <1>3 DEF Resting
  <2> QED BY <2>2, <2>3 DEF SealAfter, SealGuarded
<1>4. ASSUME NEW u \in Threads \ {t}, ~Resting(u) PROVE SealGuarded'
  <2>1. EntryStep(t)
    BY <1>0, <1>4, BothAtWork, InnerIsAtWork
  <2> QED BY <1>1, <1>2, <1>4, <2>1, EntryBesidesSeal
<1> QED BY <1>3, <1>4

LEMMA BlockEventSeal ==
    ASSUME Typed, SealSafe, Watch, BlockEvent
    PROVE  SealSafe'
<1> SUFFICES ASSUME ~raced' PROVE SealGuarded'
  BY DEF SealSafe
<1>1. pc["netlink"] = "idle" /\ UNCHANGED mounts
  BY DEF BlockEvent, HandleDiskAdded, HandlePartitionAdded, HandleDiskChanged,
         HandleDiskRemoved, HandlePartitionRemoved, Handles
<1>2. \A t \in Threads : Resting(t)
  BY <1>1 DEF Watch, AtWork, Resting, Threads
<1>3. SealedTop
  BY <1>2 DEF Watch, SealSafe, SealGuarded
<1>4. SealedTop'
  BY <1>1, <1>3 DEF SealedTop, mounts
<1>5. \A t \in Threads : Resting(t)'
  BY <1>1, <1>2, BlockEventRests
<1> QED BY <1>4, <1>5 DEF SealGuarded

LEMMA WorldMoves ==
    ASSUME Typed, World
    PROVE  /\ UNCHANGED <<fields, mounts, nodes, history>>
           /\ \A t \in Threads : /\ Resting(t)' <=> Resting(t)
                                 /\ ~Resting(t) => pc'[t] = pc[t]
<1>1. UNCHANGED <<fields, mounts, nodes, history>>
  BY DEF World, Plug, Change, Unplug, Request, Quiet
<1>2. pc' = pc \/ (pc["command"] = "idle" /\ \E l \in Entries : Goto("command", l))
  BY DEF World, Plug, Change, Unplug, Request
<1>3. \A t \in Threads : /\ Resting(t)' <=> Resting(t)
                         /\ ~Resting(t) => pc'[t] = pc[t]
  BY <1>2 DEF Goto, Resting, Entries, Threads, Typed, PcTyped
<1> QED BY <1>1, <1>3

LEMMA WorldSeal ==
    ASSUME Typed, SealSafe, Watch, World
    PROVE  SealSafe'
<1> SUFFICES ASSUME ~raced' PROVE SealGuarded'
  BY DEF SealSafe
<1>1. SealGuarded
  BY DEF Watch, SealSafe
<1>2. UNCHANGED <<mounts, nodes, before>>
  BY WorldMoves DEF history
<1>3. SealedTop' <=> SealedTop
  BY <1>2 DEF SealedTop, mounts
<1>4. \A t \in Threads : ~Resting(t) /\ SealBusy(t) => SealBusy(t)'
  BY <1>2, <1>3, WorldMoves
  DEF SealBusy, Hidden, Bound, Unbound, Taken, Began, MountsAre, mounts
<1> QED BY <1>1, <1>3, <1>4, WorldMoves DEF SealGuarded

(* A thread that leaves unmountVol and has met no refusal.                 *)
Restores(t) ==
    /\ pc[t] \in UnmountPcs \ {"unmountVol"}
    /\ pc'[t] = "idle"
    /\ mState' # "Idle"
    /\ ~refused' /\ ~raced'
    => mState' = "Mounted" /\ mounts' = before

LEMMA LeavesUnmount ==
    ASSUME Typed, NEW t \in Threads, InnerStep(t), SealBusy(t),
           pc[t] \in UnmountPcs \ {"unmountVol"}, pc'[t] = "idle",
           mState' # "Idle", ~refused'
    PROVE  mState' = "Mounted" /\ mounts' = before
<1>1. CASE Unpublish(t)
  <2>1. before = mounts
    BY <1>1 DEF Unpublish, SealBusy
  <2>2. CASE GiveUp(t, "Mounted")
    BY <2>1, <2>2 DEF GiveUp, SetState
  <2>3. CASE \E l \in {"untmpfs", "unstage"} : Goto(t, l)
    BY <2>3, Moved DEF Typed
  <2> QED BY <1>1, <2>2, <2>3 DEF Unpublish
<1>2. CASE Republish(t)
  BY <1>2, RepublishSeal
<1>3. CASE Rebind(t)
  <2>1. Goto(t, "retmpfs") \/ refused' = TRUE
    BY <1>3 DEF Rebind
  <2> QED BY <2>1, Moved DEF Typed
<1>4. CASE Retmpfs(t)
  <2>1. Goto(t, "republish") \/ refused' = TRUE
    BY <1>4 DEF Retmpfs
  <2> QED BY <2>1, Moved DEF Typed
<1>5. CASE Unmounted(t)
  BY <1>5 DEF Unmounted, SetState
<1>6. CASE Unmounting(t) \/ Untmpfs(t) \/ Unbind(t) \/ Unstage(t)
  <2>1. \E l \in UnmountPcs : Goto(t, l)
    BY <1>6 DEF Unmounting, Untmpfs, Unbind, Unstage, UnmountPcs
  <2>2. pc'[t] \in UnmountPcs
    BY <2>1, Moved DEF Typed
  <2> QED BY <2>2 DEF UnmountPcs
<1>7. CASE ~(\/ Unmounting(t) \/ Unpublish(t) \/ Untmpfs(t) \/ Unbind(t) \/ Unstage(t)
             \/ Unmounted(t) \/ Rebind(t) \/ Retmpfs(t) \/ Republish(t))
  <2>1. pc[t] \in {"retry"} \union MountPcs \union OtherPcs
    BY <1>7
    DEF InnerStep, Retry, Check, Fsck, Stage, Bind, Tmpfs, Move, Mounted, LunWrite, Shared,
        LunClear, Unshared, Formatting, Mbr, Format, MountPcs, OtherPcs
  <2> QED BY <2>1 DEF UnmountPcs, MountPcs, OtherPcs
<1> QED BY <1>1, <1>2, <1>3, <1>4, <1>5, <1>6, <1>7

LEMMA StepRestores ==
    ASSUME Typed, SealSafe, Next, NEW t \in Threads
    PROVE  Restores(t)
<1> SUFFICES ASSUME pc[t] \in UnmountPcs \ {"unmountVol"}, pc'[t] = "idle",
                    mState' # "Idle", ~refused', ~raced'
             PROVE  mState' = "Mounted" /\ mounts' = before
  BY DEF Restores
<1>0. leaked \in BOOLEAN /\ Watch
  BY NextCases DEF Typed, StateTyped
<1>1. ~Resting(t)
  BY DEF Resting, Entries, UnmountPcs
<1>2. pc'[t] # pc[t]
  BY <1>1 DEF Resting
<1>3. ASSUME NEW v \in Threads, EntryStep(v) \/ InnerStep(v)
      PROVE  mState' = "Mounted" /\ mounts' = before
  <2>1. v = t
    BY <1>2, <1>3, StepsAlone DEF Goto, Typed, PcTyped
  <2>2. InnerStep(t)
    BY <1>1, <1>3, <2>1, EntryEnters DEF Enters
  <2>3. \A u \in Threads \ {t} : Resting(u)
    BY <1>0, <1>1, BothAtWork
  <2>4. SealBusy(t)
    BY <1>0, <1>1, <2>3 DEF SealSafe, SealGuarded, Watch
  <2> QED BY <2>2, <2>4, LeavesUnmount
<1>4. ~BlockEvent
  <2> SUFFICES ASSUME BlockEvent PROVE FALSE
    OBVIOUS
  <2>1. pc["netlink"] = "idle"
    BY DEF BlockEvent, HandleDiskAdded, HandlePartitionAdded, HandleDiskChanged,
           HandleDiskRemoved, HandlePartitionRemoved, Handles
  <2>2. ~AtWork("command")
    BY <1>0 DEF Watch
  <2> QED BY <1>1, <2>1, <2>2 DEF AtWork, Resting, Threads
<1>5. ~World
  BY <1>1, <1>2, WorldMoves
<1> QED BY <1>3, <1>4, <1>5, NextCases

(* On primary storage an unmountVol that fails leaves every mount as it    *)
(* found it and the volume Mounted, unless the kernel refuses a mount that *)
(* the failure handling asks for.  Without a secure directory this is not  *)
(* so: the label fail_recreate_bindmount mounts one that was not there.    *)
THEOREM UnmountIsUndone ==
    ASSUME Primary
    PROVE  Spec => FailedUnmountRestores
<1>1. Init => SealSafe
  BY DEF Init, SealSafe, SealGuarded, Resting, SealedTop, Threads
<1>2. Typed /\ KnownSafe /\ SealSafe /\ [Next]_vars => SealSafe'
  <2> SUFFICES ASSUME Typed, KnownSafe, SealSafe, [Next]_vars PROVE SealSafe'
    OBVIOUS
  <2>1. CASE UNCHANGED vars
    BY <2>1
    DEF vars, mounts, history, SealSafe, SealGuarded, Resting, SealBusy, SealedTop, Hidden,
        Bound, Unbound, Taken, Began, MountsAre
  <2>2. CASE Next
    BY <2>2, NextCases, ThreadSeal, BlockEventSeal, WorldSeal
  <2> QED BY <2>1, <2>2
<1>3. Typed /\ SealSafe /\ [Next]_vars
      => [\A t \in Threads :
              /\ pc[t] \in UnmountPcs \ {"unmountVol"}
              /\ pc'[t] = "idle"
              /\ mState' # "Idle"
              /\ ~refused' /\ ~raced'
              => mState' = "Mounted" /\ mounts' = before]_vars
  BY StepRestores DEF Restores
<1> QED BY <1>1, <1>2, <1>3, AlwaysTyped, AlwaysKnown, PTL DEF Spec, FailedUnmountRestores
(***************************************************************************)
(* A partition that is pulled is unmounted before the volume forgets it.   *)
(*                                                                         *)
(* The kernel withdraws the partitions of a disk before the disk.  As long *)
(* as neither a race, an overwritten state nor a failed unmount has come   *)
(* between, what is published is a Mounted volume whose partition is there *)
(* (Present), has its removal among the events to come, or the netlink     *)
(* thread has read that and is about to unmount it (Noticed).              *)
(***************************************************************************)
BlockEvents == [action : Actions, part : 0..MaxParts, ok : BOOLEAN]

HasRemoval(s, d) == \E i \in 1..Len(s) : s[i].action = "partRemove" /\ s[i].part = d
Present(d) == d = 0 \/ d <= parts \/ HasRemoval(uevents, d)
Noticed == Present(mCurrentlyMountedKdev) \/ pc["netlink"] = "unmountVol"

TakenApart ==
    {"unpublish", "untmpfs", "unbind", "unstage", "rebind", "retmpfs", "republish"}
Undoing == ~raced => \A t \in Threads : pc[t] \in TakenApart => mState = "Unmounting"

(* The disk comes and goes as its last event says.                         *)
DiskAsTold ==
    /\ ~plugged => parts = 0
    /\ Withdrawn => ~plugged

LEMMA ConcatParts ==
    ASSUME NEW S, NEW s \in Seq(S), NEW r \in Seq(S)
    PROVE  /\ s \o r \in Seq(S) /\ Len(s \o r) = Len(s) + Len(r)
           /\ Len(s) \in Nat /\ Len(r) \in Nat
           /\ \A i \in 1..Len(s) : (s \o r)[i] = s[i]
           /\ \A i \in 1..Len(r) : (s \o r)[Len(s) + i] = r[i]
  OBVIOUS

LEMMA ConcatTop ==
    ASSUME NEW S, NEW s \in Seq(S), NEW r \in Seq(S), r # <<>>
    PROVE  s \o r # <<>> /\ Top(s \o r) = Top(r)
<1> DEFINE c == s \o r
<1>1. /\ c \in Seq(S) /\ Len(c) = Len(s) + Len(r) /\ Len(s) \in Nat /\ Len(r) \in Nat
      /\ \A i \in 1..Len(r) : c[Len(s) + i] = r[i]
  BY ConcatParts
<1> HIDE DEF c
<1>2. Len(r) # 0
  BY NonEmpty
<1>3. Len(c) # 0 /\ c[Len(c)] = r[Len(r)]
  BY <1>1, <1>2
<1>4. c # <<>>
  BY <1>3
<1> QED BY <1>3, <1>4 DEF c, Top

LEMMA RemovalInConcat ==
    ASSUME NEW S, NEW s \in Seq(S), NEW r \in Seq(S), NEW d,
           HasRemoval(s, d) \/ HasRemoval(r, d)
    PROVE  HasRemoval(s \o r, d)
<1> DEFINE c == s \o r
<1>1. /\ Len(c) = Len(s) + Len(r) /\ Len(s) \in Nat /\ Len(r) \in Nat
      /\ \A i \in 1..Len(s) : c[i] = s[i]
      /\ \A i \in 1..Len(r) : c[Len(s) + i] = r[i]
  BY ConcatParts
<1> HIDE DEF c
<1>2. CASE HasRemoval(s, d)
  BY <1>1, <1>2 DEF HasRemoval
<1>3. CASE HasRemoval(r, d)
  <2>1. PICK i \in 1..Len(r) : r[i].action = "partRemove" /\ r[i].part = d
    BY <1>3 DEF HasRemoval
  <2>2. Len(s) + i \in 1..Len(c) /\ c[Len(s) + i] = r[i]
    BY <1>1
  <2> QED BY <2>1, <2>2 DEF HasRemoval
<1> QED BY <1>2, <1>3 DEF c

LEMMA RemovalInTail ==
    ASSUME NEW S, NEW s \in Seq(S), s # <<>>, NEW d, HasRemoval(s, d),
           ~(Head(s).action = "partRemove" /\ Head(s).part = d)
    PROVE  HasRemoval(Tail(s), d)
<1> DEFINE r == Tail(s)
<1>1. Len(s) \in Nat /\ Len(r) = Len(s) - 1 /\ \A i \in 1 .. Len(s) - 1 : r[i] = s[i + 1]
  OBVIOUS
<1>2. Head(s) = s[1]
  OBVIOUS
<1> HIDE DEF r
<1>3. PICK i \in 1..Len(s) : s[i].action = "partRemove" /\ s[i].part = d
  BY DEF HasRemoval
<1>4. i # 1
  BY <1>2, <1>3
<1>5. i - 1 \in 1..Len(r) /\ r[i - 1] = s[i]
  BY <1>1, <1>4
<1> QED BY <1>3, <1>5 DEF HasRemoval, r

(* A disk that goes takes leave of all its partitions.                     *)
LEMMA AllWithdrawn ==
    ASSUME parts \in 0..MaxParts, NEW d \in 1..parts
    PROVE  HasRemoval(Withdraw, d)
<1>1. Len(Withdraw) = parts
  BY PartsAssumption DEF Withdraw
<1>2. Withdraw[d].action = "partRemove" /\ Withdraw[d].part = d
  BY DEF Withdraw
<1> QED BY <1>1, <1>2 DEF HasRemoval

LEMMA OneEvent ==
    ASSUME NEW action \in Actions, NEW n \in 0..MaxParts
    PROVE  DiskEvent(action, n) # <<>> /\ Top(DiskEvent(action, n)).action = action
<1> DEFINE e == [action |-> action, part |-> n, ok |-> TRUE]
<1>1. e.action = action
  OBVIOUS
<1> HIDE DEF e
<1>2. <<e>> # <<>> /\ Len(<<e>>) = 1 /\ <<e>>[1] = e
  OBVIOUS
<1> QED BY <1>1, <1>2 DEF e, DiskEvent, Top

(* What announces a disk does not end with its removal.                    *)
LEMMA NewsOfDisk ==
    ASSUME NEW s \in Seq(BlockEvents), NEW action \in {"diskAdd", "diskChange"},
           NEW n \in 0..MaxParts, NEW bad
    PROVE  Top(s \o DiskEvent(action, n) \o Announce(n, bad)).action # "diskRemove"
<1>0. action \in Actions
  BY DEF Actions
<1>1. DiskEvent(action, n) \in Seq(BlockEvents) /\ Announce(n, bad) \in Seq(BlockEvents)
  BY <1>0, DiskEventTyped, AnnounceTyped DEF BlockEvents
<1>2. s \o DiskEvent(action, n) \in Seq(BlockEvents)
  BY <1>1, ConcatTyped
<1>3. Top(s \o DiskEvent(action, n)).action = action
  BY <1>0, <1>1, OneEvent, ConcatTop
<1>4. n \in Nat
  BY PartsAssumption
<1>5. CASE n = 0
  <2>1. Announce(n, bad) = <<>>
    BY <1>5 DEF Announce
  <2>2. s \o DiskEvent(action, n) \o <<>> = s \o DiskEvent(action, n)
    BY <1>2
  <2> QED BY <1>3, <2>1, <2>2
<1>6. CASE n # 0
  <2>1. Len(Announce(n, bad)) = n /\ Announce(n, bad)[n].action = "partAdd"
    BY <1>4, <1>6 DEF Announce
  <2>2. Announce(n, bad) # <<>>
    BY <1>6, <2>1
  <2> QED BY <1>1, <1>2, <2>1, <2>2, ConcatTop DEF Top
<1> QED BY <1>5, <1>6

LEMMA Repartitioned ==
    ASSUME KernelTyped, NEW n \in 0..MaxParts, NEW bad, Repartition(n, bad), plugged
    PROVE  /\ DiskAsTold'
           /\ \A d \in -1..Elsewhere : Present(d) => Present(d)'
<1> DEFINE left == uevents \o Withdraw
<1>1. /\ plugged' /\ parts' = n
      /\ uevents' = left \o DiskEvent("diskChange", n) \o Announce(n, bad)
  BY DEF Repartition
<1>2. uevents \in Seq(BlockEvents) /\ Withdraw \in Seq(BlockEvents) /\ parts \in 0..MaxParts
  BY WithdrawTyped DEF KernelTyped, BlockEvents
<1>3. left \in Seq(BlockEvents)
  BY <1>2, ConcatTyped
<1>4. /\ DiskEvent("diskChange", n) \in Seq(BlockEvents)
      /\ Announce(n, bad) \in Seq(BlockEvents)
      /\ left \o DiskEvent("diskChange", n) \in Seq(BlockEvents)
  <2>1. "diskChange" \in Actions
    BY DEF Actions
  <2> QED BY <1>3, <2>1, DiskEventTyped, AnnounceTyped, ConcatTyped DEF BlockEvents
<1>5. DiskAsTold'
  <2>1. Top(uevents').action # "diskRemove"
    BY <1>1, <1>3, NewsOfDisk
  <2> QED BY <1>1, <2>1 DEF DiskAsTold, Withdrawn
<1>6. ASSUME NEW d \in -1..Elsewhere, Present(d) PROVE Present(d)'
  <2>1. CASE d \in 1..parts \/ HasRemoval(uevents, d)
    <3>1. HasRemoval(left, d)
      BY <1>2, <2>1, AllWithdrawn, RemovalInConcat
    <3>2. HasRemoval(left \o DiskEvent("diskChange", n) \o Announce(n, bad), d)
      BY <1>3, <1>4, <3>1, RemovalInConcat
    <3>3. HasRemoval(uevents', d)
      BY <1>1, <3>2
    <3>4. HasRemoval(uevents, d)'
      BY <3>3 DEF HasRemoval
    <3> QED BY <3>4 DEF Present
  <2>2. CASE d <= 0
    BY <1>1, <2>2, PartsAssumption DEF Present
  <2>3. d \in 1..parts \/ HasRemoval(uevents, d) \/ d <= 0
    BY <1>2, <1>6, PartsAssumption DEF Present
  <2> QED BY <2>1, <2>2, <2>3
<1> QED BY <1>5, <1>6

LEMMA Plugged ==
    ASSUME KernelTyped, DiskAsTold, NEW n \in 0..MaxParts, NEW bad, Plug(n, bad)
    PROVE  /\ DiskAsTold'
           /\ \A d \in -1..Elsewhere : Present(d) => Present(d)'
<1>1. /\ plugged' /\ parts' = n /\ parts = 0
      /\ uevents' = uevents \o DiskEvent("diskAdd", n) \o Announce(n, bad)
  BY DEF Plug, DiskAsTold
<1>2. uevents \in Seq(BlockEvents)
  BY DEF KernelTyped, BlockEvents
<1>3. /\ DiskEvent("diskAdd", n) \in Seq(BlockEvents)
      /\ Announce(n, bad) \in Seq(BlockEvents)
      /\ uevents \o DiskEvent("diskAdd", n) \in Seq(BlockEvents)
  <2>1. "diskAdd" \in Actions
    BY DEF Actions
  <2> QED BY <1>2, <2>1, DiskEventTyped, AnnounceTyped, ConcatTyped DEF BlockEvents
<1>4. DiskAsTold'
  <2>1. Top(uevents').action # "diskRemove"
    BY <1>1, <1>2, NewsOfDisk
  <2> QED BY <1>1, <2>1 DEF DiskAsTold, Withdrawn
<1>5. ASSUME NEW d \in -1..Elsewhere, Present(d) PROVE Present(d)'
  <2>1. CASE HasRemoval(uevents, d)
    <3>1. HasRemoval(uevents', d)
      BY <1>1, <1>2, <1>3, <2>1, RemovalInConcat
    <3>2. HasRemoval(uevents, d)'
      BY <3>1 DEF HasRemoval
    <3> QED BY <3>2 DEF Present
  <2>2. CASE d <= 0
    BY <1>1, <2>2, PartsAssumption DEF Present
  <2>3. HasRemoval(uevents, d) \/ d <= 0
    BY <1>1, <1>5, PartsAssumption DEF Present
  <2> QED BY <2>1, <2>2, <2>3
<1> QED BY <1>4, <1>5

LEMMA Unplugged ==
    ASSUME KernelTyped, Unplug
    PROVE  /\ DiskAsTold'
           /\ \A d \in -1..Elsewhere : Present(d) => Present(d)'
<1> DEFINE left == uevents \o Withdraw
<1>1. /\ ~plugged' /\ parts' = 0
      /\ uevents' = left \o DiskEvent("diskRemove", 0)
  BY DEF Unplug
<1>2. uevents \in Seq(BlockEvents) /\ Withdraw \in Seq(BlockEvents) /\ parts \in 0..MaxParts
  BY WithdrawTyped DEF KernelTyped, BlockEvents, Unplug
<1>3. left \in Seq(BlockEvents) /\ DiskEvent("diskRemove", 0) \in Seq(BlockEvents)
  <2>1. "diskRemove" \in Actions /\ 0 \in 0..MaxParts
    BY PartsAssumption DEF Actions
  <2> QED BY <1>2, <2>1, ConcatTyped, DiskEventTyped DEF BlockEvents
<1>4. ASSUME NEW d \in -1..Elsewhere, Present(d) PROVE Present(d)'
  <2>1. CASE d \in 1..parts \/ HasRemoval(uevents, d)
    <3>1. HasRemoval(left, d)
      BY <1>2, <2>1, AllWithdrawn, RemovalInConcat
    <3>2. HasRemoval(uevents', d)
      BY <1>1, <1>3, <3>1, RemovalInConcat
    <3>3. HasRemoval(uevents, d)'
      BY <3>2 DEF HasRemoval
    <3> QED BY <3>3 DEF Present
  <2>2. CASE d <= 0
    BY <1>1, <2>2, PartsAssumption DEF Present
  <2>3. d \in 1..parts \/ HasRemoval(uevents, d) \/ d <= 0
    BY <1>2, <1>4, PartsAssumption DEF Present
  <2> QED BY <2>1, <2>2, <2>3
<1> QED BY <1>1, <1>4 DEF DiskAsTold

LEMMA PresentStays ==
    ASSUME UNCHANGED <<parts, uevents>>, NEW d, Present(d)
    PROVE  Present(d)'
  BY DEF Present, HasRemoval

LEMMA ThreadKernel ==
    ASSUME NEW t \in Threads, EntryStep(t) \/ InnerStep(t)
    PROVE  Mbr(t) \/ UNCHANGED kernel
<1> SUFFICES ASSUME ~Mbr(t) PROVE UNCHANGED kernel
  OBVIOUS
<1> QED
  BY DEF EntryStep, InnerStep, MountVol, UnmountVol, ShareVolume, UnshareVolume, FormatVol,
         Retry, Check, Fsck, Stage, Bind, Tmpfs, Move, Mounted, Unmounting, Unpublish,
         Untmpfs, Unbind, Unstage, Unmounted, Rebind, Retmpfs, Republish, LunWrite,
         Shared, LunClear, Unshared, Formatting, Format

LEMMA DiskSame ==
    ASSUME DiskAsTold, UNCHANGED <<plugged, parts, uevents>>
    PROVE  DiskAsTold'
  BY DEF DiskAsTold, Withdrawn

LEMMA NextDisk ==
    ASSUME Typed, DiskAsTold, Next
    PROVE  DiskAsTold'
<1>1. ASSUME NEW t \in Threads, EntryStep(t) \/ InnerStep(t) PROVE DiskAsTold'
  <2>1. CASE plugged /\ Repartition(1, 0)
    BY <2>1, Repartitioned, PartsAssumption DEF Typed
  <2>2. CASE UNCHANGED <<plugged, parts, uevents>>
    BY <2>2, DiskSame
  <2> QED BY <1>1, <2>1, <2>2, ThreadKernel DEF Mbr, kernel
<1>2. CASE BlockEvent
  <2>1. /\ uevents # <<>> /\ uevents' = Tail(uevents) /\ plugged' = plugged /\ parts' = parts
    BY <1>2 DEF BlockEvent, HandleDiskAdded, HandlePartitionAdded, HandleDiskChanged,
                HandleDiskRemoved, HandlePartitionRemoved, Handles
  <2>2. uevents \in Seq(BlockEvents)
    BY DEF Typed, KernelTyped, BlockEvents
  <2>3. uevents' # <<>> => Top(uevents') = Top(uevents)
    BY <2>1, <2>2, LastOfTail
  <2> QED BY <2>1, <2>3 DEF DiskAsTold, Withdrawn
<1>3. CASE World
  <2>1. CASE UNCHANGED kernel
    BY <2>1, DiskSame DEF kernel
  <2>2. ASSUME NEW n \in 0..MaxParts, NEW bad, Plug(n, bad) \/ Change(n, bad)
        PROVE  DiskAsTold'
    BY <2>2, Plugged, Repartitioned DEF Change, Typed
  <2> QED BY <1>3, <2>1, <2>2, Unplugged DEF World, Request, Typed
<1> QED BY <1>1, <1>2, <1>3, NextCases

(* From the first move of unmountVol to its last the state is Unmounting,  *)
(* in which no other call begins.                                          *)
LEMMA NextUndoing ==
    ASSUME Typed, Undoing, Next
    PROVE  Undoing'
<1> SUFFICES ASSUME ~raced', NEW u \in Threads, pc'[u] \in TakenApart
             PROVE  mState' = "Unmounting"
  BY DEF Undoing
<1>0. leaked \in BOOLEAN /\ Watch /\ ~raced
  BY NextCases DEF Typed, StateTyped, Watch
<1>1. pc[u] \in TakenApart => mState = "Unmounting" /\ ~Resting(u) /\ AtWork(u)
  BY <1>0 DEF Undoing, TakenApart, Resting, AtWork, Entries
<1>2. ASSUME NEW t \in Threads, EntryStep(t) PROVE mState' = "Unmounting"
  <2>1. pc'[t] \notin TakenApart
    <3>1. \E l \in {"idle", "retry", "check", "unmounting"} \union OtherPcs : Goto(t, l)
      BY <1>2 DEF EntryStep, MountVol, UnmountVol, ShareVolume, UnshareVolume, FormatVol,
                  Return, OtherPcs
    <3>2. pc'[t] \in {"idle", "retry", "check", "unmounting"} \union OtherPcs
      BY <3>1, Moved DEF Typed
    <3> QED BY <3>2 DEF TakenApart, OtherPcs
  <2>2. u # t /\ pc'[u] = pc[u]
    BY <1>2, <2>1, StepsAlone DEF Goto, Typed, PcTyped
  <2>3. mState = "Unmounting"
    BY <1>1, <2>2
  <2> QED BY <1>2, <2>3, EntryEnters DEF Enters
<1>3. ASSUME NEW t \in Threads, InnerStep(t) PROVE mState' = "Unmounting"
  <2>1. u = t
    <3>1. u # t => pc'[u] = pc[u]
      BY <1>3, StepsAlone DEF Goto, Typed, PcTyped
    <3> QED BY <1>0, <1>1, <1>3, <3>1, InnerIsAtWork, BothAtWork
  <2>2. CASE Unmounting(t)
    BY <2>2 DEF Unmounting, SetState
  <2>3. CASE Unpublish(t) \/ Untmpfs(t) \/ Unbind(t) \/ Unstage(t) \/ Rebind(t) \/ Retmpfs(t)
             \/ Republish(t)
    <3>1. mState = "Unmounting"
      BY <1>1, <2>1, <2>3
      DEF Unpublish, Untmpfs, Unbind, Unstage, Rebind, Retmpfs, Republish, TakenApart
    <3>2. mState' = mState \/ Return(t)
      BY <2>3 DEF Unpublish, Untmpfs, Unbind, Unstage, Rebind, Retmpfs, Republish, GiveUp, fields
    <3>3. ~Return(t)
      BY <2>1, Moved DEF Return, Typed, TakenApart
    <3> QED BY <3>1, <3>2, <3>3
  <2>4. CASE ~(\/ Unmounting(t) \/ Unpublish(t) \/ Untmpfs(t) \/ Unbind(t) \/ Unstage(t)
               \/ Rebind(t) \/ Retmpfs(t) \/ Republish(t))
    <3>1. \E l \in {"idle"} \union MountPcs \union OtherPcs : Goto(t, l)
      BY <1>3, <2>4
      DEF InnerStep, Retry, Check, Fsck, Stage, Bind, Tmpfs, Move, Mounted, Unmounted,
          LunWrite, Shared, LunClear, Unshared, Formatting, Mbr, Format, Return, AbortMount,
          MountPcs, OtherPcs
    <3>2. pc'[t] \in {"idle"} \union MountPcs \union OtherPcs
      BY <3>1, Moved DEF Typed
    <3> QED BY <2>1, <3>2 DEF TakenApart, MountPcs, OtherPcs
  <2> QED BY <2>2, <2>3, <2>4
<1>4. CASE BlockEvent
  <2>1. pc["netlink"] = "idle"
    BY <1>4 DEF BlockEvent, HandleDiskAdded, HandlePartitionAdded, HandleDiskChanged,
                HandleDiskRemoved, HandlePartitionRemoved, Handles
  <2>2. \A t \in Threads : Resting(t)
    BY <1>0, <1>4, <2>1 DEF Watch, AtWork, Resting, Threads
  <2>3. Resting(u)'
    BY <1>4, <2>1, <2>2, BlockEventRests
  <2> QED BY <2>3 DEF Resting, Entries, TakenApart
<1>5. CASE World
  <2>1. pc'[u] = pc[u] /\ mState' = mState
    BY <1>5, WorldMoves DEF fields, Resting, Entries, TakenApart
  <2> QED BY <1>1, <2>1
<1> QED BY <1>2, <1>3, <1>4, <1>5, NextCases

PresentRest == public # <<>> => mState = "Mounted" /\ Noticed

PresentBusy(t) ==
    LET at(labels) == pc[t] \in labels IN
    /\ at({"retry"} \union OtherPcs) => public = <<>>
    /\ at({"stage", "bind", "tmpfs", "move", "mounted"}) => Present(Head(nodes[t]).dev)
    /\ at(InLoop) => mState = "Checking"
    /\ at({"unmounting"}) => mState = "Mounted" /\ (t = "command" => Noticed)
    /\ ~at({"unmounting"}) => mState # "Mounted"

PresentAfter(t) == IF Resting(t) THEN PresentRest ELSE PresentBusy(t)

LEMMA NothingPublished ==
    ASSUME Typed, NEW t \in Threads, public' = <<>>, mState' # "Mounted",
           \E l \in {"idle", "check", "unmounted"} \union OtherPcs : Goto(t, l)
    PROVE  PresentAfter(t)'
<1>1. pc'[t] \in {"idle", "check", "unmounted"} \union OtherPcs
  BY Moved DEF Typed
<1> QED BY <1>1
        DEF PresentAfter, PresentRest, PresentBusy, Resting, Entries, OtherPcs, InLoop

LEMMA PlainPresent ==
    ASSUME Typed, NEW t \in Threads, PresentBusy(t),
           \/ Retry(t) \/ LunWrite(t) \/ Shared(t) \/ LunClear(t)
           \/ Unshared(t) \/ Formatting(t) \/ Mbr(t) \/ Format(t)
    PROVE  PresentAfter(t)'
<1>1. public = <<>> /\ mState # "Mounted"
  BY DEF Retry, LunWrite, Shared, LunClear, Unshared, Formatting, Mbr, Format, OtherPcs,
         PresentBusy
<1>2. public' = <<>> /\ mState' # "Mounted"
  BY <1>1 DEF Retry, LunWrite, Shared, LunClear, Unshared, Formatting, Mbr, Format, mounts,
              fields, SetState
<1>3. \E l \in {"idle"} \union OtherPcs : Goto(t, l)
  BY DEF Retry, LunWrite, Shared, LunClear, Unshared, Formatting, Mbr, Format, OtherPcs,
         Return
<1> QED BY <1>2, <1>3, NothingPublished

LEMMA CheckPresent ==
    ASSUME Typed, NEW t \in Threads, KnownBusy(t), Check(t)
    PROVE  PresentAfter(t)'
<1>1. public' = <<>>
  BY DEF Check, KnownBusy, mounts
<1>2. CASE SetState("Checking") /\ Goto(t, "fsck")
  <2>1. mState' = "Checking" /\ pc'[t] = "fsck"
    BY <1>2, Moved DEF SetState, Typed
  <2> QED BY <2>1 DEF PresentAfter, PresentBusy, Resting, Entries, OtherPcs
<1>3. CASE SetState("Idle") /\ Return(t)
  BY <1>1, <1>3, NothingPublished DEF SetState, Return
<1> QED BY <1>2, <1>3 DEF Check

LEMMA FsckPresent ==
    ASSUME Typed, NEW t \in Threads, KnownBusy(t), PresentBusy(t), Fsck(t), Onward, ~strayed'
    PROVE  PresentAfter(t)'
<1>1. public' = <<>> /\ mState = "Checking" /\ UNCHANGED <<kernel, nodes>>
  BY DEF Fsck, KnownBusy, PresentBusy, InLoop, mounts
<1>2. CASE IsThere(Head(nodes[t]).dev) /\ Goto(t, "stage") /\ UNCHANGED fields
  <2>0. Head(nodes[t]).dev \in 0..MaxParts
    <3>1. pc[t] \in InLoop
      BY DEF Fsck, InLoop
    <3>2. ~Head(nodes[t]).past
      BY <3>1 DEF Onward, Past
    <3> QED BY <3>1, <3>2, NodeTyped DEF Typed
  <2>1. Present(Head(nodes[t]).dev)
    <3> DEFINE d == Head(nodes[t]).dev
    <3>1. d \in Int /\ d # Elsewhere
      BY <2>0, PartsAssumption DEF Elsewhere
    <3>2. IF d = 0 THEN plugged ELSE d <= parts \/ d = Elsewhere
      BY <1>2 DEF IsThere
    <3> QED BY <3>1, <3>2 DEF Present
  <2>2. Present(Head(nodes[t]).dev)'
    BY <1>1, <2>1 DEF Present, HasRemoval, kernel
  <2>3. pc'[t] = "stage" /\ mState' = "Checking"
    BY <1>1, <1>2, Moved DEF fields, Typed
  <2> QED BY <2>2, <2>3 DEF PresentAfter, PresentBusy, Resting, Entries, OtherPcs
<1>3. CASE SetState("Idle") /\ Return(t)
  BY <1>1, <1>3, NothingPublished DEF SetState, Return
<1> QED BY <1>2, <1>3 DEF Fsck, Node

(* The steps of mountVol that mount the device they were begun for.        *)
LEMMA GoesOnPresent ==
    ASSUME Typed, NEW t \in Threads, Present(Head(nodes[t]).dev), mState = "Checking",
           UNCHANGED <<mState, kernel, nodes>>,
           \E l \in {"bind", "tmpfs", "move", "mounted"} : Goto(t, l)
    PROVE  PresentAfter(t)'
<1>1. pc'[t] \in {"bind", "tmpfs", "move", "mounted"}
  BY Moved DEF Typed
<1>2. Present(Head(nodes[t]).dev)'
  BY DEF Present, HasRemoval, kernel
<1> QED BY <1>1, <1>2 DEF PresentAfter, PresentBusy, Resting, Entries, OtherPcs

LEMMA StagePresent ==
    ASSUME Typed, NEW t \in Threads, KnownBusy(t), PresentBusy(t), Stage(t)
    PROVE  PresentAfter(t)'
<1>1. /\ public' = <<>> /\ mState = "Checking" /\ Present(Head(nodes[t]).dev)
      /\ UNCHANGED <<mState, kernel>>
  BY DEF Stage, KnownBusy, PresentBusy, InLoop, fields
<1>2. CASE Goto(t, "check")
  BY <1>1, <1>2, NothingPublished
<1>3. CASE Goto(t, IF Primary THEN "bind" ELSE "move") /\ UNCHANGED nodes
  BY <1>1, <1>3, GoesOnPresent
<1> QED BY <1>2, <1>3 DEF Stage

LEMMA MountPresent ==
    ASSUME Typed, NEW t \in Threads, KnownBusy(t), PresentBusy(t),
           Bind(t) \/ Tmpfs(t) \/ Move(t)
    PROVE  PresentAfter(t)'
<1>1. /\ public = <<>> /\ mState = "Checking" /\ Present(Head(nodes[t]).dev)
      /\ UNCHANGED <<kernel, nodes>>
  BY DEF Bind, Tmpfs, Move, KnownBusy, PresentBusy, InLoop, OnTop
<1>2. CASE AbortMount(t)
  BY <1>1, <1>2, NothingPublished DEF AbortMount, SetState, Return
<1>3. CASE ~AbortMount(t)
  <2>1. mState' = mState /\ \E l \in {"bind", "tmpfs", "move", "mounted"} : Goto(t, l)
    BY <1>3 DEF Bind, Tmpfs, Move, fields
  <2> QED BY <1>1, <2>1, GoesOnPresent
<1> QED BY <1>2, <1>3

LEMMA MountedPresent ==
    ASSUME Typed, NEW t \in Threads, KnownBusy(t), PresentBusy(t), Mounted(t), Onward,
           ~strayed'
    PROVE  PresentAfter(t)'
<1>1. Present(Head(nodes[t]).dev) /\ UNCHANGED kernel
  BY DEF Mounted, PresentBusy
<1>2. Present(mCurrentlyMountedKdev)'
  <2>1. mCurrentlyMountedKdev' = Head(nodes[t]).dev
    BY DEF Mounted, Onward, InLoop, Past, Node
  <2> QED BY <1>1, <2>1 DEF Present, HasRemoval, kernel
<1>3. mState' = "Mounted" /\ pc'[t] = "idle"
  BY Moved DEF Mounted, SetState, Return, Typed
<1> QED BY <1>2, <1>3 DEF PresentAfter, PresentRest, Noticed, Resting

LEMMA UnmountPresent ==
    ASSUME Typed, NEW t \in Threads, KnownBusy(t), PresentBusy(t), ~failed',
           \/ Unmounting(t) \/ Unpublish(t) \/ Untmpfs(t) \/ Unbind(t) \/ Unstage(t)
           \/ Rebind(t) \/ Retmpfs(t) \/ Republish(t)
    PROVE  PresentAfter(t)'
<1>1. CASE Unmounting(t)
  <2>1. mState' = "Unmounting" /\ pc'[t] = "unpublish"
    BY <1>1, Moved DEF Unmounting, SetState, Typed
  <2> QED BY <2>1 DEF PresentAfter, PresentBusy, Resting, Entries, OtherPcs, InLoop
<1>2. CASE ~Unmounting(t)
  <2>1. mState # "Mounted"
    BY <1>2 DEF Unpublish, Untmpfs, Unbind, Unstage, Rebind, Retmpfs, Republish, PresentBusy
  <2>2. mState' = mState /\ \E l \in TakenApart \union {"unmounted"} : Goto(t, l)
    BY <1>2 DEF Unpublish, Untmpfs, Unbind, Unstage, Rebind, Retmpfs, Republish, GiveUp,
                fields, TakenApart
  <2>3. pc'[t] \in TakenApart \union {"unmounted"}
    BY <2>2, Moved DEF Typed
  <2> QED BY <2>1, <2>2, <2>3
          DEF PresentAfter, PresentBusy, Resting, Entries, OtherPcs, InLoop, TakenApart
<1> QED BY <1>1, <1>2

LEMMA UnmountedPresent ==
    ASSUME Typed, NEW t \in Threads, KnownBusy(t), Unmounted(t)
    PROVE  PresentAfter(t)'
<1>1. public' = <<>> /\ mState' # "Mounted" /\ Goto(t, "idle")
  BY DEF Unmounted, KnownBusy, mounts, SetState, Return
<1> QED BY <1>1, NothingPublished

LEMMA InnerPresent ==
    ASSUME Typed, NEW t \in Threads, InnerStep(t), PresentBusy(t), KnownBusy(t), ~failed',
           Onward, ~strayed'
    PROVE  PresentAfter(t)'
  BY PlainPresent, CheckPresent, FsckPresent, StagePresent, MountPresent, MountedPresent,
     UnmountPresent, UnmountedPresent
  DEF InnerStep

LEMMA NoticedStays ==
    ASSUME UNCHANGED <<mCurrentlyMountedKdev, kernel>>, Noticed,
           pc["netlink"] = "unmountVol" => pc'["netlink"] = "unmountVol"
    PROVE  Noticed'
  BY PresentStays DEF Noticed, Present, HasRemoval, kernel

LEMMA EntryPresent ==
    ASSUME Typed, NEW t \in Threads, EntryStep(t), PresentRest, KnownRest
    PROVE  PresentAfter(t)'
<1>1. UNCHANGED <<mounts, mCurrentlyMountedKdev, kernel>>
  BY DEF EntryStep, MountVol, UnmountVol, ShareVolume, UnshareVolume, FormatVol, fields
<1>2. CASE public = <<>>
  <2>1. public' = <<>> /\ mState # "Mounted" /\ mState' = mState
    BY <1>1, <1>2
    DEF EntryStep, MountVol, UnmountVol, ShareVolume, UnshareVolume, FormatVol, mounts,
        fields, KnownRest
  <2>2. \E l \in {"idle", "retry", "check"} \union OtherPcs : Goto(t, l)
    BY <2>1 DEF EntryStep, MountVol, UnmountVol, ShareVolume, UnshareVolume, FormatVol,
                Return, OtherPcs
  <2>3. pc'[t] \in {"idle", "retry", "check"} \union OtherPcs
    BY <2>2, Moved DEF Typed
  <2> QED BY <2>1, <2>3
          DEF PresentAfter, PresentRest, PresentBusy, Resting, Entries, OtherPcs, InLoop
<1>3. CASE public # <<>>
  <2>1. mState = "Mounted" /\ Noticed
    BY <1>3 DEF PresentRest
  <2>2. /\ mState' = "Mounted"
        /\ \/ UnmountVol(t) /\ Goto(t, "unmounting")
           \/ ~UnmountVol(t) /\ Return(t)
    BY <2>1 DEF EntryStep, MountVol, UnmountVol, ShareVolume, UnshareVolume, FormatVol,
                fields, Return
  <2>3. t = "command" => pc'["netlink"] = pc["netlink"]
    BY <2>2 DEF Goto, Return, Typed, PcTyped, Threads
  <2>4. CASE Goto(t, "unmounting")
    <3>1. pc'[t] = "unmounting"
      BY <2>4, Moved DEF Typed
    <3>2. t = "command" => Noticed'
      BY <1>1, <2>1, <2>3, NoticedStays
    <3> QED BY <2>2, <3>1, <3>2
            DEF PresentAfter, PresentBusy, Resting, Entries, OtherPcs, InLoop
  <2>5. CASE ~UnmountVol(t) /\ Return(t)
    <3>1. pc'[t] = "idle"
      BY <2>5, Moved DEF Return, Typed
    <3>2. t = "netlink" => pc["netlink"] # "unmountVol"
      BY <2>5 DEF EntryStep, MountVol, ShareVolume, UnshareVolume, FormatVol
    <3>3. Noticed'
      BY <1>1, <2>1, <2>3, <3>2, NoticedStays DEF Threads
    <3> QED BY <2>2, <3>1, <3>3 DEF PresentAfter, PresentRest, Resting
  <2> QED BY <2>2, <2>4, <2>5
<1> QED BY <1>2, <1>3

PresentGuarded ==
    /\ (\A t \in Threads : Resting(t)) => PresentRest
    /\ \A t \in Threads :
           ~Resting(t) /\ (\A u \in Threads \ {t} : Resting(u)) => PresentBusy(t)

PresentSafe == ~raced /\ ~overrun /\ ~failed /\ ~strayed => PresentGuarded

(* What begins while the other thread is at work leaves the state as it    *)
(* is; the netlink thread that is about to unmount does so.                *)
LEMMA EntryBesidesPresent ==
    ASSUME Typed, Undoing, ~raced, KnownGuarded, PresentGuarded, NEW t \in Threads,
           NEW u \in Threads \ {t}, ~Resting(u), pc'[u] = pc[u], EntryStep(t)
    PROVE  PresentGuarded'
<1>1. \A v \in Threads \ {u} : v = t
  BY DEF Threads
<1>2. /\ Resting(t) /\ nodes'[u] = nodes[u]
      /\ UNCHANGED <<mounts, mCurrentlyMountedKdev, kernel>>
      /\ mState' = mState \/ (mState = "Idle" /\ public # <<>>)
  BY DEF EntryStep, MountVol, UnmountVol, ShareVolume, UnshareVolume, FormatVol, Resting,
         Entries, Typed, PcTyped, fields
<1>3. KnownBusy(u) /\ PresentBusy(u) /\ ~Resting(u)'
  BY <1>1, <1>2 DEF PresentGuarded, KnownGuarded, Resting
<1>4. mState' = mState
  <2> SUFFICES ASSUME mState = "Idle", public # <<>> PROVE FALSE
    BY <1>2
  <2>1. pc[u] \in {"retry", "check", "unmounting", "unmounted"} \union InLoop \union OtherPcs
                  \union TakenApart
    BY DEF Typed, PcTyped, Pcs, MountPcs, UnmountPcs, Resting, Entries, InLoop, TakenApart
  <2>2. pc[u] \notin {"retry", "check", "unmounting", "unmounted"} \union InLoop \union OtherPcs
    BY <1>3 DEF KnownBusy, PresentBusy
  <2> QED BY <2>1, <2>2 DEF Undoing
<1>5. CASE Resting(t)'
  <2>1. pc["netlink"] = "unmountVol" /\ u = "command" /\ mState = "Mounted" => FALSE
    <3> SUFFICES ASSUME pc["netlink"] = "unmountVol", u = "command", mState = "Mounted"
                 PROVE  FALSE
      OBVIOUS
    <3>1. t = "netlink"
      BY DEF Threads
    <3>2. Goto(t, "unmounting")
      BY <3>1 DEF EntryStep, MountVol, UnmountVol, ShareVolume, UnshareVolume, FormatVol
    <3>3. pc'[t] = "unmounting"
      BY <3>2, Moved DEF Typed
    <3> QED BY <1>5, <3>3 DEF Resting, Entries
  <2>2. u = "command" /\ pc[u] = "unmounting" => Noticed'
    <3> SUFFICES ASSUME u = "command", pc[u] = "unmounting" PROVE Noticed'
      OBVIOUS
    <3>1. Noticed /\ mState = "Mounted"
      BY <1>3 DEF PresentBusy
    <3> QED BY <1>2, <2>1, <3>1, NoticedStays
  <2>3. \A d : Present(d) => Present(d)'
    BY <1>2 DEF Present, HasRemoval, kernel
  <2>4. PresentBusy(u)'
    BY <1>2, <1>3, <1>4, <2>2, <2>3 DEF PresentBusy, mounts
  <2> QED BY <1>1, <1>3, <2>4 DEF PresentGuarded
<1>6. CASE ~Resting(t)'
  BY <1>1, <1>3, <1>6 DEF PresentGuarded
<1> QED BY <1>5, <1>6

LEMMA FailedStays ==
    ASSUME failed \in BOOLEAN, NEW t \in Threads, EntryStep(t) \/ InnerStep(t), ~failed'
    PROVE  ~failed
  BY DEF EntryStep, InnerStep, MountVol, UnmountVol, ShareVolume, UnshareVolume, FormatVol,
         Retry, Check, Fsck, Stage, Bind, Tmpfs, Move, Mounted, Unmounting, Unpublish,
         Untmpfs, Unbind, Unstage, Unmounted, Rebind, Retmpfs, Republish, LunWrite,
         Shared, LunClear, Unshared, Formatting, Mbr, Format, AbortMount, GiveUp, history

LEMMA ThreadPresent ==
    ASSUME Typed, Undoing, KnownSafe, PresentSafe, Watch, Watched, NEW t \in Threads,
           EntryStep(t) \/ InnerStep(t)
    PROVE  PresentSafe'
<1> SUFFICES ASSUME ~raced', ~overrun', ~failed', ~strayed'
             PROVE  PresentGuarded'
  BY DEF PresentSafe
<1>0. leaked \in BOOLEAN /\ failed \in BOOLEAN
  BY DEF Typed, StateTyped
<1>1. \A u \in Threads \ {t} : pc'[u] = pc[u]
  BY StepsAlone DEF Goto, Typed, PcTyped
<1>2. ~raced /\ Onward /\ PresentGuarded /\ KnownGuarded
  BY <1>0, FailedStays, WatchOnward DEF Onward, Watch, KnownSafe, PresentSafe
<1>3. CASE \A u \in Threads \ {t} : Resting(u)
  <2>1. KnownAfter(t) /\ PresentAfter(t)
    BY <1>2, <1>3 DEF KnownGuarded, KnownAfter, PresentGuarded, PresentAfter
  <2>2. ASSUME EntryStep(t) PROVE PresentAfter(t)'
    <3>1. Resting(t)
      BY <2>2, EntryEnters DEF Enters
    <3>2. KnownRest /\ PresentRest
      BY <2>1, <3>1 DEF KnownAfter, PresentAfter
    <3> QED BY <2>2, <3>2, EntryPresent
  <2>3. ASSUME InnerStep(t) PROVE PresentAfter(t)'
    <3>1. ~Resting(t)
      BY <1>0, <2>3, InnerIsAtWork
    <3>2. KnownBusy(t) /\ PresentBusy(t)
      BY <2>1, <3>1 DEF KnownAfter, PresentAfter
    <3> QED BY <1>2, <2>3, <3>2, InnerPresent
  <2>4. \A u \in Threads \ {t} : Resting(u)'
    BY <1>1, <1>3 DEF Resting
  <2> QED BY <2>2, <2>3, <2>4 DEF PresentAfter, PresentGuarded
<1>4. ASSUME NEW u \in Threads \ {t}, ~Resting(u) PROVE PresentGuarded'
  <2>1. EntryStep(t)
    BY <1>0, <1>4, BothAtWork, InnerIsAtWork
  <2> QED BY <1>1, <1>2, <1>4, <2>1, EntryBesidesPresent
<1> QED BY <1>3, <1>4

LEMMA BlockEventPresent ==
    ASSUME Typed, PresentSafe, Watch, Watched, BlockEvent
    PROVE  PresentSafe'
<1> SUFFICES ASSUME ~raced', ~overrun', ~failed', ~strayed'
             PROVE  PresentGuarded'
  BY DEF PresentSafe
<1>1. /\ pc["netlink"] = "idle" /\ uevents # <<>> /\ uevents' = Tail(uevents)
      /\ UNCHANGED <<mounts, mCurrentlyMountedKdev, parts, failed>>
  BY DEF BlockEvent, HandleDiskAdded, HandlePartitionAdded, HandleDiskChanged,
         HandleDiskRemoved, HandlePartitionRemoved, Handles
<1>2. \A t \in Threads : Resting(t)
  BY <1>1 DEF Watch, AtWork, Resting, Threads
<1>3. PresentRest
  BY <1>1, <1>2, WatchOnward DEF Onward, Watch, PresentSafe, PresentGuarded
<1>4. ASSUME public' # <<>> PROVE mState' = "Mounted" /\ Noticed'
  <2> DEFINE d == mCurrentlyMountedKdev
  <2>1. mState = "Mounted" /\ Present(d)
    BY <1>1, <1>3, <1>4 DEF PresentRest, Noticed, mounts
  <2>2. mState' = "Mounted"
    BY <2>1 DEF Watch
  <2>3. CASE Head(uevents).action = "partRemove" /\ Head(uevents).part = d
    <3>1. HandlePartitionRemoved
      BY <2>3 DEF BlockEvent, HandleDiskAdded, HandlePartitionAdded, HandleDiskChanged,
                  HandleDiskRemoved, Handles
    <3>2. Goto("netlink", "unmountVol")
      BY <2>1, <2>3, <3>1 DEF HandlePartitionRemoved
    <3>3. pc'["netlink"] = "unmountVol"
      BY <3>2, Moved DEF Typed, Threads
    <3> QED BY <2>2, <3>3 DEF Noticed
  <2>4. CASE ~(Head(uevents).action = "partRemove" /\ Head(uevents).part = d)
    <3>1. uevents \in Seq(BlockEvents)
      BY DEF Typed, KernelTyped, BlockEvents
    <3>2. HasRemoval(uevents, d) => HasRemoval(uevents', d)
      BY <1>1, <2>4, <3>1, RemovalInTail
    <3>3. Present(mCurrentlyMountedKdev)'
      BY <1>1, <2>1, <3>2 DEF Present, HasRemoval
    <3> QED BY <2>2, <3>3 DEF Noticed
  <2> QED BY <2>3, <2>4
<1>5. \A t \in Threads : Resting(t)'
  BY <1>1, <1>2, BlockEventRests
<1> QED BY <1>4, <1>5 DEF PresentGuarded, PresentRest

LEMMA WorldPresent ==
    ASSUME Typed, DiskAsTold, PresentSafe, Watch, Watched, World
    PROVE  PresentSafe'
<1> SUFFICES ASSUME ~raced', ~overrun', ~failed', ~strayed'
             PROVE  PresentGuarded'
  BY DEF PresentSafe
<1>1. UNCHANGED <<fields, mounts, nodes, failed>>
  BY WorldMoves DEF history
<1>2. PresentGuarded
  BY <1>1, WatchOnward DEF Onward, Watch, PresentSafe
<1>3. \A d \in -1..Elsewhere : Present(d) => Present(d)'
  <2>1. CASE UNCHANGED kernel
    BY <2>1, PresentStays DEF kernel
  <2>2. ASSUME NEW n \in 0..MaxParts, NEW bad, Plug(n, bad) \/ Change(n, bad)
        PROVE  \A d \in -1..Elsewhere : Present(d) => Present(d)'
    BY <2>2, Plugged, Repartitioned DEF Change, Typed
  <2> QED BY <2>1, <2>2, Unplugged DEF World, Request, Typed
<1>4. pc'["netlink"] = pc["netlink"]
  BY DEF World, Plug, Change, Unplug, Request, Goto, Typed, PcTyped, Threads
<1>5. Noticed => Noticed'
  BY <1>1, <1>3, <1>4 DEF Noticed, Typed, StateTyped, fields
<1>6. PresentRest => PresentRest'
  BY <1>1, <1>5 DEF PresentRest, mounts, fields
<1>7. ASSUME NEW t \in Threads, ~Resting(t), PresentBusy(t) PROVE PresentBusy(t)'
  <2>1. pc'[t] = pc[t]
    BY <1>7, WorldMoves
  <2>2. pc[t] \in InLoop => Head(nodes[t]).dev \in -1..Elsewhere
    BY NodeTyped, PartsAssumption DEF Typed, Devices, Elsewhere
  <2>3. pc[t] \in {"stage", "bind", "tmpfs", "move", "mounted"} /\ Present(Head(nodes[t]).dev)
            => Present(Head(nodes[t]).dev)'
    <3> SUFFICES ASSUME pc[t] \in {"stage", "bind", "tmpfs", "move", "mounted"},
                        Present(Head(nodes[t]).dev)
                 PROVE  Present(Head(nodes[t]).dev)'
      OBVIOUS
    <3> DEFINE d == Head(nodes[t]).dev
    <3>1. d \in -1..Elsewhere /\ Head(nodes'[t]).dev = d
      BY <1>1, <2>2 DEF InLoop
    <3>2. PICK c \in -1..Elsewhere : c = d
      BY <3>1
    <3>3. Present(c)'
      BY <1>3, <3>2
    <3> QED BY <3>1, <3>2, <3>3 DEF Present
  <2> QED BY <1>1, <1>5, <1>7, <2>1, <2>3 DEF PresentBusy, mounts, fields
<1> QED BY <1>2, <1>6, <1>7, WorldMoves DEF PresentGuarded

(* The step that makes a Mounted volume NoMedia is the last event of a     *)
(* disk, which says that the disk is gone and all its partitions with it.  *)
LEMMA StepUnmounts ==
    ASSUME Typed, KnownSafe, Undoing, DiskAsTold, PresentSafe, Next,
           mState = "Mounted", mState' = "NoMedia", uevents' = <<>>,
           ~raced, ~overrun, ~failed, ~strayed
    PROVE  mCurrentlyMountedKdev = 0
<1>1. ASSUME NEW t \in Threads, EntryStep(t) PROVE FALSE
  BY <1>1, EntryEnters DEF Enters
<1>2. ASSUME NEW t \in Threads, InnerStep(t) PROVE FALSE
  <2>1. CASE Rebind(t) \/ Retmpfs(t) \/ Republish(t)
    BY <2>1 DEF Rebind, Retmpfs, Republish, Undoing, TakenApart
  <2>2. CASE ~(Rebind(t) \/ Retmpfs(t) \/ Republish(t))
    BY <1>2, <2>2
    DEF InnerStep, Retry, Check, Fsck, Stage, Bind, Tmpfs, Move, Mounted, Unmounting,
        Unpublish, Untmpfs, Unbind, Unstage, Unmounted, LunWrite, Shared, LunClear,
        Unshared, Formatting, Mbr, Format, AbortMount, GiveUp, SetState, fields
  <2> QED BY <2>1, <2>2
<1>3. ~World
  BY WorldMoves DEF fields
<1>4. CASE BlockEvent
  <2> DEFINE d == mCurrentlyMountedKdev
  <2>1. HandleDiskRemoved
    BY <1>4 DEF BlockEvent, HandleDiskAdded, HandlePartitionAdded, HandleDiskChanged,
                HandlePartitionRemoved, SetState
  <2>2. /\ pc["netlink"] = "idle" /\ uevents # <<>> /\ Tail(uevents) = <<>>
        /\ Head(uevents).action = "diskRemove"
    BY <2>1 DEF HandleDiskRemoved, Handles
  <2>3. uevents \in Seq(BlockEvents)
    BY DEF Typed, KernelTyped, BlockEvents
  <2>4. parts = 0
    BY <2>2, <2>3, OnlyOne DEF DiskAsTold, Withdrawn
  <2>5. ~HasRemoval(uevents, d)
    <3>1. Len(uevents) = 1
      <4> DEFINE r == Tail(uevents)
      <4>1. Len(uevents) \in Nat /\ Len(r) = Len(uevents) - 1
        BY <2>2, <2>3
      <4>2. r = <<>>
        BY <2>2
      <4> HIDE DEF r
      <4> QED BY <4>1, <4>2
    <3>2. uevents[1].action = "diskRemove"
      BY <2>2, <2>3
    <3> QED BY <3>1, <3>2 DEF HasRemoval
  <2>6. Noticed /\ Known
    <3>1. Resting("netlink") /\ PresentGuarded /\ KnownGuarded
      BY <2>2 DEF Resting, KnownSafe, PresentSafe
    <3>2. CASE Resting("command")
      BY <3>1, <3>2
      DEF PresentGuarded, KnownGuarded, PresentRest, KnownRest, Threads
    <3>3. CASE ~Resting("command")
      BY <3>1, <3>3
      DEF PresentGuarded, KnownGuarded, PresentBusy, KnownBusy, Threads
    <3> QED BY <3>2, <3>3
  <2>7. d \in Devices
    BY <2>6, OneMount DEF Known
  <2> QED BY <2>2, <2>4, <2>5, <2>6, <2>7, PartsAssumption DEF Noticed, Present, Devices, Elsewhere
<1> QED BY <1>1, <1>2, <1>3, <1>4, NextCases

(* When the last event of a pulled disk makes a Mounted volume NoMedia,    *)
(* its partition has been unmounted before, for disks of up to 31          *)
(* partitions and whatever the command thread was doing meanwhile: what is *)
(* left is a file system on the bare disk, an unmount that failed, or a    *)
(* disk with more partitions than deviceNodes has slots, of which mountVol *)
(* has read one that getDeviceNodes never wrote.                           *)
THEOREM PulledIsUnmounted == Spec => RemovalUnmounts
<1>1. Init => Undoing /\ DiskAsTold /\ PresentSafe
  BY DEF Init, Undoing, TakenApart, DiskAsTold, Withdrawn, PresentSafe, PresentGuarded,
         PresentRest, Resting, Threads
<1>2. Typed /\ Watched /\ KnownSafe /\ Undoing /\ DiskAsTold /\ PresentSafe /\ [Next]_vars
      => (Undoing /\ DiskAsTold /\ PresentSafe)'
  <2> SUFFICES ASSUME Typed, Watched, KnownSafe, Undoing, DiskAsTold, PresentSafe, [Next]_vars
               PROVE  (Undoing /\ DiskAsTold /\ PresentSafe)'
    OBVIOUS
  <2>1. CASE UNCHANGED vars
    BY <2>1
    DEF vars, fields, mounts, history, kernel, Undoing, DiskAsTold, Withdrawn, PresentSafe,
        PresentGuarded, PresentRest, PresentBusy, Noticed, Present, HasRemoval, Resting
  <2>2. CASE Next
    <3>1. Undoing' /\ DiskAsTold'
      BY <2>2, NextUndoing, NextDisk
    <3>2. PresentSafe'
      BY <2>2, NextCases, ThreadPresent, BlockEventPresent, WorldPresent
    <3> QED BY <3>1, <3>2
  <2> QED BY <2>1, <2>2
<1>3. Typed /\ KnownSafe /\ Undoing /\ DiskAsTold /\ PresentSafe /\ [Next]_vars
      => [mState = "Mounted" /\ mState' = "NoMedia" /\ uevents' = <<>>
              => raced \/ overrun \/ failed \/ strayed \/ mCurrentlyMountedKdev = 0]_vars
  BY StepUnmounts
<1> QED BY <1>1, <1>2, <1>3, AlwaysTyped, AlwaysWatched, AlwaysKnown, PTL DEF Spec, RemovalUnmounts
=============================================================================
