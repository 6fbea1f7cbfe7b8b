------------------------------- MODULE Volume -------------------------------
(***************************************************************************)
(* Volume.cpp and DirectVolume.cpp of the volume daemon: one removable     *)
(* volume.  Two threads work on it with no lock between them: the netlink  *)
(* thread handles the block events of the kernel, the command thread the   *)
(* requests of the framework.  Both can run mountVol, unmountVol and       *)
(* unshareVolume, whose system calls and setStates are steps of their own; *)
(* what the handler of a block event does before them is one step.         *)
(*                                                                         *)
(* A device is its partition number, 0 for the disk itself; Elsewhere is   *)
(* any device of another disk, which mountVol can reach only by reading    *)
(* past its array of device nodes.  The mount table is kept for the three  *)
(* places the code mounts at: the staging point, the public mount point    *)
(* and the root-only directory of the secure containers.  Mounts stack,    *)
(* and the tmpfs that hides the containers is a child of the file system   *)
(* it is mounted in and moves with it.                                     *)
(***************************************************************************)
EXTENDS Integers, Sequences

CONSTANTS
    Primary,    \* isPrimaryStorage()
    PartIdx,    \* mPartIdx: the partition the volume is, 0 for any (-1)
    MAX_PARTITIONS, \* the last partition number that is taken
    DeviceSlots,    \* the size of mountVol's deviceNodes
    StackHolds,     \* the devices that may lie on the stack behind it
    MaxParts,   \* bound: partitions of a disk
    MaxPlugs,   \* bound: disks plugged in or changed
    MaxCalls    \* bound: requests of the framework

ASSUME PrimaryAssumption == Primary \in BOOLEAN
ASSUME PartsAssumption == MaxParts \in 1..31 /\ PartIdx \in 0..MaxParts    \* a bit of an int each
ASSUME SlotsAssumption == MAX_PARTITIONS \in Nat \ {0} /\ DeviceSlots \in Nat \ {0}
ASSUME StackAssumption == StackHolds \subseteq 0..MaxParts + 1
ASSUME BoundsAssumption == MaxPlugs \in Nat /\ MaxCalls \in Nat

VARIABLES
    mState, mRetryMount, mCurrentlyMountedKdev,     \* Volume
    mDiskNumParts, mPendingPartMap,                 \* DirectVolume
    staging, public, asec,  \* the mount table: stacks of mounts, last on top
    lun,        \* the device is exported to the USB host
    plugged,    \* the disk is there
    parts,      \* and has this many partitions
    uevents,    \* block events the netlink thread has not read yet
    pc, nodes,  \* where each thread is, and the devices its mountVol has left
    plugs, calls,   \* counters for the bounds
    asked,      \* history: a mount was asked for while Pending, for this disk
    before,     \* history: the mounts when unmountVol began
    refused,    \* history: a mount() of that unmountVol failed
    leaked,     \* history: mountVol or unmountVol gave up and left mounts
    failed,     \* history: unmountVol gave up
    raced,      \* history: the two threads have been at work together
    orphan,     \* history: mRetryMount was set in, or came to, another state
    overrun,    \* history: an event changed the state Mounted or Shared
    strayed     \* history: mountVol has read past its device nodes

fields == <<mState, mRetryMount, mCurrentlyMountedKdev>>
disk == <<mDiskNumParts, mPendingPartMap>>
mounts == <<staging, public, asec>>
kernel == <<plugged, parts, uevents, plugs>>
history == <<asked, before, refused, leaked, failed>>
vars == <<fields, disk, mounts, lun, kernel, pc, nodes, calls, history, raced, orphan, overrun,
          strayed>>

Threads == {"netlink", "command"}
States == {"NoMedia", "Idle", "Pending", "Checking", "Mounted", "Unmounting",
           "Formatting", "Shared"}
MountPcs == {"mountVol", "retry", "check", "fsck", "stage", "bind", "tmpfs",
             "move", "mounted"}
UnmountPcs == {"unmountVol", "unmounting", "unpublish", "untmpfs", "unbind",
               "unstage", "unmounted", "rebind", "retmpfs", "republish"}
OtherPcs == {"formatVol", "formatting", "mbr", "format", "shareVolume", "lunWrite", "shared",
             "unshareVolume", "lunClear", "unshared"}
Pcs == {"idle"} \union MountPcs \union UnmountPcs \union OtherPcs

InLoop == {"fsck", "stage", "bind", "tmpfs", "move", "mounted"}
Actions == {"diskAdd", "diskChange", "diskRemove", "partAdd", "partRemove"}

Entries == {"mountVol", "unmountVol", "formatVol", "shareVolume", "unshareVolume"}
AtWork(t) == pc[t] \notin {"idle"} \union Entries

Top(s) == s[Len(s)]
Pop(s) == SubSeq(s, 1, Len(s) - 1)
WithTmpfs(s, n) == Append(Pop(s), [dev |-> Top(s).dev, tmpfs |-> n])

Elsewhere == MaxParts + 1
Devices == 0..Elsewhere
IsThere(d) == IF d = 0 THEN plugged ELSE d <= parts \/ d = Elsewhere
Node(t) == Head(nodes[t]).dev
Past(t) == Head(nodes[t]).past

Init ==
    /\ mState = "NoMedia"
    /\ mRetryMount = FALSE
    /\ mCurrentlyMountedKdev = -1
    /\ mDiskNumParts = 0
    /\ mPendingPartMap = {}
    /\ staging = <<>> /\ public = <<>> /\ asec = <<>>
    /\ lun = FALSE
    /\ plugged = FALSE /\ parts = 0 /\ uevents = <<>>
    /\ pc = [t \in Threads |-> "idle"]
    /\ nodes = [t \in Threads |-> <<>>]
    /\ plugs = 0 /\ calls = 0
    /\ asked = FALSE /\ before = <<>>
    /\ refused = FALSE /\ leaked = FALSE /\ failed = FALSE
    /\ raced = FALSE /\ orphan = FALSE /\ overrun = FALSE /\ strayed = FALSE

(* Mutant of SetState: a retry outlives the disk it was asked for.         *)
SetStateKeepsRetry(s) ==
    /\ mState' = s
    /\ UNCHANGED mRetryMount

SetState(s) ==
    /\ mState' = s
    /\ mRetryMount' = (mRetryMount /\ (mState = "Pending" => s \in {"Idle", "Pending"}))

Goto(t, label) == pc' = [pc EXCEPT ![t] = label]
Return(t) == Goto(t, "idle")

-----------------------------------------------------------------------------
(* mountVol                                                                *)

(* getDeviceNodes fills DeviceSlots nodes at most but returns              *)
(* mDiskNumParts: behind the last slot the loop reads whatever the stack   *)
(* holds there.                                                            *)
DeviceNodes ==
    LET own(d) == [dev |-> d, past |-> FALSE]
        read(d) == [dev |-> d, past |-> TRUE] IN
    IF PartIdx # 0 THEN {<<own(PartIdx)>>}
    ELSE IF mDiskNumParts = 0 THEN {<<own(0)>>}
    ELSE {[i \in 1..mDiskNumParts |-> IF i <= DeviceSlots THEN own(i) ELSE read(stack[i])] :
              stack \in [DeviceSlots + 1..mDiskNumParts -> StackHolds]}

MountVol(t) ==
    /\ pc[t] = "mountVol"
    /\ \/ /\ mState = "Pending"
          /\ Goto(t, "retry")
          /\ UNCHANGED <<fields, nodes>>
       \/ /\ mState \notin {"Pending", "Idle"}
          /\ Return(t)
          /\ UNCHANGED <<fields, nodes>>
       \/ /\ mState = "Idle" /\ public # <<>>      \* "fixing"
          /\ SetState("Mounted")
          /\ Return(t)
          /\ UNCHANGED <<mCurrentlyMountedKdev, nodes>>
       \/ /\ mState = "Idle" /\ public = <<>>
          /\ Goto(t, "check")
          /\ \E devs \in DeviceNodes : nodes' = [nodes EXCEPT ![t] = devs]
          /\ UNCHANGED fields
    /\ UNCHANGED <<disk, mounts, lun, kernel, calls, history>>

Retry(t) ==
    /\ pc[t] = "retry"
    /\ mRetryMount' = TRUE
    /\ asked' = TRUE
    /\ Return(t)
    /\ UNCHANGED <<mState, mCurrentlyMountedKdev, disk, mounts, lun, kernel, nodes,
                   calls, before, refused, leaked, failed>>

(* The loop over the device nodes: when they are exhausted, back to Idle.  *)
Check(t) ==
    /\ pc[t] = "check"
    /\ IF nodes[t] # <<>>
       THEN SetState("Checking") /\ Goto(t, "fsck")
       ELSE SetState("Idle") /\ Return(t)
    /\ UNCHANGED <<mCurrentlyMountedKdev, disk, mounts, lun, kernel, nodes, calls, history>>

(* Fat::check: a file system that is not FAT passes, an error aborts.      *)
Fsck(t) ==
    /\ pc[t] = "fsck"
    /\ \/ /\ IsThere(Node(t))
          /\ Goto(t, "stage")
          /\ UNCHANGED fields
       \/ /\ SetState("Idle")
          /\ Return(t)
          /\ UNCHANGED mCurrentlyMountedKdev
    /\ UNCHANGED <<disk, mounts, lun, kernel, nodes, calls, history>>

(* doMount; the kernel refuses to mount a device over itself.              *)
Stage(t) ==
    /\ pc[t] = "stage"
    /\ \/ /\ IsThere(Node(t))
          /\ staging # <<>> => Top(staging).dev # Node(t)
          /\ staging' = Append(staging, [dev |-> Node(t), tmpfs |-> 0])
          /\ Goto(t, IF Primary THEN "bind" ELSE "move")
          /\ UNCHANGED nodes
       \/ /\ nodes' = [nodes EXCEPT ![t] = Tail(@)]
          /\ Goto(t, "check")
          /\ UNCHANGED staging
    /\ UNCHANGED <<fields, disk, public, asec, lun, kernel, calls, history>>

(* umount() of the staging point, whose result nobody looks at: it may     *)
(* fail, and is busy while the tmpfs is mounted in it.                     *)
DropStaging ==
    \/ staging # <<>> /\ Top(staging).tmpfs = 0 /\ staging' = Pop(staging)
    \/ UNCHANGED staging

AbortMount(t) ==
    /\ DropStaging
    /\ SetState("Idle")
    /\ Return(t)
    /\ leaked' = (leaked \/ (Primary /\ pc[t] # "bind") \/ staging' # <<>>)
    /\ UNCHANGED <<mCurrentlyMountedKdev, public, asec, asked, before, refused, failed>>

(* createBindMounts: the bind mount of the secure directory ...            *)
Bind(t) ==
    /\ pc[t] = "bind"
    /\ \/ /\ staging # <<>>
          /\ asec' = Append(asec, Top(staging).dev)
          /\ Goto(t, "tmpfs")
          /\ UNCHANGED <<fields, staging, public, history>>
       \/ AbortMount(t)
    /\ UNCHANGED <<disk, lun, kernel, nodes, calls>>

(* ... and the tmpfs over it.  When that fails the code unmounts a path    *)
(* nothing is mounted at: the bind mount stays.                            *)
Tmpfs(t) ==
    /\ pc[t] = "tmpfs"
    /\ \/ /\ staging # <<>>
          /\ staging' = WithTmpfs(staging, Top(staging).tmpfs + 1)
          /\ Goto(t, "move")
          /\ UNCHANGED <<fields, public, asec, history>>
       \/ AbortMount(t)
    /\ UNCHANGED <<disk, lun, kernel, nodes, calls>>

(* doMoveMount(staging, mount point), then the new state and device: the   *)
(* node is read again, and behind the last slot it may have changed.       *)
Move(t) ==
    /\ pc[t] = "move"
    /\ \/ /\ staging # <<>>
          /\ public' = Append(public, Top(staging))
          /\ staging' = Pop(staging)
          /\ Goto(t, "mounted")
          /\ UNCHANGED <<fields, asec, history>>
       \/ AbortMount(t)
    /\ UNCHANGED <<disk, lun, kernel, nodes, calls>>

Mounted(t) ==
    /\ pc[t] = "mounted"
    /\ SetState("Mounted")
    /\ mCurrentlyMountedKdev' \in IF Past(t) THEN StackHolds ELSE {Node(t)}
    /\ Return(t)
    /\ UNCHANGED <<disk, mounts, lun, kernel, nodes, calls, history>>

-----------------------------------------------------------------------------
(* unmountVol                                                              *)

UnmountVol(t) ==
    /\ pc[t] = "unmountVol"
    /\ IF mState = "Mounted"
       THEN Goto(t, "unmounting") /\ before' = mounts /\ refused' = FALSE
       ELSE Return(t) /\ UNCHANGED <<before, refused>>
    /\ UNCHANGED <<fields, disk, mounts, lun, kernel, nodes, calls, asked, leaked, failed>>

Unmounting(t) ==
    /\ pc[t] = "unmounting"
    /\ SetState("Unmounting")
    /\ Goto(t, "unpublish")
    /\ UNCHANGED <<mCurrentlyMountedKdev, disk, mounts, lun, kernel, nodes, calls, history>>

(* Mutant of GiveUp: the volume is called Mounted although nothing is.      *)
GiveUpMounted(t, s) ==
    /\ SetState("Mounted")
    /\ Return(t)
    /\ failed' = TRUE
    /\ leaked' = (leaked \/ s = "NoMedia")
    /\ UNCHANGED <<mCurrentlyMountedKdev, mounts, asked, before>>

(* Leave unmountVol in state s.                                            *)
GiveUp(t, s) ==
    /\ SetState(s)
    /\ Return(t)
    /\ failed' = TRUE
    /\ leaked' = (leaked \/ s = "NoMedia")
    /\ UNCHANGED <<mCurrentlyMountedKdev, mounts, asked, before>>

(* doMoveMount(mount point, staging)                                       *)
Unpublish(t) ==
    /\ pc[t] = "unpublish"
    /\ \/ /\ public # <<>>
          /\ staging' = Append(staging, Top(public))
          /\ public' = Pop(public)
          /\ Goto(t, IF Primary THEN "untmpfs" ELSE "unstage")
          /\ UNCHANGED <<fields, asec, history>>
       \/ GiveUp(t, "Mounted") /\ UNCHANGED refused
    /\ UNCHANGED <<disk, lun, kernel, nodes, calls>>

(* doUnmount takes "not mounted" for success; a failure means busy.        *)
Untmpfs(t) ==
    /\ pc[t] = "untmpfs"
    /\ LET hidden == staging # <<>> /\ Top(staging).tmpfs > 0 IN
       \/ /\ staging' = IF hidden THEN WithTmpfs(staging, Top(staging).tmpfs - 1)
                                  ELSE staging
          /\ Goto(t, "unbind")
       \/ /\ hidden
          /\ Goto(t, "republish")
          /\ UNCHANGED staging
    /\ UNCHANGED <<fields, disk, public, asec, lun, kernel, nodes, calls, history>>

(* Mutant of Unbind: a failure jumps past the label that mounts the tmpfs. *)
UnbindNoTmpfs(t) ==
    /\ pc[t] = "unbind"
    /\ \/ /\ asec' = IF asec # <<>> THEN Pop(asec) ELSE asec
          /\ Goto(t, "unstage")
       \/ /\ asec # <<>>
          /\ Goto(t, "republish")
          /\ UNCHANGED asec
    /\ UNCHANGED <<fields, disk, staging, public, lun, kernel, nodes, calls, history>>

Unbind(t) ==
    /\ pc[t] = "unbind"
    /\ \/ /\ asec' = IF asec # <<>> THEN Pop(asec) ELSE asec
          /\ Goto(t, "unstage")
       \/ /\ asec # <<>>
          /\ Goto(t, "retmpfs")
          /\ UNCHANGED asec
    /\ UNCHANGED <<fields, disk, staging, public, lun, kernel, nodes, calls, history>>

Unstage(t) ==
    /\ pc[t] = "unstage"
    /\ \/ /\ staging # <<>> => Top(staging).tmpfs = 0
          /\ staging' = IF staging # <<>> THEN Pop(staging) ELSE staging
          /\ Goto(t, "unmounted")
       \/ /\ staging # <<>>
          /\ Goto(t, "rebind")
          /\ UNCHANGED staging
    /\ UNCHANGED <<fields, disk, public, asec, lun, kernel, nodes, calls, history>>

Unmounted(t) ==
    /\ pc[t] = "unmounted"
    /\ SetState("Idle")
    /\ mCurrentlyMountedKdev' = -1
    /\ Return(t)
    /\ UNCHANGED <<disk, mounts, lun, kernel, nodes, calls, history>>

(* Failure handling: each label falls through to the next; a mount that    *)
(* cannot be restored makes the volume NoMedia.                            *)
Rebind(t) ==
    /\ pc[t] = "rebind"
    /\ \/ /\ staging # <<>>
          /\ asec' = Append(asec, Top(staging).dev)
          /\ Goto(t, "retmpfs")
          /\ UNCHANGED <<fields, staging, public, history>>
       \/ GiveUp(t, "NoMedia") /\ refused' = TRUE
    /\ UNCHANGED <<disk, lun, kernel, nodes, calls>>

Retmpfs(t) ==
    /\ pc[t] = "retmpfs"
    /\ \/ /\ staging # <<>>
          /\ staging' = WithTmpfs(staging, Top(staging).tmpfs + 1)
          /\ Goto(t, "republish")
          /\ UNCHANGED <<fields, public, asec, history>>
       \/ GiveUp(t, "NoMedia") /\ refused' = TRUE
    /\ UNCHANGED <<disk, lun, kernel, nodes, calls>>

Republish(t) ==
    /\ pc[t] = "republish"
    /\ \/ /\ staging # <<>>
          /\ public' = Append(public, Top(staging))
          /\ staging' = Pop(staging)
          /\ SetState("Mounted")
          /\ Return(t)
          /\ failed' = TRUE
          /\ UNCHANGED <<mCurrentlyMountedKdev, asec, asked, before, refused, leaked>>
       \/ GiveUp(t, "NoMedia") /\ refused' = TRUE
    /\ UNCHANGED <<disk, lun, kernel, nodes, calls>>

-----------------------------------------------------------------------------
(* What the kernel reports.  A disk comes with its partitions, and may     *)
(* have one the daemon will not take: an invalid PARTN, or another major.  *)

Announce(n, bad) ==
    [i \in 1..n |-> [action |-> "partAdd", part |-> i, ok |-> i # bad]]
Withdraw == [i \in 1..parts |-> [action |-> "partRemove", part |-> i, ok |-> TRUE]]
DiskEvent(action, n) == <<[action |-> action, part |-> n, ok |-> TRUE]>>

Repartition(n, bad) ==
    /\ parts' = n
    /\ uevents' = uevents \o Withdraw \o DiskEvent("diskChange", n) \o Announce(n, bad)
    /\ UNCHANGED plugged

-----------------------------------------------------------------------------
(* formatVol                                                               *)

FormatVol(t) ==
    /\ pc[t] = "formatVol"
    /\ \/ /\ mState = "Idle" /\ public = <<>>
          /\ Goto(t, "formatting")
          /\ UNCHANGED <<mState, mRetryMount>>
       \/ /\ mState = "Idle" /\ public # <<>>      \* "fixing"
          /\ SetState("Mounted")
          /\ Return(t)
       \/ /\ mState # "Idle"
          /\ Return(t)
          /\ UNCHANGED <<mState, mRetryMount>>
    /\ UNCHANGED <<mCurrentlyMountedKdev, disk, mounts, lun, kernel, nodes, calls, history>>

Formatting(t) ==
    /\ pc[t] = "formatting"
    /\ SetState("Formatting")
    /\ Goto(t, IF PartIdx = 0 THEN "mbr" ELSE "format")
    /\ UNCHANGED <<mCurrentlyMountedKdev, disk, mounts, lun, kernel, nodes, calls, history>>

(* initializeMbr; the kernel reads the new partition table.                *)
Mbr(t) ==
    /\ pc[t] = "mbr"
    /\ \/ /\ plugged
          /\ Repartition(1, 0)
          /\ Goto(t, "format")
          /\ UNCHANGED <<mState, mRetryMount>>
       \/ /\ SetState("Idle")
          /\ Return(t)
          /\ UNCHANGED <<plugged, parts, uevents>>
    /\ UNCHANGED <<mCurrentlyMountedKdev, disk, mounts, lun, plugs, nodes, calls, history>>

(* Fat::format fails or not: the volume is Idle.                           *)
Format(t) ==
    /\ pc[t] = "format"
    /\ SetState("Idle")
    /\ Return(t)
    /\ UNCHANGED <<mCurrentlyMountedKdev, disk, mounts, lun, kernel, nodes, calls, history>>

-----------------------------------------------------------------------------
(* VolumeManager::shareVolume and unshareVolume: state, LUN file, state.   *)

(* Mutant of ShareVolume: a mounted volume can be shared too.              *)
ShareVolumeMounted(t) ==
    /\ pc[t] = "shareVolume"
    /\ Goto(t, IF mState \in {"Idle", "Mounted"} THEN "lunWrite" ELSE "idle")
    /\ UNCHANGED <<fields, disk, mounts, lun, kernel, nodes, calls, history>>

ShareVolume(t) ==
    /\ pc[t] = "shareVolume"
    /\ Goto(t, IF mState = "Idle" THEN "lunWrite" ELSE "idle")
    /\ UNCHANGED <<fields, disk, mounts, lun, kernel, nodes, calls, history>>

LunWrite(t) ==
    /\ pc[t] = "lunWrite"
    /\ \/ lun' = TRUE /\ Goto(t, "shared")
       \/ Return(t) /\ UNCHANGED lun
    /\ UNCHANGED <<fields, disk, mounts, kernel, nodes, calls, history>>

Shared(t) ==
    /\ pc[t] = "shared"
    /\ SetState("Shared")
    /\ Return(t)
    /\ UNCHANGED <<mCurrentlyMountedKdev, disk, mounts, lun, kernel, nodes, calls, history>>

UnshareVolume(t) ==
    /\ pc[t] = "unshareVolume"
    /\ Goto(t, IF mState = "Shared" THEN "lunClear" ELSE "idle")
    /\ UNCHANGED <<fields, disk, mounts, lun, kernel, nodes, calls, history>>

LunClear(t) ==
    /\ pc[t] = "lunClear"
    /\ \/ lun' = FALSE /\ Goto(t, "unshared")
       \/ Return(t) /\ UNCHANGED lun
    /\ UNCHANGED <<fields, disk, mounts, kernel, nodes, calls, history>>

Unshared(t) ==
    /\ pc[t] = "unshared"
    /\ SetState("Idle")
    /\ Return(t)
    /\ UNCHANGED <<mCurrentlyMountedKdev, disk, mounts, lun, kernel, nodes, calls, history>>

-----------------------------------------------------------------------------
(* DirectVolume::handleBlockEvent, on the netlink thread between calls.    *)

Handles(action) ==
    /\ pc["netlink"] = "idle"
    /\ uevents # <<>>
    /\ Head(uevents).action = action
    /\ uevents' = Tail(uevents)
    /\ UNCHANGED <<mCurrentlyMountedKdev, mounts, lun, plugged, parts, nodes, plugs,
                   calls, before, refused, leaked, failed>>

HandleDiskAdded ==
    /\ Handles("diskAdd")
    /\ mDiskNumParts' = Head(uevents).part
    /\ mPendingPartMap' = 1..Head(uevents).part
    /\ SetState(IF Head(uevents).part = 0 THEN "Idle" ELSE "Pending")
    /\ UNCHANGED <<pc, asked>>

HandlePartitionAdded ==
    /\ Handles("partAdd")
    /\ LET part == Head(uevents).part
           left == mPendingPartMap \ {part} IN
       \/ /\ ~Head(uevents).ok \/ part > MAX_PARTITIONS       \* no valid PARTN
          /\ UNCHANGED <<disk, mState, mRetryMount, pc>>
       \/ /\ ~Head(uevents).ok /\ part <= MAX_PARTITIONS      \* another major
          /\ mDiskNumParts' = IF part > mDiskNumParts THEN part ELSE mDiskNumParts
          /\ UNCHANGED <<mPendingPartMap, mState, mRetryMount, pc>>
       \/ /\ Head(uevents).ok /\ part <= MAX_PARTITIONS
          /\ mDiskNumParts' = IF part > mDiskNumParts THEN part ELSE mDiskNumParts
          /\ mPendingPartMap' = left
          /\ IF left = {} /\ mState # "Formatting"
             THEN /\ mState' = "Idle"
                  /\ mRetryMount' = FALSE
                  /\ pc' = [pc EXCEPT !["netlink"] = IF mRetryMount THEN "mountVol" ELSE @]
             ELSE UNCHANGED <<mState, mRetryMount, pc>>
    /\ UNCHANGED asked

HandleDiskChanged ==
    /\ Handles("diskChange")
    /\ mDiskNumParts' = Head(uevents).part
    /\ mPendingPartMap' = 1..Head(uevents).part
    /\ IF mState = "Formatting"
       THEN UNCHANGED <<mState, mRetryMount>>
       ELSE SetState(IF Head(uevents).part = 0 THEN "Idle" ELSE "Pending")
    /\ UNCHANGED <<pc, asked>>

(* Mutant of HandleDiskRemoved: a shared volume keeps its state.           *)
HandleDiskRemovedUnshared ==
    /\ Handles("diskRemove")
    /\ IF mState = "Shared" THEN UNCHANGED <<mState, mRetryMount>> ELSE SetState("NoMedia")
    /\ asked' = FALSE
    /\ UNCHANGED <<disk, pc>>

HandleDiskRemoved ==
    /\ Handles("diskRemove")
    /\ SetState("NoMedia")
    /\ asked' = FALSE
    /\ UNCHANGED <<disk, pc>>

(* Mutant of HandlePartitionRemoved: only a shared volume is looked after. *)
HandlePartitionRemovedShared ==
    /\ Handles("partRemove")
    /\ Goto("netlink", IF mState = "Shared" THEN "unshareVolume" ELSE "idle")
    /\ UNCHANGED <<mState, mRetryMount, disk, asked>>

(* Only the partition that is mounted matters, or any if shared.           *)
HandlePartitionRemoved ==
    /\ Handles("partRemove")
    /\ Goto("netlink",
            IF mState \notin {"Mounted", "Shared"} THEN "idle"
            ELSE IF Head(uevents).part = mCurrentlyMountedKdev THEN "unmountVol"
            ELSE IF mState = "Shared" THEN "unshareVolume" ELSE "idle")
    /\ UNCHANGED <<mState, mRetryMount, disk, asked>>

-----------------------------------------------------------------------------
(* The world: disks come, change and go; the framework sends requests.     *)

Quiet == UNCHANGED <<fields, disk, mounts, lun, nodes, history>>

Plug(n, bad) ==
    /\ ~plugged
    /\ plugs < MaxPlugs
    /\ plugs' = plugs + 1
    /\ plugged' = TRUE
    /\ parts' = n
    /\ uevents' = uevents \o DiskEvent("diskAdd", n) \o Announce(n, bad)
    /\ UNCHANGED <<pc, calls>> /\ Quiet

Change(n, bad) ==
    /\ plugged
    /\ plugs < MaxPlugs
    /\ plugs' = plugs + 1
    /\ Repartition(n, bad)
    /\ UNCHANGED <<pc, calls>> /\ Quiet

Unplug ==
    /\ plugged
    /\ plugged' = FALSE
    /\ parts' = 0
    /\ uevents' = uevents \o Withdraw \o DiskEvent("diskRemove", 0)
    /\ UNCHANGED <<pc, plugs, calls>> /\ Quiet

Request ==
    /\ pc["command"] = "idle"
    /\ calls < MaxCalls
    /\ calls' = calls + 1
    /\ \E entry \in Entries : Goto("command", entry)
    /\ UNCHANGED kernel /\ Quiet

-----------------------------------------------------------------------------
ThreadStep(t) ==
    \/ MountVol(t) \/ Retry(t) \/ Check(t) \/ Fsck(t) \/ Stage(t) \/ Bind(t)
    \/ Tmpfs(t) \/ Move(t) \/ Mounted(t)
    \/ UnmountVol(t) \/ Unmounting(t) \/ Unpublish(t) \/ Untmpfs(t) \/ Unbind(t)
    \/ Unstage(t) \/ Unmounted(t) \/ Rebind(t) \/ Retmpfs(t) \/ Republish(t)
    \/ ShareVolume(t) \/ LunWrite(t) \/ Shared(t)
    \/ UnshareVolume(t) \/ LunClear(t) \/ Unshared(t)

CommandStep ==
    \/ ThreadStep("command")
    \/ FormatVol("command") \/ Formatting("command") \/ Mbr("command") \/ Format("command")

BlockEvent ==
    \/ HandleDiskAdded \/ HandlePartitionAdded \/ HandleDiskChanged
    \/ HandleDiskRemoved \/ HandlePartitionRemoved

NetlinkStep == ThreadStep("netlink") \/ BlockEvent

World ==
    \/ \E n \in 0..MaxParts : \E bad \in 0..n : Plug(n, bad) \/ Change(n, bad)
    \/ Unplug
    \/ Request

(* The histories of what the two threads do to each other.                 *)
Watch ==
    /\ raced' = \/ raced
                \/ AtWork("command") /\ AtWork("netlink")
                \/ AtWork("command") /\ BlockEvent
    /\ orphan' = \/ orphan
                 \/ mRetryMount' /\ mState' = "Idle"
                 \/ mRetryMount' /\ ~mRetryMount /\ mState' # "Pending"
    /\ overrun' = \/ overrun
                  \/ mState \in {"Mounted", "Shared"} /\ BlockEvent /\ mState' # mState
    /\ strayed' = (strayed \/ \E t \in Threads : (pc[t] \in InLoop /\ Past(t))')

Next == (CommandStep \/ NetlinkStep \/ World) /\ Watch

Spec == Init /\ [][Next]_vars

-----------------------------------------------------------------------------
(* A file system that is mounted, and the tmpfs mounted in it.             *)
Mounts == [dev : Devices, tmpfs : Nat]
Nodes == [dev : 0..MaxParts, past : {FALSE}] \union [dev : Devices, past : {TRUE}]

TypeOK ==
    /\ mState \in States
    /\ mRetryMount \in BOOLEAN
    /\ mCurrentlyMountedKdev \in -1..Elsewhere
    /\ mDiskNumParts \in 0..MaxParts
    /\ mPendingPartMap \subseteq 1..MaxParts
    /\ staging \in Seq(Mounts)
    /\ public \in Seq(Mounts)
    /\ asec \in Seq(Devices)
    /\ lun \in BOOLEAN
    /\ plugged \in BOOLEAN
    /\ parts \in 0..MaxParts
    /\ pc \in [Threads -> Pcs]
    /\ nodes \in [Threads -> Seq(Nodes)]
    /\ \A t \in Threads : pc[t] \in InLoop => nodes[t] # <<>>
    /\ uevents \in Seq([action : Actions, part : 0..MaxParts, ok : BOOLEAN])
    /\ {raced, orphan, overrun, strayed, asked, failed, leaked} \subseteq BOOLEAN

AtRest == \A t \in Threads : pc[t] = "idle"

(* While the device is exported to the USB host none of its file systems   *)
(* is mounted, unless the two threads worked at once, an event overwrote   *)
(* the state of a mounted or shared volume, or a mount that was given up   *)
(* left something behind (mountVol, unmountVol, shareVolume).              *)
ExportedIsUnmounted ==
    lun => raced \/ overrun \/ leaked \/ mounts = <<<<>>, <<>>, <<>>>>

(* A volume at rest in state Mounted has its file system at the public     *)
(* mount point, and knows the device, by which a bad removal is            *)
(* recognized, unless mountVol read past its device nodes.                 *)
MountedIsPublished ==
    mState = "Mounted" /\ AtRest /\ ~raced
        => public # <<>> /\ (strayed \/ mCurrentlyMountedKdev = Top(public).dev)

(* An unmountVol that fails leaves every mount as it found it, and the     *)
(* volume Mounted, unless the kernel refuses a mount it tries to restore.  *)
FailedUnmountRestores ==
    [][\A t \in Threads :
           /\ pc[t] \in UnmountPcs \ {"unmountVol"}
           /\ pc'[t] = "idle"
           /\ mState' # "Idle"
           /\ ~refused' /\ ~raced'
           => mState' = "Mounted" /\ mounts' = before]_vars

(* The netlink thread mounts a disk only if the framework asked for it     *)
(* before the last disk was removed: a retry is not carried over to the    *)
(* next disk, unless it was left behind in an Idle volume or set in one    *)
(* that was no longer Pending (setState clears it on the way out only).    *)
RetryWasAsked ==
    [][pc["netlink"] = "idle" /\ pc'["netlink"] = "mountVol" => asked \/ orphan]_vars

(* When the last event of a pulled disk makes a Mounted volume NoMedia,    *)
(* its partition has been unmounted before: what is left is a file system  *)
(* on the bare disk, an unmount that failed, or a device that was read     *)
(* behind the device nodes (handlePartitionRemoved).                       *)
RemovalUnmounts ==
    [][mState = "Mounted" /\ mState' = "NoMedia" /\ uevents' = <<>>
           => raced \/ overrun \/ failed \/ strayed \/ mCurrentlyMountedKdev = 0]_vars

(* A disk that is gone is seen to be gone: when its events are handled and *)
(* no request is at work the volume is NoMedia, in whatever state it was   *)
(* removed, unless a request was at work while they were handled.          *)
GoneIsSeen ==
    ~plugged /\ uevents = <<>> /\ AtRest /\ ~raced => mState = "NoMedia"
=============================================================================
