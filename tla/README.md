# gyromouse: a TLA+ verification of the sensor mouse and of two platform components

The repository has two unrelated parts, and this project covers some of each.

`src/framework_library_code/SensorMouse2` is an Android application that turns a
phone into a one-handed pointer. A service draws two overlay windows: a cursor,
moved by tilting the phone, and a floating button. Touching the button clicks
where the cursor is (where it *was* a moment ago, to be exact: pressing the
button shakes the phone); dragging it makes a key, a zoom, or moves the button to
the other side of the screen. The events are injected into the system by a
thread of the service. All of the application that keeps state is modelled.

`src/framework_library_code/frameworks` is 259 files of the Android platform, most
of them C++, copied into one flat directory without their headers or build files.
The application neither refers to them nor is built with them. Two components of
theirs are protocols of several threads, complete enough to be read as programs,
and have been modelled: a **volume** of the volume daemon (`Volume.cpp`,
`DirectVolume.cpp`, and the parts of `VolumeManager.cpp` that share it) and the
**video encoder** (`omx_video_base.cpp`, with `omx_video_encoder.cpp` and
`video_encoder_device.cpp`). What the others are, and why they are left, is in
section 6.

File names below are relative to
`src/framework_library_code/SensorMouse2/src/jwisp/sensormouse/` for Java and to
`src/framework_library_code/frameworks/` for C++.

## 1. Inventory

### Components, their state and operations

| Component | State | Operations | Threads |
|---|---|---|---|
| **Service** `activity/ControllerService.java` | the managers it owns | `onStartCommand`, `onConfigurationChanged`, `onDestroy` | main |
| **Button window** `button/ButtonManager.java` | `alreadyAdded`, side of the button, its handler thread and listener | `startButton`, `stopButton`, `handler` (flip the side) | main |
| **Touch button** `button/ButtonEventListener.java` | `eventSendState`, `modeFlag`, `modeStateCount`, delayed messages on the main looper | `onTouch`, `onReceive` (TOUCH_ACTION_UP), `sendEventRunnable`, `modeHandler`, `setRight` | main |
| **Event queue** `button/EventQueueHandler.java` | a `LinkedList`, `goon` | `pushMotionEvent`, `stopThread`; `run`, `generateZoomGesture` | main and its own |
| **Cursor** `mouse/MouseManager.java`, `AverageComputerForService.java`, `MSensorManagerForService.java` | position, `alreadyAdded`, `updateSwitch`, the batch of samples, the registered listener | `startMouse`, `stopMouse`, `setPortrait`, `sensorCallback`, `lockMouseAWhile`, the timer task | main and one per lock |
| **Position trace** `mouse/TimeBackCompute.java` | ring of positions, `pointer`, `goon` | `run` (sampling), `getTimebackPosition`, `stopTimeBackCompute` | main and its own |
| **Data log** `button/DataLogHelper.java` | `open`, `timeFormat`, `outStream`, the file | `writeALine`, `open`, `close` | main and every sampler |
| **Settings** `setting/*`, `button/ButtonSettingActivity.java`, `mouse/AverageComputer.java` | preferences, the preview's average | preference listeners | main |
| **Sensor screens** `sensor/*` | one registration each | `onResume`, `onPause`, callback | main |
| **Activities** `activity/MainActivity.java`, `mouse/MouseStartActivity.java` | none | `startService`, `stopService` | main |
| **Volume** `Volume.cpp`, `DirectVolume.cpp`, part of `VolumeManager.cpp` | `mState`, `mRetryMount`, `mCurrentlyMountedKdev`, the disk's partitions; in the kernel the mounts and the exported LUN | `mountVol`, `unmountVol`, `formatVol`, `shareVolume`, `unshareVolume`, `handleBlockEvent` | command thread and netlink thread |
| **Video encoder** `omx_video_base.cpp`, `omx_video_encoder.cpp`, `video_encoder_device.cpp` | `m_state`, `m_flags`, the enabled ports, buffer masks, three queues; in the driver its state and the buffers it has | `send_command`, `empty_this_buffer`, `fill_this_buffer`, `allocate_buffer`, `free_buffer`; `process_event_cb`; `async_message_process` | client, message thread, callback thread |

### How they interact

```
finger ──onTouch──▶ ButtonEventListener ──pushMotionEvent──▶ EventQueueHandler ──▶ system
platform ─TOUCH_ACTION_UP─▶ │   │                             (own thread)   └─▶ ButtonManager.handler
                            │   └──lockMouseAWhile──▶ MouseManager ◀── sensor samples
                            └──getTimebackPosition──▶ TimeBackCompute ──getPositon──▶ MouseManager
                                                       (own thread)                  (+ timer threads)
startService / stopService ─▶ ControllerService ─▶ start/stop of all of these
```

Calls between objects on the main thread are plain calls. Three kinds of threads
share data with it: the event queue's (the list and `goon`), the position
trace's (the ring, `pointer`, `goon`, the cursor's position, the log) and the
timer threads (`updateSwitch`). Of all this only the `notify`/`wait` pair of the
event queue uses a monitor.

```
framework ─requests─▶ CommandListener (thread) ─┐
kernel ─block events─▶ NetlinkManager (thread) ─┴─▶ Volume ──mount/umount/LUN file──▶ kernel

client ─send_command, buffers─▶ queues ──▶ message thread ──dev_start/stop/flush/…──▶ driver
client ◀─────────── callbacks ─────────────┘   ▲                                        │
                                               └── callback thread (post_event) ◀───────┘
```

The two threads of the daemon share a volume with no lock at all. The encoder's
threads share the queues under `m_lock`; its state machine runs on the message
thread, except that `AllocateBuffer` and `FreeBuffer` test and clear pending bits
on the client's.

### What is hard

- **Two threads on one `LinkedList`** without synchronization (`EventQueueHandler`),
  and a size test outside the monitor that guards `wait()`: events and
  notifications can be lost.
- **Delayed messages that outlive their cause** (`ButtonEventListener`): a runnable
  and a scan repost themselves, a press does not remove the ones of the previous
  touch, and the release comes as a broadcast that may be late.
- **Timers that are not cancelled** (`MouseManager`): each click starts one.
- **A ring read while it is written** (`TimeBackCompute`), with an index that is
  for a moment out of bounds.
- **A mount table that is only remembered as a state** (`Volume`): four mounts are
  made and undone one after the other, each step can fail, and disks come and go
  in between.
- **Pending bits answered from four places** (`OmxVideo`): a state change is
  completed by the driver's message, by a flush, or by the last buffer allocated
  or freed, and the same message can belong to an earlier command.
- **Stopping**: `goon` flags that are only looked at now and then, a waiting
  thread that is not woken, a service that is started twice or restarted by the
  system with no intent.

`PROJECT.json` lists the hazards line by line with the properties that cover them.

### What makes each component correct

- *Event queue*: events come out in the order they went in and at most once; none
  is lost without a race; a stop is prompt.
- *Touch button*: DOWN and UP alternate; a touch is one click or one gesture, never
  both, never neither; all chains of delayed messages end.
- *Cursor*: it stays on the screen; a lock holds for its time and then ends; there
  is one sensor listener while it is shown and none when not.
- *Position trace*: the position gone back to is one time unit old and was a
  position of the cursor; a stop ends the thread.
- *Service*: one cursor and one button at most, on the screen exactly while the
  service is started; nothing touches a removed window; after a stop nothing
  keeps running.
- *Data log*: what is logged goes to an open stream and is in the file.
- *Injection*: what the rest of the system receives is a legal stream of touches.
- *Volume*: nothing that is exported to the USB host is mounted; `Mounted` means
  mounted at the public mount point, from the device the volume remembers; an
  unmount that fails puts everything back; a removed disk is unmounted and seen to
  be gone; a retried mount belongs to the disk it was asked for.
- *Video encoder*: a buffer is in one place and comes back once; a state change
  answers the command it belongs to; Idle means a stopped driver and no buffer
  out; no handler fills the queues by itself; and a component that is asked for Idle gets there.

## 2. Modules

| Module | Models | Lines |
|---|---|---|
| `LossyFifo` | abstract: what the event queue promises in every execution: order, at most once, at most one late | spec |
| `EventQueueHandler` | `button/EventQueueHandler.java`, the two threads access by access | component |
| `EventQueueHandler_proof` | inductive invariant and theorems of it | proof |
| `ButtonEventListener` | `button/ButtonEventListener.java` with the main looper and time | component |
| `ButtonEventListener_proof` | inductive invariants and theorems of it | proof |
| `MouseManager` | `mouse/MouseManager.java`, the averaging and the listeners | component |
| `TimeBackCompute` | `mouse/TimeBackCompute.java`, the two threads access by access | component |
| `Cursor_proof` | theorems of `MouseManager` and of `TimeBackCompute` | proof |
| `ControllerService` | `activity/ControllerService.java`, `button/ButtonManager.java`: starts, stops, kills and restarts over summaries of all threads | composition |
| `ControllerService_proof` | the plan of the looper, inductive invariant and theorems of it | proof |
| `DataLogHelper` | `button/DataLogHelper.java`, field access by field access | component |
| `DataLogHelper_proof` | inductive invariant and theorems of it | proof |
| `Injection` | what `run` and `generateZoomGesture` inject, and the window that receives it | composition of button, queue and receiver |
| `Injection_proof` | inductive invariant and theorems of it | proof |
| `Volume` | `Volume.cpp`, `DirectVolume.cpp`, sharing in `VolumeManager.cpp`: system call by system call on two threads | component with its kernel |
| `Volume_proof` | types, and the theorems about the mount table, removals, retries and failed unmounts | proof |
| `OmxVideo` | `omx_video_base.cpp` with the encoder and its device: commands, queues, buffers, flushes, driver | component with client and driver |
| `OmxVideo_proof` | sequences that grow and lose entries, inductive invariants and theorems of it | proof |
| `MC_*` | bounds for TLC, one module per component, one `.cfg` per run | checking |

A definition called *mutant* in a component's module is a wrong version of the
one that follows it, kept to show that the properties can tell the difference; no
specification uses it.

### EventQueueHandler

An event is its number in push order. `java.util.LinkedList` is modelled by how
`offer` and `poll` use it: `queue` is what can be reached from the head, `size`
is its own variable, `detached` says that the tail hangs off the list. `offer()`
is three steps (look up the last link, link the event behind it, read and write
the size), `poll()` four. `mainPc` and `queuePc` are the places of the main
thread in `pushMotionEvent` and of the handler thread in `run`. `Wait` is the
`wait()` of an instance that has been synchronized on, `OfferNotify` the
`notify()`, `SpuriousWakeup` what Java allows. `TestEmpty` (line 60) is outside
the monitor, as in the code.

When the main thread links an event behind a node that has been unlinked, the
event is off the list; later ones may or may not be (it depends on which of the
two threads last wrote `last`), hence the choice in `OfferLink`. `raced` records
whether an `offer` and a `poll` have ever overlapped: the code gives some
guarantees always, and others as long as that has not happened.

The dispatch of an event is one step; `Injection` takes it apart.

### ButtonEventListener

The main looper's queue is `messages`, each with what to run and the time left,
in the order in which the looper will run them. `HandleMessage` runs the head
when it is due. `Tick` lets time pass. With `Prompt = FALSE` messages and
broadcasts can be arbitrarily late; with `Prompt = TRUE` what is due runs before
anything else happens and a broadcast takes at most `BroadcastDelay`.

Coordinates are abstracted to the answers the code extracts from them: a move is
`"still"` (within `BUTTON_MOVE_OFFSET`), a `"drag"` that is no gesture, or one of
the four gestures; whether the cursor has left the box of a scan is a free
choice. What a push contains is abstracted to the three kinds that matter:
`balance` counts DOWNs minus UPs, `gestures` counts keys, zooms and flips. The
calls into `MouseManager` on a click change nothing here.

The finger, the broadcast in flight and the time since the last release are the
environment. The sender of TOUCH_ACTION_UP is a modified platform dispatcher that
is not in the repository: a broadcast follows each release and may be late; they
arrive in order.

### MouseManager

`SensorCallback` is the callback of one sample, through the batch of
`AverageComputerForService` to `updateMousePosition`; `Clamped` is its chain of
`else if`. `LockMouseAWhile` is a click, at any time, also while earlier locks hold;
`TimerTask(i)` the task of the `i`-th pending timer, on its own thread, at most
`TimerLag` late. Timers are never cancelled, so the task of an older lock ends a newer
one: `holdFor` is what is left, at the last click, until the oldest pending timer may
run. `registered` holds the
listeners registered with the system; a second `startMouse` overwrites the field
with a new listener, and `stopMouse` unregisters the last one only. A click on a
mouse that is not on the screen ends the process (`alive`), because
`updateViewLayout` throws.

### TimeBackCompute

A coordinate is the number of the sample that wrote it, which makes "how old" and
"torn" visible. Each write and each read of a coordinate or of `pointer` is a
step. `Wrap` is the `if (pointer == length)` after `pointer++`. `ReadCurrentX`
and `ReadCurrentY` read `pointer` again, as `positionArray[pointer]` does.

### ControllerService

Each `onStartCommand` is a generation: it makes a `ButtonManager` with a window, a
listener, an event queue and a sampling thread, which outlive the service object
in part. `looper` holds the system's messages to the process (`create`, `start`,
`restart`, `destroy`) in the order in which `MouseStartActivity` and the other
screens cause them, and the flips that queue threads post to
`ButtonManager.handler`. `service` is the state of the service *object*, which
`OnCreate` clears; `instance` is the static field, which nothing clears.

The detailed components are summarised by the work they leave behind: `pending`
is what the callback that a listener has posted will do (a DOWN, a MOVE, an UP, a
gesture), `queue` a short event queue that tells flips from the rest, `thread`
the place of its thread in `run`, `sampler` the sampling threads that have not
been told to stop. Overlapping touches of one button are left to
`ButtonEventListener`; here a press waits until the last callback has run.
`windows` decides whether `updateViewLayout` throws: a click needs its cursor, a
flip its button. `Die` is the end of the process; a `start` that was not yet
handled is delivered again, otherwise the sticky service is repeated without an
intent. `GiveUp` lets the system stop restarting.

`Finalize` runs when nothing reaches a listener any more. The static `instance`, a
queue thread that has not ended, a posted callback and a posted flip do. One more
reference is left out: a sampling thread that runs reaches its listener through
`mouseManager` and the view's context, the service. `finalize`, the only caller of
`stopTimeBackCompute`, therefore never runs while the thread does, and in the
application the thread, and the `close` at its end, go on until the process ends. `Finalize` here
and `StopSampler` in `DataLogHelper` allow more behaviours than that, which is
sound for what is checked: safety, and liveness that owes nothing to either.

### DataLogHelper

Thread 0 is the main thread, the others are sampling threads, one per start.
Every read and write of `open`, `timeFormat`, `outStream` and `instance` is a
step. A line is its number; each stream has an `offset` of its own, and opening
truncates the file (`MODE_PRIVATE`), so two open streams overwrite each other.
`OpenFileFails` is the caught `FileNotFoundException`. `raced` records that two
threads have been in `open` or `close` at once, `closing` that a sampling thread
has ended and called `close` (see `Finalize` above).

### Injection

Pushed are strokes (a DOWN, MOVEs and an UP) and, between them, keys, flips and
gestures; that `ButtonEventListener` pushes nothing else is what its
`DownsAlternate` and `GesturesBetweenStrokes` check, as long as no touch overtakes
pending work. The queue may lose events after a point or return null
(`LossyFifo`). `fingers`, `pc1` and `pc2` are what the receiving window has down
and where; an event that does not fit them sets `confused`. Coordinates of
strokes are left out, those of a gesture are the code's.

### Volume

The mount table is `staging` (`/mnt/secure/staging`), `public` (the mount point) and
`asec` (the bind mount of the secure directory): stacks, because mounts stack. A
mounted file system carries the number of `tmpfs` mounted in it, which move with
it. `lun` says that the device is written to the LUN file. `pc[t]` is where thread
`t` is; each system call and each `setState` is a step, and every system call may
fail as the code expects it to (`umount` of what is not mounted counts as success,
of something busy as failure). The `umount` with which `mountVol` gives up may fail like
any other, and nobody looks (`DropStaging`). So `Stage`, `Bind`, `Tmpfs`, `Move`, `Mounted` are the
loop of `mountVol`; `Unpublish`, `Untmpfs`, `Unbind`, `Unstage` undo it in `unmountVol`
and `Rebind`, `Retmpfs`, `Republish` are its failure labels, each of which falls
through to the next. The handlers of block events (`HandleDiskAdded` ...) are one
step each up to the `unmountVol`, `unshareVolume` or `mountVol` they call.

`Plug`, `Change` and `Unplug` are the user; the kernel announces the disk before its
partitions and withdraws the partitions before the disk. A partition can be one
the daemon does not take: an invalid `PARTN`, a number above `MAX_PARTITIONS`, or
another major, which is looked at only after `mDiskNumParts` was raised.
`mountVol` has room for four device nodes and takes the number of partitions for
their count; `DeviceSlots` is that room. Behind the last slot it reads what lies on the
stack, one of `StackHolds`: a device of the disk, or of another one (`Elsewhere`). `strayed` records
that it has. `Request` is any command of the
framework, whatever the state: the guards are the daemon's.

What the daemon does not promise when its two threads overlap, or when a mount
was given up half way, is in history variables: `raced`, `leaked`, `overrun`,
`orphan`, `failed`, `strayed`. A property names the ones it needs as an excuse, and no other.

### OmxVideo

`m_flags` and `portFlags` are the pending bits of states and of ports, `flushing` the
two `flush_progress` flags. The queues `q` are the three of the component and
`process_event_cb` is one turn of the message thread: it takes the head of the
first of `cmd`, `ftb`, `etb` that is not empty. Each entry has an operator or action
named for its case. `send_command` queues a command and waits (`waiting`) until
`send_command_proxy` has looked at it. `async_message_process` reads one message of
the driver and posts it. `FrameDone`, `FlushReply` and the `dev_` calls are the
driver: a call it accepts is answered by one message, in order; it refuses what
does not fit its state, and may fail anything (`MaxFails`). The answer to a call it has
accepted carries a `statuscode`: the driver may say that it did not do it
(`"failed"`, with `drv` where it was, or with the buffers it should have flushed).
`async_message_process` reports that (`Examine`) and then posts the message like any
other, and no handler behind it looks at the status: `START_DONE`, `PAUSE_DONE`,
`STOP_DONE` and `FLUSH_DONE` have the effect of a success. A failure may also be said
of what was done. `dev_stop` may be asked for twice (a flush that ends while the first
stop is not confirmed, or Idle to Loaded after it); a stopped driver may confirm that
again, and the second `STOP_DONE` comes late. `OnlyAsAsked` says it answers nothing but
a pending Idle, `stale` names the one it can answer wrongly.

The client is any that keeps to the contract of OpenMAX: one state command at a
time, one command to a port at a time, no buffer after it has asked for Idle,
buffers freed only when it has them. It may also misuse the component (ask for an
illegal change, free a buffer of a running component), up to `MaxCmds`. The handler
of an entry is one step although the client's thread runs: a client that has sent
a command waits in `sem_wait` meanwhile, and otherwise its appends commute with
what the handler does.

Histories: `refused` (a flush failed and will not be answered), `failed` (the driver
accepted a call and answers that it did not do it), `broken`
(`omx_report_error` was called), `cut` (the last buffer allocated made a *running* component
Idle), `stale` (Idle asked for while the confirmation of an earlier stop was on its
way), `crossed` (a Flush command met a pending Idle).

## 3. Runs

| Run | Bounds | What it shows |
|---|---|---|
| `event_queue` | 5 pushes | all safety and liveness properties of the queue, and `LossyFifo` |
| `button_any_timing` | 3 touches, delays 3/3/1/2, 2 scans, no move on more than 3 messages | what holds whatever the timing |
| `button_spaced` | 3 touches, delays in tens of ms, 3 scans, 150 ms between touches | what a user at a normal pace gets |
| `mouse` | screen of 3 x 3, batches of 2, samples -2, 0, 1, lock 2, lag 1, 3 locks pending at once, 2 starts | cursor, overlapping locks and listeners |
| `time_back` | unit 2, 10 samples | the ring, its reads and the stop |
| `controller_service` | 2 starts, 2 touches, queues of 1 | windows over starts, stops, kills and restarts |
| `service_threads` | 1 start, 1 touch | the thread of the event queue survives its stop |
| `data_log` | 2 sampling threads, 4 lines | null references, lost lines and stale flags |
| `injection` | 4 pushes | the injected stream is legal, gestures are whole |
| `volume` | primary storage, disks of up to 2 partitions, room for 1 device node, 2 plugs or media changes, 2 requests | what mounts, export and state have to do with each other |
| `omx_video` | 1 buffer to a port, 4 commands, 1 failing call or answer | buffers, answers to state changes, how full the queues get, and that Idle is reached |
| `omx_flush` | the same, nothing fails | a Flush command that meets a pending Idle keeps the component from it |

**Why the bounds are enough.** *Queue*: the two threads interfere over an empty
list, a list of one (where `offer` and `poll` touch the same node) and a longer
one; with five pushes each of these occurs before and after a race and after a
stop. *Button*: a touch can be overtaken by the next, and the debris of both can
meet a third; no handler looks further back. The delays keep the order of the
code's (a move sooner than a scan, a scan sooner than a press). For the spaced
run they keep the ratios (`PressDelay` 100 ms, `SendDownDelay` 100, `SendMoveDelay`
20, `ModeScanDelay` 50) with a threshold of 3 instead of 40. What the distance of
touches must outlast is the scan of a gesture, `ModeCounterThreshold` times
`ModeScanDelay`: 15 units here, two seconds (40 times 50 ms) in the code. With one
unit less the run fails. *Cursor*: a sample can overshoot each border by more
than a step and the two axes independently; a click can come while the timers of two older
locks are pending, each with any time left. *Ring*: ten samples fill a ring of four twice and a half. *Service*: what
goes wrong happens between one generation and the next; with two of them each
can be stopped, killed or restarted while work of the other is left. Three starts
have been checked too (two million states), with the same result. *Log*: two
sampling threads and the main thread meet in each pair of places, and four lines
are enough to write before, during and after a second opening. *Injection*: four
events are a stroke before or after a gesture, or two gestures, with room for a
loss; the theorems remove the bound. *Volume*: two disks are what a stale retry, a
late removal or an overwritten state needs, with a request before, between and
after. One device node is the code's four made small: a disk of two partitions is then
what one of five is there, and `mountVol` reads past its nodes. The device it finds
behind them (`StackHolds`) is that of another disk; with one of the same disk there as well the run does
not end in five minutes, nor with a third request. The theorems cover any of that, for every
property of this run (`FailedUnmountRestores` on primary storage, as here): disks of up to 31
partitions, which is what a pending map of one `int` can tell apart, any number of nodes, plugs
and requests.
*Encoder*: four commands are the way to Executing and back to Idle with one other
command in between, or Idle, Loaded, Idle; one buffer to a port is the first, the last and
every one, which is where the component decides. One failure is enough to find a refused
call, or an answer that is a failure, at every place of these ways; what a second one
adds the theorems cover.

`CHECK_DEADLOCK FALSE` is set because these systems may really stop: a thread
waits for ever, a user goes away, a process ends, no more disks or commands come.

**Fairness.** The scheduler runs each thread (`EventQueueHandler`, the
timers); the looper runs messages that are due, sent
broadcasts arrive, and time passes (`ButtonEventListener`). Nobody is obliged to
push, touch, release, start or stop, and no spurious wakeup is owed. In
`ControllerService` the looper, the callbacks and the queue threads run; the
system need not kill, restart or collect anything. In `OmxVideo` the message thread
and the callback thread run (`WF` of `process_event_cb` and of
`async_message_process`): both block only on their input. The client owes nothing,
and the driver no finished frame; that it answers an accepted call is in the call.
`Volume` has safety properties only and no fairness.

**Memory.** Steps of different threads interleave and each sees the last write.
Of the fields shared between the threads only the `goon` of `EventQueueHandler` is
`volatile`, so Java allows more
than that (the `goon` of `TimeBackCompute` never seen to change, for one); what the runs show
to go wrong can go wrong, what they show to hold holds under this assumption.

### What the checks say about the code

- The event queue can lose events and even end its thread with a null event, but
  only after an `offer` has overlapped a `poll`; until then nothing is lost, and
  in every case the order is kept. A `notify` that falls between the size test
  and `wait()` leaves an event behind until the next push (`NextPushDrains`):
  there is no promise that every event comes out, and none is stated.
- The touch button never sends an UP or a MOVE without an open DOWN, whatever
  the timing. That DOWN and UP alternate, and that a touch has one meaning, is
  true until a touch overtakes pending work, which needs touches closer than
  two seconds after a scan, or a late looper. Two quick touches can leave a
  pointer down for good.
- A lock holds until the oldest timer that was pending when it was made may run
  (`LockHolds`): for its time if that timer is its own, otherwise only for what the
  older lock had left. A second click within the lock time is unlocked by the timer of the first.
- The cursor can leave the screen vertically while it is at the left or right
  border, because only one of the four clamps is applied per update.
- Because `MouseStartActivity` stops the service before it starts it, there is
  never a second cursor or button (`ShownIffStarted`). Dropping that one call breaks it:
  `onStartCommand` does not look for an old `ButtonManager`.
- A stop in the middle of a press or of a flip can end the process, in
  `updateViewLayout` on a removed window; otherwise a stop is safe.
- A sticky restart ends the process again at once, because `onStartCommand` uses
  its null intent; the cursor does not come back.
- The thread of an event queue that waits when its button is stopped never ends,
  and keeps its sampling thread writing to the log: `service_threads`.
- The log can meet a null reference only around its first opening (or after a
  failed one). Two threads that open it at once lose lines, and a `close` can
  close a stream that another thread has just opened.
- The injected touches are a legal stream as long as nothing is lost, and no
  gesture is left with a finger down. The last event of a zoom is not at the end
  points as its comment says, but one step back.
- `getTimebackPosition` can fail with an index out of bounds in the one moment
  between `pointer++` and its reset. What it logs as the position of the click
  is the oldest sample of the ring, not the newest.
- A volume is never exported with a file system mounted as long as commands and
  block events do not overlap. Three things break it: a race, for which
  there is no lock; a media change or a whole-disk file system, whose events
  overwrite `Mounted` or `Shared`; and a `mountVol` that fails at its last step, which
  leaves the file system at the staging point and the volume Idle, from where it
  can be shared.
- When the `tmpfs` over the secure directory cannot be mounted, `createBindMounts`
  unmounts a path at which nothing is mounted and the bind mount stays. The failure
  labels of `unmountVol` mount the secure directory and the `tmpfs` on volumes that
  are not primary storage too, which never had them, and then cannot be unmounted.
- A retry that is set in, or comes to, an Idle volume is left behind, and the next
  disk is mounted although nobody asked for it (`orphan`).
- A disk that is pulled is seen to be gone in whatever state, but what was mounted
  is only unmounted if the volume is in state Mounted when the event of that
  partition is handled: not in the middle of a mount, and not for a file system on
  the bare disk.
- `mountVol` has room for four device nodes, `getDeviceNodes` answers with the number of
  partitions: on a disk with more of them the loop reads behind the array, can mount a device
  of another disk there and take it for the mounted one. `MountedIsPublished` and
  `RemovalUnmounts` have that as an excuse (`strayed`); the export, the retry, a failed unmount and
  `NoMedia` do not depend on it.
- The encoder loses and doubles no buffer, and its state follows the commands, with
  these exceptions: a Flush command that meets a pending Idle takes the flush
  message Idle waits for, and the component waits for ever (`omx_flush`); Idle to
  Loaded is answered before the driver has confirmed the stop, and the late
  `STOP_DONE` answers the next Loaded to Idle without a buffer (`stale`); the last
  buffer of a port that is being enabled answers a pending Idle of a running
  component, whose driver goes on (`cut`); a flush the driver refuses leaves its
  `flush_progress` set, and every buffer is turned away from then on (`refused`);
  an answer of the driver whose `statuscode` is a failure has the effect of a success
  (`failed`): the state changes, and at rest the component can be Idle with its driver
  running and buffers out, or Executing with its driver stopped. What is left is that
  the client has been told of an error by then, and that the state is the one it
  asked for (`RestIsTrue`, `OnlyAsAsked`).
- Read, but not stated as properties: `PortDisable` in WaitForResources is never
  answered; nor is Idle to Loaded when `dev_stop` fails; `PortEnable` and
  `PortDisable` can complete twice; `WaitForResources` to Idle asks for no buffers;
  `fill_buffer_done` posts to the command queue while `complete_pending_buffer_done_cbs`
  looks for it in the queue of the output port.

## 4. Proofs

All theorems hold for every value of the constants, from the named assumptions
of the component's module only, unless the theorem has one of its own.

| Theorem | Says | Argument |
|---|---|---|
| `EventQueueHandler_proof!TypeCorrect` | types; `size` never negative | `poll` writes a size it has read after the test for non-zero or after a link; the invariant relates the register of each thread to what is left |
| `...!OrderKept` | `InOrder` | `delivered`, the event in hand, the list and the event being linked are together an increasing sequence bounded by `pushed` |
| `...!StopIsPrompt` | `AtMostOneLate` | with `goon` cleared and one late event the thread is at the loop test or past it with nothing in hand |
| `...!NoCrashWithoutRace` | `CrashNeedsRace` | without a race `size` and the length of the list differ by exactly what the program counters say |
| `...!NoLoss` | `NoLossWithoutRace` | the same, counting events |
| `...!Refinement` | `ImplementsLossyFifo` | the event in hand and the list are the pending events of `LossyFifo`; linking is its `Accept`, the dispatch its `Deliver`, every other step a stutter; that what is linked is newer than all that is pending or has come out is `InOrder`, and lateness is `AtMostOneLate` |
| `ButtonEventListener_proof!StrokesAreOpened` | `NoStrayUpOrMove` | inductive as it stands, for all delays and any looper |
| `...!DownsAndUpsAlternate` | `DownsAlternate` | `TouchInv`, see below, for all delays and any looper |
| `...!TouchHasOneIntent` | `OneIntentPerTouch` | the same |
| `...!RestIsClean` | `CleanAtRest` | the same: with no message and no broadcast left the chain of the touch is at its end |
| `...!GesturesAreBetweenStrokes` | `GesturesBetweenStrokes` | the same, for a step |
| `...!SpacedTouchesNeverOverlap` | `NeverOverlaps`, if `Prompt` and `GapIsLong` | `Punctual`, see below |
| `...!TouchIsAnsweredInTime` | `AnsweredInTime`, if `Prompt` and `GapIsLong` | the same |
| `Cursor_proof!MouseTypeCorrect` | types | inductive |
| `...!CursorKept` | `OffScreenOnlyAtBorder` | of `Clamped`, for every point |
| `...!LocksHold` | `LockHolds` | the pending timers are in the order of their locks, and each has at least `holdFor + TimerLag` left, so none of them, of whichever lock, may run before `holdFor` is 0 |
| `...!ListenersMatch` | `OneListener` | inductive with the types |
| `Cursor_proof!TypeCorrect` | types; the index is in the ring | `pointer = length` only between `pointer++` and its reset |
| `...!StopBound` | `StopsWithinARound` | samples late are at most the loop variable |
| `...!BackIsRight` | `BackIsOneUnitOld` | each cell holds the latest sample with its number modulo `length`; a cell that was read is overwritten only `TimeUnit` samples later |
| `...!FailureWindow` | `FailsOnlyInWrap` | `taken` modulo `length` is `pointer`, but for the step between the two |
| `ControllerService_proof!TypeCorrect` | types; no more `ButtonManager`s than requested starts | with the number of `start` messages in the looper |
| `...!ScreenFollowsSystem` | `ShownIffStarted` | the messages in the looper are a plan, see below |
| `...!OnlyACutOffStopCrashes` | `CleanStopNeverCrashes` | as long as no stop has cut off work, only the generation on the screen has any left (`Covered`) |
| `DataLogHelper_proof!TypeCorrect` | types; no use of a stream before it was opened | a register is only set to a non-null `outStream` |
| `...!Crashes` | `CrashOnlyInFirstOpen` | whoever has seen `open`, or is past the test, has an excuse: a stream, a failed opening, or a thread in `open` before `outStream` is set; `instance` is null only while the main thread is in its first `onStartCommand` |
| `...!FlagIsTrue` | `FlagTellsTheTruth` | the one busy thread's place says how far `open` is ahead of the streams |
| `...!LogComplete` | `NothingLost` | before the first `close` there is at most one stream and its offset is the length of the file |
| `Injection_proof!TypeCorrect` | types; the points of a gesture | the points are a linear function of the number of moves |
| `...!LegalStream` | `StreamIsLegal` | the queue is a chain: each event needs the stroke as the one before leaves it, the first one as the receiver has it |
| `...!CompleteGestures` | `GestureCompletes` | the second finger is down exactly from step 2 to step 5; the chain ends with the stroke as the producer has it |
| `...!GesturesGoTheRightWay` | `RightWay` | from the linear function |
| `Volume_proof!TypeCorrect` | types; the loop over the device nodes ends with its count, also behind the array | inductive; with `Watched`: a thread whose node is behind the array has set `strayed` |
| `...!ExportIsExclusive` | `ExportedIsUnmounted` | see below |
| `...!MountedIsKnown` | `MountedIsPublished` | the same way, with what is known of the device on top of the stack; it needs no excuse for mounts left behind, because `mountVol` refuses to mount over them, and for the device only `strayed` |
| `...!RetriesAreAskedFor` | `RetryWasAsked` | a retry is pending only in a Pending volume whose mount was asked for; nearly every step changes the state through `setState` or not at all |
| `...!RemovalIsSeen` | `GoneIsSeen` | the removal of a disk that is out is the last event in `uevents`; once it is handled both threads rest and the volume is NoMedia, where no call does anything |
| `...!UnmountIsUndone` | `FailedUnmountRestores`, if `Primary` | see below |
| `...!PulledIsUnmounted` | `RemovalUnmounts` | see below |
| `OmxVideo_proof!TypeCorrect` | types; which entries each queue can hold | inductive |
| `...!TokenCorrect` | `TokenInv` | one token for the state the client waits for, see below |
| `...!OnlyAsAskedHolds` | `OnlyAsAsked` | a state is only entered with its token |
| `...!CommandCorrect` | `CommandInv` | a command is queued only while the client waits, and in front of no state event |
| `...!DriverCorrect` | `DriverInv` | what the driver was told, has said and is doing, see below |
| `...!ReportCorrect` | `ReportInv` | a failed answer is among the driver's messages until the callback thread reads and reports it |
| `...!FlushCorrect` | `FlushInv`, if `[]NeverFull` | a port that turns buffers away has its `FLUSH_DONE` on the way |
| `...!RestHolds` | `RestIsTrue`, if `[]NeverFull` | at rest nothing is on the way, so the three invariants leave the driver, the flags and the report as they must be |
| `...!PopulatedCorrect`, `IdleIsPopulatedHolds` | `PopulatedInv`, `IdleIsPopulated` | see below |
| `...!BufferCorrect`, `OnePlaceHolds` | `BufferInv`, `EachBufferInOnePlace`, if `[]NeverFull` | see below |
| `...!QuietCorrect`, `IdleIsQuietHolds` | `QuietInv`; `IdleIsQuiet`, if `[]NeverFull` | see below |
| `...!LoadCorrect`, `QueuesAreBoundedHolds` | `LoadInv`, `QueuesAreBounded` | an account of what is queued and what is owed, see below |
| `...!RoomyNeverFull` | `[]NeverFull`, if `Roomy` | the bound with all commands sent and all buffers handed over |
| `...!RoomyRestIsTrue`, `RoomyOnePlace`, `RoomyIdleIsQuiet` | the three properties, if `Roomy` | the theorems above without their hypothesis |

The argument of `ExportIsExclusive`: as long as none of the excuses has occurred
and no call is under way, `mState` determines the mount table (`Rest`): Mounted means
one file system at the mount point with its `tmpfs` if and only if the secure
directory is bound, any other state means nothing mounted, and only Shared may be
exported. While one thread is at work, its place determines how much of that is
done (`Busy`). The two threads may both be at work in the one state before the
race is on record; the thread that has just begun has not touched anything, so
that what is exported is still unmounted there.

`UnmountIsUndone` needs more, because it compares the mounts with what they were
(`before`). `SealBusy` says for each place in `unmountVol` and in its failure labels how
the mount stacks of now are made from those of `before`: unpublished only, without the
`tmpfs` as well, or without the bound directory too (`Hidden`, `Bound`, `Unbound`), as long
as no mount was refused. Each failure label goes one of these back, so the last one ends
with `before`. That all three were there comes from `SealedTop`: a published primary volume
has its secure directory bound and hidden. This is where `Primary` is needed. On other storage the theorem
is false, as section 3 says: there the labels mount a directory that was not there.

`PulledIsUnmounted` follows from what the pending events say of the disk
(`PresentSafe`). A device that is published, or that `mountVol` is about to publish, is the
bare disk, or a partition that is still there, or one whose removal is in `uevents`, or
one the netlink thread has begun to unmount for that removal, unless `mountVol` has
`strayed`. A disk that is out has no
partition (`DiskAsTold`), and a call that takes mounts apart has left Mounted (`Undoing`). So
with no event left nothing but the bare disk can be mounted.

`TouchInv` of the button: until a touch overtakes another (`OneMeaning`), the looper
holds at most one message of the button's own, and one release (`Short`); which it is
follows from `eventSendState` and `modeFlag` (`Chain`), and so does what was pushed
since the press (`Stroke`). It needs nothing of the delays, because until
then nothing depends on when a message runs.

`Punctual` adds the clock: each message and each broadcast is due before the next
touch may come (`Timely`). Its two assumptions are not about the code but about
its surroundings: `Prompt`, the looper runs what is due, and `GapIsLong`, the finger
stays away longer than a press, a release, a stroke or the scans of a gesture may
take. The constants of `button_spaced` satisfy both. With the code's delays `GapIsLong` is a
pause of two seconds, the time of 40 scans 50 ms apart. With shorter pauses
touches do overlap, and the theorems about any looper say what remains.

`Plan` of the service: read in order, the messages in the looper lead from the phase
the service object is in (off, created, started) to the one the system has last asked
for. The system only adds messages that continue it (`OnItsWay`), a crash empties the
looper and the system's next messages begin a new one, and flips change no phase. So if
only flips are left, both phases are the same, and what is on the screen is known
from the phase. `Room` counts the `start` messages in the same way.

The invariants of the encoder speak of a queue by four words only: an entry of a set
is in it (`Has`), at most one is (`One`), and none of one set is in front of one of
another (`Never`; `NeverAhead` for the messages of the driver followed by the command
queue, `InFlight` for either). How `Append`, `Tail`, a concatenation and
the filter `Kept` change these is proved once, in the first part of the module; a handler is
then summed up as a queue that `Grows` or `Drops`, and each invariant is kept by the
sum.

- `TokenInv`: of a state command that is queued, its answer that is queued, a refusal
  that is queued and a pending bit there is one at most, and it is for `target`.
- `DriverInv`: unless buffers have answered for a running component (`cut`), or the driver
  has not done what it accepted (`failed`), the driver
  is where `m_state` and the pending bit say, or a confirmation of the change is on its
  way, in an order in which it can do no harm: no `STOP_DONE` in front of a
  `START_DONE`, `RESUME_DONE` or `PAUSE_DONE` for a running component, nothing but
  `STOP_DONE` for one that stands still. Once an answer was a failure none of this is
  left, because the handlers do not look at it; what is left is `ReportInv`, that the failure is
  either still on its way or was reported. `TokenInv`, `FlushInv`, `BufferInv` and `LoadInv` need no
  such exception: they are about messages, and a failed one is a message.
- `PopulatedInv`, with the same two exceptions: a component in Loaded has an Idle answered only with its ports
  populated, and an Idle that is pending has no `STOP_DONE` on its way, unless it had when Idle
  was asked for (`stale`). The property's excuse `cut` was found by this proof: without it
  the property is false once seven commands and a failing stop are allowed.
  The last buffer answers Idle for a running component; if the callback thread is slow
  and the next stop fails, the flush messages of the first Idle stop the driver
  in Loaded, with an Idle pending.
- `BufferInv` says where each buffer is: in one queue, once, or in one message, or with the
  driver, and in none of them when the client has it. `EachBufferInOnePlace` counts
  these places. It is what `complete_pending_buffer_done_cbs` could
  break, which takes entries out of the middle of two queues.
- `QuietInv`, again but for `cut` and `failed`: a running component with a pending Idle has drained its queues, the
  driver holds nothing but what it refused to flush, and no buffer follows the
  `STOP_DONE`. With `DriverInv`, `STOP_DONE` finds everything given back.

`NeverFull` is no property of the code: `insert_entry` drops the entry of a full queue, a
buffer or a flush message with it, and the caller does not look. So the theorems that need every
entry to arrive have it as a hypothesis on the execution, and `QueuesAreBounded`
says what it takes: `LoadInv` charges four entries to each command, its own and what its handler
leaves in the queues, in the driver's messages and as pending bits (an answer each,
`LOADING` the request to stop the driver as well), and one to each buffer handed over. Every
action only moves entries from one account to another. `Roomy` is the size that
follows; the run's queue of 20 is one (four commands, two buffers). The code has queues of
`OMX_CORE_CONTROL_CMDQ_SIZE`, and no bound on commands: what is then left to trust is that
the threads keep up, which is `NeverFull`.

`TypeOK`, `InOrder`, `AtMostOneLate` (part of `ImplementsLossyFifo`), `RightWay` and the
invariants of the encoder are proved and in no run.

**Only model-checked.**

- Liveness under fairness (`NextPushDrains`, `Settles`, `ReleaseCloses`, `StopTakesEffect`,
  `IdleIsAnswered`), which the prover cannot do.
- The types of `ButtonEventListener`, whose queue may have any length once touches
  overtake each other. The invariants above say what is in it as long as they do not.

## 5. What could follow

1. The secure containers of `VolumeManager`, which are mounted on top of a volume and
   must be unmounted before it (`cleanupAsec`).
2. The video decoder, against the same abstract client and driver as `OmxVideo`.
3. **Composition** of button, cursor and position trace: which position a click
   is injected at, and that the cursor is locked when it is.

## 6. Not modelled

*Of the application*

- Drawing, layout, preference screens, printing and logging texts.
- Settings: the values are the constants of the modules, in the ranges their
  assumptions name. A time unit of 0, which a screen can store, is outside them.
- Which side of the screen the button is on (`setRight`, `gravity`).
- `MouseManager.lockMouseAWhile(.., false)` and the `TextView` variant of
  `computeValue`: no caller.
- The values of the coordinates in `ButtonEventListener`, the sensor's
  floating-point arithmetic in `MouseManager` (a sample is the integer
  displacement it stands for).

*Of a volume*

- Encrypted storage, secure containers and loop devices, the count of shared
  volumes and the dirty ratio that depends on it.
- A block event without `NPARTS`, and disks of more than 31 partitions, whose bits in the pending
  map coincide.
- `Fat::check` and `Fat::format`: they fail or not.

*Of the encoder*

- Parameters and configuration, buffers in metadata mode, extra data, mapping of
  memory, the state Invalid. With the mapping the `pmem_free` that a build for 1080p
  (`MAX_RES_1080P`) puts in front of the stop in `venc_stop`: what a second request to stop
  does to memory is not checked.
- What a client does once it has heard of an error: it goes on like any other here.
- The race of `AllocateBuffer` and `FreeBuffer` with the message thread on `m_flags`
  (set and cleared with no lock): the handlers are atomic.
- Callbacks that call back into the component. `SendCommand` from one of them waits
  for the thread it runs on; `execute_output_flush` and `post_event` hold `m_lock`
  over a callback and over a `write` to the pipe. These are hazards without a
  property.
- What the component does after a queue was full: the model drops the entry, as the
  code does, but the bounds of the run do not fill one, and section 4 says when none is.

*Of `frameworks/`, and `event_log`*

- `omx_vdec.cpp`: an OpenMAX component of the same design over another driver; most of
  its length is the driver's configuration and the parsing of bit streams.
- Network daemons, storage tools, sockets: sequences of shell commands and system
  calls with little state of their own.
- Players: built on the looper and media classes of Android, which are not in the
  repository.
- Graphics and code generation (`scanline.cpp` and its like): sequential arithmetic,
  tested by comparison.
- Trace tools, tests, and the recorded trace `event_log`.
