---------------------------- MODULE MouseManager ----------------------------
(***************************************************************************)
(* mouse/MouseManager.java: the cursor.  Sensor samples, summed by         *)
(* AverageComputerForService, move it; a click puts it back to where the   *)
(* user aimed and locks it there until a java.util.Timer unlocks it.  The  *)
(* callbacks and the calls all run on the main thread, each timer task on  *)
(* a thread of its own.                                                    *)
(*                                                                         *)
(* A sensor sample is the displacement it stands for, already multiplied   *)
(* with magnification, offset and direction.                               *)
(***************************************************************************)
EXTENDS Naturals, Integers, Sequences, SequencesExt

CONSTANTS
    ScreenWidth, ScreenHeight,
    AverageNum,     \* samples that AverageComputerForService sums per move
    Samples,        \* displacements a sample can stand for, on either axis
    TimeWait,       \* timewait: how long lockMouseAWhile locks the cursor
    TimerLag,       \* a timer task runs at most this late
    MaxDrift,       \* bound: the cursor gets at most this far off the screen
    MaxStarts,      \* bound: number of calls of startMouse
    MaxTimers       \* bound: number of locks whose timer is still pending

ASSUME MouseAssumption ==
    /\ {ScreenWidth, ScreenHeight, AverageNum, MaxDrift, MaxStarts} \subseteq Nat
    /\ {TimeWait, TimerLag, MaxTimers} \subseteq Nat
    /\ AverageNum > 0
    /\ Samples \subseteq Int

VARIABLES
    x, y,           \* params.x, params.y: where the cursor is
    alreadyAdded,   \* the cursor is on the screen
    updateSwitch,   \* sensor samples move the cursor
    isPortrait,     \* orientation of the screen (static)
    count1,         \* samples in the current batch
    sum,            \* their sum, <<x, y>> of the sensor
    registered,     \* the sensor listeners registered, by number of the start
    starts,         \* number of starts; the field listener is the last one
    timers,         \* time left of the pending timer tasks, oldest first
    lockedAt,       \* history: where the last lockMouseAWhile put the cursor
    holdFor,        \* history: time left before the oldest timer pending then
                    \* may run
    restarted,      \* history: startMouse was called on a started mouse
    alive           \* FALSE after an uncaught exception has ended the process

cursor == <<x, y>>
batch == <<count1, sum>>
lock == <<updateSwitch, timers, lockedAt, holdFor>>
sensors == <<registered, starts, restarted>>
mouseVars == <<cursor, alreadyAdded, isPortrait, batch, lock, sensors, alive>>

MouseInit ==
    /\ x = ScreenWidth \div 2
    /\ y = ScreenHeight \div 2
    /\ alreadyAdded = FALSE
    /\ updateSwitch = TRUE
    /\ isPortrait \in BOOLEAN
    /\ count1 = 0
    /\ sum = <<0, 0>>
    /\ registered = {}
    /\ starts = 0
    /\ timers = <<>>
    /\ lockedAt = <<0, 0>>
    /\ holdFor = 0
    /\ restarted = FALSE
    /\ alive = TRUE
-----------------------------------------------------------------------------
(* updateMousePosition: the clamps are one else-if chain, so at most one   *)
(* of the four borders is enforced per call, and x goes first.             *)

OffX(px) == px < 0 \/ px > ScreenWidth

Clamp(v, high) == IF v < 0 THEN 0 ELSE IF v > high THEN high ELSE v

(* Mutant of Clamped: the chain tests y first.                             *)
ClampedYFirst(px, py) ==
    IF py < 0 \/ py > ScreenHeight THEN <<px, Clamp(py, ScreenHeight)>>
    ELSE <<Clamp(px, ScreenWidth), py>>

Clamped(px, py) ==
    IF OffX(px) THEN <<Clamp(px, ScreenWidth), py>>
    ELSE <<px, Clamp(py, ScreenHeight)>>

UpdateMousePosition(px, py) ==
    /\ x' = Clamped(px, py)[1]
    /\ y' = Clamped(px, py)[2]

InBounds(py) == py \in -MaxDrift .. ScreenHeight + MaxDrift

-----------------------------------------------------------------------------
(* startMouse registers a new listener, also when the mouse is started.    *)
StartMouse ==
    /\ starts < MaxStarts
    /\ alreadyAdded' = TRUE
    /\ starts' = starts + 1
    /\ registered' = registered \cup {starts'}
    /\ restarted' = (restarted \/ alreadyAdded)
    /\ UNCHANGED <<cursor, isPortrait, batch, lock, alive>>

(* Mutant of StopMouse: the listener stays registered.                     *)
StopMouseOnly ==
    /\ starts > 0
    /\ alreadyAdded' = FALSE
    /\ UNCHANGED <<cursor, isPortrait, batch, lock, sensors, alive>>

StopMouse ==
    /\ starts > 0
    /\ alreadyAdded' = FALSE
    /\ registered' = registered \ {starts}
    /\ UNCHANGED <<cursor, isPortrait, batch, lock, starts, restarted, alive>>

SetPortrait ==
    /\ isPortrait' \in BOOLEAN
    /\ UNCHANGED <<cursor, alreadyAdded, batch, lock, sensors, alive>>

Sum(dx, dy) == <<sum[1] + dx, sum[2] + dy>>

(* Mutant of Listening: the lock is not looked at.                         *)
ListeningAlways == alreadyAdded

BatchFull == count1 + 1 = AverageNum
Listening == updateSwitch /\ alreadyAdded

(* sensorCallback, called for every listener that is registered.  A batch  *)
(* that is not full survives a lock and a stop.                            *)
SensorCallback(dx, dy) ==
    LET total == Sum(dx, dy)
        move == IF isPortrait THEN <<total[2], total[1]>> ELSE total
    IN
    /\ registered # {}
    /\ Listening
    /\ IF BatchFull
       THEN /\ UpdateMousePosition(x + move[1], y + move[2])
            /\ InBounds(y + move[2])
            /\ count1' = 0
            /\ sum' = <<0, 0>>
       ELSE /\ count1' = count1 + 1
            /\ sum' = total
            /\ UNCHANGED cursor
    /\ UNCHANGED <<alreadyAdded, isPortrait, lock, sensors, alive>>

(* How long a timer that has t left will not run for.                      *)
NotBefore(t) == IF t > TimerLag THEN t - TimerLag ELSE 0

(* lockMouseAWhile(position, true).  Each lock gets a timer of its own and *)
(* those of older locks stay pending.  updateViewLayout throws an          *)
(* exception when the cursor is not on the screen, after the position was  *)
(* updated.                                                                *)
LockMouseAWhile(px, py) ==
    /\ starts > 0
    /\ Len(timers) < MaxTimers
    /\ UpdateMousePosition(px, py)
    /\ IF alreadyAdded
       THEN /\ updateSwitch' = FALSE
            /\ timers' = Append(timers, TimeWait + TimerLag)
            /\ lockedAt' = cursor'
            /\ holdFor' = NotBefore(Head(timers'))
            /\ UNCHANGED alive
       ELSE /\ alive' = FALSE
            /\ UNCHANGED lock
    /\ UNCHANGED <<alreadyAdded, isPortrait, batch, sensors>>

(* The task of a timer, whichever lock it was scheduled by: TimerLag is    *)
(* the slack it has left to run.                                           *)
TimerTask(i) ==
    /\ timers[i] <= TimerLag
    /\ timers' = RemoveAt(timers, i)
    /\ updateSwitch' = TRUE
    /\ UNCHANGED <<cursor, alreadyAdded, isPortrait, batch, lockedAt, holdFor,
                   sensors, alive>>

Tick ==
    /\ \A i \in DOMAIN timers : timers[i] > 0
    /\ timers' = [i \in DOMAIN timers |-> timers[i] - 1]
    /\ holdFor' = IF holdFor > 0 THEN holdFor - 1 ELSE 0
    /\ UNCHANGED <<cursor, alreadyAdded, isPortrait, batch, updateSwitch, lockedAt,
                   sensors, alive>>

(* Where TimeBackCompute can send the cursor back to: a place it was at,   *)
(* or, before its trace has filled up, above the corner of the screen.     *)
Targets ==
    (0..ScreenWidth) \X (0..ScreenHeight)
        \cup {0, ScreenWidth} \X (-MaxDrift .. ScreenHeight + MaxDrift)
        \cup {<<0, -1>>}

MouseNext ==
    /\ alive
    /\ \/ StartMouse
       \/ StopMouse
       \/ SetPortrait
       \/ \E dx, dy \in Samples : SensorCallback(dx, dy)
       \/ \E p \in Targets : LockMouseAWhile(p[1], p[2])
       \/ \E i \in DOMAIN timers : TimerTask(i)
       \/ Tick

(* Time passes and the timer threads run.                                  *)
Fairness ==
    /\ WF_mouseVars(alive /\ Tick)
    /\ WF_mouseVars(alive /\ \E i \in DOMAIN timers : TimerTask(i))

MouseSpec == MouseInit /\ [][MouseNext]_mouseVars /\ Fairness
-----------------------------------------------------------------------------
(* Properties *)

(* Every variable keeps its kind of value.  In particular count1 stays an  *)
(* index of the array of AverageNum samples across locks and stops.        *)
MouseTypeOK ==
    /\ x \in Int /\ y \in Int
    /\ alreadyAdded \in BOOLEAN /\ updateSwitch \in BOOLEAN /\ isPortrait \in BOOLEAN
    /\ count1 \in 0 .. AverageNum - 1
    /\ sum \in Int \X Int
    /\ starts \in Nat /\ registered \subseteq 1..starts
    /\ timers \in Seq(Nat)
    /\ lockedAt \in Int \X Int
    /\ holdFor \in Nat
    /\ restarted \in BOOLEAN /\ alive \in BOOLEAN

(* updateMousePosition keeps x on the screen.  It lets y leave it only     *)
(* while x is at a border, so the cursor is never lost in between.         *)
OffScreenOnlyAtBorder ==
    /\ x \in 0..ScreenWidth
    /\ y \in 0..ScreenHeight \/ x \in {0, ScreenWidth}

(* The cursor stays where the last click put it, although the sensor goes  *)
(* on reporting, until the oldest timer that was pending at that click may *)
(* run: for TimeWait if it was the click's own timer, and for no longer    *)
(* than the older lock had left if it was not (timers are never cancelled, *)
(* and any of them ends the newest lock).                                  *)
LockHolds == holdFor > 0 => cursor = lockedAt \/ ~alive

(* startMouse and stopMouse register and unregister one listener each, so  *)
(* that the sensor only reports while the cursor is on the screen, and     *)
(* once per sample; unless a started mouse is started again.               *)
OneListener == ~restarted => registered = IF alreadyAdded THEN {starts} ELSE {}
=============================================================================
