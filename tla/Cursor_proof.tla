---------------------------- MODULE Cursor_proof ----------------------------
(***************************************************************************)
(* Theorems of MouseManager, where the cursor is, and of TimeBackCompute,  *)
(* where it was.  The cursor: for every screen, batch size, lock time,     *)
(* timer lag and number of overlapping locks.  The trace: for every time   *)
(* unit the position to go back to is read from inside the ring and is one *)
(* unit old, and a stop takes effect within one round.                     *)
(***************************************************************************)
EXTENDS MouseManager, TimeBackCompute, SequenceTheorems, TLAPS

(***************************************************************************)
(* The cursor                                                              *)
(***************************************************************************)

(* What removing one timer task leaves: the others, in their order.        *)
LEMMA RemoveAtProperties ==
    ASSUME NEW S, NEW s \in Seq(S), NEW n \in DOMAIN s
    PROVE  /\ RemoveAt(s, n) \in Seq(S)
           /\ Len(RemoveAt(s, n)) = Len(s) - 1
           /\ \A k \in 1 .. Len(s) - 1 :
                RemoveAt(s, n)[k] = IF k < n THEN s[k] ELSE s[k + 1]
  <1> DEFINE front == SubSeq(s, 1, n - 1)
             rear == SubSeq(s, n + 1, Len(s))
  <1>1. /\ n \in 1..Len(s) /\ Len(s) \in Nat
    OBVIOUS
  <1>2. /\ front \in Seq(S) /\ Len(front) = n - 1
        /\ \A k \in 1 .. n - 1 : front[k] = s[k]
    BY <1>1, SubSeqProperties
  <1>3. /\ rear \in Seq(S) /\ Len(rear) = Len(s) - n
        /\ \A k \in 1 .. Len(s) - n : rear[k] = s[n + k]
    BY <1>1, SubSeqProperties
  <1>4. /\ RemoveAt(s, n) = front \o rear
        /\ RemoveAt(s, n) \in Seq(S)
        /\ Len(RemoveAt(s, n)) = Len(front) + Len(rear)
        /\ \A k \in 1 .. Len(front) + Len(rear) :
             RemoveAt(s, n)[k] = IF k <= Len(front) THEN front[k] ELSE rear[k - Len(front)]
    BY <1>2, <1>3, ConcatProperties DEF RemoveAt
  <1> HIDE DEF front, rear
  <1>5. (n - 1) + (Len(s) - n) = Len(s) - 1
    BY <1>1
  <1>6. ASSUME NEW k \in 1 .. Len(s) - 1
        PROVE  RemoveAt(s, n)[k] = IF k < n THEN s[k] ELSE s[k + 1]
    <2>1. RemoveAt(s, n)[k] = IF k <= n - 1 THEN front[k] ELSE rear[k - (n - 1)]
      BY <1>2, <1>3, <1>4, <1>5
    <2>2. CASE k < n
      BY <1>1, <1>2, <2>1, <2>2
    <2>3. CASE ~(k < n)
      <3>1. k - (n - 1) \in 1 .. Len(s) - n /\ n + (k - (n - 1)) = k + 1
        BY <1>1, <2>3
      <3>2. QED BY <1>1, <1>3, <2>1, <2>3, <3>1
    <2>4. QED BY <2>2, <2>3
  <1>7. QED
    BY <1>2, <1>3, <1>4, <1>5, <1>6

LEMMA ClampedProperties ==
    ASSUME NEW px \in Int, NEW py \in Int
    PROVE  /\ Clamped(px, py) \in Int \X Int
           /\ Clamped(px, py)[1] \in 0..ScreenWidth
           /\ \/ Clamped(px, py)[2] \in 0..ScreenHeight
              \/ Clamped(px, py)[1] \in {0, ScreenWidth}
  BY MouseAssumption DEF Clamped, Clamp, OffX

LEMMA MouseInitType == MouseInit => MouseTypeOK
  <1>1. ScreenWidth \div 2 \in Int /\ ScreenHeight \div 2 \in Int
    BY MouseAssumption
  <1>3. <<>> \in Seq(Nat)
    OBVIOUS
  <1>4. 0 \in 0 .. AverageNum - 1
    BY MouseAssumption
  <1>5. <<0, 0>> \in Int \X Int
    OBVIOUS
  <1>6. MouseInit => /\ x \in Int /\ y \in Int
                /\ starts \in Nat /\ registered \subseteq 1..starts
                /\ holdFor \in Nat
    BY <1>1 DEF MouseInit
  <1>7. MouseInit => /\ count1 \in 0 .. AverageNum - 1
                /\ sum \in Int \X Int /\ timers \in Seq(Nat) /\ lockedAt \in Int \X Int
    BY <1>3, <1>4, <1>5, Zenon DEF MouseInit
  <1>8. MouseInit => /\ alreadyAdded \in BOOLEAN /\ updateSwitch \in BOOLEAN
                /\ isPortrait \in BOOLEAN /\ restarted \in BOOLEAN /\ alive \in BOOLEAN
    BY Zenon DEF MouseInit
  <1>9. QED
    BY <1>6, <1>7, <1>8, Zenon DEF MouseTypeOK

(* What the steps do to the timers, apart from the lock they belong to.    *)
LEMMA TickTimers ==
    ASSUME MouseTypeOK, Tick
    PROVE  /\ timers' \in Seq(Nat)
           /\ Len(timers') = Len(timers)
           /\ \A n \in DOMAIN timers : timers'[n] = timers[n] - 1
  <1>1. \A n \in 1..Len(timers) : timers[n] - 1 \in Nat
    BY SMTT(30) DEF MouseTypeOK, Tick
  <1>2. timers' = [n \in 1..Len(timers) |-> timers[n] - 1]
    BY DEF MouseTypeOK, Tick
  <1>3. timers' \in Seq(Nat) /\ Len(timers') = Len(timers)
    BY <1>1, <1>2 DEF MouseTypeOK
  <1>4. QED
    BY <1>2, <1>3 DEF MouseTypeOK

LEMMA SumType ==
    ASSUME sum \in Int \X Int, NEW dx \in Int, NEW dy \in Int
    PROVE  Sum(dx, dy) \in Int \X Int
  <1>1. sum[1] \in Int /\ sum[2] \in Int
    OBVIOUS
  <1>2. sum[1] + dx \in Int /\ sum[2] + dy \in Int
    BY <1>1
  <1>3. QED BY <1>2 DEF Sum

(* A sample either lengthens the batch or moves the cursor.                *)
LEMMA SampleEffect ==
    ASSUME MouseTypeOK, NEW dx \in Samples, NEW dy \in Samples, SensorCallback(dx, dy)
    PROVE  /\ \/ /\ cursor' = cursor
                 /\ count1' = count1 + 1 /\ count1' < AverageNum
                 /\ sum' \in Int \X Int
              \/ /\ \E px, py \in Int : UpdateMousePosition(px, py)
                 /\ count1' = 0 /\ sum' = <<0, 0>>
           /\ Listening
           /\ UNCHANGED <<alreadyAdded, isPortrait, lock, sensors, alive>>
  <1> DEFINE total == Sum(dx, dy)
             move == IF isPortrait THEN <<total[2], total[1]>> ELSE total
  <1>1. dx \in Int /\ dy \in Int
    BY MouseAssumption
  <1>2. total \in Int \X Int
    BY <1>1, SumType DEF MouseTypeOK
  <1>3. move[1] \in Int /\ move[2] \in Int
    BY <1>2
  <1>4. CASE BatchFull
    <2>1. x \in Int /\ y \in Int
      BY DEF MouseTypeOK
    <2>2. x + move[1] \in Int /\ y + move[2] \in Int
      <3> HIDE DEF move
      <3> QED BY <1>3, <2>1
    <2>3. QED
      BY <1>4, <2>2 DEF SensorCallback
  <1>5. CASE ~BatchFull
    <2>1. count1 \in 0 .. AverageNum - 1
      BY DEF MouseTypeOK
    <2>2. count1 + 1 < AverageNum
      BY <1>5, <2>1, MouseAssumption DEF BatchFull
    <2>3. QED
      BY <1>2, <1>5, <2>2 DEF SensorCallback
  <1>6. QED
    BY <1>4, <1>5

LEMMA MouseNextType == MouseTypeOK /\ [MouseNext]_mouseVars => MouseTypeOK'
  <1> SUFFICES ASSUME MouseTypeOK, [MouseNext]_mouseVars PROVE MouseTypeOK'
    OBVIOUS
  <1> USE MouseAssumption DEF MouseTypeOK
  <1>1. CASE UNCHANGED mouseVars
    BY <1>1 DEF mouseVars, cursor, batch, lock, sensors
  <1>2. CASE StartMouse
    BY <1>2 DEF StartMouse, cursor, batch, lock
  <1>3. CASE StopMouse
    BY <1>3 DEF StopMouse, cursor, batch, lock
  <1>4. CASE SetPortrait
    BY <1>4 DEF SetPortrait, cursor, batch, lock, sensors
  <1>5. ASSUME NEW dx \in Samples, NEW dy \in Samples, SensorCallback(dx, dy)
        PROVE  MouseTypeOK'
    <2>1. /\ x' \in Int /\ y' \in Int
          /\ count1' \in 0 .. AverageNum - 1
          /\ sum' \in Int \X Int
      <3>1. CASE cursor' = cursor /\ count1' = count1 + 1 /\ count1' < AverageNum
                 /\ sum' \in Int \X Int
        <4>1. count1 + 1 \in Nat /\ AverageNum \in Nat
          OBVIOUS
        <4>2. count1' \in 0 .. AverageNum - 1
          BY <3>1, <4>1
        <4>3. x' = x /\ y' = y
          BY <3>1 DEF cursor
        <4>4. QED BY <3>1, <4>2, <4>3
      <3>2. CASE /\ \E px, py \in Int : UpdateMousePosition(px, py)
                 /\ count1' = 0 /\ sum' = <<0, 0>>
        <4>1. PICK px \in Int, py \in Int : UpdateMousePosition(px, py)
          BY <3>2
        <4>2. x' \in Int /\ y' \in Int
          BY <4>1, ClampedProperties DEF UpdateMousePosition
        <4>3. 0 \in 0 .. AverageNum - 1 /\ <<0, 0>> \in Int \X Int
          BY SMTT(30)
        <4>4. QED BY <3>2, <4>2, <4>3, Zenon
      <3>3. QED BY <1>5, <3>1, <3>2, SampleEffect
    <2>2. QED
      BY <1>5, <2>1, SampleEffect, ZenonT(60) DEF lock, sensors
  <1>6. ASSUME NEW p \in Targets, LockMouseAWhile(p[1], p[2]) PROVE MouseTypeOK'
    <2>1. p[1] \in Int /\ p[2] \in Int
      BY SMTT(30) DEF Targets
    <2>2. x' \in Int /\ y' \in Int
      BY <1>6, <2>1, ClampedProperties, ZenonT(60) DEF LockMouseAWhile, UpdateMousePosition
    <2>3. TimeWait + TimerLag \in Nat /\ Append(timers, TimeWait + TimerLag) \in Seq(Nat)
      BY SMTT(30)
    <2>4. /\ updateSwitch' \in BOOLEAN /\ alive' \in BOOLEAN
          /\ timers' \in Seq(Nat) /\ holdFor' \in Nat
          /\ lockedAt' \in Int \X Int
      <3>1. CASE alreadyAdded
        <4>1. /\ updateSwitch' = FALSE /\ alive' = alive
              /\ holdFor' = NotBefore(Head(timers'))
              /\ timers' = Append(timers, TimeWait + TimerLag)
              /\ lockedAt' = <<x', y'>>
          BY <1>6, <3>1 DEF LockMouseAWhile, cursor
        <4>2. <<x', y'>> \in Int \X Int
          BY <2>2
        <4>3. timers \in Seq(Nat)
          BY Zenon DEF MouseTypeOK
        <4> HIDE DEF MouseTypeOK
        <4>4. Head(timers') \in Nat
          BY <2>3, <4>1, <4>3, AppendProperties, HeadTailProperties
        <4>5. \A t \in Nat : NotBefore(t) \in Nat
          BY MouseAssumption DEF NotBefore
        <4>6. holdFor' \in Nat
          BY <4>1, <4>4, <4>5
        <4>7. QED BY <2>3, <4>1, <4>2, <4>6, Zenon DEF MouseTypeOK
      <3>2. CASE ~alreadyAdded
        <4>1. alive' = FALSE /\ updateSwitch' = updateSwitch /\ timers' = timers
              /\ holdFor' = holdFor /\ lockedAt' = lockedAt
          BY <1>6, <3>2 DEF LockMouseAWhile, lock
        <4>2. QED BY <4>1, Zenon DEF MouseTypeOK
      <3>3. QED BY <3>1, <3>2
    <2>5. UNCHANGED <<alreadyAdded, isPortrait, batch, sensors>>
      BY <1>6 DEF LockMouseAWhile
    <2>6. QED
      BY <2>2, <2>4, <2>5 DEF batch, sensors
  <1>7. ASSUME NEW n \in DOMAIN timers, TimerTask(n) PROVE MouseTypeOK'
    <2>1. timers' \in Seq(Nat)
      BY <1>7, RemoveAtProperties DEF TimerTask
    <2>2. QED
      BY <1>7, <2>1, SMTT(30) DEF TimerTask, cursor, batch, sensors
  <1>8. CASE Tick
    <2>1. timers' \in Seq(Nat)
      BY <1>8, TickTimers
    <2>2. QED
      BY <1>8, <2>1 DEF Tick, cursor, batch, sensors
  <1>9. QED
    BY <1>1, <1>2, <1>3, <1>4, <1>5, <1>6, <1>7, <1>8 DEF MouseNext

(* Every variable keeps its kind of value; count1 stays an index of the    *)
(* array of samples.                                                       *)
THEOREM MouseTypeCorrect == MouseSpec => []MouseTypeOK
  <1>1. QED
    BY MouseInitType, MouseNextType, PTL DEF MouseSpec

-----------------------------------------------------------------------------
(* The else-if chain of updateMousePosition always clamps x, and y unless  *)
(* it has just moved x to a border.                                        *)
THEOREM CursorKept == MouseSpec => []OffScreenOnlyAtBorder
  <1> USE DEF OffScreenOnlyAtBorder
  <1>1. MouseInit => OffScreenOnlyAtBorder
    BY MouseAssumption DEF MouseInit
  <1>2. MouseTypeOK /\ OffScreenOnlyAtBorder /\ [MouseNext]_mouseVars => OffScreenOnlyAtBorder'
    <2> SUFFICES ASSUME MouseTypeOK, OffScreenOnlyAtBorder, [MouseNext]_mouseVars
                 PROVE  OffScreenOnlyAtBorder'
      OBVIOUS
    <2>1. ASSUME NEW px \in Int, NEW py \in Int, UpdateMousePosition(px, py)
          PROVE  OffScreenOnlyAtBorder'
      BY <2>1, ClampedProperties DEF UpdateMousePosition
    <2>2. CASE cursor' = cursor
      BY <2>2 DEF cursor
    <2>3. ASSUME NEW dx \in Samples, NEW dy \in Samples, SensorCallback(dx, dy)
          PROVE  OffScreenOnlyAtBorder'
      BY <2>1, <2>2, <2>3, SampleEffect
    <2>4. ASSUME NEW p \in Targets, LockMouseAWhile(p[1], p[2])
          PROVE  OffScreenOnlyAtBorder'
      <3>1. p[1] \in Int /\ p[2] \in Int
        BY MouseAssumption DEF Targets
      <3>2. QED BY <2>1, <2>4, <3>1 DEF LockMouseAWhile
    <2>5. CASE StartMouse \/ StopMouse \/ SetPortrait \/ Tick
      BY <2>2, <2>5 DEF StartMouse, StopMouse, SetPortrait, Tick
    <2>6. ASSUME NEW n \in DOMAIN timers, TimerTask(n) PROVE OffScreenOnlyAtBorder'
      BY <2>2, <2>6 DEF TimerTask
    <2>7. CASE UNCHANGED mouseVars
      BY <2>2, <2>7 DEF mouseVars
    <2>8. QED
      BY <2>3, <2>4, <2>5, <2>6, <2>7 DEF MouseNext
  <1>3. QED
    BY <1>1, <1>2, MouseTypeCorrect, PTL DEF MouseSpec

-----------------------------------------------------------------------------
(* However many locks overlap, their timers are pending oldest first, none *)
(* has more left than a new one, and until holdFor has run out none may    *)
(* run: the switch is off and the cursor is where the last click put it.   *)
LockInv ==
    /\ \A m, n \in DOMAIN timers : m <= n => timers[m] <= timers[n]
    /\ \A n \in DOMAIN timers : timers[n] <= TimeWait + TimerLag
    /\ holdFor > 0 => /\ \A n \in DOMAIN timers : timers[n] >= holdFor + TimerLag
                      /\ ~updateSwitch
                      /\ cursor = lockedAt \/ ~alive

LEMMA NextLockInv == MouseTypeOK /\ LockInv /\ [MouseNext]_mouseVars => LockInv'
  <1> SUFFICES ASSUME MouseTypeOK, LockInv, [MouseNext]_mouseVars PROVE LockInv'
    OBVIOUS
  <1>0. TimeWait \in Nat /\ TimerLag \in Nat /\ holdFor \in Nat /\ timers \in Seq(Nat)
    BY MouseAssumption DEF MouseTypeOK
  <1>a. /\ TimeWait \in Nat /\ TimerLag \in Nat /\ holdFor \in Nat
        /\ timers \in Seq(Nat) /\ Len(timers) \in Nat
        /\ \A n \in 1..Len(timers) : timers[n] \in Nat
    BY <1>0
  <1>b. /\ \A m, n \in 1..Len(timers) : m <= n => timers[m] <= timers[n]
        /\ \A n \in 1..Len(timers) : timers[n] <= TimeWait + TimerLag
        /\ holdFor > 0 => \A n \in 1..Len(timers) : timers[n] >= holdFor + TimerLag
    BY <1>a DEF LockInv
  <1>c. holdFor > 0 => ~updateSwitch /\ (cursor = lockedAt \/ ~alive)
    BY Zenon DEF LockInv
  <1>1. CASE UNCHANGED mouseVars
    BY <1>1 DEF mouseVars, lock, cursor, LockInv
  <1>2. CASE StartMouse \/ StopMouse \/ SetPortrait
    BY <1>2 DEF StartMouse, StopMouse, SetPortrait, lock, cursor, LockInv
  <1>3. ASSUME NEW dx \in Samples, NEW dy \in Samples, SensorCallback(dx, dy)
        PROVE  LockInv'
    <2>1. ~(holdFor > 0)
      BY <1>3, <1>c, Zenon DEF SensorCallback, Listening
    <2>2. UNCHANGED lock
      BY <1>3 DEF SensorCallback
    <2>3. QED
      BY <2>1, <2>2, Zenon DEF lock, LockInv
  <1>4. ASSUME NEW p \in Targets, LockMouseAWhile(p[1], p[2]) PROVE LockInv'
    <2>1. CASE alreadyAdded
      <3> DEFINE all == TimeWait + TimerLag
      <3>1. /\ timers' = Append(timers, all)
            /\ holdFor' = NotBefore(Head(timers'))
            /\ updateSwitch' = FALSE /\ lockedAt' = cursor'
        BY <1>4, <2>1 DEF LockMouseAWhile
      <3>2. /\ all \in Nat /\ timers' \in Seq(Nat) /\ Len(timers') = Len(timers) + 1
            /\ \A n \in 1..Len(timers) : timers'[n] = timers[n]
            /\ timers'[Len(timers) + 1] = all
        BY <1>a, <3>1, AppendProperties
      <3>3. \A n \in 1..Len(timers) : timers[n] <= all
        BY <1>a DEF LockInv
      <3>4. \A m, n \in 1..Len(timers) : m <= n => timers[m] <= timers[n]
        BY <1>a DEF LockInv
      <3> HIDE DEF all
      <3>5. \A m, n \in 1..Len(timers') : m <= n => timers'[m] <= timers'[n]
        <4> SUFFICES ASSUME NEW m \in 1..Len(timers) + 1, NEW n \in 1..Len(timers) + 1, m <= n
                     PROVE  timers'[m] <= timers'[n]
          BY <3>2
        <4>1. CASE n \in 1..Len(timers)
          <5>1. m \in 1..Len(timers)
            BY <1>a, <4>1
          <5>2. QED BY <3>2, <3>4, <4>1, <5>1
        <4>2. CASE n = Len(timers) + 1 /\ m \in 1..Len(timers)
          BY <3>2, <3>3, <4>2
        <4>3. CASE n = Len(timers) + 1 /\ m = Len(timers) + 1
          BY <3>2, <4>3
        <4>4. QED BY <1>a, <4>1, <4>2, <4>3
      <3>6. \A n \in 1..Len(timers') : timers'[n] <= all /\ timers'[n] \in Nat
        BY <1>a, <3>2, <3>3
      <3>7. timers' # <<>> /\ Head(timers') = timers'[1] /\ 1 \in 1..Len(timers')
        BY <1>a, <3>2
      <3>8. holdFor' \in Nat /\ (holdFor' > 0 => holdFor' + TimerLag = timers'[1])
        <4>1. timers'[1] \in Nat /\ holdFor' = NotBefore(timers'[1])
          BY <3>1, <3>6, <3>7
        <4>2. \A t \in Nat : /\ NotBefore(t) \in Nat
                             /\ NotBefore(t) > 0 => NotBefore(t) + TimerLag = t
          BY <1>a DEF NotBefore
        <4>3. QED BY <4>1, <4>2
      <3>9. holdFor' > 0 => \A n \in 1..Len(timers') : timers'[n] >= holdFor' + TimerLag
        <4> SUFFICES ASSUME holdFor' > 0, NEW n \in 1..Len(timers')
                     PROVE  timers'[n] >= holdFor' + TimerLag
          OBVIOUS
        <4>1. timers'[1] <= timers'[n]
          BY <3>2, <3>5, <3>7
        <4>2. QED BY <3>6, <3>7, <3>8, <4>1
      <3>10. DOMAIN timers' = 1..Len(timers')
        BY <3>2
      <3>11. \A n \in DOMAIN timers' : timers'[n] <= TimeWait + TimerLag
        BY <3>6, <3>10 DEF all
      <3>12. QED
        BY <3>1, <3>5, <3>9, <3>10, <3>11, Zenon DEF LockInv
    <2>2. CASE ~alreadyAdded
      BY <1>4, <2>2 DEF LockMouseAWhile, lock, LockInv
    <2>3. QED BY <2>1, <2>2
  <1>5. ASSUME NEW n \in DOMAIN timers, TimerTask(n) PROVE LockInv'
    <2>1. timers[n] <= TimerLag /\ timers[n] \in Nat
      BY <1>5, <1>a DEF TimerTask
    <2>2. ~(holdFor > 0)
      BY <1>5, <1>a, <1>b, <2>1
    <2>3. /\ timers' \in Seq(Nat) /\ Len(timers') = Len(timers) - 1
          /\ \A k \in 1 .. Len(timers) - 1 :
               timers'[k] = IF k < n THEN timers[k] ELSE timers[k + 1]
      BY <1>5, <1>a, RemoveAtProperties DEF TimerTask
    <2>4. DOMAIN timers' = 1 .. Len(timers) - 1 /\ n \in 1..Len(timers)
      BY <1>a, <2>3
    <2>5. \A k \in DOMAIN timers' : timers'[k] <= TimeWait + TimerLag
      <3> SUFFICES ASSUME NEW k \in 1 .. Len(timers) - 1
                   PROVE  timers'[k] <= TimeWait + TimerLag
        BY <2>4
      <3>1. k \in 1..Len(timers) /\ k + 1 \in 1..Len(timers)
        BY <1>a
      <3>2. timers'[k] = timers[k] \/ timers'[k] = timers[k + 1]
        BY <2>3
      <3>3. QED BY <1>b, <3>1, <3>2
    <2>6. \A k, m \in DOMAIN timers' : k <= m => timers'[k] <= timers'[m]
      <3> SUFFICES ASSUME NEW k \in 1 .. Len(timers) - 1, NEW m \in 1 .. Len(timers) - 1, k <= m
                   PROVE  timers'[k] <= timers'[m]
        BY <2>4
      <3> DEFINE old(j) == IF j < n THEN j ELSE j + 1
      <3>1. old(k) \in 1..Len(timers) /\ old(m) \in 1..Len(timers) /\ old(k) <= old(m)
        BY <1>a, <2>4
      <3>2. timers'[k] = timers[old(k)] /\ timers'[m] = timers[old(m)]
        BY <2>3
      <3> HIDE DEF old
      <3>3. QED BY <1>a, <1>b, <3>1, <3>2
    <2>7. ~(holdFor' > 0)
      BY <1>5, <2>2 DEF TimerTask
    <2>8. QED
      BY <2>5, <2>6, <2>7, Zenon DEF LockInv
  <1>6. CASE Tick
    <2>1. /\ timers' \in Seq(Nat) /\ Len(timers') = Len(timers)
          /\ \A n \in DOMAIN timers : timers'[n] = timers[n] - 1
      BY <1>6, TickTimers
    <2>2. holdFor' = IF holdFor > 0 THEN holdFor - 1 ELSE 0
      BY <1>6 DEF Tick
    <2>3. UNCHANGED <<cursor, updateSwitch, lockedAt, alive>>
      BY <1>6 DEF Tick
    <2>4. DOMAIN timers' = 1..Len(timers) /\ DOMAIN timers = 1..Len(timers)
      BY <1>a, <2>1
    <2>5. \A n \in 1..Len(timers) : timers'[n] <= TimeWait + TimerLag
      <3> SUFFICES ASSUME NEW n \in 1..Len(timers) PROVE timers'[n] <= TimeWait + TimerLag
        OBVIOUS
      <3>1. timers'[n] = timers[n] - 1 /\ timers[n] \in Nat /\ timers[n] <= TimeWait + TimerLag
        BY <1>a, <1>b, <2>1, <2>4
      <3>2. QED BY <1>0, <3>1
    <2>6. \A m, n \in 1..Len(timers) : m <= n => timers'[m] <= timers'[n]
      <3> SUFFICES ASSUME NEW m \in 1..Len(timers), NEW n \in 1..Len(timers), m <= n
                   PROVE  timers'[m] <= timers'[n]
        OBVIOUS
      <3>1. /\ timers'[m] = timers[m] - 1 /\ timers'[n] = timers[n] - 1
            /\ timers[m] \in Nat /\ timers[n] \in Nat
        BY <1>a, <2>1, <2>4
      <3>2. timers[m] <= timers[n]
        BY <1>b
      <3>3. QED BY <3>1, <3>2
    <2>7. holdFor' > 0 => \A n \in 1..Len(timers) : timers'[n] >= holdFor' + TimerLag
      <3> SUFFICES ASSUME holdFor' > 0, NEW n \in 1..Len(timers)
                   PROVE  timers'[n] >= holdFor' + TimerLag
        OBVIOUS
      <3>1. holdFor > 0 /\ holdFor' = holdFor - 1
        BY <1>0, <2>2
      <3>2. timers[n] \in Nat /\ timers'[n] = timers[n] - 1
        BY <1>a, <2>1, <2>4
      <3>3. timers[n] >= holdFor + TimerLag
        BY <1>b, <3>1
      <3>4. QED BY <1>0, <3>1, <3>2, <3>3
    <2>8. holdFor' > 0 => holdFor > 0
      BY <1>a, <2>2
    <2>9. holdFor' > 0 => ~updateSwitch' /\ (cursor' = lockedAt' \/ ~alive')
      BY <1>c, <2>3, <2>8, Zenon
    <2>10. QED
      BY <2>4, <2>5, <2>6, <2>7, <2>9, Zenon DEF LockInv
  <1>7. QED
    BY <1>1, <1>2, <1>3, <1>4, <1>5, <1>6 DEF MouseNext

(* Every lock, also one made while the timers of older locks are pending,  *)
(* holds until the oldest of these timers may run.                         *)
THEOREM LocksHold == MouseSpec => []LockHolds
  <1>1. MouseInit => LockInv
    <2>1. MouseInit => timers = <<>> /\ holdFor = 0
      BY DEF MouseInit
    <2>2. DOMAIN <<>> = {}
      OBVIOUS
    <2>3. QED BY <2>1, <2>2 DEF LockInv
  <1>2. LockInv => LockHolds
    BY DEF LockInv, LockHolds
  <1>3. QED
    BY <1>1, <1>2, NextLockInv, MouseTypeCorrect, PTL DEF MouseSpec

(* startMouse and stopMouse register and unregister one listener each.     *)
(* Nothing else touches the listeners, so that OneListener is inductive.   *)
THEOREM ListenersMatch == MouseSpec => []OneListener
  <1> USE DEF OneListener
  <1>1. MouseInit => OneListener
    BY DEF MouseInit
  <1>2. ASSUME OneListener, [MouseNext]_mouseVars
        PROVE  OneListener'
    <2>1. CASE StartMouse
      BY <1>2, <2>1 DEF StartMouse
    <2>2. CASE StopMouse
      BY <1>2, <2>2 DEF StopMouse
    <2>3. CASE UNCHANGED <<alreadyAdded, sensors>>
      BY <1>2, <2>3 DEF sensors
    <2>4. CASE SetPortrait \/ Tick \/ (\E n \in DOMAIN timers : TimerTask(n))
      <3>1. UNCHANGED <<alreadyAdded, sensors>>
        BY <2>4 DEF SetPortrait, Tick, TimerTask
      <3>2. QED BY <3>1, <2>3
    <2>5. CASE \E dx, dy \in Samples : SensorCallback(dx, dy)
      <3>1. UNCHANGED <<alreadyAdded, sensors>>
        BY <2>5 DEF SensorCallback
      <3>2. QED BY <3>1, <2>3
    <2>6. CASE \E p \in Targets : LockMouseAWhile(p[1], p[2])
      <3>1. UNCHANGED <<alreadyAdded, sensors>>
        BY <2>6 DEF LockMouseAWhile
      <3>2. QED BY <3>1, <2>3
    <2>7. CASE UNCHANGED mouseVars
      BY <2>7, <2>3 DEF mouseVars
    <2>8. QED
      BY <1>2, <2>1, <2>2, <2>4, <2>5, <2>6, <2>7 DEF MouseNext
  <1>3. QED
    BY <1>1, <1>2, PTL DEF MouseSpec

(***************************************************************************)
(* The position trace                                                      *)
(***************************************************************************)

LEMMA LengthType == length \in Nat /\ length >= 2 /\ length = TimeUnit + TimeUnit
  BY TimeUnitAssumption DEF length

(* The index wraps correctly also for the one value of pointer that lies   *)
(* outside the ring.                                                       *)
LEMMA BackIndexInRing ==
    ASSUME NEW p \in 0..length
    PROVE  BackIndex(p) \in 0 .. length - 1
  BY LengthType, TimeUnitAssumption DEF BackIndex

LEMMA CellUpdate ==
    ASSUME TypeOK, pointer < length, NEW n \in Nat
    PROVE  /\ [positionArray EXCEPT ![pointer].x = n] \in [0 .. length - 1 -> Positions]
           /\ [positionArray EXCEPT ![pointer].y = n] \in [0 .. length - 1 -> Positions]
  <1>1. pointer \in 0 .. length - 1
    BY LengthType DEF TypeOK
  <1>2. positionArray[pointer] \in Positions
    BY <1>1 DEF TypeOK
  <1>3. /\ [positionArray[pointer] EXCEPT !.x = n] \in Positions
        /\ [positionArray[pointer] EXCEPT !.y = n] \in Positions
    BY <1>2 DEF Positions
  <1>4. QED
    BY <1>1, <1>3 DEF TypeOK

(* While a sample is being taken, there is one, and the round is not over. *)
TypeInv ==
    /\ TypeOK
    /\ samplerPc \in {"x", "y", "advance", "wrap"} => i < length
    /\ samplerPc \in {"y", "advance"} => taken >= 1

LEMMA InitType == Init => TypeInv
  <1>1. Zero \in Positions
    BY DEF Zero, Positions
  <1>2. QED
    BY <1>1, LengthType DEF Init, TypeInv, TypeOK, SamplerPcs, MainPcs

LEMMA NextType == TypeInv /\ [Next]_vars => TypeInv'
  <1> SUFFICES ASSUME TypeInv, [Next]_vars PROVE TypeInv'
    OBVIOUS
  <1> USE LengthType DEF TypeInv, TypeOK, SamplerPcs, MainPcs
  <1>1. CASE UNCHANGED vars
    BY <1>1 DEF vars, samplerVars, mainVars
  <1>2. CASE While
    BY <1>2 DEF While, mainVars
  <1>3. CASE For
    BY <1>3 DEF For, mainVars
  <1>4. CASE SampleX
    <2>1. taken' = taken + 1 /\ taken' \in Nat /\ taken' >= 1 /\ late' \in Nat
      BY <1>4 DEF SampleX
    <2>2. positionArray' \in [0 .. length - 1 -> Positions]
      BY <1>4, <2>1, CellUpdate DEF SampleX
    <2>3. samplerPc = "x" /\ samplerPc' = "y" /\ UNCHANGED <<pointer, i, goon>>
      BY <1>4 DEF SampleX
    <2>4. UNCHANGED mainVars
      BY <1>4 DEF SampleX
    <2>5. QED BY <2>1, <2>2, <2>3, <2>4 DEF mainVars
  <1>5. CASE SampleY
    <2>1. positionArray' \in [0 .. length - 1 -> Positions]
      BY <1>5, CellUpdate DEF SampleY
    <2>2. QED BY <1>5, <2>1 DEF SampleY, mainVars
  <1>6. CASE Advance
    BY <1>6 DEF Advance, mainVars
  <1>7. CASE Wrap
    BY <1>7 DEF Wrap, mainVars
  <1>8. CASE ReadIndex
    <2>1. index' \in 0 .. length - 1
      BY <1>8, BackIndexInRing DEF ReadIndex
    <2>2. Zero \in Positions /\ Complete \in Nat
      BY DEF Zero, Positions, Complete
    <2>3. QED BY <1>8, <2>1, <2>2 DEF ReadIndex, samplerVars
  <1>9. CASE ReadCurrentX \/ ReadCurrentY
    BY <1>9, SMTT(30) DEF ReadCurrentX, ReadCurrentY, Crash, Positions, samplerVars
  <1>10. CASE ReadBackX \/ ReadBackY
    BY <1>10 DEF ReadBackX, ReadBackY, Positions, samplerVars
  <1>11. CASE StopTimeBackCompute
    BY <1>11 DEF StopTimeBackCompute, samplerVars, mainVars
  <1>12. QED
    BY <1>1, <1>2, <1>3, <1>4, <1>5, <1>6, <1>7, <1>8, <1>9, <1>10, <1>11
    DEF Next, Sampler, Main

(* Every variable keeps its kind of value; pointer leaves the ring only    *)
(* between pointer++ and its reset, and index never does.                  *)
THEOREM TypeCorrect == Spec => []TypeOK
  <1>1. TypeInv => TypeOK
    BY DEF TypeInv
  <1>2. QED
    BY <1>1, InitType, NextType, PTL DEF Spec

-----------------------------------------------------------------------------
(* The samples begun after the stop all belong to the round under way: the *)
(* loop variable has counted every one of them.                            *)
Counted == IF samplerPc \in {"y", "advance", "wrap"} THEN i + 1 ELSE i

RoundInv ==
    /\ goon => late = 0
    /\ late <= length
    /\ samplerPc \in {"for", "x", "y", "advance", "wrap"} => late <= Counted

LEMMA NextRoundInv == TypeInv /\ RoundInv /\ [Next]_vars => RoundInv'
  <1> SUFFICES ASSUME TypeInv, RoundInv, [Next]_vars PROVE RoundInv'
    OBVIOUS
  <1> USE LengthType DEF TypeInv, TypeOK, RoundInv, Counted
  <1>1. CASE UNCHANGED vars
    BY <1>1 DEF vars, samplerVars
  <1>2. CASE While
    BY <1>2 DEF While
  <1>3. CASE For
    BY <1>3 DEF For
  <1>4. CASE SampleX
    BY <1>4 DEF SampleX
  <1>5. CASE SampleY \/ Advance \/ Wrap
    BY <1>5 DEF SampleY, Advance, Wrap
  <1>6. CASE ReadIndex \/ ReadCurrentX \/ ReadCurrentY \/ ReadBackX \/ ReadBackY
    BY <1>6 DEF ReadIndex, ReadCurrentX, ReadCurrentY, Crash, ReadBackX, ReadBackY,
                samplerVars
  <1>7. CASE StopTimeBackCompute
    BY <1>7 DEF StopTimeBackCompute, samplerVars
  <1>8. QED
    BY <1>1, <1>2, <1>3, <1>4, <1>5, <1>6, <1>7 DEF Next, Sampler, Main

(* run() tests goon once per round of length samples, so it takes no more  *)
(* than that many after stopTimeBackCompute().                             *)
THEOREM StopBound == Spec => []StopsWithinARound
  <1>1. Init => RoundInv
    BY LengthType DEF Init, RoundInv
  <1>2. RoundInv => StopsWithinARound
    BY DEF RoundInv, StopsWithinARound
  <1>3. QED
    BY <1>1, <1>2, InitType, NextType, NextRoundInv, PTL DEF Spec

-----------------------------------------------------------------------------
(* The ring.  With pointer p and c complete samples, cell k holds sample   *)
(* Written(k, p, c): the latest one is behind pointer, the oldest at it.   *)
Written(k, p, c) == IF k < p THEN c - p + 1 + k ELSE c - p + 1 + k - length

(* The cell at pointer while it is being written holds a newer sample, or  *)
(* its first coordinate only.                                              *)
Cell(k) ==
    CASE samplerPc = "y" /\ k = pointer -> [x |-> taken, y |-> Sample(taken - length).y]
      [] samplerPc = "advance" /\ k = pointer -> Sample(taken)
      [] OTHER -> Sample(Written(k, pointer, Complete))

RingInv == \A k \in 0 .. length - 1 : positionArray[k] = Cell(k)

LEMMA SampleType ==
    ASSUME NEW n \in Int
    PROVE  Sample(n) \in Positions
  BY DEF Sample, Zero, Positions

(* The reset of pointer changes the place of no sample.                    *)
LEMMA WrittenAtWrap ==
    ASSUME NEW k \in 0 .. length - 1, NEW c \in Int
    PROVE  Written(k, length, c) = Written(k, 0, c)
  BY LengthType DEF Written

(* One more sample takes the place of the oldest one and of no other.      *)
LEMMA WrittenAtAdvance ==
    ASSUME NEW k \in 0 .. length - 1, NEW p \in 0 .. length - 1, NEW c \in Int
    PROVE  /\ k # p => Written(k, p + 1, c + 1) = Written(k, p, c)
           /\ Written(p, p + 1, c + 1) = c + 1
           /\ Written(p, p, c) = c + 1 - length
  BY LengthType DEF Written

LEMMA NextRingInv == TypeInv /\ RingInv /\ [Next]_vars => RingInv'
  <1> SUFFICES ASSUME TypeInv, RingInv, [Next]_vars,
                      NEW k \in 0 .. length - 1
               PROVE  positionArray'[k] = Cell(k)'
    BY LengthType DEF RingInv, length
  <1> USE LengthType
  <1>0. /\ positionArray[k] = Cell(k)
        /\ pointer \in 0..length /\ taken \in Nat /\ k \in Int
        /\ samplerPc # "wrap" => pointer \in 0 .. length - 1
        /\ samplerPc \in {"y", "advance"} => taken >= 1
        /\ positionArray \in [0 .. length - 1 -> Positions]
    BY DEF RingInv, TypeInv, TypeOK
  <1>1. CASE UNCHANGED <<positionArray, pointer, samplerPc, taken>>
    BY <1>0, <1>1 DEF Cell, Complete, length
  <1>2. CASE While \/ For
    <2>1. /\ UNCHANGED <<positionArray, pointer, taken>>
          /\ samplerPc \notin {"y", "advance"} /\ samplerPc' \notin {"y", "advance"}
      BY <1>2 DEF While, For
    <2>2. QED BY <1>0, <2>1 DEF Cell, Complete, length
  <1>3. CASE SampleX
    <2>1. /\ samplerPc = "x" /\ samplerPc' = "y" /\ UNCHANGED pointer
          /\ taken' = taken + 1 /\ Complete = taken /\ Complete' = taken
          /\ positionArray' = [positionArray EXCEPT ![pointer].x = taken']
      BY <1>0, <1>3 DEF SampleX, Complete
    <2>2. CASE k # pointer
      BY <1>0, <2>1, <2>2 DEF Cell, length
    <2>3. CASE k = pointer
      <3>1. positionArray[k] = Sample(taken + 1 - length)
        BY <1>0, <2>1, <2>3, WrittenAtAdvance DEF Cell
      <3>2. positionArray'[k] = [positionArray[k] EXCEPT !.x = taken + 1]
        BY <1>0, <2>1, <2>3
      <3>3. Sample(taken + 1 - length) \in Positions
        BY <1>0, SampleType
      <3>4. positionArray'[k] = [x |-> taken + 1, y |-> Sample(taken + 1 - length).y]
        BY <3>1, <3>2, <3>3 DEF Positions
      <3>5. Cell(k)' = [x |-> taken', y |-> Sample(taken - length)'.y]
        BY <2>1, <2>3 DEF Cell
      <3>6. Sample(taken - length)' = Sample(taken' - length)
        BY Zenon DEF Sample, Zero, length
      <3>7. taken' - length = taken + 1 - length
        BY <1>0, <2>1
      <3>8. QED BY <2>1, <3>4, <3>5, <3>6, <3>7, Zenon
    <2>4. QED BY <2>2, <2>3
  <1>4. CASE SampleY
    <2>1. /\ samplerPc = "y" /\ samplerPc' = "advance" /\ UNCHANGED <<pointer, taken>>
          /\ Complete = taken - 1 /\ Complete' = taken - 1
          /\ positionArray' = [positionArray EXCEPT ![pointer].y = taken]
      BY <1>0, <1>4 DEF SampleY, Complete
    <2>2. CASE k # pointer
      BY <1>0, <2>1, <2>2 DEF Cell, length
    <2>3. CASE k = pointer
      <3>1. positionArray[k] = [x |-> taken, y |-> Sample(taken - length).y]
        BY <1>0, <2>1, <2>3 DEF Cell
      <3>2. positionArray'[k] = [positionArray[k] EXCEPT !.y = taken]
        BY <1>0, <2>1, <2>3
      <3>3. positionArray'[k] = [x |-> taken, y |-> taken]
        BY <3>1, <3>2
      <3>4. Cell(k)' = Sample(taken)
        BY <2>1, <2>3 DEF Cell, Sample
      <3>5. QED BY <1>0, <2>1, <3>3, <3>4 DEF Sample
    <2>4. QED BY <2>2, <2>3
  <1>5. CASE Advance
    <2>1. /\ samplerPc = "advance" /\ samplerPc' = "wrap" /\ pointer' = pointer + 1
          /\ UNCHANGED <<positionArray, taken>>
          /\ Complete = taken - 1 /\ Complete' = taken
      BY <1>5 DEF Advance, Complete
    <2>2. Cell(k)' = Sample(Written(k, pointer + 1, taken))
      BY <2>1 DEF Cell, Written, Sample, length
    <2>3. Cell(k) = IF k = pointer THEN Sample(taken) ELSE Sample(Written(k, pointer, taken - 1))
      BY <2>1 DEF Cell
    <2>4. (taken - 1) + 1 = taken /\ pointer \in 0 .. length - 1 /\ taken - 1 \in Int
      BY <1>0, <2>1
    <2>5. /\ k # pointer => Written(k, pointer + 1, taken) = Written(k, pointer, taken - 1)
          /\ Written(pointer, pointer + 1, taken) = taken
      BY <2>4, WrittenAtAdvance
    <2>6. QED BY <1>0, <2>1, <2>2, <2>3, <2>5
  <1>6. CASE Wrap
    <2>1. /\ samplerPc = "wrap" /\ samplerPc' = "for"
          /\ pointer' = IF pointer = length THEN 0 ELSE pointer
          /\ UNCHANGED <<positionArray, taken>>
          /\ Complete = taken /\ Complete' = taken
      BY <1>6 DEF Wrap, Complete
    <2>2. Cell(k)' = Sample(Written(k, pointer', taken))
      BY <2>1 DEF Cell, Written, Sample, length
    <2>3. Cell(k) = Sample(Written(k, pointer, taken))
      BY <2>1 DEF Cell
    <2>4. Written(k, pointer', taken) = Written(k, pointer, taken)
      BY <1>0, <2>1, WrittenAtWrap
    <2>5. QED BY <1>0, <2>1, <2>2, <2>3, <2>4
  <1>7. CASE Main \/ UNCHANGED vars
    BY <1>7, <1>1 DEF Main, ReadIndex, ReadCurrentX, ReadCurrentY, Crash, ReadBackX,
                      ReadBackY, StopTimeBackCompute, samplerVars, vars
  <1>8. QED
    BY <1>2, <1>3, <1>4, <1>5, <1>6, <1>7 DEF Next, Sampler

(* While at most a unit of samples is taken after the index was read, its  *)
(* cell holds the sample that is to be read, and what was read is of it.   *)
Reading == mainPc \in {"currentX", "currentY", "backX", "backY", "done"}
Wanted == Sample(at - TimeUnit + 1)

ReadInv ==
    /\ Reading => at \in Nat /\ Complete >= at
    /\ Reading /\ taken <= at + TimeUnit =>
          /\ Written(index, pointer, Complete) = at - TimeUnit + 1
          /\ mainPc \in {"backY", "done"} => back.x = Wanted.x
          /\ mainPc = "done" => back.y = Wanted.y

LEMMA InitRing == Init => RingInv /\ ReadInv
  <1> SUFFICES ASSUME Init PROVE RingInv /\ ReadInv
    OBVIOUS
  <1>1. ASSUME NEW k \in 0 .. length - 1
        PROVE  positionArray[k] = Cell(k)
    <2>1. Cell(k) = Sample(Written(k, 0, 0)) /\ positionArray[k] = Zero
      BY DEF Init, Cell, Complete
    <2>2. ~(Written(k, 0, 0) > 0)
      BY LengthType DEF Written
    <2>3. QED BY <2>1, <2>2 DEF Sample
  <1>2. ~Reading
    BY DEF Init, Reading
  <1>3. QED BY <1>1, <1>2 DEF RingInv, ReadInv

(* What the sampling thread leaves of the place of a cell and of the count *)
(* of complete samples.                                                    *)
LEMMA WrittenKept ==
    ASSUME TypeInv, Sampler, taken' <= at + TimeUnit, at \in Nat, at <= Complete,
           Written(index, pointer, Complete) = at - TimeUnit + 1
    PROVE  Written(index, pointer, Complete)' = at - TimeUnit + 1
  <1> USE LengthType, TimeUnitAssumption
  <1>0. /\ index \in 0 .. length - 1 /\ index' = index
        /\ pointer \in 0..length /\ taken \in Nat
        /\ samplerPc # "wrap" => pointer \in 0 .. length - 1
    BY DEF TypeInv, TypeOK, Sampler, While, For, SampleX, SampleY, Advance, Wrap, mainVars
  <1>1. CASE ~Advance /\ ~Wrap
    <2>1. UNCHANGED <<pointer, index>> /\ Complete' = Complete
      BY <1>0, <1>1 DEF Sampler, While, For, SampleX, SampleY, mainVars, Complete
    <2>2. QED BY <2>1 DEF Written, length
  <1>2. CASE Advance
    <2>1. /\ pointer' = pointer + 1 /\ taken' = taken
          /\ Complete = taken - 1 /\ Complete' = taken /\ pointer \in 0 .. length - 1
      BY <1>0, <1>2 DEF Advance, Complete
    <2>2. Written(index, pointer, Complete)' = Written(index, pointer + 1, taken)
      BY <1>0, <2>1 DEF Written, length
    <2>3. index # pointer
      BY <1>0, <2>1 DEF Written
    <2>4. QED BY <1>0, <2>1, <2>2, <2>3 DEF Written
  <1>3. CASE Wrap
    <2>1. /\ pointer' = IF pointer = length THEN 0 ELSE pointer
          /\ Complete' = Complete /\ Complete \in Int
      BY <1>0, <1>3 DEF Wrap, Complete
    <2>2. Written(index, pointer, Complete)' = Written(index, pointer', Complete)
      BY <1>0, <2>1 DEF Written, length
    <2>3. QED BY <1>0, <2>1, <2>2, WrittenAtWrap
  <1>4. QED BY <1>1, <1>2, <1>3

(* The cell that the main thread reads.                                    *)
LEMMA CellRead ==
    ASSUME TypeInv, RingInv, ReadInv, Reading, taken <= at + TimeUnit
    PROVE  positionArray[index] = Wanted
  <1> USE LengthType, TimeUnitAssumption
  <1>1. /\ index \in 0 .. length - 1 /\ taken \in Nat /\ at \in Nat
        /\ pointer \in 0..length
        /\ Written(index, pointer, Complete) = at - TimeUnit + 1
        /\ positionArray[index] = Cell(index)
    BY DEF TypeInv, TypeOK, RingInv, ReadInv
  <1>2. samplerPc \in {"y", "advance"} => index # pointer
    BY <1>1 DEF Written, Complete
  <1>3. Cell(index) = Sample(Written(index, pointer, Complete))
    BY <1>2 DEF Cell
  <1>4. QED BY <1>1, <1>3 DEF Wanted

LEMMA NextReadInv == TypeInv /\ RingInv /\ ReadInv /\ [Next]_vars => ReadInv'
  <1> SUFFICES ASSUME TypeInv, RingInv, ReadInv, [Next]_vars PROVE ReadInv'
    OBVIOUS
  <1> USE LengthType, TimeUnitAssumption
  <1>0. /\ taken \in Nat /\ at \in Nat /\ Complete \in Nat
        /\ pointer \in 0..length /\ back \in Positions
    BY DEF TypeInv, TypeOK, Complete
  <1>1. CASE Sampler
    <2>1. UNCHANGED mainVars
      BY <1>1 DEF Sampler, While, For, SampleX, SampleY, Advance, Wrap
    <2>2. taken' >= taken /\ Complete' >= Complete
      BY <1>0, <1>1 DEF Sampler, While, For, SampleX, SampleY, Advance, Wrap, Complete
    <2>3. Reading' = Reading /\ Wanted' = Wanted /\ UNCHANGED <<mainPc, at, back>>
      BY <2>1 DEF Reading, Wanted, mainVars, Sample, Zero
    <2>4. taken' \in Int /\ Complete' \in Int
      BY <1>0, <1>1 DEF Sampler, While, For, SampleX, SampleY, Advance, Wrap, Complete
    <2>5. Reading => at \in Nat /\ Complete' >= at
      BY <1>0, <2>2, <2>4 DEF ReadInv
    <2>6. ASSUME Reading, taken' <= at + TimeUnit
          PROVE  /\ Written(index, pointer, Complete)' = at - TimeUnit + 1
                 /\ mainPc \in {"backY", "done"} => back.x = Wanted.x
                 /\ mainPc = "done" => back.y = Wanted.y
      <3>1. taken <= at + TimeUnit
        BY <1>0, <2>2, <2>4, <2>6
      <3>2. /\ Written(index, pointer, Complete) = at - TimeUnit + 1
            /\ mainPc \in {"backY", "done"} => back.x = Wanted.x
            /\ mainPc = "done" => back.y = Wanted.y
            /\ at <= Complete
        BY <2>6, <3>1 DEF ReadInv
      <3>3. QED BY <1>0, <1>1, <2>6, <3>2, WrittenKept
    <2>7. QED BY <2>3, <2>5, <2>6 DEF ReadInv
  <1>2. CASE ReadIndex
    <2>1. /\ mainPc' = "currentX" /\ at' = Complete /\ index' = BackIndex(pointer)
          /\ UNCHANGED <<pointer, taken>> /\ Complete' = Complete
      BY <1>2 DEF ReadIndex, samplerVars, Complete
    <2>2. Written(BackIndex(pointer), pointer, Complete) = Complete - TimeUnit + 1
      BY <1>0 DEF Written, BackIndex
    <2>3. Written(index, pointer, Complete)' = Written(BackIndex(pointer), pointer, Complete)
      BY <2>1 DEF Written, length
    <2>4. QED BY <1>0, <2>1, <2>2, <2>3 DEF ReadInv, Reading
  <1>3. CASE ReadCurrentX \/ ReadCurrentY
    <2>1. /\ UNCHANGED <<samplerVars, index, at>> /\ Reading
          /\ mainPc' \notin {"backY", "done"}
      BY <1>3 DEF ReadCurrentX, ReadCurrentY, Crash, Reading
    <2>2. /\ UNCHANGED <<pointer, taken>> /\ Complete' = Complete
          /\ Written(index, pointer, Complete)' = Written(index, pointer, Complete)
      BY <2>1 DEF samplerVars, Complete, Written, length
    <2>3. QED BY <2>1, <2>2 DEF ReadInv
  <1>4. CASE ReadBackX \/ ReadBackY
    <2>1. UNCHANGED <<samplerVars, index, at>> /\ Reading
      BY <1>4 DEF ReadBackX, ReadBackY, Reading
    <2>2. /\ UNCHANGED <<pointer, taken>> /\ Complete' = Complete /\ Wanted' = Wanted
          /\ Written(index, pointer, Complete)' = Written(index, pointer, Complete)
      BY <2>1 DEF samplerVars, Complete, Written, length, Wanted, Sample, Zero
    <2>3. CASE ReadBackX
      <3>1. mainPc' = "backY" /\ back'.x = positionArray[index].x
        BY <1>0, <2>3 DEF ReadBackX, Positions
      <3>2. QED BY <2>1, <2>2, <3>1, CellRead DEF ReadInv
    <2>4. CASE ReadBackY
      <3>1. /\ mainPc = "backY" /\ mainPc' = "done"
            /\ back'.y = positionArray[index].y /\ back'.x = back.x
        BY <1>0, <2>4 DEF ReadBackY, Positions
      <3>2. QED BY <2>1, <2>2, <3>1, CellRead DEF ReadInv
    <2>5. QED BY <1>4, <2>3, <2>4
  <1>5. CASE StopTimeBackCompute \/ UNCHANGED vars
    <2>1. UNCHANGED <<samplerVars, mainVars>>
      BY <1>5 DEF StopTimeBackCompute, vars
    <2>2. /\ UNCHANGED <<mainPc, at, back, taken>> /\ Complete' = Complete
          /\ Wanted' = Wanted /\ Reading' = Reading
          /\ Written(index, pointer, Complete)' = Written(index, pointer, Complete)
      BY <2>1 DEF samplerVars, mainVars, Complete, Written, length, Wanted, Sample, Zero, Reading
    <2>3. QED BY <2>2 DEF ReadInv
  <1>6. QED BY <1>1, <1>2, <1>3, <1>4, <1>5 DEF Next, Main

(* getTimebackPosition returns the position of one time unit ago, untorn,  *)
(* unless it is held up for a whole unit of samples between its reads.     *)
THEOREM BackIsRight == Spec => []BackIsOneUnitOld
  <1>1. TypeInv /\ ReadInv => BackIsOneUnitOld
    <2> SUFFICES ASSUME TypeInv, ReadInv, mainPc = "done", taken <= at + TimeUnit
                 PROVE  back = Wanted
      BY DEF BackIsOneUnitOld, Wanted
    <2>1. back.x = Wanted.x /\ back.y = Wanted.y
      BY DEF ReadInv, Reading
    <2>2. back \in Positions /\ at - TimeUnit + 1 \in Int
      BY TimeUnitAssumption DEF TypeInv, TypeOK
    <2>3. Wanted \in Positions
      BY <2>2, SampleType DEF Wanted
    <2>4. QED BY <2>1, <2>2, <2>3 DEF Positions
  <1>2. QED
    BY <1>1, InitType, NextType, InitRing, NextRingInv, NextReadInv, PTL DEF Spec

-----------------------------------------------------------------------------
(* pointer counts the samples round the ring.                              *)
LEMMA ModStep ==
    ASSUME NEW n \in Nat
    PROVE  (n + 1) % length = IF (n % length) + 1 = length THEN 0 ELSE (n % length) + 1
  BY LengthType

CountInv ==
    LET n == Complete % length
    IN  IF samplerPc = "wrap" THEN pointer = IF n = 0 THEN length ELSE n
                              ELSE pointer = n

LEMMA NextCountInv == TypeInv /\ CountInv /\ [Next]_vars => CountInv'
  <1> SUFFICES ASSUME TypeInv, CountInv, [Next]_vars PROVE CountInv'
    OBVIOUS
  <1> USE LengthType
  <1>0. /\ taken \in Nat /\ Complete \in Nat
        /\ samplerPc \in {"y", "advance"} => taken - 1 \in Nat
    BY DEF TypeInv, TypeOK, Complete
  <1>1. CASE Advance
    <2>1. /\ samplerPc # "wrap" /\ samplerPc' = "wrap" /\ pointer' = pointer + 1
          /\ Complete = taken - 1 /\ Complete' = (taken - 1) + 1
          /\ taken - 1 \in Nat
      BY <1>0, <1>1 DEF Advance, Complete
    <2>2. pointer = (taken - 1) % length
      BY <2>1 DEF CountInv
    <2>3. /\ Complete' % length = IF pointer + 1 = length THEN 0 ELSE pointer + 1
          /\ pointer \in Nat
      <3>1. ((taken - 1) + 1) % length =
                IF ((taken - 1) % length) + 1 = length THEN 0 ELSE ((taken - 1) % length) + 1
        BY <2>1, ModStep, Zenon
      <3>2. (taken - 1) % length \in Nat
        BY <2>1
      <3>3. QED BY <2>1, <2>2, <3>1, <3>2, Zenon
    <2>4. pointer' = IF Complete' % length = 0 THEN length ELSE Complete' % length
      BY <2>1, <2>3
    <2>5. QED BY <2>1, <2>4 DEF CountInv, length
  <1>2. CASE Wrap
    <2>1. /\ samplerPc = "wrap" /\ samplerPc' = "for" /\ Complete' = Complete
          /\ pointer' = IF pointer = length THEN 0 ELSE pointer
      BY <1>2 DEF Wrap, Complete
    <2>2. Complete % length < length
      BY <1>0
    <2>3. pointer' = Complete % length
      BY <1>0, <2>1, <2>2 DEF CountInv
    <2>4. QED BY <2>1, <2>3 DEF CountInv, length
  <1>3. CASE While \/ For \/ SampleX \/ SampleY
    <2>1. /\ UNCHANGED pointer /\ Complete' = Complete
          /\ samplerPc # "wrap" /\ samplerPc' # "wrap"
      BY <1>0, <1>3 DEF While, For, SampleX, SampleY, Complete
    <2>2. QED BY <2>1 DEF CountInv, length
  <1>4. CASE Main \/ UNCHANGED vars
    <2>1. UNCHANGED samplerVars
      BY <1>4 DEF Main, ReadIndex, ReadCurrentX, ReadCurrentY, Crash, ReadBackX,
                  ReadBackY, StopTimeBackCompute, vars
    <2>2. UNCHANGED <<pointer, samplerPc>> /\ Complete' = Complete
      BY <2>1 DEF samplerVars, Complete
    <2>3. QED BY <2>2 DEF CountInv, length
  <1>5. QED BY <1>1, <1>2, <1>3, <1>4 DEF Next, Sampler

(* getTimebackPosition only indexes past the ring in the moment between    *)
(* pointer++ and the reset of pointer, once in a round of the ring.        *)
THEOREM FailureWindow == Spec => []FailsOnlyInWrap
  <1> USE LengthType DEF FailsOnlyInWrap
  <1>1. Init => CountInv /\ FailsOnlyInWrap
    BY DEF Init, CountInv, Complete
  <1>2. ASSUME TypeInv, CountInv, FailsOnlyInWrap, [Next]_vars
        PROVE  FailsOnlyInWrap'
    <2>1. CASE Crash /\ mainPc # "crashed"
      <3>1. samplerPc = "wrap" /\ Complete = taken
        BY <1>2, <2>1 DEF Crash, TypeInv, TypeOK, Complete
      <3>2. Complete % length = 0
        <4>1. Complete % length < length
          BY <1>2, <3>1 DEF TypeInv, TypeOK
        <4>2. QED BY <1>2, <2>1, <3>1, <4>1 DEF CountInv, Crash
      <3>3. UNCHANGED <<samplerPc, taken>>
        BY <2>1 DEF Crash, samplerVars
      <3>4. QED BY <3>1, <3>2, <3>3 DEF length
    <2>2. CASE UNCHANGED vars
      BY <1>2, <2>2 DEF vars, samplerVars, mainVars, length
    <2>3. CASE mainPc' # "crashed"
      BY <2>3
    <2>4. QED
      BY <1>2, <2>1, <2>2, <2>3
      DEF Next, Main, Sampler, While, For, SampleX, SampleY, Advance, Wrap, ReadIndex,
          ReadCurrentX, ReadCurrentY, ReadBackX, ReadBackY, StopTimeBackCompute, mainVars
  <1>3. QED
    BY <1>1, <1>2, InitType, NextType, NextCountInv, PTL DEF Spec
=============================================================================
