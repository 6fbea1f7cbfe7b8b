------------------------ MODULE DataLogHelper_proof ------------------------
(***************************************************************************)
(* Theorems of DataLogHelper, for any number of sampling threads and of    *)
(* lines: where the unsynchronized log can end the process, and that its   *)
(* file is complete as long as no two threads open it at once.             *)
(***************************************************************************)
EXTENDS DataLogHelper, SequenceTheorems, TLAPS

Writing == {"test", "openTest", "setOpen", "setFormat", "openFile", "format", "write", "put"}

Typed ==
    /\ TypeOK
    /\ \A t \in Threads : pc[t] \in Writing => line[t] # 0

(* There is a stream, or there is an excuse.                               *)
Excused == outStream # 0 \/ failed \/ \E u \in Threads : pc[u] \in {"setFormat", "openFile"}

(* instance is null until onStartCommand has set it for the first time.    *)
InstanceSet ==
    instance = 0 => pc[Main] = IF \E s \in Samplers : pc[s] # "none"
                               THEN "setInstance" ELSE "idle"

First ==
    /\ InstanceSet
    /\ outStream # 0 => instance # 0
    /\ \A t \in Threads : pc[t] = "openFile" => timeFormat
    /\ open => Excused
    /\ \A t \in Threads : pc[t] \in {"format", "write", "clearOpen", "getStream"} => Excused

(* What the flag and the place of the one busy thread say of the streams.  *)
Live == {k \in 1..Len(offset) : k \notin closed}
StreamIsOpen ==
    \/ open /\ \A t \in Threads : pc[t] \notin {"setFormat", "openFile"}
    \/ \E t \in Threads : pc[t] \in {"getStream", "closeStream"}

Flag ==
    /\ Live = IF StreamIsOpen THEN {outStream} ELSE {}
    /\ \A t \in Threads :
          /\ pc[t] \in {"openTest", "setOpen", "getStream", "closeStream"} => ~open
          /\ pc[t] \in {"setFormat", "openFile", "clearOpen"} => open
          /\ pc[t] = "closeStream" => reg[t] = outStream

(* As long as nothing is closed there is one stream at most.               *)
OneStream ==
    /\ closed = {}
    /\ \A t \in Threads : pc[t] \notin Closing
    /\ offset # <<>> => offset = <<Len(file)>>
    /\ offset = <<>> => file = <<>>

Inv ==
    /\ Typed
    /\ Alive => First
    /\ CrashOnlyInFirstOpen
    /\ ~raced => ~Overlap
    /\ ~raced /\ ~failed /\ Alive => Flag
    /\ ~raced /\ ~failed /\ ~closing => file = wrote /\ (Alive => OneStream)

(* What the steps of this module do to pc.                                 *)
LEMMA StepPc ==
    ASSUME NEW t \in Threads, NEW from, NEW to \in Pcs, pc \in [Threads -> Pcs],
           Step(t, from, to)
    PROVE  /\ pc' \in [Threads -> Pcs]
           /\ pc[t] = from /\ pc'[t] = to
           /\ \A u \in Threads \ {t} : pc'[u] = pc[u]
BY DEF Step

LEMMA ThreadsFacts ==
    /\ Main \in Threads /\ Main \notin Samplers /\ Samplers \subseteq Threads
    /\ Threads = {Main} \cup Samplers
BY LogAssumption DEF Main, Samplers, Threads, LogAssumption

LEMMA InitInv == Init => Inv
<1> SUFFICES ASSUME Init PROVE Inv
  OBVIOUS
<1>1. offset \in Seq(Nat) /\ Len(offset) = 0 /\ file \in Seq(0..MaxLines)
      /\ wrote \in Seq(1..MaxLines)
  BY EmptySeq DEF Init
<1>2. pc \in [Threads -> Pcs] /\ \A t \in Threads : pc[t] \notin Writing \cup {"put", "closeStream"}
  BY DEF Init, Pcs, Writing
<1>3. /\ instance \in 0..MaxSamplers /\ lines \in 0..MaxLines
      /\ reg \in [Threads -> 0..Len(offset)] /\ line \in [Threads -> 0..MaxLines]
  BY <1>1, LogAssumption DEF Init, LogAssumption
<1>4. /\ open \in BOOLEAN /\ timeFormat \in BOOLEAN /\ closing \in BOOLEAN
      /\ raced \in BOOLEAN /\ failed \in BOOLEAN
      /\ outStream = 0 /\ closed = {} /\ goon = {}
  BY DEF Init
<1>5. Typed
  BY <1>1, <1>2, <1>3, <1>4 DEF Typed, TypeOK
<1>6. \A t \in Threads : pc[t] \in {"idle", "none"}
  BY DEF Init
<1>7. First
  BY <1>6, ThreadsFacts DEF Init, First, InstanceSet
<1>8. Busy = {} /\ Alive
  BY <1>6 DEF Busy, Opening, Closing, Alive
<1>9. Flag
  <2>1. Live = {}
    BY <1>1 DEF Live
  <2> QED
    BY <2>1, <1>6 DEF Init, Flag, StreamIsOpen
<1>10. file = wrote /\ OneStream
  BY <1>6 DEF Init, OneStream, Closing
<1> QED
  BY <1>5, <1>7, <1>8, <1>9, <1>10 DEF Inv, CrashOnlyInFirstOpen, Overlap

-----------------------------------------------------------------------------
(* The steps that leave the fields and the disk alone.                     *)
LEMMA QuietTyped ==
    ASSUME Typed, UNCHANGED <<fields, disk, reg, line, lines, wrote>>,
           goon' \subseteq Samplers, closing' \in BOOLEAN, raced' \in BOOLEAN, failed' = failed,
           pc' \in [Threads -> Pcs],
           \A t \in Threads : pc'[t] \in Writing => pc[t] \in Writing,
           \A t \in Threads : pc'[t] \in {"put", "closeStream"} => pc'[t] = pc[t]
    PROVE  Typed'
BY DEF Typed, TypeOK, fields, disk

LEMMA LineTyped ==
    ASSUME Typed, NEW t \in Threads, WriteALine(t), raced' \in BOOLEAN
    PROVE  Typed'
<1> USE DEF WriteALine, fields, disk
<1>1. pc' \in [Threads -> Pcs] /\ pc'[t] = "test" /\ \A u \in Threads \ {t} : pc'[u] = pc[u]
  BY StepPc DEF Typed, TypeOK, Pcs
<1>2. lines' \in 1..MaxLines
  BY LogAssumption DEF Typed, TypeOK, LogAssumption
<1>3. line' \in [Threads -> 0..MaxLines] /\ line'[t] # 0
      /\ \A u \in Threads \ {t} : line'[u] = line[u]
  BY <1>2 DEF Typed, TypeOK
<1>4. TypeOK'
  BY <1>1, <1>2, <1>3 DEF Typed, TypeOK
<1> QED
  BY <1>1, <1>3, <1>4 DEF Typed

LEMMA GetStreamTyped ==
    ASSUME Typed, NEW t \in Threads, raced' \in BOOLEAN,
           GetStream(t, "write", "put") \/ GetStream(t, "getStream", "closeStream")
    PROVE  Typed'
<1> USE DEF GetStream, fields, disk
<1>1. /\ pc' \in [Threads -> Pcs]
      /\ pc'[t] \in {"put", "closeStream", "crashed"}
      /\ pc'[t] \in {"put", "closeStream"} => outStream # 0
      /\ pc'[t] = "put" => pc[t] = "write"
      /\ \A u \in Threads \ {t} : pc'[u] = pc[u]
  <2> DEFINE to(pc2) == IF outStream = 0 THEN "crashed" ELSE pc2
  <2>1. to("put") \in Pcs /\ to("closeStream") \in Pcs /\ pc \in [Threads -> Pcs]
    <3>1. {"crashed", "put", "closeStream"} \subseteq Pcs
      BY DEF Pcs, Closing
    <3> QED
      BY <3>1 DEF Typed, TypeOK
  <2>2. \/ Step(t, "write", to("put"))
        \/ Step(t, "getStream", to("closeStream"))
    OBVIOUS
  <2>3. CASE Step(t, "write", to("put"))
    BY <2>1, <2>3, StepPc
  <2>4. CASE Step(t, "getStream", to("closeStream"))
    BY <2>1, <2>4, StepPc
  <2> QED
    BY <2>2, <2>3, <2>4
<1>2. /\ reg' \in [Threads -> 0..Len(offset)] /\ reg'[t] = outStream
      /\ \A u \in Threads \ {t} : reg'[u] = reg[u]
  BY DEF Typed, TypeOK
<1>3. TypeOK'
  BY <1>1, <1>2 DEF Typed, TypeOK
<1> QED
  BY <1>1, <1>3 DEF Typed, Writing

LEMMA OpenFileTyped ==
    ASSUME Typed, NEW t \in Threads, OpenFile(t), raced' \in BOOLEAN,
           pc[t] = "openFile" => timeFormat
    PROVE  Typed'
<1> USE DEF OpenFile, fields, disk, local
<1>1. /\ pc' \in [Threads -> Pcs] /\ pc[t] = "openFile"
      /\ pc'[t] \in {"noInstance", "format"}
      /\ \A u \in Threads \ {t} : pc'[u] = pc[u]
  BY StepPc DEF Typed, TypeOK, Pcs
<1>2. CASE instance = 0
  BY <1>1, <1>2 DEF Typed, TypeOK, Writing
<1>3. CASE instance # 0
  <2>1. offset' \in Seq(Nat) /\ Len(offset') = Len(offset) + 1 /\ Len(offset) \in Nat
    <3>1. offset \in Seq(Nat) /\ offset' = Append(offset, 0)
      BY <1>3 DEF Typed, TypeOK
    <3> QED
      BY <3>1
  <2>2. file' \in Seq(0..MaxLines)
    BY <1>3, EmptySeq
  <2>3. outStream' = Len(offset')
    BY <1>3
  <2>4. reg' \in [Threads -> 0..Len(offset')]
    BY <1>3, <2>1 DEF Typed, TypeOK
  <2>5. closed' \subseteq 1..Len(offset')
    <3>1. closed' = closed /\ closed \subseteq 1..Len(offset)
      BY <1>3 DEF Typed, TypeOK
    <3> QED
      BY <2>1, <3>1
  <2>6. TypeOK'
    BY <1>1, <1>3, <2>1, <2>2, <2>3, <2>4, <2>5 DEF Typed, TypeOK
  <2> QED
    BY <1>1, <1>3, <2>6 DEF Typed, Writing
<1> QED
  BY <1>2, <1>3

LEMMA WrittenTyped ==
    ASSUME NEW n \in 1..MaxLines, NEW p \in Nat \ {0}, file \in Seq(0..MaxLines)
    PROVE  Written(n, p) \in Seq(0..MaxLines)
<1> DEFINE top == IF p > Len(file) THEN p ELSE Len(file)
           at(k) == IF k = p THEN n ELSE IF k <= Len(file) THEN file[k] ELSE 0
<1>1. top \in Nat /\ \A k \in 1..top : at(k) \in 0..MaxLines
  BY LogAssumption DEF LogAssumption
<1>2. [k \in 1..top |-> at(k)] \in Seq(0..MaxLines)
  BY <1>1
<1> QED
  BY <1>2 DEF Written

LEMMA PutTyped ==
    ASSUME Typed, NEW t \in Threads, Put(t), raced' \in BOOLEAN
    PROVE  Typed'
<1> DEFINE k == reg[t]
<1> USE DEF Put, fields, disk, local
<1>1. /\ pc' \in [Threads -> Pcs] /\ pc[t] = "put" /\ pc'[t] = "idle"
      /\ \A u \in Threads \ {t} : pc'[u] = pc[u]
  BY StepPc DEF Typed, TypeOK, Pcs
<1>2. k \in 1..Len(offset) /\ line[t] \in 1..MaxLines
      /\ offset \in Seq(Nat) /\ file \in Seq(0..MaxLines) /\ wrote \in Seq(1..MaxLines)
  BY <1>1 DEF Typed, TypeOK, Writing
<1>3. offset[k] + 1 \in Nat \ {0}
  BY <1>2
<1>4. /\ offset' \in Seq(Nat) /\ Len(offset') = Len(offset)
      /\ file' \in Seq(0..MaxLines) /\ closed' = closed
  <2>1. CASE k \in closed
    BY <1>2, <2>1
  <2>2. CASE k \notin closed
    <3>1. offset' = [offset EXCEPT ![k] = offset[k] + 1] /\ closed' = closed
      BY <2>2
    <3>2. file' = Written(line[t], offset[k] + 1)
      BY <2>2
    <3>3. offset' \in Seq(Nat) /\ Len(offset') = Len(offset)
      BY <1>2, <1>3, <3>1, ExceptSeq
    <3> QED
      BY <1>2, <1>3, <3>1, <3>2, <3>3, WrittenTyped
  <2> QED
    BY <2>1, <2>2
<1>5. wrote' \in Seq(1..MaxLines)
  BY <1>2
<1>6. TypeOK'
  BY <1>1, <1>4, <1>5 DEF Typed, TypeOK
<1> QED
  BY <1>1, <1>6 DEF Typed, Writing

LEMMA CloseStreamTyped ==
    ASSUME Typed, NEW t \in Threads, CloseStream(t), raced' \in BOOLEAN
    PROVE  Typed'
<1> USE DEF CloseStream, fields, local
<1>1. /\ pc' \in [Threads -> Pcs] /\ pc[t] = "closeStream" /\ pc'[t] = "ended"
      /\ \A u \in Threads \ {t} : pc'[u] = pc[u]
  BY StepPc DEF Typed, TypeOK, Pcs
<1>2. reg[t] \in 1..Len(offset)
  BY <1>1 DEF Typed, TypeOK
<1>3. TypeOK'
  BY <1>1, <1>2 DEF Typed, TypeOK
<1> QED
  BY <1>1, <1>3 DEF Typed, Writing
-----------------------------------------------------------------------------
(* A step of one thread that changes neither fields nor disk, and does not *)
(* start or end a part of the code in which the fields are changed.        *)
QuietStep(t) ==
    /\ UNCHANGED <<fields, disk, wrote, failed>>
    /\ closing => closing'
    /\ \A u \in Threads \ {t} : pc'[u] = pc[u] /\ reg'[u] = reg[u]

QuietFrom(t) ==
    /\ pc[t] \notin {"none", "setInstance", "setFormat", "openFile", "closeStream"}
    /\ t = Main /\ instance = 0 => pc[t] # "idle"
    /\ pc[t] = "getStream" => pc'[t] \in {"closeStream", "crashed"}

QuietTo(t) ==
    /\ pc'[t] \notin {"none", "setInstance", "setFormat", "openFile", "getStream", "noInstance"}
    /\ pc'[t] \in {"format", "write", "clearOpen"} => open \/ pc[t] = "format"
    /\ pc'[t] \in {"openTest", "setOpen"} => ~open
    /\ pc'[t] = "clearOpen" => open /\ closing'
    /\ pc'[t] = "closeStream" => pc[t] = "getStream" /\ reg'[t] = outStream
    /\ pc'[t] = "crashed" => \/ pc[t] = "format" /\ ~timeFormat
                             \/ pc[t] \in {"write", "getStream"} /\ outStream = 0

LEMMA QuietInv ==
    ASSUME Inv, Alive, Typed', raced' = (raced \/ Overlap'),
           NEW t \in Threads, QuietStep(t), QuietFrom(t), QuietTo(t)
    PROVE  Inv'
<1> USE DEF QuietStep, QuietFrom, QuietTo
<1> USE DEF fields, disk
<1>1. First /\ CrashOnlyInFirstOpen
  BY DEF Inv
<1>2. Excused' <=> Excused
  BY DEF Excused
<1>3. InstanceSet'
  <2>1. (\E s \in Samplers : pc'[s] # "none") <=> \E s \in Samplers : pc[s] # "none"
    BY ThreadsFacts
  <2>2. CASE t = Main
    BY <1>1, <2>2 DEF First, InstanceSet
  <2>3. CASE t # Main
    BY <1>1, <2>1, <2>3, ThreadsFacts DEF First, InstanceSet
  <2> QED
    BY <2>2, <2>3
<1>4. First'
  <2>1. pc'[t] \in {"format", "write", "clearOpen", "getStream"} => Excused
    BY <1>1 DEF First
  <2> QED
    BY <1>1, <1>2, <1>3, <2>1 DEF First
<1>5. CrashOnlyInFirstOpen'
  <2>1. CASE pc'[t] = "crashed"
    <3>1. outStream = 0 /\ Excused
      <4>1. pc[t] = "format" /\ ~timeFormat => outStream = 0
        BY DEF Inv, Typed, TypeOK
      <4>2. Excused
        BY <1>1, <2>1 DEF First
      <4> QED
        BY <2>1, <4>1, <4>2
    <3> QED
      BY <1>2, <3>1 DEF CrashOnlyInFirstOpen, Excused
  <2>2. CASE pc'[t] # "crashed"
    BY <2>2 DEF Alive, CrashOnlyInFirstOpen
  <2> QED
    BY <2>1, <2>2
<1>6. ASSUME ~raced', ~failed', Alive' PROVE Flag'
  <2>1. Flag /\ ~Overlap /\ ~Overlap'
    BY <1>6 DEF Inv
  <2>2. Live' = Live
    BY DEF Live
  <2>3. /\ \A u \in Threads : pc'[u] \in {"setFormat", "openFile"} <=> pc[u] \in {"setFormat", "openFile"}
        /\ \A u \in Threads \ {t} : pc'[u] = pc[u]
    OBVIOUS
  <2>4. pc'[t] = "closeStream" <=> pc[t] = "getStream"
    BY <1>6 DEF Alive
  <2>5. StreamIsOpen' <=> StreamIsOpen
    BY <2>3, <2>4 DEF StreamIsOpen
  <2> QED
    BY <2>1, <2>2, <2>3, <2>4, <2>5 DEF Flag
<1>7. ASSUME ~raced', ~failed', ~closing'
      PROVE  file' = wrote' /\ OneStream'
  BY <1>7 DEF Inv, OneStream, Closing
<1> QED
  BY <1>4, <1>5, <1>6, <1>7 DEF Inv

(* A step of one thread, as far as pc goes.                                *)
LEMMA MovePc ==
    ASSUME Inv, NEW t \in Threads, NEW from, NEW to \in Pcs, Step(t, from, to)
    PROVE  /\ pc' \in [Threads -> Pcs]
           /\ pc[t] = from /\ pc'[t] = to
           /\ \A u \in Threads \ {t} : pc'[u] = pc[u]
BY StepPc DEF Inv, Typed, TypeOK

LEMMA SetOpenInv ==
    ASSUME Inv, Alive, NEW t \in Threads, SetOpen(t), raced' = (raced \/ Overlap')
    PROVE  Inv'
<1> USE DEF SetOpen, disk, local
<1>1. /\ pc' \in [Threads -> Pcs] /\ pc[t] = "setOpen" /\ pc'[t] = "setFormat"
      /\ \A u \in Threads \ {t} : pc'[u] = pc[u]
  BY MovePc DEF Pcs, Opening
<1>2. Typed'
  BY <1>1 DEF Inv, Typed, TypeOK, Writing, Overlap
<1>3. First'
  <2>1. Excused'
    BY <1>1 DEF Excused
  <2>2. InstanceSet'
    BY <1>1, ThreadsFacts DEF Inv, First, InstanceSet
  <2> QED
    BY <1>1, <2>1, <2>2 DEF Inv, First
<1>4. Alive'
  BY <1>1 DEF Alive
<1>5. ASSUME ~raced', ~failed' PROVE Flag'
  <2>1. Flag /\ ~Overlap'
    BY <1>5 DEF Inv
  <2>2. \A u \in Threads \ {t} : pc[u] \notin Opening \cup Closing
    BY <1>1, <2>1 DEF Overlap, Busy, Opening
  <2>3. ~StreamIsOpen /\ ~StreamIsOpen'
    BY <1>1, <2>1, <2>2 DEF StreamIsOpen, Flag, Opening, Closing
  <2> QED
    BY <1>1, <2>1, <2>2, <2>3 DEF Flag, Live, Opening, Closing
<1>6. ASSUME ~raced', ~failed', ~closing'
      PROVE  file' = wrote' /\ OneStream'
  BY <1>1, <1>6 DEF Inv, OneStream, Closing
<1> QED
  BY <1>2, <1>3, <1>4, <1>5, <1>6 DEF Inv, CrashOnlyInFirstOpen

LEMMA SetFormatInv ==
    ASSUME Inv, Alive, NEW t \in Threads, SetFormat(t), raced' = (raced \/ Overlap')
    PROVE  Inv'
<1> USE DEF SetFormat, disk, local
<1>1. /\ pc' \in [Threads -> Pcs] /\ pc[t] = "setFormat" /\ pc'[t] = "openFile"
      /\ \A u \in Threads \ {t} : pc'[u] = pc[u]
  BY MovePc DEF Pcs, Opening
<1>2. Typed'
  BY <1>1 DEF Inv, Typed, TypeOK, Writing, Overlap
<1>3. First'
  <2>1. Excused'
    BY <1>1 DEF Excused
  <2>2. InstanceSet'
    BY <1>1, ThreadsFacts DEF Inv, First, InstanceSet
  <2> QED
    BY <1>1, <2>1, <2>2 DEF Inv, First
<1>4. Alive'
  BY <1>1 DEF Alive
<1>5. ASSUME ~raced', ~failed' PROVE Flag'
  <2>1. Flag
    BY <1>5 DEF Inv
  <2>2. StreamIsOpen' <=> StreamIsOpen
    BY <1>1 DEF StreamIsOpen
  <2> QED
    BY <1>1, <2>1, <2>2 DEF Flag, Live
<1>6. ASSUME ~raced', ~failed', ~closing'
      PROVE  file' = wrote' /\ OneStream'
  BY <1>1, <1>6 DEF Inv, OneStream, Closing
<1> QED
  BY <1>2, <1>3, <1>4, <1>5, <1>6 DEF Inv, CrashOnlyInFirstOpen

LEMMA OpenFileFailsInv ==
    ASSUME Inv, Alive, NEW t \in Threads, OpenFileFails(t), raced' = (raced \/ Overlap')
    PROVE  Inv'
<1> USE DEF OpenFileFails, fields, disk, local
<1>1. /\ pc' \in [Threads -> Pcs] /\ pc[t] = "openFile" /\ pc'[t] = "format"
      /\ \A u \in Threads \ {t} : pc'[u] = pc[u]
  BY MovePc DEF Pcs
<1>2. Typed'
  BY <1>1 DEF Inv, Typed, TypeOK, Writing, Overlap
<1>3. First'
  <2>1. Excused'
    BY <1>1 DEF Excused
  <2>2. InstanceSet'
    BY DEF InstanceSet
  <2> QED
    BY <1>1, <2>1, <2>2 DEF Inv, First
<1>4. Alive'
  BY <1>1 DEF Alive
<1> QED
  BY <1>2, <1>3, <1>4 DEF Inv, CrashOnlyInFirstOpen

LEMMA OpenFileInv ==
    ASSUME Inv, Alive, NEW t \in Threads, OpenFile(t), raced' = (raced \/ Overlap')
    PROVE  Inv'
<1> USE DEF OpenFile, fields, disk, local
<1>1. /\ pc' \in [Threads -> Pcs] /\ pc[t] = "openFile"
      /\ pc'[t] = IF instance = 0 THEN "noInstance" ELSE "format"
      /\ \A u \in Threads \ {t} : pc'[u] = pc[u]
  BY MovePc DEF Pcs
<1>2. Typed' /\ First
  BY OpenFileTyped DEF Inv, First, Typed, TypeOK, Overlap
<1>3. CASE instance = 0
  <2>1. outStream = 0 /\ outStream' = 0 /\ instance' = 0 /\ failed' = failed
    BY <1>2, <1>3 DEF First
  <2>2. pc[Main] = "setInstance" /\ t # Main
    <3>1. pc[Main] \in {"setInstance", "idle"}
      BY <1>2, <1>3 DEF First, InstanceSet
    <3>2. t \in Samplers
      BY <1>1, <3>1, ThreadsFacts
    <3> QED
      BY <1>1, <1>2, <1>3, <3>2, ThreadsFacts DEF First, InstanceSet
  <2>3. ~Alive' /\ CrashOnlyInFirstOpen'
    BY <1>1, <1>3, <2>1, <2>2, ThreadsFacts DEF Alive, CrashOnlyInFirstOpen
  <2>4. ~raced' /\ ~failed' /\ ~closing' => file' = wrote'
    BY <1>3 DEF Inv
  <2> QED
    BY <1>2, <2>3, <2>4 DEF Inv
<1>4. CASE instance # 0
  <2>1. /\ offset \in Seq(Nat) /\ offset' = Append(offset, 0)
        /\ outStream' = Len(offset) + 1 /\ Len(offset') = Len(offset) + 1
        /\ file' = <<>> /\ closed' = closed /\ closed \subseteq 1..Len(offset)
        /\ Len(offset) \in Nat
    <3>1. offset \in Seq(Nat) /\ closed \subseteq 1..Len(offset)
      BY DEF Inv, Typed, TypeOK
    <3> QED
      BY <1>4, <3>1
  <2>2. First'
    <3>1. Excused' /\ instance' # 0
      BY <1>4, <2>1 DEF Excused
    <3> QED
      BY <1>1, <1>2, <3>1 DEF First, InstanceSet
  <2>3. Alive'
    BY <1>1, <1>4 DEF Alive
  <2>4. ASSUME ~raced', ~failed' PROVE Flag'
    <3>1. Flag /\ ~Overlap
      BY <2>4 DEF Inv
    <3>2. \A u \in Threads \ {t} : pc'[u] \notin Opening \cup Closing
      BY <1>1, <3>1 DEF Overlap, Busy, Opening
    <3>3. StreamIsOpen' /\ ~StreamIsOpen
      BY <1>1, <1>4, <3>1, <3>2 DEF StreamIsOpen, Flag, Opening, Closing
    <3>4. Live = {} /\ Live' = {outStream'}
      BY <2>1, <3>1, <3>3 DEF Flag, Live
    <3> QED
      BY <1>1, <1>4, <3>2, <3>3, <3>4 DEF Flag, Opening, Closing
  <2>5. ASSUME ~raced', ~failed', ~closing'
        PROVE  file' = wrote' /\ OneStream'
    <3>1. Flag /\ OneStream /\ file = wrote
      BY <2>5 DEF Inv
    <3>2. Live = {}
      BY <1>1, <3>1 DEF Flag, StreamIsOpen, OneStream, Closing
    <3>3. Len(offset) = 0
      BY <2>1, <3>1, <3>2 DEF Live, OneStream
    <3>4. offset = <<>> /\ file = <<>> /\ wrote' = <<>>
      BY <2>1, <3>1, <3>3, EmptySeq DEF OneStream
    <3>5. offset' = <<Len(file')>>
      BY <2>1, <3>4
    <3> QED
      BY <1>1, <1>4, <2>1, <3>1, <3>4, <3>5 DEF OneStream, Closing
  <2> QED
    BY <1>2, <2>2, <2>3, <2>4, <2>5 DEF Inv, CrashOnlyInFirstOpen
<1> QED
  BY <1>3, <1>4

LEMMA ClearOpenInv ==
    ASSUME Inv, Alive, NEW t \in Threads, ClearOpen(t), raced' = (raced \/ Overlap')
    PROVE  Inv'
<1> USE DEF ClearOpen, disk, local
<1>1. /\ pc' \in [Threads -> Pcs] /\ pc[t] = "clearOpen" /\ pc'[t] = "getStream"
      /\ \A u \in Threads \ {t} : pc'[u] = pc[u]
  BY MovePc DEF Pcs, Closing
<1>2. Typed'
  BY <1>1 DEF Inv, Typed, TypeOK, Writing, Overlap
<1>3. First'
  <2>1. Excused /\ (Excused <=> Excused')
    BY <1>1 DEF Excused, Inv, First
  <2>2. InstanceSet'
    BY <1>1, ThreadsFacts DEF Inv, First, InstanceSet
  <2> QED
    BY <1>1, <2>1, <2>2 DEF Inv, First
<1>4. Alive'
  BY <1>1 DEF Alive
<1>5. ASSUME ~raced', ~failed' PROVE Flag'
  <2>1. Flag /\ ~Overlap
    BY <1>5 DEF Inv
  <2>2. \A u \in Threads \ {t} : pc'[u] \notin Opening \cup Closing
    BY <1>1, <2>1 DEF Overlap, Busy, Closing
  <2>3. StreamIsOpen /\ StreamIsOpen'
    BY <1>1, <2>1, <2>2 DEF StreamIsOpen, Flag, Opening
  <2> QED
    BY <1>1, <2>1, <2>2, <2>3 DEF Flag, Live, Opening, Closing
<1>6. ~(~raced' /\ ~failed' /\ ~closing')
  BY <1>1 DEF Inv, OneStream, Closing
<1> QED
  BY <1>2, <1>3, <1>4, <1>5, <1>6 DEF Inv, CrashOnlyInFirstOpen

LEMMA CloseStreamInv ==
    ASSUME Inv, Alive, NEW t \in Threads, CloseStream(t), raced' = (raced \/ Overlap')
    PROVE  Inv'
<1> USE DEF CloseStream, fields, local
<1>1. /\ pc' \in [Threads -> Pcs] /\ pc[t] = "closeStream" /\ pc'[t] = "ended"
      /\ \A u \in Threads \ {t} : pc'[u] = pc[u]
  BY MovePc DEF Pcs
<1>2. Typed'
  BY CloseStreamTyped DEF Inv, Typed, TypeOK, Overlap
<1>3. First'
  <2>1. Excused <=> Excused'
    BY <1>1 DEF Excused
  <2>2. InstanceSet'
    BY <1>1, ThreadsFacts DEF Inv, First, InstanceSet
  <2> QED
    BY <1>1, <2>1, <2>2 DEF Inv, First
<1>4. Alive'
  BY <1>1 DEF Alive
<1>5. ASSUME ~raced', ~failed' PROVE Flag'
  <2>1. Flag /\ ~Overlap
    BY <1>5 DEF Inv
  <2>2. \A u \in Threads \ {t} : pc'[u] \notin Opening \cup Closing
    BY <1>1, <2>1 DEF Overlap, Busy, Closing
  <2>3. Live = {outStream} /\ reg[t] = outStream /\ ~open
    BY <1>1, <2>1 DEF StreamIsOpen, Flag
  <2>4. Live' = {} /\ ~StreamIsOpen'
    BY <1>1, <2>2, <2>3 DEF Live, StreamIsOpen, Closing
  <2> QED
    BY <1>1, <2>2, <2>4 DEF Flag, Opening, Closing
<1>6. ~(~raced' /\ ~failed' /\ ~closing')
  BY <1>1 DEF Inv, OneStream, Closing
<1> QED
  BY <1>2, <1>3, <1>4, <1>5, <1>6 DEF Inv, CrashOnlyInFirstOpen

(* Writing at the end of the file appends.                                 *)
LEMMA WrittenAtEnd ==
    ASSUME NEW n \in 1..MaxLines, file \in Seq(0..MaxLines)
    PROVE  Written(n, Len(file) + 1) = Append(file, n)
<1>1. Len(file) \in Nat /\ Append(file, n) \in Seq(0..MaxLines)
  BY LogAssumption DEF LogAssumption
<1>2. Written(n, Len(file) + 1) =
        [k \in 1 .. Len(file) + 1 |-> IF k = Len(file) + 1 THEN n ELSE file[k]]
  BY <1>1 DEF Written
<1> QED
  BY <1>1, <1>2

LEMMA PutInv ==
    ASSUME Inv, Alive, NEW t \in Threads, Put(t), raced' = (raced \/ Overlap')
    PROVE  Inv'
<1> DEFINE k == reg[t]
<1> USE DEF Put, fields, local
<1>1. /\ pc' \in [Threads -> Pcs] /\ pc[t] = "put" /\ pc'[t] = "idle"
      /\ \A u \in Threads \ {t} : pc'[u] = pc[u]
  BY MovePc DEF Pcs
<1>2. Typed'
  BY PutTyped DEF Inv, Typed, TypeOK, Overlap
<1>3. /\ k \in 1..Len(offset) /\ line[t] \in 1..MaxLines
      /\ offset \in Seq(Nat) /\ file \in Seq(0..MaxLines)
  BY <1>1 DEF Inv, Typed, TypeOK, Writing
<1>4. Len(offset') = Len(offset) /\ closed' = closed
  <2>1. offset' \in {offset, [offset EXCEPT ![k] = offset[k] + 1]}
    BY DEF disk
  <2>2. Len([offset EXCEPT ![k] = offset[k] + 1]) = Len(offset)
    BY <1>3, ExceptSeq
  <2> QED
    BY <2>1, <2>2 DEF disk
<1>5. First'
  <2>1. Excused <=> Excused'
    BY <1>1 DEF Excused
  <2>2. t = Main => instance # 0
    BY <1>1 DEF Inv, First, InstanceSet
  <2>3. InstanceSet'
    BY <1>1, <2>2, ThreadsFacts DEF Inv, First, InstanceSet
  <2> QED
    BY <1>1, <2>1, <2>3 DEF Inv, First
<1>6. Alive'
  BY <1>1 DEF Alive
<1>7. ASSUME ~raced', ~failed' PROVE Flag'
  <2>1. Flag
    BY <1>7 DEF Inv
  <2>2. (StreamIsOpen' <=> StreamIsOpen) /\ Live' = Live
    BY <1>1, <1>4 DEF StreamIsOpen, Live
  <2> QED
    BY <1>1, <2>1, <2>2 DEF Flag
<1>8. ASSUME ~raced', ~failed', ~closing'
      PROVE  file' = wrote' /\ OneStream'
  <2>1. OneStream /\ file = wrote
    BY <1>8 DEF Inv
  <2>2. offset = <<Len(file)>> /\ k = 1 /\ k \notin closed
    BY <1>3, <2>1 DEF OneStream
  <2>3. offset[k] = Len(file) /\ offset' = [offset EXCEPT ![k] = offset[k] + 1]
    BY <2>2 DEF disk
  <2>4. file' = Written(line[t], Len(file) + 1)
    BY <2>2, <2>3 DEF disk
  <2>5. file' = Append(file, line[t])
    BY <1>3, <2>4, WrittenAtEnd
  <2>6. offset' = <<Len(file')>>
    BY <1>3, <2>2, <2>3, <2>5
  <2>7. file' = wrote' /\ offset' # <<>>
    BY <2>1, <2>5, <2>6
  <2> QED
    BY <1>1, <1>4, <2>1, <2>6, <2>7 DEF OneStream, Closing
<1> QED
  BY <1>2, <1>5, <1>6, <1>7, <1>8 DEF Inv, CrashOnlyInFirstOpen
-----------------------------------------------------------------------------
(* The main thread in onStartCommand.                                      *)

LEMMA NewSamplerInv ==
    ASSUME Inv, Alive, NEW s \in Samplers, NewSampler(s), raced' = (raced \/ Overlap')
    PROVE  Inv'
<1> USE DEF NewSampler, fields, disk
<1>1. /\ pc' \in [Threads -> Pcs] /\ s \in Threads /\ Main \in Threads /\ s # Main
      /\ pc[Main] = "idle" /\ pc'[Main] = "setInstance"
      /\ pc[s] = "none" /\ pc'[s] = "idle"
      /\ \A u \in Threads \ {Main, s} : pc'[u] = pc[u]
  BY ThreadsFacts DEF Inv, Typed, TypeOK, Pcs
<1>2. Typed'
  BY <1>1 DEF Inv, Typed, TypeOK, Writing, Overlap
<1>3. First'
  <2>1. Excused <=> Excused'
    BY <1>1 DEF Excused
  <2>2. InstanceSet'
    BY <1>1 DEF InstanceSet
  <2> QED
    BY <1>1, <2>1, <2>2 DEF Inv, First
<1>4. Alive'
  BY <1>1 DEF Alive
<1>5. ASSUME ~raced', ~failed' PROVE Flag'
  <2>1. Flag
    BY <1>5 DEF Inv
  <2>2. (StreamIsOpen' <=> StreamIsOpen) /\ Live' = Live
    BY <1>1 DEF StreamIsOpen, Live
  <2> QED
    BY <1>1, <2>1, <2>2 DEF Flag
<1>6. ASSUME ~raced', ~failed', ~closing'
      PROVE  file' = wrote' /\ OneStream'
  BY <1>1, <1>6 DEF Inv, OneStream, Closing
<1> QED
  BY <1>2, <1>3, <1>4, <1>5, <1>6 DEF Inv, CrashOnlyInFirstOpen

LEMMA SetInstanceInv ==
    ASSUME Inv, Alive, SetInstance, raced' = (raced \/ Overlap')
    PROVE  Inv'
<1> USE DEF SetInstance, disk, local
<1>1. /\ pc' \in [Threads -> Pcs] /\ Main \in Threads
      /\ pc[Main] = "setInstance" /\ pc'[Main] = "idle"
      /\ \A u \in Threads \ {Main} : pc'[u] = pc[u]
  BY MovePc, ThreadsFacts DEF Pcs
<1>2. instance' \in 1..MaxSamplers
  BY LogAssumption DEF Samplers, LogAssumption
<1>3. Typed'
  BY <1>1, <1>2 DEF Inv, Typed, TypeOK, Writing, Overlap
<1>4. First'
  <2>1. Excused <=> Excused'
    BY <1>1 DEF Excused
  <2> QED
    BY <1>1, <1>2, <2>1 DEF Inv, First, InstanceSet
<1>5. Alive'
  BY <1>1 DEF Alive
<1>6. ASSUME ~raced', ~failed' PROVE Flag'
  <2>1. Flag
    BY <1>6 DEF Inv
  <2>2. (StreamIsOpen' <=> StreamIsOpen) /\ Live' = Live
    BY <1>1 DEF StreamIsOpen, Live
  <2> QED
    BY <1>1, <2>1, <2>2 DEF Flag
<1>7. ASSUME ~raced', ~failed', ~closing'
      PROVE  file' = wrote' /\ OneStream'
  BY <1>1, <1>7 DEF Inv, OneStream, Closing
<1> QED
  BY <1>3, <1>4, <1>5, <1>6, <1>7 DEF Inv, CrashOnlyInFirstOpen
-----------------------------------------------------------------------------
(* The other steps only move a thread.                                     *)

LEMMA LineInv ==
    ASSUME Inv, Alive, NEW t \in Threads, WriteALine(t), raced' = (raced \/ Overlap')
    PROVE  Inv'
<1> USE DEF WriteALine
<1>1. /\ pc[t] = "idle" /\ pc'[t] = "test" /\ \A u \in Threads \ {t} : pc'[u] = pc[u]
  BY MovePc DEF Pcs
<1>2. Typed'
  BY LineTyped DEF Inv, Typed, TypeOK, Overlap
<1>3. t = Main => instance # 0
  BY <1>1 DEF Inv, First, InstanceSet
<1>4. QuietStep(t)
  BY <1>1 DEF QuietStep
<1>5. QuietFrom(t) /\ QuietTo(t)
  BY <1>1, <1>3 DEF QuietFrom, QuietTo
<1> QED
  BY <1>2, <1>4, <1>5, QuietInv

LEMMA GetStreamInv ==
    ASSUME Inv, Alive, NEW t \in Threads, raced' = (raced \/ Overlap'),
           GetStream(t, "write", "put") \/ GetStream(t, "getStream", "closeStream")
    PROVE  Inv'
<1> USE DEF GetStream
<1>1. Typed'
  BY GetStreamTyped DEF Inv, Typed, TypeOK, Overlap
<1>2. "crashed" \in Pcs /\ "put" \in Pcs /\ "closeStream" \in Pcs
  BY DEF Pcs, Closing
<1>3. \A u \in Threads \ {t} : pc'[u] = pc[u] /\ reg'[u] = reg[u]
  <2>1. \A u \in Threads \ {t} : reg'[u] = reg[u]
    BY DEF Inv, Typed, TypeOK
  <2>2. \A u \in Threads \ {t} : pc'[u] = pc[u]
    BY DEF Inv, Typed, TypeOK, Step
  <2> QED
    BY <2>1, <2>2
<1>4. QuietStep(t) /\ reg'[t] = outStream
  BY <1>3 DEF QuietStep, Inv, Typed, TypeOK
<1>5. CASE GetStream(t, "write", "put")
  <2>1. pc[t] = "write" /\ pc'[t] = IF outStream = 0 THEN "crashed" ELSE "put"
    BY <1>2, <1>5, MovePc
  <2>2. QuietFrom(t) /\ QuietTo(t)
    BY <2>1 DEF QuietFrom, QuietTo
  <2> QED
    BY <1>1, <1>4, <2>2, QuietInv
<1>6. CASE GetStream(t, "getStream", "closeStream")
  <2>1. pc[t] = "getStream" /\ pc'[t] = IF outStream = 0 THEN "crashed" ELSE "closeStream"
    BY <1>2, <1>6, MovePc
  <2>2. QuietFrom(t) /\ QuietTo(t)
    BY <1>4, <2>1 DEF QuietFrom, QuietTo
  <2> QED
    BY <1>1, <1>4, <2>2, QuietInv
<1> QED
  BY <1>5, <1>6

LEMMA ReadInv ==
    ASSUME Inv, Alive, NEW t \in Threads, raced' = (raced \/ Overlap'),
           Test(t) \/ OpenTest(t) \/ Format(t) \/ CloseTest(t) \/ Close(t)
    PROVE  Inv'
<1> USE DEF Test, OpenTest, Format, CloseTest, Close, Read, local
<1>1. /\ \/ pc[t] = "test" /\ pc'[t] = IF open THEN "format" ELSE "openTest"
         \/ pc[t] = "openTest" /\ pc'[t] = IF open THEN "format" ELSE "setOpen"
         \/ pc[t] = "format" /\ pc'[t] = IF timeFormat THEN "write" ELSE "crashed"
         \/ pc[t] = "closeTest" /\ closing' /\ pc'[t] = IF open THEN "clearOpen" ELSE "ended"
         \/ pc[t] = "idle" /\ t \in Samplers /\ pc'[t] = "closeTest"
      /\ pc' \in [Threads -> Pcs]
      /\ \A u \in Threads \ {t} : pc'[u] = pc[u]
  <2>1. {"format", "openTest", "setOpen", "write", "crashed", "clearOpen", "ended",
         "closeTest"} \subseteq Pcs
    BY DEF Pcs, Opening, Closing
  <2>2. CASE Test(t)
    BY <2>1, <2>2, MovePc
  <2>3. CASE OpenTest(t)
    BY <2>1, <2>3, MovePc
  <2>4. CASE Format(t)
    BY <2>1, <2>4, MovePc
  <2>5. CASE CloseTest(t)
    BY <2>1, <2>5, MovePc
  <2>6. CASE Close(t)
    BY <2>1, <2>6, MovePc
  <2> QED
    BY <2>2, <2>3, <2>4, <2>5, <2>6
<1>2. UNCHANGED <<fields, disk, reg, line, goon, lines, wrote, failed>>
  OBVIOUS
<1>3. closing' \in BOOLEAN /\ (closing => closing')
  BY DEF Inv, Typed, TypeOK
<1>4. Typed'
  <2>1. goon' \subseteq Samplers /\ raced' \in BOOLEAN
    BY <1>2 DEF Inv, Typed, TypeOK, Overlap
  <2>2. /\ \A u \in Threads : pc'[u] \in Writing => pc[u] \in Writing
        /\ \A u \in Threads : pc'[u] \in {"put", "closeStream"} => pc'[u] = pc[u]
    BY <1>1 DEF Writing
  <2>3. UNCHANGED <<fields, disk, reg, line, lines, wrote>> /\ failed' = failed
    BY <1>2
  <2>4. Typed /\ pc' \in [Threads -> Pcs]
    BY <1>1 DEF Inv
  <2> HIDE DEF Test, OpenTest, Format, CloseTest, Close, Read, local
  <2> QED
    BY <1>3, <2>1, <2>2, <2>3, <2>4, QuietTyped, Zenon
<1>5. QuietStep(t)
  BY <1>1, <1>2, <1>3 DEF QuietStep
<1>6. QuietFrom(t) /\ QuietTo(t)
  BY <1>1, ThreadsFacts DEF QuietFrom, QuietTo
<1> QED
  BY <1>4, <1>5, <1>6, QuietInv

(* Nothing the invariant looks at.                                         *)
LEMMA StillInv ==
    ASSUME Inv, UNCHANGED <<fields, disk, pc, reg, line, lines, wrote, closing, failed>>,
           goon' \subseteq goon, raced' = (raced \/ Overlap') \/ raced' = raced
    PROVE  Inv'
<1>1. Overlap' <=> Overlap
  BY DEF Overlap, Busy
<1>2. raced' = raced
  BY <1>1 DEF Inv, Typed, TypeOK
<1>3. Typed'
  BY <1>2 DEF Inv, Typed, TypeOK, fields, disk
<1>4. /\ (Alive' <=> Alive) /\ (First' <=> First) /\ (Flag' <=> Flag)
      /\ (OneStream' <=> OneStream) /\ (CrashOnlyInFirstOpen' <=> CrashOnlyInFirstOpen)
  BY DEF Alive, First, InstanceSet, Excused, Flag, Live, StreamIsOpen, OneStream,
         CrashOnlyInFirstOpen, fields, disk
<1> QED
  BY <1>1, <1>2, <1>3, <1>4 DEF Inv, disk

LEMMA NextInv == Inv /\ [Next]_vars => Inv'
<1> SUFFICES ASSUME Inv, [Next]_vars PROVE Inv'
  OBVIOUS
<1>1. CASE UNCHANGED vars
  BY <1>1, StillInv DEF vars, local, history
<1>2. CASE Next
  <2>1. Alive /\ raced' = (raced \/ Overlap')
    BY <1>2 DEF Next
  <2>2. CASE SetInstance
    BY <2>1, <2>2, SetInstanceInv
  <2>3. ASSUME NEW s \in Samplers, NewSampler(s) PROVE Inv'
    BY <2>1, <2>3, NewSamplerInv
  <2>4. ASSUME NEW s \in Samplers, StopSampler(s) PROVE Inv'
    BY <2>1, <2>4, StillInv DEF StopSampler
  <2>5. ASSUME NEW s \in Samplers, Close(s) PROVE Inv'
    BY <2>1, <2>5, ReadInv, ThreadsFacts
  <2>6. ASSUME NEW t \in Threads, WriteALine(t) PROVE Inv'
    BY <2>1, <2>6, LineInv
  <2>7. ASSUME NEW t \in Threads, Call(t) PROVE Inv'
    BY <2>1, <2>7, ReadInv, GetStreamInv, SetOpenInv, SetFormatInv, OpenFileInv,
       OpenFileFailsInv, PutInv, ClearOpenInv, CloseStreamInv
       DEF Call
  <2> QED
    BY <1>2, <2>2, <2>3, <2>4, <2>5, <2>6, <2>7 DEF Next, Caller
<1> QED
  BY <1>1, <1>2

LEMMA InvHolds == Spec => []Inv
BY InitInv, NextInv, PTL DEF Spec
-----------------------------------------------------------------------------
(* The variables keep their kinds of values: a stream is only written to   *)
(* or closed after it has been opened.                                     *)
THEOREM TypeCorrect == Spec => []TypeOK
<1>1. Inv => TypeOK
  BY DEF Inv, Typed
<1> QED
  BY <1>1, InvHolds, PTL

(* writeALine and close can only meet a null reference before there has    *)
(* been a stream, while another thread is in open() or the main thread in  *)
(* onStartCommand, or when the file could not be opened.                   *)
THEOREM Crashes == Spec => []CrashOnlyInFirstOpen
<1>1. Inv => CrashOnlyInFirstOpen
  BY DEF Inv
<1> QED
  BY <1>1, InvHolds, PTL

(* Between the calls the flag open() and close() share tells which stream  *)
(* is open, as long as no two threads have been in them at once.           *)
THEOREM FlagIsTrue == Spec => []FlagTellsTheTruth
<1>1. ASSUME Inv PROVE FlagTellsTheTruth
  <2>1. SUFFICES ASSUME Busy = {}, ~raced, ~failed, Alive
                 PROVE  Live = IF open THEN {outStream} ELSE {}
    BY DEF FlagTellsTheTruth, Live
  <2>2. Flag
    BY <1>1, <2>1 DEF Inv
  <2>3. StreamIsOpen <=> open
    BY <2>1 DEF StreamIsOpen, Busy, Opening, Closing
  <2> QED
    BY <2>2, <2>3 DEF Flag
<1> QED
  BY <1>1, InvHolds, PTL

(* Until the log is closed, and without such an overlap, every line that   *)
(* was written is in the file, in order.                                   *)
THEOREM LogComplete == Spec => []NothingLost
<1>1. Inv => NothingLost
  BY DEF Inv, NothingLost
<1> QED
  BY <1>1, InvHolds, PTL
=============================================================================
