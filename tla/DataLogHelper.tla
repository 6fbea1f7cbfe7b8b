--------------------------- MODULE DataLogHelper ---------------------------
(***************************************************************************)
(* button/DataLogHelper.java: the log of the cursor's trace.  One object   *)
(* per process; the sampling thread of every start writes to it, the main  *)
(* thread does on a click, and a sampling thread that ends closes it.      *)
(* Nothing is synchronized: every access to a field is a step.             *)
(*                                                                         *)
(* A line is its number.  Each stream writes at an offset of its own, and  *)
(* opening one truncates the file (Context.MODE_PRIVATE).                  *)
(***************************************************************************)
EXTENDS Naturals, Sequences

CONSTANTS
    MaxSamplers,    \* bound: number of starts, each with a sampling thread
    MaxLines        \* bound: number of lines written

ASSUME LogAssumption == MaxSamplers \in Nat /\ MaxLines \in Nat

VARIABLES
    open,       \* DataLogHelper.open
    timeFormat, \* timeFormat is not null
    outStream,  \* the stream, by the opening that returned it; 0 for null
    instance,   \* ControllerService.instance, by its start; 0 for null
    offset,     \* how far each of the streams opened so far has written
    closed,     \* the streams that have been closed
    file,       \* the lines in the file, 0 for a gap
    pc,         \* where each thread is; main is thread 0
    reg,        \* the stream that each thread is about to write to or close
    line,       \* the line each thread is writing
    goon,       \* the sampling threads that have not been told to stop
    lines,      \* number of calls of writeALine so far
    wrote,      \* history: the lines of the completed calls
    closing,    \* history: a thread has begun to close the log
    raced,      \* history: two threads were opening or closing it at once
    failed      \* history: the file could not be opened

fields == <<open, timeFormat, outStream, instance>>
disk == <<offset, closed, file>>
local == <<reg, line, goon, lines>>
history == <<wrote, closing, raced, failed>>
vars == <<fields, disk, pc, local, history>>

Main == 0
Samplers == 1..MaxSamplers
Threads == {Main} \cup Samplers

Opening == {"openTest", "setOpen", "setFormat", "openFile"}
Closing == {"clearOpen", "getStream", "closeStream"}
Pcs == {"none", "idle", "test", "format", "write", "put", "closeTest", "ended",
        "setInstance", "crashed", "noInstance"} \cup Opening \cup Closing

Alive == \A t \in Threads : pc[t] \notin {"crashed", "noInstance"}

Init ==
    /\ open = FALSE
    /\ timeFormat = FALSE
    /\ outStream = 0
    /\ instance = 0
    /\ offset = <<>>
    /\ closed = {}
    /\ file = <<>>
    /\ pc = [t \in Threads |-> IF t = Main THEN "idle" ELSE "none"]
    /\ reg = [t \in Threads |-> 0]
    /\ line = [t \in Threads |-> 0]
    /\ goon = {}
    /\ lines = 0
    /\ wrote = <<>>
    /\ closing = FALSE
    /\ raced = FALSE
    /\ failed = FALSE

(* The step of a thread t from one place of the code to another.           *)
Step(t, from, to) == pc[t] = from /\ pc' = [pc EXCEPT ![t] = to]
-----------------------------------------------------------------------------
(* Who calls it.                                                           *)

(* onStartCommand: the thread starts before the field instance is set.     *)
NewSampler(s) ==
    /\ pc[Main] = "idle"
    /\ pc[s] = "none"
    /\ \A r \in 1 .. s - 1 : pc[r] # "none"
    /\ pc' = [pc EXCEPT ![Main] = "setInstance", ![s] = "idle"]
    /\ goon' = goon \cup {s}
    /\ UNCHANGED <<fields, disk, reg, line, lines, wrote, closing, failed>>

SetInstance ==
    /\ Step(Main, "setInstance", "idle")
    /\ \E s \in Samplers :
          /\ pc[s] # "none"
          /\ \A r \in Samplers : r > s => pc[r] = "none"
          /\ instance' = s
    /\ UNCHANGED <<open, timeFormat, outStream, disk, local, wrote, closing, failed>>

(* finalize stops the sampling thread of a start, once a later start has   *)
(* replaced the service that the static field keeps.  In the application   *)
(* the running thread keeps its listener from being finalized; Next allows *)
(* more, so that the close() at the end of run() is checked as well.       *)
StopSampler(s) ==
    /\ s \in goon
    /\ s < instance
    /\ goon' = goon \ {s}
    /\ UNCHANGED <<fields, disk, pc, reg, line, lines, wrote, closing, failed>>

(* A sample, or a click on the main thread.                                *)
WriteALine(t) ==
    /\ \E s \in Samplers : pc[s] # "none"
    /\ Step(t, "idle", "test")
    /\ lines < MaxLines
    /\ lines' = lines + 1
    /\ line' = [line EXCEPT ![t] = lines']
    /\ UNCHANGED <<fields, disk, reg, goon, wrote, closing, failed>>

(* The end of a sampling thread.                                           *)
Close(t) ==
    /\ t \in Samplers \ goon
    /\ Step(t, "idle", "closeTest")
    /\ UNCHANGED <<fields, disk, local, wrote, closing, failed>>
-----------------------------------------------------------------------------
(* writeALine and open.                                                    *)

Read(t, from, to) ==
    /\ Step(t, from, to)
    /\ UNCHANGED <<fields, disk, local, wrote, closing, failed>>

(* Mutant of Test: the log is expected to be open.                         *)
TestNothing(t) == Read(t, "test", "format")

Test(t) == Read(t, "test", IF open THEN "format" ELSE "openTest")

OpenTest(t) == Read(t, "openTest", IF open THEN "format" ELSE "setOpen")

(* Mutant of SetOpen: the flag is forgotten.                               *)
SetNothing(t) == Read(t, "setOpen", "setFormat")

SetOpen(t) ==
    /\ Step(t, "setOpen", "setFormat")
    /\ open' = TRUE
    /\ UNCHANGED <<timeFormat, outStream, instance, disk, local, wrote, closing, failed>>

SetFormat(t) ==
    /\ Step(t, "setFormat", "openFile")
    /\ timeFormat' = TRUE
    /\ UNCHANGED <<open, outStream, instance, disk, local, wrote, closing, failed>>

(* instance.openFileOutput: instance may be null still.                    *)
OpenFile(t) ==
    /\ Step(t, "openFile", IF instance = 0 THEN "noInstance" ELSE "format")
    /\ IF instance = 0
       THEN UNCHANGED <<outStream, disk>>
       ELSE /\ offset' = Append(offset, 0)
            /\ outStream' = Len(offset')
            /\ file' = <<>>
            /\ UNCHANGED closed
    /\ UNCHANGED <<open, timeFormat, instance, local, wrote, closing, failed>>

(* FileNotFoundException is caught: outStream stays what it was.           *)
OpenFileFails(t) ==
    /\ Step(t, "openFile", "format")
    /\ instance # 0
    /\ failed' = TRUE
    /\ UNCHANGED <<fields, disk, local, wrote, closing>>

Format(t) == Read(t, "format", IF timeFormat THEN "write" ELSE "crashed")

GetStream(t, from, to) ==
    /\ Step(t, from, IF outStream = 0 THEN "crashed" ELSE to)
    /\ reg' = [reg EXCEPT ![t] = outStream]
    /\ UNCHANGED <<fields, disk, line, goon, lines, wrote, closing, failed>>

(* Line n at the place p of the file.                                      *)
Written(n, p) ==
    [i \in 1 .. (IF p > Len(file) THEN p ELSE Len(file)) |->
        IF i = p THEN n ELSE IF i <= Len(file) THEN file[i] ELSE 0]

(* outStream.write: the IOException of a closed stream is caught.          *)
Put(t) ==
    LET k == reg[t] IN
    /\ Step(t, "put", "idle")
    /\ IF k \in closed
       THEN UNCHANGED disk
       ELSE /\ file' = Written(line[t], offset[k] + 1)
            /\ offset' = [offset EXCEPT ![k] = @ + 1]
            /\ UNCHANGED closed
    /\ wrote' = Append(wrote, line[t])
    /\ UNCHANGED <<fields, local, closing, failed>>
-----------------------------------------------------------------------------
(* close.                                                                  *)

CloseTest(t) ==
    /\ Step(t, "closeTest", IF open THEN "clearOpen" ELSE "ended")
    /\ closing' = TRUE
    /\ UNCHANGED <<fields, disk, local, wrote, failed>>

(* Mutant of ClearOpen: the flag is forgotten.                             *)
ClearNothing(t) == Read(t, "clearOpen", "getStream")

ClearOpen(t) ==
    /\ Step(t, "clearOpen", "getStream")
    /\ open' = FALSE
    /\ UNCHANGED <<timeFormat, outStream, instance, disk, local, wrote, closing, failed>>

CloseStream(t) ==
    /\ Step(t, "closeStream", "ended")
    /\ closed' = closed \cup {reg[t]}
    /\ UNCHANGED <<fields, offset, file, local, wrote, closing, failed>>

Call(t) ==
    \/ Test(t) \/ OpenTest(t) \/ SetOpen(t) \/ SetFormat(t)
    \/ OpenFile(t) \/ OpenFileFails(t)
    \/ Format(t) \/ GetStream(t, "write", "put") \/ Put(t)
    \/ CloseTest(t) \/ ClearOpen(t) \/ GetStream(t, "getStream", "closeStream")
    \/ CloseStream(t)

Caller ==
    \/ SetInstance
    \/ \E s \in Samplers : NewSampler(s) \/ StopSampler(s) \/ Close(s)
    \/ \E t \in Threads : WriteALine(t)

Busy == {t \in Threads : pc[t] \in Opening \cup Closing}
Overlap == \E t, u \in Busy : t # u

(* An exception that is not caught ends the process.                       *)
Next ==
    /\ Alive
    /\ Caller \/ \E t \in Threads : Call(t)
    /\ raced' = (raced \/ Overlap')

Spec == Init /\ [][Next]_vars
-----------------------------------------------------------------------------
(* Properties *)

(* Every variable keeps its kind of value; a thread only writes to or      *)
(* closes a stream that has been opened, and who finds a stream may use    *)
(* the format, whichever thread has made them.                             *)
TypeOK ==
    /\ open \in BOOLEAN /\ timeFormat \in BOOLEAN
    /\ outStream \in 0..Len(offset)
    /\ outStream # 0 => timeFormat
    /\ instance \in 0..MaxSamplers
    /\ offset \in Seq(Nat)
    /\ closed \subseteq 1..Len(offset)
    /\ file \in Seq(0..MaxLines)
    /\ pc \in [Threads -> Pcs]
    /\ reg \in [Threads -> 0..Len(offset)]
    /\ \A t \in Threads : pc[t] \in {"put", "closeStream"} => reg[t] # 0
    /\ line \in [Threads -> 0..MaxLines]
    /\ goon \subseteq Samplers
    /\ lines \in 0..MaxLines
    /\ wrote \in Seq(1..MaxLines)
    /\ closing \in BOOLEAN /\ raced \in BOOLEAN /\ failed \in BOOLEAN

(* open() sets the flag before the fields that the flag stands for, and    *)
(* onStartCommand sets instance after the thread that needs it.  A thread  *)
(* that meets null there ends the process: that can only happen before the *)
(* first stream, while another thread is opening it or the main thread is  *)
(* in onStartCommand, or after the file could not be opened.               *)
CrashOnlyInFirstOpen ==
    ~Alive => /\ outStream = 0
              /\ \/ failed
                 \/ \E t \in Threads : pc[t] \in {"setFormat", "openFile"}
                 \/ instance = 0 /\ pc[Main] = "setInstance"

(* When no thread is opening or closing the log, and none has ever done so *)
(* while another one did, the flag tells the truth: the log is open if and *)
(* only if outStream is, and no other stream is left open.                 *)
FlagTellsTheTruth ==
    Busy = {} /\ ~raced /\ ~failed /\ Alive =>
        {k \in 1..Len(offset) : k \notin closed} = IF open THEN {outStream} ELSE {}

(* Until a thread closes the log, and without such an overlap, the file is *)
(* all that has been written, in the order in which it was.                *)
NothingLost == ~closing /\ ~raced /\ ~failed => file = wrote
=============================================================================
