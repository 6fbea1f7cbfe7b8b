-------------------------- MODULE TimeBackCompute --------------------------
(***************************************************************************)
(* mouse/TimeBackCompute.java: a thread samples the position of the cursor *)
(* into a ring of two time units; on a click the main thread reads back    *)
(* where the cursor was one time unit ago.  Nothing synchronizes the two:  *)
(* every access to pointer and to a coordinate in the ring is a step.      *)
(*                                                                         *)
(* A coordinate is the number of the sample it was written by, 0 for the   *)
(* zeros that new int[length][2] starts with.                              *)
(***************************************************************************)
EXTENDS Naturals, Integers

CONSTANTS
    TimeUnit,       \* MouseManager.getTimeUnit()
    MaxSamples      \* bound: samples taken before the thread is stopped

ASSUME TimeUnitAssumption == TimeUnit \in Nat \ {0} /\ MaxSamples \in Nat

VARIABLES
    pointer,        \* TimeBackCompute.pointer
    positionArray,  \* the ring
    goon,           \* cleared by stopTimeBackCompute
    samplerPc,      \* where the sampling thread is
    i,              \* its loop variable
    taken,          \* number of the last sample begun
    late,           \* history: samples begun after the stop
    mainPc,         \* where the main thread is in getTimebackPosition
    index,          \* its locals: the index of the position to go back to,
    current,        \* currentPosition
    back,           \* and the result
    at              \* history: samples complete when it read the index

samplerVars == <<pointer, positionArray, samplerPc, i, taken, late>>
mainVars == <<mainPc, index, current, back, at>>
vars == <<samplerVars, goon, mainVars>>

length == 2 * TimeUnit
Zero == [x |-> 0, y |-> 0]

SamplerPcs == {"while", "for", "x", "y", "advance", "wrap", "closed"}
MainPcs == {"idle", "currentX", "currentY", "backX", "backY", "done", "crashed"}

(* The samples that are in the ring with both coordinates.                 *)
Complete == IF samplerPc \in {"y", "advance"} THEN taken - 1 ELSE taken

Init ==
    /\ pointer = 0
    /\ positionArray = [k \in 0 .. length - 1 |-> Zero]
    /\ goon = TRUE
    /\ samplerPc = "while"
    /\ i = 0
    /\ taken = 0
    /\ late = 0
    /\ mainPc = "idle"
    /\ index = 0
    /\ current = Zero
    /\ back = Zero
    /\ at = 0
-----------------------------------------------------------------------------
(* The sampling thread: run().  The call of getPositon writes the two      *)
(* coordinates into the cell that pointer selects.                         *)

While ==
    /\ samplerPc = "while"
    /\ samplerPc' = IF goon THEN "for" ELSE "closed"
    /\ i' = 0
    /\ UNCHANGED <<pointer, positionArray, taken, late, goon, mainVars>>

(* The bound: MaxSamples, and then a round to stop.                        *)
HasRoom == i < length => taken < IF goon THEN MaxSamples ELSE MaxSamples + length

(* Mutant of For: one sample too many per round.                           *)
ForOneMore ==
    /\ samplerPc = "for"
    /\ HasRoom
    /\ samplerPc' = IF i <= length THEN "x" ELSE "while"
    /\ UNCHANGED <<pointer, positionArray, i, taken, late, goon, mainVars>>

(* The test of the for loop, after a sleep or at the start of a round.     *)
For ==
    /\ samplerPc = "for"
    /\ HasRoom
    /\ samplerPc' = IF i < length THEN "x" ELSE "while"
    /\ UNCHANGED <<pointer, positionArray, i, taken, late, goon, mainVars>>

SampleX ==
    /\ samplerPc = "x"
    /\ taken' = taken + 1
    /\ late' = IF goon THEN late ELSE late + 1
    /\ positionArray' = [positionArray EXCEPT ![pointer].x = taken']
    /\ samplerPc' = "y"
    /\ UNCHANGED <<pointer, i, goon, mainVars>>

SampleY ==
    /\ samplerPc = "y"
    /\ positionArray' = [positionArray EXCEPT ![pointer].y = taken]
    /\ samplerPc' = "advance"
    /\ UNCHANGED <<pointer, i, taken, late, goon, mainVars>>

Advance ==
    /\ samplerPc = "advance"
    /\ pointer' = pointer + 1
    /\ samplerPc' = "wrap"
    /\ UNCHANGED <<positionArray, i, taken, late, goon, mainVars>>

(* Mutant of Wrap: it wraps a cell too late.                               *)
WrapLate ==
    /\ samplerPc = "wrap"
    /\ pointer' = IF pointer > length THEN 0 ELSE pointer
    /\ i' = i + 1
    /\ samplerPc' = "for"
    /\ UNCHANGED <<positionArray, taken, late, goon, mainVars>>

(* if (pointer == length) pointer = 0; then the thread sleeps.             *)
Wrap ==
    /\ samplerPc = "wrap"
    /\ pointer' = IF pointer = length THEN 0 ELSE pointer
    /\ i' = i + 1
    /\ samplerPc' = "for"
    /\ UNCHANGED <<positionArray, taken, late, goon, mainVars>>

Sampler == While \/ For \/ SampleX \/ SampleY \/ Advance \/ Wrap

-----------------------------------------------------------------------------
(* The main thread: getTimebackPosition() and stopTimeBackCompute().       *)

(* Mutant of BackIndex: the cell of the oldest sample but one.             *)
BackIndexNext(p) == (p + 1) % length

(* pointer + length/2, wrapped.                                            *)
BackIndex(p) == IF p + TimeUnit >= length THEN p + TimeUnit - length ELSE p + TimeUnit

ReadIndex ==
    /\ mainPc \in {"idle", "done"}
    /\ index' = BackIndex(pointer)
    /\ at' = Complete
    /\ current' = Zero
    /\ back' = Zero
    /\ mainPc' = "currentX"
    /\ UNCHANGED <<samplerVars, goon>>

(* positionArray[pointer] reads pointer again, for each coordinate.  One   *)
(* past the end of the ring it throws ArrayIndexOutOfBoundsException.      *)
Crash ==
    /\ pointer = length
    /\ mainPc' = "crashed"
    /\ UNCHANGED <<samplerVars, goon, index, current, back, at>>

ReadCurrentX ==
    /\ mainPc = "currentX"
    /\ \/ Crash
       \/ /\ pointer < length
          /\ current' = [current EXCEPT !.x = positionArray[pointer].x]
          /\ mainPc' = "currentY"
          /\ UNCHANGED <<samplerVars, goon, index, back, at>>

ReadCurrentY ==
    /\ mainPc = "currentY"
    /\ \/ Crash
       \/ /\ pointer < length
          /\ current' = [current EXCEPT !.y = positionArray[pointer].y]
          /\ mainPc' = "backX"
          /\ UNCHANGED <<samplerVars, goon, index, back, at>>

ReadBackX ==
    /\ mainPc = "backX"
    /\ back' = [back EXCEPT !.x = positionArray[index].x]
    /\ mainPc' = "backY"
    /\ UNCHANGED <<samplerVars, goon, index, current, at>>

ReadBackY ==
    /\ mainPc = "backY"
    /\ back' = [back EXCEPT !.y = positionArray[index].y]
    /\ mainPc' = "done"
    /\ UNCHANGED <<samplerVars, goon, index, current, at>>

StopTimeBackCompute ==
    /\ mainPc \in {"idle", "done"}
    /\ goon
    /\ goon' = FALSE
    /\ UNCHANGED <<samplerVars, mainVars>>

Main == \/ ReadIndex \/ ReadCurrentX \/ ReadCurrentY
        \/ ReadBackX \/ ReadBackY \/ StopTimeBackCompute

(* An exception on the main thread ends the process.                       *)
Next == mainPc # "crashed" /\ (Sampler \/ Main)

Spec == Init /\ [][Next]_vars
-----------------------------------------------------------------------------
(* Properties *)

Positions == [x : Nat, y : Nat]

(* Every variable keeps its kind of value.  The index to go back to is in  *)
(* the ring also when pointer was read before it was wrapped.              *)
TypeOK ==
    /\ pointer \in 0..length
    /\ samplerPc # "wrap" => pointer < length
    /\ positionArray \in [0 .. length - 1 -> Positions]
    /\ goon \in BOOLEAN
    /\ samplerPc \in SamplerPcs
    /\ i \in 0..length
    /\ taken \in Nat /\ late \in Nat /\ at \in Nat
    /\ mainPc \in MainPcs
    /\ index \in 0 .. length - 1
    /\ current \in Positions /\ back \in Positions

(* The n-th sample, or the zeros if it lies before the first one.          *)
Sample(n) == IF n > 0 THEN [x |-> n, y |-> n] ELSE Zero

(* The position to go back to is the TimeUnit-th latest of the samples     *)
(* that were complete when the index was read, and its two coordinates     *)
(* belong together, unless the main thread is held up for TimeUnit samples.*)
BackIsOneUnitOld ==
    mainPc = "done" /\ taken <= at + TimeUnit => back = Sample(at - TimeUnit + 1)

(* getTimebackPosition can only fail in the moment between pointer++ and   *)
(* the reset of pointer.                                                   *)
FailsOnlyInWrap == mainPc = "crashed" => samplerPc = "wrap" /\ taken % length = 0

(* A stop is only noticed after a whole round: up to two units of samples  *)
(* are still taken.                                                        *)
StopsWithinARound == late <= length
=============================================================================
