------------------------------ MODULE FileLog ------------------------------
(***************************************************************************)
(* The rotating log of log.cpp: threads write lines under a mutex, and the *)
(* one whose line makes the file too long renames it to a name with the    *)
(* current second and opens a new one.                                     *)
(*                                                                         *)
(* The call of log_open in run (operation.cpp:407) is commented out; the   *)
(* model is that of a process that opens the log as this call does, with a *)
(* mutex, and ends with err_quit when it cannot.  A line is an identity, a *)
(* length and a level.  The text of a line is not modelled.                *)
(***************************************************************************)
EXTENDS Integers

CONSTANTS Threads,      \* the threads that log
          Free, NoLine, \* no thread, no line
          Lines,        \* the lines, each written at most once
          Length, Level,\* of each line
          LevelName,    \* the configured level_name
          RotateSize,   \* rotate_size, 0 for none
          MaxLine,      \* the longest line (LOG_BUF_LEN of the code)
          LastSecond,   \* a bound on the clock
          MaxRuns,      \* a bound on the number of starts of the process
          Faults        \* a subset of {"crash", "rename", "open"}

ASSUME LinesAssumption ==
  /\ Length \in [Lines -> 1..MaxLine]
  /\ Level \in [Lines -> 0..5]
ASSUME BoundsAssumption ==
  /\ RotateSize \in Nat /\ MaxLine \in Nat
  /\ LastSecond \in Nat /\ MaxRuns \in Nat
ASSUME NamesAssumption == Free \notin Threads /\ NoLine \notin Lines

Seconds == 0..LastSecond

VARIABLES runs,     \* how often the process has been started
          up,       \* it runs
          pc, line, \* per thread: what it does next, with which line
          stamp,    \* per thread: the second it has read from the clock
          path,     \* per thread: the second in the new name of the file
          tm,       \* the buffer that localtime returns, one for all threads
          mutex, fp, w_curr,  \* of the Logger
          file,     \* the current file: its lines and its size
          archive,  \* the renamed files: the lines under the name of a second
          now, spent,         \* the clock, and the bytes written in this second
          flood,    \* more than rotate_size bytes were written in some second
          started, dropped    \* lines: passed to log_write, written to a closed stream

procVars  == <<runs, up>>
threadVars == <<pc, line, stamp, path>>
logger    == <<mutex, fp, w_curr>>
disk      == <<file, archive>>
clock     == <<now, spent, flood>>
history   == <<started, dropped>>
vars == <<procVars, threadVars, tm, logger, disk, clock, history>>

\* get_level: what it does not know is debug.
Threshold ==
  CASE LevelName = "trace" -> 5 [] LevelName = "info"  -> 3 [] LevelName = "warn" -> 2
    [] LevelName = "error" -> 1 [] LevelName = "fatal" -> 0 [] LevelName = "none" -> -1
    [] OTHER -> 4

Advance(t, at) == pc' = [pc EXCEPT ![t] = at]

NewFile == [lines |-> {}, size |-> 0]

Running(t, at) == up /\ pc[t] = at

\* The process ends; the kernel has what was flushed.
Die ==
  /\ up' = FALSE
  /\ pc' = [t \in Threads |-> "idle"] /\ line' = [t \in Threads |-> NoLine]
  /\ stamp' = [t \in Threads |-> 0] /\ path' = [t \in Threads |-> 0] /\ tm' = 0
  /\ mutex' = Free /\ fp' = "closed" /\ w_curr' = 0
  /\ UNCHANGED <<runs, disk, clock, history>>

-----------------------------------------------------------------------------
(* Process and environment                                                  *)

\* Mutant of Open: the file is opened with "w".
OpenTruncates ==
  /\ ~up /\ runs < MaxRuns
  /\ runs' = runs + 1
  /\ up' = TRUE /\ fp' = "open" /\ w_curr' = 0 /\ file' = NewFile
  /\ UNCHANGED <<threadVars, tm, mutex, archive, clock, history>>

\* Logger::open: append to what an earlier process has left.
Open ==
  /\ ~up /\ runs < MaxRuns
  /\ runs' = runs + 1
  /\ \/ /\ up' = TRUE /\ fp' = "open" /\ w_curr' = file.size
     \/ /\ "open" \in Faults
        /\ UNCHANGED <<up, fp, w_curr>>
  /\ UNCHANGED <<threadVars, tm, mutex, disk, clock, history>>

Crash == "crash" \in Faults /\ up /\ Die

Tick ==
  /\ now < LastSecond
  /\ now' = now + 1 /\ spent' = 0
  /\ UNCHANGED <<procVars, threadVars, tm, logger, disk, flood, history>>

-----------------------------------------------------------------------------
(* log_write: logv and rotate                                               *)

\* The level filter, and gettimeofday for a line that passes.
Call(t) ==
  /\ Running(t, "idle")
  /\ \E l \in Lines \ started :
       /\ started' = started \cup {l}
       /\ IF Threshold < Level[l]
          THEN UNCHANGED threadVars
          ELSE /\ line' = [line EXCEPT ![t] = l]
               /\ stamp' = [stamp EXCEPT ![t] = now]
               /\ Advance(t, "format")
               /\ UNCHANGED path
  /\ UNCHANGED <<procVars, tm, logger, disk, clock, dropped>>

\* localtime, outside the mutex: the buffer gets the second this thread has read.
Format(t) ==
  /\ Running(t, "format")
  /\ tm' = stamp[t]
  /\ Advance(t, "lock")
  /\ UNCHANGED <<procVars, line, stamp, path, logger, disk, clock, history>>

Lock(t) ==
  /\ Running(t, "lock") /\ mutex = Free
  /\ mutex' = t
  /\ Advance(t, "write")
  /\ UNCHANGED <<procVars, line, stamp, path, tm, fp, w_curr, disk, clock, history>>

\* Mutant of Write: the size is compared before the line is counted.
WriteCountsLate(t) ==
  LET l == line[t] IN
  /\ Running(t, "write")
  /\ \/ /\ fp = "open"
        /\ file' = [lines |-> file.lines \cup {l}, size |-> file.size + Length[l]]
        /\ spent' = spent + Length[l]
        /\ flood' = (flood \/ spent' > RotateSize)
        /\ UNCHANGED dropped
     \/ /\ fp = "closed"
        /\ dropped' = dropped \cup {l}
        /\ UNCHANGED <<file, spent, flood>>
  /\ w_curr' = w_curr + Length[l]
  /\ Advance(t, IF RotateSize > 0 /\ w_curr > RotateSize THEN "close" ELSE "unlock")
  /\ UNCHANGED <<procVars, line, stamp, path, tm, mutex, fp, archive, now, started>>

\* fwrite, fflush and the count of the bytes.
Write(t) ==
  LET l == line[t] IN
  /\ Running(t, "write")
  /\ \/ /\ fp = "open"
        /\ file' = [lines |-> file.lines \cup {l}, size |-> file.size + Length[l]]
        /\ spent' = spent + Length[l]
        /\ flood' = (flood \/ spent' > RotateSize)
        /\ UNCHANGED dropped
     \/ /\ fp = "closed"
        /\ dropped' = dropped \cup {l}
        /\ UNCHANGED <<file, spent, flood>>
  /\ w_curr' = w_curr + Length[l]
  /\ Advance(t, IF RotateSize > 0 /\ w_curr' > RotateSize THEN "close" ELSE "unlock")
  /\ UNCHANGED <<procVars, line, stamp, path, tm, mutex, fp, archive, now, started>>

\* Mutant of Close: the second is counted from one.
CloseFromOne(t) ==
  /\ Running(t, "close")
  /\ fp' = "closed"
  /\ stamp' = [stamp EXCEPT ![t] = now + 1]
  /\ tm' = now + 1
  /\ Advance(t, "name")
  /\ UNCHANGED <<procVars, line, path, mutex, w_curr, disk, clock, history>>

\* rotate: fclose, gettimeofday and localtime.
Close(t) ==
  /\ Running(t, "close")
  /\ fp' = "closed"
  /\ stamp' = [stamp EXCEPT ![t] = now]
  /\ tm' = now
  /\ Advance(t, "name")
  /\ UNCHANGED <<procVars, line, path, mutex, w_curr, disk, clock, history>>

\* sprintf of the new name, from the buffer of localtime as it is now.
Name(t) ==
  /\ Running(t, "name")
  /\ path' = [path EXCEPT ![t] = tm]
  /\ Advance(t, "rename")
  /\ UNCHANGED <<procVars, line, stamp, tm, logger, disk, clock, history>>

\* Mutant of Rename: the file is removed before the rename.
RenameLate(t) ==
  /\ Running(t, "rename")
  /\ file' = NewFile
  /\ Advance(t, "reopen")
  /\ UNCHANGED <<procVars, line, stamp, path, tm, logger, archive, clock, history>>

\* rename replaces an older file of that name; when it fails, the stream stays
\* closed and w_curr above the limit.
Rename(t) ==
  /\ Running(t, "rename")
  /\ \/ /\ archive' = [archive EXCEPT ![path[t]] = file.lines]
        /\ file' = NewFile
        /\ Advance(t, "reopen")
     \/ /\ "rename" \in Faults
        /\ Advance(t, "unlock")
        /\ UNCHANGED disk
  /\ UNCHANGED <<procVars, line, stamp, path, tm, logger, clock, history>>

\* When fopen fails fp is NULL.
Reopen(t) ==
  /\ Running(t, "reopen")
  /\ \/ fp' = "open" /\ w_curr' = 0
     \/ "open" \in Faults /\ fp' = "null" /\ UNCHANGED w_curr
  /\ Advance(t, "unlock")
  /\ UNCHANGED <<procVars, line, stamp, path, tm, mutex, disk, clock, history>>

Unlock(t) ==
  /\ Running(t, "unlock")
  /\ mutex' = Free
  /\ Advance(t, "idle")
  /\ line' = [line EXCEPT ![t] = NoLine]
  /\ stamp' = [stamp EXCEPT ![t] = 0] /\ path' = [path EXCEPT ![t] = 0]
  /\ UNCHANGED <<procVars, tm, fp, w_curr, disk, clock, history>>

\* fwrite or fclose on a closed stream or on NULL ends the process; on a closed
\* stream it may also go on (Write, Close).
BadStream(t) ==
  /\ Running(t, "write") \/ Running(t, "close")
  /\ fp # "open"
  /\ Die

-----------------------------------------------------------------------------
Init ==
  /\ runs = 0 /\ up = FALSE
  /\ pc = [t \in Threads |-> "idle"]
  /\ line = [t \in Threads |-> NoLine]
  /\ stamp = [t \in Threads |-> 0] /\ path = [t \in Threads |-> 0]
  /\ tm = 0 /\ mutex = Free /\ fp = "closed" /\ w_curr = 0
  /\ file = NewFile /\ archive = [s \in Seconds |-> {}]
  /\ now = 0 /\ spent = 0 /\ flood = FALSE
  /\ started = {} /\ dropped = {}

LogWrite(t) ==
  \/ Call(t) \/ Format(t) \/ Lock(t) \/ Write(t) \/ Unlock(t) \/ BadStream(t)
  \/ Close(t) \/ Name(t) \/ Rename(t) \/ Reopen(t)

Next == Open \/ Crash \/ Tick \/ \E t \in Threads : LogWrite(t)

Spec == Init /\ [][Next]_vars

-----------------------------------------------------------------------------
(* Properties                                                               *)

\* A line that can still be read, in the current file or in a renamed one.
Kept(l) == l \in file.lines \/ \E s \in Seconds : l \in archive[s]

InSection == {"write", "close", "name", "rename", "reopen", "unlock"}

\* What each variable of the Logger, the files and the clock may hold.
LogTypeOK ==
  /\ runs \in Nat /\ up \in BOOLEAN
  /\ pc \in [Threads -> InSection \cup {"idle", "format", "lock"}]
  /\ line \in [Threads -> Lines \cup {NoLine}]
  /\ \A t \in Threads : pc[t] # "idle" => line[t] \in Lines
  /\ stamp \in [Threads -> Seconds] /\ path \in [Threads -> Seconds] /\ tm \in Seconds
  /\ mutex \in Threads \cup {Free} /\ fp \in {"open", "closed", "null"} /\ w_curr \in Nat
  /\ file \in [lines : SUBSET Lines, size : Nat]
  /\ archive \in [Seconds -> SUBSET Lines]
  /\ now \in Seconds /\ spent \in Nat /\ flood \in BOOLEAN
  /\ started \subseteq Lines /\ dropped \subseteq Lines

\* The file outgrows rotate_size by one line per start of the process at most:
\* a crash between the write and the rename leaves a file that the next process
\* makes one line longer before it rotates, and a rename that fails closes the
\* stream.
SizeBounded == RotateSize > 0 => file.size <= RotateSize + runs * MaxLine

\* While its log_write is under way a line that was written is in a file, whatever
\* the rotation that it may have caused does, unless the stream was closed.
OwnLineKept ==
  \A t \in Threads :
    pc[t] \in InSection \ {"write"} => Kept(line[t]) \/ line[t] \in dropped

\* A line disappears only when a rename replaces an older file, and that happens
\* only if more than rotate_size bytes were written within one second, or if
\* another thread's localtime changed the buffer while rotate read it.
LinesStay ==
  [][\A l \in Lines : Kept(l) /\ ~Kept(l)' =>
       flood \/ \E t \in Threads : pc[t] = "rename" /\ path[t] # stamp[t]]_vars
==============================================================================
