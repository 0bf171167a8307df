--------------------------- MODULE FileLogProofs ---------------------------
(***************************************************************************)
(* Theorems about FileLog for every number of threads, lines, restarts and *)
(* seconds, every rotate_size and every fault.  LogInv is the inductive    *)
(* invariant; each of its parts is kept by every step, given all of them.  *)
(***************************************************************************)
EXTENDS FileLog, TLAPS

\* A thread in its section holds the mutex, and a process that is down has no
\* thread and no stream.
Holder ==
  /\ \A t \in Threads : pc[t] \in InSection => mutex = t
  /\ \A t \in Threads : pc[t] # "idle" => line[t] \in Lines
  /\ up => runs >= 1
  /\ ~up => fp = "closed" /\ \A t \in Threads : pc[t] = "idle"

\* w_curr is the size of the file while the stream is open.  A rotation starts
\* with a file that is too long, and so does a process whose rename has failed.
Stream ==
  /\ fp = "open" => w_curr = file.size
  /\ \A t \in Threads :
       /\ pc[t] \in {"close", "name", "rename"} => RotateSize > 0 /\ file.size > RotateSize
       /\ pc[t] \in {"name", "rename", "reopen"} => fp = "closed"
       /\ pc[t] = "reopen" => file.size = 0
  /\ up /\ fp = "closed" => \/ \E t \in Threads : pc[t] = "reopen"
                            \/ RotateSize > 0 /\ file.size > RotateSize

\* A file that is too long and not about to be rotated was so when the process
\* was started.
Size ==
  RotateSize > 0 =>
    /\ file.size <= RotateSize + runs * MaxLine
    /\ fp = "open" /\ file.size > RotateSize =>
         \/ \E t \in Threads : pc[t] = "close"
         \/ runs >= 1 /\ file.size + MaxLine <= RotateSize + runs * MaxLine

\* Unless too much was written in one second: once a file has the name of this
\* second, all of the current one was written in this second, so that it cannot
\* be rotated to the same name.
Names ==
  /\ ~flood => spent <= RotateSize
  /\ tm <= now /\ \A t \in Threads : stamp[t] <= now /\ path[t] <= now
  /\ \A s \in Seconds : s > now => archive[s] = {}
  /\ ~flood /\ archive[now] # {} => file.size <= spent
  /\ \A t \in Threads : pc[t] \in {"name", "rename"} /\ ~flood => archive[stamp[t]] = {}

\* A line that was written is in the file until its thread renames it.
Own ==
  \A t \in Threads :
    /\ pc[t] \in {"close", "name", "rename"} => line[t] \in file.lines \cup dropped
    /\ pc[t] \in {"reopen", "unlock"} => Kept(line[t]) \/ line[t] \in dropped

LogInv == LogTypeOK /\ Holder /\ Stream /\ Size /\ Names /\ Own

LEMMA MaxLineNat == MaxLine \in Nat /\ RotateSize \in Nat
BY BoundsAssumption

LEMMA SecondsFacts ==
  /\ 0 \in Seconds /\ Seconds \subseteq Nat
  /\ \A s \in Seconds : s < LastSecond => s + 1 \in Seconds
BY BoundsAssumption DEF Seconds

LEMMA LengthBound ==
  ASSUME NEW l \in Lines
  PROVE  Length[l] \in Nat /\ Length[l] >= 1 /\ Length[l] <= MaxLine
BY LinesAssumption, BoundsAssumption

\* One more start of the process allows one more line.
LEMMA OneMore ==
  ASSUME NEW n \in Nat
  PROVE  /\ n * MaxLine \in Nat /\ (n + 1) * MaxLine = n * MaxLine + MaxLine
         /\ n >= 1 => n * MaxLine >= MaxLine
BY BoundsAssumption

LEMMA InitInv == Init => LogInv
<1> SUFFICES ASSUME Init PROVE LogInv
  OBVIOUS
<1> USE DEF Init, InSection
<1>1. LogTypeOK
  BY SecondsFacts DEF LogTypeOK, NewFile
<1>2. Holder
  BY DEF Holder
<1>3. Stream
  BY DEF Stream, NewFile
<1>4. Size
  BY BoundsAssumption, OneMore DEF Size, NewFile
<1>5. Names
  BY BoundsAssumption DEF Names, Seconds
<1>6. Own
  BY DEF Own
<1> QED BY <1>1, <1>2, <1>3, <1>4, <1>5, <1>6 DEF LogInv

-----------------------------------------------------------------------------
(* Types and the mutex                                                      *)

LEMMA TypeStep == LogInv /\ [Next]_vars => LogTypeOK'
<1> SUFFICES ASSUME LogInv, [Next]_vars PROVE LogTypeOK'
  OBVIOUS
<1> USE SecondsFacts DEF LogInv, LogTypeOK, InSection, Advance, NewFile,
        procVars, threadVars, logger, disk, clock, history
<1>1. CASE Open
  <2>1. up' \in BOOLEAN /\ fp' \in {"open", "closed", "null"} /\ w_curr' \in Nat
    BY <1>1 DEF Open
  <2> QED BY <1>1, <2>1 DEF Open
<1>2. CASE Die
  BY <1>2 DEF Die
<1>3. CASE Tick
  BY <1>3 DEF Tick
<1>4. ASSUME NEW t \in Threads, LogWrite(t) PROVE LogTypeOK'
  <2>1. CASE Call(t)
    BY <2>1 DEF Call, Running
  <2>2. CASE Format(t)
    BY <2>2 DEF Format, Running
  <2>3. CASE Lock(t)
    BY <2>3 DEF Lock, Running
  <2>4. CASE Write(t)
    <3>1. line[t] \in Lines
      BY <2>4 DEF Write, Running, Holder
    <3>2. w_curr' \in Nat /\ spent' \in Nat /\ dropped' \subseteq Lines
      BY <2>4, <3>1, LengthBound DEF Write, Running
    <3>5. flood' \in BOOLEAN
      BY <2>4, Zenon DEF Write
    <3>3. file' \in [lines : SUBSET Lines, size : Nat]
      BY <2>4, <3>1, LengthBound DEF Write, Running
    <3>4. pc' \in [Threads -> InSection \cup {"idle", "format", "lock"}]
      BY <2>4 DEF Write, Running
    <3> QED BY <2>4, <3>1, <3>2, <3>3, <3>4, <3>5 DEF Write, Running
  <2>5. CASE Close(t)
    BY <2>5 DEF Close, Running
  <2>6. CASE Name(t)
    BY <2>6 DEF Name, Running
  <2>7. CASE Rename(t)
    BY <2>7 DEF Rename, Running
  <2>8. CASE Reopen(t)
    BY <2>8 DEF Reopen, Running
  <2>9. CASE Unlock(t)
    BY <2>9 DEF Unlock, Running
  <2>10. CASE BadStream(t)
    BY <2>10, <1>2 DEF BadStream
  <2> QED BY <1>4, <2>1, <2>2, <2>3, <2>4, <2>5, <2>6, <2>7, <2>8, <2>9, <2>10 DEF LogWrite
<1>5. CASE UNCHANGED vars
  BY <1>5 DEF vars
<1> QED BY <1>1, <1>2, <1>3, <1>4, <1>5 DEF Next, Crash

LEMMA HolderStep == LogInv /\ [Next]_vars => Holder'
<1> SUFFICES ASSUME LogInv, [Next]_vars PROVE Holder'
  OBVIOUS
<1> USE NamesAssumption DEF LogInv, LogTypeOK, Holder, InSection, Advance,
        procVars, threadVars, logger, disk, clock, history
<1>1. CASE Open
  BY <1>1 DEF Open
<1>2. CASE Die
  BY <1>2 DEF Die
<1>3. CASE Tick
  BY <1>3 DEF Tick
<1>4. ASSUME NEW t \in Threads, LogWrite(t) PROVE Holder'
  <2>1. CASE Call(t)
    BY <2>1 DEF Call, Running
  <2>2. CASE Format(t)
    BY <2>2 DEF Format, Running
  <2>3. CASE Lock(t)
    BY <2>3 DEF Lock, Running
  <2>4. CASE Write(t)
    BY <2>4 DEF Write, Running
  <2>5. CASE Close(t)
    BY <2>5 DEF Close, Running
  <2>6. CASE Name(t)
    BY <2>6 DEF Name, Running
  <2>7. CASE Rename(t)
    BY <2>7 DEF Rename, Running
  <2>8. CASE Reopen(t)
    BY <2>8 DEF Reopen, Running
  <2>9. CASE Unlock(t)
    BY <2>9 DEF Unlock, Running
  <2>10. CASE BadStream(t)
    BY <2>10, <1>2 DEF BadStream
  <2> QED BY <1>4, <2>1, <2>2, <2>3, <2>4, <2>5, <2>6, <2>7, <2>8, <2>9, <2>10 DEF LogWrite
<1>5. CASE UNCHANGED vars
  BY <1>5 DEF vars
<1> QED BY <1>1, <1>2, <1>3, <1>4, <1>5 DEF Next, Crash
-----------------------------------------------------------------------------
(* The stream and the size of the file                                      *)

LEMMA StreamStep == LogInv /\ [Next]_vars => Stream'
<1> SUFFICES ASSUME LogInv, [Next]_vars PROVE Stream'
  OBVIOUS
<1> USE MaxLineNat, NamesAssumption DEF LogInv, LogTypeOK, Holder, Stream, InSection, Advance, NewFile,
        procVars, threadVars, logger, disk, clock, history
<1>1. CASE Open
  BY <1>1 DEF Open
<1>2. CASE Die
  BY <1>2 DEF Die
<1>3. CASE Tick
  BY <1>3 DEF Tick
<1>4. ASSUME NEW t \in Threads, LogWrite(t) PROVE Stream'
  <2>1. CASE Call(t)
    BY <2>1 DEF Call, Running
  <2>2. CASE Format(t)
    BY <2>2 DEF Format, Running
  <2>3. CASE Lock(t)
    BY <2>3 DEF Lock, Running
  <2>4. CASE Write(t)
    <3>1. Length[line[t]] \in Nat /\ Length[line[t]] >= 1
      BY <2>4, LengthBound DEF Write, Running
    <3>2. \A u \in Threads \ {t} : pc[u] \notin InSection /\ pc'[u] = pc[u]
      BY <2>4 DEF Write, Running
    <3>3. CASE fp = "open"
      BY <2>4, <3>1, <3>2, <3>3 DEF Write, Running
    <3>4. CASE fp = "closed"
      BY <2>4, <3>1, <3>2, <3>4 DEF Write, Running
    <3> QED BY <2>4, <3>3, <3>4 DEF Write
  <2>5. CASE Close(t)
    BY <2>5 DEF Close, Running
  <2>6. CASE Name(t)
    BY <2>6 DEF Name, Running
  <2>7. CASE Rename(t)
    <3>2. \A u \in Threads \ {t} : pc[u] \notin InSection /\ pc'[u] = pc[u]
      BY <2>7 DEF Rename, Running
    <3> QED BY <2>7, <3>2 DEF Rename, Running
  <2>8. CASE Reopen(t)
    <3>2. \A u \in Threads \ {t} : pc[u] \notin InSection /\ pc'[u] = pc[u]
      BY <2>8 DEF Reopen, Running
    <3> QED BY <2>8, <3>2 DEF Reopen, Running
  <2>9. CASE Unlock(t)
    BY <2>9 DEF Unlock, Running
  <2>10. CASE BadStream(t)
    BY <2>10, <1>2 DEF BadStream
  <2> QED BY <1>4, <2>1, <2>2, <2>3, <2>4, <2>5, <2>6, <2>7, <2>8, <2>9, <2>10 DEF LogWrite
<1>5. CASE UNCHANGED vars
  BY <1>5 DEF vars
<1> QED BY <1>1, <1>2, <1>3, <1>4, <1>5 DEF Next, Crash

LEMMA SizeStep == LogInv /\ [Next]_vars => Size'
<1> SUFFICES ASSUME LogInv, [Next]_vars, RotateSize > 0 PROVE Size'
  BY DEF Size
<1> DEFINE cap == runs * MaxLine
<1>0. cap \in Nat /\ (runs >= 1 => cap >= MaxLine)
  BY OneMore DEF LogInv, LogTypeOK
<1>a. Size <=> /\ file.size <= RotateSize + cap
               /\ fp = "open" /\ file.size > RotateSize =>
                    \/ \E t \in Threads : pc[t] = "close"
                    \/ runs >= 1 /\ file.size + MaxLine <= RotateSize + cap
  BY DEF Size
<1>b. runs' = runs =>
        (Size' <=> /\ file'.size <= RotateSize + cap
                   /\ fp' = "open" /\ file'.size > RotateSize =>
                        \/ \E t \in Threads : pc'[t] = "close"
                        \/ runs >= 1 /\ file'.size + MaxLine <= RotateSize + cap)
  BY DEF Size
<1> HIDE DEF cap
<1> USE <1>0, <1>a, <1>b, MaxLineNat
    DEF LogInv, LogTypeOK, InSection, Advance, NewFile,
        procVars, threadVars, logger, disk, clock, history
<1>1. CASE Open
  <2>1. runs' * MaxLine = cap + MaxLine /\ runs' >= 1
    BY <1>1, OneMore DEF Open, cap
  <2>2. /\ file.size <= RotateSize + runs' * MaxLine
        /\ file.size + MaxLine <= RotateSize + runs' * MaxLine
    BY <2>1
  <2> QED BY <1>1, <2>1, <2>2 DEF Open, Size
<1>2. CASE Die
  BY <1>2 DEF Die
<1>3. CASE Tick
  BY <1>3 DEF Tick
<1>4. ASSUME NEW t \in Threads, LogWrite(t) PROVE Size'
  <2>1. CASE Call(t)
    BY <2>1 DEF Call, Running
  <2>2. CASE Format(t)
    BY <2>2 DEF Format, Running
  <2>3. CASE Lock(t)
    BY <2>3 DEF Lock, Running
  <2>4. CASE Write(t)
    <3>1. Length[line[t]] \in Nat /\ Length[line[t]] <= MaxLine
      BY <2>4, LengthBound DEF Write, Running, Holder
    <3>2. \A u \in Threads : pc[u] # "close"
      BY <2>4 DEF Write, Running, Holder
    <3>3. CASE fp = "open"
      <4>1. file'.size = file.size + Length[line[t]] /\ w_curr' = file'.size
        BY <2>4, <3>1, <3>3 DEF Write, Stream
      <4>2. file'.size > RotateSize => pc'[t] = "close"
        BY <2>4, <4>1 DEF Write
      <4>3. file'.size <= RotateSize + cap
        BY <2>4, <3>1, <3>2, <3>3, <4>1 DEF Write, Running, Holder
      <4> QED BY <2>4, <4>2, <4>3 DEF Write
    <3>4. CASE fp = "closed"
      BY <2>4, <3>4 DEF Write, Running
    <3> QED BY <2>4, <3>3, <3>4 DEF Write
  <2>5. CASE Close(t)
    BY <2>5 DEF Close, Running
  <2>6. CASE Name(t)
    BY <2>6 DEF Name, Running
  <2>7. CASE Rename(t)
    BY <2>7 DEF Rename, Running, Stream
  <2>8. CASE Reopen(t)
    BY <2>8 DEF Reopen, Running, Stream
  <2>9. CASE Unlock(t)
    BY <2>9 DEF Unlock, Running
  <2>10. CASE BadStream(t)
    BY <2>10, <1>2 DEF BadStream
  <2> QED BY <1>4, <2>1, <2>2, <2>3, <2>4, <2>5, <2>6, <2>7, <2>8, <2>9, <2>10 DEF LogWrite
<1>5. CASE UNCHANGED vars
  BY <1>5 DEF vars
<1> QED BY <1>1, <1>2, <1>3, <1>4, <1>5 DEF Next, Crash
-----------------------------------------------------------------------------
(* The names of the renamed files and the lines in them                     *)

\* A rotation that starts finds no file under the name of this second.
LEMMA NameIsFree ==
  ASSUME LogInv, NEW t \in Threads, pc[t] = "close", ~flood
  PROVE  archive[now] = {}
<1>1. file.size > RotateSize /\ spent <= RotateSize
  BY DEF LogInv, Stream, Names
<1>2. file.size \in Nat /\ spent \in Nat
  BY DEF LogInv, LogTypeOK
<1> QED BY <1>1, <1>2, MaxLineNat DEF LogInv, Names

LEMMA NamesStep == LogInv /\ [Next]_vars => Names'
<1> SUFFICES ASSUME LogInv, [Next]_vars PROVE Names'
  OBVIOUS
<1> USE MaxLineNat, SecondsFacts
    DEF LogInv, LogTypeOK, Names, InSection, Advance, NewFile,
        procVars, threadVars, logger, disk, clock, history
<1>1. CASE Open
  BY <1>1 DEF Open
<1>2. CASE Die
  BY <1>2 DEF Die
<1>3. CASE Tick
  <2>1. archive[now'] = {} /\ now' \in Seconds
    BY <1>3 DEF Tick
  <2>2. now' = now + 1 /\ now \in Nat /\ tm \in Nat /\ spent' = 0
    BY <1>3 DEF Tick
  <2>3. tm' <= now' /\ \A t \in Threads : stamp'[t] <= now' /\ path'[t] <= now'
    <3>1. UNCHANGED <<tm, stamp, path>>
      BY <1>3 DEF Tick
    <3>2. \A n \in Nat : n <= now => n <= now'
      BY <2>2
    <3>3. \A t \in Threads : stamp[t] \in Nat /\ path[t] \in Nat
      OBVIOUS
    <3>4. tm <= now /\ \A t \in Threads : stamp[t] <= now /\ path[t] <= now
      OBVIOUS
    <3> HIDE DEF LogInv, LogTypeOK, Names
    <3> QED BY <2>2, <3>1, <3>2, <3>3, <3>4
  <2>4. \A s \in Seconds : s > now' => archive'[s] = {}
    BY <1>3, <2>2 DEF Tick
  <2>5. \A t \in Threads : pc'[t] \in {"name", "rename"} /\ ~flood' => archive'[stamp'[t]] = {}
    BY <1>3 DEF Tick
  <2>6. archive' = archive
    BY <1>3 DEF Tick
  <2> QED BY <2>1, <2>2, <2>3, <2>4, <2>5, <2>6
<1>4. ASSUME NEW t \in Threads, LogWrite(t) PROVE Names'
  <2>1. CASE Call(t)
    BY <2>1 DEF Call, Running
  <2>2. CASE Format(t)
    BY <2>2 DEF Format, Running
  <2>3. CASE Lock(t)
    BY <2>3 DEF Lock, Running
  <2>4. CASE Write(t)
    <3>1. Length[line[t]] \in Nat
      BY <2>4, LengthBound DEF Write, Running, Holder
    <3>2. \A u \in Threads : pc'[u] \in {"name", "rename"} => pc[u] = pc'[u]
      BY <2>4 DEF Write, Running
    <3>3. CASE fp = "open"
      <4>0. flood' = (flood \/ spent' > RotateSize)
        BY <2>4, <3>3, Zenon DEF Write
      <4>1. ~flood' => ~flood /\ ~(spent' > RotateSize)
        BY <4>0, Zenon
      <4>3. spent' \in Nat
        BY <2>4, <3>1, <3>3 DEF Write
      <4>2. file'.size = file.size + Length[line[t]] /\ spent' = spent + Length[line[t]]
        BY <2>4, <3>3 DEF Write
      <4>4. ~flood' => spent' <= RotateSize
        BY <4>1, <4>3
      <4>5. ~flood' /\ archive[now] # {} => file'.size <= spent'
        BY <4>1, <4>2, <3>1
      <4>6. UNCHANGED <<tm, stamp, path, archive, now>>
        BY <2>4 DEF Write
      <4>7. \A u \in Threads : pc'[u] \in {"name", "rename"} /\ ~flood' => archive[stamp[u]] = {}
        BY <3>2, <4>1
      <4> QED BY <4>4, <4>5, <4>6, <4>7
    <3>4. CASE fp = "closed"
      BY <2>4, <3>2, <3>4 DEF Write
    <3> QED BY <2>4, <3>3, <3>4 DEF Write
  <2>5. CASE Close(t)
    <3>1. ~flood => archive[now] = {}
      BY <2>5, NameIsFree DEF Close, Running
    <3> QED BY <2>5, <3>1 DEF Close, Running
  <2>6. CASE Name(t)
    BY <2>6 DEF Name, Running
  <2>7. CASE Rename(t)
    <3>1. \A u \in Threads : pc'[u] \notin {"name", "rename"}
      BY <2>7 DEF Rename, Running, Holder
    <3>2. \A s \in Seconds : s > now => archive'[s] = {}
      BY <2>7 DEF Rename, Running
    <3>3. file'.size = 0 \/ (archive' = archive /\ file' = file)
      BY <2>7 DEF Rename
    <3>4. UNCHANGED <<tm, stamp, path, now, spent, flood>>
      BY <2>7 DEF Rename
    <3>5. ~flood /\ archive'[now] # {} => file'.size <= spent
      BY <3>3
    <3> QED BY <3>1, <3>2, <3>4, <3>5
  <2>8. CASE Reopen(t)
    BY <2>8 DEF Reopen, Running
  <2>9. CASE Unlock(t)
    BY <2>9 DEF Unlock, Running
  <2>10. CASE BadStream(t)
    BY <2>10, <1>2 DEF BadStream
  <2> QED BY <1>4, <2>1, <2>2, <2>3, <2>4, <2>5, <2>6, <2>7, <2>8, <2>9, <2>10 DEF LogWrite
<1>5. CASE UNCHANGED vars
  BY <1>5 DEF vars
<1> QED BY <1>1, <1>2, <1>3, <1>4, <1>5 DEF Next, Crash

LEMMA OwnStep == LogInv /\ [Next]_vars => Own'
<1> SUFFICES ASSUME LogInv, [Next]_vars PROVE Own'
  OBVIOUS
<1> USE DEF LogInv, LogTypeOK, Own, Kept, InSection, Advance, NewFile,
        procVars, threadVars, logger, disk, clock, history
<1>1. CASE Open
  BY <1>1 DEF Open
<1>2. CASE Die
  BY <1>2 DEF Die
<1>3. CASE Tick
  BY <1>3 DEF Tick
<1>4. ASSUME NEW t \in Threads, LogWrite(t) PROVE Own'
  <2>1. CASE Call(t)
    BY <2>1 DEF Call, Running
  <2>2. CASE Format(t)
    BY <2>2 DEF Format, Running
  <2>3. CASE Lock(t)
    BY <2>3 DEF Lock, Running
  <2>4. CASE Write(t)
    <3>1. \A u \in Threads \ {t} : pc'[u] \notin InSection
      BY <2>4 DEF Write, Running, Holder
    <3>2. line' = line /\ line[t] \in file'.lines \cup dropped'
      BY <2>4 DEF Write
    <3> QED BY <3>1, <3>2
  <2>5. CASE Close(t)
    BY <2>5 DEF Close, Running
  <2>6. CASE Name(t)
    BY <2>6 DEF Name, Running
  <2>7. CASE Rename(t)
    <3>1. \A u \in Threads \ {t} : pc'[u] \notin InSection
      BY <2>7 DEF Rename, Running, Holder
    <3>2. line' = line /\ (Kept(line[t])' \/ line[t] \in dropped')
      BY <2>7 DEF Rename, Running
    <3>3. pc'[t] \in {"reopen", "unlock"}
      BY <2>7 DEF Rename
    <3> QED BY <3>1, <3>2, <3>3
  <2>8. CASE Reopen(t)
    BY <2>8 DEF Reopen, Running
  <2>9. CASE Unlock(t)
    BY <2>9 DEF Unlock, Running
  <2>10. CASE BadStream(t)
    BY <2>10, <1>2 DEF BadStream
  <2> QED BY <1>4, <2>1, <2>2, <2>3, <2>4, <2>5, <2>6, <2>7, <2>8, <2>9, <2>10 DEF LogWrite
<1>5. CASE UNCHANGED vars
  BY <1>5 DEF vars
<1> QED BY <1>1, <1>2, <1>3, <1>4, <1>5 DEF Next, Crash

LEMMA LogAlways == Spec => []LogInv
<1>1. LogInv /\ [Next]_vars => LogInv'
  BY TypeStep, HolderStep, StreamStep, SizeStep, NamesStep, OwnStep DEF LogInv
<1> QED BY <1>1, InitInv, PTL DEF Spec

-----------------------------------------------------------------------------
\* Every variable of the log keeps its type.
THEOREM LogTypes == Spec => []LogTypeOK
<1>1. LogInv => LogTypeOK
  BY DEF LogInv
<1> QED BY <1>1, LogAlways, PTL

\* The current file never exceeds rotate_size by more than one line per start.
THEOREM FileStaysSmall == Spec => []SizeBounded
<1>1. LogInv => SizeBounded
  BY DEF LogInv, Size, SizeBounded
<1> QED BY <1>1, LogAlways, PTL

\* No rotation loses the line of the thread that makes it.
THEOREM OwnLineStays == Spec => []OwnLineKept
<1>1. LogInv => OwnLineKept
  BY DEF LogInv, Own, OwnLineKept, InSection, Kept
<1> QED BY <1>1, LogAlways, PTL

\* A step that loses a line is a rename over an older file: after a flood, or
\* under a name that another thread's localtime has put into the buffer.
LEMMA LossStep ==
  ASSUME LogInv, [Next]_vars, NEW l \in Lines, Kept(l), ~Kept(l)'
  PROVE  flood \/ \E t \in Threads : pc[t] = "rename" /\ path[t] # stamp[t]
<1> USE DEF LogInv, LogTypeOK, Kept, procVars, threadVars, logger, disk, clock, history
<1>1. PICK t \in Threads : Rename(t)
  <2>1. ~(Open \/ Die \/ Tick \/ UNCHANGED vars)
    BY DEF Open, Die, Tick, vars
  <2>2. PICK t \in Threads : LogWrite(t)
    BY <2>1 DEF Next, Crash
  <2>3. ~BadStream(t)
    BY <2>1 DEF BadStream
  <2>4. ~Write(t)
    BY DEF Write
  <2>5. ~(Call(t) \/ Format(t) \/ Lock(t) \/ Close(t) \/ Name(t) \/ Reopen(t) \/ Unlock(t))
    BY DEF Call, Format, Lock, Close, Name, Reopen, Unlock
  <2> QED BY <2>2, <2>3, <2>4, <2>5 DEF LogWrite
<1>2. archive' = [archive EXCEPT ![path[t]] = file.lines] /\ pc[t] = "rename"
  BY <1>1 DEF Rename, Running
<1>3. path[t] \in Seconds /\ l \in archive[path[t]]
  BY <1>2
<1> QED BY <1>2, <1>3 DEF Names

\* A written line leaves the files only in a flood, or by a rename whose name
\* another thread's localtime has changed.
THEOREM LinesAreKept == Spec => LinesStay
<1>1. LogInv /\ [Next]_vars =>
        [\A l \in Lines : Kept(l) /\ ~Kept(l)' =>
           flood \/ \E t \in Threads : pc[t] = "rename" /\ path[t] # stamp[t]]_vars
  BY LossStep
<1> QED BY <1>1, LogAlways, PTL DEF Spec, LinesStay
==============================================================================
