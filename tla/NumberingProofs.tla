--------------------------- MODULE NumberingProofs ---------------------------
(***************************************************************************)
(* Theorems about the numbers of the messages, for any number of workers,  *)
(* channels and requests: _msgcount and the table agree across crashes and *)
(* restarts, numbers only grow, and nothing but a clear removes a row.     *)
(***************************************************************************)
EXTENDS CometServerProofs

----------------------------------------------------------------------------
(* Rows stay *)

\* A worker that handles a request has accepted it.
AcceptedInv == \A t \in Workers : pc[t] # "idle" => conn[req[t]] # "idle"

LEMMA AcceptedInit == Init => AcceptedInv
BY DEF Init, AcceptedInv, Threads

\* No step makes a request unsent again.
LEMMA SentStays ==
  ASSUME TypeInv, [Next]_vars, NEW r \in Requests, conn[r] # "idle"
  PROVE  conn'[r] # "idle"
<1> USE DEF TypeInv, TypeOK
<1>a. conn \in [Requests -> ConnStates]
  BY DEF ClientType
<1>b. Die => conn'[r] # "idle"
  BY <1>a DEF Die
<1>1. ASSUME NEW t \in Workers, Accept(t) PROVE conn'[r] # "idle"
  BY <1>1, <1>a DEF Accept, Arrives, RejectMethod, DropUnparsed, SubNotFound, PoolNotFound, Begin
<1>2. ASSUME NEW t \in Workers, Lock(t) \/ Handle(t) PROVE conn'[r] # "idle"
  BY <1>2, <1>a, <1>b
  DEF Lock, Handle, PubPush, BroadcastCount, Insert, ClearDelete, ClearReset, NullChannel,
      SubAnswer, ServeFile, FileAllocFail, PoolJoin, PoolPark, PoolReply, DelErase, DelDone,
      BumpLoad, BumpStore, ReleaseUnheld, Unlock, SendOk, clientVars
<1>3. CASE Tick \/ TimerFire \/ TimerLock \/ Sweep
  BY <1>3, <1>a, <1>b
  DEF Tick, TimerFire, TimerLock, Sweep, Deliver, Delivered, Evict, Expire, Spare, NextChannel,
      TimerUnlock, TouchFreed, SendAndEnd, clientVars
<1>4. CASE Environment
  BY <1>4, <1>a, <1>b
  DEF Environment, Start, Crash, RaceCrash, DbToggle, Disconnect, clientVars
<1>5. CASE UNCHANGED vars
  BY <1>5 DEF vars, clientVars
<1> QED BY <1>1, <1>2, <1>3, <1>4, <1>5 DEF Next

\* A worker changes its request only when it accepts one or becomes idle.
LEMMA RequestKept ==
  ASSUME TypeInv, [Next]_vars, NEW t \in Workers, pc'[t] # "idle"
  PROVE  \/ pc[t] # "idle" /\ req'[t] = req[t]
         \/ req'[t] \in Requests /\ conn'[req'[t]] # "idle"
<1> USE ThreadsAssumption DEF TypeInv, TypeOK
<1>a. /\ pc \in [Threads -> WorkerPCs \cup TimerPCs] /\ req \in [Threads -> Requests \cup {NoReq}]
      /\ conn \in [Requests -> ConnStates] /\ t \in Threads /\ t # Timer
  BY DEF ControlType, ClientType, Threads
<1>b. ~Die
  BY <1>a DEF Die
<1>1. ASSUME NEW u \in Workers, Accept(u)
      PROVE  \/ pc[t] # "idle" /\ req'[t] = req[t]
             \/ req'[t] \in Requests /\ conn'[req'[t]] # "idle"
  <2>1. PICK r \in Requests : \/ RejectMethod(u, r) \/ DropUnparsed(u, r) \/ SubNotFound(u, r)
                              \/ PoolNotFound(u, r) \/ Begin(u, r)
    BY <1>1 DEF Accept
  <2>2. CASE RejectMethod(u, r) \/ DropUnparsed(u, r) \/ SubNotFound(u, r)
    BY <2>2 DEF RejectMethod, DropUnparsed, SubNotFound, threadVars
  <2>3. CASE PoolNotFound(u, r) \/ Begin(u, r)
    BY <1>a, <2>3 DEF PoolNotFound, Begin, Goto, Threads
  <2> QED BY <2>1, <2>2, <2>3
<1>2. ASSUME NEW u \in Workers, Lock(u) \/ Handle(u)
      PROVE  pc[t] # "idle" /\ req'[t] = req[t]
  BY <1>2, <1>a, <1>b
  DEF Lock, Handle, PubPush, BroadcastCount, Insert, ClearDelete, ClearReset, NullChannel,
      SubAnswer, ServeFile, FileAllocFail, PoolJoin, PoolPark, PoolReply, DelErase, DelDone,
      BumpLoad, BumpStore, ReleaseUnheld, Unlock, SendOk, Goto, threadVars, Threads
<1>3. CASE Tick \/ TimerFire \/ TimerLock \/ Sweep
  BY <1>3, <1>a, <1>b
  DEF Tick, TimerFire, TimerLock, Sweep, Deliver, Delivered, Evict, Expire, Spare, NextChannel,
      TimerUnlock, TouchFreed, Advance, threadVars
<1>4. CASE Environment
  BY <1>4, <1>b DEF Environment, Start, Crash, RaceCrash, DbToggle, Disconnect, threadVars
<1>5. CASE UNCHANGED vars
  BY <1>5 DEF vars, threadVars
<1> QED BY <1>1, <1>2, <1>3, <1>4, <1>5 DEF Next

LEMMA AcceptedStep == TypeInv /\ AcceptedInv /\ [Next]_vars => AcceptedInv'
<1> SUFFICES ASSUME TypeInv, AcceptedInv, [Next]_vars, NEW t \in Workers, pc'[t] # "idle"
             PROVE  conn'[req'[t]] # "idle"
  BY DEF AcceptedInv
<1>1. CASE pc[t] # "idle" /\ req'[t] = req[t]
  <2>1. req[t] \in Requests /\ conn[req[t]] # "idle"
    BY <1>1 DEF AcceptedInv, TypeInv, RequestInv, RequestInvOf
  <2> QED BY <1>1, <2>1, SentStays
<1> QED BY <1>1, RequestKept

\* The steps that change the table.
LEMMA TableSteps ==
  ASSUME [Next]_vars
  PROVE  \/ table' = table
         \/ \E t \in Workers : Insert(t) \/ ClearDelete(t)
<1>a. Die => table' = table
  BY DEF Die, dbVars
<1>1. ASSUME NEW t \in Workers, Accept(t) PROVE table' = table
  BY <1>1 DEF Accept, RejectMethod, DropUnparsed, SubNotFound, PoolNotFound, Begin, dbVars
<1>2. ASSUME NEW t \in Workers, Lock(t) \/ Handle(t), ~Insert(t), ~ClearDelete(t)
      PROVE  table' = table
  BY <1>2, <1>a
  DEF Lock, Handle, PubPush, BroadcastCount, ClearReset, NullChannel, SubAnswer, ServeFile,
      FileAllocFail, PoolJoin, PoolPark, PoolReply, DelErase, DelDone, BumpLoad, BumpStore,
      ReleaseUnheld, Unlock, SendOk, dbVars
<1>3. CASE Tick \/ TimerFire \/ TimerLock \/ Sweep
  BY <1>3, <1>a
  DEF Tick, TimerFire, TimerLock, Sweep, Deliver, Delivered, Evict, Expire, Spare, NextChannel,
      TimerUnlock, TouchFreed, dbVars
<1>4. CASE Environment
  BY <1>4, <1>a DEF Environment, Start, Crash, RaceCrash, DbToggle, Disconnect, dbVars
<1>5. CASE UNCHANGED vars
  BY <1>5 DEF vars, dbVars
<1> QED BY <1>1, <1>2, <1>3, <1>4, <1>5 DEF Next

\* Only a clear of its channel removes a row.
LEMMA RowsStep ==
  ASSUME TypeInv, AcceptedInv, [Next]_vars, NEW row \in table, row \notin table'
  PROVE  ClearSent(row.channel)
<1>1. PICK t \in Workers : Insert(t) \/ ClearDelete(t)
  BY TableSteps
<1>2. ClearDelete(t)
  BY <1>1 DEF Insert, InsertRow
<1>3. In(t).kind = "clear" /\ In(t).cid = row.channel
  BY <1>2 DEF ClearDelete, DeleteChannel
<1>4. req[t] \in Requests /\ conn[req[t]] # "idle"
  BY <1>2 DEF ClearDelete, AcceptedInv, TypeInv, RequestInv, RequestInvOf
<1> QED BY <1>3, <1>4 DEF ClearSent, In

\* Nothing but a clear of its channel removes or replaces a stored message,
\* whatever fails, dies or overlaps.
THEOREM RowsStay == Spec => RowsAreKept
<1>1. TypeInv /\ AcceptedInv /\ [Next]_vars
      => [\A row \in table : row \in table' \/ ClearSent(row.channel)]_vars
  BY RowsStep
<1> QED BY <1>1, TypeInit, TypeStep, AcceptedInit, AcceptedStep, PTL DEF Spec, RowsAreKept

----------------------------------------------------------------------------
(* The counters and the table *)

\* What the table holds of channel c while the process runs: the messages 1 to
\* _msgcount, but for a push that has counted and not yet inserted and a clear
\* that has deleted and not yet reset.
Numbered(c) ==
  /\ Quiet(c) => SeqsOf(table, c) = 1..count[c]
  /\ \A t \in Workers : pc[t] = "insert" /\ local[t] = c =>
       count[c] > 0 /\ SeqsOf(table, c) = 1..(count[c] - 1)
  /\ \A t \in Workers : pc[t] = "reset" /\ In(t).cid = c => SeqsOf(table, c) = {}

\* While it does not, the table holds the messages 1 to n for some n, which is
\* the counter the next start sets.
Resumable(c) == \E n \in Nat : SeqsOf(table, c) = 1..n

NumberingInv ==
  /\ dbUp
  /\ up => \A c \in Channel : Numbered(c)
  /\ ~up => (\A t \in Workers : pc[t] = "idle") /\ \A c \in Channel : Resumable(c)

LEMMA NumberingInit == Init => NumberingInv
<1> SUFFICES ASSUME Init PROVE NumberingInv
  OBVIOUS
<1>1. dbUp /\ ~up /\ \A t \in Workers : pc[t] = "idle"
  BY DEF Init, Threads
<1>2. ASSUME NEW c \in Channel PROVE Resumable(c)
  <2>1. SeqsOf(table, c) = {}
    BY DEF Init, SeqsOf
  <2>2. 1..0 = {}
    OBVIOUS
  <2> QED BY <2>1, <2>2 DEF Resumable
<1> QED BY <1>1, <1>2 DEF NumberingInv

\* Whatever point the process has reached, its table can be resumed from.
LEMMA AlwaysResumable ==
  ASSUME TypeInv, NumberingInv, NEW c \in Channel
  PROVE  Resumable(c)
<1>1. count[c] \in Nat
  BY DEF TypeInv, TypeOK, CounterType
<1>2. CASE ~up
  BY <1>2 DEF NumberingInv
<1>3. CASE up /\ Quiet(c)
  BY <1>1, <1>3 DEF NumberingInv, Numbered, Resumable
<1>4. CASE up /\ ~Quiet(c)
  <2>1. PICK t \in Workers : \/ pc[t] = "insert" /\ local[t] = c
                             \/ pc[t] = "reset" /\ In(t).cid = c
    BY <1>4 DEF Quiet
  <2>2. CASE pc[t] = "insert" /\ local[t] = c
    <3>1. count[c] > 0 /\ SeqsOf(table, c) = 1..(count[c] - 1)
      BY <1>4, <2>2 DEF NumberingInv, Numbered
    <3>2. count[c] - 1 \in Nat
      BY <1>1, <3>1
    <3> QED BY <3>1, <3>2 DEF Resumable
  <2>3. CASE pc[t] = "reset" /\ In(t).cid = c
    <3>1. SeqsOf(table, c) = {}
      BY <1>4, <2>3 DEF NumberingInv, Numbered
    <3>2. 1..0 = {}
      OBVIOUS
    <3> QED BY <3>1, <3>2 DEF Resumable
  <2> QED BY <2>1, <2>2, <2>3
<1> QED BY <1>2, <1>3, <1>4

LEMMA DieNumbering == TypeInv /\ NumberingInv /\ Die => NumberingInv'
<1> SUFFICES ASSUME TypeInv, NumberingInv, Die PROVE NumberingInv'
  OBVIOUS
<1>1. dbUp' = dbUp /\ table' = table /\ ~up' /\ \A t \in Workers : pc'[t] = "idle"
  BY DEF Die, dbVars, Threads
<1>2. \A c \in Channel : Resumable(c)'
  BY <1>1, AlwaysResumable DEF Resumable
<1> QED BY <1>1, <1>2 DEF NumberingInv

\* A step that neither counts nor writes, nor moves a thread to or from the
\* points in between.
LEMMA NumberingKept ==
  ASSUME NumberingInv, table' = table, dbUp' = dbUp, count' = count, up' = up,
         \A t \in Workers :
           /\ ~up => pc'[t] = "idle"
           /\ pc'[t] = "insert" <=> pc[t] = "insert"
           /\ pc'[t] = "reset" <=> pc[t] = "reset"
           /\ pc[t] = "insert" => local'[t] = local[t]
           /\ pc[t] = "reset" => In(t)' = In(t)
  PROVE  NumberingInv'
<1>1. ASSUME NEW c \in Channel PROVE (Numbered(c)' <=> Numbered(c)) /\ (Resumable(c)' <=> Resumable(c))
  BY DEF Numbered, Resumable, Quiet
<1> QED BY <1>1 DEF NumberingInv

\* The start sets the counter to the last number.
LEMMA StartNumbering ==
  ASSUME "db" \notin Faults, TypeInv, NumberingInv, Start
  PROVE  NumberingInv'
<1>1. dbUp /\ ~up /\ up' /\ dbUp' = dbUp /\ table' = table /\ pc' = pc
  BY DEF NumberingInv, Start, threadVars, dbVars
<1>2. \A t \in Workers : pc'[t] = "idle"
  BY <1>1 DEF NumberingInv
<1>3. ASSUME NEW c \in Channel PROVE Numbered(c)'
  <2>1. PICK n \in Nat : SeqsOf(table, c) = 1..n
    BY <1>1 DEF NumberingInv, Resumable
  <2>2. IsMaxSeq(table, c, count'[c])
    BY DEF Start, Resumes
  <2>3. count'[c] = n
    <3>1. CASE n = 0
      BY <2>1, <2>2, <3>1 DEF IsMaxSeq
    <3>2. CASE n > 0
      <4>1. n \in 1..n /\ 1..n # {}
        BY <3>2
      <4>2. count'[c] \in 1..n /\ \A m \in 1..n : m <= count'[c]
        BY <2>1, <2>2, <4>1 DEF IsMaxSeq
      <4> QED BY <4>1, <4>2
    <3> QED BY <3>1, <3>2
  <2> QED BY <1>1, <1>2, <2>1, <2>3 DEF Numbered
<1> QED BY <1>1, <1>3 DEF NumberingInv

\* A worker in its section is alone between a count and a row.
LEMMA WorkerAlone ==
  ASSUME LockInv, NEW t \in Workers, InSection(t), NEW u \in Workers, u # t
  PROVE  pc[u] \notin {"insert", "reset"}
BY DEF LockInv, LockInvOf, InSection, WorkerSection, Threads

\* A push, or a broadcast in its next channel, counts the message.
LEMMA CountNumbering ==
  ASSUME TypeInv, LockInv, NumberingInv, NEW t \in Workers, NEW c \in Channel, pc[t] = "run",
         count' = [count EXCEPT ![c] = @ + 1], pc' = [pc EXCEPT ![t] = "insert"],
         local'[t] = c, req' = req, input' = input,
         table' = table, dbUp' = dbUp, up' = up
  PROVE  NumberingInv'
<1>1. up
  BY DEF NumberingInv
<1>2. InSection(t)
  BY DEF InSection, WorkerSection
<1>3. pc \in [Threads -> WorkerPCs \cup TimerPCs] /\ count \in [Channel -> Nat]
  BY DEF TypeInv, TypeOK, ControlType, CounterType
<1>4. \A u \in Workers : pc[u] \notin {"insert", "reset"}
  BY <1>2, WorkerAlone
<1>5. \A d \in Channel : SeqsOf(table, d) = 1..count[d]
  BY <1>1, <1>4 DEF NumberingInv, Numbered, Quiet
<1>6. \A u \in Workers : pc'[u] # "reset" /\ (pc'[u] = "insert" <=> u = t)
  BY <1>3, <1>4 DEF Threads
<1>7. ASSUME NEW d \in Channel PROVE Numbered(d)'
  <2>1. CASE d = c
    <3>1. count'[c] = count[c] + 1 /\ count[c] \in Nat
      BY <1>3
    <3>2. ~Quiet(c)'
      BY <1>6 DEF Quiet
    <3>3. count'[c] > 0 /\ count'[c] - 1 = count[c]
      BY <3>1
    <3> QED BY <1>5, <1>6, <2>1, <3>2, <3>3 DEF Numbered
  <2>2. CASE d # c
    <3>1. count'[d] = count[d]
      BY <1>3, <2>2
    <3> QED BY <1>5, <1>6, <2>2, <3>1 DEF Numbered
  <2> QED BY <2>1, <2>2
<1> QED BY <1>1, <1>7 DEF NumberingInv

\* A row adds its number to its channel, and to no other.
LEMMA SeqsOfAdded ==
  ASSUME NEW S, NEW c, NEW n, NEW x
  PROVE  SeqsOf(S \cup {Row(c, n, x)}, c) = SeqsOf(S, c) \cup {n}
<1> DEFINE rows == S \cup {Row(c, n, x)}
<1>1. Row(c, n, x).channel = c /\ Row(c, n, x).seq = n
  BY DEF Row
<1>2. {r \in rows : r.channel = c} = {r \in S : r.channel = c} \cup {Row(c, n, x)}
  BY <1>1
<1> QED BY <1>1, <1>2 DEF SeqsOf

LEMMA SeqsOfOthers ==
  ASSUME NEW S, NEW c, NEW n, NEW x, NEW d, d # c
  PROVE  SeqsOf(S \cup {Row(c, n, x)}, d) = SeqsOf(S, d)
<1> DEFINE rows == S \cup {Row(c, n, x)}
<1>1. Row(c, n, x).channel = c
  BY DEF Row
<1>2. {r \in rows : r.channel = d} = {r \in S : r.channel = d}
  BY <1>1
<1> QED BY <1>2 DEF SeqsOf

\* The row is written, with the number after the last one.
LEMMA InsertNumbering ==
  ASSUME TypeInv, LockInv, NumberingInv, NEW t \in Workers, Insert(t)
  PROVE  /\ NumberingInv'
         /\ \A row \in table' \ table : \A n \in SeqsOf(table, row.channel) : n < row.seq
<1> DEFINE c == local[t]
           x == In(t).content
<1>1. up /\ dbUp /\ pc[t] = "insert" /\ c \in Channel
  BY DEF Insert, NumberingInv, TypeInv, RequestInv, RequestInvOf
<1>2. pc \in [Threads -> WorkerPCs \cup TimerPCs] /\ count \in [Channel -> Nat]
  BY DEF TypeInv, TypeOK, ControlType, CounterType
<1>3. InSection(t)
  BY <1>1 DEF InSection, WorkerSection
<1>4. \A u \in Workers : u # t => pc[u] \notin {"insert", "reset"}
  BY <1>3, WorkerAlone
<1>5. count[c] \in Nat /\ count[c] > 0 /\ SeqsOf(table, c) = 1..(count[c] - 1)
  BY <1>1, <1>2 DEF NumberingInv, Numbered
<1>6. count[c] \notin 1..(count[c] - 1) /\ \A n \in 1..(count[c] - 1) : n < count[c]
  BY <1>5
<1>7. table' = table \cup {Row(c, count[c], x)}
  BY <1>1, <1>5, <1>6 DEF Insert, InsertRow
<1>8. /\ up' = up /\ dbUp' = dbUp /\ count' = count
      /\ pc' = [pc EXCEPT ![t] = "run"] \/ pc' = [pc EXCEPT ![t] = "unlock"]
  BY DEF Insert, Goto, serverVars
<1>9. \A u \in Workers : pc'[u] \notin {"insert", "reset"}
  BY <1>2, <1>4, <1>8 DEF Threads
<1>10. ASSUME NEW d \in Channel PROVE SeqsOf(table', d) = 1..count[d]
  <2>1. CASE d = c
    <3>1. SeqsOf(table', c) = SeqsOf(table, c) \cup {count[c]}
      BY <1>7, SeqsOfAdded
    <3>2. 1..(count[c] - 1) \cup {count[c]} = 1..count[c]
      BY <1>5
    <3> QED BY <1>5, <2>1, <3>1, <3>2
  <2>2. CASE d # c
    <3>1. SeqsOf(table', d) = SeqsOf(table, d)
      BY <1>7, <2>2, SeqsOfOthers
    <3>2. Quiet(d)
      BY <1>4, <1>1, <2>2 DEF Quiet
    <3> QED BY <1>1, <3>1, <3>2 DEF NumberingInv, Numbered
  <2> QED BY <2>1, <2>2
<1>11. NumberingInv'
  BY <1>1, <1>8, <1>9, <1>10 DEF NumberingInv, Numbered
<1>12. ASSUME NEW row \in table' \ table, NEW n \in SeqsOf(table, row.channel) PROVE n < row.seq
  <2>1. row.channel = c /\ row.seq = count[c]
    BY <1>7 DEF Row
  <2> QED BY <1>5, <1>6, <2>1
<1> QED BY <1>11, <1>12

\* A clear deletes the rows of its channel.
LEMMA DeleteNumbering ==
  ASSUME TypeInv, LockInv, NumberingInv, NEW t \in Workers, ClearDelete(t)
  PROVE  NumberingInv' /\ table' \subseteq table
<1>1. up /\ dbUp /\ pc[t] = "run"
  BY DEF ClearDelete, NumberingInv
<1>2. pc \in [Threads -> WorkerPCs \cup TimerPCs]
  BY DEF TypeInv, TypeOK, ControlType
<1>3. InSection(t)
  BY <1>1 DEF InSection, WorkerSection
<1>4. \A u \in Workers : pc[u] \notin {"insert", "reset"}
  BY <1>1, <1>3, WorkerAlone
<1>5. \A d \in Channel : SeqsOf(table, d) = 1..count[d]
  BY <1>1, <1>4 DEF NumberingInv, Numbered, Quiet
<1>6. table' = {row \in table : row.channel # In(t).cid}
  BY <1>1 DEF ClearDelete, DeleteChannel
<1>7. /\ up' = up /\ dbUp' = dbUp /\ count' = count /\ req' = req /\ input' = input
      /\ pc' = [pc EXCEPT ![t] = "reset"]
  BY DEF ClearDelete, Goto, serverVars
<1>8. \A u \in Workers : pc'[u] # "insert" /\ (pc'[u] = "reset" <=> u = t)
  BY <1>2, <1>4, <1>7 DEF Threads
<1>9. In(t)' = In(t)
  BY <1>7 DEF In
<1>10. ASSUME NEW d \in Channel PROVE Numbered(d)'
  <2>1. CASE d = In(t).cid
    <3>1. SeqsOf(table', d) = {}
      BY <1>6, <2>1 DEF SeqsOf
    <3>2. ~Quiet(d)'
      BY <1>8, <1>9, <2>1 DEF Quiet
    <3> QED BY <1>8, <3>1, <3>2 DEF Numbered
  <2>2. CASE d # In(t).cid
    <3>1. SeqsOf(table', d) = SeqsOf(table, d)
      BY <1>6, <2>2 DEF SeqsOf
    <3> QED BY <1>5, <1>7, <1>8, <1>9, <2>2, <3>1 DEF Numbered
  <2> QED BY <2>1, <2>2
<1> QED BY <1>1, <1>6, <1>7, <1>10 DEF NumberingInv

\* Then it resets the counter.
LEMMA ResetNumbering ==
  ASSUME TypeInv, LockInv, NumberingInv, NEW t \in Workers, ClearReset(t)
  PROVE  NumberingInv'
<1> DEFINE c == In(t).cid
<1>1. up /\ dbUp /\ pc[t] = "reset" /\ c \in Channel
  BY DEF ClearReset, NumberingInv
<1>2. pc \in [Threads -> WorkerPCs \cup TimerPCs] /\ count \in [Channel -> Nat]
  BY DEF TypeInv, TypeOK, ControlType, CounterType
<1>3. InSection(t)
  BY <1>1 DEF InSection, WorkerSection
<1>4. \A u \in Workers : u # t => pc[u] \notin {"insert", "reset"}
  BY <1>3, WorkerAlone
<1>5. /\ up' = up /\ dbUp' = dbUp /\ table' = table
      /\ count' = [count EXCEPT ![c] = 0] /\ pc' = [pc EXCEPT ![t] = "unlock"]
  BY DEF ClearReset, Goto, dbVars
<1>6. \A u \in Workers : pc'[u] \notin {"insert", "reset"}
  BY <1>2, <1>4, <1>5 DEF Threads
<1>7. ASSUME NEW d \in Channel PROVE SeqsOf(table, d) = 1..count'[d]
  <2>1. CASE d = c
    <3>1. SeqsOf(table, c) = {}
      BY <1>1 DEF NumberingInv, Numbered
    <3>2. count'[c] = 0
      BY <1>1, <1>2, <1>5
    <3>3. 1..0 = {}
      OBVIOUS
    <3> QED BY <2>1, <3>1, <3>2, <3>3
  <2>2. CASE d # c
    <3>1. Quiet(d)
      BY <1>1, <1>4, <2>2 DEF Quiet
    <3>2. count'[d] = count[d]
      BY <1>2, <1>5, <2>2
    <3> QED BY <1>1, <3>1, <3>2 DEF NumberingInv, Numbered
  <2> QED BY <2>1, <2>2
<1> QED BY <1>1, <1>5, <1>6, <1>7 DEF NumberingInv, Numbered

\* The other steps of a worker.
LEMMA WorkerNumbering ==
  ASSUME TypeInv, LockInv, NumberingInv, NEW t \in Workers, Accept(t) \/ Lock(t) \/ Handle(t)
  PROVE  NumberingInv'
<1>a. pc \in [Threads -> WorkerPCs \cup TimerPCs] /\ t \in Threads /\ RequestInvOf(t)
  BY DEF TypeInv, TypeOK, ControlType, RequestInv, Threads
<1>b. req \in [Threads -> Requests \cup {NoReq}] /\ local \in [Threads -> Nat]
  BY DEF TypeInv, TypeOK, ControlType
<1>1. CASE Accept(t)
  <2>1. PICK r \in Requests : \/ RejectMethod(t, r) \/ DropUnparsed(t, r) \/ SubNotFound(t, r)
                              \/ PoolNotFound(t, r) \/ Begin(t, r)
    BY <1>1 DEF Accept
  <2>2. up /\ pc[t] = "idle"
    BY <2>1 DEF RejectMethod, DropUnparsed, SubNotFound, PoolNotFound, Begin, Arrives
  <2>3. /\ table' = table /\ dbUp' = dbUp /\ count' = count /\ up' = up
        /\ local' = local /\ input' = input
    BY <2>1 DEF RejectMethod, DropUnparsed, SubNotFound, PoolNotFound, Begin, serverVars,
                threadVars, dbVars
  <2>4. /\ pc' = pc \/ pc' = [pc EXCEPT ![t] = "load"] \/ pc' = [pc EXCEPT ![t] = "lock"]
        /\ \A u \in Workers \ {t} : req'[u] = req[u]
    BY <1>b, <2>1 DEF RejectMethod, DropUnparsed, SubNotFound, PoolNotFound, Begin, Goto,
                      threadVars, Threads
  <2>5. \A u \in Workers : /\ pc'[u] = "insert" <=> pc[u] = "insert"
                           /\ pc'[u] = "reset" <=> pc[u] = "reset"
                           /\ pc[u] = "reset" => In(u)' = In(u)
    BY <1>a, <2>2, <2>3, <2>4 DEF Threads, In
  <2> QED BY <2>2, <2>3, <2>5, NumberingKept
<1>2. CASE PubPush(t)
  <2>1. pc[t] = "run" /\ local'[t] = In(t).cid /\ In(t).cid \in Channel
    BY <1>a, <1>b, <1>2 DEF PubPush
  <2> QED BY <1>2, <2>1, CountNumbering DEF PubPush, Goto, dbVars
<1>3. CASE BroadcastCount(t)
  <2>1. pc[t] = "run" /\ local' = local /\ local[t] \in Channel
    BY <1>a, <1>3 DEF BroadcastCount, RequestInvOf
  <2> QED BY <1>3, <2>1, CountNumbering DEF BroadcastCount, Goto, dbVars
<1>4. CASE Insert(t) \/ ClearDelete(t) \/ ClearReset(t) \/ NullChannel(t)
  BY <1>4, InsertNumbering, DeleteNumbering, ResetNumbering, DieNumbering DEF NullChannel
<1>5. CASE \/ Lock(t) \/ SubAnswer(t) \/ ServeFile(t) \/ FileAllocFail(t) \/ PoolJoin(t)
           \/ PoolPark(t) \/ PoolReply(t) \/ DelErase(t) \/ DelDone(t) \/ BumpLoad(t)
           \/ BumpStore(t) \/ ReleaseUnheld(t) \/ Unlock(t) \/ SendOk(t)
  <2>1. pc[t] \notin {"idle", "insert", "reset"}
    BY <1>5 DEF Lock, SubAnswer, ServeFile, FileAllocFail, PoolJoin, PoolPark, PoolReply,
                DelErase, DelDone, BumpLoad, BumpStore, ReleaseUnheld, Unlock, SendOk
  <2>2. up
    BY <2>1 DEF NumberingInv
  <2>3. table' = table /\ dbUp' = dbUp /\ count' = count /\ up' = up /\ input' = input
    BY <1>5 DEF Lock, SubAnswer, ServeFile, FileAllocFail, PoolJoin, PoolPark, PoolReply,
                DelErase, DelDone, BumpLoad, BumpStore, ReleaseUnheld, Unlock, SendOk, serverVars, dbVars
  <2>4. pc'[t] \notin {"insert", "reset"}
    BY <1>a, <2>1, <1>5
    DEF Lock, SubAnswer, ServeFile, FileAllocFail, PoolJoin, PoolPark, PoolReply,
        DelErase, DelDone, BumpLoad, BumpStore, ReleaseUnheld, Unlock, SendOk, Goto, threadVars
  <2>5. \A u \in Workers \ {t} : pc'[u] = pc[u] /\ req'[u] = req[u] /\ local'[u] = local[u]
    BY <1>a, <1>b, <1>5
    DEF Lock, SubAnswer, ServeFile, FileAllocFail, PoolJoin, PoolPark, PoolReply,
        DelErase, DelDone, BumpLoad, BumpStore, ReleaseUnheld, Unlock, SendOk, Goto, threadVars, Threads
  <2> QED BY <2>1, <2>2, <2>3, <2>4, <2>5, NumberingKept DEF In
<1> QED BY <1>1, <1>2, <1>3, <1>4, <1>5 DEF Handle

\* NumberingInv is inductive, next to TypeInv and LockInv, while the database
\* answers.
LEMMA NumberingStep ==
  ASSUME "db" \notin Faults
  PROVE  TypeInv /\ LockInv /\ NumberingInv /\ [Next]_vars => NumberingInv'
<1> SUFFICES ASSUME TypeInv, LockInv, NumberingInv, [Next]_vars PROVE NumberingInv'
  OBVIOUS
<1>a. pc \in [Threads -> WorkerPCs \cup TimerPCs] /\ Timer \notin Workers
  BY ThreadsAssumption DEF TypeInv, TypeOK, ControlType
<1>b. ~up => \A t \in Workers : pc[t] = "idle"
  BY DEF NumberingInv
<1>1. ASSUME NEW t \in Workers, Accept(t) \/ Lock(t) \/ Handle(t) PROVE NumberingInv'
  BY <1>1, WorkerNumbering
<1>2. CASE \/ Tick \/ TimerFire \/ TimerLock \/ Deliver \/ Delivered \/ Evict \/ Expire \/ Spare
           \/ NextChannel \/ TimerUnlock
  <2>1. /\ table' = table /\ dbUp' = dbUp /\ count' = count /\ up' = up
        /\ req' = req /\ local' = local /\ input' = input
    BY <1>2 DEF Tick, TimerFire, TimerLock, Deliver, Delivered, Evict, Expire, Spare, NextChannel,
                TimerUnlock, serverVars, threadVars, dbVars
  <2>2. \A t \in Workers : pc'[t] = pc[t]
    BY <1>a, <1>2 DEF Tick, TimerFire, TimerLock, Deliver, Delivered, Evict, Expire, Spare,
                      NextChannel, TimerUnlock, Advance, threadVars, Threads
  <2> QED BY <1>b, <2>1, <2>2, NumberingKept DEF In
<1>3. CASE TouchFreed \/ Crash \/ RaceCrash
  BY <1>3, DieNumbering DEF TouchFreed, Crash, RaceCrash
<1>4. CASE \/ \E r \in Requests : Disconnect(r)
           \/ UNCHANGED vars
  <2>1. /\ table' = table /\ dbUp' = dbUp /\ count' = count /\ up' = up
        /\ pc' = pc /\ req' = req /\ local' = local /\ input' = input
    BY <1>4 DEF Disconnect, vars, serverVars, threadVars, dbVars
  <2> QED BY <1>b, <2>1, NumberingKept DEF In
<1>5. CASE Start
  BY <1>5, StartNumbering
<1>6. ~DbToggle
  BY DEF DbToggle
<1> QED BY <1>1, <1>2, <1>3, <1>4, <1>5, <1>6 DEF Next, Sweep, Environment

\* The counters and the table agree over any number of crashes and restarts,
\* for any number of workers and channels, if the database always answers and
\* pool requests are well formed: the messages of a channel are numbered 1 to
\* _msgcount.
THEOREM NumberingHolds ==
  ASSUME WellFormedPools, "db" \notin Faults
  PROVE  Spec => []CounterMatchesTable
<1>1. NumberingInv => CounterMatchesTable
  BY DEF NumberingInv, Numbered, CounterMatchesTable
<1> QED
  BY <1>1, TypeInit, TypeStep, LockInit, LockStep, NumberingInit, NumberingStep, PTL DEF Spec

\* Under the same assumptions a message is numbered above all that its channel
\* holds when it is stored.
THEOREM NumbersGrow ==
  ASSUME WellFormedPools, "db" \notin Faults
  PROVE  Spec => SeqGrows
<1>1. ASSUME TypeInv, LockInv, NumberingInv, [Next]_vars
      PROVE  \A row \in table' \ table : \A n \in SeqsOf(table, row.channel) : n < row.seq
  <2>1. CASE table' = table
    BY <2>1
  <2>2. CASE \E t \in Workers : Insert(t) \/ ClearDelete(t)
    BY <1>1, <2>2, InsertNumbering, DeleteNumbering
  <2> QED BY <1>1, <2>1, <2>2, TableSteps
<1>2. TypeInv /\ LockInv /\ NumberingInv /\ [Next]_vars
      => [\A row \in table' \ table : \A n \in SeqsOf(table, row.channel) : n < row.seq]_vars
  BY <1>1
<1> QED
  BY <1>2, TypeInit, TypeStep, LockInit, LockStep, NumberingInit, NumberingStep, PTL
  DEF Spec, SeqGrows
=============================================================================
