--------------------------- MODULE StorageProofs ---------------------------
(***************************************************************************)
(* Theorems about what the queues, the table and the clients hold, for any *)
(* number of workers, channels and requests: what is queued is stored,     *)
(* what is acknowledged is stored, no wakeup is lost, messages go before   *)
(* timeouts, and nobody receives what was not published to its channel.    *)
(***************************************************************************)
EXTENDS WaitingProofs

----------------------------------------------------------------------------
(* Steps *)

\* A worker moves by its own steps or when the process ends.
LEMMA OwnSteps ==
  ASSUME TypeInv, [Next]_vars, NEW t \in Workers
  PROVE  \/ Accept(t) \/ Lock(t) \/ Handle(t)
         \/ Die
         \/ pc'[t] = pc[t] /\ req'[t] = req[t] /\ local'[t] = local[t]
<1>a. /\ pc \in [Threads -> WorkerPCs \cup TimerPCs] /\ req \in [Threads -> Requests \cup {NoReq}]
      /\ local \in [Threads -> Nat] /\ Timer \notin Workers /\ Workers \subseteq Threads
  BY ThreadsAssumption DEF TypeInv, TypeOK, ControlType, Threads
<1>1. ASSUME NEW u \in Workers, u # t, Accept(u)
      PROVE  pc'[t] = pc[t] /\ req'[t] = req[t] /\ local'[t] = local[t]
  BY <1>a, <1>1
  DEF Accept, RejectMethod, DropUnparsed, SubNotFound, PoolNotFound, Begin, Goto, threadVars
<1>2. ASSUME NEW u \in Workers, u # t, Lock(u) \/ Handle(u), ~Die
      PROVE  pc'[t] = pc[t] /\ req'[t] = req[t] /\ local'[t] = local[t]
  BY <1>a, <1>2
  DEF Lock, Handle, PubPush, BroadcastCount, Insert, ClearDelete, ClearReset, NullChannel,
      SubAnswer, ServeFile, FileAllocFail, PoolJoin, PoolPark, PoolReply, DelErase, DelDone,
      BumpLoad, BumpStore, ReleaseUnheld, Unlock, SendOk, Goto, threadVars
<1>3. ASSUME Tick \/ TimerFire \/ TimerLock \/ Sweep, ~Die
      PROVE  pc'[t] = pc[t] /\ req'[t] = req[t] /\ local'[t] = local[t]
  BY <1>a, <1>3
  DEF Tick, TimerFire, TimerLock, Sweep, Deliver, Delivered, Evict, Expire, Spare, NextChannel,
      TimerUnlock, TouchFreed, Advance, threadVars
<1>4. ASSUME Environment \/ UNCHANGED vars, ~Die
      PROVE  pc'[t] = pc[t] /\ req'[t] = req[t] /\ local'[t] = local[t]
  BY <1>4 DEF Environment, Start, Crash, RaceCrash, DbToggle, Disconnect, vars, threadVars
<1> QED BY <1>1, <1>2, <1>3, <1>4 DEF Next

\* The steps that change a queue.
LEMMA QueueSteps ==
  ASSUME [Next]_vars
  PROVE  msg' = msg \/ (\E t \in Workers : PubPush(t)) \/ Die
<1>1. ASSUME NEW t \in Workers, Accept(t) PROVE msg' = msg
  BY <1>1 DEF Accept, RejectMethod, DropUnparsed, SubNotFound, PoolNotFound, Begin, serverVars
<1>2. ASSUME NEW t \in Workers, Lock(t) \/ Handle(t), ~PubPush(t), ~Die PROVE msg' = msg
  BY <1>2
  DEF Lock, Handle, BroadcastCount, Insert, ClearDelete, ClearReset, NullChannel, SubAnswer,
      ServeFile, FileAllocFail, PoolJoin, PoolPark, PoolReply, DelErase, DelDone, BumpLoad,
      BumpStore, ReleaseUnheld, Unlock, SendOk, serverVars
<1>3. ASSUME Tick \/ TimerFire \/ TimerLock \/ Sweep, ~Die PROVE msg' = msg
  BY <1>3
  DEF Tick, TimerFire, TimerLock, Sweep, Deliver, Delivered, Evict, Expire, Spare, NextChannel,
      TimerUnlock, TouchFreed, serverVars
<1>4. ASSUME Environment \/ UNCHANGED vars, ~Die PROVE msg' = msg
  BY <1>4 DEF Environment, Start, Crash, RaceCrash, DbToggle, Disconnect, vars, serverVars
<1> QED BY <1>1, <1>2, <1>3, <1>4 DEF Next

\* The steps that send something to a client.
LEMMA GotSteps ==
  ASSUME [Next]_vars
  PROVE  \/ got' = got
         \/ \E t \in Workers : SubAnswer(t) \/ PoolPark(t) \/ PoolReply(t)
         \/ Deliver \/ Evict \/ Expire
<1>1. ASSUME NEW t \in Workers, Accept(t) PROVE got' = got
  BY <1>1 DEF Accept, RejectMethod, DropUnparsed, SubNotFound, PoolNotFound, Begin, clientVars
<1>2. ASSUME NEW t \in Workers, Lock(t) \/ Handle(t), ~(SubAnswer(t) \/ PoolPark(t) \/ PoolReply(t))
      PROVE  got' = got
  BY <1>2
  DEF Lock, Handle, PubPush, BroadcastCount, Insert, ClearDelete, ClearReset, NullChannel,
      ServeFile, FileAllocFail, PoolJoin, DelErase, DelDone, BumpLoad, BumpStore, ReleaseUnheld,
      Unlock, SendOk, Die, clientVars
<1>3. ASSUME Tick \/ TimerFire \/ TimerLock \/ Sweep, ~(Deliver \/ Evict \/ Expire) PROVE got' = got
  BY <1>3
  DEF Tick, TimerFire, TimerLock, Sweep, Delivered, Spare, NextChannel, TimerUnlock, TouchFreed,
      Die, clientVars
<1>4. ASSUME Environment \/ UNCHANGED vars PROVE got' = got
  BY <1>4 DEF Environment, Start, Crash, RaceCrash, DbToggle, Disconnect, Die, vars, clientVars
<1> QED BY <1>1, <1>2, <1>3, <1>4 DEF Next

\* What moves the timer and its sweep.
LEMMA TimerSteps ==
  ASSUME TypeInv, [Next]_vars
  PROVE  \/ TimerFire \/ TimerLock \/ Sweep \/ Die
         \/ pc'[Timer] = pc[Timer] /\ pos' = pos /\ nth' = nth /\ buf' = buf
<1>a. /\ pc \in [Threads -> WorkerPCs \cup TimerPCs] /\ Timer \notin Workers /\ Timer \in Threads
  BY ThreadsAssumption DEF TypeInv, TypeOK, ControlType, Threads
<1>1. ASSUME NEW t \in Workers, Accept(t)
      PROVE  pc'[Timer] = pc[Timer] /\ sweepVars' = sweepVars
  BY <1>a, <1>1
  DEF Accept, RejectMethod, DropUnparsed, SubNotFound, PoolNotFound, Begin, Goto, threadVars
<1>2. ASSUME NEW t \in Workers, Lock(t) \/ Handle(t), ~Die
      PROVE  pc'[Timer] = pc[Timer] /\ sweepVars' = sweepVars
  BY <1>a, <1>2
  DEF Lock, Handle, PubPush, BroadcastCount, Insert, ClearDelete, ClearReset, NullChannel,
      SubAnswer, ServeFile, FileAllocFail, PoolJoin, PoolPark, PoolReply, DelErase, DelDone,
      BumpLoad, BumpStore, ReleaseUnheld, Unlock, SendOk, Goto, threadVars
<1>3. ASSUME Tick PROVE pc'[Timer] = pc[Timer] /\ sweepVars' = sweepVars
  BY <1>3 DEF Tick, threadVars
<1>4. ASSUME Environment \/ UNCHANGED vars, ~Die
      PROVE  pc'[Timer] = pc[Timer] /\ sweepVars' = sweepVars
  BY <1>4 DEF Environment, Start, Crash, RaceCrash, DbToggle, Disconnect, vars, threadVars
<1> QED BY <1>1, <1>2, <1>3, <1>4 DEF Next, sweepVars

\* A clear that was sent stays sent.
LEMMA ClearStays ==
  ASSUME TypeInv, [Next]_vars, NEW c, ClearSent(c)
  PROVE  ClearSent(c)'
BY SentStays, InputKept DEF ClearSent

\* What is stored stays, but for a clear.
LEMMA StoredStays ==
  ASSUME TypeInv, AcceptedInv, [Next]_vars, NEW c, NEW x \in Stored(c)
  PROVE  x \in Stored(c)' \/ ClearSent(c)
BY RowsStep DEF Stored

\* An insert while the database answers adds the row with the number it
\* counted, which is one more than the last.
LEMMA InsertAdds ==
  ASSUME TypeInv, LockInv, NumberingInv, NEW t \in Workers, Insert(t)
  PROVE  /\ local[t] \in Channel /\ up
         /\ table' = table \cup {Row(local[t], count[local[t]], In(t).content)}
         /\ count[local[t]] \in Nat \ {0}
         /\ SeqsOf(table, local[t]) = 1..(count[local[t]] - 1)
<1> DEFINE c == local[t]
<1>1. up /\ dbUp /\ pc[t] = "insert" /\ c \in Channel
  BY DEF Insert, NumberingInv, TypeInv, RequestInv, RequestInvOf
<1>2. count \in [Channel -> Nat]
  BY DEF TypeInv, TypeOK, CounterType
<1>3. count[c] \in Nat /\ count[c] > 0 /\ SeqsOf(table, c) = 1..(count[c] - 1)
  BY <1>1, <1>2 DEF NumberingInv, Numbered
<1>4. count[c] \notin 1..(count[c] - 1)
  BY <1>3
<1>5. table' = table \cup {Row(c, count[c], In(t).content)}
  BY <1>1, <1>3, <1>4 DEF Insert, InsertRow
<1> QED BY <1>1, <1>3, <1>5

LEMMA AddedIsStored ==
  ASSUME NEW c, NEW n, NEW x, Row(c, n, x) \in table'
  PROVE  x \in Stored(c)'
<1>1. Row(c, n, x).channel = c /\ Row(c, n, x).content = x
  BY DEF Row
<1> QED BY <1>1 DEF Stored

----------------------------------------------------------------------------
(* The queues *)

\* What is queued is stored, or is about to be by the worker that queued it,
\* or a clear of the channel was asked for.
QueueInv ==
  \A c \in Channel : \/ ClearSent(c)
                     \/ \A x \in msg[c] : \/ x \in Stored(c)
                                          \/ \E t \in Workers : /\ pc[t] = "insert" /\ local[t] = c
                                                                /\ In(t).content = x

LEMMA QueueStep ==
  ASSUME TypeInv, LockInv, AcceptedInv, NumberingInv, QueueInv, [Next]_vars
  PROVE  QueueInv'
<1>a. /\ pc \in [Threads -> WorkerPCs \cup TimerPCs] /\ local \in [Threads -> Nat]
      /\ Workers \subseteq Threads /\ msg \in [Channel -> SUBSET Contents]
  BY DEF TypeInv, TypeOK, ControlType, QueueType, Threads
<1> SUFFICES ASSUME NEW c \in Channel, ~ClearSent(c)', NEW x \in msg'[c]
             PROVE  \/ x \in Stored(c)'
                    \/ \E t \in Workers : pc'[t] = "insert" /\ local'[t] = c /\ In(t)'.content = x
  BY DEF QueueInv
<1>1. ~ClearSent(c)
  BY ClearStays
<1>2. ~Die
  BY DEF Die
<1>3. CASE x \in Stored(c)
  BY <1>1, <1>3, StoredStays
<1>4. ASSUME NEW t \in Workers, pc[t] = "insert", local[t] = c, In(t).content = x
      PROVE  x \in Stored(c)' \/ (pc'[t] = "insert" /\ local'[t] = c /\ In(t)'.content = x)
  <2>1. CASE Insert(t)
    <3>1. table' = table \cup {Row(c, count[c], x)}
      BY <1>4, <2>1, InsertAdds
    <3> QED BY <3>1, AddedIsStored
  <2>2. CASE ~Insert(t)
    <3>1. ~(Accept(t) \/ Lock(t) \/ Handle(t))
      BY <1>2, <1>4, <2>2
      DEF Accept, Arrives, RejectMethod, DropUnparsed, SubNotFound, PoolNotFound, Begin, Lock,
          Handle, PubPush, BroadcastCount, ClearDelete, ClearReset, NullChannel, SubAnswer,
          ServeFile, FileAllocFail, PoolJoin, PoolPark, PoolReply, DelErase, DelDone, BumpLoad,
          BumpStore, ReleaseUnheld, Unlock, SendOk
    <3>2. pc'[t] = pc[t] /\ req'[t] = req[t] /\ local'[t] = local[t]
      BY <1>2, <3>1, OwnSteps
    <3> QED BY <1>4, <3>2, InputKept DEF In
  <2> QED BY <2>1, <2>2
<1>5. CASE x \notin msg[c]
  <2>1. PICK t \in Workers : PubPush(t)
    BY <1>2, <1>5, QueueSteps
  <2>2. In(t).cid = c /\ In(t).content = x
    BY <1>a, <1>5, <2>1 DEF PubPush
  <2>3. pc'[t] = "insert" /\ local'[t] = c /\ req' = req /\ input' = input
    BY <1>a, <2>1, <2>2 DEF PubPush, Goto
  <2> QED BY <2>2, <2>3 DEF In
<1> QED BY <1>1, <1>3, <1>4, <1>5 DEF QueueInv

\* Under the mutex nobody is between a push and its row.
LEMMA QueueHolds == LockInv /\ QueueInv => QueueIsStored
<1> SUFFICES ASSUME LockInv, QueueInv, mutex = Free, NEW c \in Channel
             PROVE  msg[c] \subseteq Stored(c) \/ ClearSent(c)
  BY DEF QueueIsStored
<1>1. \A t \in Workers : pc[t] # "insert"
  BY ThreadsAssumption DEF LockInv, LockInvOf, InSection, WorkerSection, Threads
<1> QED BY <1>1 DEF QueueInv

----------------------------------------------------------------------------
(* Acknowledgements *)

Published(p, c) == input[p].content \in Stored(c) \/ ClearSent(c)

\* The message of an answered request is stored in all its channels; so is that
\* of a worker about to answer, and that of a broadcast in the channels below
\* the one it has reached.
AckInv ==
  /\ \A p \in Requests : conn[p] = "ended" => \A c \in Targets(p) : Published(p, c)
  /\ \A t \in Workers :
       /\ pc[t] \in {"unlock", "ok"} => \A c \in Targets(req[t]) : Published(req[t], c)
       /\ pc[t] \in {"run", "insert"} /\ In(t).kind = "broadcast"
            => \A c \in Channel : c < local[t] => Published(req[t], c)

\* The same after a step.
PublishedNext(p, c) == input[p].content \in Stored(c)' \/ ClearSent(c)'

LEMMA PublishedStays ==
  ASSUME TypeInv, AcceptedInv, [Next]_vars, NEW p \in Requests, NEW c, Published(p, c)
  PROVE  PublishedNext(p, c)
BY StoredStays, ClearStays DEF Published, PublishedNext

LEMMA AckInit == Init => AckInv
BY DEF Init, AckInv, Threads

\* A request that publishes is answered by the "ok" of its worker only.
LEMMA EndedBy ==
  ASSUME WaitingInv, [Next]_vars, NEW p \in Requests, conn[p] # "ended", conn'[p] = "ended"
  PROVE  \/ Targets(p) = {}
         \/ \E t \in Workers : pc[t] = "ok" /\ req[t] = p
<1>a. conn \in [Requests -> ConnStates]
  BY DEF WaitingInv, TypeInv, TypeOK, ClientType
<1>b. conn' # conn /\ ~Die
  BY <1>a DEF Die
<1>c. \A t \in Workers : pc[t] = "query" => IsPool(req[t])
  BY DEF WaitingInv, LockInv, LockInvOf, Threads
<1>d. IsPool(p) => Targets(p) = {}
  BY DEF IsPool, Targets
<1>1. ASSUME NEW t \in Workers, Accept(t) PROVE Targets(p) = {}
  <2>1. PICK r \in Requests : \/ RejectMethod(t, r) \/ DropUnparsed(t, r) \/ SubNotFound(t, r)
                              \/ PoolNotFound(t, r) \/ Begin(t, r)
    BY <1>1 DEF Accept
  <2>2. (RejectMethod(t, r) \/ PoolNotFound(t, r)) /\ r = p
    BY <1>a, <2>1 DEF RejectMethod, DropUnparsed, SubNotFound, PoolNotFound, Begin
  <2> QED BY <2>2 DEF RejectMethod, PoolNotFound, Targets
<1>2. ASSUME NEW t \in Workers, Lock(t) \/ Handle(t)
      PROVE  Targets(p) = {} \/ (pc[t] = "ok" /\ req[t] = p)
  <2>1. SubAnswer(t) \/ ServeFile(t) \/ PoolReply(t) \/ SendOk(t)
    BY <1>2, <1>b
    DEF Lock, Handle, PubPush, BroadcastCount, Insert, ClearDelete, ClearReset, NullChannel,
        FileAllocFail, PoolJoin, PoolPark, DelErase, DelDone, BumpLoad, BumpStore, ReleaseUnheld,
        Unlock, clientVars
  <2>2. req[t] = p
    BY <1>a, <2>1 DEF SubAnswer, ServeFile, PoolReply, SendOk
  <2> QED BY <1>c, <1>d, <2>1, <2>2 DEF SubAnswer, ServeFile, PoolReply, SendOk, Targets, FileKinds, In
<1>3. ASSUME Tick \/ TimerFire \/ TimerLock \/ Sweep PROVE Targets(p) = {}
  <2>1. Deliver \/ Evict \/ Expire
    BY <1>3, <1>b
    DEF Tick, TimerFire, TimerLock, Sweep, Delivered, Spare, NextChannel, TimerUnlock, TouchFreed,
        clientVars
  <2>2. AtSubscriber /\ Reached.req = p
    BY <1>a, <2>1 DEF Deliver, Evict, Expire, SendAndEnd, clientVars
  <2>3. pos \in Channel /\ nth \in DOMAIN subs[pos]
    <3>1. pos \in Channel /\ nth \in Nat \ {0} /\ nth <= Len(subs[pos])
      BY <2>2 DEF WaitingInv, TypeInv, TypeOK, SweepType, AtSubscriber
    <3> QED BY <3>1, ListShape DEF WaitingInv
  <2> QED BY <1>d, <2>2, <2>3 DEF WaitingInv, ListedInv, Place, Reached
<1>4. ASSUME Environment \/ UNCHANGED vars PROVE FALSE
  BY <1>4, <1>a, <1>b
  DEF Environment, Start, Crash, RaceCrash, DbToggle, Disconnect, vars, clientVars
<1> QED BY <1>1, <1>2, <1>3, <1>4 DEF Next

\* A worker comes to its unlock, and from there to its "ok", with what it published
\* stored.
LEMMA AckUnlock ==
  ASSUME WaitingInv, NumberingInv, AckInv, [Next]_vars, NEW t \in Workers, pc'[t] \in {"unlock", "ok"},
         NEW c \in Targets(req'[t])
  PROVE  PublishedNext(req'[t], c)
<1>a. /\ pc \in [Threads -> WorkerPCs \cup TimerPCs] /\ t \in Threads /\ ~Die
      /\ TypeInv /\ LockInv /\ AcceptedInv /\ LockInvOf(t) /\ HandledInv
      /\ (pc[t] # "idle" => req[t] \in Requests)
  BY DEF RequestInv, RequestInvOf, WaitingInv, TypeInv, TypeOK, ControlType, LockInv, Threads, Die
<1>1. CASE pc[t] \in {"unlock", "ok"} /\ req'[t] = req[t]
  BY <1>1, <1>a, PublishedStays DEF AckInv
<1>2. CASE Insert(t)
  <2>1. PICK d \in Channel : d = local[t] /\ Row(d, count[d], In(t).content) \in table'
    BY <1>a, <1>2, InsertAdds
  <2>2. PublishedNext(req[t], d)
    BY <2>1, AddedIsStored DEF PublishedNext, In
  <2>3. c = d \/ (c \in Channel /\ c < local[t] /\ In(t).kind = "broadcast")
    <3>1. /\ pc[t] = "insert" /\ req'[t] = req[t]
          /\ In(t).kind = "broadcast" => ~(local[t] < CHAN - 1)
      BY <1>a, <1>2 DEF Insert, Goto
    <3>2. In(t).kind = "pub" => c = local[t]
      BY <1>a, <3>1 DEF HandledInv, Targets, In
    <3>3. In(t).kind = "broadcast" => c \in Channel /\ local[t] = CHAN - 1
      BY <2>1, <3>1, SizesAssumption DEF Targets, In, Channel
    <3>4. In(t).kind = "broadcast" => c = local[t] \/ c < local[t]
      BY <3>3, SizesAssumption DEF Channel
    <3> QED BY <1>a, <2>1, <3>1, <3>2, <3>3, <3>4 DEF HandledInv
  <2>4. c \in Channel /\ c < local[t] /\ In(t).kind = "broadcast" => PublishedNext(req[t], c)
    BY <1>2, <1>a, PublishedStays DEF AckInv, Insert
  <2>5. req'[t] = req[t]
    BY <1>2 DEF Insert
  <2> QED BY <2>2, <2>3, <2>4, <2>5
<1>3. CASE ClearReset(t) \/ SubAnswer(t) \/ ServeFile(t) \/ DelDone(t)
  BY <1>3, <1>a
  DEF ClearReset, SubAnswer, ServeFile, DelDone, HandledInv, IsPool, Targets, In, FileKinds
<1>4. Accept(t) => pc[t] \in {"unlock", "ok"} /\ req'[t] = req[t]
  BY <1>a
  DEF Accept, Arrives, RejectMethod, DropUnparsed, SubNotFound, PoolNotFound, Begin, Goto, threadVars
<1>5. Lock(t) \/ Handle(t) => \/ Insert(t) \/ ClearReset(t) \/ SubAnswer(t) \/ ServeFile(t)
                              \/ DelDone(t) \/ (pc[t] \in {"unlock", "ok"} /\ req'[t] = req[t])
  BY <1>a
  DEF Lock, Handle, PubPush, BroadcastCount, ClearDelete, NullChannel, FileAllocFail, PoolJoin,
      PoolPark, PoolReply, DelErase, BumpLoad, BumpStore, ReleaseUnheld, Unlock, SendOk, Goto, threadVars
<1> QED BY <1>a, <1>1, <1>2, <1>3, <1>4, <1>5, OwnSteps

\* A broadcast goes from channel to channel with what is below stored.
LEMMA AckBroadcast ==
  ASSUME WaitingInv, NumberingInv, AckInv, [Next]_vars, NEW t \in Workers,
         pc'[t] \in {"run", "insert"}, In(t)'.kind = "broadcast",
         NEW c \in Channel, c < local'[t]
  PROVE  PublishedNext(req'[t], c)
<1>a. /\ pc \in [Threads -> WorkerPCs \cup TimerPCs] /\ t \in Threads /\ ~Die
      /\ local \in [Threads -> Nat] /\ TypeInv /\ LockInv /\ AcceptedInv /\ input' = input
      /\ (pc[t] # "idle" => req[t] \in Requests)
  BY InputKept DEF WaitingInv, TypeInv, TypeOK, ControlType, Threads, Die, RequestInv, RequestInvOf
<1>1. CASE pc[t] \in {"run", "insert"} /\ req'[t] = req[t] /\ local'[t] = local[t]
  BY <1>1, <1>a, PublishedStays DEF AckInv, In
<1>2. CASE Insert(t)
  <2>1. PICK d \in Channel : d = local[t] /\ Row(d, count[d], In(t).content) \in table'
    BY <1>a, <1>2, InsertAdds
  <2>2. PublishedNext(req[t], d)
    BY <2>1, AddedIsStored DEF PublishedNext, In
  <2>3. pc[t] = "insert" /\ req'[t] = req[t] /\ local'[t] = local[t] + 1
    BY <1>a, <1>2 DEF Insert, Goto
  <2>4. c = d \/ c < local[t]
    BY <1>a, <2>1, <2>3, ChannelZero
  <2>5. c < local[t] => PublishedNext(req[t], c)
    BY <1>a, <2>3, PublishedStays DEF AckInv, In
  <2> QED BY <2>2, <2>3, <2>4, <2>5
<1>3. CASE Lock(t)
  BY <1>3, <1>a, ChannelZero DEF Lock
<1>4. Accept(t) => pc[t] \in {"run", "insert"} /\ req'[t] = req[t] /\ local'[t] = local[t]
  BY <1>a
  DEF Accept, Arrives, RejectMethod, DropUnparsed, SubNotFound, PoolNotFound, Begin, Goto, threadVars
<1>5. Handle(t) => \/ Insert(t)
                   \/ pc[t] \in {"run", "insert"} /\ req'[t] = req[t] /\ local'[t] = local[t]
  BY <1>a
  DEF Handle, PubPush, BroadcastCount, ClearDelete, ClearReset, NullChannel, SubAnswer, ServeFile,
      FileAllocFail, PoolJoin, PoolPark, PoolReply, DelErase, DelDone, BumpLoad, BumpStore,
      ReleaseUnheld, Unlock, SendOk, Goto, threadVars, In
<1> QED BY <1>a, <1>1, <1>2, <1>3, <1>4, <1>5, OwnSteps

LEMMA AckStep == WaitingInv /\ NumberingInv /\ AckInv /\ [Next]_vars => AckInv'
<1> SUFFICES ASSUME WaitingInv, NumberingInv, AckInv, [Next]_vars PROVE AckInv'
  OBVIOUS
<1>a. TypeInv /\ AcceptedInv /\ input' = input
  BY InputKept DEF WaitingInv
<1>1. ASSUME NEW p \in Requests, conn'[p] = "ended", NEW c \in Targets(p) PROVE PublishedNext(p, c)
  <2>1. CASE conn[p] = "ended"
    BY <1>a, <1>1, <2>1, PublishedStays DEF AckInv
  <2>2. CASE conn[p] # "ended"
    BY <1>a, <1>1, <2>2, EndedBy, PublishedStays DEF AckInv
  <2> QED BY <2>1, <2>2
<1>2. \A p : Targets(p)' = Targets(p)
  BY <1>a DEF Targets
<1>3. \A p, c : Published(p, c)' <=> PublishedNext(p, c)
  BY <1>a DEF Published, PublishedNext
<1>4. ASSUME NEW t \in Workers, pc'[t] \in {"unlock", "ok"}, NEW c \in Targets(req'[t])
      PROVE  PublishedNext(req'[t], c)
  BY <1>4, AckUnlock
<1>5. ASSUME NEW t \in Workers, pc'[t] \in {"run", "insert"}, In(t)'.kind = "broadcast",
             NEW c \in Channel, c < local'[t]
      PROVE  PublishedNext(req'[t], c)
  BY <1>5, AckBroadcast
<1> QED BY <1>a, <1>1, <1>2, <1>4, <1>5 DEF AckInv, Published, PublishedNext, Targets

----------------------------------------------------------------------------
(* The evbuffer of the sweep *)

\* When no client hangs up, every send of the sweep empties the evbuffer.
EmptyBufInv == (\A r \in Requests : conn[r] # "gone") /\ buf = {}

\* The request the sweep has reached is one of its channel that is not answered.
LEMMA ReachedWaits ==
  ASSUME WaitingInv, pc[Timer] \in TimerSection, AtSubscriber
  PROVE  /\ pos \in Channel /\ nth \in DOMAIN subs[pos] /\ Reached.req \in Requests
         /\ IsPool(Reached.req) /\ input[Reached.req].cid = pos
         /\ conn[Reached.req] \in {"open", "gone"}
<1>1. pos \in Channel /\ nth \in DOMAIN subs[pos]
  <2>1. pos \in Channel /\ nth \in Nat \ {0} /\ nth <= Len(subs[pos])
    BY DEF WaitingInv, TypeInv, TypeOK, SweepType, AtSubscriber
  <2> QED BY <2>1, ListShape DEF WaitingInv
<1>2. Reached.req \in Requests /\ IsPool(Reached.req) /\ input[Reached.req].cid = pos
  BY <1>1, ListShape DEF WaitingInv, ListedInv, Place, Reached
<1>3. ~Served(pos, nth)
  <2>1. nth \in Nat
    BY DEF WaitingInv, TypeInv, TypeOK, SweepType
  <2> QED BY <2>1, SweepAlone DEF WaitingInv, Served, SweptPast, Deleting, WorkerSection
<1> QED BY <1>1, <1>2, <1>3 DEF WaitingInv, ListedInv, Unanswered, Reached

LEMMA ReachedOpen ==
  ASSUME WaitingInv, \A r \in Requests : conn[r] # "gone", pc[Timer] \in TimerSection, AtSubscriber
  PROVE  /\ pos \in Channel /\ nth \in DOMAIN subs[pos] /\ Reached.req \in Requests
         /\ IsPool(Reached.req) /\ input[Reached.req].cid = pos /\ conn[Reached.req] = "open"
BY ReachedWaits

\* What the sweep sends arrives.
LEMMA SweepSends ==
  ASSUME WaitingInv, EmptyBufInv, pc[Timer] \in TimerSection, AtSubscriber, NEW chunks,
         SendAndEnd(Reached.req, chunks)
  PROVE  /\ got' = [got EXCEPT ![Reached.req] = @ \cup chunks]
         /\ conn' = [conn EXCEPT ![Reached.req] = "ended"]
         /\ buf' = {}
BY ReachedOpen DEF EmptyBufInv, SendAndEnd

LEMMA EmptyBufInit == Init => EmptyBufInv
BY DEF Init, EmptyBufInv

LEMMA EmptyBufStep ==
  ASSUME "disconnect" \notin Faults
  PROVE  WaitingInv /\ EmptyBufInv /\ [Next]_vars => EmptyBufInv'
<1> SUFFICES ASSUME WaitingInv, EmptyBufInv, [Next]_vars PROVE EmptyBufInv'
  OBVIOUS
<1>a. conn \in [Requests -> ConnStates]
  BY DEF WaitingInv, TypeInv, TypeOK, ClientType
<1>b. Die => EmptyBufInv'
  BY <1>a DEF Die, EmptyBufInv
<1>1. ASSUME NEW t \in Workers, Accept(t) PROVE EmptyBufInv'
  BY <1>1, <1>a
  DEF Accept, RejectMethod, DropUnparsed, SubNotFound, PoolNotFound, Begin, EmptyBufInv, sweepVars
<1>2. ASSUME NEW t \in Workers, Lock(t) \/ Handle(t), ~Die PROVE EmptyBufInv'
  BY <1>2, <1>a
  DEF Lock, Handle, PubPush, BroadcastCount, Insert, ClearDelete, ClearReset, NullChannel,
      SubAnswer, ServeFile, FileAllocFail, PoolJoin, PoolPark, PoolReply, DelErase, DelDone,
      BumpLoad, BumpStore, ReleaseUnheld, Unlock, SendOk, EmptyBufInv, sweepVars, clientVars
<1>3. CASE Deliver \/ Evict \/ Expire
  <2>1. PICK chunks \in {msg[pos], {Destroyed}} : SendAndEnd(Reached.req, chunks)
    BY <1>3 DEF Deliver, Evict, Expire
  <2>2. pc[Timer] \in TimerSection /\ AtSubscriber
    BY <1>3 DEF Deliver, Evict, Expire, TimerSection
  <2>3. conn' = [conn EXCEPT ![Reached.req] = "ended"] /\ buf' = {}
    BY <2>1, <2>2, SweepSends
  <2> QED BY <1>a, <2>3 DEF EmptyBufInv
<1>4. CASE Tick \/ TimerFire \/ TimerLock \/ Delivered \/ Spare \/ NextChannel \/ TimerUnlock
  BY <1>4
  DEF Tick, TimerFire, TimerLock, Delivered, Spare, NextChannel, TimerUnlock, EmptyBufInv,
      sweepVars, clientVars
<1>5. CASE Start \/ DbToggle \/ (\E r \in Requests : Disconnect(r)) \/ UNCHANGED vars
  BY <1>5 DEF Start, DbToggle, Disconnect, vars, EmptyBufInv, sweepVars, clientVars
<1> QED BY <1>b, <1>1, <1>2, <1>3, <1>4, <1>5
        DEF Next, Sweep, TouchFreed, Environment, Crash, RaceCrash

----------------------------------------------------------------------------
(* Whose messages a client receives *)

\* Some request published x to channel c.
PublishedTo(x, c) ==
  \E p \in Requests : conn[p] # "idle" /\ input[p].content = x /\ c \in Targets(p)

SourceInv == \A c \in Channel : \A x \in msg[c] \cup Stored(c) : PublishedTo(x, c)

LEMMA PublishedToStays ==
  ASSUME TypeInv, [Next]_vars, NEW x, NEW c, PublishedTo(x, c)
  PROVE  PublishedTo(x, c)'
BY SentStays, InputKept DEF PublishedTo, Targets

LEMMA SourceInit == Init => SourceInv
BY DEF Init, SourceInv, Stored

\* What a worker pushes or inserts is what its request publishes.
LEMMA SourceOf ==
  ASSUME WaitingInv, [Next]_vars, NEW t \in Workers, NEW c \in Channel,
         \/ pc[t] = "insert" /\ c = local[t]
         \/ pc[t] = "run" /\ In(t).kind = "pub" /\ c = In(t).cid
  PROVE  PublishedTo(In(t).content, c)
<1>1. req[t] \in Requests /\ conn[req[t]] # "idle" /\ In(t).form = "get"
  BY DEF WaitingInv, TypeInv, RequestInv, RequestInvOf, AcceptedInv, LockInv, LockInvOf, Threads
<1>2. c \in Targets(req[t])
  BY <1>1 DEF WaitingInv, HandledInv, Targets, In
<1> QED BY <1>1, <1>2 DEF PublishedTo, In

\* A new content of the table is the one a worker inserts.
LEMMA StoredSteps ==
  ASSUME TypeInv, [Next]_vars, NEW c, NEW x \in Stored(c)'
  PROVE  x \in Stored(c) \/ \E t \in Workers : Insert(t) /\ c = local[t] /\ x = In(t).content
<1>1. PICK row \in table' : row.channel = c /\ row.content = x
  BY DEF Stored
<1>2. CASE row \in table
  BY <1>1, <1>2 DEF Stored
<1>3. CASE row \notin table
  <2>1. PICK t \in Workers : Insert(t)
    <3>1. \A t \in Workers : ~ClearDelete(t)
      BY <1>3 DEF ClearDelete, DeleteChannel
    <3> QED BY <1>1, <1>3, <3>1, TableSteps
  <2>2. row = Row(local[t], count[local[t]], In(t).content)
    BY <1>1, <1>3, <2>1 DEF Insert, InsertRow
  <2> QED BY <1>1, <2>1, <2>2 DEF Row
<1> QED BY <1>2, <1>3

LEMMA SourceStep == WaitingInv /\ SourceInv /\ [Next]_vars => SourceInv'
<1> SUFFICES ASSUME WaitingInv, SourceInv, [Next]_vars, NEW c \in Channel,
                    NEW x \in msg'[c] \cup Stored(c)'
             PROVE  PublishedTo(x, c)'
  BY DEF SourceInv
<1>a. TypeInv /\ msg \in [Channel -> SUBSET Contents]
  BY DEF WaitingInv, TypeInv, TypeOK, QueueType
<1>1. PublishedTo(x, c) => PublishedTo(x, c)'
  BY <1>a, PublishedToStays
<1>2. CASE x \in msg[c] \cup Stored(c)
  BY <1>1, <1>2 DEF SourceInv
<1>3. CASE x \in Stored(c)' /\ x \notin Stored(c)
  <2>1. PICK t \in Workers : Insert(t) /\ c = local[t] /\ x = In(t).content
    BY <1>a, <1>3, StoredSteps
  <2>2. pc[t] = "insert"
    BY <2>1 DEF Insert
  <2> QED BY <1>1, <2>1, <2>2, SourceOf
<1>4. CASE x \in msg'[c] /\ x \notin msg[c]
  <2>1. ~Die
    BY <1>4 DEF Die
  <2>2. PICK t \in Workers : PubPush(t)
    BY <1>4, <2>1, QueueSteps
  <2>3. pc[t] = "run" /\ In(t).kind = "pub" /\ c = In(t).cid /\ x = In(t).content
    BY <1>a, <1>4, <2>2 DEF PubPush
  <2> QED BY <1>1, <2>3, SourceOf
<1> QED BY <1>2, <1>3, <1>4

\* No subscriber sends parameters for which no statement is built.
DefinedQueries ==
  \A s \in Scripts : \A r \in Requests : s[r].kind \in {"sub", "pool"} => ~UnsetSql(s[r])

\* A client that hung up was to receive x.
Stray(x) == \E g \in Requests : conn[g] = "gone" /\ PublishedTo(x, input[g].cid)

\* The buffer keeps only what was not sent to a client that has gone.
CarryInv == \A x \in buf \cap Contents : Stray(x)

OwnInv ==
  \A r \in Requests : \A x \in got[r] \cap Contents : PublishedTo(x, input[r].cid) \/ Stray(x)

LEMMA OwnInit == Init => CarryInv /\ OwnInv
BY DEF Init, CarryInv, OwnInv

\* A client that has gone stays so: no worker answers it, and the sweep cannot.
LEMMA GoneStays ==
  ASSUME WaitingInv, [Next]_vars, NEW r \in Requests, conn[r] = "gone"
  PROVE  conn'[r] = "gone"
<1>a. conn \in [Requests -> ConnStates]
  BY DEF WaitingInv, TypeInv, TypeOK, ClientType
<1>b. \A t \in Workers : Busy(t) => req[t] # r
  BY DEF WaitingInv, OpenInv
<1>c. Die => conn'[r] = "gone"
  BY DEF Die
<1>1. ASSUME NEW t \in Workers, Accept(t) PROVE conn'[r] = "gone"
  BY <1>1, <1>a DEF Accept, Arrives, RejectMethod, DropUnparsed, SubNotFound, PoolNotFound, Begin
<1>2. ASSUME NEW t \in Workers, SubAnswer(t) \/ ServeFile(t) \/ PoolReply(t) \/ SendOk(t)
      PROVE  conn'[r] = "gone"
  BY <1>2, <1>a, <1>b DEF SubAnswer, ServeFile, PoolReply, SendOk, Busy
<1>3. ASSUME NEW t \in Workers, Lock(t) \/ Handle(t), ~Die,
             ~(SubAnswer(t) \/ ServeFile(t) \/ PoolReply(t) \/ SendOk(t))
      PROVE  conn'[r] = "gone"
  BY <1>3
  DEF Lock, Handle, PubPush, BroadcastCount, Insert, ClearDelete, ClearReset, NullChannel,
      FileAllocFail, PoolJoin, PoolPark, DelErase, DelDone, BumpLoad, BumpStore, ReleaseUnheld,
      Unlock, clientVars
<1>4. CASE Deliver \/ Evict \/ Expire
  BY <1>4, <1>a DEF Deliver, Evict, Expire, SendAndEnd, clientVars
<1>5. CASE Tick \/ TimerFire \/ TimerLock \/ Delivered \/ Spare \/ NextChannel \/ TimerUnlock
  BY <1>5 DEF Tick, TimerFire, TimerLock, Delivered, Spare, NextChannel, TimerUnlock, clientVars
<1>6. CASE Start \/ DbToggle \/ (\E q \in Requests : Disconnect(q)) \/ UNCHANGED vars
  BY <1>6, <1>a DEF Start, DbToggle, Disconnect, vars, clientVars
<1> QED BY <1>c, <1>1, <1>2, <1>3, <1>4, <1>5, <1>6
        DEF Next, Sweep, TouchFreed, Environment, Crash, RaceCrash

LEMMA StrayStays ==
  ASSUME WaitingInv, [Next]_vars, NEW x, Stray(x)
  PROVE  Stray(x)'
<1>1. PICK g \in Requests : conn[g] = "gone" /\ PublishedTo(x, input[g].cid)
  BY DEF Stray
<1>2. conn'[g] = "gone" /\ input' = input
  BY <1>1, GoneStays, InputKept
<1>3. ASSUME NEW c, c = input[g].cid PROVE PublishedTo(x, c)'
  BY <1>1, <1>3, PublishedToStays DEF WaitingInv
<1> QED BY <1>2, <1>3 DEF Stray, PublishedTo

\* What the sweep sends to a client, and what it keeps.
LEMMA SweepCarries ==
  ASSUME WaitingInv, SourceInv, CarryInv, Deliver \/ Evict \/ Expire
  PROVE  \E chunks \in {msg[pos], {Destroyed}} :
           /\ pos \in Channel /\ Reached.req \in Requests /\ input[Reached.req].cid = pos
           /\ \A x \in chunks \cap Contents : PublishedTo(x, pos)
           /\ \/ /\ got' = [got EXCEPT ![Reached.req] = @ \cup buf \cup chunks]
                 /\ buf' = {}
              \/ conn[Reached.req] = "gone" /\ got' = got /\ buf' = buf \cup chunks
<1>1. pc[Timer] \in TimerSection /\ AtSubscriber
  BY DEF Deliver, Evict, Expire, TimerSection
<1>2. /\ pos \in Channel /\ Reached.req \in Requests /\ input[Reached.req].cid = pos
      /\ conn[Reached.req] \in {"open", "gone"}
  BY <1>1, ReachedWaits
<1>3. PICK chunks \in {msg[pos], {Destroyed}} : SendAndEnd(Reached.req, chunks)
  BY DEF Deliver, Evict, Expire
<1>4. \A x \in chunks \cap Contents : PublishedTo(x, pos)
  BY <1>2, ChunksAssumption DEF SourceInv
<1> QED BY <1>2, <1>3, <1>4 DEF SendAndEnd, clientVars

LEMMA CarryStep == WaitingInv /\ SourceInv /\ CarryInv /\ [Next]_vars => CarryInv'
<1> SUFFICES ASSUME WaitingInv, SourceInv, CarryInv, [Next]_vars, NEW x \in buf' \cap Contents
             PROVE  Stray(x)'
  BY DEF CarryInv
<1>1. CASE x \in buf
  <2>1. Stray(x)
    BY <1>1 DEF CarryInv
  <2> QED BY <2>1, StrayStays
<1>2. CASE Deliver \/ Evict \/ Expire
  <2>1. PICK chunks \in {msg[pos], {Destroyed}} :
          /\ Reached.req \in Requests /\ input[Reached.req].cid = pos
          /\ \A y \in chunks \cap Contents : PublishedTo(y, pos)
          /\ \/ buf' = {}
             \/ conn[Reached.req] = "gone" /\ buf' = buf \cup chunks
    BY <1>2, SweepCarries
  <2>2. x \in buf \/ (PublishedTo(x, input[Reached.req].cid) /\ conn[Reached.req] = "gone")
    BY <2>1
  <2>3. x \in buf \/ Stray(x)
    BY <2>1, <2>2 DEF Stray
  <2> QED BY <1>1, <2>3, StrayStays
<1>3. CASE TimerLock \/ TimerUnlock \/ Die
  BY <1>3 DEF TimerLock, TimerUnlock, Die
<1>4. CASE buf' = buf
  BY <1>1, <1>4
<1>5. CASE TimerFire \/ Delivered \/ Spare \/ NextChannel
  BY <1>4, <1>5 DEF TimerFire, Delivered, Spare, NextChannel, sweepVars
<1> QED BY <1>2, <1>3, <1>4, <1>5, TimerSteps DEF Sweep, TouchFreed, WaitingInv

LEMMA OwnStep ==
  ASSUME DefinedQueries
  PROVE  WaitingInv /\ SourceInv /\ CarryInv /\ OwnInv /\ [Next]_vars => OwnInv'
<1> SUFFICES ASSUME WaitingInv, SourceInv, CarryInv, OwnInv, [Next]_vars,
                    NEW r \in Requests, NEW x \in got'[r] \cap Contents
             PROVE  PublishedTo(x, input[r].cid)' \/ Stray(x)'
  BY DEF OwnInv
<1>a. /\ TypeInv /\ got \in [Requests -> SUBSET Chunks] /\ input' = input
      /\ NoMessage \notin Contents /\ Destroyed \notin Contents
  BY InputKept, ChunksAssumption DEF WaitingInv, TypeInv, TypeOK, ClientType
<1>b. \A c \in Channel : \A y \in msg[c] \cup Stored(c) : PublishedTo(y, c)
  BY DEF SourceInv
<1>1. ASSUME NEW c, c = input[r].cid, PublishedTo(x, c) PROVE PublishedTo(x, input[r].cid)'
  <2>1. PublishedTo(x, c)'
    BY <1>1, <1>a, PublishedToStays
  <2> QED BY <1>1, <1>a, <2>1 DEF PublishedTo
<1>2. Stray(x) => Stray(x)'
  BY StrayStays
<1>3. CASE x \in got[r]
  BY <1>1, <1>2, <1>3 DEF OwnInv
<1>4. ASSUME NEW t \in Workers, SubAnswer(t) \/ PoolPark(t) \/ PoolReply(t), x \notin got[r]
      PROVE  PublishedTo(x, input[r].cid)'
  <2>1. PICK answer \in Answers(In(t)) \cup {{NoMessage}} :
          got' = [got EXCEPT ![req[t]] = @ \cup answer]
    BY <1>4 DEF SubAnswer, PoolPark, PoolReply
  <2>2. req[t] = r /\ x \in answer /\ answer \in Answers(In(t))
    BY <1>a, <1>4, <2>1
  <2>3. In(t).kind \in {"sub", "pool"}
    BY <1>4 DEF SubAnswer, PoolPark, PoolReply, WaitingInv, LockInv, LockInvOf, IsPool, In, Threads
  <2>4. ~UnsetSql(In(t))
    BY <2>2, <2>3 DEF DefinedQueries, WaitingInv, LockInv, In
  <2>5. x \in Select(table, In(t).cid, FirstSeq(In(t)))
    BY <2>2, <2>4 DEF Answers
  <2>6. x \in Stored(In(t).cid) /\ In(t).cid \in Channel
    BY <1>a, <2>5 DEF Select, Stored, TypeInv, TypeOK, TableType
  <2> QED BY <1>1, <1>b, <2>2, <2>6 DEF In
<1>5. ASSUME Deliver \/ Evict \/ Expire, x \notin got[r]
      PROVE  PublishedTo(x, input[r].cid)' \/ Stray(x)'
  <2>1. PICK chunks \in {msg[pos], {Destroyed}} :
          /\ Reached.req \in Requests /\ input[Reached.req].cid = pos
          /\ \A y \in chunks \cap Contents : PublishedTo(y, pos)
          /\ got' = [got EXCEPT ![Reached.req] = @ \cup buf \cup chunks] \/ got' = got
    BY <1>5, SweepCarries
  <2>2. Reached.req = r /\ (x \in buf \/ x \in chunks)
    BY <1>a, <1>5, <2>1
  <2>3. x \in buf => Stray(x)
    BY DEF CarryInv
  <2> QED BY <1>1, <1>2, <2>1, <2>2, <2>3
<1> QED BY <1>3, <1>4, <1>5, GotSteps

----------------------------------------------------------------------------
(* Messages go first *)

\* When the sweep looks at the timeouts of a channel that has messages, all its
\* subscribers have been served.
ServedFirst == pc[Timer] = "check" /\ msg[pos] # {} => subs[pos] = <<>>

\* So no subscriber of such a channel is left to be told that it timed out.
LEMMA NoneReached ==
  ASSUME ServedFirst, TypeInv, pc[Timer] = "check", msg[pos] # {}
  PROVE  ~AtSubscriber
<1>1. Len(<<>>) = 0
  OBVIOUS
<1>2. nth \in Nat \ {0}
  BY DEF TypeInv, TypeOK, SweepType
<1> QED BY <1>1, <1>2 DEF ServedFirst, AtSubscriber

LEMMA ServedFirstInit == Init => ServedFirst
BY DEF Init, ServedFirst, Threads

LEMMA ServedFirstStep == TypeInv /\ LockInv /\ ServedFirst /\ [Next]_vars => ServedFirst'
<1> SUFFICES ASSUME TypeInv, LockInv, ServedFirst, [Next]_vars,
                    pc'[Timer] = "check", msg'[pos'] # {}
             PROVE  subs'[pos'] = <<>>
  BY DEF ServedFirst
<1>a. /\ pc \in [Threads -> WorkerPCs \cup TimerPCs] /\ Timer \in Threads
      /\ pos \in Channel /\ subs \in [Channel -> Seq(Subscribers)] /\ ~Die
  BY DEF TypeInv, TypeOK, ControlType, SweepType, ListType, Threads, Die
<1>1. CASE Delivered
  BY <1>1, <1>a DEF Delivered
<1>2. CASE pc[Timer] = "check" /\ pos' = pos
  <2>1. \A t \in Workers : ~(PubPush(t) \/ PoolJoin(t) \/ PoolPark(t) \/ DelErase(t))
    BY <1>2, SweepAlone DEF TimerSection, WorkerSection, PubPush, PoolJoin, PoolPark, DelErase
  <2>2. msg' = msg /\ ~AtSubscriber
    BY <1>2, <1>a, <2>1, QueueSteps, NoneReached
  <2>3. subs' = subs \/ NextChannel
    BY <1>2, <1>a, <2>1, <2>2, SubsSteps DEF Tick, TimerSection, Delivered, Expire
  <2>4. ~NextChannel
    BY <1>a DEF NextChannel, Advance
  <2> QED BY <1>2, <2>2, <2>3, <2>4 DEF ServedFirst
<1>3. Sweep => Delivered \/ (pc[Timer] = "check" /\ pos' = pos)
  <2>1. ~NextChannel /\ ~TimerUnlock /\ ~TouchFreed
    BY <1>a DEF NextChannel, TimerUnlock, TouchFreed, Advance
  <2>2. Deliver => pc'[Timer] = "deliver"
    BY DEF Deliver, threadVars
  <2>3. Evict \/ Expire \/ Spare => pc[Timer] = "check" /\ pos' = pos
    BY DEF Evict, Expire, Spare
  <2> QED BY <2>1, <2>2, <2>3 DEF Sweep
<1>4. ~TimerFire /\ ~TimerLock
  BY <1>a DEF TimerFire, TimerLock, Advance
<1> QED BY <1>a, <1>1, <1>2, <1>3, <1>4, TimerSteps

LEMMA MessagesFirst ==
  ASSUME WaitingInv, EmptyBufInv, ServedFirst, [Next]_vars,
         NEW r \in Requests, Destroyed \in got'[r] \ got[r]
  PROVE  msg[input[r].cid] = {}
<1>a. /\ TypeInv /\ got \in [Requests -> SUBSET Chunks] /\ msg \in [Channel -> SUBSET Contents]
      /\ Destroyed \notin Contents /\ Destroyed # NoMessage
  BY ChunksAssumption DEF WaitingInv, TypeInv, TypeOK, ClientType, QueueType
<1>1. ASSUME NEW t \in Workers, SubAnswer(t) \/ PoolPark(t) \/ PoolReply(t) PROVE FALSE
  <2>1. PICK answer \in Answers(In(t)) \cup {{NoMessage}} :
          got' = [got EXCEPT ![req[t]] = @ \cup answer]
    BY <1>1 DEF SubAnswer, PoolPark, PoolReply
  <2>2. Destroyed \notin answer
    BY <1>a, AnswersType
  <2> QED BY <1>a, <2>1, <2>2
<1>2. ASSUME Deliver \/ Evict \/ Expire PROVE msg[input[r].cid] = {}
  <2>1. PICK chunks \in {msg[pos], {Destroyed}} : SendAndEnd(Reached.req, chunks)
    BY <1>2 DEF Deliver, Evict, Expire
  <2>2. pc[Timer] \in TimerSection /\ AtSubscriber
    BY <1>2 DEF Deliver, Evict, Expire, TimerSection
  <2>3. /\ got' = [got EXCEPT ![Reached.req] = @ \cup chunks]
        /\ pos \in Channel /\ input[Reached.req].cid = pos
    BY <2>1, <2>2, SweepSends, ReachedOpen DEF EmptyBufInv
  <2>4. Reached.req = r /\ Destroyed \in chunks
    BY <1>a, <2>3
  <2>5. ~Deliver
    <3>1. ASSUME Deliver PROVE FALSE
      <4>1. SendAndEnd(Reached.req, msg[pos])
        BY <3>1 DEF Deliver
      <4>2. got' = [got EXCEPT ![Reached.req] = @ \cup msg[pos]]
        BY <4>1, <2>2, SweepSends
      <4> QED BY <1>a, <2>3, <2>4, <4>2
    <3> QED BY <3>1
  <2>6. pc[Timer] = "check"
    BY <1>2, <2>5 DEF Evict, Expire
  <2> QED BY <1>a, <2>2, <2>3, <2>4, <2>6, NoneReached
<1> QED BY <1>1, <1>2, GotSteps

\* With clients that hang up, a "channel was destroy" that was kept in the buffer
\* goes out with the messages of the next subscriber.
LEMMA MessagesAlong ==
  ASSUME WaitingInv, ServedFirst, [Next]_vars,
         NEW r \in Requests, Destroyed \in got'[r] \ got[r]
  PROVE  msg[input[r].cid] \subseteq got'[r]
<1>a. /\ TypeInv /\ got \in [Requests -> SUBSET Chunks] /\ msg \in [Channel -> SUBSET Contents]
      /\ Destroyed \notin Contents /\ Destroyed # NoMessage
  BY ChunksAssumption DEF WaitingInv, TypeInv, TypeOK, ClientType, QueueType
<1>1. ASSUME NEW t \in Workers, SubAnswer(t) \/ PoolPark(t) \/ PoolReply(t) PROVE FALSE
  <2>1. PICK answer \in Answers(In(t)) \cup {{NoMessage}} :
          got' = [got EXCEPT ![req[t]] = @ \cup answer]
    BY <1>1 DEF SubAnswer, PoolPark, PoolReply
  <2>2. Destroyed \notin answer
    BY <1>a, AnswersType
  <2> QED BY <1>a, <2>1, <2>2
<1>2. ASSUME NEW chunks, SendAndEnd(Reached.req, chunks)
      PROVE  Reached.req = r /\ got'[r] = got[r] \cup buf \cup chunks
  BY <1>2, <1>a DEF SendAndEnd, clientVars
<1>3. CASE Deliver
  <2>1. input[Reached.req].cid = pos
    BY <1>3, ReachedWaits DEF Deliver, TimerSection
  <2> QED BY <1>2, <1>3, <2>1 DEF Deliver
<1>4. CASE Evict \/ Expire
  <2>1. pc[Timer] = "check" /\ AtSubscriber /\ Reached.req = r
    BY <1>2, <1>4 DEF Evict, Expire
  <2>2. input[r].cid = pos
    BY <2>1, ReachedWaits DEF TimerSection
  <2>3. msg[pos] = {}
    BY <1>a, <2>1, NoneReached
  <2> QED BY <2>2, <2>3
<1> QED BY <1>1, <1>3, <1>4, GotSteps

----------------------------------------------------------------------------
(* No lost wakeup *)

\* pub_handler pushes before it inserts.
PushedInv ==
  \A t \in Workers : pc[t] = "insert" /\ In(t).kind = "pub" => In(t).content \in msg[local[t]]

\* Pool request r is listed and unanswered, and its query has been made.
Waits(r) ==
  Listed(r) /\ conn[r] = "open" /\ \A t \in Workers : pc[t] = "query" => req[t] # r

\* It waits for messages by number.
Asks(r) == Waits(r) /\ input[r].time = "none" /\ ~UnsetSql(input[r])

\* What it asks for is queued or was broadcast.
Covered(r) ==
  Select(table, input[r].cid, input[r].seq) \subseteq msg[input[r].cid] \cup Broadcasts

WakeInv == \A r \in Requests : Asks(r) => Covered(r)

LEMMA WakeInit == Init => PushedInv /\ WakeInv
BY DEF Init, PushedInv, WakeInv, Asks, Waits, Threads

\* Queues only grow while the process lives.
LEMMA QueuesGrow ==
  ASSUME TypeInv, [Next]_vars, ~Die, NEW c \in Channel
  PROVE  msg[c] \subseteq msg'[c]
<1>1. msg \in [Channel -> SUBSET Contents]
  BY DEF TypeInv, TypeOK, QueueType
<1>2. ASSUME NEW t \in Workers, PubPush(t) PROVE msg[c] \subseteq msg'[c]
  BY <1>1, <1>2 DEF PubPush
<1> QED BY <1>2, QueueSteps

LEMMA PushedStep == TypeInv /\ LockInv /\ PushedInv /\ [Next]_vars => PushedInv'
<1> SUFFICES ASSUME TypeInv, LockInv, PushedInv, [Next]_vars,
                    NEW t \in Workers, pc'[t] = "insert", In(t)'.kind = "pub"
             PROVE  In(t)'.content \in msg'[local'[t]]
  BY DEF PushedInv
<1>a. /\ pc \in [Threads -> WorkerPCs \cup TimerPCs] /\ local \in [Threads -> Nat] /\ t \in Threads
      /\ msg \in [Channel -> SUBSET Contents] /\ input' = input /\ ~Die
  BY InputKept DEF TypeInv, TypeOK, ControlType, QueueType, Threads, Die
<1>1. CASE pc[t] = "insert" /\ req'[t] = req[t] /\ local'[t] = local[t]
  <2>1. local[t] \in Channel /\ In(t).content \in msg[local[t]]
    BY <1>1, <1>a DEF PushedInv, TypeInv, RequestInv, RequestInvOf, In
  <2> QED BY <1>1, <1>a, <2>1, QueuesGrow DEF In
<1>2. CASE PubPush(t)
  BY <1>2, <1>a DEF PubPush, In
<1>3. Accept(t) \/ Lock(t) => pc[t] = "insert" /\ req'[t] = req[t] /\ local'[t] = local[t]
  BY <1>a
  DEF Accept, Arrives, RejectMethod, DropUnparsed, SubNotFound, PoolNotFound, Begin, Lock, Goto,
      threadVars
<1>4. Handle(t) => PubPush(t) \/ (BroadcastCount(t) /\ In(t)'.kind # "pub")
                   \/ (pc[t] = "insert" /\ req'[t] = req[t] /\ local'[t] = local[t])
  BY <1>a
  DEF Handle, BroadcastCount, Insert, ClearDelete, ClearReset, NullChannel, SubAnswer, ServeFile,
      FileAllocFail, PoolJoin, PoolPark, PoolReply, DelErase, DelDone, BumpLoad, BumpStore,
      ReleaseUnheld, Unlock, SendOk, Goto, threadVars, In
<1> QED BY <1>a, <1>1, <1>2, <1>3, <1>4, OwnSteps

\* A step that lists a request is the one of its worker that goes on to query.
LEMMA ListedSteps ==
  ASSUME TypeInv, [Next]_vars, NEW r \in Requests, Listed(r)'
  PROVE  Listed(r) \/ \E t \in Workers : PoolJoin(t) /\ req[t] = r
<1>1. PICK c \in Channel : \E k \in DOMAIN subs'[c] : subs'[c][k].req = r
  BY DEF Listed
<1>2. \A j \in DOMAIN subs[c] : subs[c][j].req = r => Listed(r)
  BY DEF Listed
<1>3. DOMAIN subs[c] = 1..Len(subs[c]) /\ Len(subs[c]) \in Nat
  BY ListShape
<1> QED BY <1>1, <1>2, <1>3, ListSteps DEF SameList

\* Nothing that was broadcast is forgotten.
LEMMA BroadcastsStay ==
  ASSUME TypeInv, [Next]_vars
  PROVE  Broadcasts \subseteq Broadcasts'
BY SentStays, InputKept DEF Broadcasts

\* A request is opened by the worker that accepts it.
LEMMA OpensOnce ==
  ASSUME TypeInv, [Next]_vars, NEW r \in Requests, conn'[r] = "open"
  PROVE  conn[r] \in {"idle", "open"}
<1>a. conn \in [Requests -> ConnStates]
  BY DEF TypeInv, TypeOK, ClientType
<1>b. ~Die
  BY DEF Die
<1>1. ASSUME NEW t \in Workers, Accept(t) PROVE conn[r] \in {"idle", "open"}
  BY <1>1, <1>a DEF Accept, Arrives, RejectMethod, DropUnparsed, SubNotFound, PoolNotFound, Begin
<1>2. ASSUME NEW t \in Workers, Lock(t) \/ Handle(t) PROVE conn[r] = "open"
  BY <1>2, <1>a, <1>b
  DEF Lock, Handle, PubPush, BroadcastCount, Insert, ClearDelete, ClearReset, NullChannel,
      SubAnswer, ServeFile, FileAllocFail, PoolJoin, PoolPark, PoolReply, DelErase, DelDone,
      BumpLoad, BumpStore, ReleaseUnheld, Unlock, SendOk, clientVars
<1>3. CASE Tick \/ TimerFire \/ TimerLock \/ Sweep
  BY <1>3, <1>a, <1>b
  DEF Tick, TimerFire, TimerLock, Sweep, Deliver, Delivered, Evict, Expire, Spare, NextChannel,
      TimerUnlock, TouchFreed, SendAndEnd, clientVars
<1>4. CASE Environment \/ UNCHANGED vars
  BY <1>4, <1>a, <1>b
  DEF Environment, Start, Crash, RaceCrash, DbToggle, Disconnect, vars, clientVars
<1> QED BY <1>1, <1>2, <1>3, <1>4 DEF Next

\* A request that is covered stays so: what is inserted was pushed before or
\* is broadcast.
LEMMA CoveredStays ==
  ASSUME WaitingInv, PushedInv, [Next]_vars, ~Die, NEW r \in Requests,
         input[r].cid \in Channel, Covered(r)
  PROVE  Covered(r)'
<1>a. TypeInv /\ input' = input
  BY InputKept DEF WaitingInv
<1> DEFINE c == input[r].cid
<1> SUFFICES ASSUME NEW x \in Select(table', c, input[r].seq)
             PROVE  x \in msg'[c] \cup Broadcasts'
  BY <1>a DEF Covered
<1>1. PICK row \in table' : row.channel = c /\ row.seq >= input[r].seq /\ row.content = x
  BY DEF Select
<1>2. CASE row \in table
  <2>1. x \in msg[c] \cup Broadcasts
    BY <1>1, <1>2 DEF Covered, Select
  <2> QED BY <1>a, <2>1, QueuesGrow, BroadcastsStay
<1>3. CASE row \notin table
  <2>1. PICK t \in Workers : Insert(t)
    <3>1. \A t \in Workers : ~ClearDelete(t)
      BY <1>3 DEF ClearDelete, DeleteChannel
    <3> QED BY <1>1, <1>3, <3>1, TableSteps
  <2>2. row = Row(local[t], count[local[t]], In(t).content) /\ pc[t] = "insert"
    BY <1>1, <1>3, <2>1 DEF Insert, InsertRow
  <2>3. local[t] = c /\ In(t).content = x
    BY <1>1, <2>2 DEF Row
  <2>4. CASE In(t).kind = "pub"
    BY <1>a, <2>2, <2>3, <2>4, QueuesGrow DEF PushedInv
  <2>5. CASE In(t).kind = "broadcast"
    <3>1. req[t] \in Requests /\ conn[req[t]] # "idle" /\ In(t).form = "get"
      BY <2>2 DEF WaitingInv, TypeInv, RequestInv, RequestInvOf, AcceptedInv, LockInv, LockInvOf,
                  Threads
    <3>2. x \in Broadcasts
      BY <2>3, <2>5, <3>1 DEF Broadcasts, In
    <3> QED BY <1>a, <3>2, BroadcastsStay
  <2> QED BY <2>2, <2>4, <2>5 DEF WaitingInv, HandledInv
<1> QED BY <1>2, <1>3

\* A request waits from the moment it is parked.
LEMMA WaitsSteps ==
  ASSUME WaitingInv, [Next]_vars, NEW r \in Requests, Waits(r)'
  PROVE  /\ ~Die /\ IsPool(r) /\ input[r].cid \in Channel
         /\ Waits(r) \/ \E t \in Workers : PoolPark(t) /\ req[t] = r
<1>a. /\ TypeInv /\ input' = input
      /\ pc \in [Threads -> WorkerPCs \cup TimerPCs] /\ conn \in [Requests -> ConnStates]
  BY InputKept DEF WaitingInv, TypeInv, TypeOK, ControlType, ClientType
<1>b. ~Die
  BY DEF Die, Waits
<1>c. ASSUME NEW t \in Workers, PoolJoin(t) PROVE req[t] # r
  BY <1>a, <1>c DEF PoolJoin, Goto, Waits, Threads
<1>d. Listed(r)
  BY <1>a, <1>c, ListedSteps DEF Waits
<1>e. PICK c \in Channel : \E k \in DOMAIN subs[c] : subs[c][k].req = r
  BY <1>d DEF Listed
<1>f. IsPool(r) /\ conn[r] # "idle" /\ input[r].cid \in Channel
  BY <1>e DEF WaitingInv, ListedInv, Place, IsPool
<1>1. conn[r] = "open"
  BY <1>a, <1>b, <1>f, OpensOnce DEF Waits
<1>2. CASE \A t \in Workers : pc[t] = "query" => req[t] # r
  BY <1>b, <1>d, <1>f, <1>1, <1>2 DEF Waits
<1>3. ASSUME NEW t \in Workers, pc[t] = "query", req[t] = r PROVE PoolPark(t)
  <2>1. PoolPark(t) \/ PoolReply(t)
    <3>1. ~(pc'[t] = pc[t] /\ req'[t] = req[t])
      BY <1>3 DEF Waits
    <3>2. ~Accept(t) /\ ~Lock(t)
      BY <1>3 DEF Accept, Arrives, RejectMethod, DropUnparsed, SubNotFound, PoolNotFound, Begin, Lock
    <3>3. Handle(t)
      BY <1>a, <1>b, <3>1, <3>2, OwnSteps
    <3> QED BY <1>3, <3>3
        DEF Handle, PubPush, BroadcastCount, Insert, ClearDelete, ClearReset, NullChannel,
            SubAnswer, ServeFile, FileAllocFail, PoolJoin, DelErase, DelDone, BumpLoad, BumpStore,
            ReleaseUnheld, Unlock, SendOk
  <2>2. ~PoolReply(t)
    BY <1>a, <1>3 DEF PoolReply, Waits
  <2> QED BY <2>1, <2>2
<1> QED BY <1>b, <1>f, <1>2, <1>3

LEMMA WakeStep ==
  WaitingInv /\ NumberingInv /\ PushedInv /\ WakeInv /\ [Next]_vars => WakeInv'
<1> SUFFICES ASSUME WaitingInv, NumberingInv, PushedInv, WakeInv, [Next]_vars,
                    NEW r \in Requests, Asks(r)'
             PROVE  Covered(r)'
  BY DEF WakeInv
<1>a. input' = input /\ ~Die /\ IsPool(r) /\ input[r].cid \in Channel
  BY InputKept, WaitsSteps DEF Asks
<1>1. CASE Waits(r)
  <2>1. Asks(r)
    BY <1>a, <1>1 DEF Asks
  <2> QED BY <1>a, <2>1, CoveredStays DEF WakeInv
<1>2. ASSUME NEW t \in Workers, PoolPark(t), req[t] = r PROVE Covered(r)'
  <2>1. {} \in Answers(input[r]) /\ table' = table
    BY <1>2 DEF PoolPark, dbVars, In
  <2>2. input[r].time = "none" /\ ~UnsetSql(input[r]) /\ dbUp /\ input[r].kind = "pool"
    BY <1>a DEF Asks, NumberingInv, IsPool
  <2>3. Select(table, input[r].cid, input[r].seq) = {}
    BY <2>1, <2>2 DEF Answers, FirstSeq
  <2> QED BY <1>a, <2>1, <2>3 DEF Covered
<1> QED BY <1>1, <1>2, WaitsSteps DEF Asks

----------------------------------------------------------------------------
(* Theorems on the table and the clients *)

LEMMA QueueInit == Init => QueueInv
BY DEF Init, QueueInv

\* With any number of workers, channels and requests, across crashes and
\* restarts: outside the mutex what timer_cb will deliver is what the table
\* holds, until a clear, if the database always answers and pool requests are
\* well formed.
THEOREM QueueHoldsStored ==
  ASSUME WellFormedPools, "db" \notin Faults
  PROVE  Spec => []QueueIsStored
<1> DEFINE Inv == WaitingInv /\ NumberingInv /\ QueueInv
<1>1. Init => Inv
  BY WaitingInit, NumberingInit, QueueInit
<1>2. Inv /\ [Next]_vars => Inv'
  BY WaitingStep, NumberingStep, QueueStep DEF WaitingInv
<1>3. Inv => QueueIsStored
  BY QueueHolds DEF WaitingInv
<1> QED BY <1>1, <1>2, <1>3, PTL DEF Spec

\* Under the same assumptions the message of every publisher that has its "ok"
\* is stored, a broadcast in every channel, and stays so until a clear.
THEOREM AcknowledgedStays ==
  ASSUME WellFormedPools, "db" \notin Faults
  PROVE  Spec => []AckedIsStored
<1> DEFINE Inv == WaitingInv /\ NumberingInv /\ AckInv
<1>1. Init => Inv
  BY WaitingInit, NumberingInit, AckInit
<1>2. Inv /\ [Next]_vars => Inv'
  BY WaitingStep, NumberingStep, AckStep DEF WaitingInv
<1>3. Inv => AckedIsStored
  BY DEF AckInv, AckedIsStored, Published
<1> QED BY <1>1, <1>2, <1>3, PTL DEF Spec

\* With any number of workers, channels and requests, whatever crashes, fails or
\* hangs up: a client receives only what was published to its channel and what
\* the evbuffer of the sweep kept for a client that hung up, if no query is sent
\* from an uninitialised buffer and pool requests are well formed.
THEOREM StrayIsCarried ==
  ASSUME WellFormedPools, DefinedQueries
  PROVE  Spec => []StrayFromGone
<1> DEFINE Inv == WaitingInv /\ SourceInv /\ CarryInv /\ OwnInv
<1>1. Init => Inv
  BY WaitingInit, SourceInit, OwnInit
<1>2. Inv /\ [Next]_vars => Inv'
  BY WaitingStep, SourceStep, CarryStep, OwnStep
<1>3. Inv => StrayFromGone
  BY DEF OwnInv, StrayFromGone, Stray, PublishedTo
<1> QED BY <1>1, <1>2, <1>3, PTL DEF Spec

\* So nothing strays while no client of a parked request hangs up.
THEOREM OwnChannel ==
  ASSUME WellFormedPools, "disconnect" \notin Faults, DefinedQueries
  PROVE  Spec => []OwnChannelOnly
<1> DEFINE Inv == WaitingInv /\ EmptyBufInv
<1>1. Init => Inv
  BY WaitingInit, EmptyBufInit
<1>2. Inv /\ [Next]_vars => Inv'
  BY WaitingStep, EmptyBufStep
<1>3. Inv /\ StrayFromGone => OwnChannelOnly
  BY DEF EmptyBufInv, StrayFromGone, OwnChannelOnly
<1> QED BY <1>1, <1>2, <1>3, StrayIsCarried, PTL DEF Spec

\* A client is told that its channel or its own wait timed out only when no
\* message is queued for it: timer_cb delivers before it looks at timeouts, if
\* no client of a parked request hangs up and pool requests are well formed.
THEOREM MessagesGoFirst ==
  ASSUME WellFormedPools, "disconnect" \notin Faults
  PROVE  Spec => MessagesBeforeTimeout
<1> DEFINE Inv == WaitingInv /\ EmptyBufInv /\ ServedFirst
<1>1. Init => Inv
  BY WaitingInit, EmptyBufInit, ServedFirstInit
<1>2. Inv /\ [Next]_vars => Inv'
  BY WaitingStep, EmptyBufStep, ServedFirstStep DEF WaitingInv
<1>3. Inv /\ [Next]_vars
      => [\A r \in Requests : Destroyed \in got'[r] \ got[r] => msg[input[r].cid] = {}]_vars
  BY MessagesFirst
<1> QED BY <1>1, <1>2, <1>3, PTL DEF Spec, MessagesBeforeTimeout

\* Whoever hangs up, a client that is told of a timeout is told everything that
\* is queued for it with it, if pool requests are well formed.
THEOREM TimeoutsBringMessages ==
  ASSUME WellFormedPools
  PROVE  Spec => TimeoutWithMessages
<1> DEFINE Inv == WaitingInv /\ ServedFirst
<1>1. Init => Inv
  BY WaitingInit, ServedFirstInit
<1>2. Inv /\ [Next]_vars => Inv'
  BY WaitingStep, ServedFirstStep DEF WaitingInv
<1>3. Inv /\ [Next]_vars
      => [\A r \in Requests : Destroyed \in got'[r] \ got[r] => msg[input[r].cid] \subseteq got'[r]]_vars
  BY MessagesAlong
<1> QED BY <1>1, <1>2, <1>3, PTL DEF Spec, TimeoutWithMessages

\* No wakeup is lost, with any number of workers, channels and requests and
\* across crashes: once a parked request's query has found nothing, whatever is
\* stored that it asks for is queued for the next sweep, unless it was
\* broadcast, if the database always answers and pool requests are well formed.
THEOREM WakeupsKept ==
  ASSUME WellFormedPools, "db" \notin Faults
  PROVE  Spec => []NoLostWakeup
<1> DEFINE Inv == WaitingInv /\ NumberingInv /\ PushedInv /\ WakeInv
<1>1. Init => Inv
  BY WaitingInit, NumberingInit, WakeInit
<1>2. Inv /\ [Next]_vars => Inv'
  BY WaitingStep, NumberingStep, PushedStep, WakeStep DEF WaitingInv
<1>3. Inv => NoLostWakeup
  <2> SUFFICES ASSUME WakeInv, NEW r \in Requests, Parked(r), input[r].time = "none",
                      ~UnsetSql(input[r])
               PROVE  Covered(r)
    BY DEF NoLostWakeup, Covered
  <2>1. Asks(r)
    BY DEF Parked, Asks, Waits
  <2> QED BY <2>1 DEF WakeInv
<1> QED BY <1>1, <1>2, <1>3, PTL DEF Spec
=============================================================================
