--------------------------- MODULE ServiceProofs ---------------------------
(***************************************************************************)
(* The server implements its service, for any number of workers, channels  *)
(* and requests, as long as its database answers, no client of a parked    *)
(* request hangs up and pool requests are well formed: every step of the   *)
(* threads, the sweep and the process is a step of MessageService on the   *)
(* logs that the table stands for, or leaves what the clients see alone.   *)
(***************************************************************************)
EXTENDS StorageProofs

----------------------------------------------------------------------------
(* The log of a channel *)

Rows == [channel : Channel, seq : Nat, content : Contents]

\* No two rows have the same key.
Keyed(t) ==
  \A row, other \in t : row.channel = other.channel /\ row.seq = other.seq => row = other

LogOf(t, c) ==
  [n \in SeqsOf(t, c) |-> (CHOOSE row \in t : row.channel = c /\ row.seq = n).content]

LEMMA LogIs == Log = [c \in Channel |-> LogOf(table, c)]
BY DEF Log, LogOf

LEMMA LogNextIs == Log' = [c \in Channel |-> LogOf(table', c)]
BY DEF Log, LogOf, SeqsOf

LEMMA LogValue ==
  ASSUME NEW t, Keyed(t), NEW row \in t
  PROVE  /\ row.seq \in SeqsOf(t, row.channel)
         /\ LogOf(t, row.channel)[row.seq] = row.content
<1>1. row.seq \in SeqsOf(t, row.channel)
  BY DEF SeqsOf
<1>2. (CHOOSE other \in t : other.channel = row.channel /\ other.seq = row.seq) = row
  BY DEF Keyed
<1> QED BY <1>1, <1>2 DEF LogOf

LEMMA LogRow ==
  ASSUME NEW t, Keyed(t), NEW c, NEW n \in SeqsOf(t, c)
  PROVE  \E row \in t : row.channel = c /\ row.seq = n /\ LogOf(t, c)[n] = row.content
<1>1. PICK row \in t : row.channel = c /\ row.seq = n
  BY DEF SeqsOf
<1> QED BY <1>1, LogValue

\* Messages numbered from 1 without a gap are a sequence.
LEMMA LogIsSeq ==
  ASSUME NEW t \in SUBSET Rows, Keyed(t), NEW c, NEW n \in Nat, SeqsOf(t, c) = 1..n
  PROVE  LogOf(t, c) \in Seq(Contents) /\ Len(LogOf(t, c)) = n
<1>1. ASSUME NEW k \in 1..n PROVE LogOf(t, c)[k] \in Contents
  <2>1. PICK row \in t : LogOf(t, c)[k] = row.content
    BY LogRow
  <2> QED BY <2>1 DEF Rows
<1>2. LogOf(t, c) = [k \in 1..n |-> LogOf(t, c)[k]]
  BY DEF LogOf
<1> QED BY <1>1, <1>2

\* The log of a channel depends on its rows only.
LEMMA LogSame ==
  ASSUME NEW t, NEW u, Keyed(t), Keyed(u), NEW c,
         {row \in t : row.channel = c} = {row \in u : row.channel = c}
  PROVE  LogOf(t, c) = LogOf(u, c)
<1>1. SeqsOf(t, c) = SeqsOf(u, c)
  BY DEF SeqsOf
<1>2. ASSUME NEW n \in SeqsOf(t, c) PROVE LogOf(t, c)[n] = LogOf(u, c)[n]
  <2>1. PICK row \in t : row.channel = c /\ row.seq = n /\ LogOf(t, c)[n] = row.content
    BY LogRow
  <2>2. row \in u
    BY <2>1
  <2> QED BY <2>1, <2>2, LogValue
<1>3. LogOf(t, c) = [n \in SeqsOf(t, c) |-> LogOf(t, c)[n]]
  BY DEF LogOf
<1>4. LogOf(u, c) = [n \in SeqsOf(u, c) |-> LogOf(u, c)[n]]
  BY DEF LogOf
<1> QED BY <1>1, <1>2, <1>3, <1>4

----------------------------------------------------------------------------
(* Keys *)

KeyInv == Keyed(table)

LEMMA KeyStep == TypeInv /\ KeyInv /\ [Next]_vars => KeyInv'
<1> SUFFICES ASSUME TypeInv, KeyInv, [Next]_vars PROVE Keyed(table')
  BY DEF KeyInv, Keyed
<1>1. ASSUME NEW t \in Workers, Insert(t) PROVE Keyed(table')
  <2>1. PICK c, n, x : table' = table \/ (n \notin SeqsOf(table, c) /\ table' = table \cup {Row(c, n, x)})
    BY <1>1 DEF Insert, InsertRow
  <2>2. CASE n \notin SeqsOf(table, c) /\ table' = table \cup {Row(c, n, x)}
    <3>1. \A row \in table : ~(row.channel = c /\ row.seq = n)
      BY <2>2 DEF SeqsOf
    <3>2. Row(c, n, x).channel = c /\ Row(c, n, x).seq = n
      BY DEF Row
    <3> QED BY <2>2, <3>1, <3>2 DEF KeyInv, Keyed
  <2> QED BY <2>1, <2>2 DEF KeyInv
<1>2. ASSUME NEW t \in Workers, ClearDelete(t) PROVE Keyed(table')
  <2>1. table' \subseteq table
    BY <1>2 DEF ClearDelete, DeleteChannel
  <2> QED BY <2>1 DEF KeyInv, Keyed
<1> QED BY <1>1, <1>2, TableSteps DEF KeyInv

----------------------------------------------------------------------------
(* How the logs change *)

LEMMA LogInit == Init => Log = [c \in Channel |-> <<>>]
<1> SUFFICES ASSUME Init PROVE \A c \in Channel : LogOf(table, c) = <<>>
  BY LogIs
<1>1. table = {}
  BY DEF Init
<1>2. ASSUME NEW c \in Channel PROVE LogOf(table, c) = <<>>
  <2>1. SeqsOf(table, c) = 1..0 /\ Keyed(table) /\ table \in SUBSET Rows
    BY <1>1 DEF SeqsOf, Keyed
  <2>2. LogOf(table, c) \in Seq(Contents) /\ Len(LogOf(table, c)) = 0
    BY <2>1, LogIsSeq
  <2> QED BY <2>2, EmptySeq
<1> QED BY <1>2

LEMMA LogKept == table' = table => Log' = Log
BY LogIs, LogNextIs

\* An insert appends to the log of its channel.
LEMMA LogAppends ==
  ASSUME WaitingInv, NumberingInv, KeyInv, [Next]_vars, NEW t \in Workers, Insert(t)
  PROVE  /\ local[t] \in Channel
         /\ Log' = [Log EXCEPT ![local[t]] = Append(@, In(t).content)]
<1> DEFINE c == local[t]
           n == count[c]
           x == In(t).content
<1>a. TypeInv /\ LockInv /\ KeyInv'
  BY KeyStep DEF WaitingInv
<1>b. Keyed(table) /\ Keyed(table')
  BY <1>a DEF KeyInv, Keyed
<1>c. x \in Contents
  BY <1>a DEF Insert, In, TypeInv, TypeOK, ClientType, InputType, RequestInv, RequestInvOf
<1>1. /\ c \in Channel /\ n \in Nat \ {0} /\ SeqsOf(table, c) = 1..(n - 1)
      /\ table' = table \cup {Row(c, n, x)}
  BY <1>a, InsertAdds
<1>2. table \in SUBSET Rows
  BY <1>a DEF TypeInv, TypeOK, TableType, Rows
<1>3. table' \in SUBSET Rows
  BY <1>c, <1>1, <1>2 DEF Row, Rows
<1>4. Row(c, n, x).channel = c /\ Row(c, n, x).seq = n /\ Row(c, n, x).content = x
  BY DEF Row
<1>5. SeqsOf(table', c) = 1..n
  <2>1. SeqsOf(table', c) = SeqsOf(table, c) \cup {n}
    BY SMTT(30), <1>1, SeqsOfAdded
  <2>2. \A m \in Nat \ {0} : 1..(m - 1) \cup {m} = 1..m
    OBVIOUS
  <2>3. 1..(n - 1) \cup {n} = 1..n
    BY <1>1, <2>2
  <2> QED BY <1>1, <2>1, <2>3
<1>6. ASSUME NEW d \in Channel, d # c PROVE LogOf(table', d) = LogOf(table, d)
  <2>1. {row \in table' : row.channel = d} = {row \in table : row.channel = d}
    BY <1>1, <1>4, <1>6
  <2> QED BY <1>b, <2>1, LogSame
<1>7. LogOf(table', c) = Append(LogOf(table, c), x)
  <2>1. LogOf(table, c) \in Seq(Contents) /\ Len(LogOf(table, c)) = n - 1
    BY <1>1, <1>2, <1>b, LogIsSeq
  <2>2. LogOf(table', c) \in Seq(Contents) /\ Len(LogOf(table', c)) = n
    BY <1>1, <1>3, <1>5, <1>b, LogIsSeq
  <2>3. LogOf(table', c)[n] = x
    <3>1. Row(c, n, x) \in table'
      BY <1>1
    <3> QED BY <1>4, <1>b, <3>1, LogValue
  <2>4. ASSUME NEW k \in 1..(n - 1) PROVE LogOf(table', c)[k] = LogOf(table, c)[k]
    <3>1. PICK row \in table : row.channel = c /\ row.seq = k /\ LogOf(table, c)[k] = row.content
      BY <1>1, <1>b, LogRow
    <3> QED BY <1>1, <1>b, <3>1, LogValue
  <2>5. /\ Append(LogOf(table, c), x) \in Seq(Contents)
        /\ Len(Append(LogOf(table, c), x)) = n
        /\ \A i \in 1..(n - 1) : Append(LogOf(table, c), x)[i] = LogOf(table, c)[i]
        /\ Append(LogOf(table, c), x)[n] = x
    BY <1>c, <1>1, <2>1, AppendProperties
  <2>6. \A i \in 1..n : LogOf(table', c)[i] = Append(LogOf(table, c), x)[i]
    <3>1. \A i \in 1..n : i = n \/ i \in 1..(n - 1)
      BY <1>1
    <3> QED BY <3>1, <2>3, <2>4, <2>5
  <2> QED BY <2>2, <2>5, <2>6, SeqEqual
<1> QED BY <1>1, <1>6, <1>7, LogIs, LogNextIs

\* A delete empties the log of its channel.
LEMMA LogEmpties ==
  ASSUME WaitingInv, NumberingInv, KeyInv, [Next]_vars, NEW t \in Workers, ClearDelete(t)
  PROVE  Log' = [Log EXCEPT ![In(t).cid] = <<>>]
<1> DEFINE c == In(t).cid
<1>a. Keyed(table) /\ Keyed(table')
  BY KeyStep DEF WaitingInv, KeyInv, Keyed
<1>1. table' = {row \in table : row.channel # c}
  BY DEF ClearDelete, DeleteChannel, NumberingInv
<1>2. table' \in SUBSET Rows
  BY <1>1 DEF WaitingInv, TypeInv, TypeOK, TableType, Rows
<1>3. LogOf(table', c) = <<>>
  <2>1. SeqsOf(table', c) = 1..0
    BY <1>1 DEF SeqsOf
  <2>2. LogOf(table', c) \in Seq(Contents) /\ Len(LogOf(table', c)) = 0
    BY <1>2, <1>a, <2>1, LogIsSeq
  <2> QED BY <2>2, EmptySeq
<1>4. ASSUME NEW d \in Channel, d # c PROVE LogOf(table', d) = LogOf(table, d)
  <2>1. {row \in table' : row.channel = d} = {row \in table : row.channel = d}
    BY <1>1, <1>4
  <2> QED BY <1>a, <2>1, LogSame
<1> QED BY <1>3, <1>4, LogIs, LogNextIs

----------------------------------------------------------------------------
(* What a worker knows before it answers *)

\* sub_handler goes on to its query on an existing channel only.
SubInv ==
  \A t \in Workers : pc[t] \in {"lock", "run"} /\ In(t).kind = "sub" => In(t).cid \in Channel

LEMMA SubStep == WaitingInv /\ SubInv /\ [Next]_vars => SubInv'
<1> SUFFICES ASSUME WaitingInv, SubInv, [Next]_vars,
                    NEW t \in Workers, pc'[t] \in {"lock", "run"}, In(t)'.kind = "sub"
             PROVE  In(t)'.cid \in Channel
  BY DEF SubInv
<1>a. /\ pc \in [Threads -> WorkerPCs \cup TimerPCs] /\ req \in [Threads -> Requests \cup {NoReq}]
      /\ t \in Threads /\ input' = input /\ TypeInv /\ ~Die
  BY InputKept DEF WaitingInv, TypeInv, TypeOK, ControlType, Threads, Die
<1>1. CASE pc[t] \in {"lock", "run"} /\ req'[t] = req[t]
  BY <1>1, <1>a DEF SubInv, In
<1>2. Accept(t) => \/ pc[t] \in {"lock", "run"} /\ req'[t] = req[t]
                   \/ \E r \in Requests : Begin(t, r) /\ req'[t] = r
  BY <1>a DEF Accept, Arrives, RejectMethod, DropUnparsed, SubNotFound, PoolNotFound, Begin, Goto,
              threadVars
<1>3. ASSUME NEW r \in Requests, Begin(t, r), req'[t] = r PROVE In(t)'.cid \in Channel
  BY <1>3, <1>a DEF Begin, In
<1>4. Lock(t) \/ Handle(t) => \/ pc[t] \in {"lock", "run"} /\ req'[t] = req[t]
                              \/ In(t).kind = "broadcast" /\ req'[t] = req[t]
  BY <1>a
  DEF Lock, Handle, PubPush, BroadcastCount, Insert, ClearDelete, ClearReset, NullChannel,
      SubAnswer, ServeFile, FileAllocFail, PoolJoin, PoolPark, PoolReply, DelErase, DelDone,
      BumpLoad, BumpStore, ReleaseUnheld, Unlock, SendOk, Goto, threadVars
<1>5. ~(In(t).kind = "broadcast" /\ req'[t] = req[t])
  BY <1>a DEF In
<1> QED BY <1>a, <1>1, <1>2, <1>3, <1>4, <1>5, OwnSteps

\* A client keeps what it has received.
LEMMA GotGrows ==
  ASSUME TypeInv, [Next]_vars, NEW r \in Requests
  PROVE  got[r] \subseteq got'[r]
<1>a. got \in [Requests -> SUBSET Chunks]
  BY DEF TypeInv, TypeOK, ClientType
<1>1. ASSUME NEW t \in Workers, SubAnswer(t) \/ PoolPark(t) \/ PoolReply(t)
      PROVE  got[r] \subseteq got'[r]
  BY <1>1, <1>a DEF SubAnswer, PoolPark, PoolReply
<1>2. CASE Deliver \/ Evict \/ Expire
  BY <1>2, <1>a DEF Deliver, Evict, Expire, SendAndEnd, clientVars
<1> QED BY <1>1, <1>2, GotSteps

\* A request that waits was told so.
ToldInv == \A r \in Requests : Waits(r) => NoMessage \in got[r]

LEMMA ToldStep == WaitingInv /\ ToldInv /\ [Next]_vars => ToldInv'
<1> SUFFICES ASSUME WaitingInv, ToldInv, [Next]_vars, NEW r \in Requests, Waits(r)'
             PROVE  NoMessage \in got'[r]
  BY DEF ToldInv
<1>a. TypeInv /\ got \in [Requests -> SUBSET Chunks]
  BY DEF WaitingInv, TypeInv, TypeOK, ClientType
<1>1. CASE Waits(r)
  BY <1>1, <1>a, GotGrows DEF ToldInv
<1>2. ASSUME NEW t \in Workers, PoolPark(t), req[t] = r PROVE NoMessage \in got'[r]
  BY <1>2, <1>a DEF PoolPark
<1> QED BY <1>1, <1>2, WaitsSteps

----------------------------------------------------------------------------
(* What a request has written *)

LEMMA WrittenIs ==
  ASSUME NEW t
  PROVE  /\ pc[t] \notin {"run", "insert", "reset", "unlock", "ok"} => Written(t) = {}
         /\ pc[t] \in {"reset", "unlock", "ok"} /\ In(t).kind = "clear" => Written(t) = {In(t).cid}
         /\ pc[t] \in {"run", "insert"} =>
              Written(t) = IF In(t).kind = "broadcast" THEN 0..(local[t] - 1) ELSE {}
         /\ pc[t] = "reset" /\ In(t).kind # "clear" => Written(t) = {}
         /\ pc[t] \in {"unlock", "ok"} /\ In(t).kind # "clear" => Written(t) = Targets(req[t])
BY DEF Written

\* The same after a step.
LEMMA WrittenNextIs ==
  ASSUME NEW t
  PROVE  /\ pc'[t] \notin {"run", "insert", "reset", "unlock", "ok"} => Written(t)' = {}
         /\ pc'[t] \in {"reset", "unlock", "ok"} /\ In(t)'.kind = "clear"
              => Written(t)' = {In(t)'.cid}
         /\ pc'[t] \in {"run", "insert"} =>
              Written(t)' = IF In(t)'.kind = "broadcast" THEN 0..(local'[t] - 1) ELSE {}
         /\ pc'[t] = "reset" /\ In(t)'.kind # "clear" => Written(t)' = {}
         /\ pc'[t] \in {"unlock", "ok"} /\ In(t)'.kind # "clear" => Written(t)' = Targets(req[t])'
BY DEF Written

\* What a worker at rest or at the same point has written stays.
LEMMA WrittenSame ==
  ASSUME NEW t, pc'[t] = pc[t], req'[t] = req[t], local'[t] = local[t], input' = input
  PROVE  Written(t)' = Written(t)
BY DEF Written, In, Targets

\* A request is in the hands of one worker at most.
LEMMA DoneIs ==
  ASSUME HandledInv, NEW t \in Workers, pc[t] # "idle", req[t] \in Requests
  PROVE  Done[req[t]] = Written(t)
<1>1. ASSUME NEW u \in Workers, req[u] = req[t] PROVE Written(u) = Written(t) \/ Written(u) = {}
  BY <1>1, WrittenIs DEF HandledInv
<1>2. Done[req[t]] = UNION {Written(u) : u \in {v \in Workers : req[v] = req[t]}}
  BY DEF Done
<1> QED BY <1>1, <1>2

\* A step that leaves alone what the workers have written.
LEMMA DoneKept ==
  ASSUME \A t \in Workers : /\ Written(t)' = Written(t)
                            /\ req'[t] = req[t] \/ Written(t) = {}
  PROVE  Done' = Done
<1>1. ASSUME NEW r \in Requests
      PROVE  UNION {Written(t)' : t \in {u \in Workers : req'[u] = r}}
               = UNION {Written(t) : t \in {u \in Workers : req[u] = r}}
  BY <1>1
<1> QED BY <1>1 DEF Done

\* A step of worker t, which writes for its request or leaves it.
LEMMA DoneBy ==
  ASSUME HandledInv, NEW t \in Workers, pc[t] # "idle", req[t] \in Requests,
         req'[t] = req[t] \/ pc'[t] = "idle", input' = input,
         \A u \in Workers \ {t} : pc'[u] = pc[u] /\ req'[u] = req[u] /\ local'[u] = local[u]
  PROVE  Done' = [Done EXCEPT ![req[t]] = Written(t)']
<1>1. \A u \in Workers \ {t} : Written(u)' = Written(u)
  BY WrittenSame
<1>2. \A u \in Workers \ {t} : req[u] = req[t] => Written(u) = {}
  BY WrittenIs DEF HandledInv
<1>3. pc'[t] = "idle" => Written(t)' = {}
  BY WrittenNextIs
<1>4. ASSUME NEW r \in Requests, r # req[t]
      PROVE  UNION {Written(u)' : u \in {v \in Workers : req'[v] = r}}
               = UNION {Written(u) : u \in {v \in Workers : req[v] = r}}
  BY <1>1, <1>3, <1>4
<1>5. UNION {Written(u)' : u \in {v \in Workers : req'[v] = req[t]}} = Written(t)'
  BY <1>1, <1>2, <1>3
<1>6. /\ Done = [r \in Requests |-> UNION {Written(u) : u \in {v \in Workers : req[v] = r}}]
      /\ Done' = [r \in Requests |-> UNION {Written(u)' : u \in {v \in Workers : req'[v] = r}}]
  BY DEF Done
<1>7. \A r \in Requests : Done'[r] = [Done EXCEPT ![req[t]] = Written(t)'][r]
  <2> TAKE r \in Requests
  <2>1. CASE r = req[t]
    BY <1>5, <1>6, <2>1
  <2>2. CASE r # req[t]
    BY <1>4, <1>6, <2>2
  <2> QED BY <2>1, <2>2
<1>8. DOMAIN Done = Requests /\ DOMAIN Done' = Requests
  BY <1>6
<1>9. Done' = [r \in Requests |-> Done'[r]]
  BY <1>6, <1>8
<1> QED BY <1>7, <1>8, <1>9

\* The steps of a worker that write to no channel and acknowledge nothing.
Silent(t) ==
  \/ Accept(t) \/ Lock(t) \/ PubPush(t) \/ BroadcastCount(t) \/ ClearReset(t)
  \/ SubAnswer(t) \/ ServeFile(t) \/ FileAllocFail(t) \/ PoolJoin(t) \/ PoolPark(t)
  \/ PoolReply(t) \/ DelErase(t) \/ DelDone(t) \/ BumpLoad(t) \/ BumpStore(t)
  \/ ReleaseUnheld(t) \/ Unlock(t)

\* A step of worker t is no other worker's.
LEMMA MovesAlone ==
  ASSUME TypeInv, NEW t \in Workers, Silent(t) \/ Insert(t) \/ ClearDelete(t) \/ SendOk(t)
  PROVE  /\ \A u \in Workers \ {t} : pc'[u] = pc[u] /\ req'[u] = req[u] /\ local'[u] = local[u]
         /\ input' = input
<1>a. /\ pc \in [Threads -> WorkerPCs \cup TimerPCs] /\ req \in [Threads -> Requests \cup {NoReq}]
      /\ local \in [Threads -> Nat] /\ Workers \subseteq Threads
  BY DEF TypeInv, TypeOK, ControlType, Threads
<1>1. CASE Accept(t)
  BY <1>a, <1>1
  DEF Accept, RejectMethod, DropUnparsed, SubNotFound, PoolNotFound, Begin, Goto, threadVars
<1>2. CASE (Silent(t) /\ ~Accept(t)) \/ Insert(t) \/ ClearDelete(t) \/ SendOk(t)
  BY <1>a, <1>2
  DEF Silent, Lock, PubPush, BroadcastCount, Insert, ClearDelete, ClearReset, SubAnswer,
      ServeFile, FileAllocFail, PoolJoin, PoolPark, PoolReply, DelErase, DelDone, BumpLoad,
      BumpStore, ReleaseUnheld, Unlock, SendOk, Goto, threadVars
<1> QED BY <1>1, <1>2

\* Only an insert, a delete and the answer "ok" change what a request has written.
LEMMA SilentDone ==
  ASSUME WaitingInv, NEW t \in Workers, Silent(t)
  PROVE  Done' = Done
<1> DEFINE Same == Written(t)' = Written(t) /\ (req'[t] = req[t] \/ Written(t) = {})
<1>a. /\ pc \in [Threads -> WorkerPCs \cup TimerPCs] /\ req \in [Threads -> Requests \cup {NoReq}]
      /\ local \in [Threads -> Nat] /\ t \in Threads /\ TypeInv /\ HandledInv
  BY DEF WaitingInv, TypeInv, TypeOK, ControlType, Threads
<1>b. /\ input' = input
      /\ \A u \in Workers \ {t} : pc'[u] = pc[u] /\ req'[u] = req[u] /\ local'[u] = local[u]
  BY <1>a, MovesAlone
<1>c. pc[t] \notin {"run", "insert", "reset", "unlock", "ok"}
        /\ pc'[t] \notin {"run", "insert", "reset", "unlock", "ok"} => Same
  BY WrittenIs, WrittenNextIs
<1>1. ASSUME \/ Accept(t) \/ PoolPark(t) \/ PoolReply(t) \/ DelErase(t) \/ BumpLoad(t)
             \/ BumpStore(t) \/ ReleaseUnheld(t)
      PROVE  Same
  <2>1. CASE Accept(t)
    <3>1. pc[t] = "idle" /\ pc'[t] \in {"idle", "load", "lock"}
      BY <1>a, <2>1 DEF Accept, Arrives, RejectMethod, DropUnparsed, SubNotFound, PoolNotFound,
                        Begin, Goto, threadVars
    <3> QED BY <1>c, <3>1
  <2>2. CASE ~Accept(t)
    <3>1. /\ pc[t] \in {"query", "del", "load", "store", "release"}
          /\ pc'[t] \in {"load", "del", "store", "idle", "release"}
      BY <1>a, <1>1, <2>2
      DEF PoolPark, PoolReply, DelErase, BumpLoad, BumpStore, ReleaseUnheld, Goto, threadVars
    <3> QED BY <1>c, <3>1
  <2> QED BY <2>1, <2>2
<1>2. ASSUME Lock(t) PROVE Same
  <2>1. /\ pc[t] = "lock" /\ pc'[t] = "run" /\ local'[t] = 0 /\ req' = req
    BY <1>a, <1>2 DEF Lock, Goto
  <2>2. 0..(0 - 1) = {}
    OBVIOUS
  <2>3. Written(t)' = {} /\ Written(t) = {}
    BY <2>1, <2>2, WrittenIs, WrittenNextIs
  <2> QED BY <2>3
<1>3. ASSUME PubPush(t) \/ BroadcastCount(t) PROVE Same
  <2>1. /\ pc[t] = "run" /\ pc'[t] = "insert" /\ req' = req /\ In(t)' = In(t)
        /\ In(t).kind = "broadcast" => local'[t] = local[t]
    BY <1>a, <1>b, <1>3 DEF PubPush, BroadcastCount, Goto, In
  <2>2. Written(t)' = Written(t)
    BY <2>1, WrittenIs, WrittenNextIs
  <2> QED BY <2>1, <2>2
<1>4. ASSUME ClearReset(t) PROVE Same
  <2>1. /\ pc[t] = "reset" /\ pc'[t] = "unlock" /\ req' = req /\ In(t)' = In(t)
        /\ In(t).kind = "clear"
    BY <1>a, <1>b, <1>4 DEF ClearReset, Goto, In, HandledInv
  <2>2. Written(t)' = Written(t)
    BY <2>1, WrittenIs, WrittenNextIs
  <2> QED BY <2>1, <2>2
<1>5. ASSUME SubAnswer(t) \/ ServeFile(t) \/ DelDone(t) PROVE Same
  <2>1. /\ pc[t] \in {"run", "del"} /\ pc'[t] = "unlock" /\ req' = req /\ In(t)' = In(t)
        /\ In(t).kind \notin AdminKinds
    BY <1>a, <1>b, <1>5
    DEF SubAnswer, ServeFile, DelDone, Goto, In, HandledInv, IsPool, AdminKinds, FileKinds
  <2>2. Targets(req[t])' = {}
    BY <1>b, <2>1 DEF Targets, In, AdminKinds
  <2>3. Written(t)' = {} /\ Written(t) = {}
    BY <2>1, <2>2, WrittenIs, WrittenNextIs DEF AdminKinds
  <2> QED BY <2>3
<1>6. ASSUME FileAllocFail(t) \/ PoolJoin(t) PROVE Same
  <2>1. /\ pc[t] = "run" /\ pc'[t] \in {"idle", "query"} /\ In(t).kind # "broadcast"
    BY <1>a, <1>6 DEF FileAllocFail, PoolJoin, Goto, FileKinds
  <2>2. Written(t)' = {} /\ Written(t) = {}
    BY <2>1, WrittenIs, WrittenNextIs
  <2> QED BY <2>2
<1>7. ASSUME Unlock(t) PROVE Same
  <2>1. pc[t] = "unlock" /\ In(t)' = input[req'[t]]
    BY <1>b, <1>7 DEF Unlock, In
  <2>2. CASE In(t).kind \in AdminKinds
    <3>1. pc'[t] = "ok" /\ req' = req /\ In(t)' = In(t) /\ Targets(req[t])' = Targets(req[t])
      BY <1>a, <1>b, <1>7, <2>2 DEF Unlock, Goto, In, Targets
    <3>2. Written(t)' = Written(t)
      BY <2>1, <3>1, WrittenIs, WrittenNextIs
    <3> QED BY <3>1, <3>2
  <2>3. CASE In(t).kind \notin AdminKinds
    <3>1. pc'[t] = "idle" /\ Targets(req[t]) = {}
      BY <1>a, <1>7, <2>3 DEF Unlock, Goto, In, Targets, AdminKinds
    <3>2. Written(t)' = {} /\ Written(t) = {}
      BY <2>1, <2>3, <3>1, WrittenIs, WrittenNextIs DEF AdminKinds
    <3> QED BY <3>2
  <2> QED BY <2>2, <2>3
<1>8. Same
  BY <1>1, <1>2, <1>3, <1>4, <1>5, <1>6, <1>7 DEF Silent
<1>9. \A u \in Workers \ {t} : Written(u)' = Written(u) /\ req'[u] = req[u]
  BY <1>b, WrittenSame
<1> QED BY <1>8, <1>9, DoneKept

\* What no worker does leaves it alone, too.
LEMMA OthersDone ==
  ASSUME TypeInv,
         \/ Tick \/ TimerFire \/ TimerLock \/ Delivered \/ Deliver \/ Evict \/ Expire \/ Spare
         \/ NextChannel \/ TimerUnlock \/ Start \/ DbToggle \/ UNCHANGED vars
  PROVE  Done' = Done
<1> DEFINE Steady == /\ req' = req /\ local' = local /\ input' = input
                     /\ \A t \in Workers : pc'[t] = pc[t]
<1>a. \A l : Advance(l) => \A t \in Workers : pc'[t] = pc[t]
  BY ThreadsAssumption DEF TypeInv, TypeOK, ControlType, Threads, Advance
<1>b. ASSUME Tick \/ Deliver \/ Evict \/ Expire \/ Spare \/ Start \/ DbToggle PROVE Steady
  BY <1>b DEF Tick, Deliver, Evict, Expire, Spare, Start, DbToggle, threadVars
<1>c. ASSUME TimerFire \/ TimerLock \/ Delivered \/ NextChannel \/ TimerUnlock PROVE Steady
  BY <1>a, <1>c DEF TimerFire, TimerLock, Delivered, NextChannel, TimerUnlock
<1>d. ASSUME UNCHANGED vars PROVE Steady
  BY <1>d DEF vars, threadVars
<1>1. Steady
  BY <1>b, <1>c, <1>d
<1> QED BY <1>1, WrittenSame, DoneKept

\* The end of the process ends every request.
LEMMA DieDone == Die => Done' = [r \in Requests |-> {}]
<1> SUFFICES ASSUME Die PROVE Done' = [r \in Requests |-> {}]
  OBVIOUS
<1>1. \A t \in Workers : Written(t)' = {}
  BY WrittenNextIs DEF Die, Threads
<1> QED BY <1>1 DEF Done

LEMMA DoneInit == Init => Done = [r \in Requests |-> {}]
<1> SUFFICES ASSUME Init PROVE Done = [r \in Requests |-> {}]
  OBVIOUS
<1>1. \A t \in Workers : Written(t) = {}
  BY WrittenIs DEF Init, Threads
<1> QED BY <1>1 DEF Done

----------------------------------------------------------------------------
(* The words of the service *)

LEMMA FromIs ==
  ASSUME KeyInv, NEW c \in Channel, NEW n
  PROVE  Service!From(c, n) = Select(table, c, n)
<1>a. Keyed(table)
  BY DEF KeyInv
<1>1. Log[c] = LogOf(table, c) /\ DOMAIN Log[c] = SeqsOf(table, c)
  BY LogIs DEF LogOf
<1>2. ASSUME NEW k \in SeqsOf(table, c), k >= n PROVE Log[c][k] \in Select(table, c, n)
  <2>1. PICK row \in table : row.channel = c /\ row.seq = k /\ LogOf(table, c)[k] = row.content
    BY <1>a, LogRow
  <2> QED BY <1>1, <1>2, <2>1 DEF Select
<1>3. ASSUME NEW row \in table, row.channel = c, row.seq >= n
      PROVE  row.content \in Service!From(c, n)
  <2>1. row.seq \in SeqsOf(table, c) /\ LogOf(table, c)[row.seq] = row.content
    BY <1>a, <1>3, LogValue
  <2> QED BY <1>1, <1>3, <2>1 DEF Service!From
<1>4. Service!From(c, n) \subseteq Select(table, c, n)
  BY <1>1, <1>2 DEF Service!From
<1>5. Select(table, c, n) \subseteq Service!From(c, n)
  BY <1>3 DEF Select
<1> QED BY <1>4, <1>5

LEMMA PublishesIs == \A p \in Requests : Service!Publishes(p) = Targets(p)
BY DEF Service!Publishes, Service!IsKind, Targets

LEMMA WritesIs ==
  \A p \in Requests : input[p].form = "get" =>
    Service!Writes(p) = IF input[p].kind = "clear" THEN {input[p].cid} ELSE Targets(p)
BY PublishesIs DEF Service!Writes, Service!IsKind

LEMMA PublishedIs == \A x, c : PublishedTo(x, c) => x \in Service!Published(c)
BY PublishesIs DEF PublishedTo, Service!Published

LEMMA BroadcastsIs == Service!Broadcasts = Broadcasts
BY DEF Service!Broadcasts, Service!IsKind, Broadcasts

\* What a query answers is what the service answers.
LEMMA AnswerIs ==
  ASSUME TypeInv, KeyInv, dbUp, NEW r \in Requests, input[r].kind \in {"sub", "pool"},
         input[r].cid \in Channel, NEW answer \in Answers(input[r])
  PROVE  Service!Answer(r, answer)
<1>1. Service!Undefined(r) <=> UnsetSql(input[r])
  BY DEF Service!Undefined, UnsetSql
<1>2. CASE UnsetSql(input[r])
  <2>1. \/ answer = {}
        \/ \E c \in Channel, n \in {0} \cup {row.seq : row \in table} : answer = Select(table, c, n)
    BY <1>2 DEF Answers
  <2>2. ASSUME NEW c \in Channel, NEW n \in {0} \cup {row.seq : row \in table},
               answer = Select(table, c, n)
        PROVE  answer \subseteq Service!From(c, 0)
    <3>1. Select(table, c, n) \subseteq Select(table, c, 0)
      BY DEF Select, TypeInv, TypeOK, TableType
    <3> QED BY <2>2, <3>1, FromIs
  <2>3. \E c \in Channel : answer \subseteq Service!From(c, 0)
    BY <2>1, <2>2, ChannelZero
  <2> QED BY <1>1, <1>2, <2>3 DEF Service!Answer
<1>3. CASE ~UnsetSql(input[r])
  <2>1. answer = IF input[r].time = "miss" THEN {}
                 ELSE Select(table, input[r].cid, FirstSeq(input[r]))
    BY <1>3 DEF Answers
  <2>2. Service!Asked(r) = IF input[r].time = "miss" THEN {}
                           ELSE Service!From(input[r].cid, FirstSeq(input[r]))
    BY DEF Service!Asked, FirstSeq
  <2> QED BY <1>1, <1>3, <2>1, <2>2, FromIs DEF Service!Answer
<1> QED BY <1>2, <1>3

\* What is due to a waiting request is queued.
LEMMA DueIs ==
  ASSUME KeyInv, WakeInv, NEW r \in Requests, Waits(r), IsPool(r)
  PROVE  Service!Due(r) \subseteq msg[input[r].cid]
<1>1. input[r].kind = "pool" /\ input[r].cid \in Channel
  BY DEF IsPool
<1>2. CASE input[r].time # "none" \/ UnsetSql(input[r])
  BY <1>1, <1>2 DEF Service!Due, Service!Undefined, UnsetSql
<1>3. CASE input[r].time = "none" /\ ~UnsetSql(input[r])
  <2>1. Service!Asked(r) = Select(table, input[r].cid, input[r].seq)
    BY <1>1, <1>3, FromIs DEF Service!Asked
  <2>2. Covered(r)
    BY <1>3 DEF WakeInv, Asks
  <2>3. Service!Due(r) \subseteq Service!Asked(r) \ Broadcasts
    BY BroadcastsIs DEF Service!Due
  <2> QED BY <2>1, <2>2, <2>3 DEF Covered
<1> QED BY <1>2, <1>3

\* What the sweep delivers is in the log, until a clear.
LEMMA QueueFrom ==
  ASSUME TypeInv, LockInv, NumberingInv, KeyInv, QueueInv, pc[Timer] \in TimerSection, NEW c \in Channel
  PROVE  Service!Cleared(c) \/ msg[c] \subseteq Service!From(c, 1)
<1>1. ClearSent(c) => Service!Cleared(c)
  BY DEF ClearSent, Service!Cleared
<1>2. \A t \in Workers : pc[t] # "insert"
  BY SweepAlone DEF WorkerSection
<1>3. PICK n \in Nat : SeqsOf(table, c) = 1..n
  BY AlwaysResumable DEF Resumable
<1>4. Stored(c) \subseteq Select(table, c, 1)
  <2>1. \A row \in table : row.channel = c => row.seq >= 1
    <3> SUFFICES ASSUME NEW row \in table, row.channel = c PROVE row.seq >= 1
      OBVIOUS
    <3>1. row.seq \in SeqsOf(table, c)
      BY DEF SeqsOf
    <3> QED BY <1>3, <3>1
  <2> QED BY <2>1 DEF Stored, Select
<1> QED BY <1>1, <1>2, <1>4, FromIs DEF QueueInv

----------------------------------------------------------------------------
(* Every step is a step of the service *)

ServiceInv ==
  /\ WaitingInv /\ NumberingInv /\ KeyInv
  /\ EmptyBufInv /\ ServedFirst /\ QueueInv /\ PushedInv /\ WakeInv
  /\ SubInv /\ ToldInv /\ SourceInv

Seen == <<input, conn, got, Log, Done>>

ServiceStep == Service!Next \/ UNCHANGED Seen

LEMMA DieServes ==
  ASSUME Die
  PROVE  Service!Next
<1>1. Log' = Log
  BY LogKept DEF Die, dbVars
<1> QED BY <1>1, DieDone DEF Die, Service!Down, Service!Next

LEMMA AcceptServes ==
  ASSUME ServiceInv, NEW t \in Workers, Accept(t)
  PROVE  Service!Next
<1>1. PICK r \in Requests : \/ RejectMethod(t, r) \/ DropUnparsed(t, r) \/ SubNotFound(t, r)
                            \/ PoolNotFound(t, r) \/ Begin(t, r)
  BY DEF Accept
<1>2. /\ conn[r] = "idle" /\ input' = input /\ got' = got /\ table' = table
      /\ \E to \in {"open", "ended"} : conn' = [conn EXCEPT ![r] = to]
  BY <1>1 DEF RejectMethod, DropUnparsed, SubNotFound, PoolNotFound, Begin, Arrives, dbVars
<1>3. Log' = Log /\ Done' = Done
  BY <1>2, LogKept, SilentDone DEF ServiceInv, Silent
<1>4. Service!Take(r) \/ Service!Refuse(r)
  BY <1>2, <1>3 DEF Service!Take, Service!Refuse, Service!Move
<1> QED BY <1>4 DEF Service!Next

\* What a worker knows of its request when it serves it.
LEMMA WorkerKnows ==
  ASSUME ServiceInv, NEW t \in Workers, Busy(t)
  PROVE  /\ req[t] \in Requests /\ conn[req[t]] = "open" /\ In(t) = input[req[t]]
         /\ In(t).form = "get"
BY DEF ServiceInv, WaitingInv, TypeInv, RequestInv, RequestInvOf, OpenInv, LockInv, LockInvOf,
       Busy, Threads, In

LEMMA InsertServes ==
  ASSUME ServiceInv, [Next]_vars, NEW t \in Workers, Insert(t)
  PROVE  Service!Next
<1>1. /\ req[t] \in Requests /\ conn[req[t]] = "open" /\ In(t) = input[req[t]]
      /\ In(t).form = "get" /\ pc[t] = "insert"
  BY WorkerKnows DEF Insert, Busy
<1>2. /\ local[t] \in Channel
      /\ Log' = [Log EXCEPT ![local[t]] = Append(@, In(t).content)]
  BY LogAppends DEF ServiceInv
<1>3. local[t] \in Service!Publishes(req[t])
  BY <1>1, <1>2, PublishesIs DEF ServiceInv, WaitingInv, HandledInv, Targets
<1>4. input' = input /\ conn' = conn /\ got' = got
  BY DEF Insert, clientVars
<1>5. Done[req[t]] = Written(t) /\ Done' = [Done EXCEPT ![req[t]] = Written(t)']
  BY <1>1, DoneIs, DoneBy, MovesAlone DEF ServiceInv, WaitingInv, Insert
<1>6. local[t] \notin Written(t) /\ Written(t)' = Written(t) \cup {local[t]}
  <2>a. /\ pc \in [Threads -> WorkerPCs \cup TimerPCs] /\ local \in [Threads -> Nat]
        /\ t \in Threads /\ HandledInv /\ req' = req /\ In(t)' = In(t)
        /\ Targets(req[t])' = Targets(req[t])
    BY <1>4 DEF ServiceInv, WaitingInv, TypeInv, TypeOK, ControlType, Threads, Insert, In, Targets
  <2>1. CASE In(t).kind = "broadcast" /\ local[t] < CHAN - 1
    <3>1. pc'[t] = "run" /\ local'[t] = local[t] + 1
      BY <2>a, <2>1 DEF Insert, Goto
    <3>2. Written(t) = 0..(local[t] - 1)
      BY <1>1, <2>1, WrittenIs
    <3>4. pc'[t] = "run" /\ In(t)'.kind = "broadcast"
      BY <2>a, <2>1, <3>1
    <3>5. Written(t)' = 0..(local'[t] - 1)
      BY <3>4, WrittenNextIs
    <3>6. Written(t)' = 0..local[t]
      <4> (local[t] + 1) - 1 = local[t]
        BY <2>a
      <4> QED BY <3>1, <3>5
    <3>3. local[t] \in Nat
      BY <2>a
    <3> QED BY <3>2, <3>3, <3>6
  <2>2. CASE ~(In(t).kind = "broadcast" /\ local[t] < CHAN - 1)
    <3>1. pc'[t] = "unlock"
      BY <2>a, <2>2 DEF Insert, Goto
    <3>2. In(t).kind \in {"pub", "broadcast"} /\ (In(t).kind = "pub" => local[t] = In(t).cid)
      BY <1>1, <2>a DEF HandledInv
    <3>3. Written(t)' = Targets(req[t])
      BY <2>a, <3>1, <3>2, WrittenNextIs
    <3>4. CASE In(t).kind = "pub"
      BY <1>1, <3>2, <3>3, <3>4, WrittenIs DEF Targets
    <3>5. CASE In(t).kind = "broadcast"
      <4>1. local[t] = CHAN - 1
        BY <1>2, <2>2, <3>5, SizesAssumption DEF Channel
      <4>2. Written(t) = 0..(local[t] - 1) /\ Written(t)' = 0..(CHAN - 1)
        BY <1>1, <3>3, <3>5, WrittenIs DEF Targets, Channel
      <4> QED BY <4>1, <4>2, SizesAssumption
    <3> QED BY <3>2, <3>4, <3>5
  <2> QED BY <2>1, <2>2
<1>7. Done' = [Done EXCEPT ![req[t]] = Done[req[t]] \cup {local[t]}]
  BY <1>5, <1>6
<1>8. Service!Publish(req[t], local[t])
  BY <1>1, <1>2, <1>3, <1>4, <1>5, <1>6, <1>7 DEF Service!Publish
<1> QED BY <1>1, <1>2, <1>8 DEF Service!Next

LEMMA DeleteServes ==
  ASSUME ServiceInv, [Next]_vars, NEW t \in Workers, ClearDelete(t)
  PROVE  Service!Next
<1>1. /\ req[t] \in Requests /\ conn[req[t]] = "open" /\ In(t) = input[req[t]]
      /\ In(t).form = "get" /\ In(t).kind = "clear"
  BY WorkerKnows DEF ClearDelete, Busy
<1>2. Log' = [Log EXCEPT ![In(t).cid] = <<>>]
  BY LogEmpties DEF ServiceInv
<1>3. input' = input /\ conn' = conn /\ got' = got
  BY DEF ClearDelete, clientVars
<1>4. Done[req[t]] = Written(t) /\ Done' = [Done EXCEPT ![req[t]] = Written(t)']
  BY <1>1, DoneIs, DoneBy, MovesAlone DEF ServiceInv, WaitingInv, ClearDelete
<1>5. Written(t) = {} /\ Written(t)' = {In(t).cid}
  <2>1. pc[t] = "run" /\ pc'[t] = "reset" /\ In(t)' = In(t)
    BY <1>3 DEF ClearDelete, Goto, In, ServiceInv, WaitingInv, TypeInv, TypeOK, ControlType, Threads
  <2> QED BY <1>1, <2>1, WrittenIs, WrittenNextIs
<1>6. Service!Empty(req[t])
  BY <1>1, <1>2, <1>3, <1>4, <1>5 DEF Service!Empty, Service!IsKind
<1> QED BY <1>1, <1>6 DEF Service!Next

\* The answer "ok" comes with everything written.
LEMMA OkServes ==
  ASSUME ServiceInv, NEW t \in Workers, SendOk(t)
  PROVE  Service!Next
<1>1. /\ req[t] \in Requests /\ conn[req[t]] = "open" /\ In(t) = input[req[t]]
      /\ In(t).form = "get" /\ pc[t] = "ok"
  BY WorkerKnows DEF SendOk, Busy
<1>2. In(t).kind \in AdminKinds
  BY <1>1 DEF ServiceInv, WaitingInv, TypeInv, RequestInv, RequestInvOf
<1>3. /\ input' = input /\ got' = got /\ table' = table /\ pc'[t] = "idle"
      /\ conn' = [conn EXCEPT ![req[t]] = "ended"]
  BY DEF SendOk, Goto, dbVars, ServiceInv, WaitingInv, TypeInv, TypeOK, ControlType, Threads
<1>4. Log' = Log
  BY <1>3, LogKept
<1>5. Done[req[t]] = Written(t) /\ Done' = [Done EXCEPT ![req[t]] = {}]
  BY <1>1, <1>3, DoneIs, DoneBy, MovesAlone, WrittenNextIs DEF ServiceInv, WaitingInv
<1>6. Written(t) = Service!Writes(req[t])
  BY <1>1, WrittenIs, WritesIs
<1>7. Service!IsKind(req[t], {"pub", "broadcast", "clear"})
  BY <1>1, <1>2 DEF AdminKinds, Service!IsKind
<1>8. Service!Acknowledge(req[t])
  BY <1>1, <1>3, <1>4, <1>5, <1>6, <1>7 DEF Service!Acknowledge, Service!Move
<1> QED BY <1>1, <1>8 DEF Service!Next

LEMMA QueryServes ==
  ASSUME ServiceInv, NEW t \in Workers, SubAnswer(t) \/ PoolPark(t) \/ PoolReply(t)
  PROVE  Service!Next
<1>a. Busy(t)
  BY DEF SubAnswer, PoolPark, PoolReply, Busy
<1>b. /\ req[t] \in Requests /\ conn[req[t]] = "open" /\ In(t) = input[req[t]]
      /\ In(t).form = "get"
  BY <1>a, WorkerKnows
<1>c. input' = input /\ table' = table
  BY DEF SubAnswer, PoolPark, PoolReply, dbVars
<1>d. Log' = Log /\ Done' = Done
  BY <1>c, LogKept, SilentDone DEF ServiceInv, Silent
<1>e. /\ SubAnswer(t) => In(t).kind = "sub"
      /\ PoolPark(t) \/ PoolReply(t) => In(t).kind = "pool"
      /\ In(t).cid \in Channel
  <2>1. /\ SubAnswer(t) => pc[t] = "run" /\ In(t).kind = "sub"
        /\ PoolPark(t) \/ PoolReply(t) => pc[t] = "query"
    BY DEF SubAnswer, PoolPark, PoolReply
  <2>2. pc[t] = "run" /\ In(t).kind = "sub" => In(t).cid \in Channel
    BY DEF ServiceInv, SubInv
  <2>3. pc[t] = "query" => In(t).kind = "pool" /\ In(t).cid \in Channel
    BY <1>b DEF ServiceInv, WaitingInv, LockInv, LockInvOf, IsPool, Threads
  <2> QED BY <2>1, <2>2, <2>3
<1>f. \A answer \in Answers(In(t)) : Service!Answer(req[t], answer)
  BY <1>b, <1>e, AnswerIs DEF ServiceInv, WaitingInv, NumberingInv
<1>g. \A answer \in Answers(In(t)) : answer \in SUBSET Contents
  BY AnswersType DEF ServiceInv, WaitingInv
<1>1. CASE SubAnswer(t) \/ PoolReply(t)
  <2>1. PICK answer \in Answers(In(t)) : /\ got' = [got EXCEPT ![req[t]] = @ \cup answer]
                                         /\ PoolReply(t) => answer # {}
    BY <1>1, <1>e DEF SubAnswer, PoolReply
  <2>2. conn' = [conn EXCEPT ![req[t]] = "ended"]
    BY <1>1 DEF SubAnswer, PoolReply
  <2>3. Service!Reply(req[t], answer)
    BY <1>1, <1>b, <1>c, <1>d, <1>e, <1>f, <2>1, <2>2
    DEF Service!Reply, Service!Move, Service!IsKind, Service!Send
  <2> QED BY <1>b, <1>g, <2>1, <2>3 DEF Service!Next
<1>2. CASE PoolPark(t)
  <2>1. {} \in Answers(In(t)) /\ got' = [got EXCEPT ![req[t]] = @ \cup {NoMessage}] /\ conn' = conn
    BY <1>2 DEF PoolPark
  <2>2. Service!Wait(req[t])
    BY <1>2, <1>b, <1>c, <1>d, <1>e, <1>f, <2>1 DEF Service!Wait, Service!IsKind, Service!Send
  <2> QED BY <1>b, <2>2 DEF Service!Next
<1> QED BY <1>1, <1>2

LEMMA FileServes ==
  ASSUME ServiceInv, NEW t \in Workers, ServeFile(t)
  PROVE  Service!Next
<1>1. /\ req[t] \in Requests /\ conn[req[t]] = "open" /\ In(t) = input[req[t]]
      /\ In(t).form = "get" /\ In(t).kind \in FileKinds
  BY WorkerKnows DEF ServeFile, Busy
<1>2. /\ input' = input /\ got' = got /\ table' = table
      /\ conn' = [conn EXCEPT ![req[t]] = "ended"]
  BY DEF ServeFile, dbVars
<1>3. Log' = Log /\ Done' = Done
  BY <1>2, LogKept, SilentDone DEF ServiceInv, Silent
<1>4. Service!SendFile(req[t])
  BY <1>1, <1>2, <1>3 DEF Service!SendFile, Service!Move, Service!IsKind, FileKinds
<1> QED BY <1>1, <1>4 DEF Service!Next

LEMMA SweepServes ==
  ASSUME ServiceInv, Deliver \/ Evict \/ Expire
  PROVE  Service!Next
<1> DEFINE r == Reached.req
<1>a. pc[Timer] \in TimerSection /\ AtSubscriber /\ input' = input /\ table' = table
  BY DEF Deliver, Evict, Expire, TimerSection, dbVars
<1>b. Log' = Log /\ Done' = Done
  BY <1>a, LogKept, OthersDone DEF ServiceInv, WaitingInv
<1>c. WaitingInv /\ EmptyBufInv
  BY DEF ServiceInv
<1>d. /\ pos \in Channel /\ nth \in DOMAIN subs[pos] /\ r \in Requests
      /\ IsPool(r) /\ input[r].cid = pos /\ conn[r] = "open"
  BY <1>a, <1>c, ReachedOpen DEF EmptyBufInv
<1>e. Waits(r)
  <2>1. Listed(r)
    BY <1>d DEF Listed, Reached
  <2>2. \A t \in Workers : pc[t] # "query"
    BY <1>a, <1>c, SweepAlone DEF WaitingInv, WorkerSection
  <2> QED BY <1>d, <2>1, <2>2 DEF Waits
<1>f. Service!Waiting(r)
  BY <1>d, <1>e DEF Service!Waiting, ServiceInv, ToldInv
<1>g. Service!Due(r) \subseteq msg[pos]
  BY <1>d, <1>e, DueIs DEF ServiceInv
<1>h. ASSUME NEW chunks, SendAndEnd(r, chunks)
      PROVE  Service!Send(r, chunks) /\ Service!Move(r, "open", "ended")
  BY <1>a, <1>c, <1>d, <1>h, SweepSends DEF Service!Send, Service!Move
<1>1. CASE Deliver
  <2>1. msg[pos] # {} /\ SendAndEnd(r, msg[pos]) /\ msg[pos] \in SUBSET Contents
    BY <1>1, <1>c, <1>d DEF Deliver, WaitingInv, TypeInv, TypeOK, QueueType
  <2>2. Service!Cleared(pos) \/ msg[pos] \subseteq Service!From(pos, 1)
    BY <1>a, <1>d, QueueFrom DEF ServiceInv, WaitingInv
  <2>3. Service!Send(r, msg[pos]) /\ Service!Move(r, "open", "ended")
    BY <1>h, <2>1
  <2>4. msg[pos] \subseteq Service!Published(pos)
    BY <1>d, PublishedIs DEF ServiceInv, SourceInv
  <2>5. Service!Notify(r, msg[pos])
    BY <1>a, <1>b, <1>d, <1>f, <1>g, <2>1, <2>2, <2>3, <2>4 DEF Service!Notify
  <2> QED BY <1>d, <2>1, <2>5 DEF Service!Next
<1>2. CASE Evict \/ Expire
  <2>1. SendAndEnd(r, {Destroyed}) /\ pc[Timer] = "check"
    BY <1>2 DEF Evict, Expire
  <2>2. msg[pos] = {}
    BY <1>a, <1>c, <2>1, NoneReached DEF ServiceInv, WaitingInv
  <2>3. Service!Send(r, {Destroyed}) /\ Service!Move(r, "open", "ended")
    BY <1>h, <2>1
  <2>4. Service!GiveUp(r)
    BY <1>a, <1>b, <1>f, <1>g, <2>2, <2>3 DEF Service!GiveUp
  <2> QED BY <1>d, <2>4 DEF Service!Next
<1> QED BY <1>1, <1>2

\* The steps the clients do not see.
LEMMA HiddenSteps ==
  ASSUME ServiceInv,
         \/ \E t \in Workers : \/ Lock(t) \/ PubPush(t) \/ BroadcastCount(t) \/ ClearReset(t)
                               \/ FileAllocFail(t) \/ PoolJoin(t) \/ DelErase(t) \/ DelDone(t)
                               \/ BumpLoad(t) \/ BumpStore(t) \/ ReleaseUnheld(t) \/ Unlock(t)
         \/ Tick \/ TimerFire \/ TimerLock \/ Delivered \/ Spare \/ NextChannel \/ TimerUnlock
         \/ Start \/ DbToggle \/ UNCHANGED vars
  PROVE  ServiceStep
<1>1. input' = input /\ conn' = conn /\ got' = got /\ table' = table
  BY DEF Lock, PubPush, BroadcastCount, ClearReset, FileAllocFail, PoolJoin, DelErase, DelDone,
         BumpLoad, BumpStore, ReleaseUnheld, Unlock, Tick, TimerFire, TimerLock, Delivered, Spare,
         NextChannel, TimerUnlock, Start, DbToggle, vars, clientVars, dbVars
<1>2. Log' = Log
  BY <1>1, LogKept
<1>3. Done' = Done
  BY SilentDone, OthersDone DEF Silent, ServiceInv, WaitingInv
<1> QED BY <1>1, <1>2, <1>3 DEF ServiceStep, Seen

LEMMA ServesStep ==
  ASSUME "disconnect" \notin Faults
  PROVE  ServiceInv /\ [Next]_vars => ServiceStep
<1> SUFFICES ASSUME ServiceInv, [Next]_vars PROVE ServiceStep
  OBVIOUS
<1>a. Service!Next => ServiceStep
  BY DEF ServiceStep
<1>1. ASSUME NEW t \in Workers, Accept(t) \/ Lock(t) \/ Handle(t) PROVE ServiceStep
  <2>1. CASE \/ Accept(t) \/ Insert(t) \/ ClearDelete(t) \/ NullChannel(t) \/ SubAnswer(t)
             \/ ServeFile(t) \/ PoolPark(t) \/ PoolReply(t) \/ SendOk(t)
    BY <1>a, <2>1, AcceptServes, InsertServes, DeleteServes, DieServes, QueryServes, FileServes,
       OkServes
    DEF NullChannel
  <2>2. CASE \/ Lock(t) \/ PubPush(t) \/ BroadcastCount(t) \/ ClearReset(t)
             \/ FileAllocFail(t) \/ PoolJoin(t) \/ DelErase(t) \/ DelDone(t)
             \/ BumpLoad(t) \/ BumpStore(t) \/ ReleaseUnheld(t) \/ Unlock(t)
    BY <2>2, HiddenSteps
  <2> QED BY <1>1, <2>1, <2>2 DEF Handle
<1>2. CASE Tick \/ TimerFire \/ TimerLock \/ Sweep
  BY <1>2, <1>a, HiddenSteps, SweepServes, DieServes DEF Sweep, TouchFreed
<1>3. CASE Environment \/ UNCHANGED vars
  BY <1>3, <1>a, HiddenSteps, DieServes DEF Environment, Crash, RaceCrash, Disconnect
<1> QED BY <1>1, <1>2, <1>3 DEF Next

LEMMA ServiceInvInit == Init => ServiceInv
<1>1. Init => KeyInv /\ SubInv /\ ToldInv
  BY DEF Init, KeyInv, Keyed, SubInv, ToldInv, Waits, Threads
<1> QED
  BY <1>1, WaitingInit, NumberingInit, EmptyBufInit, ServedFirstInit, QueueInit, WakeInit, SourceInit
  DEF ServiceInv

LEMMA ServiceInvStep ==
  ASSUME WellFormedPools, "db" \notin Faults, "disconnect" \notin Faults
  PROVE  ServiceInv /\ [Next]_vars => ServiceInv'
BY WaitingStep, NumberingStep, KeyStep, EmptyBufStep, ServedFirstStep, QueueStep, PushedStep,
   WakeStep, SubStep, ToldStep, SourceStep
DEF ServiceInv, WaitingInv

----------------------------------------------------------------------------
(* The theorem *)

\* For any number of workers, channels and requests, any timeouts, crashes and
\* restarts: what the clients and the table go through is a behaviour of the
\* service, as long as the database answers, no client of a parked request
\* hangs up and pool requests are well formed.
THEOREM ServerImplements ==
  ASSUME WellFormedPools, "db" \notin Faults, "disconnect" \notin Faults
  PROVE  Spec => ImplementsService
<1>1. Init => Service!Init
  BY LogInit, DoneInit DEF Init, Service!Init
<1>2. ServiceInv /\ [Next]_vars => [Service!Next]_(Service!service)
  BY ServesStep DEF ServiceStep, Seen, Service!service
<1> QED
  BY <1>1, <1>2, ServiceInvInit, ServiceInvStep, PTL DEF Spec, ImplementsService, Service!Spec
=============================================================================
