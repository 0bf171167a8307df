-------------------------- MODULE CometServerProofs --------------------------
(***************************************************************************)
(* Theorems about CometServer for any number of workers, channels and      *)
(* requests, any timeouts and any faults, with their proofs.               *)
(***************************************************************************)
EXTENDS CometServer, SequenceTheorems, TLAPS

----------------------------------------------------------------------------
(* Type correctness *)

\* What a worker knows of its request while it handles it: it has one, and the
\* channel it indexes the server with exists.
RequestInvOf(t) ==
  /\ pc[t] # "idle" => req[t] \in Requests
  /\ pc[t] \in {"run", "insert"} => local[t] \in Channel
  /\ pc[t] \in {"query", "del"} => In(t).cid \in Channel
  /\ pc[t] \in {"lock", "run"} /\ In(t).kind = "pool" => In(t).cid \in Channel
  /\ pc[t] = "ok" => In(t).kind \in AdminKinds

RequestInv == \A t \in Workers : RequestInvOf(t)

TypeInv == TypeOK /\ RequestInv

\* A function on the domain of a sequence is a sequence.
LEMMA MapIsSeq ==
  ASSUME NEW S, NEW T, NEW s \in Seq(S), NEW f \in [DOMAIN s -> T]
  PROVE  f \in Seq(T)
<1>1. DOMAIN s = 1..Len(s) /\ Len(s) \in Nat
  BY LenProperties
<1>2. f = [i \in 1..Len(s) |-> f[i]]
  BY <1>1
<1> QED BY <1>1, <1>2

LEMMA ChannelZero == 0 \in Channel /\ Channel \subseteq Nat /\ (CHAN - 1) \in Channel
BY SizesAssumption DEF Channel

LEMMA TypeInit == Init => TypeInv
<1> SUFFICES ASSUME Init PROVE TypeInv
  OBVIOUS
<1>1. ControlType /\ RequestInv
  BY ThreadsAssumption DEF Init, ControlType, RequestInv, RequestInvOf, Threads, WorkerPCs, TimerPCs
<1>2. ListType /\ QueueType /\ CounterType /\ SweepType
  BY ChannelZero, TimeoutsAssumption
  DEF Init, ListType, QueueType, CounterType, SweepType, Never
<1>3. ClientType /\ TableType
  BY RequestsAssumption DEF Init, ClientType, TableType, ConnStates
<1> QED BY <1>1, <1>2, <1>3 DEF TypeInv, TypeOK

LEMMA DieTypes == TypeInv /\ Die => TypeInv'
<1> SUFFICES ASSUME TypeInv, Die PROVE TypeInv'
  OBVIOUS
<1>1. ControlType' /\ RequestInv'
  BY ThreadsAssumption DEF Die, ControlType, RequestInv, RequestInvOf, Threads, WorkerPCs, TimerPCs
<1>2. ListType' /\ QueueType' /\ CounterType' /\ SweepType'
  BY ChannelZero, TimeoutsAssumption DEF Die, ListType, QueueType, CounterType, SweepType, Never
<1>3. ClientType' /\ TableType'
  BY DEF Die, TypeInv, TypeOK, ClientType, TableType, ConnStates, dbVars
<1> QED BY <1>1, <1>2, <1>3 DEF TypeInv, TypeOK

\* A step of worker t leaves what the others know as it is.
LEMMA OthersKeep ==
  ASSUME TypeInv, NEW t \in Workers, RequestInvOf(t)', input' = input,
         \A u \in Workers \ {t} : pc'[u] = pc[u] /\ req'[u] = req[u] /\ local'[u] = local[u]
  PROVE  RequestInv'
BY DEF TypeInv, RequestInv, RequestInvOf, In

\* Counting a message keeps the counters typed.
LEMMA CountTypes ==
  ASSUME CounterType, NEW c \in Channel, count' = [count EXCEPT ![c] = @ + 1],
         clientNum' = clientNum, chanAge' = chanAge
  PROVE  CounterType'
<1>1. \A n \in Nat : n + 1 \in Nat
  OBVIOUS
<1>2. count \in [Channel -> Nat]
  BY DEF CounterType
<1>3. count' \in [Channel -> Nat]
  BY <1>1, <1>2
<1> QED BY <1>3 DEF CounterType

\* So does storing a message keep the rows.
LEMMA InsertTypes ==
  ASSUME TableType, NEW c \in Channel, NEW n \in Nat, NEW x \in Contents,
         \/ table' = table \/ table' = InsertRow(table, c, n, x),
         dbUp' = dbUp
  PROVE  TableType'
BY DEF TableType, InsertRow, Row

\* The contents a query returns are message contents.
LEMMA AnswersType ==
  ASSUME TypeInv, NEW i, NEW answer \in Answers(i)
  PROVE  answer \subseteq Contents
BY DEF TypeInv, TypeOK, TableType, Answers, Select

\* A worker accepts a request.
LEMMA AcceptTypes ==
  ASSUME TypeInv, NEW t \in Workers, Accept(t)
  PROVE  TypeInv'
<1> USE ThreadsAssumption DEF TypeInv, TypeOK
<1> PICK r \in Requests : \/ RejectMethod(t, r) \/ DropUnparsed(t, r) \/ SubNotFound(t, r)
                         \/ PoolNotFound(t, r) \/ Begin(t, r)
  BY DEF Accept
<1>1. ListType' /\ QueueType' /\ CounterType' /\ SweepType' /\ TableType'
  BY DEF RejectMethod, DropUnparsed, SubNotFound, PoolNotFound, Begin, ListType, QueueType,
         CounterType, SweepType, TableType, serverVars, sweepVars, dbVars
<1>2. ClientType'
  BY DEF RejectMethod, DropUnparsed, SubNotFound, PoolNotFound, Begin, ClientType, ConnStates
<1>3. CASE RejectMethod(t, r) \/ DropUnparsed(t, r) \/ SubNotFound(t, r)
  <2>1. ControlType' /\ RequestInv'
    BY <1>3 DEF RejectMethod, DropUnparsed, SubNotFound, ControlType, RequestInv, RequestInvOf,
                In, threadVars
  <2> QED BY <1>1, <1>2, <2>1
<1>4. CASE PoolNotFound(t, r) \/ Begin(t, r)
  <2>1. ControlType' /\ RequestInvOf(t)'
    BY <1>4 DEF PoolNotFound, Begin, ControlType, RequestInvOf, In, Goto, Threads, WorkerPCs,
                WorkerSection
  <2>2. \A u \in Workers \ {t} : pc'[u] = pc[u] /\ req'[u] = req[u] /\ local'[u] = local[u]
    BY <1>4 DEF PoolNotFound, Begin, Goto, ControlType, Threads
  <2>3. RequestInv'
    BY <1>4, <2>1, <2>2, OthersKeep DEF PoolNotFound, Begin
  <2> QED BY <1>1, <1>2, <2>1, <2>3
<1> QED BY <1>3, <1>4

\* The steps of one worker that leave the lists of subscribers alone.
LEMMA WorkerTypes ==
  ASSUME TypeInv, NEW t \in Workers,
         \/ Lock(t) \/ PubPush(t) \/ BroadcastCount(t) \/ Insert(t)
         \/ ClearDelete(t) \/ ClearReset(t) \/ SubAnswer(t) \/ ServeFile(t) \/ FileAllocFail(t)
         \/ PoolReply(t) \/ DelDone(t) \/ BumpLoad(t) \/ BumpStore(t) \/ ReleaseUnheld(t)
         \/ Unlock(t) \/ SendOk(t)
  PROVE  TypeInv'
<1> USE ThreadsAssumption, ChannelZero DEF TypeInv, TypeOK
<1>a. RequestInvOf(t)
  BY DEF RequestInv
<1>1. CASE Lock(t)
  <2>1. ControlType' /\ RequestInvOf(t)'
    BY <1>1, <1>a DEF Lock, ControlType, RequestInvOf, In, Goto, Threads, WorkerPCs, WorkerSection
  <2>2. ListType' /\ QueueType' /\ CounterType' /\ SweepType' /\ ClientType' /\ TableType'
    BY <1>1 DEF Lock, ListType, QueueType, CounterType, SweepType, ClientType, TableType, serverVars, sweepVars, clientVars, dbVars
  <2> QED
    BY <1>1, <2>1, <2>2, OthersKeep DEF Lock, Goto
<1>2. CASE PubPush(t)
  <2>1. ControlType' /\ RequestInvOf(t)'
    BY <1>2, <1>a DEF PubPush, ControlType, RequestInvOf, In, Goto, Threads, WorkerPCs, WorkerSection
  <2>2. QueueType'
    BY <1>2, <1>a DEF PubPush, QueueType, ClientType, InputType, In, RequestInvOf
  <2>3. CounterType'
    BY <1>2, <1>a, CountTypes DEF PubPush, RequestInvOf, In
  <2>4. ListType' /\ SweepType' /\ ClientType' /\ TableType'
    BY <1>2 DEF PubPush, ListType, SweepType, ClientType, TableType, sweepVars, clientVars, dbVars
  <2> QED
    BY <1>2, <2>1, <2>2, <2>3, <2>4, OthersKeep DEF PubPush, Goto
<1>3. CASE BroadcastCount(t)
  <2>1. ControlType' /\ RequestInvOf(t)'
    BY <1>3, <1>a DEF BroadcastCount, ControlType, RequestInvOf, In, Goto, Threads, WorkerPCs, WorkerSection
  <2>2. CounterType'
    BY <1>3, <1>a, CountTypes DEF BroadcastCount, RequestInvOf
  <2>3. ListType' /\ QueueType' /\ SweepType' /\ ClientType' /\ TableType'
    BY <1>3 DEF BroadcastCount, ListType, QueueType, SweepType, ClientType, TableType, sweepVars, clientVars, dbVars
  <2> QED
    BY <1>3, <2>1, <2>2, <2>3, OthersKeep DEF BroadcastCount, Goto
<1>4. CASE Insert(t)
  <2>1. ControlType' /\ RequestInvOf(t)'
    BY <1>4, <1>a DEF Insert, ControlType, RequestInvOf, In, Goto, Threads, WorkerPCs, WorkerSection, Channel
  <2>2. TableType'
    <3>1. local[t] \in Channel /\ count[local[t]] \in Nat /\ In(t).content \in Contents
      BY <1>4, <1>a DEF Insert, RequestInvOf, CounterType, ClientType, InputType, In
    <3>2. \/ table' = table \/ table' = InsertRow(table, local[t], count[local[t]], In(t).content)
      BY <1>4 DEF Insert
    <3> QED BY <1>4, <3>1, <3>2, InsertTypes DEF Insert
  <2>3. ListType' /\ QueueType' /\ CounterType' /\ SweepType' /\ ClientType'
    BY <1>4 DEF Insert, ListType, QueueType, CounterType, SweepType, ClientType, serverVars, sweepVars, clientVars
  <2>4. RequestInv'
    <3>1. \A u \in Workers \ {t} : pc'[u] = pc[u] /\ req'[u] = req[u] /\ local'[u] = local[u]
      BY <1>4 DEF Insert, Goto, ControlType, Threads
    <3> QED BY <1>4, <2>1, <3>1, OthersKeep DEF Insert
  <2> QED BY <2>1, <2>2, <2>3, <2>4
<1>5. CASE ClearDelete(t)
  <2>1. ControlType' /\ RequestInvOf(t)'
    BY <1>5, <1>a DEF ClearDelete, ControlType, RequestInvOf, In, Goto, Threads, WorkerPCs, WorkerSection
  <2>2. TableType'
    BY <1>5 DEF ClearDelete, TableType, DeleteChannel
  <2>3. ListType' /\ QueueType' /\ CounterType' /\ SweepType' /\ ClientType'
    BY <1>5 DEF ClearDelete, ListType, QueueType, CounterType, SweepType, ClientType, serverVars, sweepVars, clientVars
  <2> QED
    BY <1>5, <2>1, <2>2, <2>3, OthersKeep DEF ClearDelete, Goto
<1>6. CASE ClearReset(t)
  <2>1. ControlType' /\ RequestInvOf(t)'
    BY <1>6, <1>a DEF ClearReset, ControlType, RequestInvOf, In, Goto, Threads, WorkerPCs, WorkerSection
  <2>2. CounterType'
    BY <1>6 DEF ClearReset, CounterType
  <2>3. ListType' /\ QueueType' /\ SweepType' /\ ClientType' /\ TableType'
    BY <1>6 DEF ClearReset, ListType, QueueType, SweepType, ClientType, TableType, sweepVars, clientVars, dbVars
  <2> QED
    BY <1>6, <2>1, <2>2, <2>3, OthersKeep DEF ClearReset, Goto
<1>7. CASE SubAnswer(t)
  <2>1. ControlType' /\ RequestInvOf(t)'
    BY <1>7, <1>a DEF SubAnswer, ControlType, RequestInvOf, In, Goto, Threads, WorkerPCs, WorkerSection
  <2>2. CounterType'
    BY <1>7 DEF SubAnswer, CounterType, NextClient
  <2>3. ClientType'
    BY <1>7, <1>a, AnswersType DEF SubAnswer, ClientType, ConnStates, RequestInvOf, Chunks
  <2>4. ListType' /\ QueueType' /\ SweepType' /\ TableType'
    BY <1>7 DEF SubAnswer, ListType, QueueType, SweepType, TableType, sweepVars, dbVars
  <2> QED
    BY <1>7, <2>1, <2>2, <2>3, <2>4, OthersKeep DEF SubAnswer, Goto
<1>8. CASE ServeFile(t)
  <2>1. ControlType' /\ RequestInvOf(t)'
    BY <1>8, <1>a DEF ServeFile, ControlType, RequestInvOf, In, Goto, Threads, WorkerPCs, WorkerSection
  <2>2. CounterType'
    BY <1>8 DEF ServeFile, CounterType, NextClient
  <2>3. ClientType'
    BY <1>8, <1>a DEF ServeFile, ClientType, ConnStates, RequestInvOf
  <2>4. ListType' /\ QueueType' /\ SweepType' /\ TableType'
    BY <1>8 DEF ServeFile, ListType, QueueType, SweepType, TableType, sweepVars, dbVars
  <2> QED
    BY <1>8, <2>1, <2>2, <2>3, <2>4, OthersKeep DEF ServeFile, Goto
<1>9. CASE FileAllocFail(t)
  <2>1. ControlType' /\ RequestInvOf(t)'
    BY <1>9, <1>a DEF FileAllocFail, ControlType, RequestInvOf, In, Goto, Threads, WorkerPCs, WorkerSection
  <2>2. ListType' /\ QueueType' /\ CounterType' /\ SweepType' /\ ClientType' /\ TableType'
    BY <1>9 DEF FileAllocFail, ListType, QueueType, CounterType, SweepType, ClientType, TableType, serverVars, sweepVars, clientVars, dbVars
  <2> QED
    BY <1>9, <2>1, <2>2, OthersKeep DEF FileAllocFail, Goto
<1>10. CASE PoolReply(t)
  <2>1. ControlType' /\ RequestInvOf(t)'
    BY <1>10, <1>a DEF PoolReply, ControlType, RequestInvOf, In, Goto, Threads, WorkerPCs, WorkerSection, serverVars, CounterType
  <2>2. ClientType'
    BY <1>10, <1>a, AnswersType DEF PoolReply, ClientType, ConnStates, RequestInvOf, Chunks
  <2>3. ListType' /\ QueueType' /\ CounterType' /\ SweepType' /\ TableType'
    BY <1>10 DEF PoolReply, ListType, QueueType, CounterType, SweepType, TableType, serverVars, sweepVars, dbVars
  <2> QED
    BY <1>10, <2>1, <2>2, <2>3, OthersKeep DEF PoolReply, Goto
<1>11. CASE DelDone(t)
  <2>1. ControlType' /\ RequestInvOf(t)'
    BY <1>11, <1>a DEF DelDone, ControlType, RequestInvOf, In, Goto, Threads, WorkerPCs, WorkerSection
  <2>2. CounterType'
    BY <1>11 DEF DelDone, CounterType, NextClient
  <2>3. ListType' /\ QueueType' /\ SweepType' /\ ClientType' /\ TableType'
    BY <1>11 DEF DelDone, ListType, QueueType, SweepType, ClientType, TableType, sweepVars, clientVars, dbVars
  <2> QED
    BY <1>11, <2>1, <2>2, <2>3, OthersKeep DEF DelDone, Goto
<1>12. CASE BumpLoad(t)
  <2>1. ControlType' /\ RequestInvOf(t)'
    BY <1>12, <1>a DEF BumpLoad, ControlType, RequestInvOf, In, Goto, Threads, WorkerPCs, WorkerSection, serverVars, CounterType
  <2>2. ListType' /\ QueueType' /\ CounterType' /\ SweepType' /\ ClientType' /\ TableType'
    BY <1>12 DEF BumpLoad, ListType, QueueType, CounterType, SweepType, ClientType, TableType, serverVars, sweepVars, clientVars, dbVars
  <2> QED
    BY <1>12, <2>1, <2>2, OthersKeep DEF BumpLoad, Goto
<1>13. CASE BumpStore(t)
  <2>1. ControlType' /\ RequestInvOf(t)'
    BY <1>13, <1>a DEF BumpStore, ControlType, RequestInvOf, In, Goto, Threads, WorkerPCs, WorkerSection
  <2>2. CounterType'
    BY <1>13 DEF BumpStore, CounterType, NextClient, ControlType, Threads
  <2>3. ListType' /\ QueueType' /\ SweepType' /\ ClientType' /\ TableType'
    BY <1>13 DEF BumpStore, ListType, QueueType, SweepType, ClientType, TableType, sweepVars, clientVars, dbVars
  <2>4. RequestInv'
    <3>1. \A u \in Workers \ {t} : pc'[u] = pc[u] /\ req'[u] = req[u] /\ local'[u] = local[u]
      BY <1>13 DEF BumpStore, Goto, ControlType, Threads
    <3> QED BY <1>13, <2>1, <3>1, OthersKeep DEF BumpStore
  <2> QED BY <2>1, <2>2, <2>3, <2>4
<1>14. CASE ReleaseUnheld(t)
  <2>1. ControlType' /\ RequestInvOf(t)'
    BY <1>14, <1>a DEF ReleaseUnheld, ControlType, RequestInvOf, In, Goto, Threads, WorkerPCs, WorkerSection
  <2>2. ListType' /\ QueueType' /\ CounterType' /\ SweepType' /\ ClientType' /\ TableType'
    BY <1>14 DEF ReleaseUnheld, ListType, QueueType, CounterType, SweepType, ClientType, TableType, serverVars, sweepVars, clientVars, dbVars
  <2> QED
    BY <1>14, <2>1, <2>2, OthersKeep DEF ReleaseUnheld, Goto
<1>15. CASE Unlock(t)
  <2>1. ControlType' /\ RequestInvOf(t)'
    BY <1>15, <1>a DEF Unlock, ControlType, RequestInvOf, In, Goto, Threads, WorkerPCs, WorkerSection
  <2>2. ListType' /\ QueueType' /\ CounterType' /\ SweepType' /\ ClientType' /\ TableType'
    BY <1>15 DEF Unlock, ListType, QueueType, CounterType, SweepType, ClientType, TableType, serverVars, sweepVars, clientVars, dbVars
  <2>3. RequestInv'
    <3>1. \A u \in Workers \ {t} : pc'[u] = pc[u] /\ req'[u] = req[u] /\ local'[u] = local[u]
      BY <1>15 DEF Unlock, Goto, ControlType, Threads
    <3> QED BY <1>15, <2>1, <3>1, OthersKeep DEF Unlock
  <2> QED BY <2>1, <2>2, <2>3
<1>16. CASE SendOk(t)
  <2>1. ControlType' /\ RequestInvOf(t)'
    BY <1>16, <1>a DEF SendOk, ControlType, RequestInvOf, In, Goto, Threads, WorkerPCs, WorkerSection
  <2>2. ClientType'
    BY <1>16, <1>a DEF SendOk, ClientType, ConnStates, RequestInvOf
  <2>3. ListType' /\ QueueType' /\ CounterType' /\ SweepType' /\ TableType'
    BY <1>16 DEF SendOk, ListType, QueueType, CounterType, SweepType, TableType, serverVars, sweepVars, dbVars
  <2> QED
    BY <1>16, <2>1, <2>2, <2>3, OthersKeep DEF SendOk, Goto
<1> QED BY <1>1, <1>2, <1>3, <1>4, <1>5, <1>6, <1>7, <1>8, <1>9, <1>10, <1>11, <1>12, <1>13, <1>14, <1>15, <1>16

\* A step of the timer leaves what the workers know as it is.
LEMMA WorkersKeep ==
  ASSUME TypeInv, req' = req, local' = local, input' = input,
         \A t \in Workers : pc'[t] = pc[t]
  PROVE  RequestInv'
BY DEF TypeInv, RequestInv, RequestInvOf, In

\* Replacing one list by another keeps the lists typed.
LEMMA ListTypes ==
  ASSUME ListType, NEW c \in Channel, NEW s \in Seq(Subscribers), subs' = [subs EXCEPT ![c] = s]
  PROVE  ListType'
BY DEF ListType

\* The steps of a worker that change a list of subscribers.
LEMMA WorkerListTypes ==
  ASSUME TypeInv, NEW t \in Workers, PoolJoin(t) \/ PoolPark(t) \/ DelErase(t)
  PROVE  TypeInv'
<1> USE ThreadsAssumption DEF TypeInv, TypeOK
<1>a. RequestInvOf(t)
  BY DEF RequestInv
<1>b. \A c \in Channel : subs[c] \in Seq(Subscribers)
  BY DEF ListType
<1>1. CASE PoolJoin(t)
  <2>1. ControlType' /\ RequestInvOf(t)'
    BY <1>1, <1>a DEF PoolJoin, ControlType, RequestInvOf, In, Goto, Threads, WorkerPCs,
                      WorkerSection
  <2>2. ListType'
    <3>1. In(t).cid \in Channel /\ req[t] \in Requests /\ clientNum \in Nat
      BY <1>1, <1>a DEF PoolJoin, RequestInvOf, CounterType
    <3>2. PICK age \in 0..SubscriberTimeout :
            subs' = [subs EXCEPT ![In(t).cid] =
                       Append(subs[In(t).cid], [id |-> clientNum, req |-> req[t], age |-> age])]
      BY <1>1 DEF PoolJoin
    <3>3. [id |-> clientNum, req |-> req[t], age |-> age] \in Subscribers
      BY <3>1 DEF Subscribers
    <3>4. Append(subs[In(t).cid], [id |-> clientNum, req |-> req[t], age |-> age])
            \in Seq(Subscribers)
      BY <1>b, <3>1, <3>3, AppendProperties
    <3> QED BY <3>1, <3>2, <3>4, ListTypes
  <2>3. QueueType' /\ CounterType' /\ SweepType' /\ ClientType' /\ TableType'
    BY <1>1 DEF PoolJoin, QueueType, CounterType, SweepType, ClientType, TableType, sweepVars,
                clientVars, dbVars
  <2>4. RequestInv'
    <3>1. \A u \in Workers \ {t} : pc'[u] = pc[u] /\ req'[u] = req[u] /\ local'[u] = local[u]
      BY <1>1 DEF PoolJoin, Goto, ControlType, Threads
    <3> QED BY <1>1, <2>1, <3>1, OthersKeep DEF PoolJoin
  <2> QED BY <2>1, <2>2, <2>3, <2>4
<1>2. CASE PoolPark(t)
  <2>1. ControlType' /\ RequestInvOf(t)'
    BY <1>2, <1>a DEF PoolPark, ControlType, RequestInvOf, In, Goto, Threads, WorkerPCs,
                      WorkerSection
  <2>2. In(t).cid \in Channel /\ req[t] \in Requests
    BY <1>2, <1>a DEF PoolPark, RequestInvOf
  <2>3. ListType'
    <3> DEFINE s == subs[In(t).cid]
               f == [k \in DOMAIN s |->
                       IF s[k].req = req[t] THEN [s[k] EXCEPT !.age = 0] ELSE s[k]]
    <3>1. s \in Seq(Subscribers)
      BY <1>b, <2>2
    <3>2. \A x \in Subscribers : [x EXCEPT !.age = 0] \in Subscribers
      BY TimeoutsAssumption DEF Subscribers
    <3>3. \A k \in DOMAIN s : s[k] \in Subscribers
      BY <3>1, ElementOfSeq, LenProperties
    <3>4. f \in [DOMAIN s -> Subscribers]
      BY <3>2, <3>3
    <3>5. f \in Seq(Subscribers)
      BY <3>1, <3>4, MapIsSeq
    <3>6. subs' = [subs EXCEPT ![In(t).cid] = f]
      BY <1>2 DEF PoolPark
    <3> QED BY <2>2, <3>5, <3>6, ListTypes
  <2>4. CounterType'
    <3>1. 0 \in 0..Never
      BY TimeoutsAssumption DEF Never
    <3> QED BY <1>2, <3>1 DEF PoolPark, CounterType
  <2>5. ClientType'
    BY <1>2, <2>2 DEF PoolPark, ClientType, Chunks
  <2>6. QueueType' /\ SweepType' /\ TableType'
    BY <1>2 DEF PoolPark, QueueType, SweepType, TableType, sweepVars, dbVars
  <2>7. RequestInv'
    <3>1. \A u \in Workers \ {t} : pc'[u] = pc[u] /\ req'[u] = req[u] /\ local'[u] = local[u]
      BY <1>2 DEF PoolPark, Goto, ControlType, Threads
    <3> QED BY <1>2, <2>1, <3>1, OthersKeep DEF PoolPark
  <2> QED BY <2>1, <2>3, <2>4, <2>5, <2>6, <2>7
<1>3. CASE DelErase(t)
  <2>1. ControlType' /\ RequestInv'
    BY <1>3 DEF DelErase, ControlType, RequestInv, RequestInvOf, In, threadVars
  <2>2. ListType'
    <3>1. In(t).cid \in Channel
      BY <1>3, <1>a DEF DelErase, RequestInvOf
    <3>2. subs[In(t).cid] # <<>> /\ subs' = [subs EXCEPT ![In(t).cid] = Tail(subs[In(t).cid])]
      BY <1>3 DEF DelErase
    <3>3. Tail(subs[In(t).cid]) \in Seq(Subscribers)
      BY <1>b, <3>1, <3>2, HeadTailProperties
    <3> QED BY <3>1, <3>2, <3>3, ListTypes
  <2>3. QueueType' /\ CounterType' /\ SweepType' /\ ClientType' /\ TableType'
    BY <1>3 DEF DelErase, QueueType, CounterType, SweepType, ClientType, TableType, sweepVars,
                clientVars, dbVars
  <2> QED BY <2>1, <2>2, <2>3
<1> QED BY <1>1, <1>2, <1>3

\* The subscriber the sweep has reached is one.
LEMMA ReachedType ==
  ASSUME TypeInv, AtSubscriber
  PROVE  Reached \in Subscribers /\ Reached.req \in Requests
<1>1. subs[pos] \in Seq(Subscribers) /\ nth \in Nat \ {0}
  BY DEF TypeInv, TypeOK, ListType, SweepType
<1>2. nth \in 1..Len(subs[pos])
  BY <1>1, LenProperties DEF AtSubscriber
<1>3. Reached \in Subscribers
  BY <1>1, <1>2, ElementOfSeq DEF Reached
<1> QED BY <1>3 DEF Subscribers

\* Sending chunks to a client keeps the clients and the buffer typed.
LEMMA SendTypes ==
  ASSUME TypeInv, NEW r \in Requests, NEW chunks \in SUBSET Chunks, SendAndEnd(r, chunks),
         input' = input
  PROVE  ClientType' /\ buf' \subseteq Chunks
BY DEF TypeInv, TypeOK, ClientType, SweepType, SendAndEnd, ConnStates, clientVars

\* Emptying the list of a channel keeps the lists typed.
LEMMA EmptyTypes ==
  ASSUME ListType, NEW c \in Channel, subs' = subs \/ subs' = [subs EXCEPT ![c] = <<>>]
  PROVE  ListType'
<1>1. <<>> \in Seq(Subscribers)
  OBVIOUS
<1>2. CASE subs' = subs
  BY <1>2 DEF ListType
<1>3. CASE subs' = [subs EXCEPT ![c] = <<>>]
  BY <1>1, <1>3, ListTypes
<1> QED BY <1>2, <1>3

\* The clock.
LEMMA TickTypes == TypeInv /\ Tick => TypeInv'
<1> SUFFICES ASSUME TypeInv, Tick PROVE TypeInv'
  OBVIOUS
<1> USE DEF TypeInv, TypeOK
<1>1. ControlType' /\ RequestInv'
  BY DEF Tick, ControlType, RequestInv, RequestInvOf, In, threadVars
<1>2. ListType'
  <2> DEFINE older(x) == [x EXCEPT !.age = IF @ < SubscriberTimeout THEN @ + 1 ELSE @]
             f(c) == [k \in DOMAIN subs[c] |-> older(subs[c][k])]
  <2>1. \A x \in Subscribers : older(x) \in Subscribers
    <3> SUFFICES ASSUME NEW x \in Subscribers PROVE older(x) \in Subscribers
      OBVIOUS
    <3>1. x.age \in 0..SubscriberTimeout /\ SubscriberTimeout \in Nat
      BY TimeoutsAssumption DEF Subscribers
    <3>2. (IF x.age < SubscriberTimeout THEN x.age + 1 ELSE x.age) \in 0..SubscriberTimeout
      BY <3>1
    <3> QED BY <3>2 DEF Subscribers
  <2>2. ASSUME NEW c \in Channel PROVE f(c) \in Seq(Subscribers)
    <3>1. subs[c] \in Seq(Subscribers)
      BY DEF ListType
    <3>2. \A k \in DOMAIN subs[c] : subs[c][k] \in Subscribers
      BY <3>1, ElementOfSeq, LenProperties
    <3> HIDE DEF older
    <3>3. f(c) \in [DOMAIN subs[c] -> Subscribers]
      BY <2>1, <3>2
    <3> QED BY <3>1, <3>3, MapIsSeq
  <2>3. subs' = [c \in Channel |-> f(c)]
    BY DEF Tick
  <2> HIDE DEF f
  <2> QED BY <2>2, <2>3 DEF ListType
<1>3. CounterType'
  <2>1. \A a \in 0..Never : (IF a < ChannelTimeout THEN a + 1 ELSE a) \in 0..Never
    BY TimeoutsAssumption DEF Never
  <2>2. chanAge' \in [Channel -> 0..Never]
    BY <2>1 DEF Tick, CounterType
  <2> QED BY <2>2 DEF Tick, CounterType
<1>4. QueueType' /\ SweepType' /\ ClientType' /\ TableType'
  BY DEF Tick, QueueType, SweepType, ClientType, TableType, sweepVars, clientVars, dbVars
<1> QED BY <1>1, <1>2, <1>3, <1>4

\* The steps of the timer.
LEMMA TimerTypes ==
  ASSUME TypeInv,
         \/ TimerFire \/ TimerLock \/ Deliver \/ Delivered \/ Evict \/ Expire \/ Spare
         \/ NextChannel \/ TimerUnlock
  PROVE  TypeInv'
<1> USE ThreadsAssumption, ChannelZero DEF TypeInv, TypeOK
<1>1. ControlType'
  BY DEF TimerFire, TimerLock, Deliver, Delivered, Evict, Expire, Spare, NextChannel,
         TimerUnlock, Advance, ControlType, Threads, TimerPCs, TimerSection, WorkerPCs, threadVars
<1>2. RequestInv'
  <2>1. \A t \in Workers : pc'[t] = pc[t]
    BY DEF TimerFire, TimerLock, Deliver, Delivered, Evict, Expire, Spare, NextChannel,
           TimerUnlock, Advance, ControlType, Threads, threadVars
  <2>2. req' = req /\ local' = local /\ input' = input
    BY DEF TimerFire, TimerLock, Deliver, Delivered, Evict, Expire, Spare, NextChannel,
           TimerUnlock, threadVars
  <2> QED BY <2>1, <2>2, WorkersKeep
<1>3. QueueType' /\ CounterType' /\ TableType'
  BY DEF TimerFire, TimerLock, Deliver, Delivered, Evict, Expire, Spare, NextChannel,
         TimerUnlock, QueueType, CounterType, TableType, serverVars, dbVars
<1>4. CASE TimerFire \/ TimerLock \/ Spare \/ TimerUnlock
  <2>1. ListType' /\ SweepType' /\ ClientType'
    BY <1>4 DEF TimerFire, TimerLock, Spare, TimerUnlock, ListType, SweepType, ClientType,
                serverVars, sweepVars, clientVars
  <2> QED BY <1>1, <1>2, <1>3, <2>1
<1>5. CASE Deliver
  <2>1. msg[pos] \subseteq Chunks
    BY DEF QueueType, SweepType, Chunks
  <2>2. ClientType' /\ buf' \subseteq Chunks
    BY <1>5, <2>1, ReachedType, SendTypes DEF Deliver
  <2>3. ListType' /\ SweepType'
    BY <1>5, <2>2 DEF Deliver, ListType, SweepType, serverVars
  <2> QED BY <1>1, <1>2, <1>3, <2>2, <2>3
<1>6. CASE Delivered \/ NextChannel
  <2>1. ListType'
    BY <1>6, EmptyTypes DEF Delivered, NextChannel, SweepType
  <2>2. SweepType' /\ ClientType'
    BY <1>6, SizesAssumption DEF Delivered, NextChannel, SweepType, ClientType, Channel, clientVars
  <2> QED BY <1>1, <1>2, <1>3, <2>1, <2>2
<1>7. CASE Evict
  <2>1. ClientType' /\ buf' \subseteq Chunks
    BY <1>7, ReachedType, SendTypes DEF Evict, Chunks
  <2>2. ListType' /\ SweepType'
    BY <1>7, <2>1 DEF Evict, ListType, SweepType, serverVars
  <2> QED BY <1>1, <1>2, <1>3, <2>1, <2>2
<1>8. CASE Expire
  <2>1. ClientType' /\ buf' \subseteq Chunks
    BY <1>8, ReachedType, SendTypes DEF Expire, Chunks
  <2>2. SweepType'
    BY <1>8, <2>1 DEF Expire, SweepType
  <2>3. ListType'
    <3> DEFINE s == subs[pos]
    <3>1. s \in Seq(Subscribers) /\ Len(s) \in Nat /\ nth \in 1..Len(s) /\ pos \in Channel
      BY <1>8, LenProperties DEF Expire, AtSubscriber, ListType, SweepType
    <3>2. \A k \in 1..Len(s) : s[k] \in Subscribers
      BY <3>1, ElementOfSeq
    <3>3. SubSeq(s, 1, nth - 1) \in Seq(Subscribers)
      BY <3>1, <3>2, SubSeqProperties
    <3>4. SubSeq(s, nth + 1, Len(s)) \in Seq(Subscribers)
      BY <3>1, <3>2, SubSeqProperties
    <3>5. SubSeq(s, 1, nth - 1) \o SubSeq(s, nth + 1, Len(s)) \in Seq(Subscribers)
      BY <3>3, <3>4, ConcatProperties
    <3>6. subs' = [subs EXCEPT ![pos] = SubSeq(s, 1, nth - 1) \o SubSeq(s, nth + 1, Len(s))]
      BY <1>8 DEF Expire
    <3> QED BY <3>1, <3>5, <3>6, ListTypes
  <2> QED BY <1>1, <1>2, <1>3, <2>1, <2>2, <2>3
<1> QED BY <1>4, <1>5, <1>6, <1>7, <1>8

\* The start of the process and the other steps of the environment.
LEMMA EnvironmentTypes ==
  ASSUME TypeInv, Start \/ DbToggle \/ \E r \in Requests : Disconnect(r)
  PROVE  TypeInv'
<1> USE DEF TypeInv, TypeOK
<1>1. ControlType' /\ RequestInv' /\ ListType' /\ QueueType' /\ SweepType'
  BY DEF Start, DbToggle, Disconnect, ControlType, RequestInv, RequestInvOf, In, ListType,
         QueueType, SweepType, threadVars, serverVars, sweepVars
<1>2. ClientType' /\ TableType'
  BY DEF Start, DbToggle, Disconnect, ClientType, TableType, ConnStates, clientVars, dbVars
<1>3. CounterType'
  <2>1. \A row \in table : row.seq \in Nat
    BY DEF TableType
  <2>2. CASE Start
    <3>1. count' \in [Channel -> Nat]
      BY <2>1, <2>2 DEF Start, CounterType
    <3> QED BY <2>2, <3>1 DEF Start, CounterType
  <2>3. CASE DbToggle \/ \E r \in Requests : Disconnect(r)
    BY <2>3 DEF DbToggle, Disconnect, CounterType, serverVars
  <2> QED BY <2>2, <2>3
<1> QED BY <1>1, <1>2, <1>3

LEMMA StutterTypes == TypeInv /\ UNCHANGED vars => TypeInv'
BY DEF TypeInv, TypeOK, ControlType, RequestInv, RequestInvOf, In, ListType, QueueType, CounterType,
       SweepType, ClientType, TableType, vars, threadVars, serverVars, sweepVars, clientVars, dbVars

\* TypeInv is an inductive invariant.
LEMMA TypeStep == TypeInv /\ [Next]_vars => TypeInv'
<1> SUFFICES ASSUME TypeInv, [Next]_vars PROVE TypeInv'
  OBVIOUS
<1>1. ASSUME NEW t \in Workers, Accept(t) \/ Lock(t) \/ Handle(t) PROVE TypeInv'
  BY <1>1, AcceptTypes, WorkerTypes, WorkerListTypes, DieTypes DEF Handle, NullChannel
<1>2. CASE Tick \/ TimerFire \/ TimerLock \/ Sweep
  BY <1>2, TickTypes, TimerTypes, DieTypes DEF Sweep, TouchFreed
<1>3. CASE Environment
  BY <1>3, EnvironmentTypes, DieTypes DEF Environment, Crash, RaceCrash
<1>4. CASE UNCHANGED vars
  BY <1>4, StutterTypes
<1> QED BY <1>1, <1>2, <1>3, <1>4 DEF Next

\* Whatever the number of workers, channels and requests, the timeouts and the
\* faults, every variable keeps its type: no handler indexes the channels out
\* of bounds but where it dies of it, and the sweep stays on the channels.
THEOREM TypeCorrect == Spec => []TypeOK
<1>1. TypeInv => TypeOK
  BY DEF TypeInv
<1> QED BY <1>1, TypeInit, TypeStep, PTL DEF Spec

----------------------------------------------------------------------------
(* Mutual exclusion *)

\* Every pool request parses and names a channel: no thread takes the path of
\* pool_handler that unlocks a mutex it did not lock.
WellFormedPools ==
  \A s \in Scripts : \A r \in Requests :
    s[r].kind = "pool" => \/ s[r].form = "notget"
                          \/ s[r].form = "get" /\ s[r].cid \in Channel

\* A thread between lock and unlock is the one that locked the mutex; a thread
\* that is about to increment _clientNum outside it has parked its request and
\* returns without unlocking again.
LockInvOf(t) ==
  /\ InSection(t) => mutex = t
  /\ t \in Workers /\ pc[t] \in {"query", "load", "store"} => IsPool(req[t])
  /\ t \in Workers /\ pc[t] # "idle" => In(t).form = "get"
  /\ t \in Workers => pc[t] # "release"

LockInv == input \in Scripts /\ \A t \in Threads : LockInvOf(t)

LEMMA LockInit == Init => LockInv
BY ThreadsAssumption
DEF Init, LockInv, LockInvOf, InSection, WorkerSection, TimerSection, Threads

LEMMA DieLock == LockInv /\ Die => LockInv'
BY ThreadsAssumption
DEF Die, LockInv, LockInvOf, InSection, WorkerSection, TimerSection, Threads

\* A step of thread t that leaves the mutex alone, or takes it while it is
\* free, or releases it from within its section, keeps the invariant of the
\* others.
LEMMA OthersLock ==
  ASSUME LockInv, NEW t \in Threads, LockInvOf(t)', input' = input,
         \A u \in Threads \ {t} : pc'[u] = pc[u] /\ req'[u] = req[u],
         mutex' = mutex \/ mutex = Free \/ (InSection(t) /\ mutex = t)
  PROVE  LockInv'
<1>1. ASSUME NEW u \in Threads, u # t PROVE LockInvOf(u)'
  <2>1. LockInvOf(u) /\ pc'[u] = pc[u] /\ req'[u] = req[u]
    BY <1>1 DEF LockInv
  <2>2. InSection(u)' => InSection(u)
    BY <2>1 DEF InSection
  <2>3. InSection(u) => mutex = u /\ u # Free
    BY <2>1, ThreadsAssumption DEF LockInvOf
  <2>4. InSection(u)' => mutex' = u
    BY <1>1, <2>2, <2>3
  <2> QED BY <2>1, <2>4 DEF LockInvOf, In, IsPool
<1> QED BY <1>1 DEF LockInv

\* The steps of a worker.
LEMMA WorkerLock ==
  ASSUME WellFormedPools, TypeInv, LockInv, NEW t \in Workers, Accept(t) \/ Lock(t) \/ Handle(t)
  PROVE  LockInv'
<1>a. t \in Threads /\ t # Timer /\ LockInvOf(t) /\ RequestInvOf(t)
  BY ThreadsAssumption DEF Threads, LockInv, TypeInv, RequestInv
<1>b. pc \in [Threads -> WorkerPCs \cup TimerPCs] /\ req \in [Threads -> Requests \cup {NoReq}]
  BY DEF TypeInv, TypeOK, ControlType
<1>1. CASE Accept(t)
  <2>1. PICK r \in Requests : \/ RejectMethod(t, r) \/ DropUnparsed(t, r) \/ SubNotFound(t, r)
                              \/ PoolNotFound(t, r) \/ Begin(t, r)
    BY <1>1 DEF Accept
  <2>2. CASE RejectMethod(t, r) \/ DropUnparsed(t, r) \/ SubNotFound(t, r)
    BY <2>2 DEF RejectMethod, DropUnparsed, SubNotFound, LockInv, LockInvOf, InSection, In,
                IsPool, threadVars
  <2>3. ~PoolNotFound(t, r)
    BY DEF PoolNotFound, WellFormedPools, LockInv
  <2>4. CASE Begin(t, r)
    <3>1. LockInvOf(t)'
      BY <1>a, <1>b, <2>4 DEF Begin, Goto, LockInvOf, InSection, WorkerSection, In
    <3>2. \A u \in Threads \ {t} : pc'[u] = pc[u] /\ req'[u] = req[u]
      BY <1>a, <1>b, <2>4 DEF Begin, Goto
    <3> QED BY <1>a, <2>4, <3>1, <3>2, OthersLock DEF Begin
  <2> QED BY <2>1, <2>2, <2>3, <2>4
<1>2. CASE NullChannel(t)
  BY <1>2, DieLock DEF NullChannel
<1>3. ASSUME (Lock(t) \/ Handle(t)) /\ ~NullChannel(t) PROVE LockInv'
  <2>1. LockInvOf(t)'
    <3>1. CASE \/ Lock(t) \/ PubPush(t) \/ BroadcastCount(t) \/ ClearDelete(t) \/ ClearReset(t)
               \/ SubAnswer(t) \/ ServeFile(t) \/ FileAllocFail(t)
      BY <1>a, <1>b, <3>1
      DEF Lock, PubPush, BroadcastCount, ClearDelete, ClearReset, SubAnswer, ServeFile,
          FileAllocFail, Goto, LockInvOf, InSection, WorkerSection, In
    <3>2. CASE Insert(t)
      BY <1>a, <1>b, <3>2 DEF Insert, Goto, LockInvOf, InSection, WorkerSection, In
    <3>3. CASE PoolJoin(t)
      BY <1>a, <1>b, <3>3
      DEF PoolJoin, Goto, LockInvOf, RequestInvOf, InSection, WorkerSection, In, IsPool
    <3>4. CASE \/ PoolPark(t) \/ PoolReply(t) \/ DelErase(t) \/ DelDone(t) \/ BumpLoad(t)
               \/ BumpStore(t)
      BY <1>a, <1>b, <3>4
      DEF PoolPark, PoolReply, DelErase, DelDone, BumpLoad, BumpStore, Goto, LockInvOf,
          InSection, WorkerSection, In, IsPool, threadVars
    <3>5. CASE ReleaseUnheld(t) \/ SendOk(t)
      BY <1>a, <1>b, <3>5 DEF ReleaseUnheld, SendOk, Goto, LockInvOf, InSection, WorkerSection
    <3>6. CASE Unlock(t)
      BY <1>a, <1>b, <3>6 DEF Unlock, Goto, LockInvOf, InSection, WorkerSection, In
    <3> QED BY <1>3, <3>1, <3>2, <3>3, <3>4, <3>5, <3>6 DEF Handle
  <2>2. \A u \in Threads \ {t} : pc'[u] = pc[u] /\ req'[u] = req[u]
    BY <1>a, <1>b, <1>3
    DEF Lock, Handle, PubPush, BroadcastCount, Insert, ClearDelete, ClearReset, SubAnswer,
        ServeFile, FileAllocFail, PoolJoin, PoolPark, PoolReply, DelErase, DelDone, BumpLoad,
        BumpStore, ReleaseUnheld, Unlock, SendOk, Goto, threadVars
  <2>3. input' = input
    BY <1>3
    DEF Lock, Handle, PubPush, BroadcastCount, Insert, ClearDelete, ClearReset, SubAnswer,
        ServeFile, FileAllocFail, PoolJoin, PoolPark, PoolReply, DelErase, DelDone, BumpLoad,
        BumpStore, ReleaseUnheld, Unlock, SendOk
  <2>4. mutex' = mutex \/ mutex = Free \/ (InSection(t) /\ mutex = t)
    <3>1. CASE Lock(t)
      BY <3>1 DEF Lock
    <3>2. CASE PoolPark(t) \/ Unlock(t)
      BY <1>a, <3>2 DEF PoolPark, Unlock, LockInvOf, InSection, WorkerSection
    <3>3. ~ReleaseUnheld(t)
      BY <1>a DEF ReleaseUnheld, LockInvOf
    <3> QED
      BY <1>3, <3>1, <3>2, <3>3
      DEF Handle, PubPush, BroadcastCount, Insert, ClearDelete, ClearReset, SubAnswer,
          ServeFile, FileAllocFail, PoolJoin, PoolReply, DelErase, DelDone, BumpLoad, BumpStore,
          SendOk
  <2> QED BY <1>a, <2>1, <2>2, <2>3, <2>4, OthersLock
<1> QED BY <1>1, <1>2, <1>3

\* The steps of the timer.
LEMMA TimerLockStep ==
  ASSUME TypeInv, LockInv, Tick \/ TimerFire \/ TimerLock \/ Sweep
  PROVE  LockInv'
<1>a. Timer \in Threads /\ Timer \notin Workers /\ LockInvOf(Timer)
  BY ThreadsAssumption DEF Threads, LockInv
<1>b. pc \in [Threads -> WorkerPCs \cup TimerPCs]
  BY DEF TypeInv, TypeOK, ControlType
<1>1. CASE Tick
  BY <1>1 DEF Tick, LockInv, LockInvOf, InSection, In, IsPool, threadVars
<1>2. CASE TouchFreed
  BY <1>2, DieLock DEF TouchFreed
<1>3. ASSUME (TimerFire \/ TimerLock \/ Sweep) /\ ~TouchFreed PROVE LockInv'
  <2>1. LockInvOf(Timer)'
    BY <1>a, <1>b, <1>3
    DEF TimerFire, TimerLock, Sweep, Deliver, Delivered, Evict, Expire, Spare, NextChannel,
        TimerUnlock, Advance, LockInvOf, InSection, TimerSection, threadVars
  <2>2. input' = input /\ \A u \in Threads \ {Timer} : pc'[u] = pc[u] /\ req'[u] = req[u]
    BY <1>a, <1>b, <1>3
    DEF TimerFire, TimerLock, Sweep, Deliver, Delivered, Evict, Expire, Spare, NextChannel,
        TimerUnlock, Advance, threadVars
  <2>3. mutex' = mutex \/ mutex = Free \/ (InSection(Timer) /\ mutex = Timer)
    BY <1>a, <1>3
    DEF TimerFire, TimerLock, Sweep, Deliver, Delivered, Evict, Expire, Spare, NextChannel,
        TimerUnlock, LockInvOf, InSection, TimerSection
  <2> QED BY <1>a, <2>1, <2>2, <2>3, OthersLock
<1> QED BY <1>1, <1>2, <1>3

\* LockInv is inductive, next to TypeInv, when pool requests are well formed.
LEMMA LockStep ==
  ASSUME WellFormedPools
  PROVE  TypeInv /\ LockInv /\ [Next]_vars => LockInv'
<1> SUFFICES ASSUME TypeInv, LockInv, [Next]_vars PROVE LockInv'
  OBVIOUS
<1>1. ASSUME NEW t \in Workers, Accept(t) \/ Lock(t) \/ Handle(t) PROVE LockInv'
  BY <1>1, WorkerLock
<1>2. CASE Tick \/ TimerFire \/ TimerLock \/ Sweep
  BY <1>2, TimerLockStep
<1>3. CASE Environment
  <2>1. CASE Start \/ DbToggle \/ \E r \in Requests : Disconnect(r)
    BY <2>1 DEF Start, DbToggle, Disconnect, LockInv, LockInvOf, InSection, In, IsPool, threadVars
  <2> QED BY <1>3, <2>1, DieLock DEF Environment, Crash, RaceCrash
<1>4. CASE UNCHANGED vars
  BY <1>4 DEF vars, threadVars, LockInv, LockInvOf, InSection, In, IsPool
<1> QED BY <1>1, <1>2, <1>3, <1>4 DEF Next

LEMMA LockExcludes == LockInv => MutualExclusion
BY DEF LockInv, LockInvOf, MutualExclusion

\* With any number of workers, whatever crashes, failures and disconnections
\* happen, no two threads are between lock and unlock at the same time, as
\* long as every pool request parses and names a channel.
THEOREM SectionsExclude ==
  ASSUME WellFormedPools
  PROVE  Spec => []MutualExclusion
<1> QED BY TypeInit, TypeStep, LockInit, LockStep, LockExcludes, PTL DEF Spec

----------------------------------------------------------------------------
(* The mutex is held from within a section only *)

\* A step of thread t that leaves the mutex free, or in its hands while it stays
\* in its section, or in the hands of whoever had it and t had not.
LEMMA HeldByOthers ==
  ASSUME TypeInv, HeldBySection, NEW t \in Threads,
         \A u \in Threads \ {t} : pc'[u] = pc[u],
         \/ mutex' = Free
         \/ mutex' = t /\ InSection(t)'
         \/ mutex' = mutex /\ (InSection(t) => InSection(t)')
  PROVE  HeldBySection'
<1>1. mutex \in Threads \cup {Free}
  BY DEF TypeInv, TypeOK, ControlType
<1>2. CASE mutex' = mutex /\ mutex # t /\ mutex # Free
  BY <1>1, <1>2 DEF HeldBySection, InSection
<1> QED BY <1>2 DEF HeldBySection

\* The steps of a worker: an allocation that fails is the only way out of a
\* section with the mutex locked.
LEMMA WorkerHeld ==
  ASSUME "alloc" \notin Faults, TypeInv, HeldBySection, NEW t \in Workers,
         (Accept(t) \/ Lock(t) \/ Handle(t)) /\ ~NullChannel(t)
  PROVE  HeldBySection'
<1>a. t \in Threads /\ t # Timer /\ Timer \notin Workers
  BY ThreadsAssumption DEF Threads
<1>b. pc \in [Threads -> WorkerPCs \cup TimerPCs]
  BY DEF TypeInv, TypeOK, ControlType
<1>1. \A u \in Threads \ {t} : pc'[u] = pc[u]
  BY <1>b
  DEF Accept, RejectMethod, DropUnparsed, SubNotFound, PoolNotFound, Begin, Lock, Handle, PubPush,
      BroadcastCount, Insert, ClearDelete, ClearReset, SubAnswer, ServeFile, FileAllocFail, PoolJoin,
      PoolPark, PoolReply, DelErase, DelDone, BumpLoad, BumpStore, ReleaseUnheld, Unlock, SendOk, Goto,
      threadVars
<1>2. CASE PoolPark(t) \/ ReleaseUnheld(t) \/ Unlock(t)
  BY <1>a, <1>1, <1>2, HeldByOthers DEF PoolPark, ReleaseUnheld, Unlock
<1>3. CASE Lock(t)
  <2>1. mutex' = t /\ InSection(t)'
    BY <1>a, <1>b, <1>3 DEF Lock, Goto, InSection, WorkerSection
  <2> QED BY <1>a, <1>1, <2>1, HeldByOthers
<1>4. CASE Accept(t)
  <2>1. mutex' = mutex /\ ~InSection(t)
    BY <1>a, <1>4
    DEF Accept, RejectMethod, DropUnparsed, SubNotFound, PoolNotFound, Begin, Arrives, InSection,
        WorkerSection
  <2> QED BY <1>a, <1>1, <2>1, HeldByOthers
<1>5. CASE BumpLoad(t) \/ BumpStore(t) \/ SendOk(t)
  <2>1. mutex' = mutex /\ ~InSection(t)
    BY <1>a, <1>5 DEF BumpLoad, BumpStore, SendOk, InSection, WorkerSection
  <2> QED BY <1>a, <1>1, <2>1, HeldByOthers
<1>6. CASE \/ PubPush(t) \/ BroadcastCount(t) \/ Insert(t) \/ ClearDelete(t) \/ ClearReset(t)
           \/ SubAnswer(t) \/ ServeFile(t) \/ PoolJoin(t) \/ PoolReply(t) \/ DelErase(t)
           \/ DelDone(t)
  <2>1. mutex' = mutex /\ InSection(t)'
    BY <1>a, <1>b, <1>6
    DEF PubPush, BroadcastCount, Insert, ClearDelete, ClearReset, SubAnswer, ServeFile, PoolJoin,
        PoolReply, DelErase, DelDone, Goto, InSection, WorkerSection, threadVars
  <2> QED BY <1>a, <1>1, <2>1, HeldByOthers
<1>7. ~FileAllocFail(t)
  BY DEF FileAllocFail
<1> QED BY <1>2, <1>3, <1>4, <1>5, <1>6, <1>7 DEF Handle

\* The steps of the timer.
LEMMA TimerHeld ==
  ASSUME TypeInv, HeldBySection, (TimerFire \/ TimerLock \/ Sweep) /\ ~TouchFreed
  PROVE  HeldBySection'
<1>a. Timer \in Threads /\ Timer \notin Workers
  BY ThreadsAssumption DEF Threads
<1>b. pc \in [Threads -> WorkerPCs \cup TimerPCs]
  BY DEF TypeInv, TypeOK, ControlType
<1>1. \A u \in Threads \ {Timer} : pc'[u] = pc[u]
  BY <1>b
  DEF TimerFire, TimerLock, Sweep, Deliver, Delivered, Evict, Expire, Spare, NextChannel,
      TimerUnlock, Advance, threadVars
<1>2. CASE TimerUnlock
  BY <1>a, <1>1, <1>2, HeldByOthers DEF TimerUnlock
<1>3. CASE TimerLock
  <2>1. mutex' = Timer /\ InSection(Timer)'
    BY <1>a, <1>b, <1>3 DEF TimerLock, Advance, InSection, TimerSection
  <2> QED BY <1>a, <1>1, <2>1, HeldByOthers
<1>4. CASE TimerFire
  <2>1. mutex' = mutex /\ ~InSection(Timer)
    BY <1>a, <1>4 DEF TimerFire, InSection, TimerSection
  <2> QED BY <1>a, <1>1, <2>1, HeldByOthers
<1>5. CASE Deliver \/ Delivered \/ Evict \/ Expire \/ Spare \/ NextChannel
  <2>1. mutex' = mutex /\ InSection(Timer)'
    BY <1>a, <1>b, <1>5
    DEF Deliver, Delivered, Evict, Expire, Spare, NextChannel, Advance, InSection, TimerSection,
        threadVars
  <2> QED BY <1>a, <1>1, <2>1, HeldByOthers
<1> QED BY <1>2, <1>3, <1>4, <1>5 DEF Sweep

\* HeldBySection is inductive, next to the types.
LEMMA HeldStep ==
  ASSUME "alloc" \notin Faults
  PROVE  TypeInv /\ HeldBySection /\ [Next]_vars => HeldBySection'
<1> SUFFICES ASSUME TypeInv, HeldBySection, [Next]_vars PROVE HeldBySection'
  OBVIOUS
<1>1. CASE Die
  BY <1>1 DEF Die, HeldBySection
<1>2. ASSUME NEW t \in Workers, Accept(t) \/ Lock(t) \/ Handle(t) PROVE HeldBySection'
  BY <1>1, <1>2, WorkerHeld DEF NullChannel
<1>3. CASE TimerFire \/ TimerLock \/ Sweep
  BY <1>1, <1>3, TimerHeld DEF TouchFreed
<1>4. CASE UNCHANGED <<mutex, pc>>
  BY <1>4 DEF HeldBySection, InSection
<1>5. CASE Tick \/ Environment
  BY <1>1, <1>4, <1>5
  DEF Tick, Environment, Start, Crash, RaceCrash, DbToggle, Disconnect, threadVars
<1> QED BY <1>2, <1>3, <1>4, <1>5 DEF Next, vars, threadVars

\* With any number of workers, any requests and whatever crashes, outages and
\* disconnections happen, the mutex is held only by a thread between its lock
\* and its unlock, as long as no buffer allocation fails; pool requests need not
\* be well formed.
THEOREM LockIsNotLeaked ==
  ASSUME "alloc" \notin Faults
  PROVE  Spec => []HeldBySection
<1>1. Init => HeldBySection
  BY DEF Init, HeldBySection
<1> QED BY <1>1, TypeInit, TypeStep, HeldStep, PTL DEF Spec
=============================================================================
