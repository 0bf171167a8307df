--------------------------- MODULE WaitingProofs ---------------------------
(***************************************************************************)
(* Theorems about the lists of subscribers, for any number of workers,     *)
(* channels and requests: outside the mutex a list holds requests that     *)
(* wait, each once.  A request is handled by one worker at a time, which   *)
(* lists it at most once; only the sweep, under the mutex, answers listed  *)
(* requests before it takes them off.                                      *)
(***************************************************************************)
EXTENDS NumberingProofs

----------------------------------------------------------------------------
(* Requests and the workers that handle them *)

\* The request of a worker is no other worker's, and the kind of its request
\* fits what the worker does.
HandledInv ==
  /\ \A t, u \in Workers : pc[t] # "idle" /\ pc[u] # "idle" /\ req[t] = req[u] => t = u
  /\ \A t \in Workers :
       /\ pc[t] = "insert" => In(t).kind \in {"pub", "broadcast"}
       /\ pc[t] = "insert" /\ In(t).kind = "pub" => local[t] = In(t).cid
       /\ pc[t] = "reset" => In(t).kind = "clear"
       /\ pc[t] = "del" => IsPool(req[t])

LEMMA HandledInit == Init => HandledInv
BY DEF Init, HandledInv, Threads

\* Only a worker that accepts a request changes the request it handles.
LEMMA HandledStep ==
  TypeInv /\ LockInv /\ AcceptedInv /\ HandledInv /\ [Next]_vars => HandledInv'
<1> SUFFICES ASSUME TypeInv, LockInv, AcceptedInv, HandledInv, [Next]_vars PROVE HandledInv'
  OBVIOUS
<1>a. /\ pc \in [Threads -> WorkerPCs \cup TimerPCs] /\ req \in [Threads -> Requests \cup {NoReq}]
      /\ local \in [Threads -> Nat] /\ Workers \subseteq Threads /\ Timer \notin Workers
  BY ThreadsAssumption DEF TypeInv, TypeOK, ControlType, Threads
<1>b. \A t \in Workers : LockInvOf(t)
  BY DEF LockInv, Threads
<1>1. ASSUME NEW t \in Workers, Accept(t) PROVE HandledInv'
  <2>1. PICK r \in Requests : \/ RejectMethod(t, r) \/ DropUnparsed(t, r) \/ SubNotFound(t, r)
                              \/ PoolNotFound(t, r) \/ Begin(t, r)
    BY <1>1 DEF Accept
  <2>2. CASE RejectMethod(t, r) \/ DropUnparsed(t, r) \/ SubNotFound(t, r)
    BY <2>2 DEF RejectMethod, DropUnparsed, SubNotFound, threadVars, HandledInv, In, IsPool
  <2>3. CASE PoolNotFound(t, r) \/ Begin(t, r)
    <3>1. /\ conn[r] = "idle" /\ input' = input /\ local' = local
          /\ req' = [req EXCEPT ![t] = r]
          /\ pc' = [pc EXCEPT ![t] = "load"] \/ pc' = [pc EXCEPT ![t] = "lock"]
      BY <2>3 DEF PoolNotFound, Begin, Arrives, Goto
    <3>2. \A u \in Workers : pc[u] # "idle" => req[u] # r
      BY <3>1 DEF AcceptedInv
    <3>3. /\ req'[t] = r /\ pc'[t] \in {"load", "lock"}
          /\ \A u \in Workers \ {t} : pc'[u] = pc[u] /\ req'[u] = req[u]
      BY <1>a, <3>1
    <3> QED BY <3>1, <3>2, <3>3 DEF HandledInv, In, IsPool
  <2> QED BY <2>1, <2>2, <2>3
<1>2. ASSUME NEW t \in Workers, Lock(t) \/ Handle(t) PROVE HandledInv'
  <2>1. CASE NullChannel(t)
    BY <2>1 DEF NullChannel, Die, HandledInv, Threads
  <2>2. CASE ~NullChannel(t)
    <3>1. /\ pc[t] # "idle" /\ input' = input
          /\ \A u \in Workers \ {t} : pc'[u] = pc[u] /\ req'[u] = req[u] /\ local'[u] = local[u]
      BY <1>a, <1>2, <2>2
      DEF Lock, Handle, PubPush, BroadcastCount, Insert, ClearDelete, ClearReset, SubAnswer,
          ServeFile, FileAllocFail, PoolJoin, PoolPark, PoolReply, DelErase, DelDone, BumpLoad,
          BumpStore, ReleaseUnheld, Unlock, SendOk, Goto, threadVars
    <3>2. pc'[t] = "idle" \/ req'[t] = req[t]
      BY <1>a, <1>2, <2>2
      DEF Lock, Handle, PubPush, BroadcastCount, Insert, ClearDelete, ClearReset, SubAnswer,
          ServeFile, FileAllocFail, PoolJoin, PoolPark, PoolReply, DelErase, DelDone, BumpLoad,
          BumpStore, ReleaseUnheld, Unlock, SendOk, Goto, threadVars
    <3>3. /\ pc'[t] = "insert" => In(t)'.kind \in {"pub", "broadcast"}
          /\ pc'[t] = "insert" /\ In(t)'.kind = "pub" => local'[t] = In(t)'.cid
          /\ pc'[t] = "reset" => In(t)'.kind = "clear"
          /\ pc'[t] = "del" => IsPool(req[t])
      <4>1. CASE PubPush(t) \/ BroadcastCount(t) \/ ClearDelete(t)
        BY <1>a, <4>1 DEF PubPush, BroadcastCount, ClearDelete, Goto, In
      <4>2. CASE PoolReply(t) \/ DelErase(t)
        BY <1>a, <1>b, <4>2
        DEF HandledInv, LockInvOf, PoolReply, DelErase, Goto, threadVars
      <4>3. CASE ~(PubPush(t) \/ BroadcastCount(t) \/ ClearDelete(t) \/ PoolReply(t) \/ DelErase(t))
        <5>1. pc'[t] \notin {"insert", "reset", "del"}
          BY <1>a, <1>2, <2>2, <4>3
          DEF Lock, Handle, Insert, ClearReset, SubAnswer, ServeFile, FileAllocFail, PoolJoin,
              PoolPark, DelDone, BumpLoad, BumpStore, ReleaseUnheld, Unlock, SendOk, Goto
        <5> QED BY <5>1
      <4> QED BY <4>1, <4>2, <4>3
    <3> QED BY <3>1, <3>2, <3>3 DEF HandledInv, In, IsPool
  <2> QED BY <2>1, <2>2
<1>3. CASE Tick \/ TimerFire \/ TimerLock \/ Sweep
  <2>1. CASE TouchFreed
    BY <2>1 DEF TouchFreed, Die, HandledInv, Threads
  <2>2. CASE ~TouchFreed
    <3>1. /\ req' = req /\ local' = local /\ input' = input
          /\ \A t \in Workers : pc'[t] = pc[t]
      BY <1>a, <1>3, <2>2
      DEF Tick, TimerFire, TimerLock, Sweep, Deliver, Delivered, Evict, Expire, Spare, NextChannel,
          TimerUnlock, Advance, threadVars
    <3> QED BY <3>1 DEF HandledInv, In, IsPool
  <2> QED BY <2>1, <2>2
<1>4. CASE Environment
  BY <1>4 DEF Environment, Start, Crash, RaceCrash, DbToggle, Disconnect, Die, threadVars,
              HandledInv, In, IsPool, Threads
<1>5. CASE UNCHANGED vars
  BY <1>5 DEF vars, threadVars, HandledInv, In, IsPool
<1> QED BY <1>1, <1>2, <1>3, <1>4, <1>5 DEF Next

\* A worker has its request open from the moment it accepts it until it answers.
Busy(t) ==
  \/ pc[t] \in {"lock", "run", "insert", "reset", "query"}
  \/ pc[t] = "unlock" /\ In(t).kind \in AdminKinds
  \/ pc[t] = "ok"

OpenInv == \A t \in Workers : Busy(t) => conn[req[t]] = "open"

----------------------------------------------------------------------------
(* The lists *)

\* Every listed request is a pool request of the channel, whose worker has
\* listed it already.
Place(c) ==
  \A k \in DOMAIN subs[c] : LET r == subs[c][k].req IN
    /\ IsPool(r) /\ input[r].cid = c /\ conn[r] # "idle"
    /\ \A t \in Workers : pc[t] # "idle" /\ req[t] = r => pc[t] \notin {"lock", "run"}

Once(c) == \A j, k \in DOMAIN subs[c] : subs[c][j].req = subs[c][k].req => j = k

\* The request at place k has been answered by the thread that holds the mutex
\* and that will empty the list.
SweptPast(c, k) ==
  /\ c = pos /\ k < nth
  /\ \/ pc[Timer] = "deliver" /\ msg[c] # {}
     \/ pc[Timer] = "check" /\ ChannelExpired(c)

Deleting(c, k) == \E t \in Workers : pc[t] = "del" /\ req[t] = subs[c][k].req

Served(c, k) == Deleting(c, k) \/ SweptPast(c, k)

Unanswered(c) ==
  \A k \in DOMAIN subs[c] : conn[subs[c][k].req] \in {"open", "gone"} \/ Served(c, k)

ListedInv == \A c \in Channel : Place(c) /\ Once(c) /\ Unanswered(c)

LEMMA ListedInit == Init => OpenInv /\ ListedInv
BY DEF Init, OpenInv, Busy, ListedInv, Place, Once, Unanswered, Threads

\* The lists are sequences.
LEMMA ListShape ==
  ASSUME TypeInv, NEW c \in Channel
  PROVE  /\ subs[c] \in Seq(Subscribers) /\ Len(subs[c]) \in Nat
         /\ DOMAIN subs[c] = 1..Len(subs[c])
         /\ \A k \in DOMAIN subs[c] : subs[c][k] \in Subscribers /\ subs[c][k].req \in Requests
<1>1. subs[c] \in Seq(Subscribers)
  BY DEF TypeInv, TypeOK, ListType
<1>2. Len(subs[c]) \in Nat /\ DOMAIN subs[c] = 1..Len(subs[c])
  BY <1>1, LenProperties
<1>3. \A k \in DOMAIN subs[c] : subs[c][k] \in Subscribers
  BY <1>1, <1>2, ElementOfSeq
<1> QED BY <1>1, <1>2, <1>3 DEF Subscribers

\* The same requests at the same places.
SameList(c) ==
  /\ DOMAIN subs'[c] = DOMAIN subs[c]
  /\ \A k \in DOMAIN subs[c] : subs'[c][k].req = subs[c][k].req

\* The clock, and a request that is parked, change ages only.
LEMMA AgesOnly ==
  ASSUME TypeInv, NEW c \in Channel, Tick \/ \E t \in Workers : PoolPark(t)
  PROVE  SameList(c)
<1>0. \A k \in DOMAIN subs[c] : subs[c][k] \in [id : Nat, req : Requests, age : 0..SubscriberTimeout]
  BY ListShape DEF Subscribers
<1>1. CASE Tick
  <2>1. subs'[c] = [k \in DOMAIN subs[c] |->
                [subs[c][k] EXCEPT !.age = IF @ < SubscriberTimeout THEN @ + 1 ELSE @]]
    BY <1>1 DEF Tick
  <2> QED BY <1>0, <2>1 DEF SameList
<1>2. ASSUME NEW t \in Workers, PoolPark(t) PROVE SameList(c)
  <2>1. subs' = [subs EXCEPT ![In(t).cid] =
                   [k \in DOMAIN @ |-> IF @[k].req = req[t] THEN [@[k] EXCEPT !.age = 0] ELSE @[k]]]
    BY <1>2 DEF PoolPark
  <2>2. subs \in [Channel -> Seq(Subscribers)]
    BY DEF TypeInv, TypeOK, ListType
  <2>3. CASE c = In(t).cid
    <3>1. subs'[c] = [k \in DOMAIN subs[c] |->
                        IF subs[c][k].req = req[t] THEN [subs[c][k] EXCEPT !.age = 0] ELSE subs[c][k]]
      BY <2>1, <2>2, <2>3
    <3> QED BY <1>0, <3>1 DEF SameList
  <2>4. CASE c # In(t).cid
    BY <2>1, <2>2, <2>4 DEF SameList
  <2> QED BY <2>3, <2>4
<1> QED BY <1>1, <1>2

\* A join adds the request of the worker at the end.
LEMMA JoinList ==
  ASSUME TypeInv, NEW c \in Channel, NEW t \in Workers, PoolJoin(t)
  PROVE  \/ c # In(t).cid /\ subs'[c] = subs[c]
         \/ /\ c = In(t).cid
            /\ DOMAIN subs'[c] = 1..(Len(subs[c]) + 1)
            /\ \A k \in DOMAIN subs[c] : subs'[c][k] = subs[c][k]
            /\ subs'[c][Len(subs[c]) + 1].req = req[t]
<1>1. PICK age \in 0..SubscriberTimeout :
        subs' = [subs EXCEPT ![In(t).cid] = Append(@, [id |-> clientNum, req |-> req[t], age |-> age])]
  BY DEF PoolJoin
<1>2. subs \in [Channel -> Seq(Subscribers)] /\ clientNum \in Nat /\ req[t] \in Requests
  BY DEF TypeInv, TypeOK, ListType, CounterType, RequestInv, RequestInvOf, PoolJoin
<1>3. CASE c # In(t).cid
  BY <1>1, <1>2, <1>3
<1>4. CASE c = In(t).cid
  <2> DEFINE e == [id |-> clientNum, req |-> req[t], age |-> age]
  <2>1. e \in Subscribers /\ e.req = req[t]
    BY <1>2 DEF Subscribers
  <2>2. subs'[c] = Append(subs[c], e)
    BY <1>1, <1>2, <1>4
  <2>3. subs'[c] \in Seq(Subscribers) /\ Len(subs'[c]) = Len(subs[c]) + 1
    BY <2>1, <2>2, ListShape, AppendProperties
  <2>4. \A k \in 1..Len(subs[c]) : subs'[c][k] = subs[c][k]
    BY <2>1, <2>2, ListShape, AppendProperties
  <2>5. subs'[c][Len(subs[c]) + 1] = e
    BY <2>1, <2>2, ListShape, AppendProperties
  <2>6. DOMAIN subs'[c] = 1..(Len(subs[c]) + 1)
    BY <2>3, LenProperties
  <2> HIDE DEF e
  <2> QED BY <1>4, <2>1, <2>4, <2>5, <2>6, ListShape
<1> QED BY <1>3, <1>4

\* The elements of a list without its first or its nth move one place down.
LEMMA EraseList ==
  ASSUME TypeInv, NEW c \in Channel, NEW t \in Workers, DelErase(t)
  PROVE  \/ c # In(t).cid /\ subs'[c] = subs[c]
         \/ /\ c = In(t).cid
            /\ DOMAIN subs'[c] \subseteq Nat
            /\ \A k \in DOMAIN subs'[c] : k + 1 \in DOMAIN subs[c] /\ subs'[c][k] = subs[c][k + 1]
<1>1. subs \in [Channel -> Seq(Subscribers)]
  BY DEF TypeInv, TypeOK, ListType
<1>2. subs[In(t).cid] # <<>> /\ subs' = [subs EXCEPT ![In(t).cid] = Tail(@)]
  BY DEF DelErase
<1>3. CASE c = In(t).cid
  <2>1. subs'[c] = Tail(subs[c])
    BY <1>1, <1>2, <1>3
  <2>2. /\ subs'[c] \in Seq(Subscribers) /\ Len(subs'[c]) = Len(subs[c]) - 1
        /\ \A k \in 1..Len(subs'[c]) : subs'[c][k] = subs[c][k + 1]
    BY <1>1, <1>2, <1>3, <2>1, HeadTailProperties
  <2>3. DOMAIN subs'[c] = 1..Len(subs'[c])
    BY <2>2, LenProperties
  <2>4. Len(subs[c]) \in Nat /\ DOMAIN subs[c] = 1..Len(subs[c])
    BY ListShape
  <2>5. \A k \in 1..Len(subs'[c]) : k \in Nat /\ k + 1 \in 1..Len(subs[c])
    BY <2>2, <2>4
  <2> QED BY <1>3, <2>2, <2>3, <2>4, <2>5
<1>4. c # In(t).cid => subs'[c] = subs[c]
  BY <1>1, <1>2
<1> QED BY <1>3, <1>4

LEMMA ExpireList ==
  ASSUME TypeInv, NEW c \in Channel, Expire
  PROVE  \/ c # pos /\ subs'[c] = subs[c]
         \/ /\ c = pos /\ nth \in DOMAIN subs[c]
            /\ DOMAIN subs'[c] \subseteq Nat /\ DOMAIN subs'[c] = 1..(Len(subs[c]) - 1)
            /\ \A k \in DOMAIN subs'[c] :
                 \/ k < nth /\ k \in DOMAIN subs[c] /\ subs'[c][k] = subs[c][k]
                 \/ k >= nth /\ k + 1 \in DOMAIN subs[c] /\ subs'[c][k] = subs[c][k + 1]
<1>1. subs \in [Channel -> Seq(Subscribers)] /\ pos \in Channel /\ nth \in Nat \ {0}
  BY DEF TypeInv, TypeOK, ListType, SweepType
<1>2. nth <= Len(subs[pos])
  BY DEF Expire, AtSubscriber
<1>3. subs' = [subs EXCEPT ![pos] = SubSeq(@, 1, nth - 1) \o SubSeq(@, nth + 1, Len(@))]
  BY DEF Expire
<1>4. CASE c = pos
  <2> DEFINE s == subs[c]
             a == SubSeq(s, 1, nth - 1)
             b == SubSeq(s, nth + 1, Len(s))
  <2>1. s \in Seq(Subscribers) /\ Len(s) \in Nat /\ nth \in 1..Len(s) /\ DOMAIN s = 1..Len(s)
    BY <1>1, <1>2, <1>4, ListShape
  <2>2. \A k \in 1..Len(s) : s[k] \in Subscribers
    BY <2>1, ElementOfSeq
  <2>3. /\ a \in Seq(Subscribers) /\ Len(a) = nth - 1
        /\ \A k \in 1..(nth - 1) : a[k] = s[k]
    <3>1. \A i \in 1..(nth - 1) : s[i] \in Subscribers
      BY <2>1, <2>2
    <3>2. /\ a \in Seq(Subscribers) /\ Len(a) = IF 1 <= nth - 1 THEN nth - 1 - 1 + 1 ELSE 0
          /\ \A i \in 1..(nth - 1 - 1 + 1) : a[i] = s[1 + i - 1]
      BY <2>1, <3>1, SubSeqProperties
    <3> HIDE DEF a, s
    <3> QED BY <2>1, <3>2
  <2>4. /\ b \in Seq(Subscribers) /\ Len(b) = Len(s) - nth
        /\ \A k \in 1..(Len(s) - nth) : b[k] = s[nth + k]
    <3>1. \A i \in (nth + 1)..Len(s) : s[i] \in Subscribers
      BY <2>1, <2>2
    <3>2. /\ b \in Seq(Subscribers)
          /\ Len(b) = IF nth + 1 <= Len(s) THEN Len(s) - (nth + 1) + 1 ELSE 0
          /\ \A i \in 1..(Len(s) - (nth + 1) + 1) : b[i] = s[nth + 1 + i - 1]
      BY <2>1, <3>1, SubSeqProperties
    <3> HIDE DEF a, b, s
    <3>0. Len(s) \in Nat /\ nth \in Nat /\ nth <= Len(s)
      BY <2>1
    <3>3. Len(b) = Len(s) - nth
      <4>1. CASE nth + 1 <= Len(s)
        BY <3>0, <3>2, <4>1
      <4>2. CASE ~(nth + 1 <= Len(s))
        BY <3>0, <3>2, <4>2
      <4> QED BY <4>1, <4>2
    <3>4. ASSUME NEW k \in 1..(Len(s) - nth) PROVE b[k] = s[nth + k]
      <4>1. k \in 1..(Len(s) - (nth + 1) + 1) /\ nth + 1 + k - 1 = nth + k
        BY <2>1
      <4> QED BY <3>2, <4>1
    <3> QED BY <3>2, <3>3, <3>4
  <2>5. subs'[c] = a \o b
    BY <1>1, <1>3, <1>4
  <2> HIDE DEF a, b
  <2>6. /\ a \o b \in Seq(Subscribers) /\ Len(a \o b) = Len(a) + Len(b)
        /\ \A i \in 1..(Len(a) + Len(b)) :
             (a \o b)[i] = IF i <= Len(a) THEN a[i] ELSE b[i - Len(a)]
    BY <2>3, <2>4, ConcatProperties
  <2>7. DOMAIN subs'[c] = 1..(Len(s) - 1)
    BY <2>1, <2>3, <2>4, <2>5, <2>6, LenProperties
  <2>8. ASSUME NEW k \in 1..(Len(s) - 1)
        PROVE  \/ k < nth /\ k \in 1..Len(s) /\ subs'[c][k] = s[k]
               \/ k >= nth /\ k + 1 \in 1..Len(s) /\ subs'[c][k] = s[k + 1]
    <3>1. subs'[c][k] = IF k <= nth - 1 THEN a[k] ELSE b[k - (nth - 1)]
      BY SMTT(30), <2>1, <2>3, <2>4, <2>5, <2>6
    <3>2. CASE k < nth
      BY <2>1, <2>3, <3>1, <3>2
    <3>3. CASE k >= nth
      <4>1. k - (nth - 1) \in 1..(Len(s) - nth) /\ nth + (k - (nth - 1)) = k + 1
        BY <2>1, <3>3
      <4>2. b[k - (nth - 1)] = s[k + 1]
        BY <2>4, <4>1
      <4> QED BY <2>1, <3>1, <3>3, <4>2
    <3> QED BY <2>1, <3>2, <3>3
  <2>9. 1..(Len(s) - 1) \subseteq Nat
    BY <2>1
  <2>10. s = subs[c]
    OBVIOUS
  <2> HIDE DEF s
  <2> QED BY Zenon, <1>4, <2>1, <2>7, <2>8, <2>9, <2>10
<1> QED BY <1>1, <1>3, <1>4

----------------------------------------------------------------------------
(* Their steps *)

WaitingInv == TypeInv /\ LockInv /\ AcceptedInv /\ HandledInv /\ OpenInv /\ ListedInv

\* While the sweep is in its section no worker is, and the other way round.
LEMMA SweepAlone ==
  ASSUME LockInv, pc[Timer] \in TimerSection, NEW t \in Workers
  PROVE  pc[t] \notin WorkerSection
BY ThreadsAssumption DEF LockInv, LockInvOf, InSection, Threads

\* A request the sweep has reached has left its worker, or waits for it to
\* increment _clientNum.
LEMMA ReachedIsFree ==
  ASSUME WaitingInv, pc[Timer] \in TimerSection, AtSubscriber, NEW t \in Workers,
         pc[t] # "idle", req[t] = Reached.req
  PROVE  ~Busy(t)
<1>1. pos \in Channel /\ nth \in DOMAIN subs[pos]
  <2>1. pos \in Channel /\ nth \in Nat \ {0} /\ nth <= Len(subs[pos])
    BY DEF WaitingInv, TypeInv, TypeOK, SweepType, AtSubscriber
  <2> QED BY <2>1, ListShape DEF WaitingInv
<1>2. pc[t] \notin {"lock", "run"}
  BY <1>1 DEF WaitingInv, ListedInv, Place, Reached
<1>3. pc[t] \notin WorkerSection
  BY SweepAlone DEF WaitingInv
<1>4. pc[t] # "ok"
  <2>1. IsPool(Reached.req)
    BY <1>1 DEF WaitingInv, ListedInv, Place, Reached
  <2> QED BY <2>1 DEF WaitingInv, TypeInv, RequestInv, RequestInvOf, IsPool, In, AdminKinds
<1> QED BY <1>2, <1>3, <1>4 DEF Busy, WorkerSection

\* The steps of worker t change no connection but that of its request, and
\* leave it alone while the request is not answered.
LEMMA WorkerConn ==
  ASSUME WaitingInv, NEW t \in Workers, Lock(t) \/ Handle(t), ~NullChannel(t)
  PROVE  /\ \A r \in Requests : r # req[t] => conn'[r] = conn[r]
         /\ Busy(t)' => Busy(t) /\ req'[t] = req[t] /\ conn'[req[t]] = conn[req[t]]
         /\ pc[t] # "idle" /\ req[t] \in Requests /\ input' = input
<1>a. /\ pc \in [Threads -> WorkerPCs \cup TimerPCs] /\ req \in [Threads -> Requests \cup {NoReq}]
      /\ conn \in [Requests -> ConnStates] /\ t \in Threads /\ RequestInvOf(t) /\ LockInvOf(t)
  BY DEF WaitingInv, TypeInv, TypeOK, ControlType, ClientType, RequestInv, LockInv, Threads
<1>1. pc[t] # "idle" /\ req[t] \in Requests /\ input' = input
  BY <1>a
  DEF Lock, Handle, PubPush, BroadcastCount, Insert, ClearDelete, ClearReset, SubAnswer,
      ServeFile, FileAllocFail, PoolJoin, PoolPark, PoolReply, DelErase, DelDone, BumpLoad,
      BumpStore, ReleaseUnheld, Unlock, SendOk, RequestInvOf
<1>2. CASE \/ SubAnswer(t) \/ ServeFile(t) \/ PoolReply(t) \/ Unlock(t) \/ SendOk(t)
           \/ DelDone(t)
  BY <1>a, <1>1, <1>2
  DEF SubAnswer, ServeFile, PoolReply, Unlock, SendOk, DelDone, Goto, Busy, In, AdminKinds, FileKinds,
      clientVars, WaitingInv, HandledInv, IsPool
<1>3. CASE ~(\/ SubAnswer(t) \/ ServeFile(t) \/ PoolReply(t) \/ Unlock(t) \/ SendOk(t)
             \/ DelDone(t))
  <2>1. conn' = conn
    BY <1>3
    DEF Lock, Handle, PubPush, BroadcastCount, Insert, ClearDelete, ClearReset, FileAllocFail,
        PoolJoin, PoolPark, DelErase, BumpLoad, BumpStore, ReleaseUnheld, clientVars
  <2>2. pc'[t] = "idle" \/ req'[t] = req[t]
    BY <1>a, <1>3
    DEF Lock, Handle, PubPush, BroadcastCount, Insert, ClearDelete, ClearReset, FileAllocFail,
        PoolJoin, PoolPark, DelErase, BumpLoad, BumpStore, ReleaseUnheld, Goto, threadVars
  <2>3. pc'[t] \in {"lock", "run", "insert", "reset", "query", "unlock", "ok"} => Busy(t)
    BY <1>a, <1>3
    DEF Lock, Handle, PubPush, BroadcastCount, Insert, ClearDelete, ClearReset, FileAllocFail,
        PoolJoin, PoolPark, DelErase, BumpLoad, BumpStore, ReleaseUnheld, Goto, threadVars, Busy
  <2> QED BY <1>1, <2>1, <2>2, <2>3 DEF Busy
<1> QED BY <1>1, <1>2, <1>3

LEMMA OpenStep == WaitingInv /\ [Next]_vars => OpenInv'
<1> SUFFICES ASSUME WaitingInv, [Next]_vars PROVE OpenInv'
  OBVIOUS
<1>a. /\ pc \in [Threads -> WorkerPCs \cup TimerPCs] /\ req \in [Threads -> Requests \cup {NoReq}]
      /\ conn \in [Requests -> ConnStates] /\ Timer \notin Workers /\ Workers \subseteq Threads
  BY ThreadsAssumption DEF WaitingInv, TypeInv, TypeOK, ControlType, ClientType, Threads
<1>b. \A t \in Workers : Busy(t) => pc[t] # "idle" /\ req[t] \in Requests /\ conn[req[t]] = "open"
  BY DEF WaitingInv, OpenInv, Busy, TypeInv, RequestInv, RequestInvOf
<1>c. Die => OpenInv'
  BY <1>a DEF Die, OpenInv, Busy
<1>1. ASSUME NEW t \in Workers, Accept(t) PROVE OpenInv'
  <2>1. PICK r \in Requests : \/ RejectMethod(t, r) \/ DropUnparsed(t, r) \/ SubNotFound(t, r)
                              \/ PoolNotFound(t, r) \/ Begin(t, r)
    BY <1>1 DEF Accept
  <2>2. /\ conn[r] = "idle" /\ input' = input /\ \A q \in Requests : q # r => conn'[q] = conn[q]
        /\ \A u \in Workers \ {t} : pc'[u] = pc[u] /\ req'[u] = req[u]
    BY <1>a, <2>1 DEF Arrives, RejectMethod, DropUnparsed, SubNotFound, PoolNotFound, Begin, Goto,
                      threadVars
  <2>3. ASSUME NEW u \in Workers, u # t, Busy(u)' PROVE conn'[req'[u]] = "open"
    <3>1. Busy(u) /\ req'[u] = req[u]
      BY <2>2, <2>3 DEF Busy, In
    <3> QED BY <1>b, <2>2, <3>1
  <2>4. ASSUME Busy(t)' PROVE conn'[req'[t]] = "open"
    BY <1>a, <2>1, <2>4 DEF Arrives, RejectMethod, DropUnparsed, SubNotFound, PoolNotFound, Begin,
                            Goto, threadVars, Busy
  <2> QED BY <2>3, <2>4 DEF OpenInv
<1>2. ASSUME NEW t \in Workers, Lock(t) \/ Handle(t), ~NullChannel(t) PROVE OpenInv'
  <2>1. \A u \in Workers \ {t} : pc'[u] = pc[u] /\ req'[u] = req[u]
    BY <1>a, <1>2
    DEF Lock, Handle, PubPush, BroadcastCount, Insert, ClearDelete, ClearReset, SubAnswer,
        ServeFile, FileAllocFail, PoolJoin, PoolPark, PoolReply, DelErase, DelDone, BumpLoad,
        BumpStore, ReleaseUnheld, Unlock, SendOk, Goto, threadVars
  <2>2. /\ \A r \in Requests : r # req[t] => conn'[r] = conn[r]
        /\ Busy(t)' => Busy(t) /\ req'[t] = req[t] /\ conn'[req[t]] = conn[req[t]]
        /\ pc[t] # "idle" /\ input' = input
    BY <1>2, WorkerConn
  <2>3. ASSUME NEW u \in Workers, u # t, Busy(u)' PROVE conn'[req'[u]] = "open"
    <3>1. Busy(u) /\ req'[u] = req[u]
      BY <2>1, <2>2, <2>3 DEF Busy, In
    <3>2. req[u] # req[t]
      BY <1>b, <2>2, <2>3, <3>1 DEF WaitingInv, HandledInv
    <3> QED BY <1>b, <2>2, <3>1, <3>2
  <2> QED BY <1>b, <2>2, <2>3 DEF OpenInv
<1>3. CASE Deliver \/ Evict \/ Expire
  <2>1. /\ pc' = pc /\ req' = req /\ input' = input /\ AtSubscriber /\ pc[Timer] \in TimerSection
        /\ \A r \in Requests : r # Reached.req => conn'[r] = conn[r]
    BY <1>a, <1>3 DEF Deliver, Evict, Expire, SendAndEnd, threadVars, clientVars, TimerSection
  <2>2. \A u \in Workers : Busy(u)' => Busy(u)
    BY <2>1 DEF Busy, In
  <2> QED BY <1>b, <2>1, <2>2, ReachedIsFree DEF OpenInv
<1>4. CASE Tick \/ TimerFire \/ TimerLock \/ Delivered \/ Spare \/ NextChannel \/ TimerUnlock
  <2>1. /\ req' = req /\ input' = input /\ conn' = conn
        /\ \A t \in Workers : pc'[t] = pc[t]
    BY <1>a, <1>4 DEF Tick, TimerFire, TimerLock, Delivered, Spare, NextChannel, TimerUnlock, Advance,
                      threadVars, clientVars
  <2> QED BY <2>1 DEF WaitingInv, OpenInv, Busy, In
<1>5. CASE Start \/ DbToggle \/ UNCHANGED vars
  BY <1>5 DEF Start, DbToggle, vars, threadVars, clientVars, WaitingInv, OpenInv, Busy, In
<1>6. ASSUME NEW r \in Requests, Disconnect(r) PROVE OpenInv'
  <2>1. /\ pc' = pc /\ req' = req /\ input' = input /\ \A t \in Workers : req[t] # r
        /\ \A q \in Requests : q # r => conn'[q] = conn[q]
    BY <1>a, <1>6 DEF Disconnect, threadVars
  <2>2. \A u \in Workers : Busy(u)' => Busy(u)
    BY <2>1 DEF Busy, In
  <2> QED BY <1>b, <2>1, <2>2 DEF OpenInv
<1> QED BY <1>c, <1>1, <1>2, <1>3, <1>4, <1>5, <1>6
        DEF Next, Handle, NullChannel, Sweep, TouchFreed, Environment, Crash, RaceCrash

\* The steps that change the lists.
LEMMA SubsSteps ==
  ASSUME [Next]_vars
  PROVE  \/ subs' = subs
         \/ \E t \in Workers : PoolJoin(t) \/ PoolPark(t) \/ DelErase(t)
         \/ Tick \/ Delivered \/ Expire \/ NextChannel \/ Die
<1>1. ASSUME NEW t \in Workers, Accept(t) PROVE subs' = subs
  BY <1>1 DEF Accept, RejectMethod, DropUnparsed, SubNotFound, PoolNotFound, Begin, serverVars
<1>2. ASSUME NEW t \in Workers, Lock(t) \/ Handle(t),
             ~(PoolJoin(t) \/ PoolPark(t) \/ DelErase(t) \/ Die)
      PROVE  subs' = subs
  BY <1>2
  DEF Lock, Handle, PubPush, BroadcastCount, Insert, ClearDelete, ClearReset, NullChannel,
      SubAnswer, ServeFile, FileAllocFail, PoolReply, DelDone, BumpLoad, BumpStore,
      ReleaseUnheld, Unlock, SendOk, serverVars
<1>3. CASE TimerFire \/ TimerLock \/ Deliver \/ Evict \/ Spare \/ TimerUnlock
  BY <1>3 DEF TimerFire, TimerLock, Deliver, Evict, Spare, TimerUnlock, serverVars
<1>4. CASE Start \/ DbToggle \/ UNCHANGED vars \/ \E r \in Requests : Disconnect(r)
  BY <1>4 DEF Start, DbToggle, Disconnect, vars, serverVars
<1> QED BY <1>1, <1>2, <1>3, <1>4 DEF Next, Sweep, TouchFreed, Environment, Crash, RaceCrash

\* How the list of channel c changes.
LEMMA ListSteps ==
  ASSUME TypeInv, [Next]_vars, NEW c \in Channel
  PROVE  \/ SameList(c)
         \/ DOMAIN subs'[c] = {}
         \/ \E t \in Workers :
              /\ PoolJoin(t) /\ In(t).cid = c
              /\ DOMAIN subs'[c] = 1..(Len(subs[c]) + 1)
              /\ \A k \in DOMAIN subs[c] : subs'[c][k].req = subs[c][k].req
              /\ subs'[c][Len(subs[c]) + 1].req = req[t]
         \/ /\ DOMAIN subs'[c] \subseteq Nat
            /\ \A k \in DOMAIN subs'[c] :
                 k + 1 \in DOMAIN subs[c] /\ subs'[c][k].req = subs[c][k + 1].req
         \/ /\ DOMAIN subs'[c] \subseteq Nat
            /\ \A k \in DOMAIN subs'[c] :
                 \/ k < nth /\ k \in DOMAIN subs[c] /\ subs'[c][k].req = subs[c][k].req
                 \/ k >= nth /\ k + 1 \in DOMAIN subs[c] /\ subs'[c][k].req = subs[c][k + 1].req
<1>0. subs \in [Channel -> Seq(Subscribers)]
  BY DEF TypeInv, TypeOK, ListType
<1>1. subs'[c] = subs[c] => SameList(c)
  BY DEF SameList
<1>2. CASE Tick \/ \E t \in Workers : PoolPark(t)
  BY <1>2, AgesOnly
<1>3. ASSUME NEW t \in Workers, PoolJoin(t)
      PROVE  \/ subs'[c] = subs[c]
             \/ /\ In(t).cid = c
                /\ DOMAIN subs'[c] = 1..(Len(subs[c]) + 1)
                /\ \A k \in DOMAIN subs[c] : subs'[c][k].req = subs[c][k].req
                /\ subs'[c][Len(subs[c]) + 1].req = req[t]
  BY <1>3, JoinList
<1>4. ASSUME NEW t \in Workers, DelErase(t)
      PROVE  \/ subs'[c] = subs[c]
             \/ /\ DOMAIN subs'[c] \subseteq Nat
                /\ \A k \in DOMAIN subs'[c] :
                     k + 1 \in DOMAIN subs[c] /\ subs'[c][k].req = subs[c][k + 1].req
  BY <1>4, EraseList
<1>5. CASE Expire
  BY <1>1, <1>5, ExpireList
<1>6. CASE Delivered \/ NextChannel
  <2>1. pos \in Channel /\ (subs' = subs \/ subs' = [subs EXCEPT ![pos] = <<>>])
    BY <1>6 DEF Delivered, NextChannel, TypeInv, TypeOK, SweepType
  <2>2. DOMAIN <<>> = {}
    OBVIOUS
  <2>3. subs'[c] = subs[c] \/ subs'[c] = <<>>
    BY <1>0, <2>1
  <2> QED BY <1>1, <2>2, <2>3
<1>7. CASE Die
  <2>1. DOMAIN <<>> = {}
    OBVIOUS
  <2> QED BY <1>7, <2>1 DEF Die
<1> QED BY <1>1, <1>2, <1>3, <1>4, <1>5, <1>6, <1>7, SubsSteps

\* A worker that is about to run a pool request has just accepted it or was so
\* before.
LEMMA ToRun ==
  ASSUME TypeInv, LockInv, HandledInv, [Next]_vars, NEW t \in Workers, pc'[t] \in {"lock", "run"}
  PROVE  \/ pc[t] \in {"lock", "run"} /\ req'[t] = req[t]
         \/ In(t).kind = "broadcast" /\ req'[t] = req[t]
         \/ conn[req'[t]] = "idle"
<1>a. /\ pc \in [Threads -> WorkerPCs \cup TimerPCs] /\ req \in [Threads -> Requests \cup {NoReq}]
      /\ Timer \notin Workers /\ Workers \subseteq Threads
  BY ThreadsAssumption DEF TypeInv, TypeOK, ControlType, Threads
<1>b. ~Die
  BY <1>a DEF Die
<1>1. ASSUME NEW u \in Workers, Accept(u)
      PROVE  \/ pc[t] \in {"lock", "run"} /\ req'[t] = req[t] /\ pc'[t] = pc[t]
             \/ conn[req'[t]] = "idle"
  <2>1. PICK r \in Requests : \/ RejectMethod(u, r) \/ DropUnparsed(u, r) \/ SubNotFound(u, r)
                              \/ PoolNotFound(u, r) \/ Begin(u, r)
    BY <1>1 DEF Accept
  <2>2. CASE u = t
    BY <1>a, <2>1, <2>2 DEF RejectMethod, DropUnparsed, SubNotFound, PoolNotFound, Begin, Arrives, Goto,
                      threadVars
  <2>3. CASE u # t
    BY <1>a, <2>1, <2>3 DEF RejectMethod, DropUnparsed, SubNotFound, PoolNotFound, Begin, Goto,
                      threadVars
  <2> QED BY <2>2, <2>3
<1>2. ASSUME NEW u \in Workers, Lock(u) \/ Handle(u), u # t
      PROVE  pc'[t] = pc[t] /\ req'[t] = req[t]
  BY <1>2, <1>a, <1>b
  DEF Lock, Handle, PubPush, BroadcastCount, Insert, ClearDelete, ClearReset, NullChannel,
      SubAnswer, ServeFile, FileAllocFail, PoolJoin, PoolPark, PoolReply, DelErase, DelDone,
      BumpLoad, BumpStore, ReleaseUnheld, Unlock, SendOk, Goto, threadVars
<1>3. CASE Lock(t) \/ Handle(t)
  <2>1. Lock(t) \/ Insert(t)
    BY <1>3, <1>a, <1>b
    DEF Lock, Handle, PubPush, BroadcastCount, ClearDelete, ClearReset, NullChannel,
        SubAnswer, ServeFile, FileAllocFail, PoolJoin, PoolPark, PoolReply, DelErase, DelDone,
        BumpLoad, BumpStore, ReleaseUnheld, Unlock, SendOk, Goto, threadVars
  <2>2. CASE Lock(t)
    BY <2>2 DEF Lock
  <2>3. CASE Insert(t)
    BY <1>a, <2>3 DEF Insert, Goto
  <2> QED BY <2>1, <2>2, <2>3
<1>4. CASE Tick \/ TimerFire \/ TimerLock \/ Sweep
  BY <1>4, <1>a, <1>b
  DEF Tick, TimerFire, TimerLock, Sweep, Deliver, Delivered, Evict, Expire, Spare, NextChannel,
      TimerUnlock, TouchFreed, Advance, threadVars
<1>5. CASE Environment
  BY <1>5, <1>b DEF Environment, Start, Crash, RaceCrash, DbToggle, Disconnect, threadVars
<1>6. CASE UNCHANGED vars
  BY <1>6 DEF vars, threadVars
<1> QED BY <1>1, <1>2, <1>3, <1>4, <1>5, <1>6 DEF Next

LEMMA InputKept == [Next]_vars => input' = input
<1> SUFFICES ASSUME [Next]_vars PROVE input' = input
  OBVIOUS
<1>1. ASSUME NEW t \in Workers, Accept(t) PROVE input' = input
  BY <1>1 DEF Accept, RejectMethod, DropUnparsed, SubNotFound, PoolNotFound, Begin
<1>2. ASSUME NEW t \in Workers, Lock(t) \/ Handle(t) PROVE input' = input
  BY <1>2 DEF Lock, Handle, PubPush, BroadcastCount, Insert, ClearDelete, ClearReset, NullChannel,
              SubAnswer, ServeFile, FileAllocFail, PoolJoin, PoolPark, PoolReply, DelErase, DelDone,
              BumpLoad, BumpStore, ReleaseUnheld, Unlock, SendOk, Die
<1>3. CASE Tick \/ TimerFire \/ TimerLock \/ Sweep
  BY <1>3 DEF Tick, TimerFire, TimerLock, Sweep, Deliver, Delivered, Evict, Expire, Spare,
              NextChannel, TimerUnlock, TouchFreed, Die
<1>4. CASE Environment
  BY <1>4 DEF Environment, Start, Crash, RaceCrash, DbToggle, Disconnect, Die
<1>5. CASE UNCHANGED vars
  BY <1>5 DEF vars
<1> QED BY <1>1, <1>2, <1>3, <1>4, <1>5 DEF Next

LEMMA PlaceStep ==
  ASSUME WaitingInv, [Next]_vars, NEW c \in Channel
  PROVE  Place(c)'
<1> SUFFICES ASSUME NEW k \in DOMAIN subs'[c]
             PROVE  /\ IsPool(subs'[c][k].req) /\ input[subs'[c][k].req].cid = c
                    /\ conn'[subs'[c][k].req] # "idle"
                    /\ \A t \in Workers : pc'[t] # "idle" /\ req'[t] = subs'[c][k].req
                                           => pc'[t] \notin {"lock", "run"}
  BY InputKept DEF Place, IsPool
<1> DEFINE r == subs'[c][k].req
<1>a. /\ pc \in [Threads -> WorkerPCs \cup TimerPCs] /\ req \in [Threads -> Requests \cup {NoReq}]
      /\ Workers \subseteq Threads
  BY DEF WaitingInv, TypeInv, TypeOK, ControlType, Threads
<1>1. CASE \E i \in DOMAIN subs[c] : r = subs[c][i].req
  <2>1. /\ IsPool(r) /\ input[r].cid = c /\ conn[r] # "idle" /\ r \in Requests
        /\ \A t \in Workers : pc[t] # "idle" /\ req[t] = r => pc[t] \notin {"lock", "run"}
    BY <1>1, ListShape DEF WaitingInv, ListedInv, Place
  <2>2. conn'[r] # "idle"
    BY <2>1, SentStays DEF WaitingInv
  <2>3. ASSUME NEW t \in Workers, pc'[t] # "idle", req'[t] = r PROVE pc'[t] \notin {"lock", "run"}
    <3>1. pc'[t] \in {"lock", "run"} =>
            \/ pc[t] \in {"lock", "run"} /\ req[t] = r
            \/ In(t).kind = "broadcast" /\ req[t] = r
            \/ conn[r] = "idle"
      <4>1. ASSUME pc'[t] \in {"lock", "run"}
            PROVE  \/ pc[t] \in {"lock", "run"} /\ req'[t] = req[t]
                   \/ In(t).kind = "broadcast" /\ req'[t] = req[t]
                   \/ conn[req'[t]] = "idle"
        BY <4>1, ToRun DEF WaitingInv
      <4> QED BY <2>3, <4>1
    <3> HIDE DEF r
    <3> QED BY <2>1, <3>1 DEF IsPool, In
  <2> QED BY <2>1, <2>2, <2>3
<1>2. ASSUME NEW t \in Workers, PoolJoin(t), In(t).cid = c, r = req[t]
      PROVE  /\ IsPool(r) /\ input[r].cid = c /\ conn'[r] # "idle"
             /\ \A u \in Workers : pc'[u] # "idle" /\ req'[u] = r => pc'[u] \notin {"lock", "run"}
  <2>1. /\ pc[t] = "run" /\ In(t).kind = "pool" /\ req[t] \in Requests /\ In(t).form = "get"
        /\ conn[req[t]] # "idle"
    BY <1>2 DEF PoolJoin, WaitingInv, TypeInv, RequestInv, RequestInvOf, LockInv, LockInvOf, Threads,
                AcceptedInv
  <2>2. IsPool(r) /\ input[r].cid = c /\ conn'[r] # "idle"
    BY <1>2, <2>1, SentStays DEF WaitingInv, IsPool, In
  <2>3. pc' = [pc EXCEPT ![t] = "query"] /\ req' = req
    BY <1>2 DEF PoolJoin, Goto
  <2>4. ASSUME NEW u \in Workers, pc'[u] # "idle", req'[u] = r PROVE pc'[u] \notin {"lock", "run"}
    <3>1. CASE u = t
      BY <1>a, <2>3, <3>1
    <3>2. CASE u # t
      BY <1>a, <1>2, <2>1, <2>3, <2>4, <3>2 DEF WaitingInv, HandledInv
    <3> QED BY <3>1, <3>2
  <2> QED BY <2>2, <2>4
<1>3. \/ \E i \in DOMAIN subs[c] : r = subs[c][i].req
      \/ \E t \in Workers : PoolJoin(t) /\ In(t).cid = c /\ r = req[t]
  <2>1. DOMAIN subs[c] = 1..Len(subs[c]) /\ Len(subs[c]) \in Nat
    BY ListShape DEF WaitingInv
  <2> QED BY <2>1, ListSteps DEF WaitingInv, SameList
<1> HIDE DEF r
<1> QED BY <1>1, <1>2, <1>3 DEF r

LEMMA OnceStep ==
  ASSUME WaitingInv, [Next]_vars, NEW c \in Channel
  PROVE  Once(c)'
<1>1. DOMAIN subs[c] = 1..Len(subs[c]) /\ Len(subs[c]) \in Nat
  BY ListShape DEF WaitingInv
<1>2. \A j, k \in DOMAIN subs[c] : subs[c][j].req = subs[c][k].req => j = k
  BY DEF WaitingInv, ListedInv, Once
<1>3. ASSUME NEW t \in Workers, PoolJoin(t), NEW k \in DOMAIN subs[c] PROVE subs[c][k].req # req[t]
  BY <1>3 DEF WaitingInv, ListedInv, Place, PoolJoin
<1> SUFFICES ASSUME NEW j \in DOMAIN subs'[c], NEW k \in DOMAIN subs'[c],
                    subs'[c][j].req = subs'[c][k].req
             PROVE  j = k
  BY DEF Once
<1>4. CASE SameList(c)
  BY <1>2, <1>4 DEF SameList
<1>5. ASSUME NEW t \in Workers, PoolJoin(t),
             DOMAIN subs'[c] = 1..(Len(subs[c]) + 1),
             \A i \in DOMAIN subs[c] : subs'[c][i].req = subs[c][i].req,
             subs'[c][Len(subs[c]) + 1].req = req[t]
      PROVE  j = k
  <2>1. \A i \in DOMAIN subs'[c] : i \in DOMAIN subs[c] \/ i = Len(subs[c]) + 1
    BY <1>1, <1>5
  <2> QED BY <1>2, <1>3, <1>5, <2>1
<1>6. ASSUME DOMAIN subs'[c] \subseteq Nat,
             \A i \in DOMAIN subs'[c] :
               i + 1 \in DOMAIN subs[c] /\ subs'[c][i].req = subs[c][i + 1].req
      PROVE  j = k
  <2>1. j + 1 = k + 1
    BY <1>2, <1>6
  <2> QED BY <1>6, <2>1
<1>7. ASSUME DOMAIN subs'[c] \subseteq Nat,
             \A i \in DOMAIN subs'[c] :
               \/ i < nth /\ i \in DOMAIN subs[c] /\ subs'[c][i].req = subs[c][i].req
               \/ i >= nth /\ i + 1 \in DOMAIN subs[c] /\ subs'[c][i].req = subs[c][i + 1].req
      PROVE  j = k
  <2>0. nth \in Nat /\ j \in Nat /\ k \in Nat
    BY <1>7 DEF WaitingInv, TypeInv, TypeOK, SweepType
  <2>1. CASE j < nth /\ k < nth
    BY <1>2, <1>7, <2>0, <2>1
  <2>2. CASE j >= nth /\ k >= nth
    <3>1. j + 1 = k + 1
      BY <1>2, <1>7, <2>0, <2>2
    <3> QED BY <2>0, <3>1
  <2>3. CASE j < nth /\ k >= nth
    <3>1. j = k + 1
      BY <1>2, <1>7, <2>0, <2>3
    <3> QED BY <2>0, <2>3, <3>1
  <2>4. CASE j >= nth /\ k < nth
    <3>1. j + 1 = k
      BY <1>2, <1>7, <2>0, <2>4
    <3> QED BY <2>0, <2>4, <3>1
  <2> QED BY <2>0, <2>1, <2>2, <2>3, <2>4
<1> QED BY <1>4, <1>5, <1>6, <1>7, ListSteps DEF WaitingInv

\* A listed request is answered neither by a worker that has not listed it nor
\* by one whose request is not of pool.
LEMMA UnansweredKept ==
  ASSUME WaitingInv, NEW c \in Channel, SameList(c),
         \A k \in DOMAIN subs[c] :
           /\ SweptPast(c, k) => SweptPast(c, k)'
           /\ conn[subs[c][k].req] \in {"open", "gone"}
              => conn'[subs[c][k].req] \in {"open", "gone"} \/ Served(c, k)',
         \A t \in Workers : pc[t] = "del" => pc'[t] = "del" /\ req'[t] = req[t]
  PROVE  Unanswered(c)'
<1> SUFFICES ASSUME NEW k \in DOMAIN subs[c]
             PROVE  conn'[subs[c][k].req] \in {"open", "gone"} \/ Served(c, k)'
  BY DEF Unanswered, SameList
<1>1. conn[subs[c][k].req] \in {"open", "gone"} \/ Deleting(c, k) \/ SweptPast(c, k)
  BY DEF WaitingInv, ListedInv, Unanswered, Served
<1>2. Deleting(c, k) => Deleting(c, k)'
  BY DEF Deleting, SameList
<1> QED BY <1>1, <1>2 DEF Served

\* The steps of a worker.
LEMMA WorkerUnanswered ==
  ASSUME WaitingInv, NEW t \in Workers, Accept(t) \/ Lock(t) \/ Handle(t), ~NullChannel(t),
         NEW c \in Channel
  PROVE  Unanswered(c)'
<1>a. /\ pc \in [Threads -> WorkerPCs \cup TimerPCs] /\ req \in [Threads -> Requests \cup {NoReq}]
      /\ conn \in [Requests -> ConnStates] /\ t \in Threads /\ t # Timer /\ Timer \in Threads
      /\ Workers \subseteq Threads
  BY ThreadsAssumption DEF WaitingInv, TypeInv, TypeOK, ControlType, ClientType, Threads
<1>b. \A k \in DOMAIN subs[c] :
        /\ subs[c][k].req \in Requests /\ IsPool(subs[c][k].req)
        /\ input[subs[c][k].req].cid = c /\ conn[subs[c][k].req] # "idle"
  BY ListShape DEF WaitingInv, ListedInv, Place
<1>c. subs' = subs => SameList(c)
  BY DEF SameList
<1>1. CASE Accept(t)
  <2>1. PICK r \in Requests : \/ RejectMethod(t, r) \/ DropUnparsed(t, r) \/ SubNotFound(t, r)
                              \/ PoolNotFound(t, r) \/ Begin(t, r)
    BY <1>1 DEF Accept
  <2>2. /\ conn[r] = "idle" /\ \A q \in Requests : q # r => conn'[q] = conn[q]
        /\ subs' = subs /\ pos' = pos /\ nth' = nth /\ msg' = msg /\ chanAge' = chanAge
        /\ pc[t] = "idle"
        /\ \A u \in Threads \ {t} : pc'[u] = pc[u] /\ req'[u] = req[u]
    BY <1>a, <2>1 DEF Arrives, RejectMethod, DropUnparsed, SubNotFound, PoolNotFound, Begin, Goto,
                      threadVars, serverVars, sweepVars
  <2>3. \A k \in DOMAIN subs[c] : conn'[subs[c][k].req] = conn[subs[c][k].req]
    BY <1>b, <2>2
  <2>4. \A k \in DOMAIN subs[c] : SweptPast(c, k) => SweptPast(c, k)'
    BY <1>a, <2>2 DEF SweptPast, ChannelExpired
  <2>5. \A u \in Workers : pc[u] = "del" => pc'[u] = "del" /\ req'[u] = req[u]
    BY <1>a, <2>2
  <2> QED BY <1>c, <2>2, <2>3, <2>4, <2>5, UnansweredKept
<1>d. Lock(t) \/ Handle(t) =>
      /\ \A r \in Requests : r # req[t] => conn'[r] = conn[r]
      /\ pc[t] # "idle" /\ req[t] \in Requests
      /\ \A u \in Threads \ {t} : pc'[u] = pc[u] /\ req'[u] = req[u]
  <2> SUFFICES ASSUME Lock(t) \/ Handle(t)
               PROVE  /\ \A r \in Requests : r # req[t] => conn'[r] = conn[r]
                      /\ pc[t] # "idle" /\ req[t] \in Requests
                      /\ \A u \in Threads \ {t} : pc'[u] = pc[u] /\ req'[u] = req[u]
    OBVIOUS
  <2>1. \A u \in Threads \ {t} : pc'[u] = pc[u] /\ req'[u] = req[u]
    BY <1>a
    DEF Lock, Handle, PubPush, BroadcastCount, Insert, ClearDelete, ClearReset, SubAnswer,
        ServeFile, FileAllocFail, PoolJoin, PoolPark, PoolReply, DelErase, DelDone, BumpLoad,
        BumpStore, ReleaseUnheld, Unlock, SendOk, Goto, threadVars
  <2> QED BY <2>1, WorkerConn
<1>e. (Lock(t) \/ Handle(t)) /\ SameList(c) /\ pc[t] # "del"
      /\ (\A k \in DOMAIN subs[c] : SweptPast(c, k) => SweptPast(c, k)')
      /\ conn' = conn
      => Unanswered(c)'
  BY <1>a, <1>d, UnansweredKept
<1>f. pc[t] \in WorkerSection => pc[Timer] \notin TimerSection
  BY SweepAlone DEF WaitingInv
<1>g. pc[t] \in WorkerSection => \A k \in DOMAIN subs[c] : ~SweptPast(c, k)
  BY <1>f DEF SweptPast, TimerSection
<1>2. CASE Lock(t) \/ BumpLoad(t) \/ BumpStore(t) \/ ReleaseUnheld(t)
  <2>1. /\ subs' = subs /\ pos' = pos /\ nth' = nth /\ msg' = msg /\ chanAge' = chanAge
        /\ conn' = conn /\ pc[t] # "del"
    BY <1>2 DEF Lock, BumpLoad, BumpStore, ReleaseUnheld, serverVars, sweepVars, clientVars
  <2>2. pc'[Timer] = pc[Timer]
    BY <1>a, <1>2, <1>d DEF Handle
  <2>3. \A k \in DOMAIN subs[c] : SweptPast(c, k) => SweptPast(c, k)'
    BY <2>1, <2>2 DEF SweptPast, ChannelExpired
  <2> QED BY <1>2, <1>c, <1>e, <2>1, <2>3 DEF Handle
<1>3. CASE PubPush(t) \/ BroadcastCount(t) \/ Insert(t) \/ ClearDelete(t) \/ ClearReset(t)
           \/ FileAllocFail(t) \/ PoolPark(t) \/ Unlock(t)
  <2>1. conn' = conn /\ pc[t] \in WorkerSection /\ pc[t] # "del"
    BY <1>3 DEF PubPush, BroadcastCount, Insert, ClearDelete, ClearReset, FileAllocFail, PoolPark,
                Unlock, clientVars, WorkerSection
  <2>2. SameList(c)
    BY <1>3, <1>c, AgesOnly DEF PubPush, BroadcastCount, Insert, ClearDelete, ClearReset,
                                FileAllocFail, Unlock, serverVars, WaitingInv
  <2> QED BY <1>3, <1>e, <1>g, <2>1, <2>2 DEF Handle
<1>4. CASE SubAnswer(t) \/ ServeFile(t)
  <2>1. /\ subs' = subs /\ pc[t] \in WorkerSection /\ pc[t] # "del"
        /\ In(t).kind # "pool"
    BY <1>4 DEF SubAnswer, ServeFile, serverVars, WorkerSection, FileKinds
  <2>2. \A k \in DOMAIN subs[c] : conn'[subs[c][k].req] = conn[subs[c][k].req]
    BY <1>4, <1>b, <1>d, <2>1 DEF Handle, IsPool, In
  <2>3. \A u \in Workers : pc[u] = "del" => pc'[u] = "del" /\ req'[u] = req[u]
    BY <1>4, <1>a, <1>d, <2>1 DEF Handle
  <2> QED BY <1>c, <1>g, <2>1, <2>2, <2>3, UnansweredKept
<1>5. CASE PoolReply(t)
  <2>1. subs' = subs /\ pc[t] \in WorkerSection /\ pc[t] # "del" /\ pc'[t] = "del" /\ req' = req
    BY <1>a, <1>5 DEF PoolReply, Goto, serverVars, WorkerSection
  <2>2. ASSUME NEW k \in DOMAIN subs[c], conn[subs[c][k].req] \in {"open", "gone"}
        PROVE  conn'[subs[c][k].req] \in {"open", "gone"} \/ Served(c, k)'
    <3>1. CASE subs[c][k].req = req[t]
      BY <2>1, <3>1 DEF Served, Deleting
    <3>2. CASE subs[c][k].req # req[t]
      BY <1>5, <1>b, <1>d, <2>2, <3>2 DEF Handle
    <3> QED BY <3>1, <3>2
  <2>3. \A u \in Workers : pc[u] = "del" => pc'[u] = "del" /\ req'[u] = req[u]
    BY <1>5, <1>a, <1>d, <2>1 DEF Handle
  <2> QED BY <1>c, <1>g, <2>1, <2>2, <2>3, UnansweredKept
<1>6. CASE DelErase(t)
  <2>1. conn' = conn /\ pc' = pc /\ req' = req /\ pc[t] \in WorkerSection
    BY <1>6 DEF DelErase, threadVars, clientVars, WorkerSection
  <2>2. \A k \in DOMAIN subs'[c] : \E i \in DOMAIN subs[c] : subs'[c][k].req = subs[c][i].req
    BY <1>6, EraseList DEF WaitingInv
  <2> QED BY <1>g, <2>1, <2>2 DEF WaitingInv, ListedInv, Unanswered, Served, Deleting
<1>7. CASE DelDone(t)
  <2>1. subs' = subs /\ conn' = conn /\ pc[t] \in WorkerSection /\ subs[In(t).cid] = <<>>
    BY <1>7 DEF DelDone, clientVars, WorkerSection
  <2>2. ASSUME NEW k \in DOMAIN subs[c] PROVE subs[c][k].req # req[t]
    <3>1. DOMAIN <<>> = {}
      OBVIOUS
    <3> QED BY <1>b, <2>1, <3>1 DEF In
  <2>3. \A k \in DOMAIN subs[c] : Deleting(c, k) => Deleting(c, k)'
    BY <1>7, <1>a, <1>d, <2>1, <2>2 DEF Deleting, Handle
  <2> QED BY <1>g, <2>1, <2>3 DEF WaitingInv, ListedInv, Unanswered, Served
<1>8. CASE PoolJoin(t)
  <2>1. conn' = conn /\ pc[t] \in WorkerSection /\ pc[t] # "del" /\ conn[req[t]] = "open"
    BY <1>8 DEF PoolJoin, clientVars, WorkerSection, WaitingInv, OpenInv, Busy
  <2>2. ASSUME NEW k \in DOMAIN subs'[c]
        PROVE  \/ k \in DOMAIN subs[c] /\ subs'[c][k].req = subs[c][k].req
               \/ subs'[c][k].req = req[t]
    BY <1>8, JoinList, ListShape DEF WaitingInv
  <2>3. \A u \in Workers : pc[u] = "del" => pc'[u] = "del" /\ req'[u] = req[u]
    BY <1>8, <1>a, <1>d, <2>1 DEF Handle
  <2>4. ASSUME NEW k \in DOMAIN subs[c], k \in DOMAIN subs'[c], subs'[c][k].req = subs[c][k].req
        PROVE  conn'[subs'[c][k].req] \in {"open", "gone"} \/ Served(c, k)'
    <3>1. conn[subs[c][k].req] \in {"open", "gone"} \/ Deleting(c, k)
      BY <1>g, <2>1 DEF WaitingInv, ListedInv, Unanswered, Served
    <3> QED BY <2>1, <2>3, <2>4, <3>1 DEF Served, Deleting
  <2> QED BY <2>1, <2>2, <2>4 DEF Unanswered
<1>9. CASE SendOk(t)
  <2>1. /\ subs' = subs /\ pos' = pos /\ nth' = nth /\ msg' = msg /\ chanAge' = chanAge
        /\ pc[t] = "ok" /\ In(t).kind # "pool"
    BY <1>9 DEF SendOk, serverVars, sweepVars, WaitingInv, TypeInv, RequestInv, RequestInvOf,
                AdminKinds
  <2>2. \A k \in DOMAIN subs[c] : conn'[subs[c][k].req] = conn[subs[c][k].req]
    BY <1>9, <1>b, <1>d, <2>1 DEF Handle, IsPool, In
  <2>3. \A k \in DOMAIN subs[c] : SweptPast(c, k) => SweptPast(c, k)'
    BY <1>9, <1>a, <1>d, <2>1 DEF Handle, SweptPast, ChannelExpired
  <2>4. \A u \in Workers : pc[u] = "del" => pc'[u] = "del" /\ req'[u] = req[u]
    BY <1>9, <1>a, <1>d, <2>1 DEF Handle
  <2> QED BY <1>c, <2>1, <2>2, <2>3, <2>4, UnansweredKept
<1> QED BY <1>1, <1>2, <1>3, <1>4, <1>5, <1>6, <1>7, <1>8, <1>9 DEF Handle

\* The thread of the timer: a sweep answers a listed request only when it will
\* empty the list, or with the step that takes the request off it.
LEMMA TimerUnanswered ==
  ASSUME WaitingInv, Tick \/ TimerFire \/ TimerLock \/ Sweep, ~TouchFreed, NEW c \in Channel
  PROVE  Unanswered(c)'
<1>a. /\ pc \in [Threads -> WorkerPCs \cup TimerPCs] /\ conn \in [Requests -> ConnStates]
      /\ Timer \in Threads /\ Workers \subseteq Threads /\ Timer \notin Workers
      /\ pos \in Channel /\ nth \in Nat \ {0} /\ subs \in [Channel -> Seq(Subscribers)]
  BY ThreadsAssumption
  DEF WaitingInv, TypeInv, TypeOK, ControlType, ClientType, SweepType, ListType, Threads
<1>b. \A d \in Channel : \A k \in DOMAIN subs[d] :
        subs[d][k].req \in Requests /\ input[subs[d][k].req].cid = d
  BY ListShape DEF WaitingInv, ListedInv, Place
<1>c. \A k \in DOMAIN subs[c] : conn[subs[c][k].req] \in {"open", "gone"} \/ Served(c, k)
  BY DEF WaitingInv, ListedInv, Unanswered
<1>d. AtSubscriber => nth \in DOMAIN subs[pos]
  BY <1>a, ListShape DEF AtSubscriber, WaitingInv
<1>e. AtSubscriber => \A k \in DOMAIN subs[c] :
                        subs[c][k].req = Reached.req => c = pos /\ k = nth
  <2>1. \A j, k \in DOMAIN subs[pos] : subs[pos][j].req = subs[pos][k].req => j = k
    BY <1>a DEF WaitingInv, ListedInv, Once
  <2>2. ASSUME AtSubscriber, NEW k \in DOMAIN subs[c], subs[c][k].req = Reached.req
        PROVE  c = pos /\ k = nth
    <3>1. c = pos
      BY <1>a, <1>b, <1>d, <2>2 DEF Reached
    <3> QED BY <1>d, <2>1, <2>2, <3>1 DEF Reached
  <2> QED BY <2>2
<1>f. pc[Timer] \in TimerSection => \A t \in Workers : pc[t] # "del"
  BY SweepAlone DEF WaitingInv, WorkerSection
<1>g. subs' = subs => SameList(c)
  BY DEF SameList
<1>1. CASE Tick \/ TimerFire \/ TimerLock
  <2>1. conn' = conn /\ req' = req /\ \A t \in Workers : pc'[t] = pc[t]
    BY <1>a, <1>1 DEF Tick, TimerFire, TimerLock, Advance, threadVars, clientVars
  <2>2. SameList(c)
    BY <1>1, <1>g, AgesOnly DEF WaitingInv, TimerFire, TimerLock, serverVars
  <2>3. \A k \in DOMAIN subs[c] : ~SweptPast(c, k)
    BY <1>1 DEF SweptPast, Tick, TimerFire, TimerLock, TimerSection
  <2> QED BY <1>a, <2>1, <2>2, <2>3, UnansweredKept
<1>2. CASE Deliver \/ Evict
  <2>1. /\ subs' = subs /\ msg' = msg /\ chanAge' = chanAge /\ pc' = pc /\ req' = req /\ pos' = pos
        /\ nth' = nth + 1 /\ AtSubscriber /\ pc[Timer] \in TimerSection
        /\ \A r \in Requests : r # Reached.req => conn'[r] = conn[r]
    BY <1>a, <1>2 DEF Deliver, Evict, SendAndEnd, threadVars, serverVars, clientVars, TimerSection
  <2>2. \A k \in DOMAIN subs[c] : k \in Nat
    BY ListShape DEF WaitingInv
  <2>3. \A k \in DOMAIN subs[c] : SweptPast(c, k) => SweptPast(c, k)'
    BY <1>a, <2>1, <2>2 DEF SweptPast, ChannelExpired
  <2>4. ASSUME NEW k \in DOMAIN subs[c], conn[subs[c][k].req] \in {"open", "gone"}
        PROVE  conn'[subs[c][k].req] \in {"open", "gone"} \/ Served(c, k)'
    <3>1. CASE subs[c][k].req # Reached.req
      BY <1>b, <2>1, <2>4, <3>1
    <3>2. CASE subs[c][k].req = Reached.req
      <4>1. c = pos /\ k = nth
        BY <1>e, <2>1, <3>2
      <4>2. SweptPast(c, k)'
        BY <1>2, <1>a, <2>1, <4>1 DEF SweptPast, Deliver, Evict, ChannelExpired
      <4> QED BY <4>2 DEF Served
    <3> QED BY <3>1, <3>2
  <2> QED BY <1>g, <2>1, <2>3, <2>4, UnansweredKept
<1>3. CASE Delivered \/ NextChannel
  <2>1. /\ conn' = conn /\ pc[Timer] \in TimerSection
        /\ subs' = subs \/ subs' = [subs EXCEPT ![pos] = <<>>]
    BY <1>3 DEF Delivered, NextChannel, clientVars, TimerSection
  <2>2. DOMAIN <<>> = {}
    OBVIOUS
  <2>3. subs'[c] = subs[c] \/ subs'[c] = <<>>
    BY <1>a, <2>1
  <2>4. ASSUME NEW k \in DOMAIN subs[c], SweptPast(c, k) PROVE subs'[c] = <<>>
    BY <1>3, <1>a, <2>4 DEF SweptPast, Delivered, NextChannel
  <2> QED BY <1>c, <1>f, <2>1, <2>2, <2>3, <2>4 DEF Unanswered, Served, Deleting
<1>4. CASE Expire
  <2>1. /\ pc[Timer] \in TimerSection /\ AtSubscriber
        /\ \A r \in Requests : r # Reached.req => conn'[r] = conn[r]
    BY <1>a, <1>4 DEF Expire, SendAndEnd, clientVars, TimerSection
  <2>2. \A k \in DOMAIN subs[c] : ~SweptPast(c, k)
    BY <1>4 DEF SweptPast, Expire
  <2>3. \A k \in DOMAIN subs[c] : conn[subs[c][k].req] \in {"open", "gone"}
    BY <1>c, <1>f, <2>1, <2>2 DEF Served, Deleting
  <2>4. ASSUME NEW k \in DOMAIN subs'[c]
        PROVE  \E i \in DOMAIN subs[c] : subs'[c][k].req = subs[c][i].req /\ ~(c = pos /\ i = nth)
    <3>1. CASE c # pos
      BY <1>4, <2>4, <3>1, ExpireList DEF WaitingInv
    <3>2. CASE c = pos
      <4>1. k \in Nat
        BY <1>4, <2>4, <3>2, ExpireList DEF WaitingInv
      <4>2. \/ k < nth /\ k \in DOMAIN subs[c] /\ subs'[c][k] = subs[c][k]
            \/ k >= nth /\ k + 1 \in DOMAIN subs[c] /\ subs'[c][k] = subs[c][k + 1]
        BY <1>4, <2>4, <3>2, ExpireList DEF WaitingInv
      <4>3. k # nth \/ k + 1 # nth
        BY <1>a, <4>1
      <4>4. k < nth => k # nth
        BY <1>a, <4>1
      <4>5. k >= nth => k + 1 # nth
        BY <1>a, <4>1
      <4> QED BY <4>2, <4>4, <4>5
    <3> QED BY <3>1, <3>2
  <2>5. ASSUME NEW k \in DOMAIN subs'[c] PROVE conn'[subs'[c][k].req] \in {"open", "gone"}
    <3>1. PICK i \in DOMAIN subs[c] : subs'[c][k].req = subs[c][i].req /\ ~(c = pos /\ i = nth)
      BY <2>4, <2>5
    <3>2. subs[c][i].req # Reached.req
      BY <1>e, <2>1, <3>1
    <3> QED BY <1>b, <2>1, <2>3, <3>1, <3>2
  <2> QED BY <2>5 DEF Unanswered
<1>5. CASE Spare \/ TimerUnlock
  <2>1. conn' = conn /\ subs' = subs /\ req' = req /\ pc[Timer] \in TimerSection
    BY <1>5 DEF Spare, TimerUnlock, threadVars, serverVars, clientVars, TimerSection
  <2>2. \A k \in DOMAIN subs[c] : ~SweptPast(c, k)
    BY <1>a, <1>5 DEF SweptPast, Spare, TimerUnlock
  <2> QED BY <1>c, <1>f, <2>1, <2>2 DEF Unanswered, Served, Deleting
<1> QED BY <1>1, <1>2, <1>3, <1>4, <1>5 DEF Sweep

LEMMA UnansweredStep ==
  ASSUME WaitingInv, [Next]_vars, NEW c \in Channel
  PROVE  Unanswered(c)'
<1>a. subs \in [Channel -> Seq(Subscribers)] /\ conn \in [Requests -> ConnStates]
  BY DEF WaitingInv, TypeInv, TypeOK, ListType, ClientType
<1>b. \A k \in DOMAIN subs[c] : conn[subs[c][k].req] \in {"open", "gone"} \/ Served(c, k)
  BY DEF WaitingInv, ListedInv, Unanswered
<1>1. CASE Die
  <2>1. DOMAIN <<>> = {}
    OBVIOUS
  <2> QED BY <1>1, <2>1 DEF Die, Unanswered
<1>2. ASSUME NEW t \in Workers, Accept(t) \/ Lock(t) \/ Handle(t) PROVE Unanswered(c)'
  <2>1. NullChannel(t) => Die
    BY DEF NullChannel
  <2> QED BY <1>1, <1>2, <2>1, WorkerUnanswered
<1>3. CASE Tick \/ TimerFire \/ TimerLock \/ Sweep
  <2>1. TouchFreed => Die
    BY DEF TouchFreed
  <2> QED BY <1>1, <1>3, <2>1, TimerUnanswered
<1>4. CASE Start \/ DbToggle \/ UNCHANGED vars \/ \E r \in Requests : Disconnect(r)
  <2>1. /\ subs' = subs /\ pc' = pc /\ req' = req /\ pos' = pos /\ nth' = nth /\ msg' = msg
        /\ chanAge' = chanAge
        /\ \A r \in Requests : conn'[r] = conn[r] \/ conn'[r] = "gone"
    BY <1>4, <1>a DEF Start, DbToggle, Disconnect, vars, threadVars, serverVars, sweepVars, clientVars
  <2>2. \A k \in DOMAIN subs[c] : subs[c][k].req \in Requests /\ Served(c, k)' = Served(c, k)
    BY <2>1, ListShape DEF WaitingInv, Served, Deleting, SweptPast, ChannelExpired
  <2> QED BY <1>b, <2>1, <2>2 DEF Unanswered
<1> QED BY <1>1, <1>2, <1>3, <1>4 DEF Next, Environment, Crash, RaceCrash

\* WaitingInv is inductive when pool requests are well formed.
LEMMA WaitingStep ==
  ASSUME WellFormedPools
  PROVE  WaitingInv /\ [Next]_vars => WaitingInv'
<1> SUFFICES ASSUME WaitingInv, [Next]_vars PROVE WaitingInv'
  OBVIOUS
<1>1. TypeInv' /\ LockInv' /\ AcceptedInv' /\ HandledInv' /\ OpenInv'
  BY TypeStep, LockStep, AcceptedStep, HandledStep, OpenStep DEF WaitingInv
<1>2. ListedInv'
  BY PlaceStep, OnceStep, UnansweredStep DEF ListedInv
<1> QED BY <1>1, <1>2 DEF WaitingInv

LEMMA WaitingInit == Init => WaitingInv
BY TypeInit, LockInit, AcceptedInit, HandledInit, ListedInit DEF WaitingInv

----------------------------------------------------------------------------
(* The theorem *)

\* With any number of workers, channels and requests, whatever crashes,
\* failures and disconnections happen: outside the mutex every listed request
\* is an unanswered pool request of that channel, listed once, as long as every
\* pool request parses and names a channel.
THEOREM ListsHoldWaiting ==
  ASSUME WellFormedPools
  PROVE  Spec => []ListedAreWaiting
<1>1. WaitingInv => ListedAreWaiting
  <2> SUFFICES ASSUME WaitingInv, mutex = Free, NEW c \in Channel, NEW k \in DOMAIN subs[c]
               PROVE  LET r == subs[c][k].req IN
                        /\ IsPool(r) /\ input[r].cid = c /\ conn[r] \in {"open", "gone"}
                        /\ \A j \in DOMAIN subs[c] : subs[c][j].req = r => j = k
    BY DEF ListedAreWaiting
  <2>1. \A t \in Threads : ~InSection(t)
    BY ThreadsAssumption DEF WaitingInv, LockInv, LockInvOf
  <2>2. ~Served(c, k)
    BY <2>1 DEF Served, Deleting, SweptPast, InSection, WorkerSection, TimerSection, Threads
  <2> QED BY <2>2 DEF WaitingInv, ListedInv, Place, Once, Unanswered
<1> QED BY <1>1, WaitingInit, WaitingStep, PTL DEF Spec

----------------------------------------------------------------------------
(* Those the sweep takes off *)

\* Whom the sweep has passed on the way to emptying the list no longer waits.
PassedAnswered ==
  \A c \in Channel : \A k \in DOMAIN subs[c] :
    SweptPast(c, k) => conn[subs[c][k].req] # "open"

\* A step that moves neither the sweep nor the lists and connects no listed
\* request again.
LEMMA PassedKept ==
  ASSUME PassedAnswered, subs' = subs, msg' = msg, chanAge' = chanAge, pos' = pos, nth' = nth,
         pc'[Timer] = pc[Timer],
         \A c \in Channel : \A k \in DOMAIN subs[c] :
           conn'[subs[c][k].req] = "open" => conn[subs[c][k].req] = "open"
  PROVE  PassedAnswered'
BY DEF PassedAnswered, SweptPast, ChannelExpired

\* A step after which the sweep has passed nobody.
LEMMA NobodyPassed ==
  ASSUME TypeInv', \/ nth' = 1 \/ pc'[Timer] \notin {"deliver", "check"}
                   \/ pc'[Timer] = "check" /\ ~ChannelExpired(pos)'
  PROVE  PassedAnswered'
<1>1. ASSUME NEW c \in Channel, NEW k \in DOMAIN subs'[c], nth' = 1 PROVE ~(k < nth')
  <2>1. subs' \in [Channel -> Seq(Subscribers)]
    BY DEF TypeInv, TypeOK, ListType
  <2>2. Len(subs'[c]) \in Nat /\ k \in 1..Len(subs'[c])
    BY <2>1, LenProperties
  <2> QED BY <1>1, <2>2
<1> QED BY <1>1 DEF PassedAnswered, SweptPast

LEMMA PassedStep ==
  ASSUME WellFormedPools, WaitingInv, PassedAnswered, [Next]_vars
  PROVE  PassedAnswered'
<1>a. /\ pc \in [Threads -> WorkerPCs \cup TimerPCs] /\ conn \in [Requests -> ConnStates]
      /\ Timer \in Threads /\ Workers \subseteq Threads /\ Timer \notin Workers
      /\ pos \in Channel /\ nth \in Nat \ {0} /\ TypeInv
  BY ThreadsAssumption
  DEF WaitingInv, TypeInv, TypeOK, ControlType, ClientType, SweepType, Threads
<1>b. \A c \in Channel : \A k \in DOMAIN subs[c] :
        k \in Nat /\ subs[c][k].req \in Requests /\ conn[subs[c][k].req] # "idle"
  BY ListShape DEF WaitingInv, ListedInv, Place
<1>c. TypeInv'
  BY <1>a, TypeStep
<1>1. CASE Die
  <2>1. pc'[Timer] = "idle"
    BY <1>1, <1>a DEF Die
  <2> QED BY <1>c, <2>1, NobodyPassed
<1>2. ASSUME NEW t \in Workers, Accept(t) \/ Lock(t) \/ Handle(t) PROVE PassedAnswered'
  <2>1. CASE NullChannel(t)
    BY <1>1, <2>1 DEF NullChannel
  <2>2. pc'[Timer] = pc[Timer] \/ NullChannel(t)
    BY <1>2, <1>a
    DEF Accept, RejectMethod, DropUnparsed, SubNotFound, PoolNotFound, Begin, Lock, Handle,
        PubPush, BroadcastCount, Insert, ClearDelete, ClearReset, SubAnswer, ServeFile,
        FileAllocFail, PoolJoin, PoolPark, PoolReply, DelErase, DelDone, BumpLoad, BumpStore,
        ReleaseUnheld, Unlock, SendOk, Goto, threadVars
  <2>3. CASE pc[Timer] \notin TimerSection
    <3>1. CASE pc'[Timer] = pc[Timer]
      <4>1. pc'[Timer] \notin {"deliver", "check"}
        BY <2>3, <3>1 DEF TimerSection
      <4> QED BY <1>c, <4>1, NobodyPassed
    <3> QED BY <2>1, <2>2, <3>1
  <2>4. CASE pc[Timer] \in TimerSection /\ ~NullChannel(t)
    <3>1. pc[t] \notin WorkerSection /\ mutex = Timer /\ mutex # Free /\ pc[t] # "release"
      BY <1>a, <2>4, SweepAlone, ThreadsAssumption
      DEF WaitingInv, LockInv, LockInvOf, InSection, Threads
    <3>2. CASE BumpLoad(t) \/ BumpStore(t)
      <4>1. /\ subs' = subs /\ msg' = msg /\ chanAge' = chanAge /\ pos' = pos /\ nth' = nth
            /\ conn' = conn
        BY <3>2 DEF BumpLoad, BumpStore, serverVars, sweepVars, clientVars
      <4> QED BY <2>2, <2>4, <4>1, PassedKept
    <3>3. CASE Accept(t)
      <4>1. PICK r \in Requests : \/ RejectMethod(t, r) \/ DropUnparsed(t, r) \/ SubNotFound(t, r)
                                  \/ PoolNotFound(t, r) \/ Begin(t, r)
        BY <3>3 DEF Accept
      <4>2. /\ subs' = subs /\ msg' = msg /\ chanAge' = chanAge /\ pos' = pos /\ nth' = nth
            /\ conn[r] = "idle" /\ \A q \in Requests : q # r => conn'[q] = conn[q]
        BY <1>a, <4>1
        DEF RejectMethod, DropUnparsed, SubNotFound, PoolNotFound, Begin, Arrives, serverVars,
            sweepVars
      <4>3. \A c \in Channel : \A k \in DOMAIN subs[c] :
              conn'[subs[c][k].req] = conn[subs[c][k].req]
        BY <1>b, <4>2
      <4> QED BY <2>2, <2>4, <4>2, <4>3, PassedKept
    <3>4. CASE SendOk(t)
      <4>1. /\ subs' = subs /\ msg' = msg /\ chanAge' = chanAge /\ pos' = pos /\ nth' = nth
            /\ \A q \in Requests : conn'[q] = "open" => conn[q] = "open"
        BY <1>a, <3>4 DEF SendOk, serverVars, sweepVars
      <4> QED BY <1>b, <2>2, <2>4, <4>1, PassedKept
    <3> QED
      BY <1>2, <2>4, <3>1, <3>2, <3>3, <3>4
      DEF Lock, Handle, PubPush, BroadcastCount, Insert, ClearDelete, ClearReset, SubAnswer,
          ServeFile, FileAllocFail, PoolJoin, PoolPark, PoolReply, DelErase, DelDone,
          ReleaseUnheld, Unlock, WorkerSection
  <2> QED BY <2>1, <2>3, <2>4
<1>3. CASE Deliver \/ Evict
  <2>1. /\ subs' = subs /\ msg' = msg /\ chanAge' = chanAge /\ pc' = pc /\ pos' = pos
        /\ nth' = nth + 1 /\ AtSubscriber
        /\ \A r \in Requests : r # Reached.req => conn'[r] = conn[r]
        /\ Reached.req \in Requests => conn'[Reached.req] # "open"
    BY <1>a, <1>3
    DEF Deliver, Evict, SendAndEnd, threadVars, serverVars, clientVars
  <2>2. SUFFICES ASSUME NEW c \in Channel, NEW k \in DOMAIN subs[c], SweptPast(c, k)'
                 PROVE  conn'[subs[c][k].req] # "open"
    BY <2>1 DEF PassedAnswered
  <2>3. (k = nth /\ c = pos) \/ SweptPast(c, k)
    BY <1>a, <1>b, <2>1, <2>2 DEF SweptPast, ChannelExpired
  <2>4. CASE k = nth /\ c = pos
    BY <1>b, <2>1, <2>4 DEF Reached
  <2>5. CASE SweptPast(c, k)
    <3>1. conn[subs[c][k].req] # "open"
      BY <2>5 DEF PassedAnswered
    <3> QED BY <1>b, <2>1, <3>1
  <2> QED BY <2>3, <2>4, <2>5
<1>4. CASE TimerLock \/ Delivered \/ NextChannel
  <2>1. nth' = 1
    BY <1>4 DEF TimerLock, Delivered, NextChannel
  <2> QED BY <1>c, <2>1, NobodyPassed
<1>5. CASE Expire \/ Spare
  <2>1. pc'[Timer] = "check" /\ ~ChannelExpired(pos)'
    BY <1>5 DEF Expire, Spare, ChannelExpired, threadVars, serverVars
  <2> QED BY <1>c, <2>1, NobodyPassed
<1>6. CASE Tick \/ TimerFire \/ TimerUnlock
  <2>1. pc'[Timer] \notin {"deliver", "check"}
    BY <1>6, <1>a DEF Tick, TimerFire, TimerUnlock, Advance, threadVars, TimerSection
  <2> QED BY <1>c, <2>1, NobodyPassed
<1>7. CASE Start \/ DbToggle \/ UNCHANGED vars \/ \E r \in Requests : Disconnect(r)
  <2>1. /\ subs' = subs /\ msg' = msg /\ chanAge' = chanAge /\ pos' = pos /\ nth' = nth
        /\ pc' = pc
        /\ \A r \in Requests : conn'[r] = conn[r] \/ conn'[r] = "gone"
    BY <1>7, <1>a
    DEF Start, DbToggle, Disconnect, vars, threadVars, serverVars, sweepVars, clientVars
  <2>2. \A c \in Channel : \A k \in DOMAIN subs[c] :
          conn'[subs[c][k].req] = "open" => conn[subs[c][k].req] = "open"
    BY <1>b, <2>1
  <2> QED BY <2>1, <2>2, PassedKept
<1>8. TouchFreed \/ Crash \/ RaceCrash => Die
  BY DEF TouchFreed, Crash, RaceCrash
<1>9. Next => \/ \E t \in Workers : Accept(t) \/ Lock(t) \/ Handle(t)
              \/ Tick \/ TimerFire \/ TimerLock \/ Sweep \/ Environment
  BY DEF Next
<1> QED
  BY <1>1, <1>2, <1>3, <1>4, <1>5, <1>6, <1>7, <1>8, <1>9 DEF Sweep, Environment

\* Whoever is in a list whose places stay as they are is in it afterwards.
LEMMA StaysListed ==
  ASSUME NEW r \in Requests, NEW c \in Channel, NEW i \in DOMAIN subs'[c], subs'[c][i].req = r
  PROVE  Listed(r)'
BY DEF Listed

\* The steps that take a request that waits off its list.
LEMMA RemovedAnswered ==
  ASSUME WaitingInv, PassedAnswered, [Next]_vars, NEW r \in Requests, NEW c \in Channel,
         NEW k \in DOMAIN subs[c], subs[c][k].req = r, conn[r] = "open", ~Listed(r)'
  PROVE  conn'[r] # "open" \/ \E t \in Workers : pc[t] = "del"
<1>a. /\ conn \in [Requests -> ConnStates] /\ subs \in [Channel -> Seq(Subscribers)] /\ TypeInv
      /\ pos \in Channel /\ nth \in Nat \ {0} /\ Len(subs[c]) \in Nat
      /\ k \in 1..Len(subs[c])
  BY ListShape DEF WaitingInv, TypeInv, TypeOK, ClientType, ListType, SweepType
<1>1. ~SameList(c)
  BY StaysListed DEF SameList
<1>2. CASE subs' = subs \/ Tick \/ \E t \in Workers : PoolPark(t)
  <2>1. subs' = subs => SameList(c)
    BY DEF SameList
  <2> QED BY <1>a, <1>1, <1>2, <2>1, AgesOnly
<1>3. ASSUME NEW t \in Workers, PoolJoin(t) PROVE FALSE
  <2>1. k \in DOMAIN subs'[c] /\ subs'[c][k].req = subs[c][k].req
    BY <1>3, <1>a, JoinList
  <2> QED BY <2>1, StaysListed
<1>4. ASSUME NEW t \in Workers, DelErase(t) PROVE pc[t] = "del"
  BY <1>4 DEF DelErase
<1>5. CASE Delivered \/ NextChannel
  <2>1. /\ subs' = subs \/ subs' = [subs EXCEPT ![pos] = <<>>]
        /\ \/ subs' = subs
           \/ msg[pos] # {} /\ ~AtSubscriber /\ pc[Timer] = "deliver"
           \/ ChannelExpired(pos) /\ ~AtSubscriber /\ pc[Timer] = "check"
    BY <1>5 DEF Delivered, NextChannel
  <2>2. subs'[c] # subs[c]
    BY <1>1 DEF SameList
  <2>3. c = pos /\ ~AtSubscriber
    BY <1>a, <2>1, <2>2
  <2>4. k < nth
    BY <1>a, <2>3 DEF AtSubscriber
  <2>5. SweptPast(c, k)
    BY <2>1, <2>2, <2>3, <2>4 DEF SweptPast
  <2> QED BY <2>5 DEF PassedAnswered
<1>6. CASE Expire
  <2>1. /\ c = pos
        /\ DOMAIN subs'[c] = 1..(Len(subs[c]) - 1)
        /\ \A i \in DOMAIN subs'[c] : \/ i < nth /\ subs'[c][i] = subs[c][i]
                                      \/ i >= nth /\ subs'[c][i] = subs[c][i + 1]
    BY <1>1, <1>6, <1>a, ExpireList DEF SameList
  <2>2. ~(k < nth)
    <3>1. ASSUME k < nth PROVE k \in DOMAIN subs'[c]
      <4>1. nth <= Len(subs[c])
        BY <1>6, <2>1 DEF Expire, AtSubscriber
      <4> QED BY <1>a, <2>1, <3>1, <4>1
    <3>2. ASSUME k < nth PROVE subs'[c][k] = subs[c][k]
      BY <1>a, <2>1, <3>1, <3>2
    <3> QED BY <3>1, <3>2, StaysListed
  <2>3. ~(k > nth)
    <3>1. ASSUME k > nth PROVE k - 1 \in DOMAIN subs'[c] /\ k - 1 >= nth /\ (k - 1) + 1 = k
      BY <1>a, <2>1, <3>1
    <3>2. ASSUME k > nth PROVE subs'[c][k - 1] = subs[c][k]
      <4>1. ~(k - 1 < nth)
        BY <1>a, <3>2
      <4>2. subs'[c][k - 1] = subs[c][(k - 1) + 1]
        BY <2>1, <3>1, <3>2, <4>1
      <4> QED BY <3>1, <3>2, <4>2
    <3> QED BY <3>1, <3>2, StaysListed
  <2>4. k = nth
    BY <1>a, <2>2, <2>3
  <2>5. SendAndEnd(r, {Destroyed})
    BY <1>6, <2>1, <2>4 DEF Expire, Reached
  <2> QED BY <1>a, <2>5 DEF SendAndEnd
<1>7. CASE Die
  BY <1>7, <1>a DEF Die
<1> QED BY <1>2, <1>3, <1>4, <1>5, <1>6, <1>7, SubsSteps

\* With any number of workers, channels and requests, whatever crashes, failures
\* and disconnections happen: a request that waits leaves its list only with its
\* answer, or by delSubscriber, as long as every pool request parses and names a
\* channel.
THEOREM SweepAnswersFirst ==
  ASSUME WellFormedPools
  PROVE  Spec => AnsweredBeforeRemoved
<1> DEFINE Inv == WaitingInv /\ PassedAnswered
           Kept == \A r \in Requests :
                     Listed(r) /\ conn[r] = "open" /\ ~Listed(r)' =>
                       conn'[r] # "open" \/ \E t \in Workers : pc[t] = "del"
<1>1. Init => Inv
  <2>1. Init => PassedAnswered
    BY DEF Init, PassedAnswered, SweptPast
  <2> QED BY <2>1, WaitingInit
<1>2. Inv /\ [Next]_vars => Inv'
  BY WaitingStep, PassedStep
<1>3. Inv /\ [Next]_vars => Kept
  <2> SUFFICES ASSUME Inv, [Next]_vars, NEW r \in Requests, Listed(r), conn[r] = "open", ~Listed(r)'
               PROVE  conn'[r] # "open" \/ \E t \in Workers : pc[t] = "del"
    OBVIOUS
  <2>1. PICK c \in Channel : \E k \in DOMAIN subs[c] : subs[c][k].req = r
    BY DEF Listed
  <2>2. PICK k \in DOMAIN subs[c] : subs[c][k].req = r
    BY <2>1
  <2> QED BY <2>2, RemovedAnswered
<1>4. Inv /\ [Next]_vars => [Kept]_vars
  BY <1>3
<1> QED BY <1>1, <1>2, <1>4, PTL DEF Spec, AnsweredBeforeRemoved
=============================================================================
