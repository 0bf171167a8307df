----------------------------- MODULE CometServer -----------------------------
(***************************************************************************)
(* The whole server: the workers and the timer sweep on one Server object, *)
(* the start of the process, and what its environment does to it (crashes, *)
(* a database that comes and goes, clients that hang up).  The properties  *)
(* of the system are stated here.                                          *)
(***************************************************************************)
EXTENDS RequestHandlers, TimerSweep

----------------------------------------------------------------------------
(* The process and its environment *)

Init ==
  /\ up = FALSE
  /\ mutex = Free
  /\ pc = [t \in Threads |-> "idle"]
  /\ req = [t \in Threads |-> NoReq]
  /\ local = [t \in Threads |-> 0]
  /\ clientNum = 0
  /\ subs = [c \in Channel |-> <<>>]
  /\ msg = [c \in Channel |-> {}]
  /\ count = [c \in Channel |-> 0]
  /\ chanAge = [c \in Channel |-> Never]
  /\ pos = 0 /\ nth = 1 /\ buf = {}
  /\ input \in Scripts
  /\ conn = [r \in Requests |-> "idle"]
  /\ got = [r \in Requests |-> {}]
  /\ table = {} /\ dbUp = TRUE

\* What Server::init may leave in the counter of channel c: the largest seq
\* the table holds for it, or 0 if the query fails.  There is one query per
\* channel, so that an outage may hit some of them only.
Resumes(c, n) == IsMaxSeq(table, c, n) \/ ("db" \in Faults /\ n = 0)

\* The process starts: every channel is created empty, with its counter, then
\* the threads that serve it.  A failure before that ends the process.
Start ==
  /\ ~up
  /\ up' = TRUE
  /\ count' \in [Channel -> {0} \cup {row.seq : row \in table}]
  /\ \A c \in Channel : Resumes(c, count'[c])
  /\ UNCHANGED <<mutex, threadVars, clientNum, subs, msg, chanAge, sweepVars, clientVars,
                 input, dbVars>>

Crash == "crash" \in Faults /\ up /\ Die

\* Two threads between lock and unlock use the vectors of the server without
\* synchronisation: besides any interleaving of their steps, the process may
\* die of it.
RaceCrash ==
  /\ \E t, u \in Threads : t # u /\ InSection(t) /\ InSection(u)
  /\ Die

DbToggle ==
  /\ "db" \in Faults
  /\ dbUp' = ~dbUp
  /\ UNCHANGED <<up, mutex, threadVars, serverVars, sweepVars, clientVars, input, table>>

\* The client of a parked request closes its connection; the worker that
\* accepted it notices between two requests.
Disconnect(r) ==
  /\ "disconnect" \in Faults
  /\ conn[r] = "open" /\ Listed(r) /\ \A t \in Workers : req[t] # r
  /\ conn' = [conn EXCEPT ![r] = "gone"]
  /\ UNCHANGED <<up, mutex, threadVars, serverVars, sweepVars, got, input, dbVars>>

Environment == Start \/ Crash \/ RaceCrash \/ DbToggle \/ \E r \in Requests : Disconnect(r)

Next ==
  \/ \E t \in Workers : Accept(t) \/ Lock(t) \/ Handle(t)
  \/ Tick \/ TimerFire \/ TimerLock \/ Sweep
  \/ Environment

Spec == Init /\ [][Next]_vars

\* Threads that can run do; a thread blocked on the mutex gets it if the mutex
\* is free again and again; time passes and the timer fires.  Nothing makes a
\* client send a request, the process start or a fault happen.
Fairness ==
  /\ \A t \in Workers : SF_vars(Lock(t)) /\ WF_vars(Handle(t))
  /\ SF_vars(Tick) /\ WF_vars(TimerFire) /\ SF_vars(TimerLock) /\ WF_vars(Sweep)

FairSpec == Spec /\ Fairness

----------------------------------------------------------------------------
(* Type invariant *)

ControlType ==
  /\ up \in BOOLEAN
  /\ mutex \in Threads \cup {Free}
  /\ pc \in [Threads -> WorkerPCs \cup TimerPCs]
  /\ \A t \in Workers : pc[t] \in WorkerPCs
  /\ pc[Timer] \in TimerPCs
  /\ req \in [Threads -> Requests \cup {NoReq}]
  /\ local \in [Threads -> Nat]

ListType    == subs \in [Channel -> Seq(Subscribers)]
QueueType   == msg \in [Channel -> SUBSET Contents]
CounterType == clientNum \in Nat /\ count \in [Channel -> Nat] /\ chanAge \in [Channel -> 0..Never]
SweepType   == pos \in Channel /\ nth \in Nat \ {0} /\ buf \subseteq Chunks
ClientType  ==
  /\ input \in [Requests -> InputType]
  /\ conn \in [Requests -> ConnStates]
  /\ got \in [Requests -> SUBSET Chunks]
TableType ==
  table \subseteq [channel : Channel, seq : Nat, content : Contents] /\ dbUp \in BOOLEAN

\* Every variable holds a value of its type: control points, identifiers of
\* threads and requests, lists of subscribers, ages that stop at the timeouts.
TypeOK ==
  ControlType /\ ListType /\ QueueType /\ CounterType /\ SweepType /\ ClientType /\ TableType

----------------------------------------------------------------------------
(* The mutex *)

\* At most one thread is between lock and unlock: pub, sub, pool and the other
\* handlers never overlap each other or the timer sweep.
MutualExclusion == \A t, u \in Threads : InSection(t) /\ InSection(u) => t = u

\* No path through a handler or the sweep returns with the mutex locked, also
\* when another thread unlocks it in between, while buffers can be allocated.
HeldBySection == mutex # Free => InSection(mutex)

\* The mutex is released whatever the handler does with it, unless a thread is
\* caught in the loop of delSubscriber.
LockIsReleased == mutex # Free ~> mutex = Free \/ Hung

----------------------------------------------------------------------------
(* Messages and their numbers *)

\* No push to channel c is between its count and its row, no clear between
\* its delete and its reset.
Quiet(c) == \A t \in Workers : /\ pc[t] = "insert" => local[t] # c
                               /\ pc[t] = "reset" => In(t).cid # c

\* _msgcount, the table and Server::init agree: the messages of a channel are
\* numbered from 1 to its counter without a gap, across pushes, broadcasts cut
\* short by a crash, clears and restarts (with a database that answers).
CounterMatchesTable ==
  up => \A c \in Channel : Quiet(c) => SeqsOf(table, c) = 1..count[c]

\* A stored message comes after everything stored in its channel before it,
\* which is what a subscriber that asks for seq>=n relies on.
SeqGrows ==
  [][\A row \in table' \ table : \A n \in SeqsOf(table, row.channel) : n < row.seq]_vars

\* The channels request p publishes to.
Targets(p) == IF input[p].form # "get" THEN {}
              ELSE IF input[p].kind = "pub" THEN {input[p].cid}
              ELSE IF input[p].kind = "broadcast" THEN Channel ELSE {}

ClearSent(c) == \E p \in Requests :
  input[p].kind = "clear" /\ input[p].cid = c /\ conn[p] # "idle"

\* The contents that were broadcast.
Broadcasts == {input[p].content : p \in
  {q \in Requests : input[q].kind = "broadcast" /\ input[q].form = "get" /\ conn[q] # "idle"}}

Stored(c) == {row.content : row \in {r \in table : r.channel = c}}

\* Once the publisher has its "ok", the message is in the table, for a
\* broadcast in every channel, and stays there until a clear.
AckedIsStored ==
  \A p \in Requests : conn[p] = "ended" =>
    \A c \in Targets(p) : input[p].content \in Stored(c) \/ ClearSent(c)

\* A stored message is never replaced or removed but by a clear, although a
\* process that started without its database counts from 0 again.
RowsAreKept == [][\A row \in table : row \in table' \/ ClearSent(row.channel)]_vars

\* What timer_cb delivers from Channel::_msg is what the table holds: outside
\* the mutex every queued message of a channel is a stored one, until a clear,
\* which leaves the queue as it is.
QueueIsStored ==
  up /\ mutex = Free => \A c \in Channel : msg[c] \subseteq Stored(c) \/ ClearSent(c)

----------------------------------------------------------------------------
(* Parked subscribers *)

Parked(r) == Listed(r) /\ conn[r] = "open" /\ \A t \in Workers : req[t] # r

\* The lists hold only requests that wait: outside the mutex every listed
\* request is an unanswered pool request on its own channel, listed once.
ListedAreWaiting ==
  up /\ mutex = Free =>
    \A c \in Channel : \A k \in DOMAIN subs[c] : LET r == subs[c][k].req IN
      /\ IsPool(r) /\ input[r].cid = c /\ conn[r] \in {"open", "gone"}
      /\ \A j \in DOMAIN subs[c] : subs[c][j].req = r => j = k

\* No subscriber is forgotten: outside the mutex every unanswered pool request
\* whose handler has returned is in a list, so that the sweep will find it.
WaitingAreListed ==
  up /\ mutex = Free =>
    \A r \in Requests : 
      IsPool(r) /\ conn[r] = "open" /\ (\A t \in Workers : req[t] # r) => Listed(r)

\* The sweep takes a request that waits off its list only when it has answered
\* it.  What delSubscriber takes off is another matter: it may have the id only.
AnsweredBeforeRemoved ==
  [][\A r \in Requests :
       Listed(r) /\ conn[r] = "open" /\ ~Listed(r)' =>
         conn'[r] # "open" \/ \E t \in Workers : pc[t] = "del"]_vars

\* A client only receives contents published to its channel or broadcast.
OwnChannelOnly ==
  \A r \in Requests : \A x \in got[r] \cap Contents : \E p \in Requests :
    conn[p] # "idle" /\ input[p].content = x /\ input[r].cid \in Targets(p)

\* What a client of another channel may receive besides is only what the
\* evbuffer of the sweep kept for a client that closed its connection.
StrayFromGone ==
  \A r \in Requests : \A x \in got[r] \cap Contents : \E p \in Requests :
    /\ conn[p] # "idle" /\ input[p].content = x
    /\ \/ input[r].cid \in Targets(p)
       \/ \E g \in Requests : conn[g] = "gone" /\ input[g].cid \in Targets(p)

\* No lost wakeup: a message that a parked request asks for, stored after its
\* query found nothing, is queued for the next sweep, unless it was broadcast.
NoLostWakeup ==
  up /\ mutex = Free =>
    \A r \in Requests : Parked(r) /\ input[r].time = "none" /\ ~UnsetSql(input[r]) =>
      Select(table, input[r].cid, input[r].seq) \subseteq msg[input[r].cid] \cup Broadcasts

\* A parked client is only told that its channel is destroyed (by either
\* timeout) when no message is queued for it: messages go first.
MessagesBeforeTimeout ==
  [][\A r \in Requests : Destroyed \in got'[r] \ got[r] => msg[input[r].cid] = {}]_vars

\* Also when the buffer carries a "channel was destroy" over from a client that
\* has gone, whoever is told so is told all that is queued for it with it.
TimeoutWithMessages ==
  [][\A r \in Requests : Destroyed \in got'[r] \ got[r] => msg[input[r].cid] \subseteq got'[r]]_vars

\* Another subscriber of its channel has the id of request r: the delSubscriber
\* of one then erases both.
SharesId(r) == \E c \in Channel : \E j, k \in DOMAIN subs[c] :
  j # k /\ subs[c][j].req = r /\ subs[c][j].id = subs[c][k].id

\* Request r is not answered, and it is in a list, or a worker has still to
\* answer or park it.
Pending(r) ==
  /\ conn[r] = "open"
  /\ Listed(r) \/ \E t \in Workers : req[t] = r /\ pc[t] \notin {"load", "store"}

\* A queued message reaches every request parked on its channel, unless its
\* client goes, the process dies, it shares its id with another subscriber or
\* a thread is caught in delSubscriber.
QueuedReachesParked ==
  \A r \in Requests, x \in Contents :
    Parked(r) /\ x \in msg[input[r].cid] ~>
      x \in got[r] \/ conn[r] = "gone" \/ ~up \/ SharesId(r) \/ Hung

\* Every request the server has taken in is answered, pool at the latest by
\* its timeout, unless it shares its id with another subscriber or a thread is
\* caught in delSubscriber.
RequestIsAnswered ==
  \A r \in Requests : Pending(r) ~> conn[r] # "open" \/ SharesId(r) \/ Hung

\* A subscriber leaves its list in the end, whether its client waits or has
\* closed the connection, unless a thread is caught in delSubscriber.
SubscriberLeaves == \A r \in Requests : Listed(r) ~> ~Listed(r) \/ Hung

----------------------------------------------------------------------------
(* What the clients see *)

\* The messages of each channel, by their numbers, and what the server promises
\* of them.
Log == [c \in Channel |-> [n \in SeqsOf(table, c) |->
         (CHOOSE row \in table : row.channel = c /\ row.seq = n).content]]

\* The channels the administrator's request of thread t has written to.
Written(t) ==
  IF pc[t] \in {"reset", "unlock", "ok"} /\ In(t).kind = "clear" THEN {In(t).cid}
  ELSE IF pc[t] \in {"run", "insert"} /\ In(t).kind = "broadcast" THEN 0..(local[t] - 1)
  ELSE IF pc[t] \in {"unlock", "ok"} THEN Targets(req[t]) ELSE {}

Done == [r \in Requests |-> UNION {Written(t) : t \in {u \in Workers : req[u] = r}}]

Service == INSTANCE MessageService WITH log <- Log, done <- Done

\* The threads, lists and statements of the server add up to the service: every
\* chunk and every answer a client sees is one that MessageService allows, and
\* the table changes as its logs do.
ImplementsService == Service!Spec

----------------------------------------------------------------------------
(* A promise of the documentation that the code does not keep *)

\* channel.h: delSubscriber deletes the subscriber with the given id.
DeleteReturns == \A t \in Workers : pc[t] = "del" ~> pc[t] # "del"
=============================================================================
