--------------------------- MODULE RequestHandlers ---------------------------
(***************************************************************************)
(* The callbacks the worker threads run, one request at a time each:       *)
(* pub, broadcast and clear from the administrator, sub, pool, read and    *)
(* the generic file callback from the clients.  A handler is cut into      *)
(* steps where another thread, a crash or the database can come between:   *)
(* taking and releasing the mutex, each access to _clientNum made outside  *)
(* it, each SQL statement, each turn of a loop.                            *)
(***************************************************************************)
EXTENDS CometState

----------------------------------------------------------------------------
(* Arrival of a request: what happens before the mutex. *)

Goto(t, l) == pc' = [pc EXCEPT ![t] = l]

Arrives(t, r) == up /\ pc[t] = "idle" /\ conn[r] = "idle"

\* Every handler answers 405 to a method other than GET.
RejectMethod(t, r) ==
  /\ Arrives(t, r)
  /\ input[r].form = "notget"
  /\ conn' = [conn EXCEPT ![r] = "ended"]
  /\ UNCHANGED <<up, mutex, threadVars, serverVars, sweepVars, got, input, dbVars>>

\* A URI that does not parse: every handler but pool_handler returns and
\* leaves the request without an answer.
DropUnparsed(t, r) ==
  /\ Arrives(t, r)
  /\ input[r].form = "garbled" /\ input[r].kind # "pool"
  /\ conn' = [conn EXCEPT ![r] = "open"]
  /\ UNCHANGED <<up, mutex, threadVars, serverVars, sweepVars, got, input, dbVars>>

\* Mutant of SubNotFound: unlocks before it returns, as pool_handler does.
SubNotFoundUnlocks(t, r) ==
  /\ Arrives(t, r)
  /\ input[r].kind = "sub" /\ input[r].form = "get" /\ input[r].cid \notin Channel
  /\ conn' = [conn EXCEPT ![r] = "open"]
  /\ mutex' = Free
  /\ UNCHANGED <<up, threadVars, serverVars, sweepVars, got, input, dbVars>>

\* sub_handler on a channel that does not exist starts a 404 reply and
\* returns without ending it.
SubNotFound(t, r) ==
  /\ Arrives(t, r)
  /\ input[r].kind = "sub" /\ input[r].form = "get" /\ input[r].cid \notin Channel
  /\ conn' = [conn EXCEPT ![r] = "open"]
  /\ UNCHANGED <<up, mutex, threadVars, serverVars, sweepVars, got, input, dbVars>>

\* pool_handler on a channel that does not exist, or on a URI that does not
\* parse (it goes on with cid = -1), sends a complete 404; then it increments
\* _clientNum and unlocks the mutex, neither under a lock.
PoolNotFound(t, r) ==
  /\ Arrives(t, r)
  /\ input[r].kind = "pool"
  /\ \/ input[r].form = "garbled"
     \/ input[r].form = "get" /\ input[r].cid \notin Channel
  /\ conn' = [conn EXCEPT ![r] = "ended"]
  /\ req' = [req EXCEPT ![t] = r]
  /\ Goto(t, "load")
  /\ UNCHANGED <<up, mutex, local, serverVars, sweepVars, got, input, dbVars>>

\* Any other request goes on to the mutex.  pub and clear look a bad channel
\* up as nullptr and go on as well.
Begin(t, r) ==
  /\ Arrives(t, r)
  /\ input[r].form = "get"
  /\ input[r].kind \in {"sub", "pool"} => input[r].cid \in Channel
  /\ conn' = [conn EXCEPT ![r] = "open"]
  /\ req' = [req EXCEPT ![t] = r]
  /\ Goto(t, "lock")
  /\ UNCHANGED <<up, mutex, local, serverVars, sweepVars, got, input, dbVars>>

\* Mutant of Lock: the handler runs without the mutex.
LockUnguarded(t) ==
  /\ pc[t] = "lock"
  /\ mutex' = t
  /\ local' = [local EXCEPT ![t] = 0]
  /\ Goto(t, "run")
  /\ UNCHANGED <<up, req, serverVars, sweepVars, clientVars, input, dbVars>>

Lock(t) ==
  /\ pc[t] = "lock" /\ mutex = Free
  /\ mutex' = t
  /\ local' = [local EXCEPT ![t] = 0]
  /\ Goto(t, "run")
  /\ UNCHANGED <<up, req, serverVars, sweepVars, clientVars, input, dbVars>>

\* Unlock, and return; the administrator's handlers have still to answer.
Unlock(t) ==
  /\ pc[t] = "unlock"
  /\ mutex' = Free
  /\ IF In(t).kind \in AdminKinds
     THEN Goto(t, "ok") /\ req' = req
     ELSE Goto(t, "idle") /\ req' = [req EXCEPT ![t] = NoReq]
  /\ UNCHANGED <<up, local, serverVars, sweepVars, clientVars, input, dbVars>>

\* pub, broadcast and clear answer "ok" without the mutex, when other threads
\* may have changed the channel again.
SendOk(t) ==
  /\ pc[t] = "ok"
  /\ conn' = [conn EXCEPT ![req[t]] = "ended"]
  /\ Goto(t, "idle")
  /\ req' = [req EXCEPT ![t] = NoReq]
  /\ UNCHANGED <<up, mutex, local, serverVars, sweepVars, got, input, dbVars>>

----------------------------------------------------------------------------
(* pub_handler, broadcast_handler and clear_handler *)

\* Mutant of PubPush: the push is commented out, as in broadcast_handler.
PubPushCountOnly(t) ==
  /\ pc[t] = "run" /\ In(t).kind = "pub" /\ In(t).cid \in Channel
  /\ count' = [count EXCEPT ![In(t).cid] = @ + 1]
  /\ local' = [local EXCEPT ![t] = In(t).cid]
  /\ Goto(t, "insert")
  /\ UNCHANGED <<up, mutex, req, clientNum, subs, msg, chanAge, sweepVars, clientVars,
                 input, dbVars>>

\* pub_handler: push the message, count it.
PubPush(t) ==
  /\ pc[t] = "run" /\ In(t).kind = "pub" /\ In(t).cid \in Channel
  /\ msg' = [msg EXCEPT ![In(t).cid] = @ \cup {In(t).content}]
  /\ count' = [count EXCEPT ![In(t).cid] = @ + 1]
  /\ local' = [local EXCEPT ![t] = In(t).cid]
  /\ Goto(t, "insert")
  /\ UNCHANGED <<up, mutex, req, clientNum, subs, chanAge, sweepVars, clientVars,
                 input, dbVars>>

\* broadcast_handler counts the message in the next channel; it does not push
\* it to the channel's _msg.
BroadcastCount(t) ==
  /\ pc[t] = "run" /\ In(t).kind = "broadcast"
  /\ count' = [count EXCEPT ![local[t]] = @ + 1]
  /\ Goto(t, "insert")
  /\ UNCHANGED <<up, mutex, req, local, clientNum, subs, msg, chanAge, sweepVars,
                 clientVars, input, dbVars>>

\* Mutant of Insert: the loop over the channels stops one too early.
InsertSkipsLast(t) ==
  /\ pc[t] = "insert"
  /\ LET c == local[t] IN
     /\ table' = IF dbUp THEN InsertRow(table, c, count[c], In(t).content) ELSE table
     /\ IF In(t).kind = "broadcast" /\ c < CHAN - 2
        THEN local' = [local EXCEPT ![t] = c + 1] /\ Goto(t, "run")
        ELSE local' = local /\ Goto(t, "unlock")
  /\ UNCHANGED <<up, mutex, req, serverVars, sweepVars, clientVars, input, dbUp>>

\* Write the row numbered _msgcount.  A failure of the statement is printed
\* and ignored.  broadcast_handler goes on with the next channel.
Insert(t) ==
  /\ pc[t] = "insert"
  /\ LET c == local[t] IN
     /\ table' = IF dbUp THEN InsertRow(table, c, count[c], In(t).content) ELSE table
     /\ IF In(t).kind = "broadcast" /\ c < CHAN - 1
        THEN local' = [local EXCEPT ![t] = c + 1] /\ Goto(t, "run")
        ELSE local' = local /\ Goto(t, "unlock")
  /\ UNCHANGED <<up, mutex, req, serverVars, sweepVars, clientVars, input, dbUp>>

ClearDelete(t) ==
  /\ pc[t] = "run" /\ In(t).kind = "clear"
  /\ table' = IF dbUp THEN DeleteChannel(table, In(t).cid) ELSE table
  /\ Goto(t, "reset")
  /\ UNCHANGED <<up, mutex, req, local, serverVars, sweepVars, clientVars, input, dbUp>>

\* Mutant of ClearReset: the counter is not reset.
ClearResetNothing(t) ==
  /\ pc[t] = "reset" /\ In(t).cid \in Channel
  /\ Goto(t, "unlock")
  /\ UNCHANGED <<up, mutex, req, local, serverVars, sweepVars, clientVars, input, dbVars>>

\* Reset the counter.  The channel's _msg keeps its messages.
ClearReset(t) ==
  /\ pc[t] = "reset" /\ In(t).cid \in Channel
  /\ count' = [count EXCEPT ![In(t).cid] = 0]
  /\ Goto(t, "unlock")
  /\ UNCHANGED <<up, mutex, req, local, clientNum, subs, msg, chanAge, sweepVars,
                 clientVars, input, dbVars>>

\* pub_handler and clear_handler use the nullptr of a bad channel.
NullChannel(t) ==
  /\ \/ pc[t] = "run" /\ In(t).kind = "pub"
     \/ pc[t] = "reset"
  /\ In(t).cid \notin Channel
  /\ Die

----------------------------------------------------------------------------
(* sub_handler, read_handler and generic_handler *)

\* Neither branch of the code builds a statement for these parameters: the
\* buffer sql is used uninitialised.
UnsetSql(i) == IF i.kind = "sub" THEN i.time # "none" /\ i.seq >= 0
                                 ELSE i.time = "none" /\ i.seq < 0

\* sub_handler asks for seq>=1 when no positive seq and no time is given.
FirstSeq(i) == IF i.kind = "sub" /\ i.time = "none" /\ i.seq < 1 THEN 1 ELSE i.seq

\* The possible answers of comet_query_sql to request i.  Without a seq the
\* statement has no condition on it, which seq>=-1 stands for.  A failed query
\* is an empty answer.  An uninitialised buffer fails to parse or holds the
\* text of an earlier query.
Answers(i) ==
  IF ~dbUp THEN {{}}
  ELSE IF UnsetSql(i)
  THEN {{}} \cup {Select(table, c, n) : c \in Channel, n \in {0} \cup {row.seq : row \in table}}
  ELSE {IF i.time = "miss" THEN {} ELSE Select(table, i.cid, FirstSeq(i))}

\* sub_handler: send what the query returns, nothing if it returns nothing,
\* and end the reply.
SubAnswer(t) ==
  /\ pc[t] = "run" /\ In(t).kind = "sub"
  /\ \E answer \in Answers(In(t)) : got' = [got EXCEPT ![req[t]] = @ \cup answer]
  /\ conn' = [conn EXCEPT ![req[t]] = "ended"]
  /\ clientNum' = NextClient(clientNum, WrapShort)
  /\ Goto(t, "unlock")
  /\ UNCHANGED <<up, mutex, req, local, subs, msg, count, chanAge, sweepVars, input, dbVars>>

\* read_handler and generic_handler: send a file.
ServeFile(t) ==
  /\ pc[t] = "run" /\ In(t).kind \in FileKinds
  /\ conn' = [conn EXCEPT ![req[t]] = "ended"]
  /\ clientNum' = NextClient(clientNum, IF In(t).kind = "read" THEN WrapShort ELSE WrapLong)
  /\ Goto(t, "unlock")
  /\ UNCHANGED <<up, mutex, req, local, subs, msg, count, chanAge, sweepVars, got, input,
                 dbVars>>

\* evbuffer_new fails: both return without an answer and without unlocking.
FileAllocFail(t) ==
  /\ "alloc" \in Faults
  /\ pc[t] = "run" /\ In(t).kind \in FileKinds
  /\ Goto(t, "idle")
  /\ req' = [req EXCEPT ![t] = NoReq]
  /\ UNCHANGED <<up, mutex, local, serverVars, sweepVars, clientVars, input, dbVars>>

----------------------------------------------------------------------------
(* pool_handler *)

\* Add a subscriber to the channel.  _freeStart is not initialised.
PoolJoin(t) ==
  /\ pc[t] = "run" /\ In(t).kind = "pool"
  /\ \E age \in 0..SubscriberTimeout :
       subs' = [subs EXCEPT ![In(t).cid] =
                  Append(@, [id |-> clientNum, req |-> req[t], age |-> age])]
  /\ Goto(t, "query")
  /\ UNCHANGED <<up, mutex, req, local, clientNum, msg, count, chanAge, sweepVars,
                 clientVars, input, dbVars>>

\* The query returns nothing: start the clock of the subscriber, and that of
\* the channel if it never ran, say "not message read" and unlock.  The
\* request stays parked, and _clientNum is incremented after the unlock.
PoolPark(t) ==
  /\ pc[t] = "query"
  /\ {} \in Answers(In(t))
  /\ LET c == In(t).cid IN
     /\ subs' = [subs EXCEPT ![c] =
                   [k \in DOMAIN @ |-> IF @[k].req = req[t] THEN [@[k] EXCEPT !.age = 0] ELSE @[k]]]
     /\ chanAge' = [chanAge EXCEPT ![c] = IF @ = Never THEN 0 ELSE @]
  /\ got' = [got EXCEPT ![req[t]] = @ \cup {NoMessage}]
  /\ mutex' = Free
  /\ Goto(t, "load")
  /\ UNCHANGED <<up, req, local, clientNum, msg, count, sweepVars, conn, input, dbVars>>

\* The query returns rows: send them, end the reply, and ask delSubscriber to
\* remove the subscriber whose id is the value _clientNum has now.
PoolReply(t) ==
  /\ pc[t] = "query"
  /\ \E answer \in Answers(In(t)) \ {{}} : got' = [got EXCEPT ![req[t]] = @ \cup answer]
  /\ conn' = [conn EXCEPT ![req[t]] = "ended"]
  /\ local' = [local EXCEPT ![t] = clientNum]
  /\ Goto(t, "del")
  /\ UNCHANGED <<up, mutex, req, serverVars, sweepVars, input, dbVars>>

\* One turn of the loop of delSubscriber that erases.  It looks only at the
\* front of the list; with another id in front it turns for ever (Spinning).
DelErase(t) ==
  /\ pc[t] = "del"
  /\ LET c == In(t).cid IN
     /\ subs[c] # <<>> /\ Head(subs[c]).id = local[t]
     /\ subs' = [subs EXCEPT ![c] = Tail(@)]
  /\ UNCHANGED <<up, mutex, threadVars, clientNum, msg, count, chanAge, sweepVars, clientVars,
                 input, dbVars>>

DelDone(t) ==
  /\ pc[t] = "del"
  /\ subs[In(t).cid] = <<>>
  /\ clientNum' = NextClient(clientNum, WrapLong)
  /\ Goto(t, "unlock")
  /\ UNCHANGED <<up, mutex, req, local, subs, msg, count, chanAge, sweepVars, clientVars,
                 input, dbVars>>

\* ++_clientNum outside the mutex: a read and a write.
BumpLoad(t) ==
  /\ pc[t] = "load"
  /\ local' = [local EXCEPT ![t] = clientNum]
  /\ Goto(t, "store")
  /\ UNCHANGED <<up, mutex, req, serverVars, sweepVars, clientVars, input, dbVars>>

\* A parked request leaves the handler; a refused one goes on to unlock.
BumpStore(t) ==
  /\ pc[t] = "store"
  /\ IF IsPool(req[t])
     THEN /\ clientNum' = NextClient(local[t], WrapLong)
          /\ Goto(t, "idle") /\ req' = [req EXCEPT ![t] = NoReq]
     ELSE /\ clientNum' = NextClient(local[t], WrapShort)
          /\ Goto(t, "release") /\ req' = req
  /\ UNCHANGED <<up, mutex, local, subs, msg, count, chanAge, sweepVars, clientVars,
                 input, dbVars>>

\* pthread_mutex_unlock of a mutex this thread did not lock: a default mutex
\* does not check its owner, and is unlocked whoever holds it.
ReleaseUnheld(t) ==
  /\ pc[t] = "release"
  /\ mutex' = Free
  /\ Goto(t, "idle")
  /\ req' = [req EXCEPT ![t] = NoReq]
  /\ UNCHANGED <<up, local, serverVars, sweepVars, clientVars, input, dbVars>>

----------------------------------------------------------------------------
Accept(t) ==
  \E r \in Requests : \/ RejectMethod(t, r) \/ DropUnparsed(t, r) \/ SubNotFound(t, r)
                      \/ PoolNotFound(t, r) \/ Begin(t, r)

\* The steps that carry a request on once the worker has the mutex or does
\* not need it.
Handle(t) ==
  \/ PubPush(t) \/ BroadcastCount(t) \/ Insert(t) \/ ClearDelete(t) \/ ClearReset(t)
  \/ NullChannel(t) \/ SubAnswer(t) \/ ServeFile(t) \/ FileAllocFail(t)
  \/ PoolJoin(t) \/ PoolPark(t) \/ PoolReply(t) \/ DelErase(t) \/ DelDone(t)
  \/ BumpLoad(t) \/ BumpStore(t) \/ ReleaseUnheld(t) \/ Unlock(t) \/ SendOk(t)
=============================================================================
