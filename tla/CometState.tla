----------------------------- MODULE CometState -----------------------------
(***************************************************************************)
(* The state of one cometServer process, of its clients and of its         *)
(* database, shared by the modules that describe who changes it: the       *)
(* worker threads (RequestHandlers), the timer of the main thread          *)
(* (TimerSweep), and the process and its environment (CometServer).        *)
(*                                                                         *)
(* The process runs _conf._nthreads workers, each with an event loop of    *)
(* its own, and a dispatcher thread that owns the timer.  What they share  *)
(* is the Server object and the mutex _global_mutex.  The configuration    *)
(* modelled is _nthreads > 1, the shipped one: with a single worker        *)
(* read_handler, sub_handler, pool_handler and timer_cb do not lock.       *)
(***************************************************************************)
EXTENDS MessageTable, Sequences, FiniteSets

CONSTANTS
  Workers,            \* the threads that dispatch HTTP requests
  Timer,              \* the dispatcher thread, which runs timer_cb
  Free,               \* the value of an unlocked mutex
  NoReq,              \* a thread that handles no request
  Requests,           \* the client requests, each sent at most once
  Scripts,            \* what the clients may send: functions from Requests to
                      \* the inputs of the handlers
  Contents,           \* message contents
  NoMessage,          \* the chunk "not message read"
  Destroyed,          \* the chunk "channel was destroy"
  CHAN,               \* number of channels (1024 in the code)
  ChannelTimeout,     \* _conf._timeout.channel, in ticks of the clock
  SubscriberTimeout,  \* _conf._timeout.subscriber
  WrapShort,          \* 50000, where sub_handler and read_handler wrap _clientNum
  WrapLong,           \* 500000, where pool_handler and generic_handler wrap it
  Faults              \* which of "crash", "db", "alloc", "disconnect" happen

Channel     == 0..(CHAN - 1)
Threads     == Workers \cup {Timer}
Chunks      == Contents \cup {NoMessage, Destroyed}
AdminKinds  == {"pub", "broadcast", "clear"}
FileKinds   == {"read", "generic"}
Kinds       == AdminKinds \cup FileKinds \cup {"sub", "pool"}
TimeFilters == {"none", "match", "miss"}

\* What a handler extracts from a request: the method and syntax of the
\* request ("get", a method other than GET, or a URI that does not parse),
\* cid and seq (-1 when absent), the time filter and the content.
InputType ==
  [kind : Kinds, form : {"get", "notget", "garbled"}, cid : Int, seq : Int,
   time : TimeFilters, content : Contents]

ASSUME ThreadsAssumption ==
  Timer \notin Workers /\ Free \notin Threads /\ Cardinality(Workers) > 1
ASSUME RequestsAssumption == NoReq \notin Requests /\ Scripts \subseteq [Requests -> InputType]
ASSUME ChunksAssumption ==
  NoMessage \notin Contents /\ Destroyed \notin Contents /\ NoMessage # Destroyed
ASSUME SizesAssumption ==
  CHAN \in Nat \ {0} /\ WrapShort \in Nat /\ WrapLong \in Nat
ASSUME TimeoutsAssumption ==
  ChannelTimeout \in Nat \ {0} /\ SubscriberTimeout \in Nat \ {0}
ASSUME FaultsAssumption == Faults \subseteq {"crash", "db", "alloc", "disconnect"}

VARIABLES
  up,         \* the process runs
  mutex,      \* _global_mutex: the thread that locked it last, or Free
  pc,         \* what each thread does next
  req,        \* the request each worker handles
  local,      \* one integer of each thread: the channel a push has reached,
              \* the argument of delSubscriber, or the _clientNum it has read
  clientNum,  \* Server::_clientNum
  subs,       \* Channel::_subscriber, the parked pool requests
  msg,        \* Channel::_msg, as the set of its contents
  count,      \* Channel::_msgcount
  chanAge,    \* now - Channel::_freeStart, or Never while _freeStart is 0
  pos,        \* the channel the sweep of timer_cb has reached
  nth,        \* the subscriber of that channel it has reached
  buf,        \* what is left in the evbuffer of the sweep
  input,      \* the query string each request carries
  conn,       \* the state of each request, see ConnStates
  got,        \* the chunks each client has received
  table,      \* the table message
  dbUp        \* the database answers

\* idle: not sent yet.  open: accepted, not answered in full.  ended: answered
\* (evhttp_send_reply or evhttp_send_reply_end).  gone: the client closed it
\* before that, so req->evcon is NULL.  reset: the server died before that.
ConnStates == {"idle", "open", "ended", "gone", "reset"}

threadVars == <<pc, req, local>>
serverVars == <<clientNum, subs, msg, count, chanAge>>
sweepVars  == <<pos, nth, buf>>
clientVars == <<conn, got>>
dbVars     == <<table, dbUp>>
vars == <<up, mutex, threadVars, serverVars, sweepVars, clientVars, input, dbVars>>

\* The age of a channel whose _freeStart is still 0: any difference with the
\* current time exceeds every timeout.
Never == ChannelTimeout + 1
ChannelExpired(c) == chanAge[c] >= ChannelTimeout

\* Program counters between a lock and the matching unlock.
WorkerSection == {"run", "insert", "reset", "query", "del", "unlock"}
TimerSection  == {"deliver", "check", "unlock"}
WorkerPCs == {"idle", "lock", "load", "store", "release", "ok"} \cup WorkerSection
TimerPCs  == {"idle", "lock"} \cup TimerSection

InSection(t) ==
  \/ t \in Workers /\ pc[t] \in WorkerSection
  \/ t = Timer /\ pc[t] \in TimerSection

\* The query string thread t works on.
In(t) == input[req[t]]

Subscribers == [id : Nat, req : Requests, age : 0..SubscriberTimeout]

Listed(r) == \E c \in Channel : \E k \in DOMAIN subs[c] : subs[c][k].req = r

\* A pool request that reaches the subscriber list of its channel.
IsPool(r) == input[r].kind = "pool" /\ input[r].form = "get" /\ input[r].cid \in Channel

\* if (++_clientNum > limit) _clientNum = 0
NextClient(n, limit) == IF n + 1 > limit THEN 0 ELSE n + 1

\* delSubscriber does not advance its iterator past a subscriber with another
\* id: a thread that finds one in front never leaves the loop.
Spinning(t) ==
  /\ t \in Workers
  /\ pc[t] = "del"
  /\ subs[In(t).cid] # <<>>
  /\ Head(subs[In(t).cid]).id # local[t]

Hung == \E t \in Workers : Spinning(t)

\* The process ends: memory and connections are lost, the table is not.
Die ==
  /\ up' = FALSE
  /\ mutex' = Free
  /\ pc' = [t \in Threads |-> "idle"]
  /\ req' = [t \in Threads |-> NoReq]
  /\ local' = [t \in Threads |-> 0]
  /\ clientNum' = 0
  /\ subs' = [c \in Channel |-> <<>>]
  /\ msg' = [c \in Channel |-> {}]
  /\ count' = [c \in Channel |-> 0]
  /\ chanAge' = [c \in Channel |-> Never]
  /\ pos' = 0 /\ nth' = 1 /\ buf' = {}
  /\ conn' = [r \in Requests |-> IF conn[r] = "open" THEN "reset" ELSE conn[r]]
  /\ UNCHANGED <<got, input, dbVars>>
=============================================================================
