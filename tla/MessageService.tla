--------------------------- MODULE MessageService ---------------------------
(***************************************************************************)
(* What the server promises its clients, without threads, lists and SQL: a *)
(* log of messages per channel, and requests that are taken in, served     *)
(* from the logs and answered.  CometServer implements it as long as its   *)
(* database answers and no client of a parked request hangs up (see        *)
(* CometServer!ImplementsService).  What the code leaves out of the promise *)
(* is stated where it applies: broadcasts wake nobody, although README.md   *)
(* lets the users of pool see them at once; a cleared message may still be  *)
(* delivered; and some queries have no defined answer.                      *)
(***************************************************************************)
EXTENDS Integers, Sequences

CONSTANTS Requests, Channel, Contents, NoMessage, Destroyed, Scripts

VARIABLES input,  \* what each request asks for
          conn,   \* whether it is idle, open, ended or reset
          got,    \* the chunks each client has received
          log,    \* the messages of each channel, in the order of their numbers
          done    \* the channels each open request has written to

service == <<input, conn, got, log, done>>

IsKind(r, kinds) == input[r].kind \in kinds /\ input[r].form = "get"

\* The channels request r publishes to.
Publishes(r) == CASE IsKind(r, {"pub"}) -> {input[r].cid}
                  [] IsKind(r, {"broadcast"}) -> Channel
                  [] OTHER -> {}

\* The channels it has to write to before it is answered "ok".
Writes(r) == IF IsKind(r, {"clear"}) THEN {input[r].cid} ELSE Publishes(r)

\* The messages that channel c holds from number n on.
From(c, n) == {log[c][k] : k \in {j \in DOMAIN log[c] : j >= n}}

\* The code builds no statement for these parameters.
Undefined(r) == \/ input[r].kind = "sub" /\ input[r].time # "none" /\ input[r].seq >= 0
                \/ input[r].kind = "pool" /\ input[r].time = "none" /\ input[r].seq < 0

\* The messages a subscriber asks for, sub from the first one if it names none.
Asked(r) ==
  LET first == IF input[r].kind = "sub" /\ input[r].time = "none" /\ input[r].seq < 1
               THEN 1 ELSE input[r].seq
  IN  IF input[r].time = "miss" THEN {} ELSE From(input[r].cid, first)

\* The answers of the query.
Answer(r, messages) ==
  IF Undefined(r) THEN \E c \in Channel : messages \subseteq From(c, 0)
                  ELSE messages = Asked(r)

\* Contents that requests publish to channel c, contents that were broadcast, and
\* channels that a clear was asked for.
Published(c) == {input[p].content : p \in {q \in Requests : c \in Publishes(q) /\ conn[q] # "idle"}}
Broadcasts == {input[p].content : p \in {q \in Requests : IsKind(q, {"broadcast"}) /\ conn[q] # "idle"}}
Cleared(c) == \E p \in Requests : input[p].kind = "clear" /\ input[p].cid = c /\ conn[p] # "idle"

\* What a waiting request must not miss.
Due(r) == IF input[r].time # "none" \/ Undefined(r) THEN {} ELSE Asked(r) \ Broadcasts

Send(r, chunks) == got' = [got EXCEPT ![r] = @ \cup chunks]

Move(r, from, to) == conn[r] = from /\ conn' = [conn EXCEPT ![r] = to]

-----------------------------------------------------------------------------
Init ==
  /\ input \in Scripts
  /\ conn = [r \in Requests |-> "idle"]
  /\ got = [r \in Requests |-> {}]
  /\ log = [c \in Channel |-> <<>>]
  /\ done = [r \in Requests |-> {}]

\* A request is taken in, or answered at once.
Take(r) == Move(r, "idle", "open") /\ UNCHANGED <<input, got, log, done>>
Refuse(r) == Move(r, "idle", "ended") /\ UNCHANGED <<input, got, log, done>>

\* A message takes the next number of a channel, once in each channel.
Publish(r, c) ==
  /\ conn[r] = "open" /\ c \in Publishes(r) \ done[r]
  /\ done' = [done EXCEPT ![r] = @ \cup {c}]
  /\ log' = [log EXCEPT ![c] = Append(@, input[r].content)]
  /\ UNCHANGED <<input, conn, got>>

Empty(r) ==
  /\ conn[r] = "open" /\ IsKind(r, {"clear"}) /\ done[r] = {}
  /\ done' = [done EXCEPT ![r] = {input[r].cid}]
  /\ log' = [log EXCEPT ![input[r].cid] = <<>>]
  /\ UNCHANGED <<input, conn, got>>

\* The answer "ok" comes when all channels are written to, each exactly once.
\* By then others may have written to them, or cleared them, too.
Acknowledge(r) ==
  /\ Move(r, "open", "ended") /\ IsKind(r, {"pub", "broadcast", "clear"})
  /\ done[r] = Writes(r)
  /\ done' = [done EXCEPT ![r] = {}]
  /\ UNCHANGED <<input, got, log>>

\* The answer of a query is what the log holds, for pool not nothing.  A sub that finds
\* nothing is ended without a word, although README.md has it receive a notice.
Reply(r, messages) ==
  /\ Move(r, "open", "ended")
  /\ IsKind(r, {"sub"}) \/ (IsKind(r, {"pool"}) /\ messages # {})
  /\ Answer(r, messages)
  /\ Send(r, messages)
  /\ UNCHANGED <<input, log, done>>

\* A pool request for which there is nothing yet is told so and waits.
Wait(r) ==
  /\ conn[r] = "open" /\ IsKind(r, {"pool"}) /\ Answer(r, {})
  /\ Send(r, {NoMessage})
  /\ UNCHANGED <<input, conn, log, done>>

Waiting(r) == conn[r] = "open" /\ NoMessage \in got[r]

\* A waiting request receives messages of its channel, and all that is due.
\* After a clear they need not be in the log any more.
Notify(r, messages) ==
  /\ Waiting(r) /\ Move(r, "open", "ended")
  /\ messages # {} /\ Due(r) \subseteq messages
  /\ messages \subseteq Published(input[r].cid)
  /\ Cleared(input[r].cid) \/ messages \subseteq From(input[r].cid, 1)
  /\ Send(r, messages)
  /\ UNCHANGED <<input, log, done>>

\* A request that is given up had nothing to receive.
GiveUp(r) ==
  /\ Waiting(r) /\ Move(r, "open", "ended")
  /\ Due(r) = {}
  /\ Send(r, {Destroyed})
  /\ UNCHANGED <<input, log, done>>

SendFile(r) ==
  /\ Move(r, "open", "ended") /\ IsKind(r, {"read", "generic"})
  /\ UNCHANGED <<input, got, log, done>>

\* The server dies: its open requests are cut, the logs stay.
Down ==
  /\ conn' = [r \in Requests |-> IF conn[r] = "open" THEN "reset" ELSE conn[r]]
  /\ done' = [r \in Requests |-> {}]
  /\ UNCHANGED <<input, got, log>>

Next ==
  \/ \E r \in Requests :
       \/ Take(r) \/ Refuse(r) \/ \E c \in Channel : Publish(r, c)
       \/ Empty(r) \/ Acknowledge(r) \/ Wait(r)
       \/ \E messages \in SUBSET Contents : Reply(r, messages) \/ Notify(r, messages)
       \/ GiveUp(r) \/ SendFile(r)
  \/ Down

Spec == Init /\ [][Next]_service
=============================================================================
