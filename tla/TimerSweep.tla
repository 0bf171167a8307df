----------------------------- MODULE TimerSweep -----------------------------
(***************************************************************************)
(* operation::timer_cb, which the dispatcher thread runs every             *)
(* _conf._timeout.polling seconds: it goes through the channels under the  *)
(* mutex, sends the messages of a channel to all its parked subscribers,   *)
(* and ends the replies of those that waited too long.  One evbuffer is    *)
(* used for the whole sweep.                                               *)
(***************************************************************************)
EXTENDS CometState

Advance(l) == pc' = [pc EXCEPT ![Timer] = l]

\* The subscriber the sweep has reached, if there is one left.
AtSubscriber == nth <= Len(subs[pos])
Reached == subs[pos][nth]

\* Mutant of SendAndEnd: what was sent stays in the buffer.
SendAndEndKeeps(r, chunks) ==
  /\ buf' = buf \cup chunks
  /\ IF conn[r] = "open"
     THEN /\ got' = [got EXCEPT ![r] = @ \cup buf \cup chunks]
          /\ conn' = [conn EXCEPT ![r] = "ended"]
     ELSE UNCHANGED clientVars

\* Add chunks to buf, evhttp_send_reply_chunk and evhttp_send_reply_end, for
\* the request r.  A chunk takes along all that buf holds.  When the client
\* has gone libevent returns before it empties buf, which keeps the content
\* for the next subscriber.
SendAndEnd(r, chunks) ==
  IF conn[r] = "open"
  THEN /\ got' = [got EXCEPT ![r] = @ \cup buf \cup chunks]
       /\ conn' = [conn EXCEPT ![r] = "ended"]
       /\ buf' = {}
  ELSE buf' = buf \cup chunks /\ UNCHANGED clientVars

\* A second passes.  The sweep reads the clock once, after the lock, so that
\* ages do not change during it.
Tick ==
  /\ up /\ pc[Timer] \notin TimerSection
  /\ chanAge' = [c \in Channel |-> IF chanAge[c] < ChannelTimeout
                                   THEN chanAge[c] + 1 ELSE chanAge[c]]
  /\ subs' = [c \in Channel |-> [k \in DOMAIN subs[c] |->
                [subs[c][k] EXCEPT !.age = IF @ < SubscriberTimeout THEN @ + 1 ELSE @]]]
  /\ UNCHANGED <<up, mutex, threadVars, clientNum, msg, count, sweepVars, clientVars,
                 input, dbVars>>

TimerFire ==
  /\ up /\ pc[Timer] = "idle"
  /\ Advance("lock")
  /\ UNCHANGED <<up, mutex, req, local, serverVars, sweepVars, clientVars, input, dbVars>>

\* Mutants of TimerLock: timer_cb does not lock; it looks at the timeouts of
\* the first channel before it delivers its messages.
TimerLockUnguarded ==
  /\ pc[Timer] = "lock"
  /\ mutex' = Timer
  /\ pos' = 0 /\ nth' = 1 /\ buf' = {}
  /\ Advance("deliver")
  /\ UNCHANGED <<up, req, local, serverVars, clientVars, input, dbVars>>

TimerLockChecksFirst ==
  /\ pc[Timer] = "lock" /\ mutex = Free
  /\ mutex' = Timer
  /\ pos' = 0 /\ nth' = 1 /\ buf' = {}
  /\ Advance("check")
  /\ UNCHANGED <<up, req, local, serverVars, clientVars, input, dbVars>>

TimerLock ==
  /\ pc[Timer] = "lock" /\ mutex = Free
  /\ mutex' = Timer
  /\ pos' = 0 /\ nth' = 1 /\ buf' = {}
  /\ Advance("deliver")
  /\ UNCHANGED <<up, req, local, serverVars, clientVars, input, dbVars>>

\* The channel has messages: send them all to the next subscriber.
Deliver ==
  /\ pc[Timer] = "deliver" /\ msg[pos] # {} /\ AtSubscriber
  /\ SendAndEnd(Reached.req, msg[pos])
  /\ nth' = nth + 1
  /\ UNCHANGED <<up, mutex, threadVars, serverVars, pos, input, dbVars>>

\* Mutants of Delivered: the list is not emptied after the delivery; it is
\* emptied although some have not been served.
DeliveredKeepsList ==
  /\ pc[Timer] = "deliver"
  /\ msg[pos] = {} \/ ~AtSubscriber
  /\ nth' = 1
  /\ Advance("check")
  /\ UNCHANGED <<up, mutex, req, local, serverVars, pos, buf, clientVars, input, dbVars>>

DeliveredAtOnce ==
  /\ pc[Timer] = "deliver"
  /\ \/ msg[pos] = {} /\ subs' = subs
     \/ msg[pos] # {} /\ subs' = [subs EXCEPT ![pos] = <<>>]
  /\ nth' = 1
  /\ Advance("check")
  /\ UNCHANGED <<up, mutex, req, local, clientNum, msg, count, chanAge, pos, buf, clientVars,
                 input, dbVars>>

\* All have them: empty the list.  Nothing empties the messages.
Delivered ==
  /\ pc[Timer] = "deliver"
  /\ \/ msg[pos] = {} /\ subs' = subs
     \/ msg[pos] # {} /\ ~AtSubscriber /\ subs' = [subs EXCEPT ![pos] = <<>>]
  /\ nth' = 1
  /\ Advance("check")
  /\ UNCHANGED <<up, mutex, req, local, clientNum, msg, count, chanAge, pos, buf, clientVars,
                 input, dbVars>>

\* The channel timed out: end the reply of every subscriber.
Evict ==
  /\ pc[Timer] = "check" /\ AtSubscriber /\ ChannelExpired(pos)
  /\ SendAndEnd(Reached.req, {Destroyed})
  /\ nth' = nth + 1
  /\ UNCHANGED <<up, mutex, threadVars, serverVars, pos, input, dbVars>>

\* Mutant of Expire: the subscriber stays in the list.
ExpireKeeps ==
  /\ pc[Timer] = "check" /\ AtSubscriber /\ ~ChannelExpired(pos)
  /\ Reached.age >= SubscriberTimeout
  /\ SendAndEnd(Reached.req, {Destroyed})
  /\ nth' = nth + 1
  /\ UNCHANGED <<up, mutex, threadVars, serverVars, pos, input, dbVars>>

\* The subscriber timed out: end its reply and erase it.
Expire ==
  /\ pc[Timer] = "check" /\ AtSubscriber /\ ~ChannelExpired(pos)
  /\ Reached.age >= SubscriberTimeout
  /\ SendAndEnd(Reached.req, {Destroyed})
  /\ subs' = [subs EXCEPT ![pos] = SubSeq(@, 1, nth - 1) \o SubSeq(@, nth + 1, Len(@))]
  /\ UNCHANGED <<up, mutex, threadVars, clientNum, msg, count, chanAge, pos, nth, input, dbVars>>

\* The subscriber may wait on.
Spare ==
  /\ pc[Timer] = "check" /\ AtSubscriber /\ ~ChannelExpired(pos)
  /\ Reached.age < SubscriberTimeout
  /\ nth' = nth + 1
  /\ UNCHANGED <<up, mutex, threadVars, serverVars, pos, buf, clientVars, input, dbVars>>

\* Mutants of NextChannel: the loop runs one channel too far; it stops one
\* too early; a channel that timed out keeps its list.
NextChannelBeyond ==
  /\ pc[Timer] = "check" /\ ~AtSubscriber
  /\ subs' = IF ChannelExpired(pos) THEN [subs EXCEPT ![pos] = <<>>] ELSE subs
  /\ nth' = 1
  /\ IF pos < CHAN THEN pos' = pos + 1 /\ Advance("deliver")
                       ELSE pos' = pos /\ Advance("unlock")
  /\ UNCHANGED <<up, mutex, req, local, clientNum, msg, count, chanAge, buf, clientVars,
                 input, dbVars>>

NextChannelShort ==
  /\ pc[Timer] = "check" /\ ~AtSubscriber
  /\ subs' = IF ChannelExpired(pos) THEN [subs EXCEPT ![pos] = <<>>] ELSE subs
  /\ nth' = 1
  /\ IF pos < CHAN - 2 THEN pos' = pos + 1 /\ Advance("deliver")
                       ELSE pos' = pos /\ Advance("unlock")
  /\ UNCHANGED <<up, mutex, req, local, clientNum, msg, count, chanAge, buf, clientVars,
                 input, dbVars>>

NextChannelKeepsList ==
  /\ pc[Timer] = "check" /\ ~AtSubscriber
  /\ subs' = subs
  /\ nth' = 1
  /\ IF pos < CHAN - 1 THEN pos' = pos + 1 /\ Advance("deliver")
                       ELSE pos' = pos /\ Advance("unlock")
  /\ UNCHANGED <<up, mutex, req, local, clientNum, msg, count, chanAge, buf, clientVars,
                 input, dbVars>>

\* The next channel, or the end of the sweep.
NextChannel ==
  /\ pc[Timer] = "check" /\ ~AtSubscriber
  /\ subs' = IF ChannelExpired(pos) THEN [subs EXCEPT ![pos] = <<>>] ELSE subs
  /\ nth' = 1
  /\ IF pos < CHAN - 1 THEN pos' = pos + 1 /\ Advance("deliver")
                       ELSE pos' = pos /\ Advance("unlock")
  /\ UNCHANGED <<up, mutex, req, local, clientNum, msg, count, chanAge, buf, clientVars,
                 input, dbVars>>

\* Mutant of TimerUnlock: returns without unlocking.
TimerUnlockHolds ==
  /\ pc[Timer] = "unlock"
  /\ pos' = 0 /\ buf' = {}
  /\ Advance("idle")
  /\ UNCHANGED <<up, mutex, req, local, serverVars, nth, clientVars, input, dbVars>>

TimerUnlock ==
  /\ pc[Timer] = "unlock"
  /\ mutex' = Free
  /\ pos' = 0 /\ buf' = {}
  /\ Advance("idle")
  /\ UNCHANGED <<up, req, local, serverVars, nth, clientVars, input, dbVars>>

\* Evict reads x->_req->evcon after evhttp_send_reply_end, which has handed
\* the request to its worker (or freed it, when the client has gone): the
\* access may fall in freed memory, and the process may die of it.
TouchFreed ==
  /\ pc[Timer] = "check" /\ AtSubscriber /\ ChannelExpired(pos)
  /\ Die

Sweep ==
  \/ Deliver \/ Delivered \/ Evict \/ Expire \/ Spare \/ NextChannel \/ TimerUnlock
  \/ TouchFreed
=============================================================================
