---------------------------- MODULE MCCometServer ----------------------------
(***************************************************************************)
(* Instances of CometServer for TLC: the requests the clients of each run  *)
(* may send, and the symmetry of the interchangeable values.  Channels are *)
(* 0..CHAN-1, so that -1 is the cid of a request that names no channel.    *)
(***************************************************************************)
EXTENDS CometServer, TLC

CONSTANTS m1, m2, r1, r2, r3, r4

Get(k, c, n) == [kind |-> k, form |-> "get", cid |-> c, seq |-> n, time |-> "none",
                 content |-> m1]
With(i, x) == [i EXCEPT !.content = x]
Form(i, f) == [i EXCEPT !.form = f]

Pub(c, x)    == With(Get("pub", c, -1), x)
Broadcast(x) == With(Get("broadcast", -1, -1), x)
Clear(c)     == Get("clear", c, -1)
Sub(c, n)    == Get("sub", c, n)
Pool(c, n)   == Get("pool", c, n)
TimedPool(c) == [Pool(c, -1) EXCEPT !.time = "miss"]
TimedSub(c)  == [Sub(c, 1) EXCEPT !.time = "match"]

\* Every assignment of the inputs S to the requests.
AnyOf(S) == [Requests -> S]

\* Publishers and subscribers of both channels (the last one waits whatever is
\* stored), a clear, a broadcast, and a file request that holds the mutex.
CoreScripts == AnyOf({Pub(0, m1), Pub(1, m2), Pool(0, 1), Pool(0, 2), TimedPool(1),
                      Clear(0), Broadcast(m2), Get("read", -1, -1)})

\* The requests that change the table, with at most one reader, for whose
\* parameters there may be no statement, and at most two broadcasts.
StorageScripts ==
  {f \in AnyOf({Pub(0, m1), Pub(1, m2), Broadcast(m1), Clear(0), Sub(0, 2), TimedSub(0)}) :
     /\ Cardinality({r \in Requests : f[r].kind = "sub"}) <= 1
     /\ Cardinality({r \in Requests : f[r].kind = "broadcast"}) <= 2}

\* A publisher and two subscribers of its channel, the last one of the sweep.
WaitScripts ==
  {f \in AnyOf({Pub(1, m1), Pool(1, 1)}) : \A r \in Requests : f[r] = Pub(1, m1) <=> r = r1}

\* Requests that are not GET, do not parse or name no channel, on every handler
\* but pool; file requests that may fail and subscribers of both channels, which
\* may close.
MisuseScripts == AnyOf({Form(Pub(0, m1), "notget"), Form(Pub(0, m1), "garbled"), Sub(-1, -1),
                        Pub(-1, m1), Clear(CHAN), Pub(0, m2), Pool(0, 1),
                        Pool(1, 1), Get("generic", -1, -1)})

\* Publishers, a clear, and a request for each of the other handlers, for a
\* database that comes and goes; and pool requests that unlock the mutex they do
\* not hold.
OutageScripts == AnyOf({Pub(1, m2), Broadcast(m1), Clear(1), Pool(0, 1), Sub(0, 1),
                        Get("read", -1, -1), Pool(CHAN, 1), Form(Pool(0, 1), "garbled")})

\* One script set for each disagreement with the documentation.
SharedScripts    == AnyOf({Pub(0, m1), Pool(0, 1), Pool(0, 2)})
UnheldScripts    == AnyOf({Pool(CHAN, 1), Pub(0, m1)})
StrayScripts     == AnyOf({Pub(0, m1), Pool(0, 1), Pool(1, 1)})

Symmetry == Permutations(Workers) \cup Permutations(Requests)
=============================================================================
