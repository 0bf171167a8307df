---------------------------- MODULE MessageTable ----------------------------
(***************************************************************************)
(* The MySQL table message(channel, seq, time, content) that keeps every   *)
(* published message, and the SQL statements the server sends to it through*)
(* operation::exe_sql, comet_query_sql and comet_query_seqmax_sql.  A table *)
(* is a set of rows; the primary key is (channel, seq).  The column time is *)
(* not kept: a request's time filter either matches every row of its       *)
(* channel or none (see CometState!TimeFilters).                           *)
(***************************************************************************)
EXTENDS Integers

Row(c, n, x) == [channel |-> c, seq |-> n, content |-> x]

\* The sequence numbers stored for channel c.
SeqsOf(t, c) == {row.seq : row \in {r \in t : r.channel = c}}

\* Mutant of InsertRow: REPLACE, a row with the key is overwritten.
InsertRowReplaces(t, c, n, x) ==
  {row \in t : ~(row.channel = c /\ row.seq = n)} \cup {Row(c, n, x)}

\* insert into message values(c, n, ..., x): a row whose key exists makes the
\* statement fail, and exe_sql only prints the error.
InsertRow(t, c, n, x) == IF n \in SeqsOf(t, c) THEN t ELSE t \cup {Row(c, n, x)}

\* Mutant of DeleteChannel: the statement has lost its condition.
DeleteChannelAll(t, c) == {}

\* delete from message where channel=c
DeleteChannel(t, c) == {row \in t : row.channel # c}

\* Mutant of Select: no condition on the channel.
SelectAnyChannel(t, c, n) == {row.content : row \in {r \in t : r.seq >= n}}

\* select content from message where channel=c and seq>=n (no ORDER BY, so
\* the answer is a set of contents)
Select(t, c, n) == {row.content : row \in {r \in t : r.channel = c /\ r.seq >= n}}

\* n is the answer of select MAX(seq) from message where channel=c, with 0
\* (the value Channel::init leaves in _msgcount) for the NULL of no row.
IsMaxSeq(t, c, n) ==
  \/ n = 0 /\ SeqsOf(t, c) = {}
  \/ n \in SeqsOf(t, c) /\ \A m \in SeqsOf(t, c) : m <= n
=============================================================================
