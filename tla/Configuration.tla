---------------------------- MODULE Configuration ----------------------------
(***************************************************************************)
(* The configuration file and its parser (parserinfo and split of          *)
(* operation.cpp, CONFIGURE of operation.h).  A file is a function from    *)
(* the keys that it has, with values of the right type, to these values;   *)
(* a file that cannot be opened or has a syntax error has no key.  The     *)
(* keys that are always read together and that no other module tells       *)
(* apart are one key here: log, timeout and limits.                        *)
(***************************************************************************)
EXTENDS Naturals, Sequences, FiniteSets, FiniteSetsExt

CONSTANTS Separator,  \* the separator between the addresses of admin_allow_ip
          Texts       \* the texts on which Split is compared with its reference

ASSUME TextsAssumption == Texts \subseteq Seq(STRING)

Keys == {"pidfile", "log", "admin_ip", "admin_port", "front_ip", "front_port",
         "timeout", "limits", "admin_allow_ip", "backlog", "nthreads", "generic_file"}

\* Mutant of Order: the number of threads is read first.
OrderThreadsFirst ==
  <<"nthreads", "pidfile", "log", "admin_ip", "admin_port", "front_ip", "front_port",
    "timeout", "limits", "admin_allow_ip", "backlog", "generic_file">>

\* The order in which parserinfo reads the keys.
Order == <<"pidfile", "log", "admin_ip", "admin_port", "front_ip", "front_port", "timeout",
           "limits", "admin_allow_ip", "backlog", "nthreads", "generic_file">>

-----------------------------------------------------------------------------
\* The first position from i on that holds no separator, and the first one
\* that does; Len(s) + 1 if there is none.
FieldStart(s, i) == Min({j \in i..(Len(s) + 1) : j = Len(s) + 1 \/ s[j] # Separator})
FieldEnd(s, i)   == Min({j \in i..(Len(s) + 1) : j = Len(s) + 1 \/ s[j] = Separator})

\* Mutant of Turn: the empty text behind a separator at the end is kept as well.
TurnKeepsEmpty(s, state) ==
  IF state.i = Len(s) + 1 THEN state
  ELSE LET first == FieldStart(s, state.i)
           end   == FieldEnd(s, first)
       IN  [i |-> end, result |-> Append(state.result, SubSeq(s, first, end - 1))]

\* One turn of the loop, from position i with the fields found so far: skip
\* separators, take what goes up to the next one, and keep it if it is not empty.
\* At the end of the text the loop is over and nothing changes.
Turn(s, state) ==
  IF state.i = Len(s) + 1 THEN state
  ELSE LET first == FieldStart(s, state.i)
           end   == FieldEnd(s, first)
       IN  [i |-> end,
            result |-> IF first = end THEN state.result
                       ELSE Append(state.result, SubSeq(s, first, end - 1))]

\* split: every turn moves on, so that Len(s) of them are enough.
Split(s) ==
  LET state[n \in Nat] == IF n = 0 THEN [i |-> 1, result |-> <<>>] ELSE Turn(s, state[n - 1])
  IN  state[Len(s)].result

\* The reference: the longest intervals of s without a separator, in the order
\* of their positions.
Intervals(s) ==
  {iv \in (1..Len(s)) \X (1..Len(s)) :
     /\ iv[1] <= iv[2]
     /\ \A k \in iv[1]..iv[2] : s[k] # Separator
     /\ iv[1] = 1 \/ s[iv[1] - 1] = Separator
     /\ iv[2] = Len(s) \/ s[iv[2] + 1] = Separator}

Fields(s) ==
  [n \in 1..Cardinality(Intervals(s)) |->
     LET iv == CHOOSE iv \in Intervals(s) :
                 Cardinality({jv \in Intervals(s) : jv[1] <= iv[1]}) = n
     IN  SubSeq(s, iv[1], iv[2])]

SplitWrongly == {s \in Texts : Split(s) # Fields(s)}

-----------------------------------------------------------------------------
\* What a field of the global _conf holds when the parser does not get to it.
Zero(k) ==
  CASE k \in {"pidfile", "admin_ip", "front_ip", "log", "generic_file"} -> ""
    [] k = "admin_allow_ip" -> <<>>
    [] OTHER -> 0

\* The parser stops at the first key that the file lacks: the exception is
\* printed and the program goes on.
ReachedKeys(file) ==
  {Order[i] : i \in {n \in 1..Len(Order) : \A m \in 1..n : Order[m] \in DOMAIN file}}

Parse(file) ==
  [k \in Keys |-> IF k \notin ReachedKeys(file) THEN Zero(k)
                  ELSE IF k = "admin_allow_ip" THEN Split(file[k]) ELSE file[k]]
==============================================================================
