------------------------- MODULE ConfigurationProofs -------------------------
(***************************************************************************)
(* The loop of operation::split returns the fields of every text, whatever *)
(* its length: an invariant of the loop, carried through its turns by the  *)
(* least turn at which it could fail (WFMin of WellFoundedInduction, as    *)
(* the induction theorems of the library cannot be instantiated here).     *)
(***************************************************************************)
EXTENDS Configuration, Integers, FiniteSetTheorems, SequenceTheorems, NaturalsInduction, TLAPS

-----------------------------------------------------------------------------
(* Least numbers, and functions by recursion over the turns                 *)

LEMMA Least ==
  ASSUME NEW T \in SUBSET Nat, T # {}
  PROVE  \E n \in T : \A m \in T : n <= m
<1>1. IsWellFoundedOn(OpToRel(<, Nat), Nat)
  BY NatLessThanWellFounded
<1>2. \E n \in T : \A m \in T : ~(<<m, n>> \in OpToRel(<, Nat))
  BY <1>1, WFMin
<1>3. \A m, n \in Nat : ~(<<m, n>> \in OpToRel(<, Nat)) => n <= m
  BY DEF OpToRel
<1> QED BY <1>2, <1>3

LEMMA MinIsLeast ==
  ASSUME NEW T \in SUBSET Nat, T # {}
  PROVE  Min(T) \in T /\ \A m \in T : Min(T) <= m
BY Least DEF Min

Begin == [i |-> 1, result |-> <<>>]

\* The first n turns of the loop on text s.
TurnsUpTo(s, g, n) == g = [m \in 0..n |-> IF m = 0 THEN Begin ELSE Turn(s, g[m - 1])]

LEMMA TurnsExist ==
  ASSUME NEW s, NEW n \in Nat
  PROVE  \E g : TurnsUpTo(s, g, n)
<1> DEFINE T == {m \in Nat : ~ \E g : TurnsUpTo(s, g, m)}
<1> SUFFICES ASSUME T # {} PROVE FALSE
  OBVIOUS
<1>1. PICK k \in T : \A m \in T : k <= m
  <2>1. T \in SUBSET Nat
    OBVIOUS
  <2> HIDE DEF T
  <2> QED BY <2>1, Least
<1>2. CASE k = 0
  <2>1. TurnsUpTo(s, [m \in 0..0 |-> Begin], 0)
    BY DEF TurnsUpTo
  <2> QED BY <1>2, <2>1
<1>3. CASE k # 0
  <2>1. k \in Nat /\ k - 1 \in Nat /\ ~(k <= k - 1)
    BY <1>3
  <2>2. PICK g : TurnsUpTo(s, g, k - 1)
    BY <1>1, <2>1
  <2> DEFINE h == [m \in 0..k |-> IF m = k THEN Turn(s, g[k - 1]) ELSE g[m]]
  <2>3. ASSUME NEW m \in 0..k PROVE h[m] = IF m = 0 THEN Begin ELSE Turn(s, h[m - 1])
    <3>1. CASE m = 0
      BY <1>3, <2>1, <2>2, <3>1 DEF TurnsUpTo
    <3>2. CASE m # 0 /\ m # k
      BY <2>1, <2>2, <3>2 DEF TurnsUpTo
    <3>3. CASE m # 0 /\ m = k
      BY <2>1, <2>2, <3>3
    <3> QED BY <3>1, <3>2, <3>3
  <2>4. TurnsUpTo(s, h, k)
    BY <2>3 DEF TurnsUpTo
  <2> QED BY <2>4
<1> QED BY <1>2, <1>3

\* Two prefixes of the loop agree on the turns that both have.
LEMMA TurnsAgree ==
  ASSUME NEW s, NEW n \in Nat, NEW k \in Nat, NEW g, NEW h,
         TurnsUpTo(s, g, n), TurnsUpTo(s, h, k), NEW m \in Nat, m <= n, m <= k
  PROVE  g[m] = h[m]
<1> DEFINE T == {j \in Nat : j <= n /\ j <= k /\ g[j] # h[j]}
<1> SUFFICES ASSUME T # {} PROVE FALSE
  OBVIOUS
<1>1. PICK j \in T : \A i \in T : j <= i
  <2>1. T \in SUBSET Nat
    OBVIOUS
  <2> HIDE DEF T
  <2> QED BY <2>1, Least
<1>2. j # 0
  BY <1>1 DEF TurnsUpTo
<1>3. j - 1 \in Nat /\ j - 1 <= n /\ j - 1 <= k /\ ~(j <= j - 1)
  BY <1>1, <1>2
<1>4. g[j - 1] = h[j - 1]
  BY <1>1, <1>3
<1>5. g[j] = Turn(s, g[j - 1]) /\ h[j] = Turn(s, h[j - 1])
  BY <1>1, <1>2 DEF TurnsUpTo
<1> QED BY <1>1, <1>4, <1>5

\* The function that Split defines by recursion exists.
LEMMA LoopExists ==
  ASSUME NEW s
  PROVE  \E state : state = [n \in Nat |-> IF n = 0 THEN Begin ELSE Turn(s, state[n - 1])]
<1> DEFINE run(n) == CHOOSE g : TurnsUpTo(s, g, n)
           f == [n \in Nat |-> run(n)[n]]
<1>1. \A n \in Nat : TurnsUpTo(s, run(n), n)
  BY TurnsExist
<1>2. ASSUME NEW n \in Nat PROVE f[n] = IF n = 0 THEN Begin ELSE Turn(s, f[n - 1])
  <2>1. TurnsUpTo(s, run(n), n)
    BY <1>1
  <2>2. f[n] = run(n)[n]
    OBVIOUS
  <2>3. CASE n = 0
    <3> HIDE DEF run
    <3> QED BY <2>1, <2>2, <2>3 DEF TurnsUpTo
  <2>4. CASE n # 0
    <3>1. n - 1 \in Nat /\ n - 1 <= n
      BY <2>4
    <3>2. TurnsUpTo(s, run(n - 1), n - 1)
      BY <1>1, <3>1
    <3>3. f[n - 1] = run(n - 1)[n - 1]
      BY <3>1
    <3> HIDE DEF run, f
    <3>4. run(n)[n] = Turn(s, run(n)[n - 1])
      BY <2>1, <2>4, <3>1 DEF TurnsUpTo
    <3>5. run(n)[n - 1] = run(n - 1)[n - 1]
      BY <2>1, <3>1, <3>2, TurnsAgree
    <3> QED BY <2>2, <2>4, <3>3, <3>4, <3>5
  <2> QED BY <2>3, <2>4
<1>3. f = [n \in Nat |-> IF n = 0 THEN Begin ELSE Turn(s, f[n - 1])]
  <2>1. f = [n \in Nat |-> f[n]]
    OBVIOUS
  <2> HIDE DEF f
  <2> QED BY <1>2, <2>1
<1> QED BY <1>3

\* So Split(s) is what its loop has after Len(s) turns.
LEMMA SplitByTurns ==
  ASSUME NEW s
  PROVE  \E state : /\ state = [n \in Nat |-> IF n = 0 THEN Begin ELSE Turn(s, state[n - 1])]
                    /\ Split(s) = state[Len(s)].result
BY LoopExists DEF Split, Begin

-----------------------------------------------------------------------------
(* One turn on a text                                                       *)

\* FieldStart and FieldEnd find what their names say.
LEMMA StartIsFound ==
  ASSUME NEW S, NEW s \in Seq(S), NEW i \in 1..(Len(s) + 1)
  PROVE  /\ FieldStart(s, i) \in i..(Len(s) + 1)
         /\ FieldStart(s, i) = Len(s) + 1 \/ s[FieldStart(s, i)] # Separator
         /\ \A k \in i..(FieldStart(s, i) - 1) : s[k] = Separator
<1> DEFINE T == {j \in i..(Len(s) + 1) : j = Len(s) + 1 \/ s[j] # Separator}
           a == FieldStart(s, i)
<1>1. Len(s) \in Nat /\ i \in Nat
  BY LenProperties
<1>2. T \in SUBSET Nat /\ Len(s) + 1 \in T
  BY <1>1
<1>3. a \in T /\ \A m \in T : a <= m
  <2> HIDE DEF T
  <2>1. Min(T) \in T /\ \A m \in T : Min(T) <= m
    BY <1>2, MinIsLeast
  <2>2. a = Min(T)
    BY DEF T, FieldStart
  <2> QED BY <2>1, <2>2
<1> HIDE DEF a
<1>4. ASSUME NEW k \in i..(a - 1) PROVE s[k] = Separator
  <2>1. a \in Nat /\ a <= Len(s) + 1 /\ k \in i..(Len(s) + 1) /\ ~(a <= k)
    BY <1>1, <1>3
  <2>2. k \notin T
    BY <1>3, <2>1
  <2> QED BY <2>1, <2>2
<1> QED BY <1>3, <1>4 DEF a

LEMMA EndIsFound ==
  ASSUME NEW S, NEW s \in Seq(S), NEW i \in 1..(Len(s) + 1)
  PROVE  /\ FieldEnd(s, i) \in i..(Len(s) + 1)
         /\ FieldEnd(s, i) = Len(s) + 1 \/ s[FieldEnd(s, i)] = Separator
         /\ \A k \in i..(FieldEnd(s, i) - 1) : s[k] # Separator
<1> DEFINE T == {j \in i..(Len(s) + 1) : j = Len(s) + 1 \/ s[j] = Separator}
           a == FieldEnd(s, i)
<1>1. Len(s) \in Nat /\ i \in Nat
  BY LenProperties
<1>2. T \in SUBSET Nat /\ Len(s) + 1 \in T
  BY <1>1
<1>3. a \in T /\ \A m \in T : a <= m
  <2> HIDE DEF T
  <2>1. Min(T) \in T /\ \A m \in T : Min(T) <= m
    BY <1>2, MinIsLeast
  <2>2. a = Min(T)
    BY DEF T, FieldEnd
  <2> QED BY <2>1, <2>2
<1> HIDE DEF a
<1>4. ASSUME NEW k \in i..(a - 1) PROVE s[k] # Separator
  <2>1. a \in Nat /\ a <= Len(s) + 1 /\ k \in i..(Len(s) + 1) /\ ~(a <= k)
    BY <1>1, <1>3
  <2>2. k \notin T
    BY <1>3, <2>1
  <2> QED BY <2>1, <2>2
<1> QED BY <1>3, <1>4 DEF a

\* Where the loop stands between two turns: at the ends of the text or at a
\* separator.
Between(s, i) == i \in 1..(Len(s) + 1) /\ (i \in {1, Len(s) + 1} \/ s[i] = Separator)

\* The fields that end before position i, and the rank of a field.
Before(s, i) == {iv \in Intervals(s) : iv[2] < i}
Rank(s, iv)  == Cardinality({jv \in Intervals(s) : jv[1] <= iv[1]})

LEMMA IntervalsFinite ==
  ASSUME NEW S, NEW s \in Seq(S)
  PROVE  /\ IsFiniteSet(Intervals(s))
         /\ \A i : IsFiniteSet(Before(s, i)) /\ Cardinality(Before(s, i)) \in Nat
<1>1. Len(s) \in Nat
  BY LenProperties
<1>2. IsFiniteSet((1..Len(s)) \X (1..Len(s)))
  <2>1. 1 \in Int /\ Len(s) \in Int
    BY <1>1
  <2>2. IsFiniteSet(1..Len(s))
    BY <2>1, FS_Interval
  <2> QED BY <2>2, FS_Product
<1>3. Intervals(s) \subseteq (1..Len(s)) \X (1..Len(s))
  BY DEF Intervals
<1>4. \A i : Before(s, i) \subseteq Intervals(s)
  BY DEF Before
<1>5. IsFiniteSet(Intervals(s))
  BY <1>2, <1>3, FS_Subset
<1> QED BY <1>4, <1>5, FS_Subset, FS_CardinalityType

\* A turn that finds no field has passed separators only.
LEMMA NoField ==
  ASSUME NEW S, NEW s \in Seq(S), NEW i \in 1..(Len(s) + 1), i # Len(s) + 1,
         FieldStart(s, i) = FieldEnd(s, FieldStart(s, i))
  PROVE  FieldStart(s, i) = Len(s) + 1 /\ Before(s, Len(s) + 1) = Before(s, i)
<1> DEFINE first == FieldStart(s, i)
<1>0. Len(s) \in Nat /\ i \in Nat
  BY LenProperties
<1>1. /\ first \in i..(Len(s) + 1) /\ (first = Len(s) + 1 \/ s[first] # Separator)
      /\ \A k \in i..(first - 1) : s[k] = Separator
  BY StartIsFound
<1>2. first \in 1..(Len(s) + 1)
  BY <1>0, <1>1
<1> HIDE DEF first
<1>3. FieldEnd(s, first) = Len(s) + 1 \/ s[FieldEnd(s, first)] = Separator
  BY <1>2, EndIsFound
<1>4. first = Len(s) + 1
  BY <1>1, <1>3 DEF first
<1>5. ASSUME NEW iv \in Intervals(s) PROVE iv[2] < i
  <2>1. iv[2] \in 1..Len(s) /\ s[iv[2]] # Separator
    BY <1>0 DEF Intervals
  <2> QED BY <1>0, <1>1, <1>4, <2>1
<1>6. \A iv \in Intervals(s) : iv[2] < Len(s) + 1
  BY <1>0 DEF Intervals
<1> QED BY <1>4, <1>5, <1>6 DEF Before, first

\* What a turn keeps is the next field, and its rank is the number of fields
\* found with it.
LEMMA NextField ==
  ASSUME NEW S, NEW s \in Seq(S), NEW i, Between(s, i), i # Len(s) + 1,
         NEW first, first = FieldStart(s, i), NEW end, end = FieldEnd(s, first), first # end
  PROVE  /\ <<first, end - 1>> \in Intervals(s) /\ ~(end - 1 < i)
         /\ {jv \in Intervals(s) : jv[1] <= first} = Before(s, end)
         /\ Before(s, end) = Before(s, i) \cup {<<first, end - 1>>}
<1>0. Len(s) \in Nat /\ i \in Nat /\ i \in 1..(Len(s) + 1)
  BY LenProperties DEF Between
<1>1. /\ first \in i..(Len(s) + 1) /\ (first = Len(s) + 1 \/ s[first] # Separator)
      /\ \A k \in i..(first - 1) : s[k] = Separator
  BY <1>0, StartIsFound
<1>2. first \in 1..(Len(s) + 1)
  BY <1>0, <1>1
<1>3. /\ end \in first..(Len(s) + 1) /\ (end = Len(s) + 1 \/ s[end] = Separator)
      /\ \A k \in first..(end - 1) : s[k] # Separator
  BY <1>2, EndIsFound
<1>4. /\ first \in Nat /\ end \in Nat /\ i <= first /\ first < end /\ end <= Len(s) + 1
      /\ 1 <= i /\ end - 1 \in Nat /\ first <= end - 1
  BY <1>0, <1>1, <1>2, <1>3
<1>5. first = 1 \/ s[first - 1] = Separator
  <2>1. CASE first = i
    BY <1>0, <1>1, <1>4, <2>1 DEF Between
  <2>2. CASE first # i
    <3>1. first - 1 \in i..(first - 1)
      BY <1>0, <1>4, <2>2
    <3> QED BY <1>1, <3>1
  <2> QED BY <2>1, <2>2
<1>6. <<first, end - 1>> \in Intervals(s)
  <2>1. first \in 1..Len(s) /\ end - 1 \in 1..Len(s)
    BY <1>0, <1>4
  <2>2. end - 1 = Len(s) \/ s[(end - 1) + 1] = Separator
    BY <1>3, <1>4
  <2> QED BY <1>3, <1>4, <1>5, <2>1, <2>2 DEF Intervals
<1>7. ASSUME NEW jv \in Intervals(s)
      PROVE  /\ jv[1] \in Nat /\ jv[2] \in Nat /\ jv[1] <= jv[2] /\ jv[2] <= Len(s) /\ 1 <= jv[1]
             /\ \A k \in jv[1]..jv[2] : s[k] # Separator
             /\ jv[1] = 1 \/ s[jv[1] - 1] = Separator
             /\ jv[2] = Len(s) \/ s[jv[2] + 1] = Separator
             /\ jv = <<jv[1], jv[2]>>
  BY <1>0, <1>7 DEF Intervals
<1>8. ASSUME NEW jv \in Intervals(s), jv[2] < end, ~(jv[2] < i)
      PROVE  jv = <<first, end - 1>>
  <2>0. /\ jv[1] \in Nat /\ jv[2] \in Nat /\ jv[1] <= jv[2] /\ jv[2] <= Len(s) /\ 1 <= jv[1]
        /\ s[jv[2]] # Separator
    BY <1>7
  <2>1. ~(jv[2] < first)
    <3>1. SUFFICES ASSUME jv[2] < first PROVE FALSE
      OBVIOUS
    <3>2. jv[2] \in i..(first - 1)
      BY <1>0, <1>4, <1>8, <2>0, <3>1
    <3> QED BY <1>1, <2>0, <3>2
  <2>2. jv[2] = end - 1
    <3>1. SUFFICES ASSUME jv[2] + 1 < end PROVE FALSE
      BY <1>4, <1>7, <1>8
    <3>2. jv[2] + 1 \in first..(end - 1) /\ jv[2] # Len(s)
      BY <1>0, <1>4, <1>7, <2>1, <3>1
    <3> QED BY <1>3, <1>7, <3>2
  <2>3. ~(jv[1] < first)
    <3>1. SUFFICES ASSUME jv[1] < first PROVE FALSE
      OBVIOUS
    <3>2. first - 1 \in jv[1]..jv[2] /\ first # 1
      BY <1>4, <1>7, <2>1, <3>1
    <3> QED BY <1>5, <1>7, <3>2
  <2>4. ~(first < jv[1])
    <3>1. SUFFICES ASSUME first < jv[1] PROVE FALSE
      OBVIOUS
    <3>2. jv[1] - 1 \in first..(end - 1) /\ jv[1] # 1
      BY <1>0, <1>4, <1>8, <2>0, <3>1
    <3> QED BY <1>3, <1>7, <3>2
  <2> QED BY <1>4, <1>7, <2>2, <2>3, <2>4
<1>9. Before(s, end) = Before(s, i) \cup {<<first, end - 1>>}
  <2>1. ASSUME NEW jv \in Before(s, i) PROVE jv \in Intervals(s) /\ jv[2] < end
    <3>1. jv \in Intervals(s) /\ jv[2] < i
      BY DEF Before
    <3>2. jv[2] \in Nat
      BY <1>7, <3>1
    <3> QED BY <1>0, <1>4, <3>1, <3>2
  <2>2. <<first, end - 1>> \in Before(s, end)
    BY <1>4, <1>6 DEF Before
  <2> QED BY <1>8, <2>1, <2>2 DEF Before
<1>10. ASSUME NEW jv \in Intervals(s) PROVE jv[1] <= first <=> jv[2] < end
  <2>1. ASSUME jv[1] <= first PROVE jv[2] < end
    <3>1. SUFFICES ASSUME end <= jv[2] PROVE FALSE
      BY <1>4, <1>7
    <3>2. end \in jv[1]..jv[2] /\ end # Len(s) + 1
      BY <1>0, <1>4, <1>7, <2>1, <3>1
    <3> QED BY <1>3, <1>7, <3>2
  <2>2. ASSUME jv[2] < end PROVE jv[1] <= first
    <3>1. CASE jv[2] < i
      BY <1>0, <1>4, <1>7, <3>1
    <3>2. CASE ~(jv[2] < i)
      BY <1>4, <1>8, <2>2, <3>2
    <3> QED BY <3>1, <3>2
  <2> QED BY <2>1, <2>2
<1> QED BY <1>0, <1>4, <1>6, <1>9, <1>10 DEF Before

-----------------------------------------------------------------------------
(* The loop                                                                 *)

\* Between two turns the result holds the fields before the position, each at
\* its rank.
LoopInv(S, s, state) ==
  /\ state \in [i : Nat, result : Seq(Seq(S))]
  /\ Between(s, state.i)
  /\ Len(state.result) = Cardinality(Before(s, state.i))
  /\ \A iv \in Before(s, state.i) :
       /\ Rank(s, iv) \in 1..Len(state.result)
       /\ state.result[Rank(s, iv)] = SubSeq(s, iv[1], iv[2])
  /\ \A n \in 1..Len(state.result) : \E iv \in Before(s, state.i) : Rank(s, iv) = n

LEMMA LoopBegins ==
  ASSUME NEW S, NEW s \in Seq(S)
  PROVE  LoopInv(S, s, Begin)
<1>1. Len(s) \in Nat
  BY LenProperties
<1>2. Before(s, 1) = {}
  BY <1>1 DEF Before, Intervals
<1>3. Cardinality({}) = 0
  BY FS_EmptySet
<1>4. Between(s, 1)
  BY <1>1 DEF Between
<1>5. Begin \in [i : Nat, result : Seq(Seq(S))] /\ Begin.i = 1 /\ Begin.result = <<>>
  <2>1. <<>> \in Seq(Seq(S))
    BY EmptySeq
  <2> QED BY <2>1 DEF Begin
<1>6. Len(<<>>) = 0 /\ 1..0 = {}
  BY EmptySeq
<1> QED BY <1>2, <1>3, <1>4, <1>5, <1>6 DEF LoopInv

\* A turn moves on and keeps the invariant.
LEMMA LoopTurns ==
  ASSUME NEW S, NEW s \in Seq(S), NEW state, LoopInv(S, s, state)
  PROVE  /\ LoopInv(S, s, Turn(s, state))
         /\ Turn(s, state).i = Len(s) + 1 \/ Turn(s, state).i > state.i
<1> DEFINE i == state.i
           result == state.result
           first == FieldStart(s, i)
           end == FieldEnd(s, first)
<1>0. /\ Len(s) \in Nat /\ i \in Nat /\ i \in 1..(Len(s) + 1) /\ Between(s, i)
      /\ result \in Seq(Seq(S)) /\ state \in [i : Nat, result : Seq(Seq(S))]
  BY LenProperties DEF LoopInv, Between
<1>1. CASE i = Len(s) + 1
  BY <1>1 DEF Turn
<1>2. CASE i # Len(s) + 1 /\ first = end
  <2>1. first = Len(s) + 1 /\ Before(s, Len(s) + 1) = Before(s, i)
    BY <1>0, <1>2, NoField
  <2>2. Turn(s, state) = [i |-> Len(s) + 1, result |-> result]
    BY <1>2, <2>1 DEF Turn
  <2>3. Between(s, Len(s) + 1)
    BY <1>0 DEF Between
  <2> DEFINE next == [i |-> Len(s) + 1, result |-> result]
  <2>4. next \in [i : Nat, result : Seq(Seq(S))] /\ next.i = Len(s) + 1 /\ next.result = result
    BY <1>0
  <2>5. LoopInv(S, s, next)
    <3> HIDE DEF next
    <3> QED BY <2>1, <2>3, <2>4 DEF LoopInv
  <2> QED BY <2>2, <2>4, <2>5
<1>3. CASE i # Len(s) + 1 /\ first # end
  <2> DEFINE field == SubSeq(s, first, end - 1)
             longer == Append(result, field)
             next == [i |-> end, result |-> longer]
             iv0 == <<first, end - 1>>
  <2>1. Turn(s, state) = next
    BY <1>3 DEF Turn
  <2>2. /\ iv0 \in Intervals(s) /\ ~(end - 1 < i)
        /\ {jv \in Intervals(s) : jv[1] <= first} = Before(s, end)
        /\ Before(s, end) = Before(s, i) \cup {iv0}
    BY <1>0, <1>3, NextField
  <2>3. first \in 1..(Len(s) + 1) /\ first \in i..(Len(s) + 1) /\ first \in Nat
    BY <1>0, StartIsFound
  <2>4. /\ end \in first..(Len(s) + 1) /\ end \in Nat
        /\ end = Len(s) + 1 \/ s[end] = Separator
    BY <1>0, <2>3, EndIsFound
  <2>5. Between(s, end) /\ end > i
    BY <1>0, <1>3, <2>3, <2>4 DEF Between
  <2>6. field \in Seq(S)
    <3>1. \A k \in 1..Len(s) : s[k] \in S
      BY ElementOfSeq
    <3>2. \A k \in first..(end - 1) : k \in 1..Len(s)
      BY <1>0, <2>3, <2>4
    <3> QED BY <1>0, <2>3, <2>4, <3>1, <3>2, SubSeqProperties
  <2>7. /\ longer \in Seq(Seq(S)) /\ Len(longer) = Len(result) + 1 /\ Len(result) \in Nat
        /\ \A k \in 1..Len(result) : longer[k] = result[k]
        /\ longer[Len(result) + 1] = field
    <3> HIDE DEF field, result
    <3>1. Len(result) \in Nat
      BY <1>0, LenProperties
    <3>2. result \in Seq(Seq(S))
      BY <1>0
    <3> QED BY <2>6, <3>1, <3>2, AppendProperties
  <2>8. iv0 \notin Before(s, i)
    BY <2>2 DEF Before
  <2>9. Cardinality(Before(s, end)) = Cardinality(Before(s, i)) + 1
    <3> HIDE DEF iv0, first, end
    <3>1. IsFiniteSet(Before(s, i))
      BY IntervalsFinite
    <3> QED BY <2>2, <2>8, <3>1, FS_AddElement
  <2>10. Len(longer) = Cardinality(Before(s, end)) /\ Len(result) = Cardinality(Before(s, i))
    BY <2>7, <2>9 DEF LoopInv
  <2>11. Rank(s, iv0) = Len(longer)
    <3>1. iv0[1] = first
      OBVIOUS
    <3> HIDE DEF iv0, first, end
    <3> QED BY <2>2, <2>10, <3>1 DEF Rank
  <2>12. longer[Rank(s, iv0)] = SubSeq(s, iv0[1], iv0[2])
    BY <2>7, <2>11
  <2>13. next \in [i : Nat, result : Seq(Seq(S))] /\ next.i = end /\ next.result = longer
    BY <2>4, <2>7
  <2> HIDE DEF iv0, next, longer, field, first, end
  <2>14. ASSUME NEW iv \in Before(s, end)
         PROVE  Rank(s, iv) \in 1..Len(longer) /\ longer[Rank(s, iv)] = SubSeq(s, iv[1], iv[2])
    <3>1. CASE iv = iv0
      BY <2>7, <2>11, <2>12, <3>1
    <3>2. CASE iv # iv0
      <4>1. Rank(s, iv) \in 1..Len(result) /\ result[Rank(s, iv)] = SubSeq(s, iv[1], iv[2])
        BY <2>2, <3>2 DEF LoopInv
      <4> DEFINE n == Rank(s, iv)
      <4>2. n \in 1..Len(result) /\ result[n] = SubSeq(s, iv[1], iv[2])
        BY <4>1
      <4> HIDE DEF n
      <4>3. longer[n] = result[n]
        BY <2>7, <4>2
      <4>4. \A m, l \in Nat : l = m + 1 => 1..m \subseteq 1..l
        OBVIOUS
      <4>5. Len(longer) \in Nat
        BY <2>7
      <4>6. 1..Len(result) \subseteq 1..Len(longer)
        BY <2>7, <4>4, <4>5
      <4> QED BY <4>2, <4>3, <4>6 DEF n
    <3> QED BY <3>1, <3>2
  <2>15. ASSUME NEW n \in 1..Len(longer) PROVE \E iv \in Before(s, end) : Rank(s, iv) = n
    <3>1. CASE n = Len(longer)
      BY <2>2, <2>11, <3>1
    <3>2. CASE n # Len(longer)
      <4>1. n \in 1..Len(result)
        BY <2>7, <3>2
      <4> QED BY <2>2, <4>1 DEF LoopInv
    <3> QED BY <3>1, <3>2
  <2>16. LoopInv(S, s, next)
    BY <2>5, <2>10, <2>13, <2>14, <2>15 DEF LoopInv
  <2> QED BY <2>1, <2>5, <2>13, <2>16
<1> QED BY <1>1, <1>2, <1>3

\* The invariant holds after every turn, and n turns pass n characters.
LEMMA LoopHolds ==
  ASSUME NEW S, NEW s \in Seq(S), NEW state,
         state = [n \in Nat |-> IF n = 0 THEN Begin ELSE Turn(s, state[n - 1])],
         NEW n \in Nat
  PROVE  LoopInv(S, s, state[n]) /\ (state[n].i = Len(s) + 1 \/ state[n].i > n)
<1> DEFINE Holds(k) == LoopInv(S, s, state[k]) /\ (state[k].i = Len(s) + 1 \/ state[k].i > k)
           T == {k \in Nat : ~Holds(k)}
<1> SUFFICES ASSUME T # {} PROVE FALSE
  OBVIOUS
<1>1. PICK k \in T : \A m \in T : k <= m
  <2>1. T \in SUBSET Nat
    OBVIOUS
  <2> HIDE DEF T
  <2> QED BY <2>1, Least
<1>2. CASE k = 0
  <2>1. state[0] = Begin
    OBVIOUS
  <2>2. LoopInv(S, s, state[0])
    BY <2>1, LoopBegins
  <2>3. state[0].i > 0
    BY <2>1 DEF Begin
  <2> QED BY <1>1, <1>2, <2>2, <2>3
<1>3. CASE k # 0
  <2>1. k \in Nat /\ k - 1 \in Nat /\ ~(k <= k - 1)
    BY <1>3
  <2>2. Holds(k - 1)
    BY <1>1, <2>1
  <2>3. state[k] = Turn(s, state[k - 1])
    BY <1>3, <2>1
  <2>4. /\ LoopInv(S, s, Turn(s, state[k - 1]))
        /\ \/ Turn(s, state[k - 1]).i = Len(s) + 1
           \/ Turn(s, state[k - 1]).i > state[k - 1].i
    BY <2>2, LoopTurns
  <2>5. state[k - 1].i \in Nat /\ state[k].i \in Nat /\ state[k - 1].i \in 1..(Len(s) + 1)
    BY <2>2, <2>3, <2>4 DEF LoopInv, Between
  <2>6. state[k].i \in 1..(Len(s) + 1) /\ Len(s) \in Nat
    BY <2>3, <2>4, LenProperties DEF LoopInv, Between
  <2>7. state[k].i = Len(s) + 1 \/ state[k].i > state[k - 1].i
    BY <2>3, <2>4
  <2>8. state[k].i = Len(s) + 1 \/ state[k].i > k
    BY <2>1, <2>2, <2>5, <2>6, <2>7
  <2> QED BY <1>1, <2>3, <2>4, <2>8
<1> QED BY <1>2, <1>3

-----------------------------------------------------------------------------
(* The theorem                                                              *)

\* split returns, for every text of whatever length and characters, its maximal
\* runs without a separator, in the order of their positions.
THEOREM SplitCorrect ==
  ASSUME NEW S, NEW s \in Seq(S)
  PROVE  Split(s) = Fields(s)
<1>1. PICK state : /\ state = [n \in Nat |-> IF n = 0 THEN Begin ELSE Turn(s, state[n - 1])]
                   /\ Split(s) = state[Len(s)].result
  BY SplitByTurns
<1>2. Len(s) \in Nat
  BY LenProperties
<1> DEFINE last == state[Len(s)]
           result == last.result
<1>3. LoopInv(S, s, last) /\ (last.i = Len(s) + 1 \/ last.i > Len(s))
  BY <1>1, <1>2, LoopHolds
<1> HIDE DEF last
<1>4. last.i = Len(s) + 1
  BY <1>2, <1>3 DEF LoopInv, Between
<1>5. Before(s, Len(s) + 1) = Intervals(s)
  BY <1>2 DEF Before, Intervals
<1>6. /\ result \in Seq(Seq(S)) /\ Len(result) = Cardinality(Intervals(s))
      /\ \A iv \in Intervals(s) : result[Rank(s, iv)] = SubSeq(s, iv[1], iv[2])
      /\ \A n \in 1..Len(result) : \E iv \in Intervals(s) : Rank(s, iv) = n
  BY <1>3, <1>4, <1>5 DEF LoopInv
<1>7. result = [n \in 1..Len(result) |-> result[n]]
  BY <1>6, LenProperties
<1> DEFINE field(n) == CHOOSE iv \in Intervals(s) : Rank(s, iv) = n
<1>8. ASSUME NEW n \in 1..Len(result)
      PROVE  result[n] = SubSeq(s, field(n)[1], field(n)[2])
  <2>1. field(n) \in Intervals(s) /\ Rank(s, field(n)) = n
    BY <1>6
  <2> HIDE DEF field
  <2> QED BY <1>6, <2>1
<1>9. Fields(s) = [n \in 1..Cardinality(Intervals(s)) |->
                     SubSeq(s, field(n)[1], field(n)[2])]
  BY DEF Fields, Rank
<1>10. result = Fields(s)
  <2> HIDE DEF field, result
  <2> QED BY <1>6, <1>7, <1>8, <1>9
<1> QED BY <1>1, <1>10 DEF last
==============================================================================
