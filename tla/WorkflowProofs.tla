--------------------------- MODULE WorkflowProofs ---------------------------
(***************************************************************************)
(* Proofs about module WorkflowExecution, for every workflow program,      *)
(* every set of events the service may report and every bound: the types   *)
(* of the service's record and of a decider's run, and that nothing        *)
(* follows the close of an execution.                                      *)
(*                                                                         *)
(* An invariant about the run has to survive each of the some twenty calls *)
(* of workflow code. The proofs go by what such a call can do to the rest  *)
(* of the run at all (CodeMoves): each call is shown to be one of its four *)
(* kinds, and everything else is shown of the four.                        *)
(***************************************************************************)
EXTENDS WorkflowExecution, SequenceTheorems, FiniteSetTheorems, WellFoundedInduction, TLAPS

-----------------------------------------------------------------------------
(* Sequences whose elements have no common type (handlers, acts, decisions,  *)
(* events), the filters that keep an order (SelectAt, the windows of a       *)
(* history), and the fields of an event.                                     *)

\* s is a sequence, whatever its elements are.
IsSeq(s) == s \in Seq(ToSet(s))

\* The length and the domain of a sequence; only the empty one has length 0.
LEMMA SeqFacts ==
    ASSUME NEW s, IsSeq(s)
    PROVE  /\ Len(s) \in Nat
           /\ DOMAIN s = 1..Len(s)
           /\ s = <<>> <=> Len(s) = 0
  BY LenProperties, EmptySeq DEF IsSeq

\* A sequence over any set is a sequence.
LEMMA SeqAny ==
    ASSUME NEW S, NEW s \in Seq(S)
    PROVE  IsSeq(s)
  <1>1. Len(s) \in Nat /\ s \in [1..Len(s) -> S]
    BY LenProperties
  <1>2. s \in [1..Len(s) -> ToSet(s)]
    BY <1>1 DEF ToSet
  <1> QED  BY <1>1, <1>2, SeqDef DEF IsSeq

\* The empty sequence, one element, two elements.
LEMMA SeqShort ==
    /\ IsSeq(<<>>) /\ Len(<<>>) = 0
    /\ \A e : IsSeq(<<e>>) /\ Len(<<e>>) = 1 /\ <<e>>[1] = e
    /\ \A d, e : /\ IsSeq(<<d, e>>) /\ Len(<<d, e>>) = 2
                 /\ <<d, e>>[1] = d /\ <<d, e>>[2] = e
  <1>1. <<>> \in Seq({})
    BY EmptySeq
  <1>2. \A e : <<e>> \in Seq({e})
    OBVIOUS
  <1>3. \A d, e : <<d, e>> \in Seq({d, e})
    OBVIOUS
  <1> QED  BY <1>1, <1>2, <1>3, SeqAny

\* A function on 1..n is a sequence of length n.
LEMMA SeqByFun ==
    ASSUME NEW s, NEW n \in Nat, s = [i \in 1..n |-> s[i]]
    PROVE  IsSeq(s) /\ Len(s) = n
  <1>1. s \in [1..n -> ToSet(s)]
    BY DEF ToSet
  <1>2. s \in Seq(ToSet(s))
    BY <1>1, SeqDef
  <1>3. Len(s) \in Nat /\ DOMAIN s = 1..Len(s)
    BY <1>2, LenProperties
  <1>4. 1..Len(s) = 1..n
    BY <1>1, <1>3
  <1>5. Len(s) = n
    BY <1>3, <1>4
  <1> QED  BY <1>2, <1>5 DEF IsSeq

\* Concatenation keeps the elements of both parts in their order.
LEMMA SeqConcat ==
    ASSUME NEW s, NEW t, IsSeq(s), IsSeq(t)
    PROVE  /\ IsSeq(s \o t)
           /\ Len(s \o t) = Len(s) + Len(t)
           /\ \A i \in 1..Len(s) : (s \o t)[i] = s[i]
           /\ \A i \in 1..Len(t) : (s \o t)[Len(s) + i] = t[i]
  <1> DEFINE S == ToSet(s) \cup ToSet(t)
  <1>1. s \in Seq(S) /\ t \in Seq(S)
    BY SeqMonotonic DEF IsSeq
  <1>2. Len(s) \in Nat /\ Len(t) \in Nat
    BY SeqFacts
  <1>3. /\ s \o t \in Seq(S)
        /\ Len(s \o t) = Len(s) + Len(t)
        /\ \A i \in 1 .. Len(s) + Len(t) : (s \o t)[i] =
              IF i <= Len(s) THEN s[i] ELSE t[i - Len(s)]
    BY <1>1, ConcatProperties
  <1> HIDE DEF S
  <1>4. \A i \in 1..Len(s) : (s \o t)[i] = s[i]
    BY <1>2, <1>3
  <1>5. ASSUME NEW i \in 1..Len(t) PROVE (s \o t)[Len(s) + i] = t[i]
    <2>1. Len(s) + i \in 1..Len(s) + Len(t) /\ ~(Len(s) + i <= Len(s)) /\ Len(s) + i - Len(s) = i
      BY <1>2
    <2> QED  BY <1>3, <2>1
  <1> QED  BY <1>3, <1>4, <1>5, SeqAny

\* Each element of a concatenation comes from one of its parts.
LEMMA ConcatParts ==
    ASSUME NEW s, NEW t, IsSeq(s), IsSeq(t), NEW i \in 1..Len(s \o t)
    PROVE  \/ i \in 1..Len(s) /\ (s \o t)[i] = s[i]
           \/ \E j \in 1..Len(t) : i = Len(s) + j /\ (s \o t)[i] = t[j]
  <1>1. Len(s) \in Nat /\ Len(t) \in Nat /\ Len(s \o t) = Len(s) + Len(t)
    BY SeqFacts, SeqConcat
  <1>2. CASE i <= Len(s)
    BY <1>1, <1>2, SeqConcat
  <1>3. CASE ~(i <= Len(s))
    <2>1. i - Len(s) \in 1..Len(t) /\ i = Len(s) + (i - Len(s))
      BY <1>1, <1>3
    <2>2. (s \o t)[i] = t[i - Len(s)]
      BY <2>1, SeqConcat
    <2> QED  BY <2>1, <2>2
  <1> QED  BY <1>2, <1>3

\* Append keeps what was there and adds the element behind it.
LEMMA SeqAppend ==
    ASSUME NEW s, NEW e, IsSeq(s)
    PROVE  /\ IsSeq(Append(s, e))
           /\ Len(Append(s, e)) = Len(s) + 1
           /\ \A i \in 1..Len(s) : Append(s, e)[i] = s[i]
           /\ Append(s, e)[Len(s) + 1] = e
  <1> DEFINE S == ToSet(s) \cup {e}
  <1>1. s \in Seq(S) /\ e \in S
    BY SeqMonotonic DEF IsSeq
  <1>2. /\ Append(s, e) \in Seq(S)
        /\ Len(Append(s, e)) = Len(s) + 1
        /\ \A i \in 1..Len(s) : Append(s, e)[i] = s[i]
        /\ Append(s, e)[Len(s) + 1] = e
    BY <1>1, AppendProperties
  <1> HIDE DEF S
  <1> QED  BY <1>2, SeqAny

\* The tail drops the first element and moves the others up.
LEMMA SeqTail ==
    ASSUME NEW s, IsSeq(s), s # <<>>
    PROVE  /\ Len(s) \in Nat \ {0}
           /\ Head(s) = s[1]
           /\ IsSeq(Tail(s))
           /\ Len(Tail(s)) = Len(s) - 1
           /\ \A i \in 1..Len(s) - 1 : Tail(s)[i] = s[i + 1]
  <1>1. /\ Tail(s) \in Seq(ToSet(s))
        /\ Len(Tail(s)) = Len(s) - 1
        /\ \A i \in 1..Len(Tail(s)) : Tail(s)[i] = s[i + 1]
    BY HeadTailProperties DEF IsSeq
  <1>2. Len(s) \in Nat \ {0}
    BY SeqFacts
  <1>3. IsSeq(Tail(s))
    BY <1>1, SeqAny
  <1>4. Head(s) = s[1]
    BY <1>2 DEF IsSeq
  <1> QED  BY <1>1, <1>2, <1>3, <1>4

\* A function with the domain of a sequence is a sequence of that length: an
\* EXCEPT on one.
LEMMA SeqExcept ==
    ASSUME NEW s, NEW t, IsSeq(s), DOMAIN t = DOMAIN s, t = [i \in DOMAIN t |-> t[i]]
    PROVE  IsSeq(t) /\ Len(t) = Len(s)
  <1>1. Len(s) \in Nat /\ t = [i \in 1..Len(s) |-> t[i]]
    BY SeqFacts
  <1> QED  BY <1>1, SeqByFun

\* The elements m + 1 to n of a sequence.
LEMMA SeqSub ==
    ASSUME NEW s, IsSeq(s), NEW m \in Nat, NEW n \in Nat, m <= n, n <= Len(s)
    PROVE  /\ IsSeq(SubSeq(s, m + 1, n))
           /\ Len(SubSeq(s, m + 1, n)) = n - m
           /\ \A i \in 1..n - m : SubSeq(s, m + 1, n)[i] = s[m + i]
  <1>1. \A i \in m + 1 .. n : s[i] \in ToSet(s)
    BY SeqFacts DEF ToSet
  <1>2. /\ SubSeq(s, m + 1, n) \in Seq(ToSet(s))
        /\ Len(SubSeq(s, m + 1, n)) = IF m + 1 <= n THEN n - (m + 1) + 1 ELSE 0
        /\ \A i \in 1 .. n - (m + 1) + 1 : SubSeq(s, m + 1, n)[i] = s[m + 1 + i - 1]
    BY <1>1, SubSeqProperties
  <1>3. IsSeq(SubSeq(s, m + 1, n))
    BY <1>2, SeqAny
  <1> QED  BY <1>2, <1>3

-----------------------------------------------------------------------------

\* A set of naturals that is not empty has its minimum.
LEMMA MinOfNaturals ==
    ASSUME NEW T, T \subseteq Nat, T # {}
    PROVE  Min(T) \in T /\ \A y \in T : Min(T) <= y
  <1> DEFINE R == {ss \in Nat \X Nat : ss[1] < ss[2]}
  <1>1. \A a, b \in Nat : a < b => <<a, b>> \in R
    OBVIOUS
  <1>2. IsWellFoundedOn(R, Nat)
    BY NatLessThanWellFounded DEF OpToRel
  <1> HIDE DEF R
  <1>3. PICK x \in T : \A y \in T : ~(<<y, x>> \in R)
    BY <1>2, WFMin
  <1>4. \A y \in T : x <= y
    <2> TAKE y \in T
    <2>1. x \in Nat /\ y \in Nat /\ ~(y < x)
      BY <1>1, <1>3
    <2> QED  BY <2>1
  <1> QED  BY <1>4 DEF Min

\* A bounded set of naturals that is not empty has its maximum.
LEMMA MaxOfNaturals ==
    ASSUME NEW T, NEW n \in Nat, T \subseteq 0..n, T # {}
    PROVE  Max(T) \in T /\ \A y \in T : y <= Max(T)
  <1> DEFINE D == {n - y : y \in T}
  <1>1. \A y \in T : y \in 0..n
    OBVIOUS
  <1>2. D \subseteq Nat
    BY <1>1
  <1>3. D # {}
    OBVIOUS
  <1>4. PICK x \in T : Min(D) = n - x
    BY <1>2, <1>3, MinOfNaturals
  <1>5. \A y \in T : Min(D) <= n - y
    BY <1>2, <1>3, MinOfNaturals
  <1>6. \A y \in T : x >= y
    BY <1>1, <1>4, <1>5
  <1> QED  BY <1>6 DEF Max

\* A window takes at least one event.
LEMMA WindowAdvances ==
    ASSUME NEW h, IsSeq(h), NEW from \in Nat, from < Len(h)
    PROVE  WindowEnd(h, from) \in from + 1 .. Len(h)
  <1> DEFINE completed == {i \in from + 1 .. Len(h) : h[i].type = "DecisionTaskCompleted"}
             stop == IF completed = {} THEN Len(h) ELSE Min(completed)
             T == {i \in stop .. Len(h) : \A j \in stop + 1 .. i : command(h[j])}
  <1>1. Len(h) \in Nat
    BY SeqFacts
  <1>2. stop \in from + 1 .. Len(h)
    <2>1. completed \subseteq Nat
      BY <1>1
    <2>2. CASE completed = {}
      BY <1>1, <2>2
    <2>3. CASE completed # {}
      BY <1>1, <2>1, <2>3, MinOfNaturals
    <2> QED  BY <2>2, <2>3
  <1> HIDE DEF stop
  <1>3. stop \in T /\ T \subseteq 0..Len(h) /\ T \subseteq stop .. Len(h)
    BY <1>1, <1>2
  <1> HIDE DEF T
  <1>4. Max(T) \in T
    BY <1>1, <1>3, MaxOfNaturals
  <1>5. WindowEnd(h, from) = Max(T)
    BY Zenon DEF WindowEnd, T, stop
  <1>6. Max(T) \in stop .. Len(h)
    BY <1>3, <1>4
  <1> QED  BY <1>1, <1>2, <1>5, <1>6

\* What SelectAt keeps: the elements at the positions P, in their order.
LEMMA SelectAtKeeps ==
    ASSUME NEW s, NEW n \in Nat, NEW P, P \subseteq 1..n
    PROVE  /\ IsSeq(SelectAt(s, P))
           /\ Len(SelectAt(s, P)) = Cardinality(P)
           /\ \A k \in 1..Cardinality(P) : /\ Nth(P, k) \in P
                                           /\ SelectAt(s, P)[k] = s[Nth(P, k)]
           /\ \A k, l \in 1..Cardinality(P) : k < l => Nth(P, k) < Nth(P, l)
           /\ \A i \in P : \E k \in 1..Cardinality(P) : Nth(P, k) = i
  <1> DEFINE UpTo(i) == {j \in P : j <= i}
             Rank(i) == Cardinality(UpTo(i))
             N == Cardinality(P)
  <1>0. \A i \in P : i \in Nat /\ 1 <= i /\ i <= n
    OBVIOUS
  <1>1. IsFiniteSet(P) /\ N \in Nat
    <2>1. IsFiniteSet(1..n) /\ P \in SUBSET (1..n)
      BY FS_Interval
    <2> QED  BY <2>1, FS_Subset, FS_CardinalityType
  <1>2. \A i : IsFiniteSet(UpTo(i)) /\ Rank(i) \in Nat /\ Rank(i) <= N
    <2> TAKE i
    <2>1. UpTo(i) \in SUBSET P
      OBVIOUS
    <2> QED  BY <1>1, <2>1, FS_Subset, FS_CardinalityType
  <1>3. \A i \in P : Rank(i) \in 1..N
    <2> TAKE i \in P
    <2>1. UpTo(i) # {}
      OBVIOUS
    <2>2. Rank(i) # 0
      BY <1>2, <2>1, FS_EmptySet
    <2> QED  BY <1>1, <1>2, <2>2
  <1>4. \A i, j \in P : i < j => Rank(i) < Rank(j)
    <2> SUFFICES ASSUME NEW i \in P, NEW j \in P, i < j PROVE Rank(i) < Rank(j)
      OBVIOUS
    <2>0. i \in Nat /\ j \in Nat /\ j <= j /\ ~(j <= i) /\ \A a \in P : a <= i => a <= j
      BY <1>0
    <2>1. UpTo(i) \in SUBSET UpTo(j) /\ j \in UpTo(j) /\ j \notin UpTo(i)
      BY <2>0, Zenon
    <2>2. Rank(i) <= Rank(j) /\ Rank(i) # Rank(j)
      BY <1>2, <2>1, FS_Subset
    <2> QED  BY <1>2, <2>2
  <1>5. \A k \in 1..N : \E i \in P : Rank(i) = k
    <2> TAKE k \in 1..N
    <2> DEFINE T == {i \in 0..n : Rank(i) >= k}
    <2>0. \A a \in P : a <= n /\ ~(a <= 0)
      BY <1>0
    <2>1. UpTo(n) = P /\ UpTo(0) = {}
      BY <2>0, Zenon
    <2>2. Rank(n) = N /\ Rank(0) = 0
      BY <2>1, FS_EmptySet
    <2>3. n \in T
      BY <1>1, <2>2
    <2> DEFINE x == Min(T)
    <2>4. x \in T /\ \A y \in T : x <= y
      <3> HIDE DEF x
      <3>1. T \subseteq Nat
        OBVIOUS
      <3> QED  BY <2>3, <3>1, MinOfNaturals DEF x
    <2> HIDE DEF x
    <2>5. x \in 1..n
      BY <1>1, <2>2, <2>4
    <2>6. x - 1 \in 0..n /\ ~(x <= x - 1)
      BY <2>5
    <2>7. Rank(x - 1) < k /\ Rank(x) >= k
      <3>1. x - 1 \notin T
        BY <2>4, <2>5, <2>6
      <3>2. Rank(x - 1) \in Nat /\ ~(Rank(x - 1) >= k)
        BY <1>2, <2>6, <3>1
      <3> QED  BY <1>1, <2>4, <3>2
    <2>8. x \in P
      <3>1. SUFFICES ASSUME x \notin P PROVE FALSE
        OBVIOUS
      <3>0. \A a \in P : a # x
        BY <3>1
      <3>2. UpTo(x) = UpTo(x - 1)
        <4>1. \A a \in P : a <= x <=> a <= x - 1
          BY <1>0, <2>5, <3>0
        <4> QED  BY <4>1, Zenon
      <3>3. Rank(x) = Rank(x - 1) /\ Rank(x) \in Nat
        BY <1>2, <3>2
      <3> HIDE DEF Rank
      <3> QED  BY <1>1, <2>7, <3>3
    <2>9. UpTo(x) = UpTo(x - 1) \cup {x} /\ x \notin UpTo(x - 1)
      <3>1. ~(x <= x - 1) /\ x <= x /\ \A a \in P : a <= x <=> (a <= x - 1 \/ a = x)
        BY <1>0, <2>5, <2>8
      <3> QED  BY <2>8, <3>1, Zenon
    <2>10. Rank(x) = Rank(x - 1) + 1
      BY <1>2, <2>9, FS_AddElement
    <2>11. Rank(x) = k
      BY <1>1, <1>2, <2>7, <2>10
    <2> QED  BY <2>8, <2>11
  <1> HIDE DEF UpTo, Rank, N
  <1>6. \A k \in 1..N : Nth(P, k) \in P /\ Rank(Nth(P, k)) = k
    BY <1>5 DEF Nth, Rank, UpTo
  <1>8. \A k \in 1..N : SelectAt(s, P)[k] = s[Nth(P, k)]
    BY DEF SelectAt, N
  <1>9. SelectAt(s, P) = [k \in 1..N |-> SelectAt(s, P)[k]]
    BY DEF SelectAt, N
  <1>10. IsSeq(SelectAt(s, P)) /\ Len(SelectAt(s, P)) = N
    BY <1>1, <1>9, SeqByFun
  <1>11. \A k, l \in 1..N : k < l => Nth(P, k) < Nth(P, l)
    <2> SUFFICES ASSUME NEW k \in 1..N, NEW l \in 1..N, k < l PROVE Nth(P, k) < Nth(P, l)
      OBVIOUS
    <2>1. Nth(P, k) \in P /\ Nth(P, l) \in P /\ Rank(Nth(P, k)) = k /\ Rank(Nth(P, l)) = l
      BY <1>6
    <2>2. ~(Nth(P, l) < Nth(P, k)) /\ Nth(P, l) # Nth(P, k)
      <3>1. ~(l < k) /\ l # k
        OBVIOUS
      <3> QED  BY <1>4, <2>1, <3>1, Zenon
    <2>3. Nth(P, k) \in Nat /\ Nth(P, l) \in Nat
      BY <1>0, <2>1
    <2> QED  BY <2>2, <2>3
  <1>12. \A i \in P : \E k \in 1..N : Nth(P, k) = i
    <2> TAKE i \in P
    <2>1. Rank(i) \in 1..N
      BY <1>3
    <2>2. Nth(P, Rank(i)) \in P /\ Rank(Nth(P, Rank(i))) = Rank(i)
      BY <1>6, <2>1
    <2>3. Nth(P, Rank(i)) = i
      <3>1. ~(Rank(i) < Rank(i))
        BY <1>1, <2>1
      <3>2. ~(Nth(P, Rank(i)) < i) /\ ~(i < Nth(P, Rank(i)))
        BY <1>4, <2>2, <3>1, Zenon
      <3>3. Nth(P, Rank(i)) \in Nat /\ i \in Nat
        BY <1>0, <2>2
      <3> QED  BY <3>2, <3>3
    <2> QED  BY <2>1, <2>3
  <1> QED  BY <1>6, <1>8, <1>10, <1>11, <1>12 DEF N

\* Each element that SelectAt keeps is one of the sequence, at another position
\* for another element.
LEMMA SelectAtFrom ==
    ASSUME NEW s, IsSeq(s), NEW P, P \subseteq 1..Len(s)
    PROVE  /\ IsSeq(SelectAt(s, P))
           /\ \A k \in 1..Len(SelectAt(s, P)) : \E i \in P : SelectAt(s, P)[k] = s[i] /\ i = Nth(P, k)
           /\ \A k, l \in 1..Len(SelectAt(s, P)) : Nth(P, k) = Nth(P, l) => k = l
           /\ P = {} => SelectAt(s, P) = <<>>
  <1> DEFINE t == SelectAt(s, P)
             N == Cardinality(P)
             n == Len(s)
  <1>1. n \in Nat /\ P \subseteq 1..n
    BY SeqFacts
  <1> HIDE DEF n
  <1>2. IsSeq(t) /\ Len(t) = N
    BY <1>1, SelectAtKeeps
  <1>3. \A k \in 1..N : Nth(P, k) \in P /\ t[k] = s[Nth(P, k)]
    <2>1. \A k \in 1..N : Nth(P, k) \in P
      BY <1>1, SelectAtKeeps
    <2>2. \A k \in 1..N : t[k] = s[Nth(P, k)]
      BY DEF SelectAt
    <2> QED  BY <2>1, <2>2
  <1>4. \A k, l \in 1..N : k < l => Nth(P, k) < Nth(P, l)
    BY <1>1, SelectAtKeeps
  <1>5. N \in Nat
    BY <1>2, SeqFacts
  <1>6. P = {} => N = 0
    BY FS_EmptySet
  <1> HIDE DEF t, N
  <1>7. P = {} => t = <<>>
    BY <1>2, <1>6, SeqFacts
  <1>8. ASSUME NEW k \in 1..N, NEW l \in 1..N, Nth(P, k) = Nth(P, l) PROVE k = l
    <2> DEFINE x == Nth(P, k)
    <2>1. x \in P /\ Nth(P, l) = x
      BY <1>3, <1>8
    <2> HIDE DEF x
    <2>2. x \in Nat
      BY <1>1, <2>1
    <2>3. ~(x < x)
      BY <2>2
    <2>4. ~(k < l) /\ ~(l < k)
      BY <1>4, <2>1, <2>3 DEF x
    <2> QED  BY <1>5, <2>4
  <1>9. \A k \in 1..Len(t) : \E i \in P : t[k] = s[i] /\ i = Nth(P, k)
    BY <1>2, <1>3
  <1>10. \A k, l \in 1..Len(t) : Nth(P, k) = Nth(P, l) => k = l
    BY <1>2, <1>8
  <1> QED  BY <1>2, <1>7, <1>9, <1>10 DEF t

-----------------------------------------------------------------------------

\* The fields of an event of a history.
EventFields == {"type", "ref", "key", "what", "id"}

\* A sequence of events.
Events(s) == IsSeq(s) /\ \A i \in 1..Len(s) : DOMAIN s[i] = EventFields

\* The same event, but for its id.
SameEvent(a, b) ==
    a.type = b.type /\ a.ref = b.ref /\ a.key = b.key /\ a.what = b.what

\* What the constructor of events makes has these fields, with the values it
\* was given.
LEMMA EventIsEvent ==
    ASSUME NEW type, NEW ref, NEW key, NEW what
    PROVE  /\ DOMAIN Event(type, ref, key, what) = EventFields
           /\ Event(type, ref, key, what).type = type
           /\ Event(type, ref, key, what).ref = ref
           /\ Event(type, ref, key, what).key = key
  BY DEF Event, EventFields

\* Recorded appends the events, and gives each its position for an id.
LEMMA RecordedEvents ==
    ASSUME NEW h, NEW events, Events(h), Events(events)
    PROVE  /\ Events(Recorded(h, events))
           /\ Len(Recorded(h, events)) = Len(h) + Len(events)
           /\ \A i \in 1..Len(h) : Recorded(h, events)[i] = h[i]
           /\ \A i \in 1..Len(events) :
                /\ Recorded(h, events)[Len(h) + i].id = Len(h) + i
                /\ SameEvent(Recorded(h, events)[Len(h) + i], events[i])
  <1> DEFINE r == [i \in 1..Len(events) |-> [events[i] EXCEPT !.id = Len(h) + i]]
  <1>1. IsSeq(h) /\ IsSeq(events) /\ Len(h) \in Nat /\ Len(events) \in Nat
    BY SeqFacts DEF Events
  <1>2. IsSeq(r) /\ Len(r) = Len(events)
    BY <1>1, SeqByFun
  <1>3. \A i \in 1..Len(events) : DOMAIN r[i] = EventFields /\ r[i].id = Len(h) + i
                                    /\ SameEvent(r[i], events[i])
    BY DEF Events, EventFields, SameEvent
  <1> HIDE DEF r
  <1>4. /\ IsSeq(h \o r) /\ Len(h \o r) = Len(h) + Len(r)
        /\ \A i \in 1..Len(h) : (h \o r)[i] = h[i]
        /\ \A i \in 1..Len(r) : (h \o r)[Len(h) + i] = r[i]
    BY <1>1, <1>2, SeqConcat
  <1>5. \A i \in 1..Len(h \o r) : DOMAIN (h \o r)[i] = EventFields
    BY <1>1, <1>2, <1>3, ConcatParts DEF Events
  <1>6. Recorded(h, events) = h \o r
    BY DEF Recorded, r
  <1> QED  BY <1>2, <1>3, <1>4, <1>5, <1>6 DEF Events

\* Two sequences of events make one.
LEMMA EventsConcat ==
    ASSUME NEW s, NEW t, Events(s), Events(t)
    PROVE  Events(s \o t)
  BY ConcatParts, SeqConcat DEF Events

\* What a window replays: events of the history behind `from`, each once.
LEMMA WindowEvents ==
    ASSUME NEW h, Events(h), \A i \in 1..Len(h) : h[i].id = i,
           NEW from \in Nat, from < Len(h)
    PROVE  LET t == Ordered(next_window(h, from))
           IN  /\ Events(t)
               /\ \A k \in 1..Len(t) : /\ t[k].id \in from + 1 .. WindowEnd(h, from)
                                        /\ t[k] = h[t[k].id]
               /\ \A k, l \in 1..Len(t) : t[k].id = t[l].id => k = l
  <1> DEFINE to == WindowEnd(h, from)
             part == SubSeq(h, from + 1, to)
             n == Len(part)
             Of(types) == {i \in 1..n : part[i].type \in types}
             P == Of({"MarkerRecorded"})
             Q == 1..n \ (Of(DecisionTaskTypes) \cup P)
             p == SelectAt(part, P)
             q == SelectAt(part, Q)
  <1>1. IsSeq(h) /\ Len(h) \in Nat /\ to \in from + 1 .. Len(h)
    BY SeqFacts, WindowAdvances DEF Events
  <1>2. Ordered(next_window(h, from)) = p \o q
    BY DEF Ordered, next_window
  <1> HIDE DEF to
  <1>3. IsSeq(part) /\ n = to - from /\ \A i \in 1..n : part[i] = h[from + i]
    BY <1>1, SeqSub
  <1>4. n \in Nat /\ \A i \in 1..n : from + i \in from + 1 .. to /\ from + i \in 1..Len(h)
    BY <1>1, <1>3
  <1> HIDE DEF part, n
  <1>5. P \subseteq 1..n /\ Q \subseteq 1..n /\ P \cap Q = {}
    OBVIOUS
  <1> HIDE DEF P, Q
  <1>6. \A i \in 1..n : part[i].id = from + i /\ part[i].id \in from + 1 .. to
                          /\ part[i] = h[part[i].id] /\ DOMAIN part[i] = EventFields
    BY <1>3, <1>4 DEF Events
  <1>7. \A i, j \in 1..n : part[i].id = part[j].id => i = j
    BY <1>4, <1>6
  <1>8. ASSUME NEW S, S \subseteq 1..n
        PROVE  LET s == SelectAt(part, S)
               IN  /\ IsSeq(s)
                   /\ \A k \in 1..Len(s) : \E i \in S : s[k] = part[i]
                   /\ \A k, l \in 1..Len(s) : s[k].id = s[l].id => k = l
    <2> DEFINE s == SelectAt(part, S)
               N == Cardinality(S)
    <2>1. IsSeq(s) /\ Len(s) = N
      BY <1>4, <1>8, SelectAtKeeps
    <2>2. \A k \in 1..N : Nth(S, k) \in S /\ s[k] = part[Nth(S, k)]
      BY <1>4, <1>8, SelectAtKeeps
    <2>3. \A k, l \in 1..N : k < l => Nth(S, k) < Nth(S, l)
      BY <1>4, <1>8, SelectAtKeeps
    <2>4. N \in Nat
      BY <2>1, SeqFacts
    <2> HIDE DEF s, N
    <2>5. ASSUME NEW k \in 1..N, NEW l \in 1..N, s[k].id = s[l].id PROVE k = l
      <3>1. Nth(S, k) \in 1..n /\ Nth(S, l) \in 1..n
        BY <1>8, <2>2
      <3>2. Nth(S, k) = Nth(S, l)
        BY <1>7, <2>2, <2>5, <3>1
      <3>3. ~(k < l) /\ ~(l < k)
        BY <1>4, <2>3, <3>1, <3>2
      <3> QED  BY <2>4, <3>3
    <2>6. \A k \in 1..Len(s) : \E i \in S : s[k] = part[i]
      BY <2>1, <2>2
    <2> QED  BY <2>1, <2>5, <2>6 DEF s
  <1>9. /\ IsSeq(p)
        /\ \A k \in 1..Len(p) : \E i \in P : p[k] = part[i]
        /\ \A k, l \in 1..Len(p) : p[k].id = p[l].id => k = l
    BY <1>5, <1>8
  <1>10. /\ IsSeq(q)
         /\ \A k \in 1..Len(q) : \E i \in Q : q[k] = part[i]
         /\ \A k, l \in 1..Len(q) : q[k].id = q[l].id => k = l
    BY <1>5, <1>8
  <1> HIDE DEF p, q, Of
  <1> DEFINE t == p \o q
  <1>11. IsSeq(t) /\ Len(p) \in Nat /\ Len(q) \in Nat
    BY <1>9, <1>10, SeqFacts, SeqConcat
  <1>12. \A k \in 1..Len(t) : \/ k \in 1..Len(p) /\ t[k] = p[k]
                              \/ \E j \in 1..Len(q) : k = Len(p) + j /\ t[k] = q[j]
    BY <1>9, <1>10, ConcatParts
  <1> HIDE DEF t
  <1>13. \A k \in 1..Len(t) : \E i \in 1..n : t[k] = part[i]
    <2>1. /\ \A k \in 1..Len(p) : \E i \in 1..n : p[k] = part[i]
          /\ \A k \in 1..Len(q) : \E i \in 1..n : q[k] = part[i]
      BY <1>5, <1>9, <1>10
    <2> QED  BY <1>12, <2>1
  <1>14. \A i \in P : \A j \in Q : part[i].id # part[j].id
    BY <1>5, <1>7
  <1>15. ASSUME NEW k \in 1..Len(t), NEW l \in 1..Len(t), t[k].id = t[l].id PROVE k = l
    <2>1. CASE k \in 1..Len(p) /\ t[k] = p[k]
      <3>1. CASE l \in 1..Len(p) /\ t[l] = p[l]
        BY <1>9, <1>15, <2>1, <3>1
      <3>2. CASE \E j \in 1..Len(q) : l = Len(p) + j /\ t[l] = q[j]
        BY <1>9, <1>10, <1>14, <1>15, <2>1, <3>2
      <3> QED  BY <1>12, <3>1, <3>2
    <2>2. CASE \E i \in 1..Len(q) : k = Len(p) + i /\ t[k] = q[i]
      <3>1. CASE l \in 1..Len(p) /\ t[l] = p[l]
        BY <1>9, <1>10, <1>14, <1>15, <2>2, <3>1
      <3>2. CASE \E j \in 1..Len(q) : l = Len(p) + j /\ t[l] = q[j]
        BY <1>10, <1>15, <2>2, <3>2
      <3> QED  BY <1>12, <3>1, <3>2
    <2> QED  BY <1>12, <2>1, <2>2
  <1>16. Events(t) /\ \A k \in 1..Len(t) : t[k].id \in from + 1 .. to /\ t[k] = h[t[k].id]
    BY <1>6, <1>11, <1>13, SMTT(30) DEF Events
  <1> QED  BY <1>2, <1>15, <1>16 DEF to, t

-----------------------------------------------------------------------------
(* What the parts of a run are made of.                                      *)

\* The events that close an execution.
CloseTypes == {"WorkflowExecutionCompleted", "WorkflowExecutionFailed"}

\* The fields of a state manager, a decision, a stack frame and a future.
ManagerFields == {"decisions", "marker_ids", "releases", "side_effects", "tracker",
                  "last_event_id", "local_time", "replay"}
DecisionFields == {"id", "type", "key", "what"}
FrameFields == {"block", "pc", "rescues", "compensations"}
FutureFields == {"target", "cancelation_id", "state", "callbacks"}

\* A decision of one of the types the processor can serialize.
IsDecision(d) == DOMAIN d = DecisionFields /\ d.type \in DecisionTypes

\* The decisions of a run: a closing one is the last.
ManagerOK ==
    /\ DOMAIN sm = ManagerFields
    /\ IsSeq(sm.decisions)
    /\ \A i \in 1..Len(sm.decisions) : IsDecision(sm.decisions[i])
    /\ \A i \in 1..Len(sm.decisions) - 1 : ~Closing(sm.decisions[i])

\* A block of workflow code under way, with the compensations of its saga.
IsFrame(f) == DOMAIN f = FrameFields /\ IsSeq(f.compensations)

\* The stack of a fiber that is not over: no saga surrounds its first block.
IsStack(stack) ==
    /\ IsSeq(stack)
    /\ stack # <<>>
    /\ \A i \in 1..Len(stack) : IsFrame(stack[i])
    /\ stack[Len(stack)].rescues = {}

\* A fiber of the run; the stack of one that is over is empty.
IsFiber(fiber) == DOMAIN fiber = {"stack", "main"} /\ (fiber.stack = <<>> \/ IsStack(fiber.stack))

\* The fibers of the run; the running one is not over.
FibersOK ==
    /\ IsSeq(fibers)
    /\ \A i \in 1..Len(fibers) : IsFiber(fibers[i])
    /\ current # 0 => IsStack(fibers[current].stack)

\* A future for an activity, a timer or a child workflow.
IsFuture(f) ==
    /\ DOMAIN f = FutureFields
    /\ IsSeq(f.callbacks)
    /\ f.target.type \in {"activity", "timer", "child_workflow"}
    /\ f.state \in {"pending", "ready", "failed"}

\* The futures of the run.
FuturesOK ==
    /\ IsSeq(futures)
    /\ \A f \in 1..Len(futures) : IsFuture(futures[f])

\* What a handler does, it does to futures and fibers there are.
IsAct(act, fiberCount, futureCount) ==
    /\ act.kind \in {"set", "fail", "resume"} => act.future \in 1..futureCount
    /\ act.kind = "resume" => act.fiber \in 1..fiberCount

\* The handlers of the dispatcher refer to fibers and futures that exist.
HandlersOK ==
    /\ IsSeq(handlers)
    /\ \A i \in 1..Len(handlers) : IsAct(handlers[i].act, Len(fibers), Len(futures))

\* So do the handlers that the event under way has still to call.
AgendaOK ==
    /\ IsSeq(agenda)
    /\ \A i \in 1..Len(agenda) : IsAct(agenda[i], Len(fibers), Len(futures))

\* The progress of the run: the windows are read in order, and what is left of
\* the current one are events of the snapshot, each of them once.
RunType ==
    /\ phase \in Phases
    /\ cursor \in 0..Len(snapshot)
    /\ current \in 0..Len(fibers)
    /\ (phase = "fiber") <=> (current # 0)
    /\ slots \in [Slots -> 0..Len(futures)]
    /\ Events(snapshot) /\ \A i \in 1..Len(snapshot) : snapshot[i].id = i
    /\ Events(todo)
    /\ \A k \in 1..Len(todo) : todo[k].id \in 1..cursor /\ todo[k] = snapshot[todo[k].id]
    /\ \A k, l \in 1..Len(todo) : todo[k].id = todo[l].id => k = l

\* What holds of a decider's run between any two steps.
RunInv == RunType /\ ManagerOK /\ FibersOK /\ FuturesOK /\ HandlersOK /\ AgendaOK

-----------------------------------------------------------------------------
(* What a step of workflow code can do to the rest of the run.               *)

\* The running fiber has another stack.
Restacked(stack) == fibers' = [fibers EXCEPT ![current].stack = stack]

\* The decisions that are commands; the others record a marker, or close the
\* workflow.
CommandTypes == {"ScheduleActivity", "StartTimer", "StartChildWorkflow",
                 "RequestActivityCancellation", "CancelTimer"}

\* Code is told nothing, or something that is no command.
Listens == seen' = seen \/ \E x : x[1] \notin CommandTypes /\ seen' = Append(seen, x)

\* No decision is scheduled; one that is refused has used up an id.
Refrains ==
    /\ sm'.decisions = sm.decisions
    /\ \/ sm'.last_event_id = sm.last_event_id
       \/ ~CanAppend(sm) /\ sm'.last_event_id = NextDecisionId(sm)
    /\ Listens

\* What a call that raises leaves of the state manager: all of it, or what
\* schedule has changed before it refuses a decision.
Leaves(left) ==
    \/ left = sm
    \/ /\ ~CanAppend(sm)
       /\ DOMAIN left = ManagerFields
       /\ left.decisions = sm.decisions /\ left.last_event_id = NextDecisionId(sm)
       /\ left.marker_ids = sm.marker_ids /\ left.replay = sm.replay

\* The decision d is scheduled under the next id, and code is told of a command.
Takes(d) ==
    /\ CanAppend(sm) /\ IsDecision(d)
    /\ d.id = NextDecisionId(sm) /\ sm'.last_event_id = d.id
    /\ sm'.decisions = Append(sm.decisions, d)
    /\ IF d.type \in CommandTypes THEN seen' = Append(seen, <<d.type, d.id>>) ELSE Listens

\* A decision was scheduled, or none; calls of the code leave the window alone.
Decides ==
    /\ DOMAIN sm' = ManagerFields
    /\ sm'.marker_ids = sm.marker_ids /\ sm'.replay = sm.replay
    /\ Refrains \/ \E d : Takes(d)

\* The call leaves futures, handlers and variables of the program alone.
KeepsObjects == UNCHANGED <<handlers, futures, slots>>

\* The handlers that resolve a new future.
Resolving(target, f, names) ==
    << Handler(target, names[1], Act("set", f, 0, "")),
       Handler(target, names[2], Act("fail", f, 0, "")) >>

\* The names of the dispatches that resolve the future of a decision.
ResolveNames == [
    ScheduleActivity |-> <<"completed", "failed">>,
    StartTimer |-> <<"fired", "canceled">>,
    StartChildWorkflow |-> <<"completed", "failed">> ]

\* The call schedules a decision, and creates its future and the handlers that
\* will resolve it.
CreatesFuture ==
    \E d : Takes(d) /\ d.type \in DOMAIN ResolveNames /\ \E made :
        /\ IsFuture(made) /\ made.state = "pending" /\ made.target = from_decision(d)
        /\ futures' = Append(futures, made)
        /\ handlers' = handlers \o Resolving(made.target, Len(futures) + 1, ResolveNames[d.type])
        /\ slots' \in [Slots -> 0..Len(futures) + 1]

\* The call registers a handler for signals.
HandlesSignal ==
    /\ \E block : handlers' = Append(handlers, Handler(WorkflowTarget, "signaled",
                                                      Act("call", 0, 0, block)))
    /\ UNCHANGED <<futures, slots>>

\* The call gives an open future one more callback.
AddsCallback ==
    /\ \E f \in 1..Len(futures) : \E block :
         /\ futures[f].state = "pending"
         /\ futures' = [futures EXCEPT ![f].callbacks = Append(@, block)]
    /\ UNCHANGED <<handlers, slots>>

\* The call returns, and the fiber goes on.
Continues ==
    /\ UNCHANGED <<phase, current, error>>
    /\ \E stack : IsStack(stack) /\ Restacked(stack)
    /\ Decides
    /\ KeepsObjects \/ CreatesFuture \/ HandlesSignal \/ AddsCallback

\* It waits for a future that is open.
Parks ==
    /\ phase' = "apply" /\ current' = 0
    /\ \E stack : IsStack(stack) /\ Restacked(stack)
    /\ \E f \in 1..Len(futures) :
         /\ futures[f].state = "pending"
         /\ handlers' = Append(handlers, Handler(futures[f].target, WILDCARD,
                                                 Act("resume", f, current, "")))
    /\ UNCHANGED <<error, sm, futures, slots, seen>>

\* The fiber is over.
Ends ==
    /\ phase' = "apply" /\ current' = 0
    /\ Restacked(<<>>)
    /\ Decides
    /\ KeepsObjects
    /\ UNCHANGED error

\* The run is over with an error.
Aborts ==
    /\ phase' = "failed" /\ current' = 0
    /\ error' \in Errors
    /\ KeepsObjects
    /\ UNCHANGED <<fibers, sm, seen>>

\* All that a step of workflow code can do to the run.
CodeMoves ==
    /\ phase = "fiber"
    /\ Continues \/ Parks \/ Ends \/ Aborts
    /\ UNCHANGED <<snapshot, cursor, todo, agenda>>

\* Blocks on top of a stack.
LEMMA StackGrows ==
    ASSUME NEW top, IsSeq(top), \A i \in 1..Len(top) : IsFrame(top[i]),
           NEW stack, IsStack(stack)
    PROVE  IsStack(top \o stack)
  <1>1. /\ IsSeq(stack) /\ Len(stack) \in Nat \ {0} /\ Len(top) \in Nat
        /\ stack[Len(stack)].rescues = {} /\ Len(stack) \in 1..Len(stack)
    BY SeqFacts DEF IsStack
  <1>2. IsSeq(top \o stack) /\ Len(top \o stack) = Len(top) + Len(stack)
        /\ (top \o stack)[Len(top) + Len(stack)] = stack[Len(stack)]
    BY <1>1, SeqConcat
  <1>3. \A i \in 1..Len(top \o stack) : IsFrame((top \o stack)[i])
    BY <1>1, ConcatParts DEF IsStack
  <1>4. top \o stack # <<>>
    BY <1>1, <1>2, SeqFacts
  <1> QED  BY <1>1, <1>2, <1>3, <1>4 DEF IsStack

\* Blocks off its top.
LEMMA StackShrinks ==
    ASSUME NEW stack, IsStack(stack), NEW i \in Nat, i < Len(stack)
    PROVE  IsStack(SubSeq(stack, i + 1, Len(stack)))
  <1> DEFINE rest == SubSeq(stack, i + 1, Len(stack))
             n == Len(stack)
  <1>1. IsSeq(stack) /\ n \in Nat /\ stack[n].rescues = {}
    BY SeqFacts DEF IsStack
  <1>2. IsSeq(rest) /\ Len(rest) = n - i /\ \A j \in 1..n - i : rest[j] = stack[i + j]
    BY <1>1, SeqSub
  <1>3. \A j \in 1..n - i : i + j \in 1..n
    BY <1>1
  <1>4. n - i \in 1..n - i /\ i + (n - i) = n
    BY <1>1
  <1> HIDE DEF rest, n
  <1>5. \A j \in 1..Len(rest) : IsFrame(rest[j])
    BY <1>2, <1>3 DEF IsStack, n
  <1>6. rest[Len(rest)].rescues = {}
    BY <1>1, <1>2, <1>4
  <1>7. rest # <<>>
    BY <1>1, <1>2, <1>4, SeqFacts
  <1>8. IsStack(rest)
    BY <1>2, <1>5, <1>6, <1>7 DEF IsStack
  <1> QED  BY <1>8 DEF rest, n

\* The stack without its innermost block is a stack, if another block is left.
LEMMA StackPops ==
    ASSUME NEW stack, IsStack(stack), Len(stack) > 1
    PROVE  IsStack(Tail(stack))
  <1>1. Tail(stack) = SubSeq(stack, 1 + 1, Len(stack))
    BY TailIsSubSeq DEF IsStack, IsSeq
  <1> QED  BY <1>1, StackShrinks

\* Another frame in the place of the top one.
LEMMA StackTop ==
    ASSUME NEW stack, IsStack(stack), NEW top, IsFrame(top), top.rescues = Head(stack).rescues
    PROVE  IsStack(<<top>> \o Tail(stack))
  <1>1. /\ Len(stack) \in Nat \ {0} /\ Head(stack) = stack[1]
        /\ IsSeq(Tail(stack)) /\ Len(Tail(stack)) = Len(stack) - 1
    BY SeqTail DEF IsStack
  <1>2. IsSeq(<<top>>) /\ Len(<<top>>) = 1 /\ <<top>>[1] = top
    BY SeqShort
  <1>3. CASE Len(stack) = 1
    <2>1. Tail(stack) = <<>>
      <3>1. Len(Tail(stack)) = 0
        BY <1>1, <1>3
      <3> QED  BY <1>1, <3>1, SeqFacts, Zenon
    <2>2. <<top>> \o Tail(stack) = <<top>>
      <3>1. <<top>> \in Seq({top})
        OBVIOUS
      <3>2. <<top>> \o <<>> = <<top>>
        BY <3>1, ConcatEmptySeq
      <3> QED  BY <2>1, <3>2
    <2>3. stack[Len(stack)].rescues = {}
      BY DEF IsStack
    <2>4. top.rescues = {}
      BY <1>1, <1>3, <2>3
    <2>5. <<top>> # <<>>
      BY <1>2, SeqFacts
    <2>6. \A i \in 1..1 : IsFrame(<<top>>[i])
      BY <1>2
    <2>7. <<top>>[1].rescues = {}
      BY <1>2, <2>4
    <2>8. IsStack(<<top>>)
      BY <1>2, <2>5, <2>6, <2>7 DEF IsStack
    <2> QED  BY <2>2, <2>8
  <1>4. CASE Len(stack) # 1
    <2>1. IsStack(Tail(stack))
      BY <1>1, <1>4, StackPops
    <2>2. \A i \in 1..1 : IsFrame(<<top>>[i])
      BY <1>2
    <2> QED  BY <1>2, <2>1, <2>2, StackGrows
  <1> QED  BY <1>3, <1>4

\* When workflow code runs, its fiber has a stack and a block under way.
LEMMA Running ==
    ASSUME RunInv, phase = "fiber"
    PROVE  /\ current \in 1..Len(fibers) /\ current \in DOMAIN fibers /\ current # 0
           /\ DOMAIN fibers[current] = {"stack", "main"}
           /\ IsStack(Stack) /\ IsFrame(Frame) /\ Len(Stack) \in Nat \ {0}
           /\ Frame = Stack[1]
  <1>1. current \in 1..Len(fibers) /\ IsStack(Stack) /\ IsFiber(fibers[current])
    BY SeqFacts DEF RunInv, RunType, FibersOK, Stack
  <1>2. current \in DOMAIN fibers
    BY <1>1, SeqFacts DEF RunInv, FibersOK
  <1>3. Len(Stack) \in Nat \ {0} /\ Frame = Stack[1]
    BY <1>1, SeqTail DEF IsStack, Frame
  <1>4. IsFrame(Frame)
    BY <1>1, <1>3 DEF IsStack
  <1>5. current # 0
    BY <1>1
  <1> QED  BY <1>1, <1>2, <1>3, <1>4, <1>5 DEF IsFiber

\* Code goes on with its next instruction.
LEMMA StackAdvances ==
    ASSUME RunInv, phase = "fiber", NEW skip
    PROVE  \E stack : /\ IsStack(stack)
                      /\ Advanced(skip) = [fibers EXCEPT ![current].stack = stack]
                      /\ Advanced(skip)[current].stack = stack
  <1> DEFINE top == [Frame EXCEPT !.pc = @ + 1 + skip]
             stack == <<top>> \o Tail(Stack)
  <1>1. IsFrame(top) /\ top.rescues = Head(Stack).rescues
    BY Running DEF IsFrame, FrameFields, Frame
  <1> HIDE DEF top
  <1>2. IsStack(stack)
    BY <1>1, Running, StackTop
  <1>3. Advanced(skip) = [fibers EXCEPT ![current].stack = stack]
    BY Zenon DEF Advanced, top
  <1> HIDE DEF stack
  <1>4. Advanced(skip)[current].stack = stack
    BY <1>3, Running
  <1> QED  BY <1>2, <1>3, <1>4

\* The state manager appends the decision it is given under its next id.
LEMMA ScheduleAppends ==
    ASSUME NEW m, DOMAIN m = ManagerFields, NEW d, IsDecision(d)
    PROVE  /\ DOMAIN schedule(m, d) = ManagerFields
           /\ schedule(m, d).decisions = Append(m.decisions, Keyed(d, NextDecisionId(m)))
           /\ schedule(m, d).last_event_id = NextDecisionId(m)
           /\ schedule(m, d).marker_ids = m.marker_ids /\ schedule(m, d).replay = m.replay
           /\ IsDecision(Keyed(d, NextDecisionId(m)))
           /\ Keyed(d, NextDecisionId(m)).type = d.type
           /\ Keyed(d, NextDecisionId(m)).id = NextDecisionId(m)
  <1> DEFINE id == NextDecisionId(m)
  <1>1. /\ DOMAIN schedule(m, d) = ManagerFields
        /\ schedule(m, d).decisions = Append(m.decisions, Keyed(d, id))
        /\ schedule(m, d).last_event_id = id
        /\ schedule(m, d).marker_ids = m.marker_ids /\ schedule(m, d).replay = m.replay
    BY DEF schedule, Reserve, ManagerFields
  <1> HIDE DEF id
  <1>2. IsDecision(Keyed(d, id)) /\ Keyed(d, id).type = d.type /\ Keyed(d, id).id = id
    BY DEF Keyed, IsDecision, DecisionFields
  <1> QED  BY <1>1, <1>2 DEF id

\* What the constructor of decisions makes is one.
LEMMA DecisionIsDecision ==
    ASSUME NEW type \in DecisionTypes, NEW key, NEW what
    PROVE  IsDecision(Decision(type, key, what)) /\ Decision(type, key, what).type = type
  BY DEF Decision, IsDecision, DecisionFields

\* The decision that Scheduled names is the one appended.
LEMMA ScheduledIs ==
    ASSUME RunInv, NEW d, IsDecision(d)
    PROVE  /\ Scheduled(d) = Keyed(d, NextDecisionId(sm))
           /\ Scheduled(d).id = NextDecisionId(sm) /\ Scheduled(d).type = d.type
  <1> DEFINE k == Keyed(d, NextDecisionId(sm))
  <1>1. DOMAIN sm = ManagerFields /\ IsSeq(sm.decisions)
    BY DEF RunInv, ManagerOK
  <1>2. /\ schedule(sm, d).decisions = Append(sm.decisions, k)
        /\ k.id = NextDecisionId(sm) /\ k.type = d.type
    BY <1>1, ScheduleAppends
  <1> HIDE DEF k
  <1>3. /\ Len(Append(sm.decisions, k)) = Len(sm.decisions) + 1
        /\ Append(sm.decisions, k)[Len(sm.decisions) + 1] = k
    BY <1>1, SeqAppend, Zenon
  <1>4. Scheduled(d) = k
    BY <1>2, <1>3, Zenon DEF Scheduled, Last
  <1> QED  BY <1>2, <1>4 DEF k

\* A decision scheduled while the run may append is taken.
LEMMA ScheduleDecides ==
    ASSUME RunInv, NEW d, IsDecision(d), CanAppend(sm), sm' = schedule(sm, d),
           IF d.type \in CommandTypes THEN seen' = Append(seen, <<d.type, Scheduled(d).id>>)
                                      ELSE Listens
    PROVE  Takes(Scheduled(d)) /\ Decides
  <1>1. DOMAIN sm = ManagerFields
    BY DEF RunInv, ManagerOK
  <1>2. /\ Scheduled(d) = Keyed(d, NextDecisionId(sm))
        /\ Scheduled(d).id = NextDecisionId(sm) /\ Scheduled(d).type = d.type
    BY ScheduledIs
  <1>3. Takes(Scheduled(d))
    BY <1>1, <1>2, ScheduleAppends DEF Takes
  <1> QED  BY <1>1, <1>3, ScheduleAppends DEF Decides

\* What code is told under a name that is no command's.
LEMMA SeeListens ==
    ASSUME NEW what, NEW value, See(what, value), what \notin CommandTypes
    PROVE  Listens
  <1>1. <<what, value>>[1] = what
    OBVIOUS
  <1> QED  BY <1>1 DEF See, Listens

\* So does leaving the state manager alone.
LEMMA SameDecides ==
    ASSUME RunInv, sm' = sm, Listens
    PROVE  Decides
  BY DEF Decides, Refrains, RunInv, ManagerOK

\* So does a call that raises.
LEMMA LeavesDecides ==
    ASSUME RunInv, NEW left, Leaves(left), sm' = left, Listens
    PROVE  Decides
  <1>1. CASE left = sm
    BY <1>1, SameDecides
  <1>2. CASE left # sm
    BY <1>2 DEF Leaves, Decides, Refrains
  <1> QED  BY <1>1, <1>2

\* A state manager that refuses a decision has used up an id for it.
LEMMA ReserveLeaves ==
    ASSUME RunInv, ~CanAppend(sm)
    PROVE  /\ Leaves(Reserve(sm))
           /\ \A release : Leaves(track_release_refused(sm, release))
  <1>1. DOMAIN sm = ManagerFields
    BY DEF RunInv, ManagerOK
  <1>2. \A m : DOMAIN m = ManagerFields =>
           /\ DOMAIN Reserve(m) = ManagerFields
           /\ Reserve(m).decisions = m.decisions /\ Reserve(m).last_event_id = NextDecisionId(m)
           /\ Reserve(m).marker_ids = m.marker_ids /\ Reserve(m).replay = m.replay
    BY DEF Reserve, ManagerFields
  <1>3. ASSUME NEW release
        PROVE  Leaves(track_release_refused(sm, release))
    <2> DEFINE m == RememberRelease(sm, release, TRUE)
    <2>1. /\ DOMAIN m = ManagerFields
          /\ m.decisions = sm.decisions /\ m.last_event_id = sm.last_event_id
          /\ m.marker_ids = sm.marker_ids /\ m.replay = sm.replay
      BY <1>1 DEF RememberRelease, ManagerFields
    <2> HIDE DEF m
    <2>2. NextDecisionId(m) = NextDecisionId(sm)
      BY <2>1 DEF NextDecisionId
    <2>3. track_release_refused(sm, release) = Reserve(m)
      BY DEF track_release_refused, m
    <2> QED  BY <1>2, <2>1, <2>2, <2>3 DEF Leaves
  <1> QED  BY <1>1, <1>2, <1>3 DEF Leaves

\* An error raised in workflow code: it is rescued by a saga, ends the fiber or
\* ends the run.
LEMMA RaiseMoves ==
    ASSUME RunInv, phase = "fiber", NEW kind \in Errors, NEW left, Leaves(left),
           Raise(kind, left)
    PROVE  CodeMoves
  <1>1. CASE Rescuing(kind) # {}
    <2> DEFINE i == Min(Rescuing(kind))
               undo == RollBackOrder(Stack[i].compensations)
               undoing == [j \in 1..Len(undo) |-> NewFrame(undo[j], {})]
               rest == SubSeq(Stack, i + 1, Len(Stack))
    <2>1. Rescuing(kind) \subseteq 1..Len(Stack) /\ Rescuing(kind) \subseteq Nat
      BY Running DEF Rescuing
    <2>2. i \in Rescuing(kind)
      BY <1>1, <2>1, MinOfNaturals
    <2> HIDE DEF i
    <2>3. i \in 1..Len(Stack) /\ kind \in Stack[i].rescues
      BY <2>2 DEF Rescuing
    <2>4. i # Len(Stack)
      BY <2>3, Running DEF IsStack
    <2>5. IsStack(rest)
      BY <2>3, <2>4, Running, StackShrinks
    <2>6. IsSeq(undo)
      <3>1. IsSeq(Stack[i].compensations)
        BY <2>3, Running DEF IsStack, IsFrame
      <3>2. Len(Stack[i].compensations) \in Nat
        BY <3>1, SeqFacts
      <3>3. undo = [j \in 1..Len(Stack[i].compensations) |-> undo[j]]
        BY DEF RollBackOrder, Reverse
      <3> QED  BY <3>2, <3>3, SeqByFun
    <2>7. Len(undo) \in Nat
      BY <2>6, SeqFacts
    <2> HIDE DEF undo
    <2>8. IsSeq(undoing) /\ Len(undoing) = Len(undo)
      BY <2>7, SeqByFun
    <2>9. \A j \in 1..Len(undoing) : IsFrame(undoing[j])
      BY <2>8, SeqShort DEF NewFrame, IsFrame, FrameFields
    <2>10. IsStack(undoing \o rest)
      BY <2>5, <2>8, <2>9, StackGrows
    <2>11. Compensate(i, kind, left)
      BY <1>1 DEF Raise, i
    <2>12. Restacked(undoing \o rest)
      BY <2>11 DEF Compensate, Restacked, undo, Stack
    <2>13. /\ sm' = left
           /\ UNCHANGED <<phase, error, snapshot, cursor, todo, handlers, agenda, futures,
                          slots, current>>
      BY <2>11 DEF Compensate
    <2>15. Listens
      <3>1. See("rolled_back", kind) /\ "rolled_back" \notin CommandTypes
        BY <2>11 DEF Compensate, CommandTypes
      <3> QED  BY <3>1, SeeListens
    <2> HIDE DEF undoing, rest
    <2>14. Continues
      BY <2>10, <2>12, <2>13, <2>15, LeavesDecides DEF Continues, KeepsObjects
    <2> QED  BY <2>13, <2>14 DEF CodeMoves
  <1>2. CASE Rescuing(kind) = {} /\ fibers[current].main /\ CanAppend(sm)
    <2> DEFINE d == Decision("FailWorkflow", Nil, kind)
    <2>1. /\ sm' = schedule(sm, d)
          /\ fibers' = [fibers EXCEPT ![current].stack = <<>>]
          /\ Yield
          /\ UNCHANGED <<error, snapshot, cursor, todo, handlers, agenda, futures, slots, seen>>
      BY <1>2 DEF Raise, Leaves
    <2>2. IsDecision(d) /\ d.type \notin CommandTypes /\ Listens
      BY <2>1, DecisionIsDecision DEF DecisionTypes, DECISION_TARGET_TYPES, CommandTypes, Listens
    <2> HIDE DEF d
    <2>3. Decides
      BY <1>2, <2>1, <2>2, ScheduleDecides
    <2>4. Ends
      BY <2>1, <2>3 DEF Ends, Yield, Restacked, KeepsObjects
    <2> QED  BY <2>1, <2>4 DEF CodeMoves
  <1>3. CASE Rescuing(kind) = {} /\ ~(fibers[current].main /\ CanAppend(sm))
    <2>1. \E k \in Errors : Abort(k)
      BY <1>3 DEF Raise, Errors
    <2>2. Aborts /\ UNCHANGED <<snapshot, cursor, todo, agenda>>
      BY <2>1 DEF Abort, Aborts, KeepsObjects
    <2> QED  BY <2>2 DEF CodeMoves
  <1> QED  BY <1>1, <1>2, <1>3

\* Code goes on, with no new object.
LEMMA AdvanceMoves ==
    ASSUME RunInv, phase = "fiber", NEW skip, Advance(skip), Decides,
           UNCHANGED <<phase, error, snapshot, cursor, todo, handlers, agenda, futures, slots,
                       current>>
    PROVE  CodeMoves
  <1>1. PICK stack : IsStack(stack) /\ Advanced(skip) = [fibers EXCEPT ![current].stack = stack]
    BY StackAdvances
  <1>2. Restacked(stack)
    BY <1>1 DEF Advance, Restacked
  <1> QED  BY <1>1, <1>2 DEF CodeMoves, Continues, KeepsObjects

\* A call that schedules a decision and waits for nothing.
LEMMA RequestMoves ==
    ASSUME RunInv, phase = "fiber", NEW d, IsDecision(d), ScheduleRequest(d)
    PROVE  CodeMoves
  <1>1. CASE CanAppend(sm)
    <2>1. /\ sm' = schedule(sm, d)
          /\ Advance(0)
          /\ seen' = Append(seen, <<d.type, Scheduled(d).id>>)
          /\ UNCHANGED <<phase, error, snapshot, cursor, todo, handlers, agenda, futures, slots,
                         current>>
      BY <1>1 DEF ScheduleRequest, ScheduleDecision, See
    <2>2. Decides
      <3>1. d.type \notin CommandTypes => Listens
        BY <2>1, SeeListens DEF See
      <3> QED  BY <1>1, <2>1, <3>1, ScheduleDecides
    <2> QED  BY <2>1, <2>2, AdvanceMoves
  <1>2. CASE ~CanAppend(sm)
    <2>1. Raise("already_completing", Reserve(sm)) /\ "already_completing" \in Errors
      BY <1>2 DEF ScheduleRequest, ScheduleDecision, Errors
    <2> QED  BY <1>2, <2>1, ReserveLeaves, RaiseMoves
  <1> QED  BY <1>1, <1>2

\* A call that does nothing but return.
LEMMA PassOverMoves ==
    ASSUME RunInv, phase = "fiber", PassOver
    PROVE  CodeMoves
  <1>1. sm' = sm /\ Advance(0) /\ Listens
        /\ UNCHANGED <<phase, error, snapshot, cursor, todo, handlers, agenda, futures, slots,
                       current>>
    BY DEF PassOver, Listens
  <1> QED  BY <1>1, SameDecides, AdvanceMoves

\* A call that schedules a decision and returns a future for it.
LEMMA FutureMoves ==
    ASSUME RunInv, phase = "fiber", NEW d, IsDecision(d),
           d.type \in {"ScheduleActivity", "StartTimer", "StartChildWorkflow"},
           NEW resolves, NEW fails, <<resolves, fails>> = ResolveNames[d.type],
           ScheduleFuture(d, resolves, fails)
    PROVE  CodeMoves
  <1> DEFINE made == Scheduled(d)
             target == from_decision(made)
             f == Len(futures) + 1
             new == [ target |-> target, cancelation_id |-> made.key, state |-> "pending",
                      callbacks |-> <<>> ]
  <1>1. CASE CanAppend(sm)
    <2>1. /\ sm' = schedule(sm, d)
          /\ futures' = Append(futures, new)
          /\ slots' = [slots EXCEPT ![Current.slot] = f]
          /\ handlers' = handlers \o << Handler(target, resolves, Act("set", f, 0, "")),
                                        Handler(target, fails, Act("fail", f, 0, "")) >>
          /\ Advance(0)
          /\ seen' = Append(seen, <<d.type, Scheduled(d).id>>)
          /\ UNCHANGED <<phase, error, snapshot, cursor, todo, agenda, current>>
      BY <1>1 DEF ScheduleFuture, ScheduleDecision, See
    <2>2. d.type \in CommandTypes /\ d.type \in DOMAIN ResolveNames
      BY DEF CommandTypes, ResolveNames
    <2>3. Takes(made) /\ Decides
      BY <1>1, <2>1, <2>2, ScheduleDecides
    <2>4. made.type = d.type
      BY ScheduledIs
    <2> HIDE DEF made
    <2>5. target.type \in {"activity", "timer", "child_workflow"}
      BY <2>4 DEF from_decision, Target, DECISION_TARGET_TYPES
    <2> HIDE DEF target
    <2>6. IsFuture(new) /\ new.state = "pending" /\ new.target = target
      BY <2>5, SeqShort DEF IsFuture, FutureFields
    <2>11. target = from_decision(made)
      BY DEF target
    <2> HIDE DEF new
    <2>7. slots' \in [Slots -> 0..Len(futures) + 1]
      <3>1. Len(futures) \in Nat /\ slots \in [Slots -> 0..Len(futures)]
        BY SeqFacts DEF RunInv, RunType, FuturesOK
      <3>2. ASSUME NEW i PROVE [slots EXCEPT ![i] = f] \in [Slots -> 0..Len(futures) + 1]
        <4>1. f \in 0..Len(futures) + 1 /\ 0..Len(futures) \subseteq 0..Len(futures) + 1
          BY <3>1
        <4> HIDE DEF f
        <4> QED  BY <3>1, <4>1
      <3> QED  BY <2>1, <3>2
    <2>8. handlers' = handlers \o Resolving(new.target, f, ResolveNames[made.type])
      <3>1. handlers' = handlers \o Resolving(new.target, f, <<resolves, fails>>)
        BY <2>1, <2>6 DEF Resolving
      <3> QED  BY <2>4, <3>1
    <2>9. CreatesFuture
      BY <2>1, <2>2, <2>3, <2>4, <2>6, <2>7, <2>8, <2>11 DEF CreatesFuture
    <2>10. \E stack : IsStack(stack) /\ Restacked(stack)
      BY <2>1, StackAdvances DEF Advance, Restacked
    <2> QED  BY <2>1, <2>3, <2>9, <2>10 DEF CodeMoves, Continues
  <1>2. CASE ~CanAppend(sm)
    <2>1. Raise("already_completing", Reserve(sm)) /\ "already_completing" \in Errors
      BY <1>2 DEF ScheduleFuture, ScheduleDecision, Errors
    <2> QED  BY <1>2, <2>1, ReserveLeaves, RaiseMoves
  <1> QED  BY <1>1, <1>2

\* A call pushes a block.
LEMMA PushMoves ==
    ASSUME RunInv, phase = "fiber", NEW block, NEW rescues,
           fibers' = [fibers EXCEPT ![current].stack =
                        <<NewFrame(block, rescues)>> \o Advanced(0)[current].stack],
           Listens,
           UNCHANGED <<phase, error, snapshot, cursor, todo, sm, handlers, agenda, futures,
                       slots, current>>
    PROVE  CodeMoves
  <1> DEFINE top == <<NewFrame(block, rescues)>>
  <1>1. PICK stack : IsStack(stack) /\ Advanced(0)[current].stack = stack
    BY StackAdvances
  <1>2. IsSeq(top) /\ \A i \in 1..Len(top) : IsFrame(top[i])
    <2>1. IsFrame(NewFrame(block, rescues))
      BY SeqShort DEF NewFrame, IsFrame, FrameFields
    <2> QED  BY <2>1, SeqShort
  <1> HIDE DEF top
  <1>3. IsStack(top \o stack)
    BY <1>1, <1>2, StackGrows
  <1>4. Restacked(top \o stack)
    BY <1>1 DEF Restacked, top
  <1> QED  BY <1>3, <1>4, SameDecides DEF CodeMoves, Continues, KeepsObjects

\* The calls of the context that do not block.
LEMMA CallsMove ==
    ASSUME RunInv,
           ExecuteActivity \/ ExecuteWorkflow \/ StartTimer \/ Cancel \/ CancelById \/ Read
             \/ Check \/ NilFuture \/ Now \/ CompleteCall \/ FailCall \/ RaiseCall
    PROVE  CodeMoves
  <1> USE DEF DecisionTypes, DECISION_TARGET_TYPES
  <1>1. CASE ExecuteActivity
    <2> DEFINE d == Decision("ScheduleActivity", Current.key, Current.what)
    <2>1. phase = "fiber" /\ ScheduleFuture(d, "completed", "failed")
      BY <1>1 DEF ExecuteActivity, At
    <2>2. IsDecision(d) /\ d.type = "ScheduleActivity"
      BY DecisionIsDecision
    <2> QED  BY <2>1, <2>2, FutureMoves DEF ResolveNames
  <1>2. CASE ExecuteWorkflow
    <2> DEFINE d == Decision("StartChildWorkflow", Uuid, Current.what)
    <2>1. phase = "fiber" /\ ScheduleFuture(d, "completed", "failed")
      BY <1>2 DEF ExecuteWorkflow, At
    <2>2. IsDecision(d) /\ d.type = "StartChildWorkflow"
      BY DecisionIsDecision
    <2> QED  BY <2>1, <2>2, FutureMoves DEF ResolveNames
  <1>3. CASE StartTimer
    <2> DEFINE d == Decision("StartTimer", Current.key, Current.what)
    <2>1. phase = "fiber" /\ ScheduleFuture(d, "fired", "canceled")
      BY <1>3 DEF StartTimer, At
    <2>2. IsDecision(d) /\ d.type = "StartTimer"
      BY DecisionIsDecision
    <2> QED  BY <2>1, <2>2, FutureMoves DEF ResolveNames
  <1>4. IsDecision(Request(Future))
    BY DecisionIsDecision DEF Request
  <1>5. CASE Cancel
    <2>1. phase = "fiber" /\ "not_cancelable" \in Errors
      BY <1>5 DEF Cancel, At, Errors
    <2>2. PassOver \/ Raise("not_cancelable", sm) \/ ScheduleRequest(Request(Future))
      BY <1>5 DEF Cancel
    <2> QED  BY <1>4, <2>1, <2>2, PassOverMoves, RaiseMoves, RequestMoves DEF Leaves
  <1>6. CASE CancelById
    <2>1. phase = "fiber" /\ ScheduleRequest(Request(Future))
      BY <1>6 DEF CancelById, At
    <2> QED  BY <1>4, <2>1, RequestMoves
  <1>7. CASE Read \/ Now
    <2>1. /\ phase = "fiber" /\ Advance(0) /\ sm' = sm
          /\ UNCHANGED <<phase, error, snapshot, cursor, todo, handlers, agenda, futures, slots,
                         current>>
      BY <1>7 DEF Read, Now, At
    <2>2. \E what \in {"read", "now"} : \E value : See(what, value)
      BY <1>7 DEF Read, Now
    <2>3. Listens
      <3>1. \A what \in {"read", "now"} : what \notin CommandTypes
        BY DEF CommandTypes
      <3> QED  BY <2>2, <3>1, SeeListens
    <2> QED  BY <2>1, <2>3, SameDecides, AdvanceMoves
  <1>8. CASE Check
    <2>1. phase = "fiber" /\ "activity_error" \in Errors
      BY <1>8 DEF Check, At, Errors
    <2>2. PassOver \/ Raise("activity_error", sm)
      BY <1>8 DEF Check
    <2> QED  BY <2>1, <2>2, PassOverMoves, RaiseMoves DEF Leaves
  <1>9. CASE NilFuture \/ RaiseCall
    <2>1. phase = "fiber" /\ "user_error" \in Errors /\ Raise("user_error", sm)
      BY <1>9 DEF NilFuture, RaiseCall, At, Errors
    <2> QED  BY <2>1, RaiseMoves DEF Leaves
  <1>10. CASE CompleteCall
    <2>1. phase = "fiber" /\ ScheduleRequest(Decision("CompleteWorkflow", Nil, "result"))
      BY <1>10 DEF CompleteCall, At
    <2> QED  BY <2>1, DecisionIsDecision, RequestMoves
  <1>11. CASE FailCall
    <2>1. phase = "fiber" /\ ScheduleRequest(Decision("FailWorkflow", Nil, "reason"))
      BY <1>11 DEF FailCall, At
    <2> QED  BY <2>1, DecisionIsDecision, RequestMoves
  <1> QED  BY <1>1, <1>2, <1>3, <1>5, <1>6, <1>7, <1>8, <1>9, <1>10, <1>11

\* A wait for a future: it returns at once, parks the fiber or fails.
LEMMA WaitMoves ==
    ASSUME RunInv, Wait
    PROVE  CodeMoves
  <1>1. phase = "fiber" /\ Future \in 1..Len(futures)
    BY DEF Wait, At, HoldsFuture
  <1>2. CASE finished(Future)
    BY <1>1, <1>2, PassOverMoves DEF Wait
  <1>3. CASE ~finished(Future)
    <2>1. /\ handlers' = Append(handlers, Handler(futures[Future].target, WILDCARD,
                                                  Act("resume", Future, current, "")))
          /\ Advance(0)
          /\ Yield
          /\ UNCHANGED <<error, snapshot, cursor, todo, sm, agenda, futures, slots, seen>>
      BY <1>3 DEF Wait
    <2>2. \E stack : IsStack(stack) /\ Restacked(stack)
      BY <1>1, <2>1, StackAdvances DEF Advance, Restacked
    <2>3. futures[Future].state = "pending"
      BY <1>3 DEF finished
    <2>4. Parks
      BY <1>1, <2>1, <2>2, <2>3 DEF Parks, Yield
    <2> QED  BY <1>1, <2>1, <2>4 DEF CodeMoves
  <1> QED  BY <1>2, <1>3

\* A callback for the completion of a future.
LEMMA DoneMoves ==
    ASSUME RunInv, Done
    PROVE  CodeMoves
  <1>1. phase = "fiber" /\ Future \in 1..Len(futures)
    BY DEF Done, At, HoldsFuture
  <1>2. futures[Future].state \in {"pending", "ready", "failed"}
    BY <1>1 DEF RunInv, FuturesOK, IsFuture
  <1>3. CASE futures[Future].state = "failed"
    BY <1>1, <1>3, PassOverMoves DEF Done
  <1>4. CASE futures[Future].state = "ready"
    <2>1. /\ fibers' = [fibers EXCEPT ![current].stack =
               <<NewFrame(Current.block, {})>> \o Advanced(0)[current].stack]
          /\ See("called", Current.block)
          /\ UNCHANGED <<phase, error, snapshot, cursor, todo, sm, handlers, agenda,
                         futures, slots, current>>
      BY <1>4 DEF Done
    <2>2. Listens
      <3>1. "called" \notin CommandTypes
        BY DEF CommandTypes
      <3> QED  BY <2>1, <3>1, SeeListens
    <2> QED  BY <1>1, <2>1, <2>2, PushMoves
  <1>5. CASE futures[Future].state = "pending"
    <2>1. /\ futures' = [futures EXCEPT ![Future].callbacks = Append(@, Current.block)]
          /\ Advance(0)
          /\ UNCHANGED <<phase, error, snapshot, cursor, todo, sm, handlers, agenda,
                         slots, current, seen>>
      BY <1>5 DEF Done
    <2>2. \E stack : IsStack(stack) /\ Restacked(stack)
      BY <1>1, <2>1, StackAdvances DEF Advance, Restacked
    <2>3. AddsCallback /\ Listens
      BY <1>1, <1>5, <2>1 DEF AddsCallback, Listens
    <2> QED  BY <1>1, <2>1, <2>2, <2>3, SameDecides DEF CodeMoves, Continues
  <1> QED  BY <1>2, <1>3, <1>4, <1>5

\* A side effect: recorded, or executed and recorded.
LEMMA SideEffectMoves ==
    ASSUME RunInv, SideEffect
    PROVE  CodeMoves
  <1>1. phase = "fiber" /\ DOMAIN sm = ManagerFields
    BY DEF SideEffect, At, RunInv, ManagerOK
  <1>4. "side_effect" \notin CommandTypes
    BY DEF CommandTypes
  <1>2. CASE sm.side_effects # <<>>
    <2>1. /\ sm' = [sm EXCEPT !.side_effects = Tail(@)]
          /\ See("side_effect", Head(sm.side_effects))
          /\ Advance(0)
          /\ UNCHANGED <<phase, error, snapshot, cursor, todo, handlers, agenda, futures,
                         slots, current>>
      BY <1>2 DEF SideEffect
    <2>2. Decides
      <3>1. Listens
        BY <1>4, <2>1, SeeListens
      <3> QED  BY <1>1, <2>1, <3>1 DEF Decides, Refrains, ManagerFields
    <2> QED  BY <1>1, <2>1, <2>2, AdvanceMoves
  <1>3. CASE ~(sm.side_effects # <<>>)
    <2>1. PICK v \in SideEffectValues :
                ScheduleDecision(
                  Decision("RecordMarker", Nil, [name |-> "SIDE_EFFECT", details |-> v]),
                  /\ See("side_effect", v)
                  /\ Advance(0)
                  /\ UNCHANGED <<phase, error, snapshot, cursor, todo, handlers, agenda,
                                 futures, slots, current>>)
      BY <1>3 DEF SideEffect
    <2> DEFINE d == Decision("RecordMarker", Nil, [name |-> "SIDE_EFFECT", details |-> v])
    <2>2. IsDecision(d) /\ d.type \notin CommandTypes
      BY DecisionIsDecision DEF DecisionTypes, DECISION_TARGET_TYPES, CommandTypes
    <2>3. CASE CanAppend(sm)
      <3>1. /\ sm' = schedule(sm, d) /\ Advance(0) /\ See("side_effect", v)
            /\ UNCHANGED <<phase, error, snapshot, cursor, todo, handlers, agenda,
                                 futures, slots, current>>
        BY <2>1, <2>3 DEF ScheduleDecision
      <3>2. Listens
        BY <1>4, <3>1, SeeListens
      <3> HIDE DEF d
      <3>3. Decides
        BY <2>2, <2>3, <3>1, <3>2, ScheduleDecides
      <3> QED  BY <1>1, <3>1, <3>3, AdvanceMoves
    <2>4. CASE ~CanAppend(sm)
      <3>1. Raise("already_completing", Reserve(sm)) /\ "already_completing" \in Errors
        BY <2>1, <2>4 DEF ScheduleDecision, Errors
      <3> QED  BY <1>1, <2>4, <3>1, ReserveLeaves, RaiseMoves
    <2> QED  BY <2>3, <2>4
  <1> QED  BY <1>2, <1>3

\* A release flag: known, decided on a replay or recorded.
LEMMA HasReleaseMoves ==
    ASSUME RunInv, HasRelease
    PROVE  CodeMoves
  <1> DEFINE release == Current.what
             answer == IF Answered(sm, release) THEN sm.releases[release] ELSE ~sm.replay
             d == Decision("RecordMarker", Nil, [name |-> "RELEASE", details |-> release])
             skip == IF answer THEN 0 ELSE Current.skip
  <1>1. phase = "fiber" /\ DOMAIN sm = ManagerFields
    BY DEF HasRelease, At, RunInv, ManagerOK
  <1>2. CASE ~Answered(sm, release) /\ answer /\ ~CanAppend(sm)
    <2>1. /\ Raise("already_completing", track_release_refused(sm, release))
          /\ "already_completing" \in Errors
      BY <1>2 DEF HasRelease, Errors
    <2> QED  BY <1>1, <1>2, <2>1, ReserveLeaves, RaiseMoves
  <1>3. CASE ~(~Answered(sm, release) /\ answer /\ ~CanAppend(sm))
    <2>1. /\ sm' = CASE Answered(sm, release) -> sm
                     [] ~Answered(sm, release) /\ sm.replay -> track_release_replay(sm, release)
                     [] OTHER -> track_release_live(sm, release)
          /\ Advance(skip)
          /\ See("release", <<release, answer>>)
          /\ UNCHANGED <<phase, error, snapshot, cursor, todo, handlers, agenda, futures, slots,
                         current>>
      BY <1>3 DEF HasRelease
    <2>2. IsDecision(d) /\ d.type \notin CommandTypes
      BY DecisionIsDecision DEF DecisionTypes, DECISION_TARGET_TYPES, CommandTypes
    <2>3. \A v : LET m == RememberRelease(sm, release, v)
                 IN  /\ DOMAIN m = ManagerFields
                     /\ m.decisions = sm.decisions /\ m.last_event_id = sm.last_event_id
                     /\ m.marker_ids = sm.marker_ids /\ m.replay = sm.replay
      BY <1>1 DEF RememberRelease, ManagerFields
    <2>5. Listens
      <3>1. "release" \notin CommandTypes
        BY DEF CommandTypes
      <3> HIDE DEF answer, release
      <3> QED  BY <2>1, <3>1, SeeListens
    <2>4. Decides
      <3>1. CASE Answered(sm, release)
        BY <2>1, <2>5, <3>1, SameDecides
      <3>2. CASE ~Answered(sm, release) /\ sm.replay
        <4>1. sm' = RememberRelease(sm, release, FALSE)
          BY <2>1, <3>2 DEF track_release_replay
        <4> HIDE DEF release
        <4> QED  BY <2>3, <2>5, <4>1 DEF Decides, Refrains
      <3>3. CASE ~Answered(sm, release) /\ ~sm.replay
        <4>1. sm' = schedule(RememberRelease(sm, release, TRUE), d) /\ CanAppend(sm)
          BY <1>3, <2>1, <3>3 DEF track_release_live
        <4> HIDE DEF release, d
        <4> DEFINE m == RememberRelease(sm, release, TRUE)
        <4>2. /\ DOMAIN m = ManagerFields /\ m.decisions = sm.decisions
              /\ m.last_event_id = sm.last_event_id
              /\ m.marker_ids = sm.marker_ids /\ m.replay = sm.replay
          BY <2>3
        <4> HIDE DEF m
        <4>5. NextDecisionId(m) = NextDecisionId(sm)
          BY <4>2 DEF NextDecisionId
        <4>3. /\ DOMAIN schedule(m, d) = ManagerFields
              /\ schedule(m, d).decisions = Append(sm.decisions, Keyed(d, NextDecisionId(m)))
              /\ schedule(m, d).last_event_id = NextDecisionId(m)
              /\ schedule(m, d).marker_ids = sm.marker_ids /\ schedule(m, d).replay = sm.replay
              /\ IsDecision(Keyed(d, NextDecisionId(m)))
              /\ Keyed(d, NextDecisionId(m)).id = NextDecisionId(m)
              /\ Keyed(d, NextDecisionId(m)).type = d.type
          BY <2>2, <4>2, ScheduleAppends
        <4>4. sm' = schedule(m, d)
          BY <4>1 DEF m
        <4> DEFINE k == Keyed(d, NextDecisionId(m))
        <4> HIDE DEF k
        <4>6. Takes(k)
          BY <2>2, <2>5, <4>1, <4>3, <4>4, <4>5 DEF Takes, k
        <4> QED  BY <4>3, <4>4, <4>6 DEF Decides
      <3> QED  BY <3>1, <3>2, <3>3
    <2> HIDE DEF skip
    <2> QED  BY <1>1, <2>1, <2>4, AdvanceMoves
  <1> QED  BY <1>2, <1>3

\* The registration of a signal handler, a saga, a compensation and the end of
\* a block.
LEMMA OthersMove ==
    ASSUME RunInv, OnSignal \/ RunSaga \/ AddCompensation \/ BlockReturns
    PROVE  CodeMoves
  <1>1. CASE OnSignal
    <2>1. /\ phase = "fiber" /\ Advance(0)
          /\ handlers' = Append(handlers, Handler(WorkflowTarget, "signaled",
                                                  Act("call", 0, 0, Current.block)))
          /\ UNCHANGED <<program, phase, error, snapshot, cursor, todo, sm, agenda, futures,
                         slots, current, seen>>
      BY <1>1 DEF OnSignal, At
    <2>2. \E stack : IsStack(stack) /\ Restacked(stack)
      BY <2>1, StackAdvances DEF Advance, Restacked
    <2>3. HandlesSignal /\ Listens
      BY <2>1 DEF HandlesSignal, Listens
    <2> QED  BY <2>1, <2>2, <2>3, SameDecides DEF CodeMoves, Continues
  <1>2. CASE RunSaga
    <2>1. /\ phase = "fiber"
          /\ \E rescues : fibers' = [fibers EXCEPT ![current].stack =
                  <<NewFrame(Current.block, rescues)>> \o Advanced(0)[current].stack]
          /\ Listens
          /\ UNCHANGED <<phase, error, snapshot, cursor, todo, sm, handlers, agenda, futures,
                         slots, current>>
      BY <1>2 DEF RunSaga, At, Listens
    <2> QED  BY <2>1, PushMoves
  <1>3. CASE AddCompensation
    <2> DEFINE top == [Frame EXCEPT !.pc = @ + 1, !.compensations = Append(@, Current.block)]
    <2>1. /\ phase = "fiber"
          /\ fibers' = [fibers EXCEPT ![current].stack = <<top>> \o Tail(Stack)]
          /\ Listens
          /\ UNCHANGED <<phase, error, snapshot, cursor, todo, sm, handlers, agenda, futures,
                         slots, current>>
      BY <1>3 DEF AddCompensation, At, Listens
    <2>2. IsStack(Stack) /\ DOMAIN Frame = FrameFields /\ IsSeq(Frame.compensations)
      BY <2>1, Running DEF IsFrame
    <2>3. IsSeq(Append(Frame.compensations, Current.block))
      BY <2>2, SeqAppend
    <2>4. IsFrame(top) /\ top.rescues = Head(Stack).rescues
      <3>1. DOMAIN top = FrameFields /\ top.compensations = Append(Frame.compensations, Current.block)
            /\ top.rescues = Frame.rescues
        BY <2>2 DEF FrameFields
      <3> HIDE DEF top
      <3> QED  BY <2>3, <3>1 DEF IsFrame, Frame
    <2> HIDE DEF top
    <2>5. IsStack(<<top>> \o Tail(Stack))
      BY <2>2, <2>4, StackTop
    <2>6. Restacked(<<top>> \o Tail(Stack))
      BY <2>1 DEF Restacked
    <2> QED  BY <2>1, <2>5, <2>6, SameDecides DEF CodeMoves, Continues, KeepsObjects
  <1>4. CASE BlockReturns
    <2>1. phase = "fiber"
      BY <1>4 DEF BlockReturns
    <2>2. CASE Len(Stack) > 1
      <3>1. /\ fibers' = [fibers EXCEPT ![current].stack = Tail(Stack)]
            /\ Listens
            /\ UNCHANGED <<phase, error, snapshot, cursor, todo, sm, handlers, agenda, futures,
                           slots, current>>
        BY <1>4, <2>2 DEF BlockReturns, Stack, Listens
      <3>2. IsStack(Tail(Stack))
        BY <2>1, <2>2, Running, StackPops
      <3>3. Restacked(Tail(Stack))
        BY <3>1 DEF Restacked
      <3> QED  BY <2>1, <3>1, <3>2, <3>3, SameDecides DEF CodeMoves, Continues, KeepsObjects
    <2>3. CASE ~(Len(Stack) > 1) /\ fibers[current].main
      <3> DEFINE d == Decision("CompleteWorkflow", Nil, "result")
      <3>1. IsDecision(d) /\ d.type \notin CommandTypes
        BY DecisionIsDecision DEF DecisionTypes, DECISION_TARGET_TYPES, CommandTypes
      <3>2. CASE CanAppend(sm)
        <4>1. /\ sm' = schedule(sm, d)
              /\ fibers' = [fibers EXCEPT ![current].stack = <<>>]
              /\ Yield
              /\ Listens
              /\ UNCHANGED <<error, snapshot, cursor, todo, handlers, agenda, futures, slots>>
          BY <1>4, <2>3, <3>2 DEF BlockReturns, ScheduleDecision, Listens
        <4> HIDE DEF d
        <4>2. Ends
          BY <3>1, <3>2, <4>1, ScheduleDecides DEF Ends, Yield, Restacked, KeepsObjects
        <4> QED  BY <2>1, <4>1, <4>2 DEF CodeMoves
      <3>3. CASE ~CanAppend(sm)
        <4>1. Raise("already_completing", Reserve(sm)) /\ "already_completing" \in Errors
          BY <1>4, <2>3, <3>3 DEF BlockReturns, ScheduleDecision, Errors
        <4> QED  BY <2>1, <3>3, <4>1, ReserveLeaves, RaiseMoves
      <3> QED  BY <3>2, <3>3
    <2>4. CASE ~(Len(Stack) > 1) /\ ~fibers[current].main
      <3>1. /\ fibers' = [fibers EXCEPT ![current].stack = <<>>]
            /\ Yield
            /\ Listens
            /\ UNCHANGED <<error, snapshot, cursor, todo, sm, handlers, agenda, futures, slots>>
        BY <1>4, <2>4 DEF BlockReturns, Listens
      <3>2. Ends
        BY <3>1, SameDecides DEF Ends, Yield, Restacked, KeepsObjects
      <3> QED  BY <2>1, <3>1, <3>2 DEF CodeMoves
    <2> QED  BY <2>2, <2>3, <2>4
  <1> QED  BY <1>1, <1>2, <1>3, <1>4

\* Every step of workflow code is one of the four kinds.
LEMMA CodeStepMoves ==
    ASSUME RunInv, CodeStep
    PROVE  CodeMoves
  BY CallsMove, WaitMoves, DoneMoves, SideEffectMoves, HasReleaseMoves, OthersMove DEF CodeStep

-----------------------------------------------------------------------------

\* Decisions stay decisions, and none follows a closing one.
LEMMA DecidesKeeps ==
    ASSUME ManagerOK, Decides
    PROVE  ManagerOK'
  <1>1. CASE sm'.decisions = sm.decisions
    BY <1>1 DEF ManagerOK, Decides
  <1>2. CASE /\ CanAppend(sm)
             /\ \E d : IsDecision(d) /\ sm'.decisions = Append(sm.decisions, d)
    <2>1. PICK d : IsDecision(d) /\ sm'.decisions = Append(sm.decisions, d)
      BY <1>2
    <2> DEFINE old == sm.decisions
               new == sm'.decisions
    <2>2. IsSeq(old) /\ Len(old) \in Nat
      BY SeqFacts DEF ManagerOK
    <2>3. /\ IsSeq(new) /\ Len(new) = Len(old) + 1
          /\ \A i \in 1..Len(old) : new[i] = old[i]
          /\ new[Len(old) + 1] = d
      BY <2>1, <2>2, SeqAppend
    <2>4. \A i \in 1..Len(old) : ~Closing(old[i])
      <3> TAKE i \in 1..Len(old)
      <3>1. CASE i = Len(old)
        <4>1. old # <<>>
          BY <2>2, <3>1, SeqFacts
        <4> QED  BY <1>2, <3>1, <4>1 DEF CanAppend, Last
      <3>2. CASE i # Len(old)
        BY <2>2, <3>2 DEF ManagerOK
      <3> QED  BY <3>1, <3>2
    <2>5. \A i \in 1..Len(old) : IsDecision(old[i])
      BY DEF ManagerOK
    <2>6. DOMAIN sm' = ManagerFields
      BY DEF Decides
    <2> HIDE DEF old, new
    <2>7. \A i \in 1..Len(new) : IsDecision(new[i])
      BY <2>1, <2>2, <2>3, <2>5
    <2>8. \A i \in 1..Len(new) - 1 : ~Closing(new[i])
      BY <2>2, <2>3, <2>4
    <2> QED  BY <2>3, <2>6, <2>7, <2>8 DEF ManagerOK, new
  <1> QED  BY <1>1, <1>2 DEF Decides, Refrains, Takes

\* A new stack for the running fiber leaves the other fibers alone.
LEMMA RestackKeeps ==
    ASSUME RunInv, phase = "fiber", NEW stack, stack = <<>> \/ IsStack(stack), Restacked(stack)
    PROVE  /\ IsSeq(fibers') /\ Len(fibers') = Len(fibers)
           /\ \A i \in 1..Len(fibers) : IsFiber(fibers'[i])
           /\ fibers'[current].stack = stack
           /\ \A i \in 1..Len(fibers) : i # current => fibers'[i] = fibers[i]
  <1>1. IsSeq(fibers) /\ DOMAIN fibers = 1..Len(fibers)
    BY SeqFacts DEF RunInv, FibersOK
  <1>2. current \in 1..Len(fibers) /\ DOMAIN fibers[current] = {"stack", "main"}
    BY Running
  <1>3. fibers' = [fibers EXCEPT ![current].stack = stack]
    BY DEF Restacked
  <1>4. DOMAIN fibers' = DOMAIN fibers /\ fibers' = [i \in DOMAIN fibers' |-> fibers'[i]]
    BY <1>3
  <1>5. IsSeq(fibers') /\ Len(fibers') = Len(fibers)
    BY <1>1, <1>4, SeqExcept
  <1>6. fibers'[current].stack = stack /\ DOMAIN fibers'[current] = {"stack", "main"}
    BY <1>1, <1>2, <1>3
  <1>7. \A i \in 1..Len(fibers) : i # current => fibers'[i] = fibers[i]
    BY <1>1, <1>3
  <1>8. \A i \in 1..Len(fibers) : IsFiber(fibers'[i])
    BY <1>6, <1>7 DEF RunInv, FibersOK, IsFiber
  <1> QED  BY <1>5, <1>6, <1>7, <1>8

\* What code does to the futures and handlers.
LEMMA ObjectsKeep ==
    ASSUME RunInv, KeepsObjects \/ CreatesFuture \/ HandlesSignal \/ AddsCallback
    PROVE  /\ FuturesOK' /\ IsSeq(handlers')
           /\ Len(futures') \in Nat /\ Len(futures) <= Len(futures')
           /\ slots' \in [Slots -> 0..Len(futures')]
           /\ \A i \in 1..Len(handlers') : IsAct(handlers'[i].act, Len(fibers), Len(futures'))
  <1>1. /\ IsSeq(futures) /\ IsSeq(handlers) /\ Len(futures) \in Nat /\ Len(handlers) \in Nat
        /\ \A i \in 1..Len(handlers) : IsAct(handlers[i].act, Len(fibers), Len(futures))
        /\ \A f \in 1..Len(futures) : IsFuture(futures[f])
        /\ slots \in [Slots -> 0..Len(futures)]
    BY SeqFacts DEF RunInv, FuturesOK, HandlersOK, RunType
  <1>2. CASE KeepsObjects
    BY <1>1, <1>2 DEF KeepsObjects, FuturesOK
  <1>3. CASE CreatesFuture
    <2>1. PICK names : \E made :
            /\ IsFuture(made) /\ made.state = "pending"
            /\ futures' = Append(futures, made)
            /\ handlers' = handlers \o Resolving(made.target, Len(futures) + 1, names)
            /\ slots' \in [Slots -> 0..Len(futures) + 1]
      BY <1>3 DEF CreatesFuture
    <2>2. PICK made :
            /\ IsFuture(made) /\ made.state = "pending"
            /\ futures' = Append(futures, made)
            /\ handlers' = handlers \o Resolving(made.target, Len(futures) + 1, names)
            /\ slots' \in [Slots -> 0..Len(futures) + 1]
      BY <2>1
    <2>3. /\ IsSeq(futures') /\ Len(futures') = Len(futures) + 1
          /\ \A f \in 1..Len(futures) : futures'[f] = futures[f]
          /\ futures'[Len(futures) + 1] = made
      BY <1>1, <2>2, SeqAppend
    <2>4. \A f \in 1..Len(futures') : IsFuture(futures'[f])
      BY <1>1, <2>2, <2>3
    <2> DEFINE added == Resolving(made.target, Len(futures) + 1, names)
    <2>5. /\ IsSeq(added) /\ Len(added) = 2
          /\ added[1].act = Act("set", Len(futures) + 1, 0, "")
          /\ added[2].act = Act("fail", Len(futures) + 1, 0, "")
      BY SeqShort DEF Resolving, Handler
    <2>6. \A i \in 1..Len(added) : IsAct(added[i].act, Len(fibers), Len(futures'))
      <3>1. \A i \in 1..2 : i = 1 \/ i = 2
        OBVIOUS
      <3> HIDE DEF added
      <3>2. /\ IsAct(added[1].act, Len(fibers), Len(futures'))
            /\ IsAct(added[2].act, Len(fibers), Len(futures'))
        <4>1. Len(futures) + 1 \in 1..Len(futures')
          BY <1>1, <2>3
        <4> DEFINE n == Len(futures) + 1
        <4> HIDE DEF n
        <4>2. /\ IsAct(Act("set", n, 0, ""), Len(fibers), Len(futures'))
              /\ IsAct(Act("fail", n, 0, ""), Len(fibers), Len(futures'))
          BY <4>1 DEF IsAct, Act, n
        <4> QED  BY <2>5, <4>2, Zenon DEF n
      <3> QED  BY <2>5, <3>1, <3>2
    <2> HIDE DEF added
    <2>7. \A i \in 1..Len(handlers) : IsAct(handlers[i].act, Len(fibers), Len(futures'))
      BY <1>1, <2>3 DEF IsAct
    <2>8. handlers' = handlers \o added
      BY <2>2 DEF added
    <2>9. IsSeq(handlers')
      BY <1>1, <2>5, <2>8, SeqConcat
    <2>10. \A i \in 1..Len(handlers') : IsAct(handlers'[i].act, Len(fibers), Len(futures'))
      <3> TAKE i \in 1..Len(handlers')
      <3>1. \/ i \in 1..Len(handlers) /\ handlers'[i] = handlers[i]
            \/ \E j \in 1..Len(added) : handlers'[i] = added[j]
        <4>1. i \in 1..Len(handlers \o added)
          BY <2>8
        <4>2. \/ i \in 1..Len(handlers) /\ (handlers \o added)[i] = handlers[i]
              \/ \E j \in 1..Len(added) :
                   i = Len(handlers) + j /\ (handlers \o added)[i] = added[j]
          <5>1. IsSeq(handlers) /\ IsSeq(added)
            BY <1>1, <2>5
          <5> QED  BY <4>1, <5>1, ConcatParts
        <4> QED  BY <2>8, <4>2
      <3> QED  BY <2>6, <2>7, <3>1
    <2> QED  BY <1>1, <2>2, <2>3, <2>4, <2>9, <2>10 DEF FuturesOK
  <1>4. CASE HandlesSignal
    <2>1. PICK block : handlers' = Append(handlers, Handler(WorkflowTarget, "signaled",
                                                            Act("call", 0, 0, block)))
      BY <1>4 DEF HandlesSignal
    <2> DEFINE h == Handler(WorkflowTarget, "signaled", Act("call", 0, 0, block))
    <2>2. IsAct(h.act, Len(fibers), Len(futures))
      BY DEF Handler, Act, IsAct
    <2> HIDE DEF h
    <2>3. /\ IsSeq(handlers') /\ Len(handlers') = Len(handlers) + 1
          /\ \A i \in 1..Len(handlers) : handlers'[i] = handlers[i]
          /\ handlers'[Len(handlers) + 1] = h
      BY <1>1, <2>1, SeqAppend DEF h
    <2>4. \A i \in 1..Len(handlers') : IsAct(handlers'[i].act, Len(fibers), Len(futures))
      BY <1>1, <2>2, <2>3
    <2> QED  BY <1>1, <1>4, <2>3, <2>4 DEF HandlesSignal, FuturesOK
  <1>5. CASE AddsCallback
    <2>1. PICK f \in 1..Len(futures) : \E block :
            futures' = [futures EXCEPT ![f].callbacks = Append(@, block)]
      BY <1>5 DEF AddsCallback
    <2>2. PICK block : futures' = [futures EXCEPT ![f].callbacks = Append(@, block)]
      BY <2>1
    <2>3. DOMAIN futures' = DOMAIN futures /\ futures' = [i \in DOMAIN futures' |-> futures'[i]]
      BY <2>2
    <2>4. IsSeq(futures') /\ Len(futures') = Len(futures)
      BY <1>1, <2>3, SeqExcept
    <2>5. IsFuture(futures[f]) /\ f \in DOMAIN futures
      BY <1>1, SeqFacts
    <2>6. /\ DOMAIN futures'[f] = FutureFields
          /\ futures'[f].callbacks = Append(futures[f].callbacks, block)
          /\ futures'[f].target = futures[f].target /\ futures'[f].state = futures[f].state
      BY <2>2, <2>5 DEF IsFuture, FutureFields
    <2>7. IsFuture(futures'[f])
      BY <2>5, <2>6, SeqAppend DEF IsFuture
    <2>8. \A g \in 1..Len(futures) : g # f => futures'[g] = futures[g]
      BY <1>1, <2>2, SeqFacts
    <2>9. \A g \in 1..Len(futures') : IsFuture(futures'[g])
      BY <1>1, <2>4, <2>7, <2>8
    <2>10. handlers' = handlers /\ slots' = slots
      BY <1>5 DEF AddsCallback
    <2>11. FuturesOK'
      BY <2>4, <2>9 DEF FuturesOK
    <2> QED  BY <1>1, <2>4, <2>10, <2>11
  <1> QED  BY <1>2, <1>3, <1>4, <1>5

\* Workflow code keeps the invariant of the run.
LEMMA CodeKeeps ==
    ASSUME RunInv, CodeMoves
    PROVE  RunInv'
  <1>1. /\ phase = "fiber" /\ current \in 1..Len(fibers) /\ Len(fibers) \in Nat
        /\ UNCHANGED <<snapshot, cursor, todo, agenda>>
    BY Running, SeqFacts DEF CodeMoves, RunInv, FibersOK
  <1>2. ASSUME NEW stack, stack = <<>> \/ IsStack(stack), Restacked(stack),
               \/ phase' = phase /\ current' = current /\ IsStack(stack)
               \/ phase' = "apply" /\ current' = 0,
               Decides, KeepsObjects \/ CreatesFuture \/ HandlesSignal \/ AddsCallback
        PROVE  RunInv'
    <2>1. /\ IsSeq(fibers') /\ Len(fibers') = Len(fibers)
          /\ \A i \in 1..Len(fibers) : IsFiber(fibers'[i])
          /\ fibers'[current].stack = stack
      BY <1>1, <1>2, RestackKeeps
    <2>2. /\ FuturesOK' /\ IsSeq(handlers')
          /\ Len(futures') \in Nat /\ Len(futures) <= Len(futures')
          /\ slots' \in [Slots -> 0..Len(futures')]
          /\ \A i \in 1..Len(handlers') : IsAct(handlers'[i].act, Len(fibers), Len(futures'))
      BY <1>2, ObjectsKeep
    <2>3. ManagerOK'
      BY <1>2, DecidesKeeps DEF RunInv
    <2>4. FibersOK'
      BY <1>2, <2>1 DEF FibersOK
    <2>5. HandlersOK'
      BY <2>1, <2>2 DEF HandlersOK
    <2>6. AgendaOK'
      <3>1. Len(futures) \in Nat
        BY SeqFacts DEF RunInv, FuturesOK
      <3>2. \A i \in 1..Len(agenda) : IsAct(agenda[i], Len(fibers), Len(futures'))
        BY <2>2, <3>1 DEF RunInv, AgendaOK, IsAct
      <3> QED  BY <1>1, <2>1, <3>2 DEF RunInv, AgendaOK
    <2>7. RunType'
      <3>1. /\ phase' \in Phases /\ current' \in 0..Len(fibers')
            /\ (phase' = "fiber") <=> (current' # 0)
        BY <1>1, <1>2, <2>1 DEF Phases
      <3> QED  BY <1>1, <2>2, <3>1 DEF RunInv, RunType
    <2> QED  BY <2>2, <2>3, <2>4, <2>5, <2>6, <2>7 DEF RunInv
  <1>3. CASE Continues
    <2>1. PICK stack : IsStack(stack) /\ Restacked(stack)
      BY <1>3 DEF Continues
    <2>2. phase' = phase /\ current' = current /\ Decides
          /\ (KeepsObjects \/ CreatesFuture \/ HandlesSignal \/ AddsCallback)
      BY <1>3 DEF Continues
    <2> QED  BY <1>2, <2>1, <2>2
  <1>4. CASE Ends
    BY <1>2, <1>4 DEF Ends
  <1>5. CASE Parks
    <2>1. PICK stack : IsStack(stack) /\ Restacked(stack)
      BY <1>5 DEF Parks
    <2>2. PICK f \in 1..Len(futures) :
            handlers' = Append(handlers, Handler(futures[f].target, WILDCARD,
                                                 Act("resume", f, current, "")))
      BY <1>5 DEF Parks
    <2>3. phase' = "apply" /\ current' = 0 /\ UNCHANGED <<error, sm, futures, slots>>
      BY <1>5 DEF Parks
    <2>4. /\ IsSeq(fibers') /\ Len(fibers') = Len(fibers)
          /\ \A i \in 1..Len(fibers) : IsFiber(fibers'[i])
      BY <1>1, <2>1, RestackKeeps
    <2> DEFINE h == Handler(futures[f].target, WILDCARD, Act("resume", f, current, ""))
    <2>5. IsAct(h.act, Len(fibers), Len(futures))
      BY <1>1 DEF Handler, Act, IsAct
    <2> HIDE DEF h
    <2>6. IsSeq(handlers) /\ Len(handlers) \in Nat
          /\ \A i \in 1..Len(handlers) : IsAct(handlers[i].act, Len(fibers), Len(futures))
      BY SeqFacts DEF RunInv, HandlersOK
    <2>7. /\ IsSeq(handlers') /\ Len(handlers') = Len(handlers) + 1
          /\ \A i \in 1..Len(handlers) : handlers'[i] = handlers[i]
          /\ handlers'[Len(handlers) + 1] = h
      BY <2>2, <2>6, SeqAppend DEF h
    <2>8. \A i \in 1..Len(handlers') : IsAct(handlers'[i].act, Len(fibers), Len(futures))
      BY <2>5, <2>6, <2>7
    <2>9. HandlersOK'
      BY <2>3, <2>4, <2>7, <2>8 DEF HandlersOK
    <2>10. FibersOK' /\ FuturesOK' /\ ManagerOK' /\ AgendaOK'
      BY <1>1, <2>3, <2>4 DEF RunInv, FibersOK, FuturesOK, ManagerOK, AgendaOK
    <2>11. RunType'
      BY <1>1, <2>3, <2>4 DEF RunInv, RunType, Phases
    <2> QED  BY <2>9, <2>10, <2>11 DEF RunInv
  <1>6. CASE Aborts
    <2>1. phase' = "failed" /\ current' = 0 /\ UNCHANGED <<handlers, futures, slots, fibers, sm>>
      BY <1>6 DEF Aborts, KeepsObjects
    <2>2. FibersOK' /\ FuturesOK' /\ ManagerOK' /\ AgendaOK' /\ HandlersOK'
      BY <1>1, <2>1 DEF RunInv, FibersOK, FuturesOK, ManagerOK, AgendaOK, HandlersOK
    <2>3. RunType'
      BY <1>1, <2>1 DEF RunInv, RunType, Phases
    <2> QED  BY <2>2, <2>3 DEF RunInv
  <1> QED  BY <1>3, <1>4, <1>5, <1>6 DEF CodeMoves

\* So does an error that ends the run.
LEMMA AbortKeeps ==
    ASSUME RunInv, NEW kind, Abort(kind)
    PROVE  RunInv'
  <1>1. FibersOK' /\ FuturesOK' /\ ManagerOK' /\ AgendaOK' /\ HandlersOK'
    BY DEF Abort, RunInv, FibersOK, FuturesOK, ManagerOK, AgendaOK, HandlersOK
  <1>2. RunType'
    BY SeqFacts DEF Abort, RunInv, RunType, Phases, FibersOK
  <1> QED  BY <1>1, <1>2 DEF RunInv

\* A run that has just been set up, or dropped, satisfies it.
LEMMA EmptyRun ==
    ASSUME NEW at \in Phases \ {"fiber"}, NEW raised, NEW h, Events(h),
           \A i \in 1..Len(h) : h[i].id = i, NEW registered,
           IsSeq(registered), \A i \in 1..Len(registered) : IsAct(registered[i].act, 0, 0),
           ResetRun(at, raised, h, registered)
    PROVE  RunInv'
  <1>1. Len(h) \in Nat
    BY SeqFacts DEF Events
  <1>2. phase' = at /\ snapshot' = h /\ cursor' = 0 /\ todo' = <<>> /\ sm' = NewStateManager
        /\ handlers' = registered /\ agenda' = <<>> /\ futures' = <<>>
        /\ slots' = [s \in Slots |-> 0] /\ fibers' = <<>> /\ current' = 0
    BY DEF ResetRun
  <1>3. RunType'
    BY <1>1, <1>2, SeqShort DEF RunType, Events
  <1>4. ManagerOK'
    <2>1. DOMAIN NewStateManager = ManagerFields /\ NewStateManager.decisions = <<>>
      BY DEF NewStateManager, ManagerFields
    <2> QED  BY <1>2, <2>1, SeqShort DEF ManagerOK
  <1>5. FibersOK' /\ FuturesOK' /\ AgendaOK'
    BY <1>2, SeqShort DEF FibersOK, FuturesOK, AgendaOK
  <1>6. HandlersOK'
    BY <1>2, SeqShort DEF HandlersOK
  <1> QED  BY <1>3, <1>4, <1>5, <1>6 DEF RunInv

-----------------------------------------------------------------------------
(* The root of the run.                                                      *)

\* The handlers the dispatch of an event calls.
Called(e) ==
    {i \in 1..Len(handlers) : /\ e.type \in DOMAIN DispatchedAs
                              /\ handlers[i].target = from_event(e)
                              /\ Answers(handlers[i], DispatchedAs[e.type])}

\* The acts of the handlers that the dispatch of e calls.
CalledActs(e) == [k \in 1..Len(Dispatched(e)) |-> Dispatched(e)[k].act]

\* The dispatch of an event calls every handler registered for it once, in the
\* order of registration.
LEMMA DispatchCalls ==
    ASSUME IsSeq(handlers), NEW e
    PROVE  LET called == CalledActs(e)
               n == Cardinality(Called(e))
           IN  /\ IsSeq(called) /\ Len(called) = n
               /\ \A k \in 1..n : /\ Nth(Called(e), k) \in Called(e)
                                  /\ called[k] = handlers[Nth(Called(e), k)].act
               /\ \A k, l \in 1..n : k < l => Nth(Called(e), k) < Nth(Called(e), l)
               /\ \A i \in Called(e) : \E k \in 1..n : Nth(Called(e), k) = i
  <1> DEFINE n == Cardinality(Called(e))
             called == CalledActs(e)
  <1>1. Len(handlers) \in Nat /\ Called(e) \subseteq 1..Len(handlers)
    BY SeqFacts DEF Called
  <1>2. Dispatched(e) = SelectAt(handlers, Called(e))
    <2>1. CASE e.type \in DOMAIN DispatchedAs
      BY <2>1 DEF Dispatched, Called
    <2>2. CASE e.type \notin DOMAIN DispatchedAs
      <3>1. Called(e) = {} /\ Dispatched(e) = <<>>
        BY <2>2 DEF Called, Dispatched
      <3>2. IsSeq(SelectAt(handlers, {})) /\ Len(SelectAt(handlers, {})) = 0
        BY <1>1, SelectAtKeeps, FS_EmptySet
      <3>3. SelectAt(handlers, {}) = <<>>
        BY <3>2, SeqFacts
      <3> QED  BY <3>1, <3>3
    <2> QED  BY <2>1, <2>2
  <1>3. /\ IsSeq(Dispatched(e)) /\ Len(Dispatched(e)) = n
        /\ \A k \in 1..n : Nth(Called(e), k) \in Called(e)
                            /\ Dispatched(e)[k] = handlers[Nth(Called(e), k)]
        /\ \A k, l \in 1..n : k < l => Nth(Called(e), k) < Nth(Called(e), l)
        /\ \A i \in Called(e) : \E k \in 1..n : Nth(Called(e), k) = i
    BY <1>1, <1>2, SelectAtKeeps
  <1>4. n \in Nat
    BY <1>3, SeqFacts
  <1> HIDE DEF n
  <1>5. called = [k \in 1..n |-> Dispatched(e)[k].act]
    BY <1>3 DEF CalledActs
  <1> HIDE DEF called
  <1>6. IsSeq(called) /\ Len(called) = n
    BY <1>4, <1>5, SeqByFun
  <1>7. \A k \in 1..n : called[k] = handlers[Nth(Called(e), k)].act
    BY <1>3, <1>5
  <1> QED  BY <1>3, <1>6, <1>7 DEF n, called

\* An event that is applied leaves decisions alone, or takes the one it
\* confirms off the list.
LEMMA ApplyEventKeepsManager ==
    ASSUME ManagerOK, NEW e, ApplyError(sm, e) = "none", sm' = apply_event(sm, e)
    PROVE  ManagerOK'
  <1> DEFINE tracked == track(sm, e)
  <1>1. DOMAIN tracked = ManagerFields /\ tracked.decisions = sm.decisions
    BY DEF track, ManagerOK, ManagerFields
  <1>2. sm' = IF e.type \in DiscardingTypes
               THEN [tracked EXCEPT !.decisions = Tail(@)]
               ELSE IF e.type = "MarkerRecorded" THEN handle_marker(tracked, e) ELSE tracked
    BY DEF apply_event
  <1> HIDE DEF tracked
  <1>3. CASE e.type \in DiscardingTypes
    <2> DEFINE d == sm.decisions
    <2>1. sm.decisions # <<>>
      BY <1>3 DEF ApplyError, DiscardMatches, DiscardingTypes
    <2>2. DOMAIN sm' = ManagerFields /\ sm'.decisions = Tail(d)
      BY <1>1, <1>2, <1>3 DEF ManagerFields
    <2>3. IsSeq(d) /\ (\A i \in 1..Len(d) : IsDecision(d[i]))
          /\ (\A i \in 1..Len(d) - 1 : ~Closing(d[i]))
      BY DEF ManagerOK
    <2>4. /\ Len(d) \in Nat \ {0} /\ IsSeq(Tail(d)) /\ Len(Tail(d)) = Len(d) - 1
          /\ \A i \in 1..Len(d) - 1 : Tail(d)[i] = d[i + 1]
      BY <2>1, <2>3, SeqTail
    <2> HIDE DEF d
    <2>5. /\ \A i \in 1..Len(Tail(d)) : IsDecision(Tail(d)[i])
          /\ \A i \in 1..Len(Tail(d)) - 1 : ~Closing(Tail(d)[i])
      BY <2>3, <2>4
    <2> QED  BY <2>2, <2>4, <2>5 DEF ManagerOK
  <1>4. CASE e.type \notin DiscardingTypes /\ e.type = "MarkerRecorded"
    <2>1. sm' = handle_marker(tracked, e)
      BY <1>2, <1>4
    <2>2. DOMAIN sm' = ManagerFields /\ sm'.decisions = sm.decisions
      BY <1>1, <2>1 DEF handle_marker, RememberRelease, ManagerFields
    <2> QED  BY <2>2 DEF ManagerOK
  <1>5. CASE e.type \notin DiscardingTypes /\ e.type # "MarkerRecorded"
    BY <1>1, <1>2, <1>5 DEF ManagerOK
  <1> QED  BY <1>3, <1>4, <1>5

\* Reading the next window of the history keeps the invariant of the run.
LEMMA NextWindowKeeps ==
    ASSUME RunInv, NextWindow
    PROVE  RunInv'
  <1> DEFINE window == next_window(snapshot, cursor)
  <1>1. /\ phase = "apply" /\ cursor < Len(snapshot) /\ todo = <<>>
        /\ sm' = OpenWindow(sm, window)
        /\ todo' = Ordered(window)
        /\ cursor' = WindowEnd(snapshot, cursor)
        /\ UNCHANGED <<phase, error, snapshot, handlers, agenda, futures, slots, fibers, current>>
    BY DEF NextWindow, AtRoot
  <1>2. Events(snapshot) /\ (\A i \in 1..Len(snapshot) : snapshot[i].id = i)
        /\ Len(snapshot) \in Nat /\ cursor \in Nat
    BY SeqFacts DEF RunInv, RunType, Events
  <1>3. /\ Events(todo')
        /\ \A k \in 1..Len(todo') : todo'[k].id \in cursor + 1 .. cursor'
                                     /\ todo'[k] = snapshot[todo'[k].id]
        /\ \A k, l \in 1..Len(todo') : todo'[k].id = todo'[l].id => k = l
    BY <1>1, <1>2, WindowEvents
  <1>4. cursor' \in cursor + 1 .. Len(snapshot)
    BY <1>1, <1>2, WindowAdvances DEF Events
  <1>5. \A k \in 1..Len(todo') : todo'[k].id \in 1..cursor'
    BY <1>2, <1>3, <1>4
  <1>6. RunType'
    BY <1>1, <1>2, <1>3, <1>4, <1>5 DEF RunInv, RunType
  <1>7. ManagerOK'
    <2>1. DOMAIN sm = ManagerFields
      BY DEF RunInv, ManagerOK
    <2> HIDE DEF window
    <2>2. DOMAIN sm' = ManagerFields /\ sm'.decisions = sm.decisions
      BY <1>1, <2>1 DEF OpenWindow, ManagerFields
    <2> QED  BY <2>2 DEF RunInv, ManagerOK
  <1>8. FibersOK' /\ FuturesOK' /\ AgendaOK' /\ HandlersOK'
    BY <1>1 DEF RunInv, FibersOK, FuturesOK, AgendaOK, HandlersOK
  <1> QED  BY <1>6, <1>7, <1>8 DEF RunInv

\* Applying an event of the window keeps it.
LEMMA ApplyEventKeeps ==
    ASSUME RunInv, ApplyEvent
    PROVE  RunInv'
  <1> DEFINE e == Head(todo)
  <1>1. CASE ApplyError(sm, e) # "none"
    BY <1>1, AbortKeeps DEF ApplyEvent
  <1>2. CASE ApplyError(sm, e) = "none"
    <2>1. /\ phase = "apply" /\ todo # <<>>
          /\ sm' = apply_event(sm, e)
          /\ todo' = Tail(todo)
          /\ agenda' = CalledActs(e)
          /\ UNCHANGED <<phase, error, snapshot, cursor, handlers, futures, slots, fibers, current>>
      BY <1>2 DEF ApplyEvent, AtRoot, CalledActs
    <2> HIDE DEF e
    <2>2. ManagerOK'
      BY <1>2, <2>1, ApplyEventKeepsManager DEF RunInv
    <2>3. FibersOK' /\ FuturesOK' /\ HandlersOK'
      BY <2>1 DEF RunInv, FibersOK, FuturesOK, HandlersOK
    <2>4. AgendaOK'
      <3>1. /\ IsSeq(agenda') /\ Len(agenda') = Cardinality(Called(e))
            /\ \A k \in 1..Len(agenda') : \E i \in 1..Len(handlers) : agenda'[k] = handlers[i].act
        <4>1. IsSeq(handlers)
          BY DEF RunInv, HandlersOK
        <4>2. IsSeq(agenda') /\ Len(agenda') = Cardinality(Called(e))
              /\ \A k \in 1..Cardinality(Called(e)) :
                    Nth(Called(e), k) \in Called(e) /\ agenda'[k] = handlers[Nth(Called(e), k)].act
          BY <2>1, <4>1, DispatchCalls
        <4>3. Called(e) \subseteq 1..Len(handlers)
          BY DEF Called
        <4> QED  BY <4>2, <4>3
      <3> QED  BY <2>1, <3>1 DEF RunInv, HandlersOK, AgendaOK
    <2>5. RunType'
      <3>1. /\ IsSeq(todo) /\ (\A k \in 1..Len(todo) : DOMAIN todo[k] = EventFields)
            /\ (\A k \in 1..Len(todo) : todo[k].id \in 1..cursor /\ todo[k] = snapshot[todo[k].id])
            /\ (\A k, l \in 1..Len(todo) : todo[k].id = todo[l].id => k = l)
        BY DEF RunInv, RunType, Events
      <3>2. /\ Len(todo) \in Nat \ {0} /\ IsSeq(todo') /\ Len(todo') = Len(todo) - 1
            /\ \A k \in 1..Len(todo) - 1 : todo'[k] = todo[k + 1]
        BY <2>1, <3>1, SeqTail
      <3>3. \A k \in 1..Len(todo') : todo'[k] = todo[k + 1] /\ k + 1 \in 1..Len(todo)
        BY <3>2
      <3>4. Events(todo')
        BY <3>1, <3>2, <3>3 DEF Events
      <3>5. \A k \in 1..Len(todo') : todo'[k].id \in 1..cursor /\ todo'[k] = snapshot[todo'[k].id]
        BY <3>1, <3>3
      <3>6. \A k, l \in 1..Len(todo') : todo'[k].id = todo'[l].id => k = l
        <4> SUFFICES ASSUME NEW k \in 1..Len(todo'), NEW l \in 1..Len(todo'),
                            todo'[k].id = todo'[l].id
                     PROVE  k = l
          OBVIOUS
        <4>1. /\ k + 1 \in 1..Len(todo) /\ l + 1 \in 1..Len(todo)
              /\ todo[k + 1].id = todo[l + 1].id
          BY <3>3
        <4>2. k + 1 = l + 1
          BY <3>1, <4>1
        <4> QED  BY <3>2, <4>2
      <3> QED  BY <2>1, <3>4, <3>5, <3>6 DEF RunInv, RunType
    <2> QED  BY <2>2, <2>3, <2>4, <2>5 DEF RunInv
  <1> QED  BY <1>1, <1>2

\* The first handler of the agenda is called; the others stay.
LEMMA AgendaShrinks ==
    ASSUME RunInv, agenda # <<>>
    PROVE  /\ IsAct(Head(agenda), Len(fibers), Len(futures))
           /\ IsSeq(Tail(agenda)) /\ Len(Tail(agenda)) = Len(agenda) - 1
           /\ \A k \in 1..Len(Tail(agenda)) : Tail(agenda)[k] = agenda[k + 1]
                                                /\ k + 1 \in 1..Len(agenda)
           /\ \A k \in 1..Len(Tail(agenda)) : IsAct(Tail(agenda)[k], Len(fibers), Len(futures))
           /\ Len(agenda) \in Nat \ {0} /\ Head(agenda) = agenda[1]
  <1>1. IsSeq(agenda) /\ \A k \in 1..Len(agenda) : IsAct(agenda[k], Len(fibers), Len(futures))
    BY DEF RunInv, AgendaOK
  <1>2. /\ Len(agenda) \in Nat \ {0} /\ Head(agenda) = agenda[1]
        /\ IsSeq(Tail(agenda)) /\ Len(Tail(agenda)) = Len(agenda) - 1
        /\ \A k \in 1..Len(agenda) - 1 : Tail(agenda)[k] = agenda[k + 1]
    BY <1>1, SeqTail
  <1>3. \A k \in 1..Len(Tail(agenda)) : Tail(agenda)[k] = agenda[k + 1] /\ k + 1 \in 1..Len(agenda)
    BY <1>2
  <1>4. IsAct(agenda[1], Len(fibers), Len(futures))
    BY <1>1, <1>2
  <1>5. \A k \in 1..Len(Tail(agenda)) : IsAct(Tail(agenda)[k], Len(fibers), Len(futures))
    BY <1>1, <1>3
  <1> QED  BY <1>2, <1>3, <1>4, <1>5

\* execute_workflow and call_in_fiber start a fiber.
LEMMA LaunchKeeps ==
    ASSUME RunInv, phase = "apply", agenda # <<>>, NEW block, NEW main,
           Launch(NewFiber(block, main)), agenda' = Tail(agenda),
           UNCHANGED <<error, snapshot, cursor, todo, sm, handlers, futures, slots>>
    PROVE  RunInv'
  <1> DEFINE fiber == NewFiber(block, main)
  <1>1. fibers' = Append(fibers, fiber) /\ current' = Len(fibers) + 1 /\ phase' = "fiber"
    BY DEF Launch
  <1>2. IsFiber(fiber) /\ IsStack(fiber.stack)
    <2> DEFINE frame == NewFrame(block, {})
    <2>1. IsFrame(frame) /\ frame.rescues = {}
      BY SeqShort DEF NewFrame, IsFrame, FrameFields
    <2>2. fiber.stack = <<frame>> /\ DOMAIN fiber = {"stack", "main"}
      BY DEF NewFiber
    <2> HIDE DEF frame
    <2>3. IsSeq(<<frame>>) /\ Len(<<frame>>) = 1 /\ <<frame>>[1] = frame
      BY SeqShort
    <2>4. <<frame>> # <<>>
      BY <2>3, SeqFacts
    <2>5. \A i \in 1..1 : IsFrame(<<frame>>[i])
      BY <2>1, <2>3
    <2>6. IsStack(<<frame>>)
      BY <2>1, <2>3, <2>4, <2>5 DEF IsStack
    <2> QED  BY <2>2, <2>6 DEF IsFiber
  <1> HIDE DEF fiber
  <1>3. /\ IsSeq(fibers) /\ Len(fibers) \in Nat
        /\ IsSeq(fibers') /\ Len(fibers') = Len(fibers) + 1
        /\ \A i \in 1..Len(fibers) : fibers'[i] = fibers[i]
        /\ fibers'[Len(fibers) + 1] = fiber
    BY <1>1, SeqAppend, SeqFacts DEF RunInv, FibersOK
  <1>4. FibersOK'
    <2>1. \A i \in 1..Len(fibers) : IsFiber(fibers[i])
      BY DEF RunInv, FibersOK
    <2>2. \A i \in 1..Len(fibers') : IsFiber(fibers'[i])
      <3> TAKE i \in 1..Len(fibers')
      <3>1. CASE i \in 1..Len(fibers)
        BY <1>3, <2>1, <3>1
      <3>2. CASE i = Len(fibers) + 1
        BY <1>2, <1>3, <3>2
      <3> QED  BY <1>3, <3>1, <3>2
    <2>3. IsStack(fibers'[current'].stack)
      BY <1>1, <1>2, <1>3
    <2> QED  BY <1>3, <2>2, <2>3 DEF FibersOK
  <1>5. \A act : IsAct(act, Len(fibers), Len(futures)) => IsAct(act, Len(fibers'), Len(futures'))
    BY <1>3 DEF IsAct
  <1>6. AgendaOK'
    BY <1>5, AgendaShrinks DEF AgendaOK
  <1>7. HandlersOK'
    BY <1>5 DEF RunInv, HandlersOK
  <1>8. RunType'
    BY <1>1, <1>3 DEF RunInv, RunType, Phases
  <1> QED  BY <1>4, <1>6, <1>7, <1>8 DEF RunInv, ManagerOK, FuturesOK

\* A future is resolved; the agenda goes on, with its callbacks in front.
LEMMA ResolveKeeps ==
    ASSUME RunInv, phase = "apply", agenda # <<>>,
           NEW f \in 1..Len(futures), NEW state \in {"ready", "failed"},
           futures' = [futures EXCEPT ![f].state = state],
           NEW calls, IsSeq(calls), \A k \in 1..Len(calls) : calls[k].kind = "call",
           agenda' = calls \o Tail(agenda),
           UNCHANGED <<phase, error, snapshot, cursor, todo, sm, handlers, slots, fibers, current>>
    PROVE  RunInv'
  <1>1. /\ IsSeq(futures) /\ \A g \in 1..Len(futures) : IsFuture(futures[g])
    BY DEF RunInv, FuturesOK
  <1>2. DOMAIN futures = 1..Len(futures)
    BY <1>1, SeqFacts
  <1>3. IsSeq(futures') /\ Len(futures') = Len(futures)
    <2>1. DOMAIN futures' = DOMAIN futures /\ futures' = [g \in DOMAIN futures' |-> futures'[g]]
      OBVIOUS
    <2> QED  BY <1>1, <2>1, SeqExcept
  <1>4. \A g \in 1..Len(futures) : IsFuture(futures'[g])
    <2> TAKE g \in 1..Len(futures)
    <2>1. CASE g = f
      <3>1. futures'[g] = [futures[g] EXCEPT !.state = state]
        BY <1>2, <2>1
      <3> QED  BY <1>1, <3>1 DEF IsFuture, FutureFields
    <2>2. CASE g # f
      BY <1>1, <1>2, <2>2
    <2> QED  BY <2>1, <2>2
  <1>5. FuturesOK'
    BY <1>3, <1>4 DEF FuturesOK
  <1>6. AgendaOK'
    <2>1. /\ IsSeq(Tail(agenda))
          /\ \A k \in 1..Len(Tail(agenda)) : IsAct(Tail(agenda)[k], Len(fibers), Len(futures))
      BY AgendaShrinks
    <2>2. \A k \in 1..Len(calls) : IsAct(calls[k], Len(fibers), Len(futures))
      BY DEF IsAct
    <2>3. IsSeq(agenda')
      BY <2>1, SeqConcat
    <2>4. \A k \in 1..Len(agenda') : IsAct(agenda'[k], Len(fibers), Len(futures))
      BY <2>1, <2>2, ConcatParts
    <2> QED  BY <1>3, <2>3, <2>4 DEF AgendaOK
  <1>7. HandlersOK' /\ RunType' /\ FibersOK' /\ ManagerOK'
    BY <1>3 DEF RunInv, HandlersOK, RunType, FibersOK, ManagerOK
  <1> QED  BY <1>5, <1>6, <1>7 DEF RunInv

\* Calling a handler keeps it: a fiber is started or resumed, a future is
\* resolved and its callbacks are due.
LEMMA RunHandlerKeeps ==
    ASSUME RunInv, RunHandler
    PROVE  RunInv'
  <1> DEFINE act == Head(agenda)
  <1>1. phase = "apply" /\ agenda # <<>>
    BY DEF RunHandler
  <1>2. CASE RunStart
    BY <1>1, <1>2, LaunchKeeps DEF RunStart
  <1>3. CASE RunCall
    BY <1>1, <1>3, LaunchKeeps DEF RunCall
  <1>4. IsAct(act, Len(fibers), Len(futures)) /\ IsSeq(Tail(agenda))
    BY <1>1, AgendaShrinks
  <1>5. CASE RunSet
    <2> DEFINE f == act.future
               blocks == futures[f].callbacks
               calls == [i \in 1..Len(blocks) |-> Act("call", 0, 0, blocks[i])]
    <2>1. CASE futures[f].state = "failed"
      BY <1>5, <2>1, AbortKeeps DEF RunSet
    <2>2. CASE futures[f].state # "failed"
      <3>1. /\ futures' = [futures EXCEPT ![f].state = "ready"]
            /\ agenda' = calls \o Tail(agenda)
            /\ UNCHANGED <<phase, error, snapshot, cursor, todo, sm, handlers, slots, fibers,
                           current>>
        BY <1>5, <2>2 DEF RunSet
      <3>2. f \in 1..Len(futures)
        BY <1>4, <1>5 DEF RunSet, IsAct
      <3> HIDE DEF f
      <3>3. IsSeq(blocks) /\ Len(blocks) \in Nat
        BY <3>2, SeqFacts DEF RunInv, FuturesOK, IsFuture
      <3>4. IsSeq(calls) /\ Len(calls) = Len(blocks)
        BY <3>3, SeqByFun
      <3>5. \A k \in 1..Len(calls) : calls[k].kind = "call"
        BY <3>4 DEF Act
      <3> HIDE DEF calls
      <3> QED  BY <1>1, <3>1, <3>2, <3>4, <3>5, ResolveKeeps
    <2> QED  BY <2>1, <2>2
  <1>6. CASE RunFail
    <2> DEFINE f == act.future
    <2>1. CASE futures[f].state = "ready"
      BY <1>6, <2>1, AbortKeeps DEF RunFail
    <2>2. CASE futures[f].state # "ready"
      <3>1. /\ futures' = [futures EXCEPT ![f].state = "failed"]
            /\ agenda' = Tail(agenda)
            /\ UNCHANGED <<phase, error, snapshot, cursor, todo, sm, handlers, slots, fibers,
                           current>>
        BY <1>6, <2>2 DEF RunFail
      <3>2. f \in 1..Len(futures)
        BY <1>4, <1>6 DEF RunFail, IsAct
      <3> HIDE DEF f
      <3>3. agenda' = <<>> \o Tail(agenda)
        <4>1. Tail(agenda) \in Seq(ToSet(Tail(agenda)))
          BY <1>4 DEF IsSeq
        <4> QED  BY <3>1, <4>1, ConcatEmptySeq
      <3>4. IsSeq(<<>>) /\ \A k \in 1..Len(<<>>) : <<>>[k].kind = "call"
        BY SeqShort
      <3> QED  BY <1>1, <3>1, <3>2, <3>3, <3>4, ResolveKeeps
    <2> QED  BY <2>1, <2>2
  <1>7. CASE RunResume
    <2>1. /\ AgendaOK /\ (agenda' = Tail(agenda) => \A k \in 1..Len(agenda') :
                              IsAct(agenda'[k], Len(fibers), Len(futures)))
      BY <1>1, AgendaShrinks DEF RunInv
    <2>2. CASE ~MayResume(act.future)
      <3>1. /\ agenda' = Tail(agenda)
            /\ UNCHANGED <<phase, error, snapshot, cursor, todo, sm, handlers, futures, slots,
                           fibers, current>>
        BY <1>7, <2>2 DEF RunResume
      <3> QED  BY <1>4, <2>1, <3>1 DEF RunInv, AgendaOK, HandlersOK, RunType, FibersOK, ManagerOK,
                                     FuturesOK
    <2>3. CASE MayResume(act.future) /\ fibers[act.fiber].stack = <<>>
      BY <1>7, <2>3, AbortKeeps DEF RunResume
    <2>4. CASE MayResume(act.future) /\ fibers[act.fiber].stack # <<>>
      <3>1. /\ agenda' = Tail(agenda) /\ current' = act.fiber /\ phase' = "fiber"
            /\ UNCHANGED <<error, snapshot, cursor, todo, sm, handlers, futures, slots, fibers>>
        BY <1>7, <2>4 DEF RunResume
      <3>2. act.fiber \in 1..Len(fibers)
        BY <1>4, <1>7 DEF RunResume, IsAct
      <3>3. IsStack(fibers[act.fiber].stack)
        BY <2>4, <3>2 DEF RunInv, FibersOK, IsFiber
      <3> HIDE DEF act
      <3>4. FibersOK'
        BY <3>1, <3>3 DEF RunInv, FibersOK
      <3>5. RunType'
        <4>1. Len(fibers) \in Nat
          BY SeqFacts DEF RunInv, FibersOK
        <4> QED  BY <3>1, <3>2, <4>1 DEF RunInv, RunType, Phases
      <3> QED  BY <1>4, <2>1, <3>1, <3>4, <3>5 DEF RunInv, AgendaOK, HandlersOK, ManagerOK, FuturesOK
    <2> QED  BY <2>2, <2>3, <2>4
  <1> QED  BY <1>2, <1>3, <1>5, <1>6, <1>7 DEF RunHandler

\* Every step of a decider keeps the invariant of its run.
LEMMA RunKeeps ==
    ASSUME RunInv, Run
    PROVE  RunInv'
  <1>1. CASE FinishRun
    <2>1. /\ phase = "apply" /\ phase' = "decided"
          /\ UNCHANGED <<error, snapshot, cursor, todo, sm, handlers, agenda, futures, slots,
                         fibers, current>>
      BY <1>1 DEF FinishRun, AtRoot
    <2> QED  BY <2>1 DEF RunInv, RunType, ManagerOK, FibersOK, FuturesOK, HandlersOK, AgendaOK,
                        Phases
  <1>2. CASE CodeStep
    BY <1>2, CodeStepMoves, CodeKeeps
  <1> QED  BY <1>1, <1>2, NextWindowKeeps, ApplyEventKeeps, RunHandlerKeeps DEF Run, RunStep, RootStep

-----------------------------------------------------------------------------
(* The service.                                                              *)

\* The history: a closing event is its last.
HistoryOK ==
    /\ Events(history)
    /\ history # <<>>
    /\ \A i \in 1..Len(history) : history[i].id = i
    /\ \A i \in 1..Len(history) - 1 : history[i].type \notin CloseTypes

\* Events wait in the buffer; none of them closes the execution.
BufferedOK ==
    /\ Events(buffered)
    /\ \A i \in 1..Len(buffered) : buffered[i].type \notin CloseTypes

\* What holds of the record of the Cadence service.
ServiceInv ==
    /\ HistoryOK
    /\ BufferedOK
    /\ task \in {"none", "scheduled", "started"}
    /\ Closed => task = "none"
    /\ attempt \in Nat
    /\ failures \in 0..MaxFailures

\* The inductive invariant of the workflow system.
IInv == RunInv /\ ServiceInv

\* The last event of a history tells whether the execution is closed.
LEMMA ClosedByLast ==
    ASSUME HistoryOK
    PROVE  /\ Len(history) \in Nat \ {0}
           /\ Closed <=> history[Len(history)].type \in CloseTypes
  BY SeqFacts DEF HistoryOK, Events, Closed, Last, CloseTypes

\* Events are recorded in a workflow that is open; only the last may close it.
LEMMA RecordKeeps ==
    ASSUME HistoryOK, ~Closed, NEW new, Events(new), new # <<>>,
           \A i \in 1..Len(new) - 1 : new[i].type \notin CloseTypes,
           history' = Recorded(history, new)
    PROVE  HistoryOK' /\ (Closed' <=> new[Len(new)].type \in CloseTypes)
  <1> DEFINE n == Len(history)
             m == Len(new)
             r == Recorded(history, new)
  <1>1. n \in Nat \ {0} /\ history[n].type \notin CloseTypes
    BY ClosedByLast
  <1>2. m \in Nat \ {0}
    BY SeqFacts DEF Events
  <1>3. Events(history) /\ (\A i \in 1..n : history[i].id = i)
        /\ (\A i \in 1..n - 1 : history[i].type \notin CloseTypes)
    BY DEF HistoryOK
  <1>4. /\ Events(r) /\ Len(r) = n + m
        /\ \A i \in 1..n : r[i] = history[i]
        /\ \A i \in 1..m : r[n + i].id = n + i /\ r[n + i].type = new[i].type
    BY <1>3, RecordedEvents DEF SameEvent
  <1>5. \A i \in 1..n : history[i].type \notin CloseTypes
    BY <1>1, <1>3
  <1> HIDE DEF n, m, r
  <1>6. \A i \in 1..n + m : i \in 1..n \/ (i - n \in 1..m /\ i = n + (i - n))
    BY <1>1, <1>2
  <1>7. \A i \in 1..n + m : r[i].id = i
    <2> TAKE i \in 1..n + m
    <2>1. CASE i \in 1..n
      BY <1>3, <1>4, <2>1
    <2>2. CASE i - n \in 1..m /\ i = n + (i - n)
      BY <1>4, <2>2
    <2> QED  BY <1>6, <2>1, <2>2
  <1>8. \A i \in 1..n + m - 1 : r[i].type \notin CloseTypes
    <2> TAKE i \in 1..n + m - 1
    <2>1. CASE i \in 1..n
      BY <1>4, <1>5, <2>1
    <2>2. CASE i \notin 1..n
      <3>1. i - n \in 1..m /\ i = n + (i - n) /\ i - n \in 1..m - 1
        BY <1>1, <1>2, <2>2
      <3>2. new[i - n].type \notin CloseTypes
        BY <3>1 DEF m
      <3> QED  BY <1>4, <3>1, <3>2
    <2> QED  BY <2>1, <2>2
  <1>9. r # <<>>
    BY <1>1, <1>2, <1>4, SeqFacts DEF Events
  <1>10. HistoryOK'
    <2>1. history' = r
      BY DEF r
    <2>2. /\ Events(r) /\ r # <<>>
          /\ \A i \in 1..Len(r) : r[i].id = i
          /\ \A i \in 1..Len(r) - 1 : r[i].type \notin CloseTypes
      <3>1. Events(r) /\ Len(r) = n + m
        BY <1>4
      <3>2. \A i \in 1..Len(r) : r[i].id = i
        BY <1>7, <3>1
      <3>3. \A i \in 1..Len(r) - 1 : r[i].type \notin CloseTypes
        BY <1>1, <1>2, <1>8, <3>1
      <3> QED  BY <1>9, <3>1, <3>2, <3>3
    <2> QED  BY <2>1, <2>2, Zenon DEF HistoryOK
  <1>11. r[n + m].type = new[m].type
    BY <1>2, <1>4
  <1>12. Closed' <=> r[n + m].type \in CloseTypes
    BY <1>4, <1>10 DEF Closed, Last, CloseTypes, r
  <1> QED  BY <1>10, <1>11, <1>12 DEF m

\* The same, when nothing closes the workflow.
LEMMA RecordOpen ==
    ASSUME HistoryOK, ~Closed, NEW new, Events(new), new # <<>>,
           \A i \in 1..Len(new) : new[i].type \notin CloseTypes,
           history' = Recorded(history, new)
    PROVE  HistoryOK' /\ ~Closed'
  <1>1. Len(new) \in Nat \ {0}
    BY SeqFacts DEF Events
  <1>2. \A i \in 1..Len(new) - 1 : new[i].type \notin CloseTypes
    BY <1>1
  <1> QED  BY <1>1, <1>2, RecordKeeps

\* One event, not a closing one, in a sequence of its own.
LEMMA OneEvent ==
    ASSUME NEW e, DOMAIN e = EventFields
    PROVE  /\ Events(<<e>>) /\ <<e>> # <<>> /\ Len(<<e>>) = 1 /\ <<e>>[1] = e
           /\ e.type \notin CloseTypes => \A i \in 1..Len(<<e>>) : <<e>>[i].type \notin CloseTypes
  <1>1. IsSeq(<<e>>) /\ Len(<<e>>) = 1 /\ <<e>>[1] = e
    BY SeqShort
  <1>2. \A i \in 1..1 : DOMAIN <<e>>[i] = EventFields
                         /\ (e.type \notin CloseTypes => <<e>>[i].type \notin CloseTypes)
    BY <1>1
  <1>3. <<e>> # <<>>
    BY <1>1, SeqFacts
  <1> QED  BY <1>1, <1>2, <1>3 DEF Events

\* An event of the bookkeeping of decision tasks.
LEMMA TaskEvents ==
    ASSUME NEW type, type \notin CloseTypes
    PROVE  LET s == <<TaskEvent(type)>>
           IN  /\ Events(s) /\ s # <<>> /\ Len(s) = 1
               /\ s[1].type = type /\ DOMAIN TaskEvent(type) = EventFields
               /\ \A i \in 1..Len(s) : s[i].type \notin CloseTypes
  <1> DEFINE e == TaskEvent(type)
  <1>1. DOMAIN e = EventFields /\ e.type = type
    BY DEF TaskEvent, Event, EventFields
  <1> HIDE DEF e
  <1> QED  BY <1>1, OneEvent DEF e

\* Two sequences of events that do not close the workflow.
LEMMA OpenConcat ==
    ASSUME NEW s, NEW t, Events(s), Events(t),
           \A i \in 1..Len(s) : s[i].type \notin CloseTypes,
           \A i \in 1..Len(t) : t[i].type \notin CloseTypes
    PROVE  /\ Events(s \o t)
           /\ \A i \in 1..Len(s \o t) : (s \o t)[i].type \notin CloseTypes
           /\ s # <<>> => s \o t # <<>>
  <1>1. IsSeq(s) /\ IsSeq(t)
    BY DEF Events
  <1>2. Events(s \o t)
    BY EventsConcat
  <1>3. \A i \in 1..Len(s \o t) : (s \o t)[i].type \notin CloseTypes
    BY <1>1, ConcatParts
  <1>4. Len(s \o t) = Len(s) + Len(t) /\ Len(s) \in Nat /\ Len(t) \in Nat
    BY <1>1, SeqConcat, SeqFacts
  <1>5. s # <<>> => s \o t # <<>>
    BY <1>1, <1>2, <1>4, SeqFacts DEF Events
  <1> QED  BY <1>2, <1>3, <1>5

\* A task that ends without decisions.
LEMMA EndTaskKeeps ==
    ASSUME ServiceInv, task = "started", NEW type, type \notin CloseTypes, EndTask(type),
           failures' \in 0..MaxFailures
    PROVE  ServiceInv'
  <1> DEFINE first == <<TaskEvent(type)>>
             last == <<TaskEvent("DecisionTaskScheduled")>>
             new == first \o buffered \o last
  <1>1. Events(first) /\ first # <<>> /\ \A i \in 1..Len(first) : first[i].type \notin CloseTypes
    BY TaskEvents
  <1>2. Events(last) /\ \A i \in 1..Len(last) : last[i].type \notin CloseTypes
    BY TaskEvents DEF CloseTypes
  <1>3. Events(buffered) /\ \A i \in 1..Len(buffered) : buffered[i].type \notin CloseTypes
    BY DEF ServiceInv, BufferedOK
  <1>4. history' = Recorded(history, new) /\ buffered' = <<>> /\ task' = "scheduled"
        /\ attempt' = attempt + 1
    BY DEF EndTask
  <1> HIDE DEF first, last
  <1> DEFINE front == first \o buffered
  <1>5. Events(front) /\ front # <<>> /\ \A i \in 1..Len(front) : front[i].type \notin CloseTypes
    BY <1>1, <1>3, OpenConcat
  <1> HIDE DEF front
  <1>6. /\ Events(front \o last) /\ front \o last # <<>>
        /\ \A i \in 1..Len(front \o last) : (front \o last)[i].type \notin CloseTypes
    BY <1>2, <1>5, OpenConcat
  <1>7. HistoryOK /\ ~Closed
    BY DEF ServiceInv
  <1>8. history' = Recorded(history, front \o last)
    BY <1>4 DEF front
  <1>9. HistoryOK' /\ ~Closed'
    BY <1>6, <1>7, <1>8, RecordOpen
  <1>10. BufferedOK'
    BY <1>4, SeqShort DEF BufferedOK, Events
  <1> QED  BY <1>4, <1>9, <1>10 DEF ServiceInv

\* An event that does not close the workflow arrives.
LEMMA ArriveKeeps ==
    ASSUME ServiceInv, NEW e, DOMAIN e = EventFields, e.type \notin CloseTypes, Arrive(e)
    PROVE  ServiceInv'
  <1>1. HistoryOK /\ BufferedOK /\ ~Closed
    BY DEF ServiceInv, Arrive
  <1>2. Events(<<e>>) /\ <<e>> # <<>> /\ (\A i \in 1..Len(<<e>>) : <<e>>[i].type \notin CloseTypes)
    BY OneEvent
  <1>3. CASE task = "started"
    <2>1. buffered' = Append(buffered, e) /\ history' = history /\ task' = task
          /\ attempt' = attempt /\ failures' = failures
      BY <1>3 DEF Arrive
    <2>2. Events(buffered) /\ IsSeq(buffered) /\ \A i \in 1..Len(buffered) : buffered[i].type \notin CloseTypes
      BY <1>1 DEF BufferedOK, Events
    <2>3. /\ IsSeq(buffered') /\ Len(buffered') = Len(buffered) + 1 /\ Len(buffered) \in Nat
          /\ \A i \in 1..Len(buffered) : buffered'[i] = buffered[i]
          /\ buffered'[Len(buffered) + 1] = e
      BY <2>1, <2>2, SeqAppend, SeqFacts
    <2>4. \A i \in 1..Len(buffered') : DOMAIN buffered'[i] = EventFields
                                         /\ buffered'[i].type \notin CloseTypes
      <3> TAKE i \in 1..Len(buffered')
      <3>1. CASE i \in 1..Len(buffered)
        BY <2>2, <2>3, <3>1 DEF Events
      <3>2. CASE i = Len(buffered) + 1
        BY <2>3, <3>2
      <3> QED  BY <2>3, <3>1, <3>2
    <2>5. BufferedOK'
      BY <2>3, <2>4 DEF BufferedOK, Events
    <2>6. HistoryOK' /\ ~Closed'
      BY <1>1, <2>1 DEF HistoryOK, Closed
    <2> QED  BY <2>1, <2>5, <2>6 DEF ServiceInv
  <1>4. CASE task # "started"
    <2>1. history' = Add(history, <<e>>) /\ task' = "scheduled" /\ buffered' = buffered
          /\ attempt' = attempt /\ failures' = failures
      BY <1>4 DEF Arrive
    <2>2. HistoryOK' /\ ~Closed'
      <3>1. CASE task = "scheduled"
        <4>1. history' = Recorded(history, <<e>>)
          BY <2>1, <3>1 DEF Add
        <4> QED  BY <1>1, <1>2, <4>1, RecordOpen
      <3>2. CASE task # "scheduled"
        <4> DEFINE last == TaskEvent("DecisionTaskScheduled")
        <4>1. Events(<<last>>) /\ (\A i \in 1..Len(<<last>>) : <<last>>[i].type \notin CloseTypes)
          BY TaskEvents DEF CloseTypes
        <4>2. history' = Recorded(history, Append(<<e>>, last))
          BY <2>1, <3>2 DEF Add
        <4> HIDE DEF last
        <4>3. Append(<<e>>, last) = <<e>> \o <<last>>
          <5>1. <<e>> \in Seq({e, last}) /\ last \in {e, last}
            OBVIOUS
          <5> QED  BY <5>1, AppendIsConcat
        <4>4. /\ Events(<<e>> \o <<last>>) /\ <<e>> \o <<last>> # <<>>
              /\ \A i \in 1..Len(<<e>> \o <<last>>) : (<<e>> \o <<last>>)[i].type \notin CloseTypes
          BY <1>2, <4>1, OpenConcat
        <4>5. history' = Recorded(history, <<e>> \o <<last>>)
          BY <4>2, <4>3
        <4> QED  BY <1>1, <4>4, <4>5, RecordOpen
      <3> QED  BY <3>1, <3>2
    <2>3. BufferedOK'
      BY <1>1, <2>1 DEF BufferedOK
    <2> QED  BY <2>1, <2>2, <2>3 DEF ServiceInv
  <1> QED  BY <1>3, <1>4

\* The event that answers a decision: it closes the workflow if the decision does.
LEMMA CommandIsEvent ==
    ASSUME NEW batch, NEW i, IsDecision(batch[i])
    PROVE  /\ DOMAIN Command(batch, i) = EventFields
           /\ Command(batch, i).type \in CloseTypes <=> Closing(batch[i])
           /\ Command(batch, i).type \in
                {"ActivityTaskScheduled", "TimerStarted", "StartChildWorkflowExecutionInitiated",
                 "MarkerRecorded", "RequestCancelActivityTaskFailed", "ActivityTaskCancelRequested",
                 "CancelTimerFailed", "TimerCanceled", "WorkflowExecutionCompleted",
                 "WorkflowExecutionFailed"}
  <1> DEFINE d == batch[i]
             c == Command(batch, i)
             ref(set) == IF set = {} THEN 0 ELSE CHOOSE id \in set : TRUE
  <1>1. d.type \in {"ScheduleActivity", "RequestActivityCancellation", "RecordMarker", "StartTimer",
                    "CancelTimer", "CompleteWorkflow", "FailWorkflow", "StartChildWorkflow"}
    BY DEF IsDecision, DecisionTypes, DECISION_TARGET_TYPES
  <1>2. CASE d.type = "RequestActivityCancellation"
    <2> DEFINE ids == Named(batch, i, "ScheduleActivity", OpenActivities)
               type == IF ids = {} THEN "RequestCancelActivityTaskFailed"
                       ELSE "ActivityTaskCancelRequested"
    <2>1. c = Event(type, ref(ids), d.key, "")
      BY <1>2 DEF Command
    <2>2. type \in {"RequestCancelActivityTaskFailed", "ActivityTaskCancelRequested"}
      OBVIOUS
    <2> HIDE DEF type, ids, c
    <2>3. DOMAIN c = EventFields /\ c.type = type
      BY <2>1 DEF Event, EventFields
    <2> QED  BY <1>2, <2>2, <2>3 DEF Closing, CloseTypes, c
  <1>3. CASE d.type = "CancelTimer"
    <2> DEFINE ids == IF CanceledBefore(batch, i) THEN {}
                      ELSE Named(batch, i, "StartTimer", CancelableTimers)
               type == IF ids = {} THEN "CancelTimerFailed" ELSE "TimerCanceled"
    <2>1. c = Event(type, ref(ids), d.key, "")
      BY <1>3 DEF Command
    <2>2. type \in {"CancelTimerFailed", "TimerCanceled"}
      OBVIOUS
    <2> HIDE DEF type, ids, c
    <2>3. DOMAIN c = EventFields /\ c.type = type
      BY <2>1 DEF Event, EventFields
    <2> QED  BY <1>3, <2>2, <2>3 DEF Closing, CloseTypes, c
  <1>4. CASE d.type \notin {"RequestActivityCancellation", "CancelTimer"}
    BY <1>1, <1>4 DEF Command, TaskEvent, Event, EventFields, Closing, CloseTypes
  <1> QED  BY <1>2, <1>3, <1>4

\* The service takes the decisions of a task.
LEMMA AcceptKeeps ==
    ASSUME RunInv, ServiceInv, task = "started", ~(CloseRequested /\ buffered # <<>>),
           AcceptDecisions(sm.decisions)
    PROVE  ServiceInv'
  <1> DEFINE batch == sm.decisions
             n == Len(batch)
             commands == [i \in 1..n |-> Command(batch, i)]
             canceled == {commands[i].ref : i \in {j \in 1..n : commands[j].type = "TimerCanceled"}}
             kept == {i \in 1..Len(buffered) :
                        ~(buffered[i].type = "TimerFired" /\ buffered[i].ref \in canceled)}
             late == SelectAt(buffered, kept)
             first == <<TaskEvent("DecisionTaskCompleted")>>
             ended == first \o commands
  <1>1. /\ IF late = <<>>
             THEN history' = Recorded(history, ended) /\ task' = "none"
             ELSE history' = Add(history, ended \o late) /\ task' = "scheduled"
        /\ buffered' = <<>> /\ attempt' = 0 /\ failures' = failures
    BY DEF AcceptDecisions
  <1>2. /\ IsSeq(batch) /\ n \in Nat
        /\ \A i \in 1..n : IsDecision(batch[i])
        /\ \A i \in 1..n - 1 : ~Closing(batch[i])
    BY SeqFacts DEF RunInv, ManagerOK
  <1>3. kept \subseteq 1..Len(buffered)
    OBVIOUS
  <1>4. CloseRequested <=> n # 0 /\ Closing(batch[n])
    BY <1>2, SeqFacts DEF CloseRequested, Last
  <1> HIDE DEF kept, batch, n
  <1>5. /\ IsSeq(commands) /\ Len(commands) = n
        /\ \A i \in 1..n : DOMAIN commands[i] = EventFields
                            /\ (commands[i].type \in CloseTypes <=> Closing(batch[i]))
    <2>1. IsSeq(commands) /\ Len(commands) = n
      BY <1>2, SeqByFun
    <2>2. \A i \in 1..n : commands[i] = Command(batch, i)
      OBVIOUS
    <2>3. \A i \in 1..n : DOMAIN Command(batch, i) = EventFields
                          /\ (Command(batch, i).type \in CloseTypes <=> Closing(batch[i]))
      BY <1>2, CommandIsEvent
    <2> QED  BY <2>1, <2>2, <2>3
  <1>6. Events(buffered) /\ IsSeq(buffered) /\ Len(buffered) \in Nat
        /\ \A i \in 1..Len(buffered) : buffered[i].type \notin CloseTypes
    BY SeqFacts DEF ServiceInv, BufferedOK, Events
  <1>7. Events(late) /\ \A k \in 1..Len(late) : late[k].type \notin CloseTypes
    <2>1. IsSeq(late) /\ \A k \in 1..Len(late) : \E i \in kept : late[k] = buffered[i]
      <3>1. IsSeq(buffered)
        BY <1>6
      <3>2. IsSeq(late)
        BY <1>3, <3>1, SelectAtFrom
      <3>3. \A k \in 1..Len(late) : \E i \in kept : late[k] = buffered[i] /\ i = Nth(kept, k)
        BY <1>3, <3>1, SelectAtFrom
      <3> QED  BY <3>2, <3>3
    <2> QED  BY <1>3, <1>6, <2>1 DEF Events
  <1> HIDE DEF late, commands
  <1>8. /\ Events(first) /\ first # <<>> /\ Len(first) = 1 /\ IsSeq(first)
        /\ \A i \in 1..Len(first) : first[i].type \notin CloseTypes
    BY TaskEvents DEF CloseTypes, Events
  <1>9. Events(commands)
    BY <1>5 DEF Events
  <1> HIDE DEF first
  <1>10. HistoryOK /\ ~Closed
    BY DEF ServiceInv
  <1>11. BufferedOK'
    BY <1>1, SeqShort DEF BufferedOK, Events
  <1>12. CASE late = <<>>
    <2>1. history' = Recorded(history, ended) /\ task' = "none"
      BY <1>1, <1>12
    <2>2. Events(ended)
      BY <1>8, <1>9, EventsConcat
    <2>3. /\ Len(ended) = 1 + n
          /\ \A i \in 1..1 : ended[i] = first[i]
          /\ \A i \in 1..n : ended[1 + i] = commands[i]
      <3>1. IsSeq(first) /\ IsSeq(commands)
        BY <1>5, <1>8
      <3>2. /\ Len(ended) = Len(first) + Len(commands)
            /\ \A i \in 1..Len(first) : ended[i] = first[i]
            /\ \A i \in 1..Len(commands) : ended[Len(first) + i] = commands[i]
        BY <3>1, SeqConcat
      <3>3. Len(first) = 1 /\ Len(commands) = n
        BY <1>5, <1>8
      <3> QED  BY <3>2, <3>3
    <2>4. ended # <<>>
      BY <1>2, <2>2, <2>3, SeqFacts DEF Events
    <2> HIDE DEF ended
    <2>5. \A i \in 1..Len(ended) - 1 : ended[i].type \notin CloseTypes
      <3> TAKE i \in 1..Len(ended) - 1
      <3>1. CASE i = 1
        BY <1>8, <2>3, <3>1
      <3>2. CASE i # 1
        <4>1. i - 1 \in 1..n - 1 /\ i - 1 \in 1..n /\ i = 1 + (i - 1)
          BY <1>2, <2>3, <3>2
        <4>2. ended[i] = commands[i - 1]
          BY <2>3, <4>1
        <4> QED  BY <1>2, <1>5, <4>1, <4>2
      <3> QED  BY <3>1, <3>2
    <2>6. HistoryOK'
      BY <1>10, <2>1, <2>2, <2>4, <2>5, RecordKeeps
    <2> QED  BY <1>1, <1>11, <2>1, <2>6 DEF ServiceInv
  <1>13. CASE late # <<>>
    <2> DEFINE last == TaskEvent("DecisionTaskScheduled")
               front == ended \o late
    <2>1. history' = Recorded(history, Append(front, last)) /\ task' = "scheduled"
      BY <1>1, <1>13 DEF Add
    <2>2. ~CloseRequested
      <3>1. buffered # <<>>
        <4> SUFFICES ASSUME buffered = <<>> PROVE FALSE
          OBVIOUS
        <4>1. Len(buffered) = 0
          BY SeqShort
        <4>2. kept = {}
          BY <1>3, <4>1
        <4>3. Len(late) = 0
          BY <1>3, <1>6, <4>2, SelectAtKeeps, FS_EmptySet DEF late
        <4> QED  BY <1>7, <1>13, <4>3, SeqFacts DEF Events
      <3> QED  BY <3>1
    <2>3. \A i \in 1..n : ~Closing(batch[i])
      BY <1>2, <1>4, <2>2
    <2>4. \A i \in 1..Len(commands) : commands[i].type \notin CloseTypes
      BY <1>5, <2>3
    <2>5. Events(ended) /\ ended # <<>> /\ \A i \in 1..Len(ended) : ended[i].type \notin CloseTypes
      BY <1>8, <1>9, <2>4, OpenConcat
    <2> HIDE DEF ended
    <2>6. Events(front) /\ front # <<>> /\ \A i \in 1..Len(front) : front[i].type \notin CloseTypes
      BY <1>7, <2>5, OpenConcat
    <2>7. Events(<<last>>) /\ (\A i \in 1..Len(<<last>>) : <<last>>[i].type \notin CloseTypes)
      BY TaskEvents DEF CloseTypes
    <2> HIDE DEF front, last
    <2>8. Append(front, last) = front \o <<last>>
      <3>1. front \in Seq(ToSet(front) \cup {last}) /\ last \in ToSet(front) \cup {last}
        BY <2>6, SeqMonotonic DEF Events, IsSeq
      <3> QED  BY <3>1, AppendIsConcat
    <2>9. /\ Events(front \o <<last>>) /\ front \o <<last>> # <<>>
          /\ \A i \in 1..Len(front \o <<last>>) : (front \o <<last>>)[i].type \notin CloseTypes
      BY <2>6, <2>7, OpenConcat
    <2>10. history' = Recorded(history, front \o <<last>>)
      BY <2>1, <2>8
    <2>11. HistoryOK' /\ ~Closed'
      BY <1>10, <2>9, <2>10, RecordOpen
    <2> QED  BY <1>1, <1>11, <2>1, <2>11 DEF ServiceInv
  <1> QED  BY <1>12, <1>13

\* A new execution: its first decision task is scheduled, and no decider runs.
LEMMA IInvInit ==
    ASSUME Init
    PROVE  IInv
  <1> DEFINE one == TaskEvent("WorkflowExecutionStarted")
             two == TaskEvent("DecisionTaskScheduled")
             new == <<one, two>>
  <1>1. Events(<<>>) /\ Len(<<>>) = 0
    BY SeqShort DEF Events
  <1>2. /\ DOMAIN one = EventFields /\ one.type \notin CloseTypes
        /\ DOMAIN two = EventFields /\ two.type \notin CloseTypes
    BY DEF TaskEvent, Event, EventFields, CloseTypes
  <1>3. history = Recorded(<<>>, new)
    BY DEF Init
  <1> HIDE DEF one, two
  <1>4. IsSeq(new) /\ Len(new) = 2 /\ new[1] = one /\ new[2] = two
    BY SeqShort
  <1> HIDE DEF new
  <1>5. \A i \in 1..Len(new) : DOMAIN new[i] = EventFields /\ new[i].type \notin CloseTypes
    <2>1. \A i \in 1..Len(new) : i = 1 \/ i = 2
      BY <1>4
    <2> QED  BY <1>2, <1>4, <2>1
  <1>6. Events(new)
    BY <1>4, <1>5 DEF Events
  <1>7. /\ Events(history) /\ Len(history) = 0 + Len(new)
        /\ \A i \in 1..Len(new) : history[0 + i].id = 0 + i /\ history[0 + i].type = new[i].type
    BY <1>1, <1>3, <1>6, RecordedEvents DEF SameEvent
  <1>8. Len(history) = 2 /\ \A i \in 1..2 : history[i].id = i /\ history[i].type \notin CloseTypes
    BY <1>4, <1>5, <1>7
  <1>9. HistoryOK
    <2>1. history # <<>>
      BY <1>7, <1>8, SeqFacts DEF Events
    <2>2. \A i \in 1..Len(history) - 1 : history[i].type \notin CloseTypes
      BY <1>8
    <2> QED  BY <1>7, <1>8, <2>1, <2>2 DEF HistoryOK
  <1>10. ~Closed
    BY <1>8, <1>9, ClosedByLast
  <1>11. ServiceInv
    BY <1>1, <1>9, <1>10, LimitsAssumption DEF Init, ServiceInv, BufferedOK
  <1>12. RunInv
    <2>1. /\ phase = "idle" /\ snapshot = <<>> /\ cursor = 0 /\ todo = <<>> /\ sm = NewStateManager
          /\ handlers = <<>> /\ agenda = <<>> /\ futures = <<>> /\ slots = [s \in Slots |-> 0]
          /\ fibers = <<>> /\ current = 0
      BY DEF Init, InitRun
    <2>2. DOMAIN NewStateManager = ManagerFields /\ NewStateManager.decisions = <<>>
      BY DEF NewStateManager, ManagerFields
    <2>3. ManagerOK
      BY <2>1, <2>2, SeqShort DEF ManagerOK
    <2>4. FibersOK /\ FuturesOK /\ AgendaOK /\ HandlersOK
      BY <2>1, SeqShort DEF FibersOK, FuturesOK, AgendaOK, HandlersOK
    <2>5. RunType
      BY <1>1, <2>1 DEF RunType, Phases
    <2> QED  BY <2>3, <2>4, <2>5 DEF RunInv
  <1> QED  BY <1>11, <1>12 DEF IInv

\* A decision task is handed out.
LEMMA TaskStarts ==
    ASSUME IInv, task = "scheduled", task' = "started",
           history' = Recorded(history, <<TaskEvent("DecisionTaskStarted")>>),
           UNCHANGED <<buffered, attempt, failures>>
    PROVE  ServiceInv'
  <1>1. HistoryOK /\ ~Closed
    BY DEF IInv, ServiceInv
  <1> DEFINE new == <<TaskEvent("DecisionTaskStarted")>>
  <1>2. Events(new) /\ new # <<>> /\ \A i \in 1..Len(new) : new[i].type \notin CloseTypes
    BY TaskEvents DEF CloseTypes
  <1>3. history' = Recorded(history, new)
    OBVIOUS
  <1> HIDE DEF new
  <1>4. HistoryOK' /\ ~Closed'
    BY <1>1, <1>2, <1>3, RecordOpen
  <1> QED  BY <1>4 DEF IInv, ServiceInv, BufferedOK

\* A run that has reported, or whose process is gone, leaves nothing behind.
LEMMA RunDropped ==
    ASSUME EndRun
    PROVE  RunInv'
  <1>1. Events(<<>>) /\ IsSeq(<<>>) /\ Len(<<>>) = 0
    BY SeqShort DEF Events
  <1>2. \A i \in 1..0 : FALSE
    OBVIOUS
  <1>3. \A i \in 1..Len(<<>>) : <<>>[i].id = i
    BY <1>1, <1>2
  <1>4. \A i \in 1..Len(<<>>) : IsAct(<<>>[i].act, 0, 0)
    BY <1>1, <1>2
  <1>5. "idle" \in Phases \ {"fiber"} /\ ResetRun("idle", "none", <<>>, <<>>)
    BY DEF Phases, EndRun
  <1> QED  BY <1>1, <1>3, <1>4, <1>5, EmptyRun, Zenon

\* Nothing of the run changes.
LEMMA RunInvStutter ==
    ASSUME RunInv, UNCHANGED runVars
    PROVE  RunInv'
  BY DEF runVars, RunInv, RunType, ManagerOK, FibersOK, FuturesOK, HandlersOK, AgendaOK

\* Nothing of the record changes.
LEMMA ServiceInvStutter ==
    ASSUME ServiceInv, UNCHANGED serverVars
    PROVE  ServiceInv'
  BY DEF serverVars, ServiceInv, HistoryOK, BufferedOK, Closed

\* Every step of the decider and of the service keeps the invariant.
LEMMA IInvNext ==
    ASSUME IInv, [Next]_vars
    PROVE  IInv'
  <1> USE DEF IInv
  <1>1. CASE Poll
    <2>1. ServiceInv'
      BY <1>1, TaskStarts DEF Poll
    <2>2. StartRun(history') /\ Events(history') /\ \A i \in 1..Len(history') : history'[i].id = i
      BY <1>1, <2>1 DEF Poll, ServiceInv, HistoryOK
    <2> DEFINE start == Handler(WorkflowTarget, "started", Act("start", 0, 0, "main"))
    <2>3. ResetRun("apply", "none", history', <<start>>)
      BY <2>2 DEF StartRun
    <2>4. start.act.kind = "start"
      BY DEF Handler, Act
    <2> HIDE DEF start
    <2>5. IsSeq(<<start>>) /\ \A i \in 1..Len(<<start>>) : IsAct(<<start>>[i].act, 0, 0)
      <3>1. IsSeq(<<start>>) /\ Len(<<start>>) = 1 /\ <<start>>[1] = start
        BY SeqShort
      <3>2. IsAct(start.act, 0, 0)
        BY <2>4 DEF IsAct
      <3>3. \A i \in 1..1 : i = 1
        OBVIOUS
      <3> QED  BY <3>1, <3>2, <3>3
    <2>6. "apply" \in Phases \ {"fiber"}
      BY DEF Phases
    <2>7. RunInv'
      BY <2>2, <2>3, <2>5, <2>6, EmptyRun, Zenon
    <2> QED  BY <2>1, <2>7
  <1>2. CASE PollInVain
    <2>1. ServiceInv'
      BY <1>2, TaskStarts DEF PollInVain
    <2>2. /\ ResetRun("failed", "not_run", history', <<>>)
          /\ Events(history') /\ \A i \in 1..Len(history') : history'[i].id = i
      BY <1>2, <2>1 DEF PollInVain, ServiceInv, HistoryOK
    <2>3. IsSeq(<<>>) /\ \A i \in 1..Len(<<>>) : IsAct(<<>>[i].act, 0, 0)
      BY SeqShort
    <2>4. "failed" \in Phases \ {"fiber"}
      BY DEF Phases
    <2>5. RunInv'
      BY <2>2, <2>3, <2>4, EmptyRun, Zenon
    <2> QED  BY <2>1, <2>5
  <1>3. CASE Run
    <2>1. UNCHANGED serverVars
      BY <1>3 DEF Run, serverVars
    <2> QED  BY <1>3, <2>1, RunKeeps, ServiceInvStutter
  <1>4. CASE CompleteTask
    BY <1>4, AcceptKeeps, RunDropped DEF CompleteTask, HoldsTask
  <1>5. CASE UnhandledDecision
    <2>1. failures' \in 0..MaxFailures /\ task = "started" /\ EndTask("DecisionTaskFailed") /\ EndRun
      BY <1>5 DEF UnhandledDecision, HoldsTask, ServiceInv
    <2>2. "DecisionTaskFailed" \notin CloseTypes
      BY DEF CloseTypes
    <2> QED  BY <2>1, <2>2, EndTaskKeeps, RunDropped
  <1>6. CASE LoseResponse
    BY <1>6, ServiceInvStutter, RunDropped DEF LoseResponse
  <1>7. CASE FailTask
    <2>1. failures' \in 0..MaxFailures /\ task = "started" /\ EndTask("DecisionTaskFailed") /\ EndRun
      BY <1>7, LimitsAssumption DEF FailTask, HoldsTask, ServiceInv
    <2>2. "DecisionTaskFailed" \notin CloseTypes
      BY DEF CloseTypes
    <2> QED  BY <2>1, <2>2, EndTaskKeeps, RunDropped
  <1>8. CASE GiveUpTask
    BY <1>8, ServiceInvStutter, RunDropped DEF GiveUpTask
  <1>9. CASE TimeOut
    <2>1. /\ failures' \in 0..MaxFailures /\ task = "started" /\ EndTask("DecisionTaskTimedOut")
          /\ UNCHANGED runVars
      BY <1>9, LimitsAssumption DEF TimeOut, ServiceInv
    <2>2. "DecisionTaskTimedOut" \notin CloseTypes
      BY DEF CloseTypes
    <2> QED  BY <2>1, <2>2, EndTaskKeeps, RunInvStutter
  <1>10. CASE Deploy
    BY <1>10, ServiceInvStutter, RunInvStutter DEF Deploy
  <1>11. ASSUME NEW e, Arrive(e), DOMAIN e = EventFields, e.type \notin CloseTypes
         PROVE  IInv'
    <2>1. ServiceInv'
      BY <1>11, ArriveKeeps
    <2>2. UNCHANGED runVars
      BY <1>11 DEF Arrive
    <2> QED  BY <2>1, <2>2, RunInvStutter
  <1>12. CASE ActivityReport
    <2>1. PICK o \in OpenActivities, type \in Reports \cap (ActivityClosed \cup {"ActivityTaskStarted"}) :
             Arrive(Event(type, o.id, 0, ""))
      BY <1>12 DEF ActivityReport
    <2>2. type \notin CloseTypes
      BY DEF CloseTypes, ActivityClosed
    <2> QED  BY <1>11, <2>1, <2>2 DEF Event, EventFields
  <1>13. CASE ChildReport
    <2>1. PICK o \in OpenChildren, type \in Reports \cap (ChildClosed \cup {"ChildWorkflowExecutionStarted"}) :
             Arrive(Event(type, o.id, 0, ""))
      BY <1>13 DEF ChildReport
    <2>2. type \notin CloseTypes
      BY DEF CloseTypes, ChildClosed
    <2> QED  BY <1>11, <2>1, <2>2 DEF Event, EventFields
  <1>14. CASE TimerFires
    <2>1. PICK o \in OpenTimers : Arrive(Event("TimerFired", o.id, o.key, ""))
      BY <1>14 DEF TimerFires
    <2> QED  BY <1>11, <2>1 DEF Event, EventFields, CloseTypes
  <1>15. CASE Signal
    <2>1. Arrive(TaskEvent("WorkflowExecutionSignaled"))
      BY <1>15 DEF Signal
    <2> QED  BY <1>11, <2>1 DEF TaskEvent, Event, EventFields, CloseTypes
  <1>16. CASE CancelRequest
    <2>1. Arrive(TaskEvent("WorkflowExecutionCancelRequested"))
      BY <1>16 DEF CancelRequest
    <2> QED  BY <1>11, <2>1 DEF TaskEvent, Event, EventFields, CloseTypes
  <1>17. CASE UNCHANGED vars
    <2>1. UNCHANGED runVars /\ UNCHANGED serverVars
      BY <1>17 DEF vars, runVars, serverVars
    <2> QED  BY <2>1, RunInvStutter, ServiceInvStutter
  <1> QED
    BY <1>1, <1>2, <1>3, <1>4, <1>5, <1>6, <1>7, <1>8, <1>9, <1>10, <1>12, <1>13, <1>14, <1>15,
       <1>16, <1>17 DEF Next

\* The inductive invariant of a workflow execution, for every program and for
\* every bound.
LEMMA WorkflowInvariant == Spec => []IInv
  <1>1. Init => IInv
    BY IInvInit
  <1>2. IInv /\ [Next]_vars => IInv'
    BY IInvNext
  <1> QED  BY <1>1, <1>2, PTL DEF Spec

\* The record of the service and the state of a decider (Executor#run with its
\* state manager, dispatcher, futures and fibers) keep their types, whatever
\* the workflow does and however often a decision task fails, times out or is
\* run again.
THEOREM WorkflowTypeCorrect == Spec => []TypeOK
  <1>1. IInv => TypeOK
    BY DEF IInv, RunInv, RunType, ServiceInv, HistoryOK, TypeOK
  <1> QED  BY <1>1, WorkflowInvariant, PTL

\* Nothing follows the end of a workflow: no decision comes after the one that
\* completes or fails it (StateManager#schedule, Context#complete and
\* Context#fail), and no event after the one that closes the execution.
THEOREM WorkflowClosesLast == Spec => []CloseIsLast
  <1>1. IInv => CloseIsLast
    BY DEF IInv, RunInv, ManagerOK, ServiceInv, HistoryOK, CloseIsLast, CloseTypes
  <1> QED  BY <1>1, WorkflowInvariant, PTL
=============================================================================
