----------------------------- MODULE DataLemmas -----------------------------
(***************************************************************************)
(* The data of the models: what a Go channel, or any queue modelled by a   *)
(* sequence, holds after an element is put in at the back or taken from    *)
(* the front; induction over the natural numbers; and sums over finite     *)
(* sets.                                                                   *)
(***************************************************************************)
EXTENDS Lists, Functions, SequenceTheorems, NaturalsInduction,
        WellFoundedInduction, FiniteSetTheorems, TLAPS

-----------------------------------------------------------------------------
(* What a queue holds after an element is appended, and after its head is  *)
(* taken.                                                                  *)
LEMMA RangeAppend ==
  ASSUME NEW S, NEW s \in Seq(S), NEW e \in S
  PROVE  Range(Append(s, e)) = Range(s) \cup {e}
<1>1. /\ Len(Append(s, e)) = Len(s) + 1
      /\ \A i \in 1..Len(s) : Append(s, e)[i] = s[i]
      /\ Append(s, e)[Len(s) + 1] = e
      /\ DOMAIN Append(s, e) = 1..Len(s) + 1 /\ DOMAIN s = 1..Len(s) /\ Len(s) \in Nat
  BY AppendProperties, LenProperties
<1>2. Range(s) \cup {e} \subseteq Range(Append(s, e))
  <2>1. \A i \in 1..Len(s) : i \in 1..Len(s) + 1
    BY <1>1
  <2>2. Len(s) + 1 \in 1..Len(s) + 1
    BY <1>1
  <2> QED  BY <1>1, <2>1, <2>2 DEF Range
<1>3. Range(Append(s, e)) \subseteq Range(s) \cup {e}
  <2>1. \A i \in 1..Len(s) + 1 : i \in 1..Len(s) \/ i = Len(s) + 1
    BY <1>1
  <2> QED  BY <1>1, <2>1 DEF Range
<1> QED  BY <1>2, <1>3

LEMMA RangeHeadTail ==
  ASSUME NEW S, NEW s \in Seq(S), s # <<>>
  PROVE  Range(s) = {Head(s)} \cup Range(Tail(s))
<1>1. /\ Len(s) \in Nat /\ Len(s) > 0 /\ DOMAIN s = 1..Len(s)
      /\ Head(s) = s[1]
  BY EmptySeq, LenProperties
<1>2. /\ DOMAIN Tail(s) = 1..(Len(s) - 1)
      /\ \A i \in 1..(Len(s) - 1) : Tail(s)[i] = s[i + 1]
  BY <1>1, HeadTailProperties, LenProperties
<1>3. \A i \in 1..Len(s) : i = 1 \/ (i - 1 \in 1..(Len(s) - 1) /\ s[i] = Tail(s)[i - 1])
  BY <1>1, <1>2
<1>4. \A i \in DOMAIN s : s[i] \in {Head(s)} \cup Range(Tail(s))
  <2> SUFFICES ASSUME NEW i \in DOMAIN s PROVE s[i] \in {Head(s)} \cup Range(Tail(s))
    OBVIOUS
  <2>1. CASE i = 1
    BY <2>1, <1>1
  <2>2. CASE i - 1 \in DOMAIN Tail(s) /\ s[i] = Tail(s)[i - 1]
    BY <2>2 DEF Range
  <2> QED  BY <2>1, <2>2, <1>1, <1>2, <1>3
<1>5. {Head(s)} \cup Range(Tail(s)) \subseteq Range(s)
  <2>1. \A i \in 1..(Len(s) - 1) : i + 1 \in 1..Len(s)
    BY <1>1
  <2>2. 1 \in 1..Len(s)
    BY <1>1
  <2> QED  BY <1>1, <1>2, <2>1, <2>2 DEF Range
<1> QED  BY <1>4, <1>5 DEF Range

-----------------------------------------------------------------------------
(* An empty queue holds nothing.                                           *)
LEMMA EmptyRange == Range(<<>>) = {}
  BY DEF Range

(* A queue without repetition, and a queue of disjoint sets, stay so       *)
(* when a new element comes in and when the head goes out.                 *)
NoRepeat(s) == \A i, j \in DOMAIN s : s[i] = s[j] => i = j
Disjoint(s) == \A i, j \in DOMAIN s : i # j => s[i] \cap s[j] = {}

LEMMA NoRepeatAppend ==
  ASSUME NEW S, NEW s \in Seq(S), NEW e \in S, NoRepeat(s), e \notin Range(s)
  PROVE  NoRepeat(Append(s, e))
<1>1. /\ DOMAIN Append(s, e) = 1..Len(s) + 1 /\ DOMAIN s = 1..Len(s) /\ Len(s) \in Nat
      /\ \A i \in 1..Len(s) : Append(s, e)[i] = s[i] /\ s[i] # e
      /\ Append(s, e)[Len(s) + 1] = e
  BY AppendProperties, LenProperties DEF Range
<1>2. \A i \in 1..Len(s) + 1 : i \in 1..Len(s) \/ i = Len(s) + 1
  BY <1>1
<1> QED  BY <1>1, <1>2 DEF NoRepeat

LEMMA NoRepeatTail ==
  ASSUME NEW S, NEW s \in Seq(S), s # <<>>, NoRepeat(s)
  PROVE  NoRepeat(Tail(s)) /\ Head(s) \notin Range(Tail(s))
<1>1. /\ DOMAIN Tail(s) = 1..(Len(s) - 1) /\ DOMAIN s = 1..Len(s) /\ Len(s) \in Nat
      /\ Len(s) > 0
      /\ \A i \in 1..(Len(s) - 1) : Tail(s)[i] = s[i + 1]
      /\ Head(s) = s[1]
  BY HeadTailProperties, LenProperties, EmptySeq
<1>2. \A i \in 1..(Len(s) - 1) : i + 1 \in 1..Len(s) /\ i + 1 # 1
  BY <1>1
<1>3. 1 \in 1..Len(s)
  BY <1>1
<1>4. NoRepeat(Tail(s))
  BY <1>1, <1>2 DEF NoRepeat
<1>5. \A i \in DOMAIN Tail(s) : Tail(s)[i] # Head(s)
  BY <1>1, <1>2, <1>3 DEF NoRepeat
<1> QED  BY <1>4, <1>5 DEF Range

LEMMA DisjointAppend ==
  ASSUME NEW S, NEW s \in Seq(SUBSET S), NEW e \in SUBSET S, Disjoint(s),
         e \cap UNION Range(s) = {}
  PROVE  Disjoint(Append(s, e))
<1>1. /\ DOMAIN Append(s, e) = 1..Len(s) + 1 /\ DOMAIN s = 1..Len(s) /\ Len(s) \in Nat
      /\ \A i \in 1..Len(s) : Append(s, e)[i] = s[i]
      /\ Append(s, e)[Len(s) + 1] = e
  BY AppendProperties, LenProperties
<1>2. \A i \in 1..Len(s) : e \cap s[i] = {} /\ s[i] \cap e = {}
  BY <1>1 DEF Range
<1>3. \A i \in 1..Len(s) + 1 : i \in 1..Len(s) \/ i = Len(s) + 1
  BY <1>1
<1> QED  BY <1>1, <1>2, <1>3 DEF Disjoint

LEMMA DisjointTail ==
  ASSUME NEW S, NEW s \in Seq(SUBSET S), s # <<>>, Disjoint(s)
  PROVE  Disjoint(Tail(s)) /\ Head(s) \cap UNION Range(Tail(s)) = {}
<1>1. /\ DOMAIN Tail(s) = 1..(Len(s) - 1) /\ DOMAIN s = 1..Len(s) /\ Len(s) \in Nat
      /\ Len(s) > 0
      /\ \A i \in 1..(Len(s) - 1) : Tail(s)[i] = s[i + 1]
      /\ Head(s) = s[1]
  BY HeadTailProperties, LenProperties, EmptySeq
<1>2. \A i \in 1..(Len(s) - 1) : i + 1 \in 1..Len(s) /\ i + 1 # 1
  BY <1>1
<1>3. 1 \in 1..Len(s)
  BY <1>1
<1>4. Disjoint(Tail(s))
  BY <1>1, <1>2 DEF Disjoint
<1>5. \A i \in DOMAIN Tail(s) : Head(s) \cap Tail(s)[i] = {}
  BY <1>1, <1>2, <1>3 DEF Disjoint
<1> QED  BY <1>4, <1>5 DEF Range

-----------------------------------------------------------------------------
(* A queue whose head is put back in front of it.                          *)
LEMMA FrontOfPipe ==
  ASSUME NEW S, NEW s \in Seq(S), NEW e \in S
  PROVE  /\ <<e>> \o s \in Seq(S) /\ <<e>> \o s # <<>>
         /\ Head(<<e>> \o s) = e
         /\ Tail(<<e>> \o s) = s
<1>1. <<e>> \in Seq(S) /\ Len(<<e>>) = 1 /\ <<e>>[1] = e
  OBVIOUS
<1>2. /\ <<e>> \o s \in Seq(S)
      /\ Len(<<e>> \o s) = 1 + Len(s)
      /\ \A i \in 1..(1 + Len(s)) : (<<e>> \o s)[i] = IF i <= 1 THEN e ELSE s[i - 1]
  BY <1>1, ConcatProperties
<1>3. Len(s) \in Nat
  BY LenProperties
<1>4. <<e>> \o s # <<>> /\ Head(<<e>> \o s) = e
  BY <1>2, <1>3, EmptySeq
<1>5. /\ Tail(<<e>> \o s) \in Seq(S)
      /\ Len(Tail(<<e>> \o s)) = Len(s)
      /\ \A i \in 1..Len(s) : Tail(<<e>> \o s)[i] = (<<e>> \o s)[i + 1]
  BY <1>2, <1>3, <1>4, HeadTailProperties
<1>6. \A i \in 1..Len(s) : Tail(<<e>> \o s)[i] = s[i]
  BY <1>2, <1>3, <1>5
<1>7. Tail(<<e>> \o s) = s
  BY <1>3, <1>5, <1>6, SeqEqual
<1> QED  BY <1>2, <1>4, <1>7

LEMMA RangeOfPipe ==
  ASSUME NEW S, NEW s \in Seq(S), NEW e \in S
  PROVE  Range(<<e>> \o s) = {e} \cup Range(s)
<1>1. Range(<<e>> \o s) = {Head(<<e>> \o s)} \cup Range(Tail(<<e>> \o s))
  BY FrontOfPipe, RangeHeadTail
<1> QED  BY <1>1, FrontOfPipe

LEMMA TakenFromPipe ==
  ASSUME NEW S, NEW s \in Seq(S), s # <<>>
  PROVE  <<Head(s)>> \o Tail(s) = s
  BY HeadTailProperties, ConcatProperties, SeqEqual, EmptySeq, LenProperties

(* A queue is one of any set that has its elements.                        *)
LEMMA SeqOfElements ==
  ASSUME NEW R, NEW n \in Nat, NEW s, s = [i \in 1..n |-> s[i]], Range(s) \subseteq R
  PROVE  s \in Seq(R)
<1>1. DOMAIN s = 1..n
  OBVIOUS
<1>2. \A i \in 1..n : s[i] \in R
  BY <1>1 DEF Range
<1> QED  BY <1>2

LEMMA WiderSeq ==
  ASSUME NEW S, NEW s \in Seq(S), NEW R, Range(s) \subseteq R
  PROVE  s \in Seq(R)
<1>1. Len(s) \in Nat /\ s = [i \in 1..Len(s) |-> s[i]]
  BY LenProperties
<1> QED  BY <1>1, SeqOfElements

(* One queue behind another.                                               *)
LEMMA ConcatElements ==
  ASSUME NEW S, NEW s \in Seq(S), NEW t \in Seq(S)
  PROVE  /\ Len(s) \in Nat /\ Len(t) \in Nat
         /\ DOMAIN s = 1..Len(s) /\ DOMAIN t = 1..Len(t)
         /\ DOMAIN (s \o t) = 1..(Len(s) + Len(t))
         /\ \A i \in 1..Len(s) : (s \o t)[i] = s[i]
         /\ \A i \in 1..Len(t) : (s \o t)[Len(s) + i] = t[i]
         /\ \A i \in 1..(Len(s) + Len(t)) : i \in 1..Len(s) \/ i - Len(s) \in 1..Len(t)
<1>1. Len(s) \in Nat /\ Len(t) \in Nat /\ DOMAIN s = 1..Len(s) /\ DOMAIN t = 1..Len(t)
  BY LenProperties
<1>2. s \o t \in Seq(S) /\ Len(s \o t) = Len(s) + Len(t)
  BY ConcatProperties
<1>3. DOMAIN (s \o t) = 1..(Len(s) + Len(t))
  BY <1>2, LenProperties
<1>4. /\ \A i \in 1..Len(s) : (s \o t)[i] = s[i]
      /\ \A i \in 1..Len(t) : (s \o t)[Len(s) + i] = t[i]
  BY <1>1, ConcatProperties
<1>5. \A i \in 1..(Len(s) + Len(t)) : i \in 1..Len(s) \/ i - Len(s) \in 1..Len(t)
  BY <1>1
<1> QED  BY <1>1, <1>3, <1>4, <1>5

LEMMA RangeConcat ==
  ASSUME NEW S, NEW s \in Seq(S), NEW t \in Seq(S)
  PROVE  Range(s \o t) = Range(s) \cup Range(t)
<1>1. ASSUME NEW x \in Range(s \o t) PROVE x \in Range(s) \cup Range(t)
  <2>1. PICK i \in 1..(Len(s) + Len(t)) : x = (s \o t)[i]
    BY ConcatElements DEF Range
  <2>2. CASE i \in 1..Len(s)
    BY <2>1, <2>2, ConcatElements DEF Range
  <2>3. CASE i - Len(s) \in 1..Len(t)
    <3>1. i = Len(s) + (i - Len(s))
      BY ConcatElements
    <3>2. x = t[i - Len(s)]
      BY <2>1, <2>3, <3>1, ConcatElements
    <3> QED  BY <2>3, <3>2, ConcatElements DEF Range
  <2> QED  BY <2>2, <2>3, ConcatElements
<1>2. ASSUME NEW x \in Range(s) PROVE x \in Range(s \o t)
  <2>1. PICK i \in 1..Len(s) : x = s[i]
    BY ConcatElements DEF Range
  <2>2. i \in 1..(Len(s) + Len(t))
    BY ConcatElements
  <2> QED  BY <2>1, <2>2, ConcatElements DEF Range
<1>3. ASSUME NEW x \in Range(t) PROVE x \in Range(s \o t)
  <2>1. PICK i \in 1..Len(t) : x = t[i]
    BY ConcatElements DEF Range
  <2>2. Len(s) + i \in DOMAIN (s \o t)
    BY ConcatElements
  <2>3. (s \o t)[Len(s) + i] = x
    BY <2>1, ConcatElements
  <2> QED  BY <2>2, <2>3 DEF Range
<1> QED  BY <1>1, <1>2, <1>3

(* No element of X is repeated.                                            *)
OnceIn(X, s) == \A i, j \in DOMAIN s : s[i] \in X /\ s[i] = s[j] => i = j

LEMMA OnceTail ==
  ASSUME NEW X, NEW S, NEW s \in Seq(S), s # <<>>, OnceIn(X, s)
  PROVE  /\ OnceIn(X, Tail(s))
         /\ Head(s) \in X => Head(s) \notin Range(Tail(s))
<1>1. /\ DOMAIN Tail(s) = 1..(Len(s) - 1) /\ DOMAIN s = 1..Len(s) /\ Len(s) \in Nat
      /\ Len(s) > 0
      /\ \A i \in 1..(Len(s) - 1) : Tail(s)[i] = s[i + 1]
      /\ Head(s) = s[1]
  BY HeadTailProperties, LenProperties, EmptySeq
<1>2. \A i \in 1..(Len(s) - 1) : i + 1 \in 1..Len(s) /\ i + 1 # 1
  BY <1>1
<1>3. 1 \in 1..Len(s)
  BY <1>1
<1>4. ASSUME NEW i \in 1..(Len(s) - 1), NEW j \in 1..(Len(s) - 1),
             Tail(s)[i] \in X, Tail(s)[i] = Tail(s)[j]
      PROVE  i = j
  <2>1. i + 1 = j + 1
    BY <1>1, <1>2, <1>4 DEF OnceIn
  <2> QED  BY <2>1
<1>5. Head(s) \in X => \A i \in 1..(Len(s) - 1) : Tail(s)[i] # Head(s)
  BY <1>1, <1>2, <1>3 DEF OnceIn
<1> QED  BY <1>1, <1>4, <1>5 DEF OnceIn, Range

LEMMA OnceConcat ==
  ASSUME NEW X, NEW S, NEW s \in Seq(S), NEW t \in Seq(S), OnceIn(X, s), OnceIn(X, t),
         Range(s) \cap Range(t) \cap X = {}
  PROVE  OnceIn(X, s \o t)
<1> SUFFICES ASSUME NEW i \in 1..(Len(s) + Len(t)), NEW j \in 1..(Len(s) + Len(t)),
                    (s \o t)[i] \in X, (s \o t)[i] = (s \o t)[j]
             PROVE  i = j
  BY ConcatElements DEF OnceIn
<1>1. /\ \A k \in 1..(Len(s) + Len(t)) : k \in 1..Len(s) \/ k - Len(s) \in 1..Len(t)
      /\ Len(s) \in Nat
  BY ConcatElements
<1>2. \A k \in 1..(Len(s) + Len(t)) : k - Len(s) \in 1..Len(t) => (s \o t)[k] = t[k - Len(s)]
  <2> SUFFICES ASSUME NEW k \in 1..(Len(s) + Len(t)), k - Len(s) \in 1..Len(t)
               PROVE  (s \o t)[k] = t[k - Len(s)]
    OBVIOUS
  <2>1. k = Len(s) + (k - Len(s))
    BY <1>1
  <2> QED  BY <2>1, ConcatElements
<1>3. \A k \in 1..Len(s), l \in 1..Len(t) : s[k] \in X => s[k] # t[l]
  <2>1. DOMAIN s = 1..Len(s) /\ DOMAIN t = 1..Len(t)
    BY ConcatElements
  <2>2. (\A k \in 1..Len(s) : s[k] \in Range(s)) /\ \A l \in 1..Len(t) : t[l] \in Range(t)
    BY <2>1 DEF Range
  <2> QED  BY <2>2
<1>4. CASE i \in 1..Len(s) /\ j \in 1..Len(s)
  BY <1>4, ConcatElements DEF OnceIn
<1>5. CASE i - Len(s) \in 1..Len(t) /\ j - Len(s) \in 1..Len(t)
  <2>1. i - Len(s) = j - Len(s)
    BY <1>2, <1>5, ConcatElements DEF OnceIn
  <2> QED  BY <1>1, <2>1
<1>6. CASE i \in 1..Len(s) /\ j - Len(s) \in 1..Len(t)
  BY <1>2, <1>3, <1>6, ConcatElements
<1>7. CASE i - Len(s) \in 1..Len(t) /\ j \in 1..Len(s)
  BY <1>2, <1>3, <1>7, ConcatElements
<1> QED  BY <1>1, <1>4, <1>5, <1>6, <1>7

-----------------------------------------------------------------------------
(* Induction, stated for a set of numbers: the theorems of the library     *)
(* take a predicate, this one takes the set of what satisfies it.          *)
LEMMA LeastOf ==
  ASSUME NEW T, T \subseteq Nat, T # {}
  PROVE  \E n \in T : \A m \in T : n <= m
<1>1. IsWellFoundedOn(OpToRel(<, Nat), Nat)
  BY NatLessThanWellFounded
<1>2. PICK n \in T : \A m \in T : ~(<<m, n>> \in OpToRel(<, Nat))
  BY <1>1, WFMin
<1>3. \A m \in T : ~(m < n)
  BY <1>2 DEF OpToRel
<1> QED  BY <1>3

LEMMA SetInduction ==
  ASSUME NEW T, 0 \in T, \A n \in Nat : n \in T => n + 1 \in T
  PROVE  \A n \in Nat : n \in T
<1> SUFFICES ASSUME ~(Nat \subseteq T) PROVE FALSE
  OBVIOUS
<1> DEFINE U == Nat \ T
<1>1. PICK n \in U : \A m \in U : n <= m
  BY LeastOf
<1>2. n # 0 /\ n - 1 \in Nat /\ n - 1 \notin U
  BY <1>1
<1> QED  BY <1>2

-----------------------------------------------------------------------------
(* What a loop keeps of a slice.                                           *)

(* Only(seq, set), as a loop over seq.                                     *)
Chose(chosen, seq, set, i) ==
  IF seq[i] \in set THEN Append(chosen, seq[i]) ELSE chosen
Choosing(seq, set, K, g) ==
  g = [i \in 0..K |-> IF i = 0 THEN <<>> ELSE Chose(g[i - 1], seq, set, i)]

LEMMA ChoosingExists ==
  ASSUME NEW seq, NEW set
  PROVE  \A K \in Nat : \E g : Choosing(seq, set, K, g)
<1> DEFINE T == {K \in Nat : \E g : Choosing(seq, set, K, g)}
<1>1. 0 \in T
  <2> DEFINE g == [i \in 0..0 |-> <<>>]
  <2>1. Choosing(seq, set, 0, g)
    <3>1. \A i \in 0..0 : i = 0
      OBVIOUS
    <3> QED  BY <3>1 DEF Choosing
  <2> QED  BY <2>1
<1>2. ASSUME NEW K \in Nat, K \in T PROVE K + 1 \in T
  <2>1. PICK g : Choosing(seq, set, K, g)
    BY <1>2
  <2> DEFINE h == [i \in 0..(K + 1) |-> IF i = 0 THEN <<>> ELSE Chose(g[i - 1], seq, set, i)]
  <2>2. \A i \in 0..K : h[i] = g[i]
    <3>1. \A i \in 0..K : i \in 0..(K + 1)
      OBVIOUS
    <3>2. \A i \in 0..K : g[i] = IF i = 0 THEN <<>> ELSE Chose(g[i - 1], seq, set, i)
      BY <2>1 DEF Choosing
    <3> QED  BY <3>1, <3>2
  <2>3. \A i \in 0..(K + 1) : i # 0 => i - 1 \in 0..K
    OBVIOUS
  <2>4. \A i \in 0..(K + 1) : h[i] = IF i = 0 THEN <<>> ELSE Chose(h[i - 1], seq, set, i)
    BY <2>2, <2>3
  <2>5. h = [i \in 0..(K + 1) |-> h[i]]
    OBVIOUS
  <2> HIDE DEF h
  <2>6. Choosing(seq, set, K + 1, h)
    BY <2>4, <2>5 DEF Choosing
  <2> QED  BY <2>6
<1> HIDE DEF T
<1>3. \A K \in Nat : K \in T
  BY <1>1, <1>2, SetInduction
<1> QED  BY <1>3 DEF T

(* Only keeps the elements that are in the set, each as often as it was.   *)
LEMMA OnlyKeeps ==
  ASSUME NEW S, NEW seq \in Seq(S), NEW set
  PROVE  /\ Only(seq, set) \in Seq(S)
         /\ Range(Only(seq, set)) = Range(seq) \cap set
         /\ NoRepeat(seq) => NoRepeat(Only(seq, set))
<1> DEFINE N == Len(seq)
           g == CHOOSE g : Choosing(seq, set, N, g)
           First(k) == {seq[i] : i \in 1..k}
           Upto(k) == /\ g[k] \in Seq(S)
                      /\ Range(g[k]) = First(k) \cap set
                      /\ NoRepeat(seq) => NoRepeat(g[k])
           T == {k \in Nat : k <= N => Upto(k)}
<1>0. N \in Nat /\ DOMAIN seq = 1..N /\ \A i \in 1..N : seq[i] \in S
  BY LenProperties, ElementOfSeq
<1>1. Choosing(seq, set, N, g)
  BY <1>0, ChoosingExists
<1>2. Only(seq, set) = g[N]
  BY DEF Only, Choosing, Chose
<1> HIDE DEF g
<1>3. g[0] = <<>> /\ \A k \in 1..N : g[k] = Chose(g[k - 1], seq, set, k)
  <2>1. 0 \in 0..N /\ \A k \in 1..N : k \in 0..N /\ k # 0
    BY <1>0
  <2> QED  BY <1>1, <2>1 DEF Choosing
<1>4. 0 \in T
  <2>1. First(0) = {}
    OBVIOUS
  <2>2. <<>> \in Seq(S) /\ Range(<<>>) = {} /\ NoRepeat(<<>>)
    BY EmptyRange DEF NoRepeat
  <2> QED  BY <1>3, <2>1, <2>2
<1>5. ASSUME NEW k \in Nat, k \in T PROVE k + 1 \in T
  <2> SUFFICES ASSUME k + 1 <= N PROVE Upto(k + 1)
    OBVIOUS
  <2>1. k + 1 \in 1..N /\ k <= N /\ (k + 1) - 1 = k
    BY <1>0
  <2>2. Upto(k) /\ g[k + 1] = Chose(g[k], seq, set, k + 1)
    BY <1>3, <1>5, <2>1
  <2>8. PICK chosen \in Seq(S) : chosen = g[k]
    BY <2>2
  <2>3. First(k + 1) = First(k) \cup {seq[k + 1]}
    <3>1. 1..(k + 1) = 1..k \cup {k + 1}
      OBVIOUS
    <3> QED  BY <3>1
  <2>4. NoRepeat(seq) => seq[k + 1] \notin First(k)
    <3>1. \A i \in 1..k : i \in 1..N /\ i # k + 1
      BY <2>1
    <3> QED  BY <1>0, <2>1, <3>1 DEF NoRepeat
  <2>5. seq[k + 1] \in S
    BY <1>0, <2>1
  <2> HIDE DEF First
  <2>6. CASE seq[k + 1] \in set
    <3> DEFINE e == seq[k + 1]
    <3>0. e \in S /\ e \in set
      BY <2>5, <2>6
    <3>1. g[k + 1] = Append(chosen, e)
      BY <2>2, <2>6, <2>8 DEF Chose
    <3>2. NoRepeat(seq) => NoRepeat(chosen) /\ e \notin Range(chosen)
      BY <2>2, <2>4, <2>8
    <3>3. Range(chosen) = First(k) \cap set /\ First(k + 1) = First(k) \cup {e}
      BY <2>2, <2>3, <2>8
    <3> HIDE DEF e, Upto
    <3>4. Append(chosen, e) \in Seq(S)
      BY <3>0, AppendProperties
    <3>5. Range(Append(chosen, e)) = Range(chosen) \cup {e}
      BY <3>0, RangeAppend
    <3>6. NoRepeat(seq) => NoRepeat(Append(chosen, e))
      BY <3>0, <3>2, NoRepeatAppend
    <3> QED  BY <3>0, <3>1, <3>3, <3>4, <3>5, <3>6 DEF Upto
  <2>7. CASE seq[k + 1] \notin set
    BY <2>2, <2>3, <2>7 DEF Chose
  <2> QED  BY <2>6, <2>7
<1> HIDE DEF T
<1>6. N \in T
  BY <1>0, <1>4, <1>5, SetInduction
<1>7. Upto(N)
  BY <1>0, <1>6 DEF T
<1>8. First(N) = Range(seq)
  BY <1>0 DEF Range
<1> QED  BY <1>2, <1>7, <1>8

-----------------------------------------------------------------------------
(* The sum of f over a finite set.  It is defined by a choice of the       *)
(* element to take out first; the lemmas show that any will do.            *)
Total(f, S) == FoldFunctionOnSet(LAMBDA x, y : x + y, 0, f, S)

Chosen(S) == CHOOSE x \in S : TRUE

(* g sums f over the sets of D, one chosen element after the other.        *)
SumsUp(f, D, g) ==
  g = [s \in D |-> IF s = {} THEN 0 ELSE f[Chosen(s)] + g[s \ {Chosen(s)}]]

LEMMA TotalUnfolded ==
  ASSUME NEW f, NEW S
  PROVE  Total(f, S) = (CHOOSE g : SumsUp(f, SUBSET S, g))[S]
BY DEF Total, FoldFunctionOnSet, MapThenFoldSet, SumsUp, Chosen

UpTo(S, n) == {s \in SUBSET S : Cardinality(s) <= n}

LEMMA RemoveChosen ==
  ASSUME NEW S, IsFiniteSet(S), NEW s \in SUBSET S, s # {}
  PROVE  /\ Chosen(s) \in s
         /\ s \ {Chosen(s)} \in SUBSET S
         /\ IsFiniteSet(s) /\ Cardinality(s) \in Nat
         /\ Cardinality(s \ {Chosen(s)}) = Cardinality(s) - 1
<1>1. Chosen(s) \in s
  BY DEF Chosen
<1>2. IsFiniteSet(s)
  BY FS_Subset
<1> QED  BY <1>1, <1>2, FS_CardinalityType, FS_RemoveElement

LEMMA SumsExist ==
  ASSUME NEW f, NEW S, IsFiniteSet(S), \A x \in S : f[x] \in Nat
  PROVE  \E g \in [SUBSET S -> Nat] : SumsUp(f, SUBSET S, g)
<1> DEFINE T == {n \in Nat : \E g \in [UpTo(S, n) -> Nat] : SumsUp(f, UpTo(S, n), g)}
<1>1. 0 \in T
  <2>1. UpTo(S, 0) = {{}}
    <3>1. \A s \in SUBSET S : Cardinality(s) <= 0 <=> s = {}
      BY FS_Subset, FS_CardinalityType, FS_EmptySet
    <3> QED  BY <3>1 DEF UpTo
  <2> DEFINE g == [s \in {{}} |-> 0]
  <2>2. g \in [UpTo(S, 0) -> Nat] /\ SumsUp(f, UpTo(S, 0), g)
    BY <2>1 DEF SumsUp
  <2> QED  BY <2>2
<1>2. ASSUME NEW n \in Nat, n \in T PROVE n + 1 \in T
  <2>1. PICK g \in [UpTo(S, n) -> Nat] : SumsUp(f, UpTo(S, n), g)
    BY <1>2
  <2> DEFINE h == [s \in UpTo(S, n + 1) |->
                     IF s = {} THEN 0 ELSE f[Chosen(s)] + g[s \ {Chosen(s)}]]
  <2>2. \A s \in UpTo(S, n) : s \in UpTo(S, n + 1) /\ h[s] = g[s]
    <3>1. ASSUME NEW s \in UpTo(S, n) PROVE s \in UpTo(S, n + 1)
      BY FS_Subset, FS_CardinalityType DEF UpTo
    <3>2. ASSUME NEW s \in UpTo(S, n) PROVE h[s] = g[s]
      BY <2>1, <3>1 DEF SumsUp
    <3> QED  BY <3>1, <3>2
  <2>3. \A s \in UpTo(S, n + 1) : s # {} => s \ {Chosen(s)} \in UpTo(S, n) /\ Chosen(s) \in S
    BY RemoveChosen DEF UpTo
  <2>4. h \in [UpTo(S, n + 1) -> Nat]
    <3>1. ASSUME NEW s \in UpTo(S, n + 1) PROVE h[s] \in Nat
      BY <2>3
    <3> QED  BY <3>1
  <2>5. SumsUp(f, UpTo(S, n + 1), h)
    <3>1. ASSUME NEW s \in UpTo(S, n + 1)
          PROVE  h[s] = IF s = {} THEN 0 ELSE f[Chosen(s)] + h[s \ {Chosen(s)}]
      BY <2>2, <2>3
    <3> HIDE DEF h
    <3>2. h = [s \in UpTo(S, n + 1) |-> h[s]]
      BY <2>4
    <3> QED  BY <3>1, <3>2 DEF SumsUp
  <2> HIDE DEF h
  <2> QED  BY <2>4, <2>5
<1> HIDE DEF T
<1>3. \A n \in Nat : n \in T
  BY <1>1, <1>2, SetInduction
<1>4. Cardinality(S) \in Nat /\ UpTo(S, Cardinality(S)) = SUBSET S
  BY FS_CardinalityType, FS_Subset DEF UpTo
<1> QED  BY <1>3, <1>4 DEF T

(* The sums over the subsets of a set are those over its own subsets.      *)
LEMMA SumsAgree ==
  ASSUME NEW f, NEW S, IsFiniteSet(S), NEW R \in SUBSET S, NEW g, NEW h,
         SumsUp(f, SUBSET S, g), SumsUp(f, SUBSET R, h)
  PROVE  \A s \in SUBSET R : h[s] = g[s]
<1> DEFINE T == {n \in Nat : \A s \in SUBSET R : Cardinality(s) = n => h[s] = g[s]}
<1>0. /\ \A s \in SUBSET R : h[s] = IF s = {} THEN 0 ELSE f[Chosen(s)] + h[s \ {Chosen(s)}]
      /\ \A s \in SUBSET R : g[s] = IF s = {} THEN 0 ELSE f[Chosen(s)] + g[s \ {Chosen(s)}]
  BY DEF SumsUp
<1>1. 0 \in T
  BY <1>0, FS_Subset, FS_EmptySet
<1>2. ASSUME NEW n \in Nat, n \in T PROVE n + 1 \in T
  <2>1. ASSUME NEW s \in SUBSET R, Cardinality(s) = n + 1 PROVE h[s] = g[s]
    <3>1. s # {}
      BY <2>1, FS_EmptySet
    <3>2. s \ {Chosen(s)} \in SUBSET R /\ Cardinality(s \ {Chosen(s)}) = n
      BY <2>1, <3>1, RemoveChosen
    <3>3. h[s \ {Chosen(s)}] = g[s \ {Chosen(s)}]
      BY <1>2, <3>2
    <3> QED  BY <1>0, <3>3
  <2> QED  BY <2>1
<1> HIDE DEF T
<1>3. \A n \in Nat : n \in T
  BY <1>1, <1>2, SetInduction
<1>4. \A s \in SUBSET R : Cardinality(s) \in Nat
  BY FS_Subset, FS_CardinalityType
<1> QED  BY <1>3, <1>4 DEF T

LEMMA TotalIsSum ==
  ASSUME NEW f, NEW S, IsFiniteSet(S), \A x \in S : f[x] \in Nat
  PROVE  \E g \in [SUBSET S -> Nat] :
            /\ SumsUp(f, SUBSET S, g)
            /\ \A R \in SUBSET S : Total(f, R) = g[R]
<1>1. PICK g \in [SUBSET S -> Nat] : SumsUp(f, SUBSET S, g)
  BY SumsExist
<1>2. ASSUME NEW R \in SUBSET S PROVE Total(f, R) = g[R]
  <2>1. IsFiniteSet(R) /\ \A x \in R : f[x] \in Nat
    BY FS_Subset
  <2>2. \E h : SumsUp(f, SUBSET R, h)
    BY <2>1, SumsExist
  <2> DEFINE h == CHOOSE h : SumsUp(f, SUBSET R, h)
  <2>3. SumsUp(f, SUBSET R, h)
    BY <2>2
  <2>4. Total(f, R) = h[R]
    BY TotalUnfolded
  <2> HIDE DEF h
  <2> QED  BY <1>1, <2>3, <2>4, SumsAgree
<1> QED  BY <1>1, <1>2

LEMMA TotalEmpty == \A f : Total(f, {}) = 0
<1>1. ASSUME NEW f PROVE Total(f, {}) = 0
  <2>1. IsFiniteSet({})
    BY FS_EmptySet
  <2>2. PICK g \in [SUBSET {} -> Nat] :
            /\ SumsUp(f, SUBSET {}, g)
            /\ \A R \in SUBSET {} : Total(f, R) = g[R]
    BY <2>1, TotalIsSum
  <2> QED  BY <2>2 DEF SumsUp
<1> QED  BY <1>1

LEMMA TotalChosen ==
  ASSUME NEW f, NEW S, IsFiniteSet(S), \A x \in S : f[x] \in Nat
  PROVE  /\ Total(f, S) \in Nat
         /\ S # {} => /\ Chosen(S) \in S
                      /\ Total(f, S) = f[Chosen(S)] + Total(f, S \ {Chosen(S)})
<1>1. PICK g \in [SUBSET S -> Nat] :
            /\ SumsUp(f, SUBSET S, g)
            /\ \A R \in SUBSET S : Total(f, R) = g[R]
  BY TotalIsSum
<1>2. S \in SUBSET S /\ S \ {Chosen(S)} \in SUBSET S
  OBVIOUS
<1>3. S # {} => g[S] = f[Chosen(S)] + g[S \ {Chosen(S)}]
  BY <1>1, <1>2 DEF SumsUp
<1> QED  BY <1>1, <1>2, <1>3 DEF Chosen

(* Any element may be taken out first.                                     *)
LEMMA TotalRemove ==
  ASSUME NEW f, NEW S, IsFiniteSet(S), \A x \in S : f[x] \in Nat
  PROVE  \A y \in S : Total(f, S) = f[y] + Total(f, S \ {y})
<1> DEFINE T == {n \in Nat : \A s \in SUBSET S : Cardinality(s) = n =>
                    \A y \in s : Total(f, s) = f[y] + Total(f, s \ {y})}
<1>1. 0 \in T
  BY FS_Subset, FS_EmptySet
<1>2. ASSUME NEW n \in Nat, n \in T PROVE n + 1 \in T
  <2>1. ASSUME NEW s \in SUBSET S, Cardinality(s) = n + 1, NEW y \in s
        PROVE  Total(f, s) = f[y] + Total(f, s \ {y})
    <3> DEFINE x == Chosen(s)
    <3>1. /\ IsFiniteSet(s) /\ s # {} /\ x \in s
          /\ Total(f, s) = f[x] + Total(f, s \ {x})
      BY <2>1, TotalChosen, FS_Subset
    <3> HIDE DEF x
    <3>2. CASE y = x
      BY <3>1, <3>2
    <3>3. CASE y # x
      <4>1. /\ s \ {x} \in SUBSET S /\ Cardinality(s \ {x}) = n /\ y \in s \ {x}
            /\ s \ {y} \in SUBSET S /\ Cardinality(s \ {y}) = n /\ x \in s \ {y}
        <5>1. \A z \in s : Cardinality(s \ {z}) = Cardinality(s) - 1
          BY <3>1, FS_RemoveElement
        <5>2. Cardinality(s) - 1 = n
          BY <2>1
        <5> QED  BY <3>1, <3>3, <5>1, <5>2
      <4>2. Total(f, s \ {x}) = f[y] + Total(f, (s \ {x}) \ {y})
        BY <1>2, <4>1
      <4>3. Total(f, s \ {y}) = f[x] + Total(f, (s \ {y}) \ {x})
        BY <1>2, <4>1
      <4>4. (s \ {x}) \ {y} = (s \ {y}) \ {x}
        OBVIOUS
      <4>5. Total(f, (s \ {y}) \ {x}) \in Nat /\ f[x] \in Nat /\ f[y] \in Nat
        <5>1. (s \ {y}) \ {x} \in SUBSET S /\ x \in S /\ y \in S
          BY <3>1
        <5> QED  BY <5>1, FS_Subset, TotalChosen
      <4> QED  BY <3>1, <4>2, <4>3, <4>4, <4>5
    <3> QED  BY <3>2, <3>3
  <2> QED  BY <2>1
<1> HIDE DEF T
<1>3. \A n \in Nat : n \in T
  BY <1>1, <1>2, SetInduction
<1> QED  BY <1>3, FS_CardinalityType DEF T

LEMMA TotalAdd ==
  ASSUME NEW f, NEW S, IsFiniteSet(S), NEW y, y \notin S, \A x \in S \cup {y} : f[x] \in Nat
  PROVE  Total(f, S \cup {y}) = Total(f, S) + f[y]
<1>1. IsFiniteSet(S \cup {y}) /\ (S \cup {y}) \ {y} = S
  BY FS_AddElement
<1>2. Total(f, S \cup {y}) = f[y] + Total(f, (S \cup {y}) \ {y})
  BY <1>1, TotalRemove
<1>3. Total(f, S) \in Nat /\ f[y] \in Nat
  BY TotalChosen
<1> QED  BY <1>1, <1>2, <1>3

=============================================================================
