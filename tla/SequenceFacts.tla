---------------------------- MODULE SequenceFacts ----------------------------
(***************************************************************************)
(* What the other proofs need to know about numbers and sequences: the     *)
(* least of a set of numbers; the elements of a sequence, and sequences    *)
(* without repetition; and what SequencesExt!RemoveFirst does to one.      *)
(***************************************************************************)
EXTENDS Integers, SequencesExt, SequenceTheorems, FiniteSetTheorems, TLAPS

ElementsOf(s) == {s[i] : i \in DOMAIN s}
Distinct(s) == \A i, j \in 1..Len(s) : i # j => s[i] # s[j]

\* `t` is `s` without its element at `p`, those behind it moved up by one.
DropsAt(p, s, t) ==
    /\ Len(t) = Len(s) - 1
    /\ \A i \in 1..(p - 1) : t[i] = s[i]
    /\ \A i \in p..(Len(s) - 1) : t[i] = s[i + 1]

\* A set of numbers has a least one.
LEMMA Least ==
  ASSUME NEW T, T \subseteq Nat, T # {}
  PROVE  \E x \in T : \A y \in T : x <= y
<1> DEFINE R == OpToRel(<, Nat)
<1>1. \A x, y \in Nat : x < y => <<x, y>> \in R
  BY DEF OpToRel
<1>2. IsWellFoundedOn(R, Nat)
  BY NatLessThanWellFounded, Zenon
<1> HIDE DEF R
<1>3. PICK x \in T : \A y \in T : <<y, x>> \notin R
  BY <1>2, WFMin
<1>4. \A y \in T : ~(y < x)
  BY <1>1, <1>3
<1>5. QED
  BY <1>4

LEMMA MinIsLeast ==
  ASSUME NEW T, T \subseteq Nat, T # {}
  PROVE  Min(T) \in T
<1>1. PICK x \in T : \A y \in T : x <= y
  BY Least
<1>2. QED
  BY <1>1 DEF Min

-----------------------------------------------------------------------------
(* Sequences without repetition. *)

LEMMA EmptyElements == ElementsOf(<<>>) = {} /\ Distinct(<<>>)
  BY DEF ElementsOf, Distinct

LEMMA AppendElements ==
  ASSUME NEW S, NEW s \in Seq(S), NEW x \in S
  PROVE  /\ ElementsOf(Append(s, x)) = ElementsOf(s) \cup {x}
         /\ Distinct(s) /\ x \notin ElementsOf(s) => Distinct(Append(s, x))
<1> DEFINE t == Append(s, x)
<1>1. /\ t \in Seq(S) /\ Len(t) = Len(s) + 1
      /\ \A i \in 1..Len(s) : t[i] = s[i]
      /\ t[Len(s) + 1] = x
  BY AppendProperties
<1>2. Len(s) \in Nat /\ DOMAIN s = 1..Len(s) /\ DOMAIN t = 1..Len(t)
  BY <1>1, LenProperties
<1> HIDE DEF t
<1>3. ElementsOf(t) = ElementsOf(s) \cup {x}
  BY <1>1, <1>2 DEF ElementsOf
<1>4. Distinct(s) /\ x \notin ElementsOf(s) => Distinct(t)
  BY <1>1, <1>2 DEF ElementsOf, Distinct
<1>5. QED
  BY <1>3, <1>4 DEF t

LEMMA TailElements ==
  ASSUME NEW S, NEW s \in Seq(S), s # <<>>
  PROVE  /\ ElementsOf(s) = {Head(s)} \cup ElementsOf(Tail(s))
         /\ Distinct(s) => Distinct(Tail(s)) /\ Head(s) \notin ElementsOf(Tail(s))
<1> DEFINE t == Tail(s)
<1>1. /\ t \in Seq(S) /\ Len(t) = Len(s) - 1
      /\ \A i \in 1..Len(t) : t[i] = s[i + 1]
  BY HeadTailProperties
<1>2. Len(s) \in Nat /\ DOMAIN s = 1..Len(s) /\ DOMAIN t = 1..Len(t) /\ Len(t) \in Nat
  BY <1>1, LenProperties
<1>3. Head(s) = s[1]
  OBVIOUS
<1> HIDE DEF t
<1>4. \A x : x \in ElementsOf(s) => x = s[1] \/ x \in ElementsOf(t)
  <2>1. ASSUME NEW i \in 1..Len(s) PROVE s[i] = s[1] \/ s[i] \in ElementsOf(t)
    <3>1. CASE i = 1
      BY <3>1
    <3>2. CASE i # 1
      <4>1. i - 1 \in 1..Len(t) /\ t[i - 1] = s[i]
        BY <1>1, <1>2, <3>2
      <4>2. QED
        BY <1>2, <4>1 DEF ElementsOf
    <3>3. QED
      BY <3>1, <3>2
  <2>2. QED
    BY <1>2, <2>1 DEF ElementsOf
<1>5. \A x \in ElementsOf(t) : x \in ElementsOf(s)
  <2>1. ASSUME NEW i \in 1..Len(t) PROVE t[i] = s[i + 1] /\ i + 1 \in 1..Len(s)
    BY <1>1, <1>2
  <2>2. QED
    BY <1>2, <2>1 DEF ElementsOf
<1>6. s[1] \in ElementsOf(s)
  BY <1>1, <1>2 DEF ElementsOf
<1>7. ASSUME Distinct(s) PROVE Distinct(t) /\ s[1] \notin ElementsOf(t)
  BY <1>1, <1>2, <1>7 DEF Distinct, ElementsOf
<1>8. QED
  BY <1>3, <1>4, <1>5, <1>6, <1>7 DEF t

LEMMA SplitElements ==
  ASSUME NEW S, NEW s \in Seq(S), NEW k \in 0..Len(s)
  PROVE  LET t == SubSeq(s, 1, k)
             u == SubSeq(s, k + 1, Len(s))
         IN /\ t \in Seq(S) /\ u \in Seq(S)
            /\ Len(t) = k /\ Len(u) = Len(s) - k
            /\ ElementsOf(t) \cup ElementsOf(u) = ElementsOf(s)
            /\ Distinct(s) => /\ Distinct(t) /\ Distinct(u)
                              /\ ElementsOf(t) \cap ElementsOf(u) = {}
<1> DEFINE t == SubSeq(s, 1, k)
           u == SubSeq(s, k + 1, Len(s))
<1>1. Len(s) \in Nat /\ DOMAIN s = 1..Len(s) /\ \A i \in 1..Len(s) : s[i] \in S
  BY LenProperties, ElementOfSeq
<1>2. /\ t \in Seq(S) /\ Len(t) = k
      /\ \A i \in 1..k : t[i] = s[i]
  <2>1. \A i \in 1..k : s[i] \in S
    BY <1>1
  <2>2. 1 \in Int /\ k \in Int
    BY <1>1
  <2>3. /\ t \in Seq(S) /\ Len(t) = IF 1 <= k THEN k - 1 + 1 ELSE 0
        /\ \A i \in 1..(k - 1 + 1) : t[i] = s[1 + i - 1]
    BY <2>1, <2>2, SubSeqProperties
  <2> HIDE DEF t
  <2>4. QED
    BY <1>1, <2>3
<1>3. /\ u \in Seq(S) /\ Len(u) = Len(s) - k
      /\ \A i \in 1..(Len(s) - k) : u[i] = s[k + i]
  <2>1. \A i \in (k + 1)..Len(s) : s[i] \in S
    BY <1>1
  <2>2. k + 1 \in Int /\ Len(s) \in Int
    BY <1>1
  <2>3. /\ u \in Seq(S) /\ Len(u) = IF k + 1 <= Len(s) THEN Len(s) - (k + 1) + 1 ELSE 0
        /\ \A i \in 1..(Len(s) - (k + 1) + 1) : u[i] = s[k + 1 + i - 1]
    BY <2>1, <2>2, SubSeqProperties
  <2> HIDE DEF u
  <2>4. Len(u) = Len(s) - k
    <3>1. Len(s) \in Int /\ k \in Int /\ k <= Len(s)
      BY <1>1
    <3>2. Len(u) = IF k + 1 <= Len(s) THEN Len(s) - (k + 1) + 1 ELSE 0
      BY <2>3
    <3> HIDE DEF u
    <3>3. QED
      BY <3>1, <3>2
  <2>5. ASSUME NEW i \in 1..(Len(s) - k) PROVE u[i] = s[k + i]
    <3>1. i \in 1..(Len(s) - (k + 1) + 1) /\ k + 1 + i - 1 = k + i
      BY <1>1
    <3>2. u[i] = s[k + 1 + i - 1]
      BY <2>3, <3>1
    <3>3. QED
      BY <3>1, <3>2
  <2>6. QED
    BY <2>3, <2>4, <2>5
<1>4. DOMAIN t = 1..k /\ DOMAIN u = 1..(Len(s) - k)
  BY <1>2, <1>3, LenProperties
<1> HIDE DEF t, u
<1>5. ElementsOf(t) \cup ElementsOf(u) \subseteq ElementsOf(s)
  <2>1. ASSUME NEW i \in 1..k PROVE t[i] \in ElementsOf(s)
    BY <1>1, <1>2 DEF ElementsOf
  <2>2. ASSUME NEW i \in 1..(Len(s) - k) PROVE u[i] \in ElementsOf(s)
    <3>1. k + i \in 1..Len(s)
      BY <1>1
    <3>2. QED
      BY <1>1, <1>3, <3>1 DEF ElementsOf
  <2>3. QED
    BY <1>4, <2>1, <2>2 DEF ElementsOf
<1>6. ASSUME NEW i \in 1..Len(s) PROVE s[i] \in ElementsOf(t) \cup ElementsOf(u)
  <2>1. CASE i <= k
    BY <1>1, <1>2, <1>4, <2>1 DEF ElementsOf
  <2>2. CASE i > k
    <3>1. i - k \in 1..(Len(s) - k) /\ u[i - k] = s[i]
      BY <1>1, <1>3, <2>2
    <3>2. QED
      BY <1>4, <3>1 DEF ElementsOf
  <2>3. QED
    BY <1>1, <2>1, <2>2
<1>7. ElementsOf(t) \cup ElementsOf(u) = ElementsOf(s)
  BY <1>1, <1>5, <1>6 DEF ElementsOf
<1>8. ASSUME Distinct(s)
      PROVE  Distinct(t) /\ Distinct(u) /\ ElementsOf(t) \cap ElementsOf(u) = {}
  <2>1. Distinct(t)
    BY <1>1, <1>2, <1>8 DEF Distinct
  <2>2. Distinct(u)
    BY <1>1, <1>3, <1>8 DEF Distinct
  <2>3. ASSUME NEW i \in 1..k, NEW j \in 1..(Len(s) - k) PROVE t[i] # u[j]
    BY <1>1, <1>2, <1>3, <1>8 DEF Distinct
  <2>4. QED
    BY <1>4, <2>1, <2>2, <2>3 DEF ElementsOf
<1>9. QED
  BY <1>2, <1>3, <1>7, <1>8 DEF t, u

LEMMA ConcatElements ==
  ASSUME NEW S, NEW s \in Seq(S), NEW t \in Seq(S)
  PROVE  /\ ElementsOf(s \o t) = ElementsOf(s) \cup ElementsOf(t)
         /\ Distinct(s) /\ Distinct(t) /\ ElementsOf(s) \cap ElementsOf(t) = {} => Distinct(s \o t)
<1> DEFINE u == s \o t
<1>1. /\ u \in Seq(S) /\ Len(u) = Len(s) + Len(t)
      /\ \A i \in 1..(Len(s) + Len(t)) : u[i] = IF i <= Len(s) THEN s[i] ELSE t[i - Len(s)]
  BY ConcatProperties
<1>2. /\ Len(s) \in Nat /\ Len(t) \in Nat
      /\ DOMAIN s = 1..Len(s) /\ DOMAIN t = 1..Len(t) /\ DOMAIN u = 1..(Len(s) + Len(t))
  BY <1>1, LenProperties
<1> HIDE DEF u
<1>3. ASSUME NEW i \in DOMAIN u PROVE u[i] \in ElementsOf(s) \cup ElementsOf(t)
  <2>1. CASE i <= Len(s)
    BY <1>1, <1>2, <2>1 DEF ElementsOf
  <2>2. CASE i > Len(s)
    <3>1. i - Len(s) \in 1..Len(t) /\ u[i] = t[i - Len(s)]
      BY <1>1, <1>2, <2>2
    <3>2. QED
      BY <1>2, <3>1 DEF ElementsOf
  <2>3. QED
    BY <1>2, <2>1, <2>2
<1>4. ASSUME NEW i \in DOMAIN s PROVE s[i] \in ElementsOf(u)
  BY <1>1, <1>2 DEF ElementsOf
<1>5. ASSUME NEW i \in DOMAIN t PROVE t[i] \in ElementsOf(u)
  <2>1. Len(s) + i \in DOMAIN u /\ u[Len(s) + i] = t[i]
    BY <1>1, <1>2
  <2>2. QED
    BY <2>1 DEF ElementsOf
<1>6. ElementsOf(u) = ElementsOf(s) \cup ElementsOf(t)
  BY <1>3, <1>4, <1>5 DEF ElementsOf
<1>7. ASSUME Distinct(s), Distinct(t), ElementsOf(s) \cap ElementsOf(t) = {}
      PROVE  Distinct(u)
  <2>1. \A i \in 1..Len(s), j \in 1..Len(t) : s[i] # t[j]
    BY <1>2, <1>7 DEF ElementsOf
  <2>2. SUFFICES ASSUME NEW i \in 1..Len(u), NEW j \in 1..Len(u), i # j
                 PROVE  u[i] # u[j]
    BY DEF Distinct
  <2> DEFINE a == i - Len(s)
             b == j - Len(s)
  <2>3. /\ i <= Len(s) => i \in 1..Len(s) /\ u[i] = s[i]
        /\ j <= Len(s) => j \in 1..Len(s) /\ u[j] = s[j]
        /\ i > Len(s) => a \in 1..Len(t) /\ u[i] = t[a]
        /\ j > Len(s) => b \in 1..Len(t) /\ u[j] = t[b]
        /\ i > Len(s) /\ j > Len(s) => a # b
        /\ (i <= Len(s) \/ i > Len(s)) /\ (j <= Len(s) \/ j > Len(s))
    BY <1>1, <1>2, <2>2
  <2> HIDE DEF a, b
  <2>4. QED
    BY <1>7, <2>1, <2>2, <2>3 DEF Distinct
<1>8. QED
  BY <1>6, <1>7 DEF u

-----------------------------------------------------------------------------
(* Removals. *)

\* RemoveFirst takes one occurrence out.
LEMMA RemoveFirstFacts ==
  ASSUME NEW S, NEW s \in Seq(S), NEW e, \E i \in 1..Len(s) : s[i] = e,
         NEW t, t = RemoveFirst(s, e)
  PROVE  t \in Seq(S) /\ \E p \in 1..Len(s) : s[p] = e /\ DropsAt(p, s, t)
<1> DEFINE I == {i \in 1..Len(s) : s[i] = e}
           p == Min(I)
<1>1. Len(s) \in Nat /\ DOMAIN s = 1..Len(s) /\ \A i \in 1..Len(s) : s[i] \in S
  BY LenProperties, ElementOfSeq
<1>2. I \subseteq Nat /\ I # {}
  BY <1>1
<1>3. p \in 1..Len(s) /\ s[p] = e
  BY <1>2, MinIsLeast
<1>4. RemoveFirst(s, e) = SubSeq(s, 1, p - 1) \o SubSeq(s, p + 1, Len(s))
  BY <1>2 DEF RemoveFirst, RemoveAt, SelectInSeq
<1> HIDE DEF p, I
<1> DEFINE a == SubSeq(s, 1, p - 1)
           b == SubSeq(s, p + 1, Len(s))
<1>5. a \in Seq(S) /\ Len(a) = p - 1 /\ \A i \in 1..(p - 1) : a[i] = s[i]
  BY <1>1, <1>3, SubSeqProperties
<1>6. b \in Seq(S) /\ Len(b) = Len(s) - p /\ \A i \in 1..(Len(s) - p) : b[i] = s[p + i]
  <2>1. /\ p + 1 \in 1..(Len(s) + 1) /\ Len(s) \in (p + 1 - 1)..Len(s)
        /\ p + 1 \in Int /\ Len(s) \in Int
    BY <1>1, <1>3
  <2>2. \A i \in (p + 1)..Len(s) : i \in 1..Len(s) /\ s[i] \in S
    BY <1>1, <1>3
  <2>3. /\ b \in Seq(S)
        /\ Len(b) = IF p + 1 <= Len(s) THEN Len(s) - (p + 1) + 1 ELSE 0
        /\ \A i \in 1..(Len(s) - (p + 1) + 1) : b[i] = s[(p + 1) + i - 1]
    BY <1>1, <2>1, <2>2, SubSeqProperties
  <2> HIDE DEF b
  <2>4. Len(b) = Len(s) - p
    <3>1. p \in Nat /\ Len(s) \in Nat /\ p <= Len(s)
      BY <1>1, <1>3
    <3>2. CASE p < Len(s)
      BY <2>3, <3>1, <3>2
    <3>3. CASE p = Len(s)
      BY <2>3, <3>1, <3>3
    <3>4. QED
      BY <3>1, <3>2, <3>3
  <2>5. ASSUME NEW i \in 1..(Len(s) - p)
        PROVE  b[i] = s[p + i]
    <3>1. i \in 1..(Len(s) - (p + 1) + 1) /\ (p + 1) + i - 1 = p + i
      BY <1>1, <1>3
    <3>2. QED
      BY <2>3, <3>1
  <2>6. QED
    BY <2>3, <2>4, <2>5
<1> HIDE DEF a, b
<1>7. /\ a \o b \in Seq(S) /\ Len(a \o b) = Len(s) - 1
      /\ \A i \in 1..(Len(s) - 1) : (a \o b)[i] = IF i <= p - 1 THEN a[i] ELSE b[i - (p - 1)]
  <2>1. /\ a \o b \in Seq(S) /\ Len(a \o b) = Len(a) + Len(b)
        /\ \A i \in 1..(Len(a) + Len(b)) : (a \o b)[i] = IF i <= Len(a) THEN a[i] ELSE b[i - Len(a)]
    BY <1>5, <1>6, ConcatProperties
  <2>2. Len(a) + Len(b) = Len(s) - 1 /\ Len(a) = p - 1
    BY <1>1, <1>3, <1>5, <1>6
  <2>3. QED
    BY <2>1, <2>2
<1>8. \A i \in 1..(p - 1) : (a \o b)[i] = s[i]
  BY <1>1, <1>3, <1>5, <1>7
<1>9. \A i \in p..(Len(s) - 1) : (a \o b)[i] = s[i + 1]
  <2> SUFFICES ASSUME NEW i \in p..(Len(s) - 1)
               PROVE  (a \o b)[i] = s[i + 1]
    OBVIOUS
  <2>1. i \in 1..(Len(s) - 1) /\ ~(i <= p - 1) /\ i - (p - 1) \in 1..(Len(s) - p) /\ p + (i - (p - 1)) = i + 1
    BY <1>1, <1>3
  <2>2. QED
    BY <1>6, <1>7, <2>1
<1>10. t = a \o b
  BY <1>4 DEF a, b
<1>11. DropsAt(p, s, t)
  BY <1>7, <1>8, <1>9, <1>10 DEF DropsAt
<1>12. QED
  BY <1>3, <1>7, <1>10, <1>11

\* Of a sequence without repetition, that is all there was of the element.
LEMMA RemovedElements ==
  ASSUME NEW S, NEW s \in Seq(S), Distinct(s), NEW x \in ElementsOf(s),
         NEW t, t = RemoveFirst(s, x)
  PROVE  /\ t \in Seq(S) /\ Len(t) = Len(s) - 1
         /\ Distinct(t) /\ ElementsOf(t) = ElementsOf(s) \ {x}
<1>1. Len(s) \in Nat /\ DOMAIN s = 1..Len(s)
  BY LenProperties
<1>2. \E i \in 1..Len(s) : s[i] = x
  BY <1>1 DEF ElementsOf
<1>3. PICK p \in 1..Len(s) : s[p] = x /\ t \in Seq(S) /\ DropsAt(p, s, t)
  BY <1>2, RemoveFirstFacts
<1>4. /\ Len(t) = Len(s) - 1 /\ DOMAIN t = 1..(Len(s) - 1)
      /\ \A i \in 1..(p - 1) : t[i] = s[i]
      /\ \A i \in p..(Len(s) - 1) : t[i] = s[i + 1]
  BY <1>3, LenProperties DEF DropsAt
<1> DEFINE from(i) == IF i < p THEN i ELSE i + 1
<1>5. ASSUME NEW i \in 1..(Len(s) - 1)
      PROVE  from(i) \in 1..Len(s) /\ from(i) # p /\ t[i] = s[from(i)]
  <2>1. CASE i < p
    <3>1. i \in 1..(p - 1) /\ i \in 1..Len(s)
      BY <1>1, <2>1
    <3>2. QED
      BY <1>4, <2>1, <3>1
  <2>2. CASE ~(i < p)
    <3>1. i \in p..(Len(s) - 1) /\ i + 1 \in 1..Len(s) /\ i + 1 # p
      BY <1>1, <2>2
    <3>2. QED
      BY <1>4, <2>2, <3>1
  <2>3. QED
    BY <2>1, <2>2
<1>6. ASSUME NEW j \in 1..Len(s), j # p
      PROVE  \E i \in 1..(Len(s) - 1) : from(i) = j
  <2>1. CASE j < p
    <3>1. j \in 1..(Len(s) - 1) /\ from(j) = j
      BY <1>1, <2>1
    <3>2. QED
      BY <3>1
  <2>2. CASE p < j
    <3>1. j - 1 \in 1..(Len(s) - 1) /\ from(j - 1) = j
      BY <1>1, <2>2
    <3>2. QED
      BY <3>1
  <2>3. QED
    BY <1>6, <2>1, <2>2
<1>7. \A i, j \in 1..(Len(s) - 1) : i # j => from(i) # from(j)
  BY <1>1
<1> HIDE DEF from
<1>8. Distinct(t)
  <2>1. ASSUME NEW i \in 1..(Len(s) - 1), NEW j \in 1..(Len(s) - 1), i # j
        PROVE  t[i] # t[j]
    <3>1. /\ from(i) \in 1..Len(s) /\ t[i] = s[from(i)]
          /\ from(j) \in 1..Len(s) /\ t[j] = s[from(j)]
      BY <1>5
    <3>2. from(i) # from(j)
      BY <1>7, <2>1
    <3>3. s[from(i)] # s[from(j)]
      BY <3>1, <3>2 DEF Distinct
    <3>4. QED
      BY <3>1, <3>3
  <2>2. Len(t) = Len(s) - 1
    BY <1>4
  <2>3. QED
    BY <2>1, <2>2 DEF Distinct
<1>9. ElementsOf(t) \subseteq ElementsOf(s) \ {x}
  <2>1. ASSUME NEW i \in 1..(Len(s) - 1)
        PROVE  t[i] \in ElementsOf(s) /\ t[i] # x
    BY <1>1, <1>3, <1>5 DEF ElementsOf, Distinct
  <2>2. QED
    BY <1>4, <2>1 DEF ElementsOf
<1>10. ElementsOf(s) \ {x} \subseteq ElementsOf(t)
  <2>1. ASSUME NEW j \in 1..Len(s), s[j] # x
        PROVE  s[j] \in ElementsOf(t)
    <3>1. PICK i \in 1..(Len(s) - 1) : from(i) = j
      BY <1>3, <1>6, <2>1
    <3>2. t[i] = s[j]
      BY <1>5, <3>1
    <3>3. QED
      BY <1>4, <3>2 DEF ElementsOf
  <2>2. QED
    BY <1>1, <2>1 DEF ElementsOf
<1>11. QED
  BY <1>3, <1>4, <1>8, <1>9, <1>10

LEMMA FiniteElements ==
  ASSUME NEW S, NEW s \in Seq(S)
  PROVE  IsFiniteSet(ElementsOf(s))
<1>1. Len(s) \in Nat /\ DOMAIN s = 1..Len(s)
  BY LenProperties
<1>2. IsFiniteSet(1..Len(s))
  BY <1>1, FS_Interval
<1> DEFINE f == [i \in 1..Len(s) |-> s[i]]
<1>3. f \in Surjection(1..Len(s), ElementsOf(s))
  BY <1>1 DEF ElementsOf, Surjection
<1>4. QED
  BY <1>2, <1>3, FS_Surjection
=============================================================================
