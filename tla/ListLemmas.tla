------------------------------ MODULE ListLemmas ------------------------------
(***************************************************************************)
(* What the proofs need of the community operators on lists and sets of    *)
(* numbers that the components are built from.                             *)
(***************************************************************************)
EXTENDS SequencesExt, Integers, SequenceTheorems, FiniteSetTheorems, TLAPS

(* A set of numbers that is not empty has a least element, which is its Min. *)
LEMMA MinIsLeast ==
  ASSUME NEW S \in SUBSET Nat, S # {}
  PROVE  Min(S) \in S /\ \A i \in S : Min(S) <= i
<1>1. PICK least \in S : \A i \in S : ~(<<i, least>> \in OpToRel(<, Nat))
  BY NatLessThanWellFounded, WFMin
<1>2. \A i \in S : least <= i
  <2> SUFFICES ASSUME NEW i \in S, ~(least <= i) PROVE FALSE
    OBVIOUS
  <2>1. i < least /\ i \in Nat /\ least \in Nat
    BY SMT
  <2>2. <<i, least>> \in OpToRel(<, Nat)
    BY <2>1 DEF OpToRel
  <2> QED
    BY <1>1, <2>2
<1> QED
  BY <1>2 DEF Min

(* RemoveAt closes the gap. *)
LEMMA RemoveAtProperties ==
  ASSUME NEW S, NEW s \in Seq(S), NEW at \in 1 .. Len(s)
  PROVE  /\ RemoveAt(s, at) \in Seq(S)
         /\ Len(RemoveAt(s, at)) = Len(s) - 1
         /\ \A i \in 1 .. Len(s) - 1 :
              RemoveAt(s, at)[i] = IF i < at THEN s[i] ELSE s[i + 1]
<1> DEFINE front == SubSeq(s, 1, at - 1)
           rear  == SubSeq(s, at + 1, Len(s))
<1>1. Len(s) \in Nat /\ \A i \in 1 .. Len(s) : s[i] \in S
  BY LenProperties, ElementOfSeq
<1>2. /\ front \in Seq(S) /\ Len(front) = at - 1
      /\ \A i \in 1 .. at - 1 : front[i] = s[i]
  <2>1. \A i \in 1 .. at - 1 : s[i] \in S
    BY <1>1
  <2>2. 1 \in Int /\ at - 1 \in Int
    BY <1>1
  <2>3. /\ SubSeq(s, 1, at - 1) \in Seq(S)
        /\ Len(SubSeq(s, 1, at - 1)) = IF 1 <= at - 1 THEN (at - 1) - 1 + 1 ELSE 0
        /\ \A i \in 1 .. (at - 1) - 1 + 1 : SubSeq(s, 1, at - 1)[i] = s[1 + i - 1]
    BY <2>1, <2>2, SubSeqProperties
  <2> QED
    BY <1>1, <2>3, SMT
<1>3. /\ rear \in Seq(S) /\ Len(rear) = Len(s) - at
      /\ \A i \in 1 .. Len(s) - at : rear[i] = s[at + i]
  <2>1. \A i \in at + 1 .. Len(s) : s[i] \in S
    BY <1>1
  <2>2. at + 1 \in Int /\ Len(s) \in Int
    BY <1>1
  <2>3. /\ SubSeq(s, at + 1, Len(s)) \in Seq(S)
        /\ Len(SubSeq(s, at + 1, Len(s)))
             = IF at + 1 <= Len(s) THEN Len(s) - (at + 1) + 1 ELSE 0
        /\ \A i \in 1 .. Len(s) - (at + 1) + 1 :
             SubSeq(s, at + 1, Len(s))[i] = s[(at + 1) + i - 1]
    BY <2>1, <2>2, SubSeqProperties
  <2> QED
    BY <1>1, <2>3, SMT
<1>4. /\ front \o rear \in Seq(S)
      /\ Len(front \o rear) = Len(front) + Len(rear)
      /\ \A i \in 1 .. Len(front) + Len(rear) :
           (front \o rear)[i] = IF i <= Len(front) THEN front[i] ELSE rear[i - Len(front)]
  BY <1>2, <1>3, ConcatProperties
<1>5. RemoveAt(s, at) = front \o rear
  BY DEF RemoveAt
<1> HIDE DEF front, rear
<1>6. Len(front \o rear) = Len(s) - 1
  BY <1>1, <1>2, <1>3, <1>4, SMT
<1>7. ASSUME NEW i \in 1 .. Len(s) - 1
      PROVE  (front \o rear)[i] = IF i < at THEN s[i] ELSE s[i + 1]
  <2>1. i \in 1 .. Len(front) + Len(rear)
    BY <1>1, <1>2, <1>3, SMT
  <2>2. CASE i < at
    <3>1. i \in 1 .. at - 1 /\ i <= Len(front)
      BY <1>1, <1>2, <2>2, SMT
    <3> QED
      BY <1>2, <1>4, <2>1, <2>2, <3>1
  <2>3. CASE ~(i < at)
    <3>1. i - (at - 1) \in 1 .. Len(s) - at /\ ~(i <= Len(front))
      BY <1>1, <1>2, <2>3, SMT
    <3>2. (front \o rear)[i] = rear[i - (at - 1)]
      BY <1>2, <1>4, <2>1, <3>1
    <3>3. rear[i - (at - 1)] = s[at + (i - (at - 1))] /\ at + (i - (at - 1)) = i + 1
      BY <1>1, <1>3, <3>1, SMT
    <3> QED
      BY <2>3, <3>2, <3>3
  <2> QED
    BY <2>2, <2>3
<1> QED
  BY <1>4, <1>5, <1>6, <1>7

(* Reverse turns a list round. *)
LEMMA ReverseProperties ==
  ASSUME NEW S, NEW s \in Seq(S)
  PROVE  /\ Reverse(s) \in Seq(S)
         /\ Len(Reverse(s)) = Len(s)
         /\ \A i \in 1 .. Len(s) : /\ Reverse(s)[i] = s[Len(s) - i + 1]
                                  /\ Len(s) - i + 1 \in 1 .. Len(s)
<1>1. Len(s) \in Nat /\ \A i \in 1 .. Len(s) : s[i] \in S
  BY LenProperties, ElementOfSeq
<1>2. \A i \in 1 .. Len(s) : Len(s) - i + 1 \in 1 .. Len(s)
  BY <1>1, SMT
<1>3. \A i \in 1 .. Len(s) : s[Len(s) - i + 1] \in S
  BY <1>1, <1>2
<1>4. Reverse(s) \in Seq(S)
  BY <1>1, <1>3, IsASeq DEF Reverse
<1>5. DOMAIN Reverse(s) = 1 .. Len(s)
  BY DEF Reverse
<1>6. Len(Reverse(s)) = Len(s)
  BY <1>1, <1>4, <1>5, LenProperties, SMT
<1> QED
  BY <1>2, <1>4, <1>6 DEF Reverse

(* A set of numbers up to n that is not empty has a greatest, which is its Max. *)
LEMMA MaxIsGreatest ==
  ASSUME NEW n \in Nat, NEW S \in SUBSET (0 .. n), S # {}
  PROVE  Max(S) \in S /\ \A i \in S : i <= Max(S)
<1> DEFINE T == {n - i : i \in S}
<1>1. T \in SUBSET Nat /\ T # {}
  <2>1. \A i \in S : n - i \in Nat
    BY SMT
  <2> QED
    BY <2>1
<1>2. Min(T) \in T /\ \A k \in T : Min(T) <= k
  BY <1>1, MinIsLeast
<1>3. PICK m \in S : Min(T) = n - m
  BY <1>2
<1>4. ASSUME NEW i \in S PROVE i <= m
  <2>1. n - m <= n - i
    BY <1>2, <1>3
  <2> QED
    BY <2>1, SMT
<1>5. \A i \in S : m >= i
  BY <1>4, SMT
<1>6. Max(S) \in S /\ \A i \in S : Max(S) >= i
  BY <1>3, <1>5, Zenon DEF Max
<1> QED
  BY <1>6, SMT

(* The range of a list is the set of its elements; what Head, Tail, Append and
   concatenation make of it. *)
LEMMA RangeOfList ==
  ASSUME NEW S, NEW s \in Seq(S)
  PROVE  /\ Range(s) = {s[i] : i \in 1 .. Len(s)}
         /\ Range(s) \subseteq S
         /\ DOMAIN s = 1 .. Len(s) /\ Len(s) \in Nat
<1>1. DOMAIN s = 1 .. Len(s) /\ Len(s) \in Nat
  BY LenProperties
<1>2. \A i \in 1 .. Len(s) : s[i] \in S
  BY ElementOfSeq
<1> QED
  BY <1>1, <1>2 DEF Range

LEMMA RangeOfEmpty == Range(<<>>) = {}
<1>1. <<>> \in Seq({}) /\ Len(<<>>) = 0 /\ 1 .. 0 = {}
  BY EmptySeq, SMT
<1> QED
  BY <1>1, RangeOfList

LEMMA RangeOfTail ==
  ASSUME NEW S, NEW s \in Seq(S), s # <<>>
  PROVE  Range(s) = {Head(s)} \cup Range(Tail(s))
<1>1. /\ Tail(s) \in Seq(S) /\ Len(Tail(s)) = Len(s) - 1 /\ Len(s) \in Nat \ {0}
      /\ \A i \in 1 .. Len(Tail(s)) : Tail(s)[i] = s[i + 1]
      /\ Head(s) = s[1]
  BY HeadTailProperties, EmptySeq, SMT
<1>2. Range(s) = {s[i] : i \in 1 .. Len(s)} /\ Range(Tail(s)) = {Tail(s)[i] : i \in 1 .. Len(Tail(s))}
  BY <1>1, RangeOfList
<1>3. ASSUME NEW e \in Range(s) PROVE e \in {Head(s)} \cup Range(Tail(s))
  <2>1. PICK i \in 1 .. Len(s) : e = s[i]
    BY <1>2
  <2>2. CASE i = 1
    BY <1>1, <2>1, <2>2
  <2>3. CASE i # 1
    <3>1. i - 1 \in 1 .. Len(Tail(s)) /\ (i - 1) + 1 = i
      BY <1>1, <2>3, SMT
    <3> QED
      BY <1>1, <1>2, <2>1, <3>1
  <2> QED
    BY <2>2, <2>3
<1>4. 1 \in 1 .. Len(s)
  BY <1>1, SMT
<1>5. ASSUME NEW i \in 1 .. Len(Tail(s)) PROVE Tail(s)[i] \in Range(s)
  <2>1. i + 1 \in 1 .. Len(s)
    BY <1>1, SMT
  <2> QED
    BY <1>1, <1>2, <2>1
<1> QED
  BY <1>1, <1>2, <1>3, <1>4, <1>5

LEMMA RangeOfConcat ==
  ASSUME NEW S, NEW s \in Seq(S), NEW t \in Seq(S)
  PROVE  Range(s \o t) = Range(s) \cup Range(t)
<1>1. /\ s \o t \in Seq(S) /\ Len(s \o t) = Len(s) + Len(t)
      /\ \A i \in 1 .. Len(s) + Len(t) :
           (s \o t)[i] = IF i <= Len(s) THEN s[i] ELSE t[i - Len(s)]
      /\ Len(s) \in Nat /\ Len(t) \in Nat
  BY ConcatProperties, LenProperties
<1>2. /\ Range(s) = {s[i] : i \in 1 .. Len(s)} /\ Range(t) = {t[i] : i \in 1 .. Len(t)}
      /\ Range(s \o t) = {(s \o t)[i] : i \in 1 .. Len(s) + Len(t)}
  BY <1>1, RangeOfList
<1>3. ASSUME NEW i \in 1 .. Len(s) + Len(t) PROVE (s \o t)[i] \in Range(s) \cup Range(t)
  <2>1. i \in 1 .. Len(s) \/ (~(i <= Len(s)) /\ i - Len(s) \in 1 .. Len(t))
    BY <1>1, SMT
  <2>2. i \in 1 .. Len(s) => i <= Len(s)
    BY <1>1, SMT
  <2> QED
    BY <1>1, <1>2, <2>1, <2>2
<1>4. ASSUME NEW i \in 1 .. Len(s) PROVE s[i] \in Range(s \o t)
  <2>1. i \in 1 .. Len(s) + Len(t) /\ i <= Len(s)
    BY <1>1, SMT
  <2> QED
    BY <1>1, <1>2, <2>1
<1>5. ASSUME NEW i \in 1 .. Len(t) PROVE t[i] \in Range(s \o t)
  <2>1. /\ Len(s) + i \in 1 .. Len(s) + Len(t) /\ ~(Len(s) + i <= Len(s))
        /\ (Len(s) + i) - Len(s) = i
    BY <1>1, SMT
  <2> QED
    BY <1>1, <1>2, <2>1
<1> QED
  BY <1>2, <1>3, <1>4, <1>5

LEMMA RangeOfAppend ==
  ASSUME NEW S, NEW s \in Seq(S), NEW e \in S
  PROVE  Range(Append(s, e)) = Range(s) \cup {e}
<1>1. <<e>> \in Seq(S) /\ Len(<<e>>) = 1 /\ <<e>>[1] = e
  BY SMT
<1>2. Range(<<e>>) = {e}
  <2>1. Range(<<e>>) = {<<e>>[i] : i \in 1 .. 1}
    BY <1>1, RangeOfList
  <2>2. 1 .. 1 = {1}
    BY SMT
  <2> QED
    BY <1>1, <2>1, <2>2
<1>3. Append(s, e) = s \o <<e>>
  BY <1>1, AppendIsConcat
<1>4. Range(s \o <<e>>) = Range(s) \cup Range(<<e>>)
  BY <1>1, RangeOfConcat
<1> QED
  BY <1>2, <1>3, <1>4

(* RemoveFirst takes an element out at one of its places, and is no harm
   where there is none. *)
LEMMA RemoveFirstIsRemoveAt ==
  ASSUME NEW S, NEW s \in Seq(S), NEW e
  PROVE  /\ e \notin Range(s) => RemoveFirst(s, e) = s
         /\ e \in Range(s) =>
              \E at \in 1 .. Len(s) : s[at] = e /\ RemoveFirst(s, e) = RemoveAt(s, at)
<1>1. Range(s) = {s[i] : i \in 1 .. Len(s)} /\ Len(s) \in Nat
  BY RangeOfList
<1>2. CASE e \notin Range(s)
  BY <1>1, <1>2 DEF RemoveFirst
<1>3. CASE e \in Range(s)
  <2> DEFINE I == {i \in 1 .. Len(s) : s[i] = e}
  <2>1. I \in SUBSET Nat /\ I # {}
    BY <1>1, <1>3, SMT
  <2>2. Min(I) \in I
    BY <2>1, MinIsLeast
  <2>3. SelectInSeq(s, LAMBDA v : v = e) = Min(I)
    BY <2>1 DEF SelectInSeq
  <2>4. RemoveFirst(s, e) = RemoveAt(s, Min(I))
    BY <1>1, <1>3, <2>3 DEF RemoveFirst
  <2> QED
    BY <1>3, <2>2, <2>4
<1> QED
  BY <1>2, <1>3
==============================================================================
