---------------------------- MODULE SessionProofs ----------------------------
(***************************************************************************)
(* Proofs about a session, for rings of any size, any number of calls and  *)
(* of notifications.                                                       *)
(*                                                                         *)
(* The operators that go through a buffer are functions defined by         *)
(* recursion on its positions.  What they compute is proved from the least *)
(* natural number at which a claim about them would fail.                  *)
(***************************************************************************)
EXTENDS PgrustSession, WellFoundedInduction, SequenceTheorems, TLAPS

-----------------------------------------------------------------------------
(* Induction *)

LEMMA LeastOf ==
    ASSUME NEW T, T \subseteq Nat, T # {}
    PROVE  \E x \in T : \A y \in T : x <= y
<1> DEFINE R == {ss \in Nat \X Nat : ss[1] < ss[2]}
<1>1. IsWellFoundedOn(R, Nat) BY NatLessThanWellFounded, Zenon DEF OpToRel
<1>2. PICK x \in T : \A y \in T : ~ (<<y, x>> \in R) BY <1>1, WFMin, Zenon
<1>3. ASSUME NEW y \in T PROVE x <= y
  <2>1. x \in Nat /\ y \in Nat OBVIOUS
  <2>2. ~ (<<y, x>> \in R) BY <1>2
  <2>3. ~ (y < x) BY <2>1, <2>2
  <2> QED BY <2>1, <2>3
<1> QED BY <1>3

\* What holds of the empty sequence, and of one with an element more, holds of all.
LEMMA BySequence ==
    ASSUME NEW U, NEW P, << >> \in P,
           \A s \in Seq(U), u \in U : s \in P => Append(s, u) \in P
    PROVE  Seq(U) \subseteq P
<1> DEFINE Bad == {n \in Nat : \E s \in Seq(U) : Len(s) = n /\ s \notin P}
<1> SUFFICES ASSUME NEW z \in Seq(U), z \notin P PROVE FALSE OBVIOUS
<1>1. Bad \subseteq Nat /\ Len(z) \in Bad BY LenProperties
<1>2. PICK n \in Bad : \A m \in Bad : n <= m
  <2> HIDE DEF Bad
  <2> QED BY <1>1, LeastOf
<1>3. PICK s \in Seq(U) : Len(s) = n /\ s \notin P BY <1>2
<1>4. s # << >> BY <1>3
<1>5. PICK t \in Seq(U), u \in U : s = Append(t, u) BY <1>4, SequenceEmptyOrAppend
<1>6. Len(t) \in Nat /\ Len(t) < n BY <1>3, <1>5, AppendProperties, LenProperties
<1>7. t \in P BY <1>2, <1>6
<1> QED BY <1>3, <1>5, <1>7

-----------------------------------------------------------------------------
(* Only *)

LEMMA OnlyStep ==
    ASSUME NEW s, Len(s) \in Nat, NEW S
    PROVE  \E f : /\ f = [i \in 0 .. Len(s) |-> IF i = 0 THEN <<>>
                             ELSE IF s[i] \in S THEN Append(f[i - 1], s[i]) ELSE f[i - 1]]
                  /\ Only(s, S) = f[Len(s)]
<1> DEFINE D(f, i) == IF i = 0 THEN <<>> ELSE IF s[i] \in S THEN Append(f[i - 1], s[i]) ELSE f[i - 1]
           Bad == {n \in 0 .. Len(s) : ~ \E f : f = [i \in 0 .. n |-> D(f, i)]}
<1>1. Bad = {}
  <2> SUFFICES ASSUME Bad # {} PROVE FALSE OBVIOUS
  <2>1. PICK n \in Bad : \A m \in Bad : n <= m
    <3>1. Bad \subseteq Nat OBVIOUS
    <3> HIDE DEF Bad
    <3> QED BY <3>1, LeastOf
  <2>2. n # 0
    <3>1. [i \in 0 .. 0 |-> <<>>] = [i \in 0 .. 0 |-> D([j \in 0 .. 0 |-> <<>>], i)] OBVIOUS
    <3> QED BY <3>1
  <2>3. \E f : f = [i \in 0 .. n - 1 |-> D(f, i)]
    <3>1. n - 1 \in 0 .. Len(s) /\ ~ n <= n - 1 BY <2>2
    <3>2. n - 1 \notin Bad BY <2>1, <3>1, Zenon
    <3> QED BY <3>1, <3>2, Zenon
  <2>4. PICK f : f = [i \in 0 .. n - 1 |-> D(f, i)] BY <2>3
  <2> DEFINE g == [i \in 0 .. n |-> IF i = n THEN D(f, n) ELSE f[i]]
  <2>5. \A i \in 0 .. n : g[i] = D(g, i)
    <3> SUFFICES ASSUME NEW i \in 0 .. n PROVE g[i] = D(g, i) OBVIOUS
    <3>1. CASE i = n BY <2>1, <2>2, <3>1
    <3>2. CASE i # n
      <4>1. i \in 0 .. n - 1 /\ g[i] = f[i] BY <3>2
      <4>2. i # 0 => g[i - 1] = f[i - 1] BY <2>1, <3>2
      <4>3. f[i] = D(f, i) BY <2>4, <4>1, Zenon
      <4> QED BY <4>1, <4>2, <4>3
    <3> QED BY <3>1, <3>2
  <2>6. g = [i \in 0 .. n |-> D(g, i)] BY <2>5, Zenon
  <2> QED BY <2>1, <2>6, Zenon
<1>2. \E f : f = [i \in 0 .. Len(s) |-> D(f, i)] BY <1>1
<1> QED BY <1>2, Zenon DEF Only

\* What Only keeps of no units, of one more, and of two runs of them.
LEMMA OnlyEmpty == ASSUME NEW S PROVE Only(<< >>, S) = << >>
BY OnlyStep

LEMMA OnlyAppend ==
    ASSUME NEW U, NEW s \in Seq(U), NEW u \in U, NEW S
    PROVE  Only(Append(s, u), S) = IF u \in S THEN Append(Only(s, S), u) ELSE Only(s, S)
<1> DEFINE t == Append(s, u)
<1>1. /\ Len(s) \in Nat /\ Len(t) = Len(s) + 1 /\ t[Len(s) + 1] = u
      /\ \A i \in 1 .. Len(s) : t[i] = s[i]
  BY AppendProperties, LenProperties
<1> HIDE DEF t
<1>a. Len(t) \in Nat /\ Len(t) \in 0 .. Len(t) /\ Len(t) # 0 BY <1>1
<1>2. PICK f : /\ f = [i \in 0 .. Len(s) |-> IF i = 0 THEN <<>>
                             ELSE IF s[i] \in S THEN Append(f[i - 1], s[i]) ELSE f[i - 1]]
               /\ Only(s, S) = f[Len(s)]
  BY <1>1, OnlyStep
<1>3. PICK g : /\ g = [i \in 0 .. Len(t) |-> IF i = 0 THEN <<>>
                             ELSE IF t[i] \in S THEN Append(g[i - 1], t[i]) ELSE g[i - 1]]
               /\ Only(t, S) = g[Len(t)]
  BY <1>a, OnlyStep
<1> DEFINE Bad == {i \in 0 .. Len(s) : f[i] # g[i]}
<1>4. Bad = {}
  <2> SUFFICES ASSUME Bad # {} PROVE FALSE OBVIOUS
  <2>1. PICK n \in Bad : \A m \in Bad : n <= m
    <3>1. Bad \subseteq Nat OBVIOUS
    <3> HIDE DEF Bad
    <3> QED BY <3>1, LeastOf
  <2>2. n \in 0 .. Len(s) /\ n \in 0 .. Len(t) BY <1>1
  <2>3. n # 0 BY <1>2, <1>3, <2>2
  <2>4. n - 1 \in 0 .. Len(s) /\ n - 1 \notin Bad BY <2>1, <2>3
  <2>5. f[n - 1] = g[n - 1] BY <2>4
  <2>6. f[n] = IF s[n] \in S THEN Append(f[n - 1], s[n]) ELSE f[n - 1] BY <1>2, <2>2, <2>3
  <2>7. g[n] = IF t[n] \in S THEN Append(g[n - 1], t[n]) ELSE g[n - 1] BY <1>3, <2>2, <2>3
  <2>8. t[n] = s[n] BY <1>1, <2>2, <2>3
  <2> QED BY <2>1, <2>5, <2>6, <2>7, <2>8
<1>5. f[Len(s)] = g[Len(s)] BY <1>1, <1>4
<1>6. g[Len(t)] = IF t[Len(t)] \in S THEN Append(g[Len(t) - 1], t[Len(t)]) ELSE g[Len(t) - 1]
  BY <1>a, <1>3, Zenon
<1> QED BY <1>1, <1>2, <1>3, <1>5, <1>6 DEF t

\* Only keeps units of the sequence, all in S.
LEMMA OnlyType ==
    ASSUME NEW U, NEW s \in Seq(U), NEW S
    PROVE  Only(s, S) \in Seq(U \cap S) /\ Only(s, S) \in Seq(U)
<1> DEFINE P == {z \in Seq(U) : Only(z, S) \in Seq(U \cap S)}
<1>1. << >> \in P BY OnlyEmpty, EmptySeq
<1>2. ASSUME NEW z \in Seq(U), NEW u \in U, z \in P PROVE Append(z, u) \in P
  <2>1. Append(z, u) \in Seq(U) BY AppendProperties
  <2>2. u \in S => Append(Only(z, S), u) \in Seq(U \cap S) BY <1>2, AppendProperties
  <2> QED BY <1>2, <2>1, <2>2, OnlyAppend
<1> HIDE DEF P
<1>3. Seq(U) \subseteq P BY <1>1, <1>2, BySequence
<1>4. Only(s, S) \in Seq(U \cap S) BY <1>3 DEF P
<1>5. U \cap S \subseteq U OBVIOUS
<1> QED BY <1>4, <1>5, SeqMonotonic

\* A sequence may be filtered part by part: how a buffer is, read by read.
LEMMA OnlyConcat ==
    ASSUME NEW U, NEW s \in Seq(U), NEW t \in Seq(U), NEW S
    PROVE  Only(s \o t, S) = Only(s, S) \o Only(t, S)
<1> DEFINE P == {z \in Seq(U) : Only(s \o z, S) = Only(s, S) \o Only(z, S)}
<1>a. Only(s, S) \in Seq(U) BY OnlyType
<1>1. << >> \in P BY <1>a, OnlyEmpty, EmptySeq, ConcatEmptySeq
<1>2. ASSUME NEW z \in Seq(U), NEW u \in U, z \in P PROVE Append(z, u) \in P
  <2>1. Append(z, u) \in Seq(U) BY AppendProperties
  <2>2. s \o Append(z, u) = Append(s \o z, u) BY SMT
  <2>3. s \o z \in Seq(U) BY ConcatProperties
  <2>4. Only(z, S) \in Seq(U) BY OnlyType
  <2>5. Only(s, S) \o Append(Only(z, S), u) = Append(Only(s, S) \o Only(z, S), u)
    BY <1>a, <2>4, SMT
  <2>6. Only(Append(s \o z, u), S) = IF u \in S THEN Append(Only(s \o z, S), u) ELSE Only(s \o z, S)
    BY <2>3, OnlyAppend
  <2>7. Only(Append(z, u), S) = IF u \in S THEN Append(Only(z, S), u) ELSE Only(z, S)
    BY OnlyAppend
  <2> QED BY <1>2, <2>1, <2>2, <2>5, <2>6, <2>7
<1> HIDE DEF P
<1>3. Seq(U) \subseteq P BY <1>1, <1>2, BySequence
<1> QED BY <1>3 DEF P

-----------------------------------------------------------------------------
(* Elements and parts of a sequence *)

LEMMA SetOfAppend ==
    ASSUME NEW U, NEW s \in Seq(U), NEW u \in U
    PROVE  SetOf(Append(s, u)) = SetOf(s) \cup {u}
<1> DEFINE t == Append(s, u)
<1>1. /\ Len(s) \in Nat /\ Len(t) = Len(s) + 1 /\ t[Len(s) + 1] = u
      /\ \A i \in 1 .. Len(s) : t[i] = s[i]
  BY AppendProperties, LenProperties
<1> HIDE DEF t
<1>2. SetOf(t) \subseteq SetOf(s) \cup {u}
  <2> SUFFICES ASSUME NEW i \in 1 .. Len(t) PROVE t[i] \in SetOf(s) \cup {u} BY DEF SetOf
  <2>1. i \in 1 .. Len(s) \/ i = Len(s) + 1 BY <1>1
  <2> QED BY <1>1, <2>1 DEF SetOf
<1>3. SetOf(s) \subseteq SetOf(t)
  <2> SUFFICES ASSUME NEW i \in 1 .. Len(s) PROVE s[i] \in SetOf(t) BY DEF SetOf
  <2>1. i \in 1 .. Len(t) BY <1>1
  <2> QED BY <1>1, <2>1 DEF SetOf
<1>4. u \in SetOf(t)
  <2>1. Len(s) + 1 \in 1 .. Len(t) BY <1>1
  <2> QED BY <1>1, <2>1 DEF SetOf
<1> QED BY <1>2, <1>3, <1>4 DEF t

\* The elements of a sequence, through the operators on sequences.
LEMMA SetOfEmpty == SetOf(<< >>) = {}
BY DEF SetOf

\* A sequence without elements is empty.
LEMMA EmptySetOf ==
    ASSUME NEW U, NEW s \in Seq(U), SetOf(s) = {}
    PROVE  s = << >>
<1>1. Len(s) \in Nat BY LenProperties
<1>2. Len(s) = 0
  <2>1. 1 \notin 1 .. Len(s) BY DEF SetOf
  <2> QED BY <1>1, <2>1
<1> QED BY <1>2, EmptySeq

\* The elements of two sequences joined.
LEMMA SetOfConcat ==
    ASSUME NEW U, NEW s \in Seq(U), NEW t \in Seq(U)
    PROVE  SetOf(s \o t) = SetOf(s) \cup SetOf(t)
<1> DEFINE P == {z \in Seq(U) : SetOf(s \o z) = SetOf(s) \cup SetOf(z)}
<1>1. << >> \in P BY SetOfEmpty, EmptySeq, ConcatEmptySeq
<1>2. ASSUME NEW z \in Seq(U), NEW u \in U, z \in P PROVE Append(z, u) \in P
  <2>1. Append(z, u) \in Seq(U) BY AppendProperties
  <2>2. s \o Append(z, u) = Append(s \o z, u) BY SMT
  <2> DEFINE w == s \o z
  <2>3. w \in Seq(U) BY ConcatProperties
  <2>4. SetOf(Append(w, u)) = SetOf(w) \cup {u}
    <3> HIDE DEF w
    <3> QED BY <2>3, SetOfAppend
  <2>5. SetOf(Append(z, u)) = SetOf(z) \cup {u} BY SetOfAppend
  <2> QED BY <1>2, <2>1, <2>2, <2>4, <2>5
<1> HIDE DEF P
<1>3. Seq(U) \subseteq P BY <1>1, <1>2, BySequence
<1> QED BY <1>3 DEF P

\* The elements Only keeps.
LEMMA SetOfOnly ==
    ASSUME NEW U, NEW s \in Seq(U), NEW S
    PROVE  SetOf(Only(s, S)) = SetOf(s) \cap S
<1> DEFINE P == {z \in Seq(U) : SetOf(Only(z, S)) = SetOf(z) \cap S}
<1>1. << >> \in P BY SetOfEmpty, EmptySeq, OnlyEmpty
<1>2. ASSUME NEW z \in Seq(U), NEW u \in U, z \in P PROVE Append(z, u) \in P
  <2>1. Append(z, u) \in Seq(U) BY AppendProperties
  <2>2. Only(z, S) \in Seq(U) BY OnlyType
  <2>3. SetOf(Append(Only(z, S), u)) = SetOf(Only(z, S)) \cup {u} BY <2>2, SetOfAppend
  <2>4. SetOf(Append(z, u)) = SetOf(z) \cup {u} BY SetOfAppend
  <2>5. Only(Append(z, u), S) = IF u \in S THEN Append(Only(z, S), u) ELSE Only(z, S)
    BY OnlyAppend
  <2> QED BY <1>2, <2>1, <2>3, <2>4, <2>5
<1> HIDE DEF P
<1>3. Seq(U) \subseteq P BY <1>1, <1>2, BySequence
<1> QED BY <1>3 DEF P

\* Only keeps nothing exactly when nothing of S is there.
LEMMA OnlyNone ==
    ASSUME NEW U, NEW s \in Seq(U), NEW S
    PROVE  Only(s, S) = << >> <=> SetOf(s) \cap S = {}
<1>1. Only(s, S) \in Seq(U) BY OnlyType
<1> QED BY <1>1, SetOfOnly, SetOfEmpty, EmptySetOf

\* Only keeps all of a sequence that is all in S.
LEMMA OnlyAll ==
    ASSUME NEW U, NEW s \in Seq(U), NEW S, SetOf(s) \subseteq S
    PROVE  Only(s, S) = s
<1> DEFINE P == {z \in Seq(U) : SetOf(z) \subseteq S => Only(z, S) = z}
<1>1. << >> \in P BY EmptySeq, OnlyEmpty
<1>2. ASSUME NEW z \in Seq(U), NEW u \in U, z \in P PROVE Append(z, u) \in P
  <2>1. Append(z, u) \in Seq(U) BY AppendProperties
  <2>4. SetOf(Append(z, u)) = SetOf(z) \cup {u} BY SetOfAppend
  <2>5. Only(Append(z, u), S) = IF u \in S THEN Append(Only(z, S), u) ELSE Only(z, S)
    BY OnlyAppend
  <2> QED BY <1>2, <2>1, <2>4, <2>5
<1> HIDE DEF P
<1>3. Seq(U) \subseteq P BY <1>1, <1>2, BySequence
<1> QED BY <1>3 DEF P

\* A sequence is its first k elements and those after them.
LEMMA Halves ==
    ASSUME NEW U, NEW s \in Seq(U), NEW k \in 0 .. Len(s)
    PROVE  /\ SubSeq(s, 1, k) \in Seq(U) /\ Len(SubSeq(s, 1, k)) = k
           /\ \A i \in 1 .. k : SubSeq(s, 1, k)[i] = s[i]
           /\ After(s, k) \in Seq(U) /\ Len(After(s, k)) = Len(s) - k
           /\ \A i \in 1 .. Len(s) - k : After(s, k)[i] = s[k + i]
           /\ s = SubSeq(s, 1, k) \o After(s, k)
<1>1. Len(s) \in Nat /\ \A i \in 1 .. Len(s) : s[i] \in U BY LenProperties, ElementOfSeq
<1>2. \A i \in 1 .. k : s[i] \in U BY <1>1
<1>3. \A i \in k + 1 .. Len(s) : s[i] \in U BY <1>1
<1>4. /\ SubSeq(s, 1, k) \in Seq(U) /\ Len(SubSeq(s, 1, k)) = k
      /\ \A i \in 1 .. k : SubSeq(s, 1, k)[i] = s[i]
  <2>1. /\ SubSeq(s, 1, k) \in Seq(U)
        /\ Len(SubSeq(s, 1, k)) = IF 1 <= k THEN k - 1 + 1 ELSE 0
        /\ \A i \in 1 .. k - 1 + 1 : SubSeq(s, 1, k)[i] = s[1 + i - 1]
    BY <1>2, SubSeqProperties, Z3
  <2> QED BY <2>1
<1>5. /\ After(s, k) \in Seq(U) /\ Len(After(s, k)) = Len(s) - k
      /\ \A i \in 1 .. Len(s) - k : After(s, k)[i] = s[k + i]
  <2>1. /\ SubSeq(s, k + 1, Len(s)) \in Seq(U)
        /\ Len(SubSeq(s, k + 1, Len(s))) = IF k + 1 <= Len(s) THEN Len(s) - (k + 1) + 1 ELSE 0
        /\ \A i \in 1 .. Len(s) - (k + 1) + 1 : SubSeq(s, k + 1, Len(s))[i] = s[k + 1 + i - 1]
    BY <1>1, <1>3, SubSeqProperties, Z3
  <2> QED BY <1>1, <2>1 DEF After
<1>6. s = SubSeq(s, 1, k) \o After(s, k)
  <2>1. SubSeq(s, 1, Len(s)) = s BY SubSeqFull
  <2>2. 1 \in 1 .. Len(s) + 1 /\ k \in 1 - 1 .. Len(s) /\ Len(s) \in k .. Len(s) BY <1>1
  <2>3. SubSeq(s, 1, k) \o SubSeq(s, k + 1, Len(s)) = SubSeq(s, 1, Len(s))
    BY <2>2, ConcatAdjacentSubSeq
  <2> QED BY <2>1, <2>3 DEF After
<1> QED BY <1>4, <1>5, <1>6

-----------------------------------------------------------------------------
(* Notifications *)

BackTypes == {"R", "Z", "C", "E", "1", "A"}
BackUnit == [type : BackTypes, no : Nat, part : {1, 2}]
Replied == Seq(BackUnit)

Sorted(s) == \A i, j \in 1 .. Len(s) : i < j => s[i] < s[j]
Below(a, b) == \A x \in SetOf(a), y \in SetOf(b) : x < y

\* Two runs joined are in order when each is and the first is below the second.
LEMMA SortedConcat ==
    ASSUME NEW a \in Seq(Nat), NEW b \in Seq(Nat)
    PROVE  Sorted(a \o b) <=> Sorted(a) /\ Sorted(b) /\ Below(a, b)
<1> DEFINE c == a \o b
<1>1. /\ Len(a) \in Nat /\ Len(b) \in Nat /\ Len(c) = Len(a) + Len(b)
      /\ \A i \in 1 .. Len(a) : c[i] = a[i]
      /\ \A i \in 1 .. Len(b) : c[Len(a) + i] = b[i]
  BY ConcatProperties, LenProperties
<1> HIDE DEF c
<1>a. ASSUME NEW i \in 1 .. Len(c), i > Len(a) PROVE i - Len(a) \in 1 .. Len(b) /\ c[i] = b[i - Len(a)]
  <2>1. i - Len(a) \in 1 .. Len(b) /\ Len(a) + (i - Len(a)) = i BY <1>1, <1>a
  <2>2. c[Len(a) + (i - Len(a))] = b[i - Len(a)] BY <1>1, <2>1
  <2> QED BY <2>1, <2>2
<1>2. ASSUME Sorted(c) PROVE Sorted(a) BY <1>1, <1>2 DEF Sorted
<1>3. ASSUME Sorted(c) PROVE Sorted(b)
  <2> SUFFICES ASSUME NEW i \in 1 .. Len(b), NEW j \in 1 .. Len(b), i < j PROVE b[i] < b[j]
    BY DEF Sorted
  <2>1. Len(a) + i \in 1 .. Len(c) /\ Len(a) + j \in 1 .. Len(c) /\ Len(a) + i < Len(a) + j BY <1>1
  <2> QED BY <1>1, <1>3, <2>1 DEF Sorted
<1>4. ASSUME Sorted(c) PROVE Below(a, b)
  <2> SUFFICES ASSUME NEW i \in 1 .. Len(a), NEW j \in 1 .. Len(b) PROVE a[i] < b[j]
    BY DEF Below, SetOf
  <2>1. i \in 1 .. Len(c) /\ Len(a) + j \in 1 .. Len(c) /\ i < Len(a) + j BY <1>1
  <2> QED BY <1>1, <1>4, <2>1 DEF Sorted
<1>5. ASSUME Sorted(a), Sorted(b), Below(a, b) PROVE Sorted(c)
  <2> SUFFICES ASSUME NEW i \in 1 .. Len(c), NEW j \in 1 .. Len(c), i < j PROVE c[i] < c[j]
    BY DEF Sorted
  <2>1. CASE j <= Len(a)
    <3>1. i \in 1 .. Len(a) /\ j \in 1 .. Len(a) BY <1>1, <2>1
    <3> QED BY <1>1, <1>5, <3>1 DEF Sorted
  <2>2. CASE i <= Len(a) /\ j > Len(a)
    <3>1. j - Len(a) \in 1 .. Len(b) /\ i \in 1 .. Len(a) BY <1>1, <2>2
    <3>2. c[i] = a[i] /\ c[j] = b[j - Len(a)] BY <1>1, <1>a, <2>2, <3>1
    <3>3. a[i] \in SetOf(a) /\ b[j - Len(a)] \in SetOf(b) BY <3>1 DEF SetOf
    <3> QED BY <1>5, <3>2, <3>3 DEF Below
  <2>3. CASE i > Len(a)
    <3>1. i - Len(a) \in 1 .. Len(b) /\ j - Len(a) \in 1 .. Len(b) /\ i - Len(a) < j - Len(a)
      BY <1>1, <2>3
    <3>2. c[i] = b[i - Len(a)] /\ c[j] = b[j - Len(a)] BY <1>1, <1>a, <2>3
    <3> QED BY <1>5, <3>1, <3>2 DEF Sorted
  <2> QED BY <1>1, <2>1, <2>2, <2>3
<1> QED BY <1>2, <1>3, <1>4, <1>5 DEF c

\* The notifications of a buffer are the numbers of the last halves in it.
LEMMA NotesType ==
    ASSUME NEW s \in Replied
    PROVE  /\ NotesOf(s) \in Seq(Nat)
           /\ SetOf(NotesOf(s)) = {u.no : u \in SetOf(s) \cap LastHalves}
<1> DEFINE t == Only(s, LastHalves)
<1>1. t \in Seq(BackUnit) /\ SetOf(t) = SetOf(s) \cap LastHalves BY OnlyType, SetOfOnly DEF Replied
<1>2. Len(t) \in Nat /\ \A i \in 1 .. Len(t) : t[i] \in BackUnit BY <1>1, LenProperties, ElementOfSeq
<1>3. NotesOf(s) = [i \in 1 .. Len(t) |-> t[i].no] BY DEF NotesOf
<1> HIDE DEF t
<1>4. NotesOf(s) \in Seq(Nat) /\ Len(NotesOf(s)) = Len(t)
  <2>1. \A i \in 1 .. Len(t) : t[i].no \in Nat BY <1>2 DEF BackUnit
  <2> QED BY <1>2, <1>3, <2>1, SMT
<1>5. SetOf(NotesOf(s)) = {u.no : u \in SetOf(t)} BY <1>3, <1>4 DEF SetOf
<1> QED BY <1>1, <1>4, <1>5

\* The notifications of a buffer are those of its parts, in order.
LEMMA NotesConcat ==
    ASSUME NEW s \in Replied, NEW t \in Replied
    PROVE  NotesOf(s \o t) = NotesOf(s) \o NotesOf(t)
<1> DEFINE a == Only(s, LastHalves)
           b == Only(t, LastHalves)
           c == Only(s \o t, LastHalves)
<1>1. a \in Seq(BackUnit) /\ b \in Seq(BackUnit) BY OnlyType DEF Replied
<1>2. c = a \o b BY OnlyConcat DEF Replied
<1>3. /\ NotesOf(s) = [i \in 1 .. Len(a) |-> a[i].no] /\ NotesOf(t) = [i \in 1 .. Len(b) |-> b[i].no]
      /\ NotesOf(s \o t) = [i \in 1 .. Len(c) |-> c[i].no]
  BY DEF NotesOf
<1> HIDE DEF a, b, c
<1>4. /\ Len(a) \in Nat /\ Len(b) \in Nat /\ Len(c) = Len(a) + Len(b)
      /\ \A i \in 1 .. Len(a) : c[i] = a[i]
      /\ \A i \in 1 .. Len(a) + Len(b) : c[i] = IF i <= Len(a) THEN a[i] ELSE b[i - Len(a)]
  BY <1>1, <1>2, ConcatProperties, LenProperties
<1>5. NotesOf(s) \in Seq(Nat) /\ NotesOf(t) \in Seq(Nat) BY NotesType
<1>6. NotesOf(s \o t) \in Seq(Nat)
  <2>1. s \o t \in Replied BY ConcatProperties DEF Replied
  <2> QED BY <2>1, NotesType
<1>7. /\ Len(NotesOf(s)) = Len(a) /\ Len(NotesOf(t)) = Len(b) /\ Len(NotesOf(s \o t)) = Len(c)
  BY <1>3, <1>4, <1>5, <1>6, LenProperties
<1> DEFINE x == NotesOf(s)
           y == NotesOf(t)
           z == NotesOf(s \o t)
<1>b. x \in Seq(Nat) /\ y \in Seq(Nat) /\ Len(x) = Len(a) /\ Len(y) = Len(b) BY <1>5, <1>7
<1> HIDE DEF x, y, z
<1>8. /\ x \o y \in Seq(Nat) /\ Len(x \o y) = Len(a) + Len(b)
      /\ \A i \in 1 .. Len(a) + Len(b) : (x \o y)[i] = IF i <= Len(a) THEN x[i] ELSE y[i - Len(a)]
  <2>1. /\ x \o y \in Seq(Nat) /\ Len(x \o y) = Len(x) + Len(y)
        /\ \A i \in 1 .. Len(x) + Len(y) : (x \o y)[i] = IF i <= Len(x) THEN x[i] ELSE y[i - Len(x)]
    BY <1>b, ConcatProperties, Zenon
  <2> QED BY <1>b, <2>1
<1>9. \A i \in 1 .. Len(a) + Len(b) : z[i] = (x \o y)[i]
  <2> SUFFICES ASSUME NEW i \in 1 .. Len(a) + Len(b) PROVE z[i] = (x \o y)[i] OBVIOUS
  <2>1. z[i] = c[i].no BY <1>3, <1>4 DEF z
  <2>2. CASE i <= Len(a)
    <3>1. i \in 1 .. Len(a) BY <1>4, <2>2
    <3>2. x[i] = a[i].no BY <1>3, <3>1 DEF x
    <3> QED BY <1>4, <1>8, <2>1, <2>2, <3>1, <3>2
  <2>3. CASE i > Len(a)
    <3>1. i - Len(a) \in 1 .. Len(b) BY <1>4, <2>3
    <3>2. y[i - Len(a)] = b[i - Len(a)].no BY <1>3, <3>1 DEF y
    <3>3. c[i] = b[i - Len(a)] BY <1>4, <2>3
    <3> QED BY <1>4, <1>8, <2>1, <2>3, <3>2, <3>3
  <2>4. i <= Len(a) \/ i > Len(a) BY <1>4
  <2> QED BY <2>2, <2>3, <2>4
<1>10. z = x \o y BY <1>4, <1>6, <1>7, <1>8, <1>9, SeqEqual DEF z
<1> QED BY <1>10 DEF x, y, z

\* A query's notifications are those of a first part of its reply.
LEMMA BeforeErrorIs ==
    ASSUME NEW s \in Replied
    PROVE  \E k \in 0 .. Len(s) : BeforeError(s) = SubSeq(s, 1, k)
<1>1. Len(s) \in Nat BY LenProperties DEF Replied
<1>2. CASE ~ \E i \in 1 .. Len(s) : s[i].type = "E"
  <2>1. BeforeError(s) = s BY <1>2 DEF BeforeError
  <2>2. s = SubSeq(s, 1, Len(s)) BY SubSeqFull DEF Replied
  <2>3. Len(s) \in 0 .. Len(s) BY <1>1
  <2> QED BY <2>1, <2>2, <2>3
<1>3. CASE \E i \in 1 .. Len(s) : s[i].type = "E"
  <2> DEFINE T == {i \in 1 .. Len(s) : s[i].type = "E"}
             First(i) == s[i].type = "E" /\ \A j \in 1 .. i - 1 : s[j].type # "E"
             k == CHOOSE i \in 1 .. Len(s) : First(i)
  <2>1. PICK n \in T : \A m \in T : n <= m
    <3>1. T \subseteq Nat /\ T # {} BY <1>3
    <3> HIDE DEF T
    <3> QED BY <3>1, LeastOf
  <2>2. First(n)
    <3> SUFFICES ASSUME NEW j \in 1 .. n - 1, s[j].type = "E" PROVE FALSE BY <2>1
    <3>1. j \in T /\ ~ n <= j BY <2>1
    <3> QED BY <2>1, <3>1
  <2>3. n \in 1 .. Len(s) BY <2>1
  <2> HIDE DEF First
  <2>4. k \in 1 .. Len(s) BY <2>2, <2>3
  <2>5. BeforeError(s) = SubSeq(s, 1, k) BY <1>3, Zenon DEF BeforeError, First
  <2>6. k \in 0 .. Len(s) BY <2>4
  <2> QED BY <2>5, <2>6
<1> QED BY <1>2, <1>3

-----------------------------------------------------------------------------
(* Walks over a buffer *)

\* A function whose value at a position is that at a later one, or known.
GoesOn(f, L, stop, val, next) ==
    f = [at \in 0 .. L |-> IF at \in stop THEN val[at] ELSE f[next[at]]]

\* A walk that always goes on to a later position, or stops, is a function.
LEMMA Onward ==
    ASSUME NEW L \in Nat, NEW stop, NEW val, NEW next,
           \A at \in 0 .. L : at \notin stop => next[at] \in at + 1 .. L
    PROVE  \E f : GoesOn(f, L, stop, val, next)
<1> DEFINE D(f, at) == IF at \in stop THEN val[at] ELSE f[next[at]]
           Bad == {n \in 0 .. L : ~ \E f : f = [at \in L - n .. L |-> D(f, at)]}
<1>1. Bad = {}
  <2> SUFFICES ASSUME Bad # {} PROVE FALSE OBVIOUS
  <2>1. PICK n \in Bad : \A m \in Bad : n <= m
    <3>1. Bad \subseteq Nat OBVIOUS
    <3> HIDE DEF Bad
    <3> QED BY <3>1, LeastOf
  <2>2. n \in 0 .. L OBVIOUS
  <2>3. \E f : \A at \in L - n + 1 .. L : f[at] = D(f, at)
    <3>1. CASE n = 0 BY <3>1
    <3>2. CASE n # 0
      <4>1. n - 1 \in 0 .. L /\ ~ n <= n - 1 /\ L - (n - 1) = L - n + 1 BY <2>2, <3>2
      <4>2. n - 1 \notin Bad BY <2>1, <4>1, Zenon
      <4>3. PICK f : f = [at \in L - (n - 1) .. L |-> D(f, at)] BY <4>1, <4>2, Zenon
      <4>4. \A at \in L - (n - 1) .. L : f[at] = D(f, at) BY <4>3, Zenon
      <4> QED BY <4>1, <4>4, Zenon
    <3> QED BY <3>1, <3>2
  <2>4. PICK f : \A at \in L - n + 1 .. L : f[at] = D(f, at) BY <2>3
  <2> DEFINE g == [at \in L - n .. L |-> IF at = L - n THEN D(f, at) ELSE f[at]]
  <2>5. \A at \in L - n .. L : g[at] = D(g, at)
    <3> SUFFICES ASSUME NEW at \in L - n .. L PROVE g[at] = D(g, at) OBVIOUS
    <3>0. at \in 0 .. L /\ L - n \in 0 .. L BY <2>2
    <3>1. g[at] = D(f, at)
      <4>1. CASE at = L - n BY <4>1
      <4>2. CASE at # L - n
        <5>1. at \in L - n + 1 .. L BY <2>2, <4>2
        <5> QED BY <2>4, <4>2, <5>1
      <4> QED BY <4>1, <4>2
    <3>2. ASSUME at \notin stop PROVE f[next[at]] = g[next[at]]
      <4>1. next[at] \in at + 1 .. L BY <3>0, <3>2
      <4>2. next[at] \in L - n .. L /\ next[at] # L - n BY <2>2, <3>0, <4>1
      <4> QED BY <4>2
    <3> QED BY <3>1, <3>2
  <2>6. g = [at \in L - n .. L |-> D(g, at)] BY <2>5, Zenon
  <2> QED BY <2>1, <2>6, Zenon
<1>2. L \in 0 .. L /\ L - L = 0 OBVIOUS
<1>3. L \notin Bad BY <1>1
<1>4. PICK f : f = [at \in L - L .. L |-> D(f, at)] BY <1>2, <1>3, Zenon
<1> QED BY <1>2, <1>4, Zenon DEF GoesOn

\* A whole message ends behind where it starts.
LEMMA EndIs ==
    ASSUME NEW buf \in Replied, NEW at \in 0 .. Len(buf), WholeAt(buf, at)
    PROVE  EndOf(buf, at) \in at + 1 .. Len(buf) /\ EndOf(buf, at) \in Nat
BY LenProperties DEF WholeAt, EndOf, Replied

\* The walk over a buffer, one message at a time (#scanForReply).
LEMMA WalkStep ==
    ASSUME NEW buf \in Replied, NEW kind, NEW at \in 0 .. Len(buf)
    PROVE  Walk(buf, kind)[at] =
              IF ~ WholeAt(buf, at) THEN [found |-> FALSE, end |-> at]
              ELSE IF buf[at + 1].type \in EndsReplyTo(kind)
                   THEN [found |-> TRUE, end |-> EndOf(buf, at)]
                   ELSE Walk(buf, kind)[EndOf(buf, at)]
<1> DEFINE L == Len(buf)
           Stops(p) == ~ WholeAt(buf, p) \/ buf[p + 1].type \in EndsReplyTo(kind)
           Val(p) == IF ~ WholeAt(buf, p) THEN [found |-> FALSE, end |-> p]
                                          ELSE [found |-> TRUE, end |-> EndOf(buf, p)]
           stop == {p \in 0 .. L : Stops(p)}
           val == [p \in 0 .. L |-> Val(p)]
           next == [p \in 0 .. L |-> EndOf(buf, p)]
           D(f, p) == IF ~ WholeAt(buf, p) THEN [found |-> FALSE, end |-> p]
                      ELSE IF buf[p + 1].type \in EndsReplyTo(kind)
                           THEN [found |-> TRUE, end |-> EndOf(buf, p)]
                           ELSE f[EndOf(buf, p)]
<1>1. L \in Nat BY LenProperties DEF Replied
<1>2. \A p \in 0 .. L : p \notin stop => next[p] \in p + 1 .. L
  <2> SUFFICES ASSUME NEW p \in 0 .. L, WholeAt(buf, p) PROVE EndOf(buf, p) \in p + 1 .. L OBVIOUS
  <2> QED BY EndIs
<1>3. \E f : GoesOn(f, L, stop, val, next)
  <2> HIDE DEF stop, val, next, L
  <2> QED BY <1>1, <1>2, Onward
<1>4. ASSUME NEW f, NEW p \in 0 .. L PROVE (IF p \in stop THEN val[p] ELSE f[next[p]]) = D(f, p)
  OBVIOUS
<1>5. \E f : f = [p \in 0 .. L |-> D(f, p)]
  <2> HIDE DEF stop, val, next, L, D
  <2>1. PICK f : f = [p \in 0 .. L |-> IF p \in stop THEN val[p] ELSE f[next[p]]] BY <1>3, Zenon DEF GoesOn
  <2>2. f = [p \in 0 .. L |-> D(f, p)] BY <1>4, <2>1, Zenon
  <2> QED BY <2>2
<1>6. Walk(buf, kind) = [p \in 0 .. L |-> D(Walk(buf, kind), p)] BY <1>5, Zenon DEF Walk
<1> DEFINE w == Walk(buf, kind)
<1> HIDE DEF w
<1>7. w = [p \in 0 .. L |-> D(w, p)] BY <1>6 DEF w
<1>8. w[at] = D(w, at) BY <1>7, Zenon
<1> QED BY <1>8 DEF w

\* The walk over the leading notifications (#drainNotifications).
LEMMA LeadingIs ==
    ASSUME NEW buf \in Replied
    PROVE  \E f : /\ f = [at \in 0 .. Len(buf) |->
                             IF WholeAt(buf, at) /\ buf[at + 1].type = "A" THEN f[EndOf(buf, at)] ELSE at]
                  /\ Leading(buf) = f[0]
<1> DEFINE L == Len(buf)
           Goes(p) == WholeAt(buf, p) /\ buf[p + 1].type = "A"
           stop == {p \in 0 .. L : ~ Goes(p)}
           val == [p \in 0 .. L |-> p]
           next == [p \in 0 .. L |-> EndOf(buf, p)]
           D(f, p) == IF WholeAt(buf, p) /\ buf[p + 1].type = "A" THEN f[EndOf(buf, p)] ELSE p
<1>1. L \in Nat BY LenProperties DEF Replied
<1>2. \A p \in 0 .. L : p \notin stop => next[p] \in p + 1 .. L
  <2> SUFFICES ASSUME NEW p \in 0 .. L, WholeAt(buf, p) PROVE EndOf(buf, p) \in p + 1 .. L OBVIOUS
  <2> QED BY EndIs
<1>3. \E f : GoesOn(f, L, stop, val, next)
  <2> HIDE DEF stop, val, next, L
  <2> QED BY <1>1, <1>2, Onward
<1>4. ASSUME NEW f, NEW p \in 0 .. L PROVE (IF p \in stop THEN val[p] ELSE f[next[p]]) = D(f, p)
  OBVIOUS
<1>5. \E f : f = [p \in 0 .. L |-> D(f, p)]
  <2> HIDE DEF stop, val, next, L, D
  <2>1. PICK f : f = [p \in 0 .. L |-> IF p \in stop THEN val[p] ELSE f[next[p]]] BY <1>3, Zenon DEF GoesOn
  <2>2. f = [p \in 0 .. L |-> D(f, p)] BY <1>4, <2>1, Zenon
  <2> QED BY <2>2
<1> QED BY <1>5, Zenon DEF Leading

-----------------------------------------------------------------------------
(* Messages of two units *)

Opens(u) == u.type \in Long /\ u.part = 1
Half(u) == [u EXCEPT !.part = 2]

\* Every second half follows its first, and every first half but the last unit
\* is followed by its second.
Pairs(s) ==
    /\ \A i \in 1 .. Len(s) : s[i].part = 2 => s[i].type \in Long
    /\ \A i \in 1 .. Len(s) - 1 : Opens(s[i]) => s[i + 1] = Half(s[i])
    /\ \A i \in 1 .. Len(s) : s[i].part = 2 => i > 1 /\ Opens(s[i - 1])

\* No message is cut in two after k units of s.
CutAt(s, k) == k = 0 \/ ~ Opens(s[k])
Closes(s) == CutAt(s, Len(s))

\* Paired units cut between two messages are paired on both sides.
LEMMA PairsSplit ==
    ASSUME NEW s \in Replied, Pairs(s), NEW k \in 0 .. Len(s), CutAt(s, k)
    PROVE  /\ Pairs(SubSeq(s, 1, k)) /\ Closes(SubSeq(s, 1, k))
           /\ Pairs(After(s, k))
           /\ Closes(s) => Closes(After(s, k))
<1> DEFINE a == SubSeq(s, 1, k)
           b == After(s, k)
<1>1. Len(s) \in Nat BY LenProperties DEF Replied
<1>2. /\ a \in Replied /\ Len(a) = k /\ \A i \in 1 .. k : a[i] = s[i]
      /\ b \in Replied /\ Len(b) = Len(s) - k /\ \A i \in 1 .. Len(s) - k : b[i] = s[k + i]
  BY Halves DEF Replied
<1> HIDE DEF a, b
<1>3. Pairs(a)
  <2>1. \A i \in 1 .. Len(a) : a[i].part = 2 => a[i].type \in Long BY <1>1, <1>2 DEF Pairs
  <2>2. \A i \in 1 .. Len(a) - 1 : Opens(a[i]) => a[i + 1] = Half(a[i])
    <3> SUFFICES ASSUME NEW i \in 1 .. Len(a) - 1, Opens(a[i]) PROVE a[i + 1] = Half(a[i]) OBVIOUS
    <3>1. i \in 1 .. Len(s) - 1 /\ i \in 1 .. k /\ i + 1 \in 1 .. k BY <1>1, <1>2
    <3> QED BY <1>2, <3>1 DEF Pairs
  <2>3. \A i \in 1 .. Len(a) : a[i].part = 2 => i > 1 /\ Opens(a[i - 1])
    <3> SUFFICES ASSUME NEW i \in 1 .. Len(a), a[i].part = 2 PROVE i > 1 /\ Opens(a[i - 1]) OBVIOUS
    <3>1. i \in 1 .. Len(s) /\ i \in 1 .. k BY <1>1, <1>2
    <3>2. i > 1 /\ Opens(s[i - 1]) BY <1>2, <3>1 DEF Pairs
    <3>3. i - 1 \in 1 .. k BY <3>1, <3>2
    <3> QED BY <1>2, <3>2, <3>3
  <2> QED BY <2>1, <2>2, <2>3 DEF Pairs
<1>4. Closes(a)
  <2>1. k = 0 \/ k \in 1 .. k BY <1>1
  <2> QED BY <1>2, <2>1 DEF CutAt, Closes
<1>5. Pairs(b)
  <2> DEFINE m == Len(s) - k
  <2>0. \A i \in 1 .. m : k + i \in 1 .. Len(s) BY <1>1
  <2>1. \A i \in 1 .. Len(b) : b[i].part = 2 => b[i].type \in Long BY <1>1, <1>2, <2>0 DEF Pairs
  <2>2. \A i \in 1 .. Len(b) - 1 : Opens(b[i]) => b[i + 1] = Half(b[i])
    <3> SUFFICES ASSUME NEW i \in 1 .. Len(b) - 1, Opens(b[i]) PROVE b[i + 1] = Half(b[i]) OBVIOUS
    <3>1. k + i \in 1 .. Len(s) - 1 /\ i \in 1 .. m /\ i + 1 \in 1 .. m /\ k + (i + 1) = (k + i) + 1
      BY <1>1, <1>2
    <3>2. b[i] = s[k + i] /\ b[i + 1] = s[(k + i) + 1] BY <1>2, <3>1
    <3>3. Opens(s[k + i]) => s[(k + i) + 1] = Half(s[k + i]) BY <3>1 DEF Pairs
    <3> QED BY <3>2, <3>3
  <2>3. \A i \in 1 .. Len(b) : b[i].part = 2 => i > 1 /\ Opens(b[i - 1])
    <3> SUFFICES ASSUME NEW i \in 1 .. Len(b), b[i].part = 2 PROVE i > 1 /\ Opens(b[i - 1]) OBVIOUS
    <3>1. k + i \in 1 .. Len(s) /\ i \in 1 .. m BY <1>1, <1>2
    <3>2. s[k + i].part = 2 BY <1>2, <3>1
    <3>3. k + i > 1 /\ Opens(s[k + i - 1]) BY <3>1, <3>2 DEF Pairs
    <3>4. i # 1
      <4> SUFFICES ASSUME i = 1 PROVE FALSE OBVIOUS
      <4>1. k + i - 1 = k /\ k # 0 BY <1>1, <3>3
      <4> QED BY <3>3, <4>1 DEF CutAt
    <3>5. i - 1 \in 1 .. m /\ k + (i - 1) = k + i - 1 BY <1>1, <3>1, <3>4
    <3>6. b[i - 1] = s[k + i - 1] BY <1>2, <3>5
    <3> QED BY <3>1, <3>3, <3>4, <3>6
  <2> QED BY <2>1, <2>2, <2>3 DEF Pairs
<1>6. Closes(s) => Closes(b)
  <2> SUFFICES ASSUME Closes(s), Len(b) # 0 PROVE ~ Opens(b[Len(b)]) BY DEF Closes, CutAt
  <2> DEFINE m == Len(b)
  <2>a. m = Len(s) - k /\ m # 0 BY <1>2
  <2> HIDE DEF m
  <2>b. m \in 1 .. Len(s) - k /\ k + m = Len(s) /\ Len(s) # 0 BY <1>1, <2>a
  <2>1. Len(b) \in 1 .. Len(s) - k /\ k + Len(b) = Len(s) /\ Len(s) # 0 BY <2>b DEF m
  <2>2. b[Len(b)] = s[Len(s)] BY <1>2, <2>1
  <2> QED BY <2>1, <2>2 DEF Closes, CutAt
<1> QED BY <1>3, <1>4, <1>5, <1>6 DEF a, b

\* What comes before paired units is paired.
LEMMA PairsPrefix ==
    ASSUME NEW s \in Replied, NEW t \in Replied, Pairs(s \o t)
    PROVE  Pairs(s)
<1> DEFINE c == s \o t
<1>1. /\ Len(s) \in Nat /\ Len(t) \in Nat /\ Len(c) = Len(s) + Len(t)
      /\ \A i \in 1 .. Len(s) : c[i] = s[i]
  BY ConcatProperties, LenProperties DEF Replied
<1> HIDE DEF c
<1>2. Pairs(c) BY DEF c
<1>3. \A i \in 1 .. Len(s) : i \in 1 .. Len(c) BY <1>1
<1>4. \A i \in 1 .. Len(s) : s[i].part = 2 => s[i].type \in Long BY <1>1, <1>2, <1>3 DEF Pairs
<1>5. \A i \in 1 .. Len(s) - 1 : Opens(s[i]) => s[i + 1] = Half(s[i])
  <2> SUFFICES ASSUME NEW i \in 1 .. Len(s) - 1, Opens(s[i]) PROVE s[i + 1] = Half(s[i]) OBVIOUS
  <2>1. i \in 1 .. Len(c) - 1 /\ i \in 1 .. Len(s) /\ i + 1 \in 1 .. Len(s) BY <1>1
  <2> QED BY <1>1, <1>2, <2>1 DEF Pairs
<1>6. \A i \in 1 .. Len(s) : s[i].part = 2 => i > 1 /\ Opens(s[i - 1])
  <2> SUFFICES ASSUME NEW i \in 1 .. Len(s), s[i].part = 2 PROVE i > 1 /\ Opens(s[i - 1]) OBVIOUS
  <2>1. i > 1 /\ Opens(c[i - 1]) BY <1>1, <1>2, <1>3 DEF Pairs
  <2>2. i - 1 \in 1 .. Len(s) BY <1>1, <2>1
  <2> QED BY <1>1, <2>1, <2>2
<1> QED BY <1>4, <1>5, <1>6 DEF Pairs

\* Whole messages before paired units are paired with them.
LEMMA PairsConcat ==
    ASSUME NEW s \in Replied, NEW t \in Replied, Pairs(s), Closes(s), Pairs(t)
    PROVE  Pairs(s \o t) /\ (Closes(t) => Closes(s \o t))
<1> DEFINE c == s \o t
<1>1. /\ Len(s) \in Nat /\ Len(t) \in Nat /\ Len(c) = Len(s) + Len(t)
      /\ \A i \in 1 .. Len(s) : c[i] = s[i]
      /\ \A i \in 1 .. Len(t) : c[Len(s) + i] = t[i]
  BY ConcatProperties, LenProperties DEF Replied
<1> HIDE DEF c
<1>a. ASSUME NEW i \in 1 .. Len(c), i > Len(s) PROVE i - Len(s) \in 1 .. Len(t) /\ c[i] = t[i - Len(s)]
  <2>1. i - Len(s) \in 1 .. Len(t) /\ Len(s) + (i - Len(s)) = i BY <1>1, <1>a
  <2>2. c[Len(s) + (i - Len(s))] = t[i - Len(s)] BY <1>1, <2>1
  <2> QED BY <2>1, <2>2
<1>2. \A i \in 1 .. Len(c) : c[i].part = 2 => c[i].type \in Long
  <2> SUFFICES ASSUME NEW i \in 1 .. Len(c), c[i].part = 2 PROVE c[i].type \in Long OBVIOUS
  <2>1. CASE i <= Len(s) BY <1>1, <2>1 DEF Pairs
  <2>2. CASE i > Len(s) BY <1>a, <2>2 DEF Pairs
  <2> QED BY <1>1, <2>1, <2>2
<1>3. \A i \in 1 .. Len(c) - 1 : Opens(c[i]) => c[i + 1] = Half(c[i])
  <2> SUFFICES ASSUME NEW i \in 1 .. Len(c) - 1, Opens(c[i]) PROVE c[i + 1] = Half(c[i]) OBVIOUS
  <2>1. CASE i < Len(s)
    <3>1. i \in 1 .. Len(s) - 1 /\ i \in 1 .. Len(s) /\ i + 1 \in 1 .. Len(s) BY <1>1, <2>1
    <3> QED BY <1>1, <3>1 DEF Pairs
  <2>2. CASE i = Len(s)
    <3>1. i \in 1 .. Len(s) /\ Len(s) # 0 BY <1>1, <2>2
    <3> QED BY <1>1, <2>2, <3>1 DEF Closes, CutAt
  <2>3. CASE i > Len(s)
    <3>1. i \in 1 .. Len(c) /\ i + 1 \in 1 .. Len(c) /\ i + 1 > Len(s) /\ (i + 1) - Len(s) = (i - Len(s)) + 1
      BY <1>1, <2>3
    <3>2. i - Len(s) \in 1 .. Len(t) - 1 BY <1>1, <2>3
    <3>3. c[i] = t[i - Len(s)] /\ c[i + 1] = t[(i - Len(s)) + 1] BY <1>a, <2>3, <3>1
    <3>4. Opens(t[i - Len(s)]) => t[(i - Len(s)) + 1] = Half(t[i - Len(s)]) BY <3>2 DEF Pairs
    <3> QED BY <3>3, <3>4
  <2> QED BY <1>1, <2>1, <2>2, <2>3
<1>4. \A i \in 1 .. Len(c) : c[i].part = 2 => i > 1 /\ Opens(c[i - 1])
  <2> SUFFICES ASSUME NEW i \in 1 .. Len(c), c[i].part = 2 PROVE i > 1 /\ Opens(c[i - 1]) OBVIOUS
  <2>1. CASE i <= Len(s)
    <3>1. i \in 1 .. Len(s) BY <1>1, <2>1
    <3>2. i > 1 /\ Opens(s[i - 1]) BY <1>1, <3>1 DEF Pairs
    <3>3. i - 1 \in 1 .. Len(s) BY <3>1, <3>2
    <3> QED BY <1>1, <3>2, <3>3
  <2>2. CASE i > Len(s)
    <3>1. i - Len(s) \in 1 .. Len(t) /\ t[i - Len(s)].part = 2 BY <1>a, <2>2
    <3>2. i - Len(s) > 1 /\ Opens(t[i - Len(s) - 1]) BY <3>1 DEF Pairs
    <3>3. i - 1 \in 1 .. Len(c) /\ i - 1 > Len(s) /\ (i - 1) - Len(s) = i - Len(s) - 1 BY <1>1, <3>1, <3>2
    <3>4. c[i - 1] = t[i - Len(s) - 1] BY <1>a, <3>3
    <3> QED BY <1>1, <3>2, <3>3, <3>4
  <2> QED BY <1>1, <2>1, <2>2
<1>5. Closes(t) => Closes(c)
  <2> SUFFICES ASSUME Closes(t), Len(c) # 0 PROVE ~ Opens(c[Len(c)]) BY DEF Closes, CutAt
  <2>1. CASE Len(t) = 0
    <3>1. Len(c) = Len(s) /\ Len(s) \in 1 .. Len(s) BY <1>1, <2>1
    <3> QED BY <1>1, <3>1 DEF Closes, CutAt
  <2>2. CASE Len(t) # 0
    <3>1. Len(t) \in 1 .. Len(t) /\ Len(c) = Len(s) + Len(t) BY <1>1, <2>2
    <3> QED BY <1>1, <2>2, <3>1 DEF Closes, CutAt
  <2> QED BY <2>1, <2>2
<1> QED BY <1>2, <1>3, <1>4, <1>5 DEF c, Pairs

Unit(type, no, part) == [type |-> type, no |-> no, part |-> part]

\* The units of a message.
LEMMA MessageIs ==
    ASSUME NEW t, NEW n
    PROVE  Message(t, n) = IF t \in Long THEN <<Unit(t, n, 1), Unit(t, n, 2)>> ELSE <<Unit(t, n, 1)>>
<1>1. CASE t \in Long
  <2>1. Message(t, n) = [p \in 1 .. 2 |-> Unit(t, n, p)] BY <1>1 DEF Message, Unit
  <2>2. [p \in 1 .. 2 |-> Unit(t, n, p)] = <<Unit(t, n, 1), Unit(t, n, 2)>> OBVIOUS
  <2> QED BY <1>1, <2>1, <2>2
<1>2. CASE t \notin Long
  <2>1. Message(t, n) = [p \in 1 .. 1 |-> Unit(t, n, p)] BY <1>2 DEF Message, Unit
  <2>2. [p \in 1 .. 1 |-> Unit(t, n, p)] = <<Unit(t, n, 1)>> OBVIOUS
  <2> QED BY <1>2, <2>1, <2>2
<1> QED BY <1>1, <1>2

\* A message of the backend is whole.
LEMMA MessageBack ==
    ASSUME NEW t \in BackTypes, NEW n \in Nat
    PROVE  Message(t, n) \in Replied /\ Pairs(Message(t, n)) /\ Closes(Message(t, n))
<1> DEFINE m == Message(t, n)
<1>0. \A p \in {1, 2} : Unit(t, n, p) \in BackUnit BY DEF Unit, BackUnit
<1>1. CASE t \in Long
  <2>1. m = <<Unit(t, n, 1), Unit(t, n, 2)>> BY <1>1, MessageIs
  <2>2. m \in Replied /\ Len(m) = 2 /\ m[1] = Unit(t, n, 1) /\ m[2] = Unit(t, n, 2)
    BY <1>0, <2>1 DEF Replied
  <2>3. Opens(Unit(t, n, 1)) /\ Unit(t, n, 2) = Half(Unit(t, n, 1)) /\ ~ Opens(Unit(t, n, 2))
    BY <1>1 DEF Opens, Half, Unit
  <2>4. Unit(t, n, 1).part = 1 /\ Unit(t, n, 2).part = 2 /\ Unit(t, n, 2).type \in Long
    BY <1>1 DEF Unit
  <2> HIDE DEF m
  <2>5. \A i \in 1 .. 2 : i = 1 \/ i = 2 OBVIOUS
  <2>6. Pairs(m)
    <3>1. \A i \in 1 .. Len(m) : m[i].part = 2 => m[i].type \in Long /\ i > 1 /\ Opens(m[i - 1])
      BY <2>2, <2>3, <2>4, <2>5
    <3>2. \A i \in 1 .. Len(m) - 1 : Opens(m[i]) => m[i + 1] = Half(m[i]) BY <2>2, <2>3
    <3> QED BY <3>1, <3>2 DEF Pairs
  <2>7. Closes(m) BY <2>2, <2>3 DEF Closes, CutAt
  <2> QED BY <2>2, <2>6, <2>7 DEF m
<1>2. CASE t \notin Long
  <2>1. m = <<Unit(t, n, 1)>> BY <1>2, MessageIs
  <2>2. m \in Replied /\ Len(m) = 1 /\ m[1] = Unit(t, n, 1) BY <1>0, <2>1 DEF Replied
  <2>3. ~ Opens(Unit(t, n, 1)) /\ Unit(t, n, 1).part = 1 BY <1>2 DEF Opens, Unit
  <2> HIDE DEF m
  <2>4. Pairs(m) /\ Closes(m) BY <2>2, <2>3 DEF Pairs, Closes, CutAt
  <2> QED BY <2>2, <2>4 DEF m
<1> QED BY <1>1, <1>2

\* So are none.
LEMMA EmptyBack == << >> \in Replied /\ Pairs(<< >>) /\ Closes(<< >>)
<1>1. << >> \in Replied /\ Len(<< >>) = 0 BY EmptySeq DEF Replied
<1> QED BY <1>1 DEF Pairs, Closes, CutAt

\* A walk that has gone over a whole message is between two messages.
LEMMA CutAfter ==
    ASSUME NEW buf \in Replied, Pairs(buf), NEW at \in 0 .. Len(buf), WholeAt(buf, at)
    PROVE  /\ CutAt(buf, EndOf(buf, at))
           /\ \A i \in at + 1 .. EndOf(buf, at) : buf[i].type = buf[at + 1].type
<1> DEFINE e == EndOf(buf, at)
<1>1. Len(buf) \in Nat /\ \A i \in 1 .. Len(buf) : buf[i] \in BackUnit
  BY LenProperties, ElementOfSeq DEF Replied
<1>2. e \in at + 1 .. Len(buf) BY EndIs
<1>3. at + 1 \in 1 .. Len(buf) /\ buf[at + 1].part = 1 BY <1>1 DEF WholeAt
<1>4. CASE buf[at + 1].type \in Long
  <2>1. e = at + 2 BY <1>4 DEF EndOf
  <2>2. at + 1 \in 1 .. Len(buf) - 1 /\ (at + 1) + 1 = at + 2 BY <1>1, <1>2, <2>1
  <2>3. buf[at + 2] = Half(buf[at + 1]) BY <1>3, <1>4, <2>2 DEF Pairs, Opens
  <2>4. buf[at + 1] \in BackUnit BY <1>1, <1>3
  <2>5. Half(buf[at + 1]).part = 2 /\ Half(buf[at + 1]).type = buf[at + 1].type
    BY <2>4 DEF Half, BackUnit
  <2>6. \A i \in at + 1 .. at + 2 : i = at + 1 \/ i = at + 2 OBVIOUS
  <2> QED BY <2>1, <2>3, <2>5, <2>6 DEF CutAt, Opens
<1>5. CASE buf[at + 1].type \notin Long
  <2>1. e = at + 1 BY <1>5 DEF EndOf
  <2>2. \A i \in at + 1 .. at + 1 : i = at + 1 OBVIOUS
  <2> QED BY <1>5, <2>1, <2>2 DEF CutAt, Opens
<1> QED BY <1>4, <1>5

\* Between two messages the next unit is a first part.
LEMMA CutThen ==
    ASSUME NEW buf \in Replied, Pairs(buf), NEW at \in 0 .. Len(buf), CutAt(buf, at), at < Len(buf)
    PROVE  buf[at + 1] \in BackUnit /\ buf[at + 1].part = 1
<1>1. Len(buf) \in Nat /\ at + 1 \in 1 .. Len(buf) /\ at + 1 - 1 = at BY LenProperties DEF Replied
<1>2. buf[at + 1] \in BackUnit BY <1>1, ElementOfSeq DEF Replied
<1>3. buf[at + 1].part # 2
  <2> SUFFICES ASSUME buf[at + 1].part = 2 PROVE FALSE OBVIOUS
  <2>1. at + 1 > 1 /\ Opens(buf[at + 1 - 1]) BY <1>1 DEF Pairs
  <2>2. at # 0 /\ Opens(buf[at]) BY <1>1, <2>1
  <2> QED BY <2>2 DEF CutAt
<1> QED BY <1>2, <1>3 DEF BackUnit

\* A scan that finds an end has found a message that ends such a reply.
LEMMA WalkFound ==
    ASSUME NEW buf \in Replied, NEW kind, NEW at \in 0 .. Len(buf), Walk(buf, kind)[at].found
    PROVE  \E p \in 0 .. Len(buf) - 1 :
              /\ Walk(buf, kind)[at].end = EndOf(buf, p)
              /\ WholeAt(buf, p) /\ buf[p + 1].type \in EndsReplyTo(kind)
<1> DEFINE w == Walk(buf, kind)
           Ends(k) == \E p \in 0 .. Len(buf) - 1 :
                         k = EndOf(buf, p) /\ WholeAt(buf, p) /\ buf[p + 1].type \in EndsReplyTo(kind)
           Bad == {n \in 0 .. Len(buf) : w[Len(buf) - n].found /\ ~ Ends(w[Len(buf) - n].end)}
<1>1. Len(buf) \in Nat BY LenProperties DEF Replied
<1>2. Bad = {}
  <2> SUFFICES ASSUME Bad # {} PROVE FALSE OBVIOUS
  <2>1. PICK n \in Bad : \A m \in Bad : n <= m
    <3>1. Bad \subseteq Nat OBVIOUS
    <3> HIDE DEF Bad
    <3> QED BY <3>1, LeastOf
  <2> DEFINE p == Len(buf) - n
  <2>2. n \in 0 .. Len(buf) /\ p \in 0 .. Len(buf) /\ Len(buf) - p = n BY <1>1, <2>1
  <2>3. w[p].found /\ ~ Ends(w[p].end) BY <2>1
  <2> HIDE DEF p, Ends
  <2>4. w[p] = IF ~ WholeAt(buf, p) THEN [found |-> FALSE, end |-> p]
               ELSE IF buf[p + 1].type \in EndsReplyTo(kind)
                    THEN [found |-> TRUE, end |-> EndOf(buf, p)]
                    ELSE w[EndOf(buf, p)]
    BY <2>2, WalkStep
  <2> HIDE DEF w
  <2>5. WholeAt(buf, p) BY <2>3, <2>4
  <2>6. EndOf(buf, p) \in p + 1 .. Len(buf) BY <2>2, <2>5, EndIs
  <2>7. CASE buf[p + 1].type \in EndsReplyTo(kind)
    <3>1. w[p].end = EndOf(buf, p) BY <2>4, <2>5, <2>7
    <3>2. p \in 0 .. Len(buf) - 1 BY <1>1, <2>2, <2>6
    <3>3. Ends(w[p].end) BY <2>5, <2>7, <3>1, <3>2 DEF Ends
    <3> QED BY <2>3, <3>3
  <2>8. CASE buf[p + 1].type \notin EndsReplyTo(kind)
    <3> DEFINE q == EndOf(buf, p)
               m == Len(buf) - q
    <3>1. w[p] = w[q] BY <2>4, <2>5, <2>8
    <3>2. m \in 0 .. Len(buf) /\ Len(buf) - m = q /\ ~ n <= m BY <1>1, <2>2, <2>6
    <3>3. m \in Bad BY <2>3, <3>1, <3>2
    <3> HIDE DEF Bad
    <3> QED BY <2>1, <3>2, <3>3
  <2> QED BY <2>7, <2>8
<1>3. Len(buf) - at \in 0 .. Len(buf) /\ Len(buf) - (Len(buf) - at) = at BY <1>1
<1>4. Len(buf) - at \notin Bad BY <1>2
<1> HIDE DEF w, Ends
<1>5. w[at].found => Ends(w[at].end) BY <1>3, <1>4
<1> QED BY <1>5 DEF w, Ends

\* One that finds none has gone over everything but a last message that is not whole.
LEMMA WalkNotFound ==
    ASSUME NEW buf \in Replied, Pairs(buf), NEW kind, NEW at \in 0 .. Len(buf), CutAt(buf, at),
           ~ Walk(buf, kind)[at].found
    PROVE  /\ Walk(buf, kind)[at].end \in at .. Len(buf)
           /\ CutAt(buf, Walk(buf, kind)[at].end)
           /\ \A i \in at + 1 .. Len(buf) : buf[i].type \notin EndsReplyTo(kind)
<1> DEFINE w == Walk(buf, kind)
           Over(p) == /\ w[p].end \in p .. Len(buf) /\ CutAt(buf, w[p].end)
                      /\ \A i \in p + 1 .. Len(buf) : buf[i].type \notin EndsReplyTo(kind)
           Bad == {n \in 0 .. Len(buf) :
                     CutAt(buf, Len(buf) - n) /\ ~ w[Len(buf) - n].found /\ ~ Over(Len(buf) - n)}
<1>1. Len(buf) \in Nat /\ \A i \in 1 .. Len(buf) : buf[i] \in BackUnit
  BY LenProperties, ElementOfSeq DEF Replied
<1>2. Bad = {}
  <2> SUFFICES ASSUME Bad # {} PROVE FALSE OBVIOUS
  <2>1. PICK n \in Bad : \A m \in Bad : n <= m
    <3>1. Bad \subseteq Nat OBVIOUS
    <3> HIDE DEF Bad
    <3> QED BY <3>1, LeastOf
  <2> DEFINE p == Len(buf) - n
  <2>2. n \in 0 .. Len(buf) /\ p \in 0 .. Len(buf) /\ Len(buf) - p = n BY <1>1, <2>1
  <2>3. CutAt(buf, p) /\ ~ w[p].found /\ ~ Over(p) BY <2>1
  <2> HIDE DEF p, Over
  <2>4. w[p] = IF ~ WholeAt(buf, p) THEN [found |-> FALSE, end |-> p]
               ELSE IF buf[p + 1].type \in EndsReplyTo(kind)
                    THEN [found |-> TRUE, end |-> EndOf(buf, p)]
                    ELSE w[EndOf(buf, p)]
    BY <2>2, WalkStep
  <2> HIDE DEF w
  <2>5. CASE ~ WholeAt(buf, p)
    <3>1. w[p].end = p BY <2>4, <2>5
    <3>2. \A i \in p + 1 .. Len(buf) : buf[i].type \notin EndsReplyTo(kind)
      <4> SUFFICES ASSUME NEW i \in p + 1 .. Len(buf) PROVE buf[i].type \notin EndsReplyTo(kind) OBVIOUS
      <4>1. p < Len(buf) BY <1>1, <2>2
      <4>2. buf[p + 1].part = 1 BY <2>2, <2>3, <4>1, CutThen
      <4>3. buf[p + 1].type \in Long /\ ~ p + 2 <= Len(buf) BY <2>5, <4>1, <4>2 DEF WholeAt
      <4>4. i = p + 1 BY <1>1, <2>2, <4>1, <4>3
      <4> QED BY <4>3, <4>4 DEF Long, EndsReplyTo
    <3>3. p \in p .. Len(buf) BY <1>1, <2>2
    <3> QED BY <2>3, <3>1, <3>2, <3>3 DEF Over
  <2>6. CASE WholeAt(buf, p)
    <3> DEFINE q == EndOf(buf, p)
               m == Len(buf) - q
    <3>1. buf[p + 1].type \notin EndsReplyTo(kind) /\ w[p] = w[q] BY <2>3, <2>4, <2>6
    <3>2. q \in p + 1 .. Len(buf) BY <2>2, <2>6, EndIs
    <3>3. CutAt(buf, q) /\ \A i \in p + 1 .. q : buf[i].type = buf[p + 1].type
      BY <2>2, <2>6, CutAfter
    <3> HIDE DEF q
    <3>4. m \in 0 .. Len(buf) /\ Len(buf) - m = q /\ ~ n <= m BY <1>1, <2>2, <3>2
    <3>5. m \notin Bad
      <4> HIDE DEF Bad
      <4> QED BY <2>1, <3>4
    <3>6. Over(q) BY <2>3, <3>1, <3>3, <3>4, <3>5
    <3>7. w[q].end \in p .. Len(buf) BY <2>2, <3>2, <3>6 DEF Over
    <3>8. \A i \in p + 1 .. Len(buf) : buf[i].type \notin EndsReplyTo(kind)
      <4> SUFFICES ASSUME NEW i \in p + 1 .. Len(buf) PROVE buf[i].type \notin EndsReplyTo(kind) OBVIOUS
      <4>1. CASE i <= q
        <5>1. i \in p + 1 .. q BY <1>1, <2>2, <3>2, <4>1
        <5> QED BY <3>1, <3>3, <5>1
      <4>2. CASE i > q
        <5>1. i \in q + 1 .. Len(buf) BY <1>1, <2>2, <3>2, <4>2
        <5> QED BY <3>6, <5>1 DEF Over
      <4> QED BY <1>1, <2>2, <3>2, <4>1, <4>2
    <3> QED BY <2>3, <3>1, <3>6, <3>7, <3>8 DEF Over
  <2> QED BY <2>5, <2>6
<1>3. Len(buf) - at \in 0 .. Len(buf) /\ Len(buf) - (Len(buf) - at) = at BY <1>1
<1>4. Len(buf) - at \notin Bad BY <1>2
<1> HIDE DEF w, Over
<1>5. CutAt(buf, at) /\ ~ w[at].found => Over(at) BY <1>3, <1>4
<1>6. Over(at) BY <1>5 DEF w
<1> QED BY <1>6 DEF w, Over

\* The leading notifications end between two messages.
LEMMA LeadingCut ==
    ASSUME NEW buf \in Replied
    PROVE  /\ Leading(buf) \in 0 .. Len(buf)
           /\ Pairs(buf) => CutAt(buf, Leading(buf))
<1>1. PICK f : /\ f = [at \in 0 .. Len(buf) |->
                          IF WholeAt(buf, at) /\ buf[at + 1].type = "A" THEN f[EndOf(buf, at)] ELSE at]
               /\ Leading(buf) = f[0]
  BY LeadingIs
<1>2. Len(buf) \in Nat BY LenProperties DEF Replied
<1> DEFINE Good(p) == f[p] \in 0 .. Len(buf) /\ (Pairs(buf) /\ CutAt(buf, p) => CutAt(buf, f[p]))
           Bad == {n \in 0 .. Len(buf) : ~ Good(Len(buf) - n)}
<1>3. Bad = {}
  <2> SUFFICES ASSUME Bad # {} PROVE FALSE OBVIOUS
  <2>1. PICK n \in Bad : \A m \in Bad : n <= m
    <3>1. Bad \subseteq Nat OBVIOUS
    <3> HIDE DEF Bad
    <3> QED BY <3>1, LeastOf
  <2> DEFINE p == Len(buf) - n
  <2>2. n \in 0 .. Len(buf) /\ p \in 0 .. Len(buf) /\ Len(buf) - p = n BY <1>2, <2>1
  <2>3. ~ Good(p) BY <2>1
  <2> HIDE DEF p
  <2>4. f[p] = IF WholeAt(buf, p) /\ buf[p + 1].type = "A" THEN f[EndOf(buf, p)] ELSE p
    BY <1>1, <2>2
  <2>5. CASE WholeAt(buf, p) /\ buf[p + 1].type = "A"
    <3> DEFINE q == EndOf(buf, p)
               m == Len(buf) - q
    <3>1. q \in p + 1 .. Len(buf) BY <2>2, <2>5, EndIs
    <3>2. Pairs(buf) => CutAt(buf, q) BY <2>2, <2>5, CutAfter
    <3> HIDE DEF q
    <3>3. m \in 0 .. Len(buf) /\ Len(buf) - m = q /\ ~ n <= m BY <1>2, <2>2, <3>1
    <3>4. m \notin Bad
      <4> HIDE DEF Bad
      <4> QED BY <2>1, <3>3
    <3>5. Good(q)
      <4> HIDE DEF Good
      <4> QED BY <3>3, <3>4
    <3>6. f[p] = f[q] BY <2>4, <2>5 DEF q
    <3> QED BY <2>3, <3>2, <3>5, <3>6
  <2>6. CASE ~ (WholeAt(buf, p) /\ buf[p + 1].type = "A")
    <3>1. f[p] = p BY <2>4, <2>6
    <3> QED BY <2>2, <2>3, <3>1
  <2> QED BY <2>5, <2>6
<1>4. Len(buf) \in 0 .. Len(buf) /\ Len(buf) - Len(buf) = 0 BY <1>2
<1>5. Good(0)
  <2> HIDE DEF Good
  <2> QED BY <1>3, <1>4
<1>6. CutAt(buf, 0) BY DEF CutAt
<1> QED BY <1>1, <1>5, <1>6

-----------------------------------------------------------------------------
(* What is delivered and what is to come *)

NotesGood(d, h, s, n) ==
    /\ Sorted(d \o NotesOf(s))
    /\ SetOf(d) \cup SetOf(NotesOf(s)) \cup h \subseteq 1 .. n
Account(d, h, s) == SetOf(d) \cup h \cup SetOf(NotesOf(s))

\* A buffer is what is consumed of it and the rest.
LEMMA FrontOf ==
    ASSUME NEW buf \in Replied, NEW k \in 0 .. Len(buf)
    PROVE  /\ SubSeq(buf, 1, k) \in Replied /\ After(buf, k) \in Replied
           /\ buf = SubSeq(buf, 1, k) \o After(buf, k)
BY Halves DEF Replied

\* Concatenation is associative.
LEMMA Bracket ==
    ASSUME NEW U, NEW a \in Seq(U), NEW b \in Seq(U), NEW c \in Seq(U)
    PROVE  (a \o b) \o c = a \o (b \o c)
BY ConcatAssociative

Numbers == Seq(Nat)

\* The same, of numbers, and of units of the backend.
LEMMA NumberBracket == \A a, b, c \in Numbers : (a \o b) \o c = a \o (b \o c)
BY Bracket DEF Numbers
LEMMA BackBracket == \A a, b, c \in Replied : (a \o b) \o c = a \o (b \o c)
BY Bracket DEF Replied

\* Numbers joined are numbers.
LEMMA NumberConcat ==
    ASSUME NEW a \in Numbers, NEW b \in Numbers
    PROVE  a \o b \in Numbers /\ SetOf(a \o b) = SetOf(a) \cup SetOf(b)
BY SetOfConcat, ConcatProperties DEF Numbers

\* Below, part by part.
LEMMA BelowConcat ==
    ASSUME NEW a \in Numbers, NEW b \in Numbers, NEW c \in Numbers
    PROVE  /\ Below(a \o b, c) <=> Below(a, c) /\ Below(b, c)
           /\ Below(a, b \o c) <=> Below(a, b) /\ Below(a, c)
<1>1. SetOf(a \o b) = SetOf(a) \cup SetOf(b) /\ SetOf(b \o c) = SetOf(b) \cup SetOf(c)
  BY NumberConcat
<1> QED BY <1>1 DEF Below

\* What is left of an ordered sequence when a part of it is taken out is ordered.
LEMMA SortedWithout ==
    ASSUME NEW a \in Numbers, NEW b \in Numbers, NEW c \in Numbers, NEW d \in Numbers,
           Sorted(a \o (b \o (c \o d)))
    PROVE  Sorted((a \o b) \o d)
<1>1. c \o d \in Numbers /\ b \o (c \o d) \in Numbers /\ a \o b \in Numbers BY NumberConcat
<1>2. Sorted(a) /\ Sorted(b \o (c \o d)) /\ Below(a, b \o (c \o d)) BY <1>1, SortedConcat DEF Numbers
<1>3. Sorted(b) /\ Sorted(c \o d) /\ Below(b, c \o d) BY <1>1, <1>2, SortedConcat DEF Numbers
<1>4. Sorted(d) BY <1>3, SortedConcat DEF Numbers
<1>5. Below(a, b) /\ Below(a, d) /\ Below(b, d) BY <1>1, <1>2, <1>3, BelowConcat
<1>6. Sorted(a \o b) BY <1>2, <1>3, <1>5, SortedConcat DEF Numbers
<1>7. Below(a \o b, d) BY <1>5, BelowConcat
<1> QED BY <1>1, <1>4, <1>6, <1>7, SortedConcat DEF Numbers

Consumed(d, h, n, buf, rest, k, seen) ==
    LET d2 == d \o NotesOf(seen)
        h2 == h \cup (SetOf(NotesOf(SubSeq(buf, 1, k))) \ SetOf(NotesOf(seen)))
    IN  /\ d2 \in Numbers
        /\ NotesGood(d2, h2, After(buf, k) \o rest, n)
        /\ Account(d2, h2, After(buf, k) \o rest) = Account(d, h, buf \o rest)

\* The front of what is to come is taken; of its notifications a first part is
\* handed on, in order, and the rest counted as handed to nobody.
LEMMA Consume ==
    ASSUME NEW d \in Numbers, NEW h, NEW n \in Nat, NEW buf \in Replied, NEW rest \in Replied,
           NEW k \in 0 .. Len(buf), NEW seen \in Replied, NEW unseen \in Replied,
           SubSeq(buf, 1, k) = seen \o unseen, NotesGood(d, h, buf \o rest, n)
    PROVE  Consumed(d, h, n, buf, rest, k, seen)
<1> DEFINE a == NotesOf(seen)
           b == NotesOf(unseen)
           c == NotesOf(After(buf, k))
           e == NotesOf(rest)
           reply == SubSeq(buf, 1, k)
<1>1. reply \in Replied /\ After(buf, k) \in Replied /\ buf = reply \o After(buf, k)
  BY FrontOf
<1>2. a \in Numbers /\ b \in Numbers /\ c \in Numbers /\ e \in Numbers BY <1>1, NotesType DEF Numbers
<1>3. NotesOf(reply) = a \o b /\ NotesOf(buf) = (a \o b) \o c
  <2>1. NotesOf(reply) = a \o b BY NotesConcat
  <2>2. NotesOf(reply \o After(buf, k)) = NotesOf(reply) \o c BY <1>1, NotesConcat
  <2> QED BY <1>1, <2>1, <2>2
<1>4. NotesOf(buf \o rest) = ((a \o b) \o c) \o e BY <1>3, NotesConcat
<1>5. NotesOf(After(buf, k) \o rest) = c \o e BY <1>1, NotesConcat
<1> DEFINE h2 == h \cup (SetOf(NotesOf(reply)) \ SetOf(a))
<1> HIDE DEF a, b, c, e, reply
<1>6. a \o b \in Numbers /\ c \o e \in Numbers /\ (a \o b) \o c \in Numbers /\ b \o (c \o e) \in Numbers
      /\ d \o a \in Numbers
  BY <1>2, NumberConcat
<1>7. ((a \o b) \o c) \o e = a \o (b \o (c \o e))
  <2>a. a \o b \in Numbers BY <1>6
  <2>b. c \o e \in Numbers BY <1>6
  <2>1. ((a \o b) \o c) \o e = (a \o b) \o (c \o e) BY <1>2, <2>a, NumberBracket, Zenon
  <2>2. (a \o b) \o (c \o e) = a \o (b \o (c \o e))
    <3> DEFINE w == c \o e
    <3>1. w \in Numbers /\ a \in Numbers /\ b \in Numbers BY <1>2, <2>b
    <3> HIDE DEF w
    <3>2. (a \o b) \o w = a \o (b \o w) BY <3>1, NumberBracket, Zenon
    <3> QED BY <3>2 DEF w
  <2> QED BY <2>1, <2>2
<1>8. Sorted((d \o a) \o (c \o e))
  <2>1. Sorted(d \o (a \o (b \o (c \o e)))) BY <1>4, <1>7 DEF NotesGood
  <2> QED BY <1>2, <1>6, <2>1, SortedWithout
<1>9. /\ SetOf(d \o a) = SetOf(d) \cup SetOf(a) /\ SetOf(a \o b) = SetOf(a) \cup SetOf(b)
      /\ SetOf(((a \o b) \o c) \o e) = SetOf(a) \cup SetOf(b) \cup SetOf(c) \cup SetOf(e)
      /\ SetOf(c \o e) = SetOf(c) \cup SetOf(e)
  <2>1. SetOf(d \o a) = SetOf(d) \cup SetOf(a) BY <1>2, NumberConcat
  <2>2. SetOf(a \o b) = SetOf(a) \cup SetOf(b) BY <1>2, NumberConcat
  <2>3. SetOf((a \o b) \o c) = SetOf(a \o b) \cup SetOf(c) BY <1>2, <1>6, NumberConcat
  <2>4. SetOf(((a \o b) \o c) \o e) = SetOf((a \o b) \o c) \cup SetOf(e)
    BY <1>2, <1>6, NumberConcat
  <2>5. SetOf(c \o e) = SetOf(c) \cup SetOf(e) BY <1>2, NumberConcat
  <2> QED BY <2>1, <2>2, <2>3, <2>4, <2>5
<1>10. SetOf(d) \cup (SetOf(a) \cup SetOf(b) \cup SetOf(c) \cup SetOf(e)) \cup h \subseteq 1 .. n
  BY <1>4, <1>9 DEF NotesGood
<1>11. NotesGood(d \o a, h2, After(buf, k) \o rest, n)
  BY <1>3, <1>5, <1>8, <1>9, <1>10 DEF NotesGood
<1>12. Account(d \o a, h2, After(buf, k) \o rest) = Account(d, h, buf \o rest)
  BY <1>3, <1>4, <1>5, <1>9 DEF Account
<1> QED BY <1>6, <1>11, <1>12, Zenon DEF a, reply, h2, Consumed

\* The same when nothing is handed on or counted: the end of what is to come, or
\* a middle of it, is lost.
LEMMA Lose ==
    ASSUME NEW d \in Numbers, NEW h, NEW n \in Nat,
           NEW a \in Replied, NEW b \in Replied, NEW c \in Replied,
           NotesGood(d, h, a \o (b \o c), n)
    PROVE  NotesGood(d, h, a \o c, n)
<1> DEFINE x == NotesOf(a)
           y == NotesOf(b)
           z == NotesOf(c)
<1>1. x \in Numbers /\ y \in Numbers /\ z \in Numbers BY NotesType DEF Numbers
<1>2. NotesOf(a \o (b \o c)) = x \o (y \o z) /\ NotesOf(a \o c) = x \o z
  <2>1. b \o c \in Replied BY ConcatProperties DEF Replied
  <2> QED BY <2>1, NotesConcat
<1> HIDE DEF x, y, z
<1>3. Sorted((d \o x) \o z)
  <2>1. Sorted(d \o (x \o (y \o z))) BY <1>2 DEF NotesGood
  <2> QED BY <1>1, <2>1, SortedWithout
<1>4. (d \o x) \o z = d \o (x \o z) BY <1>1, NumberBracket, Zenon
<1>5. y \o z \in Numbers BY <1>1, NumberConcat
<1>6. SetOf(x \o (y \o z)) = SetOf(x) \cup SetOf(y) \cup SetOf(z) /\ SetOf(x \o z) = SetOf(x) \cup SetOf(z)
  <2>1. SetOf(x \o (y \o z)) = SetOf(x) \cup SetOf(y \o z) BY <1>1, <1>5, NumberConcat
  <2>2. SetOf(y \o z) = SetOf(y) \cup SetOf(z) BY <1>1, NumberConcat
  <2>3. SetOf(x \o z) = SetOf(x) \cup SetOf(z) BY <1>1, NumberConcat
  <2> QED BY <2>1, <2>2, <2>3
<1> QED BY <1>2, <1>3, <1>4, <1>6 DEF NotesGood

\* The backend adds to what is to come: nothing for a listener, or the next notification.
LEMMA Gain ==
    ASSUME NEW d \in Numbers, NEW h, NEW n \in Nat, NEW m \in Nat,
           NEW s \in Replied, NEW t \in Replied, NotesGood(d, h, s, n),
           \/ m = n /\ NotesOf(t) = << >>
           \/ m = n + 1 /\ NotesOf(t) = <<n + 1>>
    PROVE  /\ NotesGood(d, h, s \o t, m)
           /\ Account(d, h, s) = 1 .. n => Account(d, h, s \o t) = 1 .. m
<1> DEFINE x == NotesOf(s)
           y == NotesOf(t)
<1>1. x \in Numbers /\ y \in Numbers BY NotesType DEF Numbers
<1>2. NotesOf(s \o t) = x \o y BY NotesConcat
<1>3. Sorted(d \o x) /\ SetOf(d) \cup SetOf(x) \cup h \subseteq 1 .. n BY DEF NotesGood
<1>4. \/ m = n /\ y = << >>
      \/ m = n + 1 /\ y = <<n + 1>>
  OBVIOUS
<1> HIDE DEF x, y
<1>5. d \o x \in Numbers /\ x \o y \in Numbers BY <1>1, NumberConcat
<1>6. SetOf(d \o x) = SetOf(d) \cup SetOf(x) /\ SetOf(x \o y) = SetOf(x) \cup SetOf(y)
  BY <1>1, NumberConcat
<1>7. (d \o x) \o y = d \o (x \o y) BY <1>1, NumberBracket, Zenon
<1>8. Sorted(y) /\ (y = << >> => SetOf(y) = {}) /\ (y = <<n + 1>> => SetOf(y) = {n + 1})
  <2>1. CASE y = << >> BY <2>1, SetOfEmpty DEF Sorted
  <2>2. CASE y = <<n + 1>>
    <3>1. Len(y) = 1 /\ y[1] = n + 1 /\ y # << >> BY <2>2
    <3> QED BY <3>1 DEF Sorted, SetOf
  <2> QED BY <1>4, <2>1, <2>2
<1>9. Below(d \o x, y) BY <1>3, <1>4, <1>6, <1>8 DEF Below
<1>10. Sorted((d \o x) \o y) BY <1>1, <1>3, <1>5, <1>8, <1>9, SortedConcat DEF Numbers
<1>11. CASE m = n /\ y = << >> BY <1>2, <1>3, <1>6, <1>7, <1>8, <1>10, <1>11 DEF NotesGood, Account, x
<1>12. CASE m = n + 1 /\ y = <<n + 1>>
  <2>1. 1 .. m = (1 .. n) \cup {n + 1} BY <1>12
  <2> QED BY <1>2, <1>3, <1>6, <1>7, <1>8, <1>10, <1>12, <2>1 DEF NotesGood, Account, x
<1> QED BY <1>4, <1>11, <1>12

-----------------------------------------------------------------------------
(* What the backend sends *)

Confirmed == Seq([type : {"1"}, no : Nat, part : {1}])

\* Units of the backend, joined.
LEMMA ReplyConcat ==
    ASSUME NEW a \in Replied, NEW b \in Replied
    PROVE  a \o b \in Replied
BY ConcatProperties DEF Replied

\* What is held for a flush is whole confirmations, no notification among them.
LEMMA HeldIs ==
    ASSUME NEW s \in Confirmed
    PROVE  s \in Replied /\ NotesOf(s) = << >> /\ Pairs(s) /\ Closes(s) /\ Only(s, Substance) = s
<1> DEFINE V == [type : {"1"}, no : Nat, part : {1}]
<1>1. V \subseteq BackUnit /\ V \cap LastHalves = {} /\ V \subseteq Substance
  BY DEF BackUnit, BackTypes, LastHalves, Substance
<1>2. s \in Seq(V) BY DEF Confirmed
<1>3. Len(s) \in Nat /\ \A i \in 1 .. Len(s) : s[i] \in V BY <1>2, LenProperties, ElementOfSeq
<1>4. SetOf(s) \subseteq V BY <1>3 DEF SetOf
<1>5. s \in Replied BY <1>1, <1>2, SeqMonotonic DEF Replied
<1>6. Only(s, LastHalves) = << >> BY <1>1, <1>2, <1>4, OnlyNone
<1>7. NotesOf(s) = << >>
  <2>1. Len(<< >>) = 0 OBVIOUS
  <2>2. NotesOf(s) = [i \in 1 .. 0 |-> << >>[i].no] BY <1>6, <2>1, Zenon DEF NotesOf
  <2>3. NotesOf(s) \in Seq(Nat) BY <1>5, NotesType
  <2> QED BY <2>2, <2>3
<1>8. \A i \in 1 .. Len(s) : s[i].part = 1 /\ ~ Opens(s[i]) BY <1>3 DEF Opens, Long
<1>9. Pairs(s) /\ Closes(s) BY <1>3, <1>8 DEF Pairs, Closes, CutAt
<1>10. Only(s, Substance) = s BY <1>1, <1>2, <1>4, OnlyAll
<1> QED BY <1>5, <1>7, <1>9, <1>10

\* The notifications of nothing, and the substance of one unit.
LEMMA NotesOfEmpty == NotesOf(<< >>) = << >>
<1>1. << >> \in Confirmed BY EmptySeq DEF Confirmed
<1> QED BY <1>1, HeldIs

LEMMA OnlyOne ==
    ASSUME NEW U, NEW u \in U, NEW S
    PROVE  Only(<<u>>, S) = IF u \in S THEN <<u>> ELSE << >>
<1>1. << >> \in Seq(U) /\ Only(<< >>, S) = << >> BY EmptySeq, OnlyEmpty
<1>2. \A s \in Seq(U) : Only(Append(s, u), S) = IF u \in S THEN Append(Only(s, S), u) ELSE Only(s, S)
  BY OnlyAppend
<1>3. Only(Append(<< >>, u), S) = IF u \in S THEN Append(<< >>, u) ELSE << >> BY <1>1, <1>2, Zenon
<1>4. Append(<< >>, u) = <<u>> OBVIOUS
<1> QED BY <1>3, <1>4, Zenon

\* Only a notification notifies.
LEMMA MessageNotes ==
    ASSUME NEW t \in BackTypes, NEW n \in Nat
    PROVE  NotesOf(Message(t, n)) = IF t = "A" THEN <<n>> ELSE << >>
<1> DEFINE m == Message(t, n)
<1>1. m \in Replied BY MessageBack
<1>2. CASE t = "A"
  <2>1. m = <<Unit("A", n, 1), Unit("A", n, 2)>> BY <1>2, MessageIs DEF Long
  <2>2. Unit("A", n, 1) \notin LastHalves /\ Unit("A", n, 2) \in LastHalves BY DEF Unit, LastHalves
  <2>3. Unit("A", n, 1) \in BackUnit /\ Unit("A", n, 2) \in BackUnit BY DEF Unit, BackUnit, BackTypes
  <2>4. Only(<<Unit("A", n, 1)>>, LastHalves) = << >> BY <2>2, <2>3, OnlyOne
  <2>5. Only(m, LastHalves) = <<Unit("A", n, 2)>>
    <3> DEFINE x == <<Unit("A", n, 1)>>
               y == <<Unit("A", n, 2)>>
    <3>1. m = x \o y BY <2>1
    <3>2. x \in Seq(BackUnit) /\ y \in Seq(BackUnit) BY <2>3
    <3>3. Only(y, LastHalves) = y BY <2>2, <2>3, OnlyOne
    <3>4. Only(x, LastHalves) = << >> BY <2>4
    <3> HIDE DEF x, y, m
    <3>5. Only(x \o y, LastHalves) = Only(x, LastHalves) \o Only(y, LastHalves) BY <3>2, OnlyConcat
    <3>6. << >> \o y = y BY <3>2, ConcatEmptySeq
    <3>7. Only(m, LastHalves) = y BY <3>1, <3>3, <3>4, <3>5, <3>6
    <3> QED BY <3>7 DEF y
  <2> DEFINE z == <<Unit("A", n, 2)>>
  <2>6. Len(z) = 1 /\ z[1].no = n BY DEF Unit
  <2>7. NotesOf(m) = [i \in 1 .. 1 |-> z[i].no] BY <2>5, <2>6, Zenon DEF NotesOf
  <2> HIDE DEF z, m
  <2>8. NotesOf(m) = [i \in 1 .. 1 |-> n]
    <3>1. \A i \in 1 .. 1 : z[i].no = n BY <2>6
    <3> QED BY <2>7, <3>1
  <2>9. [i \in 1 .. 1 |-> n] = <<n>> OBVIOUS
  <2> QED BY <1>2, <2>8, <2>9 DEF m
<1>3. CASE t # "A"
  <2>1. \A i \in 1 .. Len(m) : m[i].type = t
    <3> SUFFICES ASSUME NEW i \in 1 .. Len(m) PROVE m[i].type = t OBVIOUS
    <3>1. Len(m) = (IF t \in Long THEN 2 ELSE 1) BY <1>1, MessageIs
    <3>2. i \in 1 .. (IF t \in Long THEN 2 ELSE 1) BY <3>1
    <3> QED BY <3>2 DEF Message
  <2> HIDE DEF m
  <2>2. SetOf(m) \cap LastHalves = {} BY <1>3, <2>1 DEF SetOf, LastHalves
  <2>3. Only(m, LastHalves) = << >> BY <1>1, <2>2, OnlyNone DEF Replied
  <2>4. Only(<< >>, LastHalves) = << >> BY OnlyEmpty
  <2>5. NotesOf(m) = NotesOf(<< >>) BY <2>3, <2>4, Zenon DEF NotesOf
  <2> QED BY <1>3, <2>5, NotesOfEmpty DEF m
<1> QED BY <1>2, <1>3

\* Whole messages, and no notification or the next one.
Whole(s, n, m) ==
    /\ s \in Replied /\ Pairs(s) /\ Closes(s)
    /\ \/ m = n /\ NotesOf(s) = << >>
       \/ m = n + 1 /\ NotesOf(s) = <<n + 1>>

\* Whole messages, joined.
LEMMA WholeConcat ==
    ASSUME NEW a, NEW b, NEW n \in Nat, NEW m \in Nat, NEW k \in Nat,
           Whole(a, n, k), Whole(b, k, m), k = n \/ k = m
    PROVE  Whole(a \o b, n, m)
<1>1. a \in Replied /\ b \in Replied BY DEF Whole
<1>2. a \o b \in Replied BY <1>1, ReplyConcat
<1>3. Pairs(a \o b) /\ Closes(a \o b) BY PairsConcat DEF Whole
<1>4. NotesOf(a \o b) = NotesOf(a) \o NotesOf(b) BY <1>1, NotesConcat
<1>5. NotesOf(a) \in Numbers /\ NotesOf(b) \in Numbers BY <1>1, NotesType DEF Numbers
<1>6. CASE k = n
  <2>1. NotesOf(a) = << >> BY <1>6 DEF Whole
  <2>2. NotesOf(a \o b) = NotesOf(b) BY <1>4, <1>5, <2>1, ConcatEmptySeq DEF Numbers
  <2> QED BY <1>2, <1>3, <1>6, <2>2 DEF Whole
<1>7. CASE k = m
  <2>1. NotesOf(b) = << >> BY <1>7 DEF Whole
  <2>2. NotesOf(a \o b) = NotesOf(a) BY <1>4, <1>5, <2>1, ConcatEmptySeq DEF Numbers
  <2> QED BY <1>2, <1>3, <1>7, <2>2 DEF Whole
<1> QED BY <1>6, <1>7

\* One message is whole, and notifies of the next number or of nothing.
LEMMA WholeMessage ==
    ASSUME NEW t \in BackTypes, NEW n \in Nat, NEW m \in Nat, t # "A" \/ n = m + 1
    PROVE  Whole(Message(t, n), m, IF t = "A" THEN m + 1 ELSE m)
BY MessageBack, MessageNotes DEF Whole

\* Whatever the backend answers is whole messages.
LEMMA AnswerIs ==
    ASSUME NEW u, u.no \in Nat, notes \in Nat, held \in Confirmed, out = << >>, Answer(u)
    PROVE  notes' \in Nat /\ held' \in Confirmed /\ Whole(out', notes, notes')
           /\ mode' \in {"quiet", "idle", "ext", "skip", mode}
<1>0. /\ Whole(held, notes, notes) /\ Whole(<< >>, notes, notes)
      /\ << >> \in Confirmed
  BY HeldIs, EmptyBack, NotesOfEmpty, EmptySeq DEF Whole, Confirmed
<1> DEFINE M(t) == Message(t, u.no)
           A == Message("A", notes + 1)
<1>1. \A t \in BackTypes \ {"A"}, n \in Nat : Whole(M(t), n, n) BY WholeMessage
<1>2. Whole(A, notes, notes + 1) /\ notes + 1 \in Nat BY WholeMessage DEF BackTypes
<1>3. /\ Whole(M("R"), notes, notes) /\ Whole(M("Z"), notes, notes) /\ Whole(M("E"), notes, notes)
      /\ Whole(M("C"), notes, notes)
      /\ Whole(M("Z"), notes + 1, notes + 1)
  BY <1>1 DEF BackTypes
<1> HIDE DEF M, A
<1>a. ASSUME NEW v \in {"C", "E"} PROVE Whole(M(v), notes, notes) BY <1>3
<1>4. CASE u.type = "0" /\ out' = Message("R", u.no) \o Message("Z", u.no)
           /\ mode' = "quiet" /\ held' = << >> /\ UNCHANGED notes
  <2>1. Whole(M("R") \o M("Z"), notes, notes) BY <1>3, WholeConcat
  <2> QED BY <1>0, <1>4, <2>1 DEF M
<1>5. CASE AnswerQuery(u.no) /\ mode' = "idle" /\ held' = << >>
  <2>1. PICK v \in {"C", "E"} :
           \/ notes' = notes + 1 /\ out' = ((held \o M(v)) \o A) \o M("Z")
           \/ out' = (held \o M(v)) \o M("Z") /\ notes' = notes
    BY <1>5 DEF AnswerQuery, M, A
  <2>2. Whole(held \o M(v), notes, notes) BY <1>0, <1>a, WholeConcat
  <2>3. Whole((held \o M(v)) \o A, notes, notes + 1) BY <1>2, <2>2, WholeConcat
  <2>4. Whole(((held \o M(v)) \o A) \o M("Z"), notes, notes + 1) BY <1>2, <1>3, <2>3, WholeConcat
  <2>5. Whole((held \o M(v)) \o M("Z"), notes, notes) BY <1>3, <2>2, WholeConcat
  <2> QED BY <1>0, <1>2, <1>5, <2>1, <2>4, <2>5
<1>6. CASE held' = held \o Message("1", u.no) /\ out' = << >> /\ mode' = "ext" /\ UNCHANGED notes
  <2>1. Message("1", u.no) = <<Unit("1", u.no, 1)>> BY MessageIs DEF Long
  <2>a. Unit("1", u.no, 1) \in [type : {"1"}, no : Nat, part : {1}] BY DEF Unit
  <2>2. Message("1", u.no) \in Confirmed
    <3> DEFINE V == [type : {"1"}, no : Nat, part : {1}]
               v == Unit("1", u.no, 1)
    <3>1. v \in V /\ Message("1", u.no) = <<v>> BY <2>1, <2>a
    <3> HIDE DEF V, v
    <3>2. <<v>> \in Seq(V) BY <3>1
    <3> QED BY <3>1, <3>2 DEF Confirmed, V
  <2>3. held \o Message("1", u.no) \in Confirmed BY <2>2, ConcatProperties DEF Confirmed
  <2> QED BY <1>0, <1>6, <2>3
<1>7. CASE out' = held \o Message("E", u.no) /\ held' = << >> /\ mode' = "skip" /\ UNCHANGED notes
  <2>1. Whole(held \o M("E"), notes, notes) BY <1>0, <1>3, WholeConcat
  <2> QED BY <1>0, <1>7, <2>1 DEF M
<1>8. CASE out' = held /\ held' = << >> /\ UNCHANGED <<mode, notes>>
  BY <1>0, <1>8
<1>9. CASE AnswerSync(u.no) /\ mode' = "idle" /\ held' = << >>
  <2>1. \/ notes' = notes + 1 /\ out' = (held \o A) \o M("Z")
        \/ out' = held \o M("Z") /\ notes' = notes
    BY <1>9 DEF AnswerSync, M, A
  <2>2. Whole(held \o A, notes, notes + 1) BY <1>0, <1>2, WholeConcat
  <2>3. Whole((held \o A) \o M("Z"), notes, notes + 1) BY <1>2, <1>3, <2>2, WholeConcat
  <2>4. Whole(held \o M("Z"), notes, notes) BY <1>0, <1>3, WholeConcat
  <2> QED BY <1>0, <1>2, <1>9, <2>1, <2>3, <2>4
<1>10. CASE UNCHANGED <<out, held, mode, notes>>
  BY <1>0, <1>10
<1> QED BY <1>4, <1>5, <1>6, <1>7, <1>8, <1>9, <1>10 DEF Answer

-----------------------------------------------------------------------------
(* Types *)

FrontTypes == {"0", "Q", "P", "H", "S", "X"}
FrontUnit == [type : FrontTypes, no : Nat, part : {1, 2}]
Asked == Seq(FrontUnit)
Kinds == {"0", "Q", "P", "S"}
Todos == {<< >>, <<"0">>, <<"Q", "S">>, <<"P", "S">>, <<"S">>}
Exchange == [phase : {"idle", "called", "sending", "scanning", "reading"},
             kind : Kinds, no : Nat, sync : BOOLEAN, unsent : Asked, scanned : Nat,
             todo : Todos, reply : Replied]

\* The types of the variables.
Typed ==
    /\ toGuest \in Asked /\ Len(toGuest) <= InRing
    /\ wire \in Replied /\ buffered \in Replied /\ out \in Replied /\ held \in Confirmed
    /\ ex \in [Callers -> Exchange]
    /\ \A c \in Callers : ex[c].phase = "called" => ex[c].todo # << >>
    /\ inFlight \in BOOLEAN
    /\ closer \in {"idle", "sending", "reading", "done"}
    /\ guest \in {"up", "gone", "stuck"}
    /\ mode \in {"start", "quiet", "idle", "ext", "skip"}
    /\ issued \in Nat /\ notes \in Nat /\ partial \in Nat
    /\ delivered \in Numbers /\ handed \subseteq Nat

\* What a client sends is units of a client.
LEMMA MessageFront ==
    ASSUME NEW t \in FrontTypes, NEW n \in Nat
    PROVE  Message(t, n) \in Asked
<1>0. \A p \in {1, 2} : Unit(t, n, p) \in FrontUnit BY DEF Unit, FrontUnit
<1> DEFINE x == Unit(t, n, 1)
           y == Unit(t, n, 2)
<1>1. x \in FrontUnit /\ y \in FrontUnit BY <1>0
<1>2. Message(t, n) = IF t \in Long THEN <<x, y>> ELSE <<x>> BY MessageIs
<1> HIDE DEF x, y
<1>3. <<x, y>> \in Seq(FrontUnit) /\ <<x>> \in Seq(FrontUnit) BY <1>1
<1> QED BY <1>2, <1>3 DEF Asked

\* So is all it sends for an exchange.
LEMMA OutgoingFront ==
    ASSUME NEW kind \in Kinds, NEW n \in Nat
    PROVE  Outgoing(kind, n) \in Asked
<1>1. Message(kind, n) \in Asked /\ Message("H", n) \in Asked
  BY MessageFront DEF Kinds, FrontTypes
<1>2. Message(kind, n) \o Message("H", n) \in Asked BY <1>1, ConcatProperties DEF Asked
<1> QED BY <1>1, <1>2 DEF Outgoing

\* What a write that takes what fits does to the ring and the rest of the message.
LEMMA Written ==
    ASSUME NEW t \in Asked, Len(t) <= InRing, NEW s \in Asked, NEW n,
           n = Smaller(InRing - Len(t), Len(s))
    PROVE  /\ n \in 0 .. Len(s)
           /\ t \o SubSeq(s, 1, n) \in Asked /\ Len(t \o SubSeq(s, 1, n)) <= InRing
           /\ After(s, n) \in Asked
           /\ (t \o SubSeq(s, 1, n)) \o After(s, n) = t \o s
           /\ n = Len(s) => After(s, n) = << >>
<1>1. Len(t) \in Nat /\ Len(s) \in Nat /\ InRing \in Nat BY LenProperties, SessionAssumption DEF Asked
<1>2. n \in 0 .. Len(s) /\ n <= InRing - Len(t) BY <1>1 DEF Smaller
<1> DEFINE a == SubSeq(s, 1, n)
           b == After(s, n)
<1>3. a \in Seq(FrontUnit) /\ Len(a) = n /\ b \in Seq(FrontUnit) /\ Len(b) = Len(s) - n /\ s = a \o b
  <2>1. s \in Seq(FrontUnit) BY DEF Asked
  <2>2. \A m \in 0 .. Len(s) :
           /\ SubSeq(s, 1, m) \in Seq(FrontUnit) /\ Len(SubSeq(s, 1, m)) = m
           /\ After(s, m) \in Seq(FrontUnit) /\ Len(After(s, m)) = Len(s) - m
           /\ s = SubSeq(s, 1, m) \o After(s, m)
    BY <2>1, Halves
  <2> QED BY <1>2, <2>2, Zenon
<1>a. a \in Seq(FrontUnit) BY <1>3
<1>b. b \in Seq(FrontUnit) BY <1>3
<1>4. t \in Seq(FrontUnit) BY DEF Asked
<1> HIDE DEF a, b
<1>5. t \o a \in Seq(FrontUnit) /\ Len(t \o a) = Len(t) + Len(a) BY <1>a, <1>4, ConcatProperties
<1>6. (t \o a) \o b = t \o (a \o b) BY <1>a, <1>b, <1>4, Bracket
<1>7. n = Len(s) => b = << >>
  <2> SUFFICES ASSUME n = Len(s) PROVE b = << >> OBVIOUS
  <2>1. Len(b) = 0 BY <1>1, <1>3
  <2> QED BY <1>3, <2>1, EmptySeq
<1>8. Len(t \o a) <= InRing
  <2> DEFINE l == Len(t \o a)
  <2>1. l = Len(t) + n BY <1>3, <1>5
  <2> HIDE DEF l
  <2>2. l <= InRing BY <1>1, <1>2, <2>1
  <2> QED BY <2>2 DEF l
<1> QED BY <1>2, <1>3, <1>5, <1>6, <1>7, <1>8 DEF a, b, Asked

\* What a call has still to exchange.
LEMMA TodoIs ==
    ASSUME NEW t \in Todos
    PROVE  /\ t # << >> => Head(t) \in Kinds /\ Tail(t) \in {<< >>, <<"S">>}
           /\ t = <<"0">> => Head(t) = "0" /\ Tail(t) = << >>
           /\ t = <<"S">> => Head(t) = "S" /\ Tail(t) = << >>
           /\ t = <<"Q", "S">> => Head(t) = "Q" /\ Tail(t) = <<"S">>
           /\ t = <<"P", "S">> => Head(t) = "P" /\ Tail(t) = <<"S">>
           /\ t # << >> /\ Head(t) = "P" => Tail(t) = <<"S">>
<1>1. CASE t = << >> BY <1>1
<1>2. CASE t = <<"0">> BY <1>2 DEF Kinds
<1>3. CASE t = <<"S">> BY <1>3 DEF Kinds
<1>4. CASE t = <<"Q", "S">> BY <1>4 DEF Kinds
<1>5. CASE t = <<"P", "S">> BY <1>5 DEF Kinds
<1> QED BY <1>1, <1>2, <1>3, <1>4, <1>5 DEF Todos

\* The typing of the first state and of each step that changes what is typed.
LEMMA EmptyAsked == << >> \in Asked
BY EmptySeq DEF Asked

LEMMA TypedInit == Init => Typed
<1> SUFFICES ASSUME Init PROVE Typed OBVIOUS
<1>1. << >> \in Asked /\ << >> \in Replied /\ << >> \in Confirmed /\ << >> \in Numbers /\ Len(<< >>) = 0
  BY EmptySeq DEF Asked, Replied, Confirmed, Numbers
<1>2. NoExchange \in Exchange BY <1>1 DEF NoExchange, Exchange, Todos, Kinds
<1>3. [NoExchange EXCEPT !.phase = "called", !.todo = <<"0">>] \in Exchange
  BY <1>1 DEF NoExchange, Exchange, Todos, Kinds
<1>4. ex \in [Callers -> Exchange] BY <1>2, <1>3 DEF Init
<1>5. \A c \in Callers : ex[c].phase = "called" => ex[c].todo # << >> BY DEF Init, NoExchange, Callers
<1>6. 0 \in Nat /\ 0 <= InRing BY SessionAssumption
<1> QED BY <1>1, <1>4, <1>5, <1>6 DEF Init, Typed

\* An exchange that begins is typed.
LEMMA BeginTyped ==
    ASSUME Typed, NEW c \in Callers, NEW kind \in Kinds, NEW sync \in BOOLEAN, NEW todo \in Todos,
           Begin(c, kind, sync, todo)
    PROVE  Typed'
<1> DEFINE units == Outgoing(kind, issued + 1)
           n == Smaller(Room, Len(units))
           e == [NoExchange EXCEPT
                   !.phase = IF n = Len(units) THEN "scanning" ELSE "sending",
                   !.kind = kind, !.no = issued + 1, !.sync = sync,
                   !.unsent = After(units, n), !.todo = todo]
<1>1. issued + 1 \in Nat /\ units \in Asked BY OutgoingFront DEF Typed
<1>2. /\ inFlight' = TRUE /\ issued' = issued + 1
      /\ toGuest' = toGuest \o SubSeq(units, 1, n) /\ ex' = [ex EXCEPT ![c] = e]
      /\ UNCHANGED <<wire, buffered, ready, delivered, handed, life, backend>>
  BY Zenon DEF Begin
<1>3. n = Smaller(InRing - Len(toGuest), Len(units)) BY DEF Room
<1> HIDE DEF units, n
<1>4. toGuest' \in Asked /\ Len(toGuest') <= InRing /\ After(units, n) \in Asked
  BY <1>1, <1>2, <1>3, Written DEF Typed
<1>5. e \in Exchange /\ e.phase # "called"
  BY <1>1, <1>4, EmptyBack DEF NoExchange, Exchange, Todos, Kinds
<1> HIDE DEF e
<1>6. ex' \in [Callers -> Exchange] BY <1>2, <1>5 DEF Typed
<1>7. \A d \in Callers : ex'[d].phase = "called" => ex'[d].todo # << >> BY <1>2, <1>5 DEF Typed
<1> QED BY <1>1, <1>2, <1>4, <1>6, <1>7 DEF Typed, life, backend

\* Where a found reply ends.
LEMMA ScanFound ==
    ASSUME NEW buf \in Replied, NEW kind, NEW from \in Nat, Scan(buf, kind, from).found
    PROVE  /\ Scan(buf, kind, from).end \in 1 .. Len(buf)
           /\ buf[Scan(buf, kind, from).end].type \in EndsReplyTo(kind)
           /\ Pairs(buf) => CutAt(buf, Scan(buf, kind, from).end)
<1>1. Len(buf) \in Nat BY LenProperties DEF Replied
<1>2. ~ from > Len(buf) /\ Scan(buf, kind, from) = Walk(buf, kind)[from] BY DEF Scan
<1>3. from \in 0 .. Len(buf) BY <1>1, <1>2
<1>4. PICK p \in 0 .. Len(buf) - 1 :
         /\ Walk(buf, kind)[from].end = EndOf(buf, p)
         /\ WholeAt(buf, p) /\ buf[p + 1].type \in EndsReplyTo(kind)
  BY <1>2, <1>3, WalkFound
<1>5. p \in 0 .. Len(buf) BY <1>1
<1>6. EndOf(buf, p) = p + 1 BY <1>4 DEF EndOf, EndsReplyTo, Long
<1>7. Pairs(buf) => CutAt(buf, EndOf(buf, p)) BY <1>4, <1>5, CutAfter
<1> QED BY <1>1, <1>2, <1>4, <1>6, <1>7

\* A walk ends inside the buffer, no earlier than it starts.
LEMMA WalkRange ==
    ASSUME NEW buf \in Replied, NEW kind, NEW at \in 0 .. Len(buf)
    PROVE  Walk(buf, kind)[at].end \in at .. Len(buf)
<1> DEFINE w == Walk(buf, kind)
           Bad == {n \in 0 .. Len(buf) : w[Len(buf) - n].end \notin Len(buf) - n .. Len(buf)}
<1>1. Len(buf) \in Nat BY LenProperties DEF Replied
<1>2. Bad = {}
  <2> SUFFICES ASSUME Bad # {} PROVE FALSE OBVIOUS
  <2>1. PICK n \in Bad : \A m \in Bad : n <= m
    <3>1. Bad \subseteq Nat OBVIOUS
    <3> HIDE DEF Bad
    <3> QED BY <3>1, LeastOf
  <2> DEFINE p == Len(buf) - n
  <2>2. n \in 0 .. Len(buf) /\ p \in 0 .. Len(buf) /\ Len(buf) - p = n BY <1>1, <2>1
  <2>3. w[p].end \notin p .. Len(buf) BY <2>1
  <2> HIDE DEF p
  <2>4. w[p] = IF ~ WholeAt(buf, p) THEN [found |-> FALSE, end |-> p]
               ELSE IF buf[p + 1].type \in EndsReplyTo(kind)
                    THEN [found |-> TRUE, end |-> EndOf(buf, p)]
                    ELSE w[EndOf(buf, p)]
    BY <2>2, WalkStep
  <2> HIDE DEF w
  <2> DEFINE q == EndOf(buf, p)
             m == Len(buf) - q
  <2>5. w[p] = w[q] /\ q \in p + 1 .. Len(buf)
    <3>1. WholeAt(buf, p) => q \in p + 1 .. Len(buf) BY <2>2, EndIs
    <3>2. p \in p .. Len(buf) BY <1>1, <2>2
    <3> HIDE DEF q
    <3>3. q \in p + 1 .. Len(buf) => q \in p .. Len(buf) BY <1>1, <2>2
    <3> QED BY <2>3, <2>4, <3>1, <3>2, <3>3 DEF q
  <2>6. m \in 0 .. Len(buf) /\ Len(buf) - m = q /\ ~ n <= m BY <1>1, <2>2, <2>5
  <2>7. m \notin Bad
    <3> HIDE DEF Bad
    <3> QED BY <2>1, <2>6
  <2>8. w[q].end \in q .. Len(buf) BY <2>6, <2>7
  <2> QED BY <1>1, <2>2, <2>3, <2>5, <2>8
<1>3. Len(buf) - at \in 0 .. Len(buf) /\ Len(buf) - (Len(buf) - at) = at BY <1>1
<1>4. Len(buf) - at \notin Bad BY <1>2
<1> HIDE DEF w
<1>5. w[at].end \in at .. Len(buf) BY <1>3, <1>4
<1> QED BY <1>5 DEF w

\* A scan ends at a position.
LEMMA ScanTyped ==
    ASSUME NEW buf \in Replied, NEW kind, NEW from \in Nat
    PROVE  Scan(buf, kind, from).end \in Nat
<1>1. Len(buf) \in Nat BY LenProperties DEF Replied
<1>2. CASE from > Len(buf) BY <1>2 DEF Scan
<1>3. CASE ~ from > Len(buf)
  <2>1. from \in 0 .. Len(buf) BY <1>1, <1>3
  <2>2. Walk(buf, kind)[from].end \in from .. Len(buf) BY <2>1, WalkRange
  <2> QED BY <1>1, <1>3, <2>2 DEF Scan
<1> QED BY <1>2, <1>3

-----------------------------------------------------------------------------
(* Notifications and the end of the backend: the invariant *)

\* A backend that is gone has nothing left to say.
Closing == guest = "gone" => out = << >> /\ held = << >>

\* Every notification sent is delivered, in hand or on its way, in order.
Noted ==
    /\ NotesGood(delivered, handed, Coming, notes)
    /\ closer = "idle" => Pairs(Coming) /\ (guest # "gone" => Closes(Coming))
    /\ closer = "idle" /\ guest = "up" => Account(delivered, handed, Coming) = 1 .. notes

\* The inductive invariant of the notifications.
Core == Typed /\ Closing /\ Noted

\* What is on its way to an exchange, and how its parts may be grouped.
LEMMA ComingIs ==
    ASSUME Typed
    PROVE  /\ Coming \in Replied /\ buffered \o wire \in Replied /\ wire \o out \in Replied
           /\ Coming = buffered \o (wire \o out) /\ Coming = (buffered \o wire) \o out
           /\ out = << >> => Coming = buffered \o wire
<1>1. buffered \in Replied /\ wire \in Replied /\ out \in Replied BY DEF Typed
<1>2. buffered \o wire \in Replied /\ wire \o out \in Replied BY <1>1, ReplyConcat
<1>3. (buffered \o wire) \o out \in Replied BY <1>1, <1>2, ReplyConcat
<1>4. (buffered \o wire) \o out = buffered \o (wire \o out) BY <1>1, BackBracket, Zenon
<1> DEFINE b == buffered \o wire
<1>5. out = << >> => b \o out = b
  <2> b \in Seq(BackUnit) BY <1>2 DEF Replied
  <2> HIDE DEF b
  <2> QED BY ConcatEmptySeq
<1> QED BY <1>2, <1>3, <1>4, <1>5, Zenon DEF Coming

\* A step that leaves the way from the backend to the listeners alone.
LEMMA CoreQuiet ==
    ASSUME Core, Typed', UNCHANGED <<wire, buffered, out, held, delivered, handed, notes>>,
           guest' = guest \/ (guest = "up" /\ guest' = "stuck"),
           closer' = "idle" => closer = "idle"
    PROVE  Core'
<1>1. Coming' = Coming BY DEF Coming
<1>2. Closing' BY DEF Core, Closing, Typed
<1>3. Noted' BY <1>1 DEF Core, Noted
<1> QED BY <1>2, <1>3 DEF Core

\* An exchange replaced by one of the type.
LEMMA TypedSame ==
    ASSUME Typed, NEW c \in Callers, NEW e, ex' = [ex EXCEPT ![c] = e], e \in Exchange,
           e.phase = "called" => e.todo # << >>
    PROVE  ex' \in [Callers -> Exchange] /\ \A d \in Callers : ex'[d].phase = "called" => ex'[d].todo # << >>
BY DEF Typed

\* Each step keeps Core: first those that send.
LEMMA CoreBegin ==
    ASSUME Core, NEW c \in Callers, NEW kind \in Kinds, NEW sync \in BOOLEAN, NEW todo \in Todos,
           Begin(c, kind, sync, todo)
    PROVE  Core'
<1>1. Typed' BY BeginTyped DEF Core
<1>2. UNCHANGED <<wire, buffered, out, held, delivered, handed, notes, guest, closer>>
  BY DEF Begin, life, backend
<1> QED BY <1>1, <1>2, CoreQuiet

LEMMA CoreCallQuery ==
    ASSUME Core, NEW kind \in {"Q", "P"}, CallQuery(kind)
    PROVE  Core'
<1> DEFINE e == [NoExchange EXCEPT !.phase = "called", !.todo = <<kind, "S">>]
<1>1. ex' = [ex EXCEPT !["query"] = e] BY DEF CallQuery
<1>2. <<kind, "S">> \in Todos /\ <<kind, "S">> # << >> BY DEF Todos
<1>3. e \in Exchange /\ (e.phase = "called" => e.todo # << >>)
  BY <1>2, EmptyAsked, EmptyBack DEF NoExchange, Exchange, Kinds
<1>4. "query" \in Callers BY DEF Callers
<1> HIDE DEF e
<1>5. Typed' BY <1>1, <1>3, <1>4, TypedSame DEF Core, CallQuery, Typed, life, backend
<1>6. UNCHANGED <<wire, buffered, out, held, delivered, handed, notes, guest, closer>>
  BY DEF CallQuery, life, backend
<1> QED BY <1>5, <1>6, CoreQuiet

LEMMA CoreNextMessage == ASSUME Core, NextMessage PROVE Core'
<1> DEFINE t == ex["query"].todo
<1>1. "query" \in Callers /\ t \in Todos /\ t # << >>
  BY DEF NextMessage, Core, Typed, Callers, Exchange
<1>2. Head(t) \in Kinds /\ Tail(t) \in Todos BY <1>1, TodoIs DEF Todos
<1>3. Begin("query", Head(t), FALSE, Tail(t)) BY DEF NextMessage
<1> QED BY <1>1, <1>2, <1>3, CoreBegin

LEMMA CoreCallRawStream == ASSUME Core, CallRawStream PROVE Core'
<1>1. "raw" \in Callers /\ "Q" \in Kinds /\ << >> \in Todos BY DEF Callers, Kinds, Todos
<1>2. RawBlocks(inFlight) \in BOOLEAN BY SessionAssumption DEF RawBlocks
<1>3. Begin("raw", "Q", RawBlocks(inFlight), << >>) BY DEF CallRawStream
<1> QED BY <1>1, <1>2, <1>3, CoreBegin

LEMMA CoreSend == ASSUME Core, NEW c \in Callers, Send(c) PROVE Core'
<1> DEFINE n == Smaller(Room, Len(ex[c].unsent))
           e == [ex[c] EXCEPT !.phase = IF n = Len(ex[c].unsent) THEN "scanning" ELSE "sending",
                              !.unsent = After(ex[c].unsent, n)]
<1>1. ex[c] \in Exchange /\ ex[c].unsent \in Asked /\ toGuest \in Asked /\ Len(toGuest) <= InRing
  BY DEF Core, Typed, Exchange
<1>2. /\ toGuest' = toGuest \o SubSeq(ex[c].unsent, 1, n)
      /\ ex' = [ex EXCEPT ![c].phase = IF n = Len(ex[c].unsent) THEN "scanning" ELSE "sending",
                          ![c].unsent = After(ex[c].unsent, n)]
      /\ UNCHANGED <<wire, buffered, inFlight, ready, delivered, handed, issued, life, calls, backend>>
  BY Zenon DEF Send
<1>3. n = Smaller(InRing - Len(toGuest), Len(ex[c].unsent)) BY DEF Room
<1> HIDE DEF n
<1>4. toGuest' \in Asked /\ Len(toGuest') <= InRing /\ After(ex[c].unsent, n) \in Asked
  BY <1>1, <1>2, <1>3, Written
<1>5. ex' = [ex EXCEPT ![c] = e] BY <1>1, <1>2 DEF Core, Typed
<1>6. e \in Exchange /\ e.phase # "called" BY <1>1, <1>4 DEF Exchange
<1> HIDE DEF e
<1>7. Typed' BY <1>2, <1>4, <1>5, <1>6, TypedSame DEF Core, Typed, life, backend
<1>8. UNCHANGED <<wire, buffered, out, held, delivered, handed, notes, guest, closer>>
  BY <1>2 DEF life, backend
<1> QED BY <1>7, <1>8, CoreQuiet

\* The end of file changes nothing but the exchange and the session's life.
LEMMA CoreReadEof == ASSUME Core, NEW c \in Callers, ReadEof(c) PROVE Core'
<1> DEFINE e == [NoExchange EXCEPT !.phase = Rest(ex[c]), !.todo = ex[c].todo]
<1>1. ex' = [ex EXCEPT ![c] = e] BY DEF ReadEof
<1>2. ex[c].todo \in Todos BY DEF Core, Typed, Exchange
<1>3. e \in Exchange /\ (e.phase = "called" => e.todo # << >>)
  BY <1>2, EmptyAsked, EmptyBack DEF NoExchange, Exchange, Kinds, Rest
<1> HIDE DEF e
<1>4. Typed' BY <1>1, <1>3, TypedSame DEF ReadEof, Core, Typed, backend
<1>5. UNCHANGED <<wire, buffered, out, held, delivered, handed, notes, guest, closer>>
  BY DEF ReadEof, backend
<1> QED BY <1>4, <1>5, CoreQuiet

\* The steps that change nothing but how the session is used.
LEMMA CoreLife ==
    ASSUME Core,
           \/ StartPump \/ PumpReturn \/ StartClose \/ CloseEof \/ GuestTraps
           \/ UNCHANGED vars
    PROVE  Core'
<1>1. UNCHANGED <<toGuest, wire, buffered, ex, inFlight, delivered, handed, issued,
                  mode, partial, held, out, notes>>
  BY DEF StartPump, PumpReturn, StartClose, CloseEof, GuestTraps, vars, client, life, backend
<1>2. /\ guest' = guest \/ (guest = "up" /\ guest' = "stuck")
      /\ closer' \in {closer, "sending", "done"}
  BY DEF StartPump, PumpReturn, StartClose, CloseEof, GuestTraps, vars, client, life, backend, Eof
<1>3. Typed' BY <1>1, <1>2 DEF Core, Typed
<1> QED BY <1>1, <1>2, <1>3, CoreQuiet

LEMMA CoreSendTerminate == ASSUME Core, SendTerminate PROVE Core'
<1>1. /\ toGuest' = toGuest \o Message("X", 0) /\ closer' = "reading" /\ Room > 0
      /\ UNCHANGED <<wire, client, pumping, closing, closed, calls, backend>>
  BY DEF SendTerminate
<1>2. Message("X", 0) = <<Unit("X", 0, 1)>> BY MessageIs DEF Long
<1>3. Message("X", 0) \in Asked BY MessageFront DEF FrontTypes
<1>4. Len(Message("X", 0)) = 1 BY <1>2
<1>5. toGuest' \in Asked /\ Len(toGuest') = Len(toGuest) + 1
  <2> DEFINE x == Message("X", 0)
  <2>1. toGuest \in Seq(FrontUnit) /\ x \in Seq(FrontUnit) /\ Len(x) = 1
    BY <1>3, <1>4 DEF Asked, Core, Typed
  <2>2. toGuest' = toGuest \o x BY <1>1
  <2> HIDE DEF x
  <2>3. toGuest \o x \in Seq(FrontUnit) /\ Len(toGuest \o x) = Len(toGuest) + Len(x)
    BY <2>1, ConcatProperties
  <2> QED BY <2>1, <2>2, <2>3 DEF Asked
<1>6. Len(toGuest') <= InRing
  <2>1. Len(toGuest) \in Nat /\ InRing - Len(toGuest) > 0 /\ InRing \in Nat
    BY <1>1, LenProperties, SessionAssumption DEF Core, Typed, Asked, Room
  <2> QED BY <1>5, <2>1
<1>7. Typed' BY <1>1, <1>5, <1>6 DEF Core, Typed, client, backend
<1> QED BY <1>1, <1>7, CoreQuiet DEF client, backend

\* A reply is taken off the front of the buffer.
LEMMA SettleIs ==
    ASSUME Core, NEW c \in Callers, NEW buf \in Replied, NEW rest \in Replied, Coming = buf \o rest,
           NEW k \in 0 .. Len(buf), Settle(c, SubSeq(buf, 1, k))
    PROVE  /\ delivered' \in Numbers
           /\ NotesGood(delivered', handed', After(buf, k) \o rest, notes)
           /\ Account(delivered', handed', After(buf, k) \o rest) = Account(delivered, handed, Coming)
<1> DEFINE reply == SubSeq(buf, 1, k)
           seen == IF c = "query" THEN BeforeError(reply) ELSE << >>
<1>1. reply \in Replied BY FrontOf
<1>2. \E unseen \in Replied : seen \in Replied /\ reply = seen \o unseen
  <2>1. CASE c = "query"
    <3>1. PICK j \in 0 .. Len(reply) : BeforeError(reply) = SubSeq(reply, 1, j)
      BY <1>1, BeforeErrorIs
    <3> HIDE DEF reply
    <3>2. SubSeq(reply, 1, j) \in Replied /\ After(reply, j) \in Replied
          /\ reply = SubSeq(reply, 1, j) \o After(reply, j)
      BY <1>1, FrontOf
    <3>3. seen = SubSeq(reply, 1, j) BY <2>1, <3>1
    <3> HIDE DEF seen
    <3> QED BY <3>2, <3>3, Zenon
  <2>2. CASE c # "query"
    <3>1. seen = << >> BY <2>2
    <3> HIDE DEF reply
    <3>2. << >> \o reply = reply BY <1>1, ConcatEmptySeq DEF Replied
    <3> QED BY <1>1, <3>1, <3>2, EmptyBack
  <2> QED BY <2>1, <2>2
<1>3. PICK unseen \in Replied : seen \in Replied /\ reply = seen \o unseen BY <1>2
<1>4. NotesOf(seen) = (IF c = "query" THEN NotesOf(BeforeError(reply)) ELSE << >>)
  BY NotesOfEmpty
<1>5. /\ delivered' = delivered \o NotesOf(seen)
      /\ handed' = handed \cup (SetOf(NotesOf(reply)) \ SetOf(NotesOf(seen)))
  <2> HIDE DEF seen, reply
  <2> QED BY <1>4, Zenon DEF Settle, reply
<1>6. NotesGood(delivered, handed, buf \o rest, notes) /\ delivered \in Numbers /\ notes \in Nat
  BY DEF Core, Noted, Typed
<1> HIDE DEF seen
<1> HIDE DEF reply
<1>7. Consumed(delivered, handed, notes, buf, rest, k, seen) BY <1>3, <1>6, Consume DEF reply
<1> QED BY <1>5, <1>7, Zenon DEF Consumed, reply

\* What a scan leaves is paired, and whole while the backend is up.
LEMMA PairsRest ==
    ASSUME Core, closer = "idle", NEW buf \in Replied, NEW rest \in Replied, Coming = buf \o rest,
           NEW k \in 0 .. Len(buf), Pairs(buf) => CutAt(buf, k)
    PROVE  /\ Pairs(buf) /\ Pairs(After(buf, k) \o rest)
           /\ guest # "gone" => Closes(After(buf, k) \o rest)
<1> DEFINE a == SubSeq(buf, 1, k)
           b == After(buf, k)
           s == buf \o rest
<1>1. a \in Replied /\ b \in Replied /\ buf = a \o b BY FrontOf
<1>2. Pairs(s) /\ (guest # "gone" => Closes(s)) BY DEF Core, Noted
<1>3. Pairs(buf) BY <1>2, PairsPrefix
<1>4. CutAt(buf, k) BY <1>3
<1>5. s \in Replied /\ b \o rest \in Replied BY <1>1, ReplyConcat
<1>6. /\ Len(buf) \in Nat /\ Len(rest) \in Nat /\ Len(s) = Len(buf) + Len(rest)
      /\ \A i \in 1 .. Len(buf) : s[i] = buf[i]
  BY ConcatProperties, LenProperties DEF Replied
<1>7. k \in 0 .. Len(s) /\ CutAt(s, k)
  <2>1. k \in 0 .. Len(s) /\ (k # 0 => k \in 1 .. Len(buf)) BY <1>6
  <2> HIDE DEF s
  <2> QED BY <1>4, <1>6, <2>1 DEF CutAt
<1>8. After(s, k) = b \o rest
  <2>1. Len(a) = k /\ a \in Seq(BackUnit) /\ b \in Seq(BackUnit) /\ rest \in Seq(BackUnit)
    <3>1. Len(a) = k BY Halves DEF Replied
    <3> QED BY <1>1, <3>1 DEF Replied
  <2> DEFINE t == b \o rest
  <2>2. t \in Seq(BackUnit) BY <1>5 DEF Replied
  <2>3. s = a \o t
    <3>1. (a \o b) \o rest = a \o (b \o rest)
      <4> HIDE DEF a, b
      <4> QED BY <2>1, BackBracket, Zenon DEF Replied
    <3> QED BY <1>1, <3>1, Zenon
  <2> HIDE DEF a, t, s
  <2>4. /\ Len(s) = k + Len(t) /\ Len(t) \in Nat /\ Len(s) \in Nat /\ k \in Nat
        /\ \A i \in 1 .. Len(t) : s[k + i] = t[i]
    <3>1. Len(t) \in Nat /\ Len(s) \in Nat /\ k \in Nat
      BY <1>5, <1>7, <2>2, LenProperties DEF Replied
    <3>2. \A x, y \in Seq(BackUnit) :
             /\ Len(x \o y) = Len(x) + Len(y)
             /\ \A i \in 1 .. Len(y) : (x \o y)[Len(x) + i] = y[i]
      BY ConcatProperties, LenProperties
    <3>3. /\ Len(a \o t) = Len(a) + Len(t)
          /\ \A i \in 1 .. Len(t) : (a \o t)[Len(a) + i] = t[i]
      BY <2>1, <2>2, <3>2, Zenon
    <3> QED BY <2>1, <2>3, <3>1, <3>3
  <2>5. /\ After(s, k) \in Seq(BackUnit) /\ Len(After(s, k)) = Len(s) - k
        /\ \A i \in 1 .. Len(s) - k : After(s, k)[i] = s[k + i]
    BY <1>5, <1>7, Halves DEF Replied
  <2>6. Len(After(s, k)) = Len(t) /\ \A i \in 1 .. Len(t) : After(s, k)[i] = t[i] BY <2>4, <2>5
  <2> DEFINE r == After(s, k)
  <2>7. r \in Seq(BackUnit) /\ Len(r) = Len(t) /\ \A i \in 1 .. Len(r) : r[i] = t[i] BY <2>5, <2>6
  <2> HIDE DEF r
  <2>8. r = t BY <2>2, <2>7, SeqEqual
  <2> QED BY <2>8 DEF r, t
<1> HIDE DEF s
<1>9. Pairs(After(s, k)) /\ (Closes(s) => Closes(After(s, k))) BY <1>2, <1>5, <1>7, PairsSplit
<1> QED BY <1>2, <1>3, <1>8, <1>9, Zenon

\* A scan hands the notifications it passes over in the order they came.
LEMMA ScanCore ==
    ASSUME Core, NEW c \in Callers, NEW buf \in Replied, NEW rest \in Replied, Coming = buf \o rest,
           ScanFor(c, buf), wire' \o out' = rest, wire' \in Replied,
           UNCHANGED <<toGuest, issued, life, backend>>
    PROVE  Core'
<1> DEFINE s == Scan(buf, ex[c].kind, ex[c].scanned)
<1>0. ex[c] \in Exchange /\ ex[c].scanned \in Nat BY DEF Core, Typed, Exchange
<1>1. UNCHANGED <<closer, guest, mode, partial, held, out, notes>> BY DEF life, backend
<1>a. Coming' = buffered' \o rest
  <2>1. buffered' \in Replied => (buffered' \o wire') \o out' = buffered' \o (wire' \o out')
    <3>1. wire' \in Seq(BackUnit) /\ out' \in Seq(BackUnit) BY <1>1 DEF Core, Typed, Replied
    <3>2. \A x, y, z \in Seq(BackUnit) : (x \o y) \o z = x \o (y \o z) BY BackBracket, Zenon DEF Replied
    <3> DEFINE x == buffered'
               y == wire'
               z == out'
    <3>3. x \in Seq(BackUnit) => (x \o y) \o z = x \o (y \o z)
      <4>1. y \in Seq(BackUnit) /\ z \in Seq(BackUnit) BY <3>1
      <4> HIDE DEF x, y, z
      <4> QED BY <3>2, <4>1, Zenon
    <3> QED BY <3>3 DEF Replied
  <2>2. buffered' \in Replied
    <3>1. CASE s.found
      <4>1. s.end \in 1 .. Len(buf) BY <1>0, <3>1, ScanFound
      <4>2. s.end \in 0 .. Len(buf) BY <4>1
      <4>3. buffered' = After(buf, s.end) BY <3>1 DEF ScanFor
      <4> QED BY <4>2, <4>3, FrontOf
    <3>2. CASE ~ s.found
      <4>1. buffered' = buf BY <3>2 DEF ScanFor
      <4> QED BY <4>1
    <3> QED BY <3>1, <3>2
  <2> QED BY <2>1, <2>2 DEF Coming
<1>2. CASE s.found
  <2> DEFINE k == s.end
             e == [NoExchange EXCEPT !.phase = Rest(ex[c]), !.kind = ex[c].kind, !.no = ex[c].no,
                                     !.todo = ex[c].todo, !.reply = SubSeq(buf, 1, k)]
  <2>1. k \in 1 .. Len(buf) /\ (Pairs(buf) => CutAt(buf, k)) BY <1>0, <1>2, ScanFound
  <2>2. k \in 0 .. Len(buf) BY <2>1
  <2>3. /\ Finish(c, SubSeq(buf, 1, k)) /\ buffered' = After(buf, k) /\ Settle(c, SubSeq(buf, 1, k))
    BY <1>2 DEF ScanFor
  <2> HIDE DEF s, k
  <2>4. SubSeq(buf, 1, k) \in Replied /\ After(buf, k) \in Replied BY <2>2, FrontOf
  <2>5. ex' = [ex EXCEPT ![c] = e] /\ inFlight' = FALSE BY <2>3 DEF Finish
  <2>6. e \in Exchange /\ (e.phase = "called" => e.todo # << >>)
    BY <1>0, <2>4, EmptyAsked DEF NoExchange, Exchange, Rest
  <2> HIDE DEF e
  <2>7. /\ delivered' \in Numbers
        /\ NotesGood(delivered', handed', After(buf, k) \o rest, notes)
        /\ Account(delivered', handed', After(buf, k) \o rest) = Account(delivered, handed, Coming)
    BY <2>2, <2>3, SettleIs
  <2>8. handed' \subseteq Nat BY <2>7 DEF NotesGood
  <2>9. Typed' BY <1>1, <2>3, <2>4, <2>5, <2>6, <2>7, <2>8, TypedSame DEF Core, Typed
  <2>10. closer = "idle" => /\ Pairs(After(buf, k) \o rest)
                            /\ guest # "gone" => Closes(After(buf, k) \o rest)
    BY <2>1, <2>2, PairsRest
  <2>11. Coming' = After(buf, k) \o rest BY <1>a, <2>3
  <2>12. Noted' BY <1>1, <2>7, <2>10, <2>11 DEF Core, Noted
  <2> QED BY <1>1, <2>9, <2>12 DEF Core, Closing
<1>3. CASE ~ s.found
  <2> DEFINE e == [ex[c] EXCEPT !.phase = "reading", !.scanned = s.end]
  <2>1. /\ buffered' = buf
        /\ ex' = [ex EXCEPT ![c].phase = "reading", ![c].scanned = s.end]
        /\ UNCHANGED <<inFlight, ready, delivered, handed>>
    BY <1>3 DEF ScanFor
  <2>2. s.end \in Nat BY <1>0, ScanTyped
  <2> HIDE DEF s
  <2>3. ex' = [ex EXCEPT ![c] = e] BY <2>1 DEF Core, Typed
  <2>4. e \in Exchange /\ e.phase # "called" BY <1>0, <2>2 DEF Exchange
  <2> HIDE DEF e
  <2>5. Typed' BY <1>1, <2>1, <2>3, <2>4, TypedSame DEF Core, Typed
  <2>6. Coming' = Coming BY <1>a, <2>1
  <2>7. Noted' BY <1>1, <2>1, <2>6 DEF Core, Noted
  <2> QED BY <1>1, <2>5, <2>7 DEF Core, Closing
<1> QED BY <1>2, <1>3

\* The steps that scan.
LEMMA CoreFirstScan == ASSUME Core, NEW c \in Callers, FirstScan(c) PROVE Core'
<1>1. /\ ScanFor(c, buffered)
      /\ UNCHANGED <<toGuest, wire, issued, life, calls, backend>>
  BY DEF FirstScan
<1>2. buffered \in Replied /\ wire \in Replied /\ out \in Replied BY DEF Core, Typed
<1>3. wire \o out \in Replied /\ Coming = buffered \o (wire \o out) BY ComingIs DEF Core
<1>4. wire' = wire /\ out' = out BY <1>1 DEF backend
<1> QED BY <1>1, <1>2, <1>3, <1>4, ScanCore

LEMMA CoreRead == ASSUME Core, NEW c \in Callers, Read(c) PROVE Core'
<1>1. /\ ScanFor(c, buffered \o wire) /\ wire' = << >>
      /\ UNCHANGED <<toGuest, issued, life, calls, backend>>
  BY DEF Read
<1>2. out \in Replied /\ buffered \o wire \in Replied /\ Coming = (buffered \o wire) \o out
  BY ComingIs DEF Core, Typed
<1>3. << >> \in Replied /\ wire' \o out' = out
  <2>1. << >> \o out = out BY <1>2, ConcatEmptySeq DEF Replied
  <2> QED BY <1>1, <2>1, EmptyBack DEF backend
<1> DEFINE b == buffered \o wire
<1> HIDE DEF b
<1>4. ScanFor(c, b) /\ b \in Replied /\ Coming = b \o out BY <1>1, <1>2 DEF b
<1> QED BY <1>1, <1>2, <1>3, <1>4, ScanCore

LEMMA CorePumpRead == ASSUME Core, PumpRead PROVE Core'
<1> DEFINE buf == buffered \o wire
           k == Leading(buf)
<1>1. /\ delivered' = delivered \o NotesOf(SubSeq(buf, 1, k)) /\ buffered' = After(buf, k)
      /\ wire' = << >>
      /\ UNCHANGED <<toGuest, ex, inFlight, ready, handed, issued, life, calls, backend>>
  BY DEF PumpRead
<1>2. out \in Replied /\ buf \in Replied /\ Coming = buf \o out BY ComingIs DEF Core, Typed
<1> HIDE DEF buf
<1>3. k \in 0 .. Len(buf) /\ (Pairs(buf) => CutAt(buf, k)) BY <1>2, LeadingCut
<1> HIDE DEF k
<1>4. SubSeq(buf, 1, k) \in Replied /\ After(buf, k) \in Replied BY <1>2, <1>3, FrontOf
<1> DEFINE a == SubSeq(buf, 1, k)
<1>5. a \o << >> = a BY <1>4, ConcatEmptySeq DEF Replied
<1>6. NotesGood(delivered, handed, buf \o out, notes) /\ delivered \in Numbers /\ notes \in Nat
  BY <1>2 DEF Core, Noted, Typed
<1>7. Consumed(delivered, handed, notes, buf, out, k, a)
  <2> DEFINE E == << >>
  <2>1. E \in Replied /\ a \in Replied /\ SubSeq(buf, 1, k) = a \o E BY <1>4, <1>5, EmptyBack
  <2> HIDE DEF a, E
  <2> QED BY <1>2, <1>3, <1>6, <2>1, Consume
<1>8. handed \cup (SetOf(NotesOf(a)) \ SetOf(NotesOf(a))) = handed OBVIOUS
<1>9. /\ delivered' \in Numbers
      /\ NotesGood(delivered', handed, After(buf, k) \o out, notes)
      /\ Account(delivered', handed, After(buf, k) \o out) = Account(delivered, handed, Coming)
  BY <1>1, <1>2, <1>7, <1>8, Zenon DEF Consumed
<1>10. UNCHANGED <<closer, guest, mode, partial, held, out, notes>> BY <1>1 DEF life, backend
<1>11. Typed' BY <1>1, <1>4, <1>9, <1>10, EmptyBack DEF Core, Typed
<1>12. Coming' = After(buf, k) \o out
  <2>1. buffered' \o << >> = buffered' BY <1>1, <1>4, ConcatEmptySeq DEF Replied
  <2> QED BY <1>1, <1>10, <2>1 DEF Coming
<1>13. closer = "idle" => /\ Pairs(After(buf, k) \o out)
                          /\ guest # "gone" => Closes(After(buf, k) \o out)
  BY <1>2, <1>3, PairsRest
<1>14. Noted' BY <1>1, <1>9, <1>10, <1>12, <1>13 DEF Core, Noted
<1> QED BY <1>10, <1>11, <1>14 DEF Core, Closing

LEMMA CoreCloseRead == ASSUME Core, CloseRead PROVE Core'
<1>1. /\ closer = "reading" /\ wire' = << >>
      /\ UNCHANGED <<toGuest, client, life, calls, backend>>
  BY DEF CloseRead
<1>2. UNCHANGED <<buffered, ex, inFlight, delivered, handed, issued, closer, guest, mode,
                  partial, held, out, notes>>
  BY <1>1 DEF client, life, backend
<1>3. Typed' BY <1>1, <1>2, EmptyBack DEF Core, Typed
<1>4. buffered \in Replied /\ wire \in Replied /\ out \in Replied BY DEF Core, Typed
<1>5. Coming = buffered \o (wire \o out) BY ComingIs DEF Core
<1>6. Coming' = buffered \o out
  <2>1. buffered \o << >> = buffered BY <1>4, ConcatEmptySeq DEF Replied
  <2> QED BY <1>1, <1>2, <2>1 DEF Coming
<1>7. NotesGood(delivered, handed, buffered \o (wire \o out), notes) /\ delivered \in Numbers
      /\ notes \in Nat
  BY <1>5 DEF Core, Noted, Typed
<1>8. NotesGood(delivered, handed, buffered \o out, notes) BY <1>4, <1>7, Lose
<1>9. Noted' BY <1>1, <1>2, <1>6, <1>8 DEF Noted
<1> QED BY <1>2, <1>3, <1>9 DEF Core, Closing

\* What the backend has to say is extended by whole messages.
LEMMA CoreSays ==
    ASSUME Core, guest = "up", guest' = "up", out = << >>, Whole(out', notes, notes'), notes' \in Nat,
           Typed', UNCHANGED <<wire, buffered, delivered, handed, closer>>
    PROVE  Core'
<1>1. Coming \in Replied /\ Coming = buffered \o wire BY ComingIs DEF Core
<1>2. Coming' = Coming \o out' BY <1>1 DEF Coming
<1>3. out' \in Replied BY DEF Whole
<1>4. NotesGood(delivered, handed, Coming, notes) /\ delivered \in Numbers /\ notes \in Nat
  BY DEF Core, Noted, Typed
<1>5. /\ NotesGood(delivered, handed, Coming \o out', notes')
      /\ Account(delivered, handed, Coming) = 1 .. notes =>
             Account(delivered, handed, Coming \o out') = 1 .. notes'
  <2> DEFINE s == Coming
             t == out'
             m == notes'
  <2>1. s \in Replied /\ t \in Replied /\ m \in Nat /\ NotesGood(delivered, handed, s, notes)
        /\ \/ m = notes /\ NotesOf(t) = << >>
           \/ m = notes + 1 /\ NotesOf(t) = <<notes + 1>>
    <3>1. s \in Replied /\ NotesGood(delivered, handed, s, notes) BY <1>1, <1>4
    <3>2. t \in Replied /\ m \in Nat BY <1>3
    <3> HIDE DEF s
    <3>3. \/ m = notes /\ NotesOf(t) = << >>
          \/ m = notes + 1 /\ NotesOf(t) = <<notes + 1>>
      <4>1. Whole(t, notes, m) OBVIOUS
      <4> HIDE DEF t, m
      <4> QED BY <4>1 DEF Whole
    <3> HIDE DEF t, m
    <3> QED BY <3>1, <3>2, <3>3
  <2> HIDE DEF s, t, m
  <2>2. /\ NotesGood(delivered, handed, s \o t, m)
        /\ Account(delivered, handed, s) = 1 .. notes => Account(delivered, handed, s \o t) = 1 .. m
    BY <1>4, <2>1, Gain
  <2> QED BY <2>2 DEF s, t, m
<1>6. closer = "idle" => Pairs(Coming \o out') /\ Closes(Coming \o out')
  <2> DEFINE s == Coming
             t == out'
  <2>1. closer = "idle" => Pairs(s) /\ Closes(s) BY DEF Core, Noted
  <2>2. s \in Replied /\ t \in Replied /\ Pairs(t) /\ Closes(t) BY <1>1, <1>3 DEF Whole
  <2> HIDE DEF s, t
  <2>3. Pairs(s) /\ Closes(s) => Pairs(s \o t) /\ Closes(s \o t) BY <2>2, PairsConcat
  <2> QED BY <2>1, <2>3 DEF s, t
<1>7. Noted' BY <1>2, <1>5, <1>6 DEF Core, Noted
<1> QED BY <1>7 DEF Core, Closing, Typed

\* The backend ends, and what it had not yet written is lost.
LEMMA CoreGone ==
    ASSUME Core, Gone, toGuest' \in Asked, Len(toGuest') <= InRing, UNCHANGED <<wire, client, life>>
    PROVE  Core'
<1>1. /\ guest' = "gone" /\ held' = << >> /\ out' = << >>
      /\ UNCHANGED <<wire, buffered, ex, inFlight, delivered, handed, issued, closer,
                     mode, partial, notes>>
  BY DEF Gone, client, life
<1>2. << >> \in Replied /\ << >> \in Confirmed BY EmptyBack, EmptySeq DEF Confirmed
<1>3. Typed' BY <1>1, <1>2 DEF Core, Typed
<1>4. buffered \in Replied /\ wire \in Replied /\ out \in Replied BY DEF Core, Typed
<1>5. buffered \o wire \in Replied /\ Coming = (buffered \o wire) \o out BY ComingIs DEF Core
<1>6. Coming' = buffered \o wire
  <2>1. (buffered \o wire) \o << >> = buffered \o wire BY <1>5, ConcatEmptySeq DEF Replied
  <2> QED BY <1>1, <2>1 DEF Coming
<1> DEFINE b == buffered \o wire
<1> HIDE DEF b
<1>7. b \in Replied /\ Coming = b \o out /\ Coming' = b BY <1>5, <1>6 DEF b
<1>8. NotesGood(delivered, handed, b, notes)
  <2>1. NotesGood(delivered, handed, b \o out, notes) /\ delivered \in Numbers /\ notes \in Nat
    BY <1>7 DEF Core, Noted, Typed
  <2>2. b \o (out \o << >>) = b \o out /\ b \o << >> = b
    BY <1>4, <1>7, ConcatEmptySeq DEF Replied
  <2>3. NotesGood(delivered, handed, b \o << >>, notes)
    <3> DEFINE E == << >>
    <3>1. E \in Replied /\ NotesGood(delivered, handed, b \o (out \o E), notes) BY <1>2, <2>1, <2>2
    <3> HIDE DEF E
    <3>2. NotesGood(delivered, handed, b \o E, notes) BY <1>4, <1>7, <2>1, <3>1, Lose
    <3> QED BY <3>2 DEF E
  <2> QED BY <2>2, <2>3
<1>9. closer = "idle" => Pairs(b)
  <2>1. closer = "idle" => Pairs(b \o out) BY <1>7 DEF Core, Noted
  <2> QED BY <1>4, <1>7, <2>1, PairsPrefix
<1>10. Noted' BY <1>1, <1>7, <1>8, <1>9 DEF Noted
<1> QED BY <1>1, <1>3, <1>10 DEF Core, Closing

\* What is left when the backend takes a unit off the ring.
LEMMA TailAsked ==
    ASSUME NEW t \in Asked, t # << >>
    PROVE  Tail(t) \in Asked /\ Len(Tail(t)) <= Len(t) /\ Head(t) \in FrontUnit
BY HeadTailProperties, LenProperties DEF Asked

\* The steps of the backend.
LEMMA CoreGuestTake == ASSUME Core, GuestTake PROVE Core'
<1> DEFINE u == Head(toGuest)
<1>1. /\ guest = "up" /\ out = << >> /\ toGuest # << >> /\ toGuest' = Tail(toGuest)
      /\ UNCHANGED <<wire, client, life, calls>>
  BY DEF GuestTake
<1>2. toGuest' \in Asked /\ Len(toGuest') <= InRing /\ u \in FrontUnit
  <2>1. toGuest \in Asked /\ Len(toGuest) <= InRing /\ InRing \in Nat /\ Len(toGuest) \in Nat
    BY SessionAssumption, LenProperties DEF Core, Typed, Asked
  <2>2. Tail(toGuest) \in Asked /\ Len(Tail(toGuest)) <= Len(toGuest) /\ u \in FrontUnit
        /\ Len(Tail(toGuest)) \in Nat
    BY <1>1, <2>1, TailAsked, LenProperties DEF Asked
  <2> QED BY <1>1, <2>1, <2>2
<1>3. UNCHANGED <<wire, buffered, ex, inFlight, delivered, handed, issued, closer>>
  BY <1>1 DEF client, life
<1> HIDE DEF u
<1>4. u.no \in Nat BY <1>2 DEF FrontUnit
<1>5. CASE Gone BY <1>1, <1>2, <1>5, CoreGone
<1>6. CASE guest' \in {"up", "stuck"} /\ partial' \in Nat /\ UNCHANGED <<mode, held, out, notes>>
  <2>1. Typed' BY <1>2, <1>3, <1>6 DEF Core, Typed
  <2> QED BY <1>1, <1>3, <1>6, <2>1, CoreQuiet
<1>7. CASE Answer(u) /\ partial' = 0 /\ UNCHANGED guest
  <2>1. notes' \in Nat /\ held' \in Confirmed /\ Whole(out', notes, notes')
        /\ mode' \in {"quiet", "idle", "ext", "skip", mode}
    BY <1>1, <1>4, <1>7, AnswerIs DEF Core, Typed
  <2>2. Typed' BY <1>2, <1>3, <1>7, <2>1 DEF Core, Typed, Whole
  <2> QED BY <1>1, <1>3, <1>7, <2>1, <2>2, CoreSays
<1>8. \/ Gone
      \/ guest' \in {"up", "stuck"} /\ partial' \in {u.no, partial} /\ UNCHANGED <<mode, held, out, notes>>
      \/ Answer(u) /\ partial' = 0 /\ UNCHANGED guest
  BY <1>1 DEF GuestTake, u
<1>9. partial \in Nat BY DEF Core, Typed
<1> QED BY <1>4, <1>5, <1>6, <1>7, <1>8, <1>9

\* A unit moved from the output to the ring is still on its way, in its place.
LEMMA EmittedIs ==
    ASSUME NEW U, NEW w \in Seq(U), NEW s \in Seq(U), s # << >>
    PROVE  Append(w, Head(s)) \o Tail(s) = w \o s
<1>1. Head(s) \in U /\ Tail(s) \in Seq(U) /\ Len(s) \in Nat /\ Len(s) # 0 /\ Len(Tail(s)) = Len(s) - 1
      /\ \A i \in 1 .. Len(Tail(s)) : Tail(s)[i] = s[i + 1]
  BY HeadTailProperties, LenProperties, EmptySeq
<1> QED BY <1>1, SMT

\* Two neighbours of a sequence.
LEMMA PairOf ==
    ASSUME NEW U, NEW s \in Seq(U), NEW i \in 1 .. Len(s) - 1
    PROVE  SubSeq(s, i, i + 1) = <<s[i], s[i + 1]>>
<1>1. Len(s) \in Nat BY LenProperties
<1>2. \A j \in i .. i + 1 : s[j] \in U
  <2>1. \A j \in i .. i + 1 : j \in 1 .. Len(s) BY <1>1
  <2> QED BY <2>1, ElementOfSeq
<1> DEFINE p == SubSeq(s, i, i + 1)
<1>3. p \in Seq(U) /\ Len(p) = (IF i <= i + 1 THEN i + 1 - i + 1 ELSE 0)
      /\ \A j \in 1 .. i + 1 - i + 1 : p[j] = s[i + j - 1]
  BY <1>2, SubSeqProperties, Z3
<1> HIDE DEF p
<1>4. Len(p) = 2 /\ p[1] = s[i] /\ p[2] = s[i + 1]
  <2>1. i \in Int /\ i <= i + 1 /\ i + 1 - i + 1 = 2 /\ i + 1 - 1 = i /\ i + 2 - 1 = i + 1 BY <1>1
  <2>2. Len(p) = 2 BY <1>3, <2>1
  <2>3. \A j \in 1 .. 2 : p[j] = s[i + j - 1] BY <1>3, <2>1
  <2>4. p[1] = s[i + 1 - 1] /\ p[2] = s[i + 2 - 1] BY <2>3
  <2> QED BY <2>1, <2>2, <2>4
<1>5. <<s[i], s[i + 1]>> \in Seq(U) BY <1>1, <1>2
<1> DEFINE q == <<s[i], s[i + 1]>>
<1>6. Len(q) = 2 /\ q[1] = s[i] /\ q[2] = s[i + 1] /\ q \in Seq(U) BY <1>5
<1> HIDE DEF q
<1>7. \A j \in 1 .. 2 : p[j] = q[j]
  <2>1. \A j \in 1 .. 2 : j = 1 \/ j = 2 OBVIOUS
  <2> QED BY <1>4, <1>6, <2>1
<1>8. p = q BY <1>3, <1>4, <1>6, <1>7, SeqEqual
<1> QED BY <1>8 DEF p, q

\* So emitting does not change what is on its way.
LEMMA EmitComing ==
    ASSUME Typed, out # << >>, wire' = Append(wire, Head(out)), out' = Tail(out), buffered' = buffered
    PROVE  Coming' = Coming /\ wire' \in Replied /\ out' \in Replied
<1>1. buffered \in Replied /\ wire \in Replied /\ out \in Replied BY DEF Typed
<1>2. Head(out) \in BackUnit /\ Tail(out) \in Replied /\ Append(wire, Head(out)) \in Replied
      /\ Append(wire, Head(out)) \o Tail(out) = wire \o out
  BY <1>1, HeadTailProperties, AppendProperties, EmittedIs DEF Replied
<1>3. Coming = buffered \o (wire \o out) BY ComingIs
<1> DEFINE w == Append(wire, Head(out))
           t == Tail(out)
<1>4. (buffered \o w) \o t = buffered \o (w \o t)
  <2>1. w \in Seq(BackUnit) /\ t \in Seq(BackUnit) /\ buffered \in Seq(BackUnit) BY <1>1, <1>2 DEF Replied
  <2> HIDE DEF w, t
  <2> QED BY <2>1, BackBracket, Zenon DEF Replied
<1>5. Coming' = (buffered \o w) \o t BY DEF Coming
<1>6. w \o t = wire \o out BY <1>2
<1>7. w \in Replied /\ t \in Replied /\ wire' = w /\ out' = t BY <1>2
<1> HIDE DEF w, t
<1>8. Coming' = Coming BY <1>3, <1>4, <1>5, <1>6, Zenon
<1> QED BY <1>7, <1>8

LEMMA CoreGuestEmit == ASSUME Core, GuestEmit PROVE Core'
<1>1. /\ guest = "up" /\ out # << >> /\ wire' = Append(wire, Head(out)) /\ out' = Tail(out)
      /\ UNCHANGED <<toGuest, buffered, ex, inFlight, delivered, handed, issued, closer, guest,
                     mode, partial, held, notes>>
  BY DEF GuestEmit, client, life
<1>2. Coming' = Coming /\ wire' \in Replied /\ out' \in Replied BY <1>1, EmitComing DEF Core
<1>3. Typed' BY <1>1, <1>2 DEF Core, Typed
<1>4. Noted' BY <1>1, <1>2 DEF Core, Noted
<1> QED BY <1>1, <1>3, <1>4 DEF Core, Closing

LEMMA CoreGuestNotify == ASSUME Core, GuestNotify PROVE Core'
<1>1. /\ guest = "up" /\ out = << >> /\ notes' = notes + 1 /\ out' = Message("A", notes + 1)
      /\ UNCHANGED <<toGuest, wire, buffered, ex, inFlight, delivered, handed, issued, closer, guest,
                     mode, partial, held>>
  BY DEF GuestNotify, client, life
<1>2. notes \in Nat /\ notes + 1 \in Nat BY DEF Core, Typed
<1>3. Whole(out', notes, notes') /\ notes' \in Nat BY <1>1, <1>2, WholeMessage DEF BackTypes
<1>4. Typed' BY <1>1, <1>3 DEF Core, Typed, Whole
<1> QED BY <1>1, <1>3, <1>4, CoreSays

LEMMA CoreGuestExit == ASSUME Core, GuestExit PROVE Core'
<1>1. Gone /\ UNCHANGED <<toGuest, wire, client, life>> BY DEF GuestExit
<1>2. toGuest' \in Asked /\ Len(toGuest') <= InRing BY <1>1 DEF Core, Typed
<1> QED BY <1>1, <1>2, CoreGone

\* The first state.
LEMMA CoreInit == Init => Core
<1> SUFFICES ASSUME Init PROVE Core OBVIOUS
<1>1. Typed BY TypedInit
<1>2. /\ buffered = << >> /\ wire = << >> /\ out = << >> /\ held = << >> /\ delivered = << >>
      /\ handed = {} /\ notes = 0 /\ guest = "up" /\ closer = "idle"
  BY DEF Init
<1>3. Coming = << >>
  <2>1. Coming = buffered \o wire /\ << >> \o << >> = << >>
    BY <1>1, <1>2, ComingIs, EmptySeq, ConcatEmptySeq
  <2> QED BY <1>2, <2>1
<1>4. << >> \in Numbers /\ << >> \o << >> = << >> BY EmptySeq, ConcatEmptySeq DEF Numbers
<1>5. Sorted(<< >>) BY DEF Sorted
<1>6. NotesGood(<< >>, {}, << >>, 0) /\ Account(<< >>, {}, << >>) = 1 .. 0
  BY <1>4, <1>5, NotesOfEmpty, SetOfEmpty DEF NotesGood, Account
<1>7. Noted BY <1>2, <1>3, <1>6, EmptyBack DEF Noted
<1> QED BY <1>1, <1>2, <1>7 DEF Core, Closing

\* Every step.
LEMMA CoreNext == ASSUME Core, [Next]_vars PROVE Core'
<1>1. ASSUME NEW kind \in {"Q", "P"}, CallQuery(kind) PROVE Core' BY <1>1, CoreCallQuery
<1>2. CASE NextMessage BY <1>2, CoreNextMessage
<1>3. CASE CallRawStream BY <1>3, CoreCallRawStream
<1>4. ASSUME NEW c \in Callers, ExchangeStep(c) PROVE Core'
  <2>1. CASE Send(c) BY <2>1, CoreSend
  <2>2. CASE FirstScan(c) BY <2>2, CoreFirstScan
  <2>3. CASE Read(c) BY <2>3, CoreRead
  <2>4. CASE ReadEof(c) BY <2>4, CoreReadEof
  <2> QED BY <1>4, <2>1, <2>2, <2>3, <2>4 DEF ExchangeStep
<1>5. CASE StartPump \/ PumpReturn \/ StartClose \/ CloseEof \/ GuestTraps \/ UNCHANGED vars
  BY <1>5, CoreLife
<1>6. CASE PumpRead BY <1>6, CorePumpRead
<1>7. CASE SendTerminate BY <1>7, CoreSendTerminate
<1>8. CASE CloseRead BY <1>8, CoreCloseRead
<1>9. CASE GuestTake BY <1>9, CoreGuestTake
<1>10. CASE GuestEmit BY <1>10, CoreGuestEmit
<1>11. CASE GuestNotify BY <1>11, CoreGuestNotify
<1>12. CASE GuestExit BY <1>12, CoreGuestExit
<1> QED BY <1>1, <1>2, <1>3, <1>4, <1>5, <1>6, <1>7, <1>8, <1>9, <1>10, <1>11, <1>12
        DEF Next, CloseStep, GuestStep

(* The inductive invariant of the stream, also when exchanges overlap: what   *)
(* is delivered, in hand and on its way are notifications the backend sent,   *)
(* in order, whichever scan finds them; and until close() is called no        *)
(* message is cut between two owners and none of a live backend is lost       *)
(* (#exchange, #settle, pumpNotifications).  A read is one step here: two     *)
(* readers that share #scratch are not in it.                                 *)
THEOREM CoreHolds == Spec => []Core
BY CoreInit, CoreNext, PTL DEF Spec

\* Of paired units, the notifications that are whole are those whose second half is there.
LEMMA WholeNotes ==
    ASSUME NEW s \in Replied, Pairs(s), NEW n \in Nat
    PROVE  n \in SetOf(NotesOf(s)) <=> \E i \in 1 .. Len(s) - 1 : SubSeq(s, i, i + 1) = Message("A", n)
<1>1. Len(s) \in Nat /\ \A i \in 1 .. Len(s) : s[i] \in BackUnit
  BY LenProperties, ElementOfSeq DEF Replied
<1>2. SetOf(NotesOf(s)) = {u.no : u \in SetOf(s) \cap LastHalves} BY NotesType
<1>3. Message("A", n) = <<Unit("A", n, 1), Unit("A", n, 2)>> BY MessageIs DEF Long
<1>4. \A i \in 1 .. Len(s) - 1 : SubSeq(s, i, i + 1) = <<s[i], s[i + 1]>> BY <1>1, PairOf DEF Replied
<1>5. ASSUME NEW i \in 1 .. Len(s) - 1, SubSeq(s, i, i + 1) = Message("A", n)
      PROVE  n \in SetOf(NotesOf(s))
  <2>1. i + 1 \in 1 .. Len(s) /\ s[i + 1] = Unit("A", n, 2) BY <1>1, <1>3, <1>4, <1>5
  <2>2. s[i + 1] \in SetOf(s) BY <2>1 DEF SetOf
  <2>3. s[i + 1] \in LastHalves /\ s[i + 1].no = n BY <2>1 DEF LastHalves, Unit
  <2> QED BY <1>2, <2>2, <2>3
<1>6. ASSUME n \in SetOf(NotesOf(s))
      PROVE  \E i \in 1 .. Len(s) - 1 : SubSeq(s, i, i + 1) = Message("A", n)
  <2>a. PICK v \in SetOf(s) : v \in LastHalves /\ v.no = n BY <1>2, <1>6
  <2>b. PICK j \in 1 .. Len(s) : v = s[j] BY <2>a DEF SetOf
  <2>1. s[j] \in LastHalves /\ s[j].no = n BY <2>a, <2>b, Zenon
  <2>2. s[j].part = 2 /\ s[j].type = "A" BY <2>1 DEF LastHalves
  <2>3. j > 1 /\ Opens(s[j - 1]) BY <2>2 DEF Pairs
  <2> DEFINE i == j - 1
  <2>4. i \in 1 .. Len(s) - 1 /\ i \in 1 .. Len(s) /\ i + 1 = j BY <1>1, <2>b, <2>3
  <2> HIDE DEF i
  <2>5. s[i] \in BackUnit /\ s[j] = Half(s[i]) /\ s[i].part = 1
    <3>1. Opens(s[i]) BY <2>3 DEF i
    <3> QED BY <1>1, <2>4, <3>1 DEF Pairs, Opens
  <2>6. s[i].type = "A" /\ s[i].no = n BY <2>1, <2>2, <2>5 DEF Half, BackUnit
  <2>7. s[i] = Unit("A", n, 1) /\ s[j] = Unit("A", n, 2)
    BY <2>5, <2>6 DEF Half, BackUnit, Unit
  <2>8. SubSeq(s, i, i + 1) = Message("A", n) BY <1>3, <1>4, <2>4, <2>7
  <2> QED BY <2>4, <2>8
<1> QED BY <1>5, <1>6

(* While exchanges take turns and close() is not called, a notification is    *)
(* delivered at most once, in the order of the backend, and none of a live    *)
(* backend is lost, whether a query, the raw stream or the idle pump reads it *)
(* (#dispatch, #drainNotifications).                                          *)
THEOREM NotesHold == Spec => []NotesOnceAndInOrder
<1>1. ASSUME Core PROVE NotesOnceAndInOrder
  <2>1. NotesGood(delivered, handed, Coming, notes) /\ Coming \in Replied
    BY <1>1, ComingIs DEF Core, Noted
  <2>2. NotesInOrder BY <2>1 DEF NotesInOrder, NotesGood, Sorted
  <2>3. ASSUME closer = "idle", guest = "up"
        PROVE  1 .. notes = SetOf(delivered) \cup handed \cup
                   {n \in 1 .. notes : \E i \in 1 .. Len(Coming) - 1 :
                       SubSeq(Coming, i, i + 1) = Message("A", n)}
    <3>1. Pairs(Coming) /\ Account(delivered, handed, Coming) = 1 .. notes
      BY <1>1, <2>3 DEF Core, Noted
    <3> DEFINE s == Coming
    <3>2. s \in Replied /\ Pairs(s) BY <2>1, <3>1
    <3> HIDE DEF s
    <3>3. \A n \in 1 .. notes : n \in SetOf(NotesOf(s)) <=>
             \E i \in 1 .. Len(s) - 1 : SubSeq(s, i, i + 1) = Message("A", n)
      BY <3>2, WholeNotes
    <3>4. SetOf(NotesOf(s)) = {n \in 1 .. notes : \E i \in 1 .. Len(s) - 1 :
                                  SubSeq(s, i, i + 1) = Message("A", n)}
      <4>1. SetOf(NotesOf(s)) \subseteq 1 .. notes BY <2>1 DEF NotesGood, s
      <4> QED BY <3>3, <4>1
    <3> QED BY <3>1, <3>4 DEF Account, s
  <2> QED BY <2>2, <2>3 DEF NotesOnceAndInOrder, NotesKept
<1> QED BY <1>1, CoreHolds, PTL

-----------------------------------------------------------------------------
(* One exchange at a time: the invariant *)

\* The substance of what the backend said and no exchange has returned, and
\* what an exchange has still to be read by the backend.
Said == Only(Coming, Substance)
Forward(c) == toGuest \o ex[c].unsent

\* A reply to a message, cut short.
PartOf(x, kind, no) == \E r \in Replies(kind, no) : \E k \in 0 .. Len(r) : x = SubSeq(r, 1, k)

\* The backend has not answered the message, and where it is with it: not
\* reached, behind a flush it skips, half read, or held for the flush.
Unanswered(kind, no, F) ==
    /\ Said = << >>
    /\ \/ /\ kind \in {"0", "S"} /\ partial = 0 /\ held = << >>
          /\ \/ F = Message(kind, no)
             \/ /\ kind = "S" /\ mode = "skip"
                /\ \E n \in 0 .. issued : F = Message("H", n) \o Message("S", no)
       \/ /\ kind = "Q" /\ mode # "skip" /\ held = << >>
          /\ \/ partial = 0 /\ F = Message("Q", no)
             \/ partial = no /\ F = <<Unit("Q", no, 2)>>
       \/ /\ kind = "P" /\ mode # "skip" /\ partial = 0
          /\ \/ held = << >> /\ F = Message("P", no) \o Message("H", no)
             \/ held = Message("1", no) /\ F = Message("H", no)

\* The backend has answered the message, and nothing more is to be answered.
Answered(kind, no, F) ==
    /\ Said \in Replies(kind, no) /\ partial = 0 /\ held = << >>
    /\ mode = "skip" => kind = "P"
    /\ F = << >> \/ (mode = "skip" /\ F = Message("H", no))

\* What a dead backend may have left: some of the answer to one message.
Stale(last) == Said = << >> \/ \E n \in 1 .. last : \A u \in SetOf(Said) : u.no = n

\* A backend nobody waits for: nothing to read but the flush it skips.
Resting ==
    /\ partial = 0
    /\ toGuest = << >> \/ (mode = "skip" /\ \E n \in 0 .. issued : toGuest = Message("H", n))
    /\ mode = "skip" => ex["query"].phase = "called" /\ ex["query"].todo = <<"S">>

\* One exchange at a time, with the last number issued, its bytes sent before
\* it reads; a Parse is followed by its Sync.
Turns ==
    /\ ~ (Busy("query") /\ Busy("raw"))
    /\ inFlight <=> \E c \in Callers : Busy(c)
    /\ ex["raw"].phase # "called" /\ ex["raw"].todo = << >>
    /\ \A c \in Callers :
          /\ ex[c].no <= issued
          /\ Busy(c) => /\ ex[c].no = issued /\ issued > 0
                        /\ ex[c].kind = "P" => c = "query" /\ ex[c].todo = <<"S">>
          /\ ex[c].phase # "sending" => ex[c].unsent = << >>
          /\ ex[c].phase # "reading" => ex[c].scanned = 0

\* What an exchange has scanned is whole messages, none of which ends its reply.
Scanned ==
    \A c \in Callers : ex[c].phase = "reading" =>
        /\ ex[c].scanned <= Len(buffered) /\ CutAt(buffered, ex[c].scanned)
        /\ \A u \in SetOf(buffered) : u.type \notin EndsReplyTo(ex[c].kind)

\* While the backend is up, or its end not read yet: what is said answers the
\* one exchange, or nothing is said.
Live ==
    /\ \A c \in Callers : Busy(c) =>
          IF guest = "gone" THEN PartOf(Said, ex[c].kind, ex[c].no)
          ELSE Unanswered(ex[c].kind, ex[c].no, Forward(c)) \/ Answered(ex[c].kind, ex[c].no, Forward(c))
    /\ (\A c \in Callers : ~ Busy(c)) =>
          /\ Said = << >> /\ held = << >>
          /\ guest # "gone" => Resting

\* A session closed on the end of file: nothing is sent any more.
Dead ==
    /\ guest = "gone" /\ Stale(issued)
    /\ \A c \in Callers : Busy(c) => Stale(issued - 1)

\* The stream between the exchanges and the backend, until close() reads it.
Talk == closer = "idle" => Scanned /\ (IF closed THEN Dead ELSE Live)

-----------------------------------------------------------------------------
(* Replies and their parts *)

LEMMA MessageSaid ==
    ASSUME NEW t \in BackTypes, NEW n \in Nat
    PROVE  Only(Message(t, n), Substance) = IF t = "A" THEN << >> ELSE Message(t, n)
<1> DEFINE m == Message(t, n)
<1>1. m \in Seq(BackUnit) BY MessageBack DEF Replied
<1>2. \A i \in 1 .. Len(m) : m[i] \in BackUnit /\ m[i].type = t
  <2> SUFFICES ASSUME NEW i \in 1 .. Len(m) PROVE m[i] \in BackUnit /\ m[i].type = t OBVIOUS
  <2>1. m[i] \in BackUnit BY <1>1, ElementOfSeq
  <2>2. Len(m) = (IF t \in Long THEN 2 ELSE 1) BY MessageIs
  <2>3. i \in 1 .. (IF t \in Long THEN 2 ELSE 1) BY <2>2
  <2>4. m[i].type = t BY <2>3 DEF Message
  <2> QED BY <2>1, <2>4
<1> HIDE DEF m
<1>3. t = "A" => SetOf(m) \cap Substance = {} BY <1>2 DEF SetOf, Substance
<1>4. t # "A" => SetOf(m) \subseteq Substance BY <1>2 DEF SetOf, Substance, BackUnit, BackTypes
<1>5. t = "A" => Only(m, Substance) = << >> BY <1>1, <1>3, OnlyNone
<1>6. t # "A" => Only(m, Substance) = m BY <1>1, <1>4, OnlyAll
<1> QED BY <1>5, <1>6 DEF m

\* The substance of units of the backend, part by part.
LEMMA SaidConcat ==
    ASSUME NEW a \in Replied, NEW b \in Replied
    PROVE  Only(a \o b, Substance) = Only(a, Substance) \o Only(b, Substance)
BY OnlyConcat DEF Replied

LEMMA SaidType ==
    ASSUME NEW a \in Replied
    PROVE  Only(a, Substance) \in Replied /\ SetOf(Only(a, Substance)) = SetOf(a) \cap Substance
BY OnlyType, SetOfOnly DEF Replied

\* Concatenation of short sequences.
LEMMA Joined ==
    ASSUME NEW U, NEW x \in U, NEW y \in U, NEW z \in U
    PROVE  <<x>> \o <<y>> = <<x, y>> /\ <<x, y>> \o <<z>> = <<x, y, z>>
<1>1. /\ <<x>> \in Seq(U) /\ <<y>> \in Seq(U) /\ <<z>> \in Seq(U) /\ <<x, y>> \in Seq(U)
      /\ <<x, y, z>> \in Seq(U)
  OBVIOUS
<1>2. ASSUME NEW s \in Seq(U), NEW v \in U
      PROVE  /\ s \o <<v>> \in Seq(U) /\ Len(s \o <<v>>) = Len(s) + 1 /\ Len(s) \in Nat
             /\ \A i \in 1 .. Len(s) : (s \o <<v>>)[i] = s[i]
             /\ (s \o <<v>>)[Len(s) + 1] = v
  <2> DEFINE t == <<v>>
  <2>1. t \in Seq(U) /\ Len(t) = 1 /\ t[1] = v OBVIOUS
  <2> HIDE DEF t
  <2>2. /\ s \o t \in Seq(U) /\ Len(s \o t) = Len(s) + Len(t)
        /\ \A i \in 1 .. Len(s) : (s \o t)[i] = s[i]
        /\ \A i \in 1 .. Len(t) : (s \o t)[Len(s) + i] = t[i]
    BY <2>1, ConcatProperties, LenProperties
  <2>3. Len(s) \in Nat BY LenProperties
  <2>4. (s \o t)[Len(s) + 1] = v BY <2>1, <2>2
  <2> QED BY <2>1, <2>2, <2>3, <2>4 DEF t
<1>3. <<x>> \o <<y>> = <<x, y>>
  <2> DEFINE a == <<x>>
             c == a \o <<y>>
             d == <<x, y>>
  <2>1. Len(a) = 1 /\ a[1] = x /\ a \in Seq(U) BY <1>1
  <2>2. Len(d) = 2 /\ d[1] = x /\ d[2] = y /\ d \in Seq(U) BY <1>1
  <2>3. \A i \in 1 .. 2 : i = 1 \/ i = 2 OBVIOUS
  <2> HIDE DEF a, d
  <2>4. c \in Seq(U) /\ Len(c) = 2 /\ c[1] = x /\ c[2] = y
    <3>1. /\ c \in Seq(U) /\ Len(c) = Len(a) + 1 /\ (\A i \in 1 .. Len(a) : c[i] = a[i])
          /\ c[Len(a) + 1] = y
      BY <1>2, <2>1
    <3> HIDE DEF c
    <3> QED BY <2>1, <3>1
  <2> HIDE DEF c
  <2>5. c = d BY <2>2, <2>3, <2>4, SeqEqual
  <2> QED BY <2>5 DEF a, c, d
<1>4. <<x, y>> \o <<z>> = <<x, y, z>>
  <2> DEFINE a == <<x, y>>
             c == a \o <<z>>
             d == <<x, y, z>>
  <2>1. Len(a) = 2 /\ a[1] = x /\ a[2] = y /\ a \in Seq(U) BY <1>1
  <2>2. Len(d) = 3 /\ d[1] = x /\ d[2] = y /\ d[3] = z /\ d \in Seq(U) BY <1>1
  <2>3. \A i \in 1 .. 3 : i = 1 \/ i = 2 \/ i = 3 OBVIOUS
  <2> HIDE DEF a, d
  <2>4. c \in Seq(U) /\ Len(c) = 3 /\ c[1] = x /\ c[2] = y /\ c[3] = z
    <3>1. /\ c \in Seq(U) /\ Len(c) = Len(a) + 1 /\ (\A i \in 1 .. Len(a) : c[i] = a[i])
          /\ c[Len(a) + 1] = z
      BY <1>2, <2>1
    <3> HIDE DEF c
    <3> QED BY <2>1, <3>1
  <2> HIDE DEF c
  <2>5. c = d BY <2>2, <2>3, <2>4, SeqEqual
  <2> QED BY <2>5 DEF a, c, d
<1> QED BY <1>3, <1>4

\* What the replies look like.
LEMMA ReplyIs ==
    ASSUME NEW kind \in Kinds, NEW no \in Nat, NEW r \in Replies(kind, no)
    PROVE  \/ kind = "0" /\ r = <<Unit("R", no, 1), Unit("Z", no, 1)>>
           \/ kind = "Q" /\ r = <<Unit("C", no, 1), Unit("C", no, 2), Unit("Z", no, 1)>>
           \/ kind = "Q" /\ r = <<Unit("E", no, 1), Unit("Z", no, 1)>>
           \/ kind = "P" /\ r = <<Unit("1", no, 1)>>
           \/ kind = "P" /\ r = <<Unit("E", no, 1)>>
           \/ kind = "S" /\ r = <<Unit("Z", no, 1)>>
<1>1. /\ Message("R", no) = <<Unit("R", no, 1)>> /\ Message("Z", no) = <<Unit("Z", no, 1)>>
      /\ Message("E", no) = <<Unit("E", no, 1)>> /\ Message("1", no) = <<Unit("1", no, 1)>>
      /\ Message("C", no) = <<Unit("C", no, 1), Unit("C", no, 2)>>
  BY MessageIs DEF Long
<1>2. \A x, y, z \in BackUnit : <<x>> \o <<y>> = <<x, y>> /\ <<x, y>> \o <<z>> = <<x, y, z>>
  BY Joined
<1>u. \A t \in BackTypes, p \in {1, 2} : Unit(t, no, p) \in BackUnit BY DEF Unit, BackUnit
<1>3. CASE kind = "0" BY <1>1, <1>2, <1>u, <1>3 DEF Replies, BackTypes
<1>4. CASE kind = "Q"
  <2>1. PICK v \in {"C", "E"} : r = Message(v, no) \o Message("Z", no) BY <1>4 DEF Replies
  <2>u. /\ Unit("C", no, 1) \in BackUnit /\ Unit("C", no, 2) \in BackUnit
        /\ Unit("E", no, 1) \in BackUnit /\ Unit("Z", no, 1) \in BackUnit
    BY <1>u DEF BackTypes
  <2>2. CASE v = "C"
    <3>1. r = <<Unit("C", no, 1), Unit("C", no, 2)>> \o <<Unit("Z", no, 1)>> BY <1>1, <2>1, <2>2
    <3>2. r = <<Unit("C", no, 1), Unit("C", no, 2), Unit("Z", no, 1)>>
      BY <1>2, <2>u, <3>1, Zenon
    <3> QED BY <1>4, <3>2
  <2>3. CASE v = "E"
    <3>1. r = <<Unit("E", no, 1)>> \o <<Unit("Z", no, 1)>> BY <1>1, <2>1, <2>3
    <3>2. r = <<Unit("E", no, 1), Unit("Z", no, 1)>> BY <1>2, <2>u, <3>1, Zenon
    <3> QED BY <1>4, <3>2
  <2> QED BY <2>2, <2>3
<1>5. CASE kind = "P" BY <1>1, <1>5 DEF Replies
<1>6. CASE kind = "S" BY <1>1, <1>6 DEF Replies
<1> QED BY <1>3, <1>4, <1>5, <1>6 DEF Kinds

\* A reply ends once, at its last unit, and all of it is of its message.
LEMMA ReplyShape ==
    ASSUME NEW kind \in Kinds, NEW no \in Nat, NEW r \in Replies(kind, no)
    PROVE  /\ r \in Replied /\ Len(r) \in Nat /\ Len(r) > 0
           /\ \A i \in 1 .. Len(r) - 1 : r[i].type \notin EndsReplyTo(kind)
           /\ \A i \in 1 .. Len(r) : r[i].no = no
<1>0. \A t \in BackTypes, p \in {1, 2} :
         Unit(t, no, p) \in BackUnit /\ Unit(t, no, p).type = t /\ Unit(t, no, p).no = no
  BY DEF Unit, BackUnit
<1> DEFINE R == Unit("R", no, 1)
           Z == Unit("Z", no, 1)
           C == Unit("C", no, 1)
           D == Unit("C", no, 2)
           E == Unit("E", no, 1)
           One == Unit("1", no, 1)
<1>1. /\ R \in BackUnit /\ R.type = "R" /\ Z \in BackUnit /\ C \in BackUnit /\ C.type = "C"
      /\ D \in BackUnit /\ D.type = "C" /\ E \in BackUnit /\ E.type = "E" /\ One \in BackUnit
      /\ R.no = no /\ Z.no = no /\ C.no = no /\ D.no = no /\ E.no = no /\ One.no = no
  BY <1>0 DEF BackTypes
<1>2. \/ kind = "0" /\ r = <<R, Z>>
      \/ kind = "Q" /\ r = <<C, D, Z>>
      \/ kind = "Q" /\ r = <<E, Z>>
      \/ kind = "P" /\ r = <<One>>
      \/ kind = "P" /\ r = <<E>>
      \/ kind = "S" /\ r = <<Z>>
  BY ReplyIs
<1> HIDE DEF R, Z, C, D, E, One
<1>3. CASE kind = "0" /\ r = <<R, Z>>
  <2>1. r \in Seq(BackUnit) /\ Len(r) = 2 /\ r[1] = R /\ r[2] = Z BY <1>1, <1>3
  <2>2. \A i \in 1 .. 1 : r[i] = R BY <2>1
  <2>3. \A i \in 1 .. 2 : r[i] = R \/ r[i] = Z BY <2>1
  <2> QED BY <1>1, <1>3, <2>1, <2>2, <2>3 DEF Replied, EndsReplyTo
<1>4. CASE kind = "Q" /\ r = <<C, D, Z>>
  <2>1. r \in Seq(BackUnit) /\ Len(r) = 3 /\ r[1] = C /\ r[2] = D /\ r[3] = Z BY <1>1, <1>4
  <2>2. \A i \in 1 .. 2 : r[i] = C \/ r[i] = D BY <2>1
  <2>3. \A i \in 1 .. 3 : r[i] = C \/ r[i] = D \/ r[i] = Z BY <2>1
  <2> QED BY <1>1, <1>4, <2>1, <2>2, <2>3 DEF Replied, EndsReplyTo
<1>5. CASE kind = "Q" /\ r = <<E, Z>>
  <2>1. r \in Seq(BackUnit) /\ Len(r) = 2 /\ r[1] = E /\ r[2] = Z BY <1>1, <1>5
  <2>2. \A i \in 1 .. 1 : r[i] = E BY <2>1
  <2>3. \A i \in 1 .. 2 : r[i] = E \/ r[i] = Z BY <2>1
  <2> QED BY <1>1, <1>5, <2>1, <2>2, <2>3 DEF Replied, EndsReplyTo
<1>6. CASE r \in {<<One>>, <<E>>, <<Z>>}
  <2>1. \A x \in BackUnit : <<x>> \in Seq(BackUnit) /\ Len(<<x>>) = 1 /\ <<x>>[1] = x OBVIOUS
  <2>2. r \in Seq(BackUnit) /\ Len(r) = 1 /\ r[1].no = no BY <1>1, <1>6, <2>1
  <2> QED BY <2>2 DEF Replied
<1> QED BY <1>2, <1>3, <1>4, <1>5, <1>6

\* A first part of what a reply says that holds its end is all of it.
LEMMA TakesAll ==
    ASSUME NEW kind \in Kinds, NEW no \in Nat, NEW x \in Replied, NEW y \in Replied,
           PartOf(x \o y, kind, no), NEW u \in SetOf(x), u.type \in EndsReplyTo(kind)
    PROVE  x \in Replies(kind, no) /\ y = << >>
<1>0. PICK r \in Replies(kind, no) : \E j \in 0 .. Len(r) : x \o y = SubSeq(r, 1, j) BY DEF PartOf
<1>1. PICK k \in 0 .. Len(r) : x \o y = SubSeq(r, 1, k) BY <1>0
<1>2. r \in Replied /\ Len(r) \in Nat /\ \A i \in 1 .. Len(r) - 1 : r[i].type \notin EndsReplyTo(kind)
  BY ReplyShape
<1>3. Len(SubSeq(r, 1, k)) = k /\ \A i \in 1 .. k : SubSeq(r, 1, k)[i] = r[i]
  BY <1>2, Halves DEF Replied
<1> DEFINE z == x \o y
<1>4. /\ Len(x) \in Nat /\ Len(y) \in Nat /\ Len(z) = Len(x) + Len(y) /\ \A i \in 1 .. Len(x) : z[i] = x[i]
  BY ConcatProperties, LenProperties DEF Replied
<1>5. Len(z) = k /\ \A i \in 1 .. k : z[i] = r[i] BY <1>1, <1>3
<1>a. z = SubSeq(r, 1, k) BY <1>1
<1>b. y = << >> => z = x BY ConcatEmptySeq DEF Replied
<1> HIDE DEF z
<1>6. PICK i \in 1 .. Len(x) : u = x[i] BY DEF SetOf
<1>7. i \in 1 .. k /\ r[i].type \in EndsReplyTo(kind) BY <1>4, <1>5, <1>6
<1>8. ~ i \in 1 .. Len(r) - 1 BY <1>2, <1>7
<1>9. k = Len(r) /\ Len(y) = 0 BY <1>2, <1>4, <1>5, <1>6, <1>7, <1>8
<1>10. y = << >> BY <1>9, EmptySeq DEF Replied
<1>11. SubSeq(r, 1, k) = r BY <1>2, <1>9, SubSeqFull DEF Replied
<1> QED BY <1>a, <1>b, <1>10, <1>11

\* A reply cut shorter is one cut short.
LEMMA PartOfPart ==
    ASSUME NEW kind \in Kinds, NEW no \in Nat, NEW x \in Replied, NEW y \in Replied,
           PartOf(x \o y, kind, no)
    PROVE  PartOf(x, kind, no)
<1>0. PICK r \in Replies(kind, no) : \E j \in 0 .. Len(r) : x \o y = SubSeq(r, 1, j) BY DEF PartOf
<1>1. PICK k \in 0 .. Len(r) : x \o y = SubSeq(r, 1, k) BY <1>0
<1>2. r \in Replied /\ Len(r) \in Nat BY ReplyShape
<1>3. Len(SubSeq(r, 1, k)) = k /\ \A i \in 1 .. k : SubSeq(r, 1, k)[i] = r[i]
  BY <1>2, Halves DEF Replied
<1> DEFINE z == x \o y
<1>4. /\ Len(x) \in Nat /\ Len(y) \in Nat /\ Len(z) = Len(x) + Len(y) /\ \A i \in 1 .. Len(x) : z[i] = x[i]
  BY ConcatProperties, LenProperties DEF Replied
<1>5. Len(z) = k /\ \A i \in 1 .. k : z[i] = r[i] BY <1>1, <1>3
<1> HIDE DEF z
<1> DEFINE l == Len(x)
           w == SubSeq(r, 1, l)
<1>6. l \in 0 .. Len(r) /\ \A i \in 1 .. l : i \in 1 .. k BY <1>2, <1>4, <1>5
<1>7. w \in Seq(BackUnit) /\ Len(w) = l /\ \A i \in 1 .. l : w[i] = r[i]
  <2> HIDE DEF l
  <2> QED BY <1>2, <1>6, Halves DEF Replied
<1>8. x \in Seq(BackUnit) /\ \A i \in 1 .. Len(x) : x[i] = w[i] BY <1>4, <1>5, <1>6, <1>7 DEF Replied
<1>9. x = w
  <2> HIDE DEF w
  <2> QED BY <1>7, <1>8, SeqEqual
<1> QED BY <1>6, <1>9 DEF PartOf

\* Nothing is a reply cut short, and so is all of it.
LEMMA PartOfAll ==
    ASSUME NEW kind \in Kinds, NEW no \in Nat
    PROVE  /\ PartOf(<< >>, kind, no)
           /\ \A r \in Replies(kind, no) : PartOf(r, kind, no)
<1>1. ASSUME NEW r \in Replies(kind, no)
      PROVE  PartOf(r, kind, no) /\ PartOf(<< >>, kind, no)
  <2>1. r \in Seq(BackUnit) /\ Len(r) \in Nat BY ReplyShape DEF Replied
  <2>2. SubSeq(r, 1, Len(r)) = r BY <2>1, SubSeqFull
  <2>3. SubSeq(r, 1, 0) = << >>
    <3>1. 0 \in 0 .. Len(r) BY <2>1
    <3>2. SubSeq(r, 1, 0) \in Seq(BackUnit) /\ Len(SubSeq(r, 1, 0)) = 0 BY <2>1, <3>1, Halves
    <3> QED BY <3>2, EmptySeq
  <2>4. 0 \in 0 .. Len(r) /\ Len(r) \in 0 .. Len(r) BY <2>1
  <2> QED BY <2>2, <2>3, <2>4, Zenon DEF PartOf
<1>2. Replies(kind, no) # {}
  <2>1. CASE kind = "0" BY <2>1 DEF Replies
  <2>2. CASE kind = "Q" BY <2>2 DEF Replies
  <2>3. CASE kind = "P" BY <2>3 DEF Replies
  <2>4. CASE kind = "S" BY <2>4 DEF Replies
  <2> QED BY <2>1, <2>2, <2>3, <2>4 DEF Kinds
<1> QED BY <1>1, <1>2

\* What is said of a reply is of its message.
LEMMA PartNumbers ==
    ASSUME NEW kind \in Kinds, NEW no \in Nat, NEW x \in Replied, PartOf(x, kind, no)
    PROVE  \A u \in SetOf(x) : u.no = no
<1>0. PICK r \in Replies(kind, no) : \E j \in 0 .. Len(r) : x = SubSeq(r, 1, j) BY DEF PartOf
<1>1. PICK k \in 0 .. Len(r) : x = SubSeq(r, 1, k) BY <1>0
<1>2. r \in Replied /\ Len(r) \in Nat /\ \A i \in 1 .. Len(r) : r[i].no = no BY ReplyShape
<1>3. Len(x) = k /\ \A i \in 1 .. k : x[i] = r[i] BY <1>1, <1>2, Halves DEF Replied
<1> QED BY <1>2, <1>3 DEF SetOf

-----------------------------------------------------------------------------
(* One exchange at a time: the steps *)

\* The inductive invariant of one exchange at a time.
Sound == Core /\ Turns /\ Talk /\ OwnReplies

\* A step that moves nothing of substance.
LEMMA SoundQuiet ==
    ASSUME Sound, Core', UNCHANGED <<toGuest, buffered, held, ex, inFlight, issued, mode,
                                     partial, closed>>,
           guest' = guest \/ (guest = "up" /\ guest' = "stuck"),
           closer' = closer, Said' = Said
    PROVE  Sound'
<1>2. \A c \in Callers : Busy(c)' = Busy(c) /\ Forward(c)' = Forward(c) BY DEF Busy, Forward
<1>3. Turns' BY <1>2 DEF Sound, Turns, Callers
<1>4. (guest' = "gone") = (guest = "gone") OBVIOUS
<1>5. Scanned' = Scanned BY DEF Scanned
<1>6. Live' = Live
  <2>1. /\ \A kind, no, F : Unanswered(kind, no, F)' = Unanswered(kind, no, F)
        /\ \A kind, no, F : Answered(kind, no, F)' = Answered(kind, no, F)
        /\ Resting' = Resting
    BY DEF Unanswered, Answered, Resting
  <2> QED BY <1>2, <1>4, <2>1 DEF Live
<1>7. closed => Dead' = Dead
  <2>1. \A last : Stale(last)' = Stale(last) BY DEF Stale
  <2> QED BY <1>2, <1>4, <2>1 DEF Dead
<1>8. Talk' BY <1>5, <1>6, <1>7 DEF Sound, Talk
<1>9. OwnReplies' BY DEF Sound, OwnReplies
<1> QED BY <1>3, <1>8, <1>9 DEF Sound

\* Once close() is called nothing is claimed of what goes on.
LEMMA SoundClosing ==
    ASSUME Sound, Core', UNCHANGED <<ex, inFlight, issued>>, closer' # "idle"
    PROVE  Sound'
<1>1. \A c \in Callers : Busy(c)' = Busy(c) BY DEF Busy
<1>2. Turns' BY <1>1 DEF Sound, Turns, Callers
<1> QED BY <1>2 DEF Sound, Talk, OwnReplies

\* What a step of a caller may do to its exchange.
BusyPhases == {"sending", "scanning", "reading"}
Fits(c, e, last) ==
    /\ e \in Exchange /\ e.no <= last
    /\ e.phase \in BusyPhases => /\ e.no = last /\ last > 0
                                 /\ e.kind = "P" => c = "query" /\ e.todo = <<"S">>
                                 /\ \A d \in Callers \ {c} : ~ Busy(d)
    /\ e.phase # "sending" => e.unsent = << >>
    /\ e.phase # "reading" => e.scanned = 0
    /\ c = "raw" => e.phase # "called" /\ e.todo = << >>

\* A step of one caller keeps the turns when its exchange fits.
LEMMA TurnsSet ==
    ASSUME Typed, Turns, NEW c \in Callers, NEW e, Fits(c, e, issued'), ex' = [ex EXCEPT ![c] = e],
           \/ issued' = issued
           \/ issued' = issued + 1 /\ e.phase \in BusyPhases,
           inFlight' <=> e.phase \in BusyPhases \/ \E d \in Callers \ {c} : Busy(d)
    PROVE  Turns' /\ ex'[c] = e /\ \A d \in Callers \ {c} : ex'[d] = ex[d] /\ Busy(d)' = Busy(d)
<1>1. ex'[c] = e /\ \A d \in Callers \ {c} : ex'[d] = ex[d] BY DEF Typed
<1>2. \A d \in Callers \ {c} : Busy(d)' = Busy(d) BY <1>1 DEF Busy
<1>3. Busy(c)' <=> e.phase \in BusyPhases BY <1>1 DEF Busy, BusyPhases
<1>4. issued \in Nat /\ \A d \in Callers : ex[d].no \in Nat BY DEF Typed, Exchange
<1>5. (~ (Busy("query") /\ Busy("raw")))'
  <2>1. ~ (Busy("query") /\ Busy("raw")) BY DEF Turns
  <2>2. CASE e.phase \in BusyPhases
    <3>1. \A d \in Callers \ {c} : ~ Busy(d)' BY <1>2, <2>2 DEF Fits
    <3> QED BY <3>1 DEF Callers
  <2>3. CASE e.phase \notin BusyPhases
    <3>1. ~ Busy(c)' BY <1>3, <2>3
    <3> QED BY <3>1 DEF Callers
  <2> QED BY <2>2, <2>3
<1>6. (inFlight <=> \E d \in Callers : Busy(d))' BY <1>2, <1>3
<1>7. ASSUME NEW d \in Callers
      PROVE  (/\ ex[d].no <= issued
              /\ Busy(d) => /\ ex[d].no = issued /\ issued > 0
                            /\ ex[d].kind = "P" => d = "query" /\ ex[d].todo = <<"S">>
              /\ ex[d].phase # "sending" => ex[d].unsent = << >>
              /\ ex[d].phase # "reading" => ex[d].scanned = 0)'
  <2>1. CASE d = c BY <1>1, <1>3, <2>1 DEF Fits
  <2>2. CASE d # c
    <3>1. ex'[d] = ex[d] /\ Busy(d)' = Busy(d) BY <1>1, <1>2, <2>2
    <3>2. /\ ex[d].no <= issued
          /\ Busy(d) => /\ ex[d].no = issued /\ issued > 0
                        /\ ex[d].kind = "P" => d = "query" /\ ex[d].todo = <<"S">>
          /\ ex[d].phase # "sending" => ex[d].unsent = << >>
          /\ ex[d].phase # "reading" => ex[d].scanned = 0
      BY DEF Turns
    <3>3. Busy(d) => issued' = issued BY <2>2 DEF Fits
    <3>4. ex[d].no <= issued' BY <1>4, <3>2
    <3> QED BY <3>1, <3>2, <3>3, <3>4
  <2> QED BY <2>1, <2>2
<1>8. (ex["raw"].phase # "called" /\ ex["raw"].todo = << >>)'
  <2>1. CASE c = "raw" BY <1>1, <2>1 DEF Fits
  <2>2. CASE c # "raw" BY <1>1, <2>2 DEF Turns, Callers
  <2> QED BY <2>1, <2>2
<1> QED BY <1>1, <1>2, <1>5, <1>6, <1>7, <1>8 DEF Turns

\* The message goes into an idle session.
LEMMA SoundBegin ==
    ASSUME Sound, Core', NEW c \in Callers, NEW kind \in Kinds, NEW sync \in BOOLEAN,
           NEW todo \in Todos, Begin(c, kind, sync, todo), \A d \in Callers : ~ Busy(d),
           kind = "P" => c = "query" /\ todo = <<"S">>, c = "raw" => todo = << >>,
           closer = "idle" /\ ~ closed /\ guest # "gone" /\ mode = "skip" => kind = "S"
    PROVE  Sound'
<1>a. PICK no : no = issued + 1 OBVIOUS
<1> DEFINE units == Outgoing(kind, no)
           n == Smaller(Room, Len(units))
           e == [NoExchange EXCEPT
                   !.phase = IF n = Len(units) THEN "scanning" ELSE "sending",
                   !.kind = kind, !.no = no, !.sync = sync,
                   !.unsent = After(units, n), !.todo = todo]
<1>1. /\ ex' = [ex EXCEPT ![c] = e] /\ inFlight' = TRUE /\ issued' = no
      /\ toGuest' = toGuest \o SubSeq(units, 1, n)
      /\ UNCHANGED <<wire, buffered, ready, delivered, handed, life, backend>>
  BY <1>a DEF Begin
<1>2. UNCHANGED <<wire, buffered, closed, closer, guest, mode, partial, held, out>>
  BY <1>1 DEF life, backend
<1>3. issued \in Nat /\ no \in Nat /\ no > 0 /\ toGuest \in Asked /\ Len(toGuest) <= InRing
  BY <1>a DEF Sound, Core, Typed
<1>4. units \in Asked BY <1>3, OutgoingFront
<1>5. /\ After(units, n) \in Asked /\ (toGuest \o SubSeq(units, 1, n)) \o After(units, n) = toGuest \o units
      /\ n = Len(units) => After(units, n) = << >>
  <2> HIDE DEF units
  <2> QED BY <1>3, <1>4, Written DEF Room
<1>6. /\ e \in Exchange /\ e.phase \in {"scanning", "sending"} /\ e.kind = kind /\ e.no = no
      /\ e.unsent = After(units, n) /\ e.todo = todo /\ e.scanned = 0 /\ e.reply = << >>
      /\ e.phase # "sending" => e.unsent = << >>
  <2> DEFINE a == After(units, n)
             full == n = Len(units)
  <2>1. a \in Asked /\ (full => a = << >>) /\ << >> \in Replied BY <1>5, EmptyBack
  <2> HIDE DEF a, full, units
  <2> QED BY <1>3, <2>1 DEF NoExchange, Exchange, a, full
<1> HIDE DEF e
<1>7. Fits(c, e, issued') BY <1>1, <1>3, <1>6 DEF Fits, BusyPhases
<1>8. Turns' /\ ex'[c] = e /\ \A d \in Callers \ {c} : ex'[d] = ex[d] /\ Busy(d)' = Busy(d)
  BY <1>1, <1>6, <1>7, <1>a, TurnsSet DEF Sound, Core, BusyPhases
<1>9. Busy(c)' /\ \A d \in Callers : Busy(d)' <=> d = c BY <1>6, <1>8 DEF Busy
<1>10. Coming' = Coming /\ Said' = Said BY <1>2 DEF Coming, Said
<1>11. Scanned'
  <2>1. \A d \in Callers : ex'[d].phase # "reading"
    <3>1. \A d \in Callers : ex[d].phase # "reading" BY DEF Busy
    <3> QED BY <1>6, <1>8, <3>1
  <2> QED BY <2>1 DEF Scanned
<1>12. OwnReplies'
  <2>1. ex'[c].reply = << >> BY <1>6, <1>8
  <2> QED BY <1>2, <1>8, <2>1 DEF Sound, OwnReplies
<1>13. ASSUME closer = "idle", closed PROVE Dead'
  <2>1. guest = "gone" /\ Stale(issued) BY <1>13 DEF Sound, Talk, Dead
  <2>2. Stale(issued') /\ Stale(issued' - 1)
    <3>1. issued' - 1 = issued /\ 1 .. issued \subseteq 1 .. issued' BY <1>1, <1>3, <1>a
    <3> QED BY <2>1, <3>1 DEF Stale
  <2>3. Stale(issued)' /\ Stale(issued - 1)' BY <1>10, <2>2 DEF Stale
  <2> QED BY <1>2, <2>1, <2>3 DEF Dead
<1>14. ASSUME closer = "idle", ~ closed PROVE Live'
  <2>1. /\ Said = << >> /\ held = << >>
        /\ guest # "gone" => Resting
    BY <1>14 DEF Sound, Talk, Live
  <2>2. ex'[c].kind = kind /\ ex'[c].no = no BY <1>6, <1>8
  <2>3. CASE guest = "gone"
    <3>1. PartOf(<< >>, kind, no) BY <1>3, PartOfAll
    <3>2. PartOf(Said, ex[c].kind, ex[c].no)' BY <1>10, <2>1, <2>2, <3>1 DEF PartOf
    <3> QED BY <1>2, <1>9, <2>3, <3>2 DEF Live
  <2>4. CASE guest # "gone"
    <3>1. Resting /\ (mode = "skip" => kind = "S") BY <1>14, <2>1, <2>4
    <3>2. Forward(c)' = toGuest \o units BY <1>1, <1>5, <1>6, <1>8 DEF Forward
    <3>b. PICK F : F = toGuest \o units OBVIOUS
    <3>3. Unanswered(kind, no, F)'
      <4>1. partial' = 0 /\ held' = << >> /\ Said' = << >> /\ mode' = mode /\ issued' = no
        BY <1>1, <1>2, <1>10, <2>1, <3>1 DEF Resting
      <4>2. CASE toGuest = << >>
        <5>1. toGuest \o units = units BY <1>4, <4>2, ConcatEmptySeq DEF Asked
        <5>2. units = (IF kind = "P" THEN Message("P", no) \o Message("H", no) ELSE Message(kind, no))
          BY DEF Outgoing, SelfFlushing
        <5> HIDE DEF units
        <5>3. kind \in {"0", "S"} => units = Message(kind, no) BY <5>2
        <5>4. kind = "Q" => units = Message("Q", no) BY <5>2
        <5>5. kind = "P" => units = Message("P", no) \o Message("H", no) BY <5>2
        <5>6. kind \in {"0", "S"} \/ (kind = "Q" /\ mode # "skip") \/ (kind = "P" /\ mode # "skip")
          BY <3>1 DEF Kinds
        <5> QED BY <3>b, <4>1, <5>1, <5>3, <5>4, <5>5, <5>6 DEF Unanswered
      <4>3. CASE toGuest # << >>
        <5>1. PICK k \in 0 .. issued : toGuest = Message("H", k) BY <3>1, <4>3 DEF Resting
        <5>2. mode = "skip" /\ kind = "S" BY <3>1, <4>3 DEF Resting
        <5>3. units = Message("S", no) BY <5>2 DEF Outgoing, SelfFlushing
        <5>4. k \in 0 .. issued' BY <1>1, <1>3, <1>a
        <5>5. toGuest \o units = Message("H", k) \o Message("S", no) BY <5>1, <5>3
        <5> HIDE DEF units
        <5> QED BY <3>b, <4>1, <5>2, <5>4, <5>5 DEF Unanswered
      <4> QED BY <4>2, <4>3
    <3>4. Unanswered(ex[c].kind, ex[c].no, Forward(c))' BY <2>2, <3>2, <3>3, <3>b DEF Unanswered
    <3> QED BY <1>2, <1>9, <2>4, <3>4 DEF Live
  <2> QED BY <2>3, <2>4
<1>15. Talk' BY <1>2, <1>11, <1>13, <1>14 DEF Talk
<1> QED BY <1>8, <1>12, <1>15 DEF Sound

\* Each step keeps Sound: first those that begin an exchange.
LEMMA SoundNextMessage == ASSUME ~ overlapped', Sound, Core', NextMessage PROVE Sound'
<1> DEFINE t == ex["query"].todo
<1>1. /\ ex["query"].phase = "called" /\ ~ Busy("raw")
      /\ Begin("query", Head(t), FALSE, Tail(t))
  BY DEF NextMessage, Begin, Busy, Callers
<1>2. "query" \in Callers /\ t \in Todos /\ t # << >>
  BY <1>1 DEF Sound, Core, Typed, Callers, Exchange
<1>3. Head(t) \in Kinds /\ Tail(t) \in Todos /\ (Head(t) = "P" => Tail(t) = <<"S">>)
  BY <1>2, TodoIs DEF Todos
<1>4. \A d \in Callers : ~ Busy(d) BY <1>1 DEF Busy, Callers
<1>5. closer = "idle" /\ ~ closed /\ guest # "gone" /\ mode = "skip" => Head(t) = "S"
  <2>1. closer = "idle" /\ ~ closed /\ guest # "gone" /\ mode = "skip" => t = <<"S">>
    BY <1>4 DEF Sound, Talk, Live, Resting
  <2> QED BY <1>2, <2>1, TodoIs
<1> QED BY <1>1, <1>2, <1>3, <1>4, <1>5, SoundBegin

LEMMA SoundCallRawStream == ASSUME ~ overlapped', Sound, Core', CallRawStream PROVE Sound'
<1>1. /\ ex["raw"].phase = "idle" /\ ex["query"].phase = "idle"
      /\ Begin("raw", "Q", RawBlocks(inFlight), << >>)
  BY DEF CallRawStream, Begin, Callers
<1>2. "raw" \in Callers /\ "Q" \in Kinds /\ << >> \in Todos BY DEF Callers, Kinds, Todos
<1>3. RawBlocks(inFlight) \in BOOLEAN BY SessionAssumption DEF RawBlocks
<1>4. \A d \in Callers : ~ Busy(d) BY <1>1 DEF Busy, Callers
<1>5. ~ (closer = "idle" /\ ~ closed /\ guest # "gone" /\ mode = "skip")
  BY <1>1, <1>4 DEF Sound, Talk, Live, Resting
<1> QED BY <1>1, <1>2, <1>3, <1>4, <1>5, SoundBegin

LEMMA SoundCallQuery ==
    ASSUME Sound, Core', NEW kind \in {"Q", "P"}, CallQuery(kind)
    PROVE  Sound'
<1> DEFINE e == [NoExchange EXCEPT !.phase = "called", !.todo = <<kind, "S">>]
<1>1. /\ ex' = [ex EXCEPT !["query"] = e] /\ ex["query"].phase = "idle" /\ ~ closed
      /\ UNCHANGED <<toGuest, wire, buffered, inFlight, issued, life, backend>>
  BY DEF CallQuery
<1>2. UNCHANGED <<closed, closer, guest, mode, partial, held, out>> BY <1>1 DEF life, backend
<1>3. <<kind, "S">> \in Todos BY DEF Todos
<1>4. /\ e \in Exchange /\ e.phase = "called" /\ e.no = 0 /\ e.unsent = << >> /\ e.scanned = 0
      /\ e.reply = << >>
  BY <1>3, EmptyAsked, EmptyBack DEF NoExchange, Exchange, Kinds
<1> HIDE DEF e
<1>5. "query" \in Callers /\ issued \in Nat BY DEF Callers, Sound, Core, Typed
<1>6. Fits("query", e, issued') BY <1>1, <1>4, <1>5 DEF Fits, BusyPhases
<1>7. ~ Busy("query") /\ (inFlight <=> \E d \in Callers : Busy(d)) BY <1>1 DEF Busy, Sound, Turns
<1>8. Turns' /\ ex'["query"] = e
      /\ \A d \in Callers \ {"query"} : ex'[d] = ex[d] /\ Busy(d)' = Busy(d)
  BY <1>1, <1>4, <1>5, <1>6, <1>7, TurnsSet DEF Sound, Core, BusyPhases
<1>9. \A d \in Callers : Busy(d)' = Busy(d)
  <2>1. ~ Busy("query")' BY <1>4, <1>8 DEF Busy
  <2>2. Busy("query")' = Busy("query") BY <1>7, <2>1 DEF Busy
  <2> QED BY <1>8, <2>2
<1>10. \A d \in Callers : Busy(d) => ex'[d] = ex[d] BY <1>7, <1>8
<1>11. Said' = Said BY <1>1, <1>2 DEF Said, Coming
<1>12. Scanned' = Scanned
  <2>1. \A d \in Callers : ex'[d].phase = "reading" <=> ex[d].phase = "reading"
    BY <1>1, <1>4, <1>8
  <2>2. \A d \in Callers : ex[d].phase = "reading" => ex'[d] = ex[d] BY <1>10 DEF Busy
  <2> QED BY <1>1, <2>1, <2>2 DEF Scanned
<1>13. ASSUME closer = "idle" PROVE Live'
  <2>1. Live BY <1>1, <1>13 DEF Sound, Talk
  <2>2. \A d \in Callers : Busy(d) => Forward(d)' = Forward(d) BY <1>1, <1>10 DEF Forward
  <2>3. /\ \A k, no, F : Unanswered(k, no, F)' = Unanswered(k, no, F)
        /\ \A k, no, F : Answered(k, no, F)' = Answered(k, no, F)
    BY <1>1, <1>2, <1>11 DEF Unanswered, Answered
  <2>4. ASSUME NEW c \in Callers, Busy(c)
        PROVE  (IF guest = "gone" THEN PartOf(Said, ex[c].kind, ex[c].no)
                ELSE Unanswered(ex[c].kind, ex[c].no, Forward(c)) \/ Answered(ex[c].kind, ex[c].no, Forward(c)))'
    <3>1. IF guest = "gone" THEN PartOf(Said, ex[c].kind, ex[c].no)
          ELSE Unanswered(ex[c].kind, ex[c].no, Forward(c)) \/ Answered(ex[c].kind, ex[c].no, Forward(c))
      BY <2>1, <2>4 DEF Live
    <3>2. ex'[c] = ex[c] /\ Forward(c)' = Forward(c) BY <1>10, <2>2, <2>4
    <3> QED BY <1>2, <1>11, <2>3, <3>1, <3>2
  <2>5. ASSUME \A c \in Callers : ~ Busy(c)
        PROVE  Said' = << >> /\ held' = << >> /\ (guest' # "gone" => Resting')
    <3>1. Said = << >> /\ held = << >> /\ (guest # "gone" => Resting) BY <2>1, <2>5 DEF Live
    <3> QED BY <1>1, <1>2, <1>11, <3>1 DEF Resting
  <2> QED BY <1>9, <2>4, <2>5 DEF Live
<1>14. OwnReplies'
  <2>1. \A d \in Callers : ex'[d].reply = << >> \/ ex'[d] = ex[d] BY <1>4, <1>8
  <2> QED BY <1>2, <2>1 DEF Sound, OwnReplies
<1>15. Talk' BY <1>1, <1>2, <1>12, <1>13 DEF Sound, Talk
<1> QED BY <1>8, <1>14, <1>15 DEF Sound

\* Sending moves bytes from the exchange to the ring: what is forward stays.
LEMMA SoundSend == ASSUME Sound, Core', NEW c \in Callers, Send(c) PROVE Sound'
<1> DEFINE n == Smaller(Room, Len(ex[c].unsent))
           e == [ex[c] EXCEPT !.phase = IF n = Len(ex[c].unsent) THEN "scanning" ELSE "sending",
                              !.unsent = After(ex[c].unsent, n)]
<1>1. /\ ex[c] \in Exchange /\ ex[c].unsent \in Asked /\ toGuest \in Asked /\ Len(toGuest) <= InRing
      /\ issued \in Nat
  BY DEF Sound, Core, Typed, Exchange
<1>2. /\ toGuest' = toGuest \o SubSeq(ex[c].unsent, 1, n) /\ ex[c].phase = "sending"
      /\ ex' = [ex EXCEPT ![c].phase = IF n = Len(ex[c].unsent) THEN "scanning" ELSE "sending",
                          ![c].unsent = After(ex[c].unsent, n)]
      /\ UNCHANGED <<wire, buffered, inFlight, issued, life, backend>>
  BY DEF Send
<1>3. UNCHANGED <<closed, closer, guest, mode, partial, held, out>> BY <1>2 DEF life, backend
<1>4. /\ After(ex[c].unsent, n) \in Asked
      /\ (toGuest \o SubSeq(ex[c].unsent, 1, n)) \o After(ex[c].unsent, n) = toGuest \o ex[c].unsent
      /\ n = Len(ex[c].unsent) => After(ex[c].unsent, n) = << >>
  BY <1>1, Written DEF Room
<1>5. ex' = [ex EXCEPT ![c] = e] BY <1>2 DEF Sound, Core, Typed
<1>6. /\ e \in Exchange /\ e.phase \in {"scanning", "sending"} /\ e.kind = ex[c].kind /\ e.no = ex[c].no
      /\ e.todo = ex[c].todo /\ e.scanned = ex[c].scanned /\ e.reply = ex[c].reply
      /\ e.unsent = After(ex[c].unsent, n) /\ (e.phase # "sending" => e.unsent = << >>)
  <2> DEFINE a == After(ex[c].unsent, n)
             full == n = Len(ex[c].unsent)
  <2>1. a \in Asked /\ (full => a = << >>) BY <1>4
  <2> HIDE DEF a, full
  <2> QED BY <1>1, <2>1 DEF Exchange, a, full
<1> HIDE DEF e
<1>7. Busy(c) /\ (\A d \in Callers \ {c} : ~ Busy(d)) BY <1>2 DEF Busy, Sound, Turns, Callers
<1>8. Fits(c, e, issued')
  <2>1. /\ ex[c].no <= issued /\ ex[c].no = issued /\ issued > 0 /\ ex[c].scanned = 0
        /\ ex[c].kind = "P" => c = "query" /\ ex[c].todo = <<"S">>
        /\ c = "raw" => ex[c].todo = << >>
    BY <1>2, <1>7 DEF Sound, Turns
  <2> QED BY <1>2, <1>6, <1>7, <2>1 DEF Fits, BusyPhases
<1>9. inFlight <=> \E d \in Callers : Busy(d) BY DEF Sound, Turns
<1>10. Turns' /\ ex'[c] = e /\ \A d \in Callers \ {c} : ex'[d] = ex[d] /\ Busy(d)' = Busy(d)
  BY <1>2, <1>5, <1>6, <1>7, <1>8, <1>9, TurnsSet DEF Sound, Core, BusyPhases
<1>11. Busy(c)' /\ \A d \in Callers : Busy(d)' = Busy(d) BY <1>6, <1>7, <1>10 DEF Busy
<1>12. Said' = Said BY <1>2, <1>3 DEF Said, Coming
<1>13. Scanned'
  <2>1. \A d \in Callers : ex'[d].phase # "reading"
    <3>1. \A d \in Callers \ {c} : ex[d].phase # "reading" BY <1>7 DEF Busy
    <3> QED BY <1>6, <1>10, <3>1
  <2> QED BY <2>1 DEF Scanned
<1>14. ASSUME closer = "idle", closed PROVE Dead'
  <2>1. guest = "gone" /\ Stale(issued) /\ Stale(issued - 1) BY <1>7, <1>14 DEF Sound, Talk, Dead
  <2>2. Stale(issued)' /\ Stale(issued - 1)' BY <1>2, <1>12, <2>1 DEF Stale
  <2> QED BY <1>2, <1>3, <2>1, <2>2 DEF Dead
<1>15. ASSUME closer = "idle", ~ closed PROVE Live'
  <2>1. IF guest = "gone" THEN PartOf(Said, ex[c].kind, ex[c].no)
        ELSE Unanswered(ex[c].kind, ex[c].no, Forward(c)) \/ Answered(ex[c].kind, ex[c].no, Forward(c))
    BY <1>7, <1>15 DEF Sound, Talk, Live
  <2>2. Forward(c)' = Forward(c)
    <3>1. Forward(c)' = toGuest' \o e.unsent BY <1>10 DEF Forward
    <3> QED BY <1>2, <1>4, <1>6, <3>1 DEF Forward
  <2>3. /\ \A k, no, F : Unanswered(k, no, F)' = Unanswered(k, no, F)
        /\ \A k, no, F : Answered(k, no, F)' = Answered(k, no, F)
    BY <1>2, <1>3, <1>12 DEF Unanswered, Answered
  <2>4. (IF guest = "gone" THEN PartOf(Said, ex[c].kind, ex[c].no)
         ELSE Unanswered(ex[c].kind, ex[c].no, Forward(c)) \/ Answered(ex[c].kind, ex[c].no, Forward(c)))'
    BY <1>3, <1>6, <1>10, <1>12, <2>1, <2>2, <2>3
  <2>5. \A d \in Callers : Busy(d)' => d = c BY <1>7, <1>11
  <2> QED BY <1>11, <2>4, <2>5 DEF Live
<1>16. OwnReplies'
  <2>1. \A d \in Callers : /\ ex'[d].reply = ex[d].reply /\ ex'[d].kind = ex[d].kind
                           /\ ex'[d].no = ex[d].no
    BY <1>6, <1>10
  <2> QED BY <1>3, <2>1 DEF Sound, OwnReplies
<1>17. Talk' BY <1>3, <1>13, <1>14, <1>15 DEF Talk
<1> QED BY <1>10, <1>16, <1>17 DEF Sound

\* The steps that end the pump, the session or the backend.
LEMMA SoundLife ==
    ASSUME Sound, Core',
           \/ StartPump \/ PumpReturn \/ StartClose \/ SendTerminate \/ CloseRead \/ CloseEof
           \/ GuestTraps \/ UNCHANGED vars
    PROVE  Sound'
<1>1. UNCHANGED <<ex, inFlight, issued>>
  BY DEF StartPump, PumpReturn, StartClose, SendTerminate, CloseRead, CloseEof, GuestTraps, vars, client,
         life, backend
<1>2. CASE StartClose \/ SendTerminate \/ CloseRead \/ CloseEof
  <2>1. closer' # "idle" BY <1>2 DEF StartClose, SendTerminate, CloseRead, CloseEof, life
  <2> QED BY <1>1, <2>1, SoundClosing
<1>3. CASE StartPump \/ PumpReturn \/ GuestTraps \/ UNCHANGED vars
  <2>1. /\ UNCHANGED <<toGuest, wire, buffered, out, held, mode, partial, closed, closer>>
        /\ guest' = guest \/ (guest = "up" /\ guest' = "stuck")
    BY <1>3 DEF StartPump, PumpReturn, GuestTraps, vars, client, life, backend
  <2>2. Said' = Said BY <2>1 DEF Said, Coming
  <2> QED BY <1>1, <2>1, <2>2, SoundQuiet
<1> QED BY <1>2, <1>3

\* The pump takes notifications only: what is said stays.
LEMMA SoundPumpRead == ASSUME Sound, Core', PumpRead PROVE Sound'
<1> DEFINE buf == buffered \o wire
           k == Leading(buf)
<1>1. /\ buffered' = After(buf, k) /\ wire' = << >> /\ ~ inFlight /\ ~ closed
      /\ UNCHANGED <<toGuest, ex, inFlight, issued, life, backend>>
  BY DEF PumpRead, PumpMayRead
<1>2. UNCHANGED <<closed, closer, guest, mode, partial, held, out>> BY <1>1 DEF life, backend
<1>3. out \in Replied /\ buf \in Replied /\ Coming = buf \o out BY ComingIs DEF Sound, Core, Typed
<1> HIDE DEF buf
<1>4. k \in 0 .. Len(buf) BY <1>3, LeadingCut
<1> HIDE DEF k
<1>5. /\ SubSeq(buf, 1, k) \in Replied /\ After(buf, k) \in Replied
      /\ buf = SubSeq(buf, 1, k) \o After(buf, k)
  BY <1>3, <1>4, FrontOf
<1>6. Coming' = After(buf, k) \o out
  <2>1. buffered' \o << >> = buffered' BY <1>1, <1>5, ConcatEmptySeq DEF Replied
  <2> QED BY <1>1, <1>2, <2>1 DEF Coming
<1>7. \A c \in Callers : ~ Busy(c) BY <1>1 DEF Sound, Turns
<1>8. \A c \in Callers : Busy(c)' = Busy(c) BY <1>1 DEF Busy
<1>9. CASE closer # "idle" BY <1>1, <1>2, <1>9, SoundClosing
<1>10. CASE closer = "idle"
  <2>1. Said = << >> BY <1>1, <1>7, <1>10 DEF Sound, Talk, Live
  <2>2. Said' = << >>
    <3> DEFINE a == SubSeq(buf, 1, k)
               b == After(buf, k)
               z == b \o out
               s == buf \o out
    <3>1. a \in Replied /\ b \in Replied BY <1>5
    <3>2. SetOf(buf) = SetOf(a) \cup SetOf(b)
      <4> HIDE DEF a, b
      <4>1. SetOf(a \o b) = SetOf(a) \cup SetOf(b) BY <3>1, SetOfConcat DEF Replied
      <4> QED BY <1>5, <4>1 DEF a, b
    <3> HIDE DEF a, b
    <3>3. z \in Replied /\ s \in Replied /\ SetOf(z) = SetOf(b) \cup SetOf(out)
          /\ SetOf(s) = SetOf(buf) \cup SetOf(out)
      BY <1>3, <3>1, ReplyConcat, SetOfConcat DEF Replied
    <3>4. Said = Only(s, Substance) /\ Said' = Only(z, Substance) BY <1>3, <1>6 DEF Said, b
    <3> HIDE DEF z, s
    <3>5. SetOf(s) \cap Substance = {} BY <2>1, <3>3, <3>4, OnlyNone DEF Replied
    <3>6. SetOf(z) \cap Substance = {} BY <3>2, <3>3, <3>5
    <3> QED BY <3>3, <3>4, <3>6, OnlyNone DEF Replied
  <2>3. Turns' BY <1>1, <1>8 DEF Sound, Turns, Callers
  <2>4. Scanned' BY <1>1, <1>7 DEF Scanned, Busy
  <2>5. Live'
    <3>1. held = << >> /\ (guest # "gone" => Resting) BY <1>1, <1>7, <1>10 DEF Sound, Talk, Live
    <3>2. Resting' = Resting BY <1>1, <1>2 DEF Resting
    <3> QED BY <1>2, <1>7, <1>8, <2>2, <3>1, <3>2 DEF Live
  <2>6. Talk' BY <1>1, <1>2, <2>4, <2>5 DEF Talk
  <2>7. OwnReplies' BY <1>1, <1>2 DEF Sound, OwnReplies
  <2> QED BY <2>3, <2>6, <2>7 DEF Sound
<1> QED BY <1>9, <1>10

-----------------------------------------------------------------------------
(* One exchange at a time: reading a reply *)

LEMMA SaidSplit ==
    ASSUME NEW buf \in Replied, NEW rest \in Replied, NEW k \in 0 .. Len(buf)
    PROVE  /\ Only(SubSeq(buf, 1, k), Substance) \in Replied
           /\ Only(After(buf, k) \o rest, Substance) \in Replied
           /\ Only(buf \o rest, Substance)
                = Only(SubSeq(buf, 1, k), Substance) \o Only(After(buf, k) \o rest, Substance)
<1> DEFINE a == SubSeq(buf, 1, k)
           b == After(buf, k)
           z == b \o rest
<1>1. a \in Replied /\ b \in Replied /\ buf = a \o b BY FrontOf
<1> HIDE DEF a, b
<1>2. z \in Replied BY <1>1, ReplyConcat
<1>3. (a \o b) \o rest = a \o z BY <1>1, Bracket DEF Replied
<1>4. buf \o rest = a \o z BY <1>1, <1>3, Zenon
<1> HIDE DEF z
<1>5. Only(a \o z, Substance) = Only(a, Substance) \o Only(z, Substance) BY <1>1, <1>2, SaidConcat
<1>6. Only(a, Substance) \in Replied /\ Only(z, Substance) \in Replied BY <1>1, <1>2, SaidType
<1>7. Only(buf \o rest, Substance) = Only(a, Substance) \o Only(z, Substance) BY <1>4, <1>5, Zenon
<1> QED BY <1>6, <1>7 DEF a, b, z

\* The parts of a single unit.
LEMMA AllOfOne ==
    ASSUME NEW x \in Replied, NEW y \in Replied, NEW v, x \o y = <<v>>, x # << >>
    PROVE  x = <<v>> /\ y = << >>
<1> DEFINE z == x \o y
<1>1. Len(x) \in Nat /\ Len(y) \in Nat /\ Len(z) = Len(x) + Len(y)
  BY ConcatProperties, LenProperties DEF Replied
<1>2. Len(z) = 1 OBVIOUS
<1>3. Len(x) # 0 BY EmptySeq DEF Replied
<1> HIDE DEF z
<1>4. Len(y) = 0 BY <1>1, <1>2, <1>3
<1>5. y = << >> BY <1>4, EmptySeq DEF Replied
<1>6. x \o << >> = x BY ConcatEmptySeq DEF Replied
<1> QED BY <1>5, <1>6

\* The reply is found.
LEMMA SoundFound ==
    ASSUME Sound, Core', NEW c \in Callers, Busy(c), ex[c].phase # "sending", closer = "idle",
           NEW buf \in Replied, NEW rest \in Replied, Coming = buf \o rest,
           NEW k \in 1 .. Len(buf), buf[k].type \in EndsReplyTo(ex[c].kind), Pairs(buf) => CutAt(buf, k),
           Finish(c, SubSeq(buf, 1, k)), Coming' = After(buf, k) \o rest,
           UNCHANGED <<toGuest, issued, closer, closed, guest, mode, partial, held>>
    PROVE  Sound'
<1>0. k \in 0 .. Len(buf) OBVIOUS
<1> DEFINE reply == SubSeq(buf, 1, k)
           x == Only(reply, Substance)
           y == Only(After(buf, k) \o rest, Substance)
           u == buf[k]
           e == [NoExchange EXCEPT !.phase = Rest(ex[c]), !.kind = ex[c].kind, !.no = ex[c].no,
                                   !.todo = ex[c].todo, !.reply = reply]
<1>1. x \in Replied /\ y \in Replied /\ Said = x \o y /\ Said' = y
  <2>1. Only(buf \o rest, Substance) = x \o y /\ x \in Replied /\ y \in Replied BY <1>0, SaidSplit
  <2> QED BY <2>1 DEF Said
<1>2. reply \in Replied BY <1>0, FrontOf
<1>3. u \in SetOf(x) /\ u \in BackUnit
  <2>1. u \in BackUnit BY ElementOfSeq DEF Replied
  <2>2. u \in Substance BY <2>1 DEF BackUnit, BackTypes, Substance, EndsReplyTo
  <2>3. reply[k] = u /\ Len(reply) = k BY <1>0, Halves DEF Replied
  <2>4. k \in 1 .. Len(reply) BY <2>3
  <2>5. u \in SetOf(reply) BY <2>3, <2>4 DEF SetOf
  <2>6. SetOf(x) = SetOf(reply) \cap Substance BY <1>2, SaidType
  <2> QED BY <2>1, <2>2, <2>5, <2>6
<1>4. Pairs(buf) /\ Pairs(reply) /\ Closes(reply)
  <2>1. Pairs(buf) BY <1>0, PairsRest DEF Sound
  <2> QED BY <1>0, <2>1, PairsSplit
<1>5. /\ issued \in Nat /\ ex[c] \in Exchange /\ ex[c].kind \in Kinds /\ ex[c].no \in Nat
      /\ ex[c].todo \in Todos
  BY DEF Sound, Core, Typed, Exchange
<1>6. /\ ex[c].no = issued /\ issued > 0 /\ ex[c].unsent = << >>
      /\ ex[c].kind = "P" => c = "query" /\ ex[c].todo = <<"S">>
      /\ c = "raw" => ex[c].todo = << >>
      /\ \A d \in Callers \ {c} : ~ Busy(d)
  BY DEF Sound, Turns, Callers
<1> HIDE DEF reply
<1>7. /\ e \in Exchange /\ e.phase \in {"idle", "called"} /\ e.kind = ex[c].kind /\ e.no = ex[c].no
      /\ e.todo = ex[c].todo /\ e.reply = reply /\ e.unsent = << >> /\ e.scanned = 0
      /\ e.phase = "called" <=> e.todo # << >>
  BY <1>2, <1>5, EmptyAsked DEF NoExchange, Exchange, Rest
<1>8. ex' = [ex EXCEPT ![c] = e] /\ inFlight' = FALSE BY DEF Finish, reply
<1> HIDE DEF e
<1>9. Fits(c, e, issued') BY <1>5, <1>6, <1>7 DEF Fits, BusyPhases
<1>10. Turns' /\ ex'[c] = e /\ \A d \in Callers \ {c} : ex'[d] = ex[d] /\ Busy(d)' = Busy(d)
  BY <1>6, <1>7, <1>8, <1>9, TurnsSet DEF Sound, Core, BusyPhases
<1>11. \A d \in Callers : ~ Busy(d)' BY <1>6, <1>7, <1>10 DEF Busy
<1> HIDE DEF x, y, u
<1>12. ASSUME ~ closed PROVE x \in Replies(ex[c].kind, ex[c].no) /\ Live'
  <2>1. PartOf(Said, ex[c].kind, ex[c].no)
        /\ (guest # "gone" => Answered(ex[c].kind, ex[c].no, Forward(c)))
    <3>1. Live BY <1>12 DEF Sound, Talk
    <3>2. CASE guest = "gone" BY <3>1, <3>2 DEF Live
    <3>3. CASE guest # "gone"
      <4>1. Unanswered(ex[c].kind, ex[c].no, Forward(c)) \/ Answered(ex[c].kind, ex[c].no, Forward(c))
        BY <3>1, <3>3 DEF Live
      <4>2. Said # << >>
        <5>1. SetOf(x \o y) = SetOf(x) \cup SetOf(y) BY <1>1, SetOfConcat DEF Replied
        <5>2. u \in SetOf(Said) BY <1>1, <1>3, <5>1
        <5> QED BY <5>2, SetOfEmpty
      <4>3. Answered(ex[c].kind, ex[c].no, Forward(c)) BY <4>1, <4>2 DEF Unanswered
      <4>4. PartOf(Said, ex[c].kind, ex[c].no) BY <1>5, <4>3, PartOfAll DEF Answered
      <4> QED BY <4>3, <4>4
    <3> QED BY <3>2, <3>3
  <2>2. x \in Replies(ex[c].kind, ex[c].no) /\ y = << >>
    <3>1. PartOf(x \o y, ex[c].kind, ex[c].no) BY <1>1, <2>1
    <3>2. u \in SetOf(x) /\ u.type \in EndsReplyTo(ex[c].kind) BY <1>3 DEF u
    <3> QED BY <1>1, <1>5, <3>1, <3>2, TakesAll
  <2>3. Live'
    <3>1. Said' = << >> BY <1>1, <2>2
    <3>2. held' = << >> BY <2>1 DEF Sound, Core, Closing, Answered
    <3>3. ASSUME guest' # "gone" PROVE Resting'
      <4>1. Answered(ex[c].kind, ex[c].no, Forward(c)) BY <2>1, <3>3
      <4>2. Forward(c) = toGuest
        <5>1. toGuest \o << >> = toGuest BY ConcatEmptySeq DEF Sound, Core, Typed, Asked
        <5> QED BY <1>6, <5>1 DEF Forward
      <4>3. partial = 0 /\ (toGuest = << >> \/ (mode = "skip" /\ toGuest = Message("H", issued)))
            /\ (mode = "skip" => ex[c].kind = "P")
        BY <1>6, <4>1, <4>2 DEF Answered
      <4>4. issued \in 0 .. issued BY <1>5
      <4>5. mode = "skip" => ex'["query"].phase = "called" /\ ex'["query"].todo = <<"S">>
        <5>1. mode = "skip" => c = "query" /\ ex[c].todo = <<"S">> BY <1>6, <4>3
        <5>2. <<"S">> # << >> OBVIOUS
        <5> QED BY <1>7, <1>10, <5>1, <5>2
      <4> QED BY <4>3, <4>4, <4>5 DEF Resting
    <3> QED BY <1>11, <3>1, <3>2, <3>3 DEF Live
  <2> QED BY <2>2, <2>3
<1>13. ASSUME closed PROVE (\E n \in 1 .. ex[c].no - 1 : \A v \in SetOf(x) : v.no = n) /\ Dead'
  <2>1. guest = "gone" /\ Stale(issued - 1) BY <1>13 DEF Sound, Talk, Dead
  <2>2. SetOf(Said) = SetOf(x) \cup SetOf(y)
    <3>1. SetOf(x \o y) = SetOf(x) \cup SetOf(y) BY <1>1, SetOfConcat DEF Replied
    <3> QED BY <1>1, <3>1
  <2>3. Said # << >> BY <1>3, <2>2, SetOfEmpty
  <2>4. PICK n \in 1 .. issued - 1 : \A v \in SetOf(Said) : v.no = n BY <2>1, <2>3 DEF Stale
  <2>5. (\A v \in SetOf(x) : v.no = n) /\ (\A v \in SetOf(y) : v.no = n) BY <2>2, <2>4
  <2>6. n \in 1 .. issued' BY <1>5, <2>4
  <2>7. Stale(issued)' BY <1>1, <2>5, <2>6 DEF Stale
  <2> QED BY <1>6, <1>11, <1>13, <2>1, <2>4, <2>5, <2>7 DEF Dead
<1>14. OwnReplies'
  <2>1. x \in Replies(ex[c].kind, ex[c].no) \/ (closed /\ \E n \in 1 .. ex[c].no - 1 : \A v \in SetOf(x) : v.no = n)
    BY <1>12, <1>13
  <2>2. ASSUME NEW i \in 1 .. Len(reply), reply[i].type = "A", reply[i].part = 1
        PROVE  i < Len(reply) /\ reply[i + 1] = [reply[i] EXCEPT !.part = 2]
    <3>1. Opens(reply[i]) BY <2>2 DEF Opens, Long
    <3>2. Len(reply) \in Nat BY <1>2, LenProperties DEF Replied
    <3>3. i # Len(reply) BY <1>4, <3>1, <3>2 DEF Closes, CutAt
    <3>4. i \in 1 .. Len(reply) - 1 BY <3>2, <3>3
    <3>5. reply[i + 1] = Half(reply[i]) BY <1>4, <3>1, <3>4 DEF Pairs
    <3>6. reply[i] \in BackUnit BY <1>2, ElementOfSeq DEF Replied
    <3> QED BY <3>2, <3>3, <3>5, <3>6 DEF Half, BackUnit
  <2>3. ASSUME NEW d \in Callers, ex'[d].reply # << >>
        PROVE  LET r == ex'[d].reply
                   said == Only(r, Substance)
               IN  /\ \/ said \in Replies(ex'[d].kind, ex'[d].no)
                      \/ closed' /\ \E n \in 1 .. ex'[d].no - 1 : \A v \in SetOf(said) : v.no = n
                   /\ \A i \in 1 .. Len(r) :
                          r[i].type = "A" /\ r[i].part = 1 =>
                              i < Len(r) /\ r[i + 1] = [r[i] EXCEPT !.part = 2]
    <3>1. CASE d = c
      <4>1. ex'[d].reply = reply /\ ex'[d].kind = ex[c].kind /\ ex'[d].no = ex[c].no
        BY <1>7, <1>10, <3>1
      <4> QED BY <2>1, <2>2, <4>1 DEF x
    <3>2. CASE d # c
      <4>1. ex'[d] = ex[d] BY <1>10, <3>2
      <4> QED BY <2>3, <4>1 DEF Sound, OwnReplies
    <3> QED BY <3>1, <3>2
  <2> QED BY <2>3 DEF OwnReplies
<1>15. Scanned' BY <1>11 DEF Scanned, Busy
<1>16. Talk' BY <1>12, <1>13, <1>15 DEF Talk
<1> QED BY <1>10, <1>14, <1>16 DEF Sound

\* A step that changes no reply keeps them.
LEMMA SameReplies ==
    ASSUME OwnReplies, closer' = closer, closed' = closed,
           \A d \in Callers : /\ ex'[d].reply = ex[d].reply /\ ex'[d].kind = ex[d].kind
                             /\ ex'[d].no = ex[d].no
    PROVE  OwnReplies'
BY DEF OwnReplies

\* The reply is not there yet.
LEMMA SoundNotFound ==
    ASSUME Sound, Core', NEW c \in Callers, ex[c].phase \in {"scanning", "reading"}, closer = "idle",
           NEW buf \in Replied, Pairs(buf), NEW from \in 0 .. Len(buf), from = ex[c].scanned,
           CutAt(buf, from), \A i \in 1 .. from : buf[i].type \notin EndsReplyTo(ex[c].kind),
           NEW s, s = Scan(buf, ex[c].kind, from), ~ s.found,
           ex' = [ex EXCEPT ![c].phase = "reading", ![c].scanned = s.end], buffered' = buf,
           Said' = Said,
           UNCHANGED <<toGuest, inFlight, issued, closer, closed, guest, mode, partial, held>>
    PROVE  Sound'
<1> DEFINE e == [ex[c] EXCEPT !.phase = "reading", !.scanned = s.end]
<1>1. Len(buf) \in Nat /\ from \in Nat BY LenProperties DEF Replied
<1>2. s = Walk(buf, ex[c].kind)[from] BY <1>1 DEF Scan
<1>3. /\ s.end \in from .. Len(buf) /\ CutAt(buf, s.end)
      /\ \A i \in from + 1 .. Len(buf) : buf[i].type \notin EndsReplyTo(ex[c].kind)
  BY <1>2, WalkNotFound
<1>4. \A i \in 1 .. Len(buf) : buf[i].type \notin EndsReplyTo(ex[c].kind)
  <2>1. \A i \in 1 .. Len(buf) : i \in 1 .. from \/ i \in from + 1 .. Len(buf) BY <1>1
  <2> QED BY <1>3, <2>1
<1>5. ex' = [ex EXCEPT ![c] = e] BY DEF Sound, Core, Typed
<1>6. ex[c] \in Exchange /\ issued \in Nat BY DEF Sound, Core, Typed
<1>7. /\ e \in Exchange /\ e.phase = "reading" /\ e.kind = ex[c].kind /\ e.no = ex[c].no
      /\ e.todo = ex[c].todo /\ e.scanned = s.end /\ e.reply = ex[c].reply /\ e.unsent = ex[c].unsent
  <2> DEFINE k == s.end
  <2>1. k \in Nat BY <1>1, <1>3
  <2> HIDE DEF k
  <2> QED BY <1>6, <2>1 DEF Exchange, k
<1> HIDE DEF e
<1>8. Busy(c) /\ (\A d \in Callers \ {c} : ~ Busy(d)) BY DEF Busy, Sound, Turns, Callers
<1>9. Fits(c, e, issued')
  <2>1. /\ ex[c].no <= issued /\ ex[c].no = issued /\ issued > 0 /\ ex[c].unsent = << >>
        /\ ex[c].kind = "P" => c = "query" /\ ex[c].todo = <<"S">>
        /\ c = "raw" => ex[c].todo = << >>
    BY <1>8 DEF Sound, Turns
  <2> QED BY <1>7, <1>8, <2>1 DEF Fits, BusyPhases
<1>10. inFlight <=> \E d \in Callers : Busy(d) BY DEF Sound, Turns
<1>11. Turns' /\ ex'[c] = e /\ \A d \in Callers \ {c} : ex'[d] = ex[d] /\ Busy(d)' = Busy(d)
  BY <1>5, <1>7, <1>8, <1>9, <1>10, TurnsSet DEF Sound, Core, BusyPhases
<1>12. Busy(c)' /\ \A d \in Callers \ {c} : ~ Busy(d)' BY <1>7, <1>8, <1>11 DEF Busy
<1>13. Scanned'
  <2>1. \A d \in Callers \ {c} : ex'[d].phase # "reading" BY <1>8, <1>11 DEF Busy
  <2>2. /\ ex'[c].scanned <= Len(buf) /\ CutAt(buf, ex'[c].scanned)
        /\ \A u \in SetOf(buf) : u.type \notin EndsReplyTo(ex'[c].kind)
    <3>1. s.end <= Len(buf) BY <1>1, <1>3
    <3>2. \A u \in SetOf(buf) : u.type \notin EndsReplyTo(ex[c].kind) BY <1>4 DEF SetOf
    <3>3. ex'[c].scanned = s.end /\ ex'[c].kind = ex[c].kind BY <1>7, <1>11
    <3> QED BY <1>3, <3>1, <3>2, <3>3
  <2> QED BY <2>1, <2>2 DEF Scanned
<1>14. ASSUME closed PROVE Dead'
  <2>1. guest = "gone" /\ Stale(issued) /\ Stale(issued - 1) BY <1>8, <1>14 DEF Sound, Talk, Dead
  <2>2. Stale(issued)' /\ Stale(issued - 1)' BY <2>1 DEF Stale
  <2> QED BY <1>14, <2>1, <2>2 DEF Dead
<1>15. ASSUME ~ closed PROVE Live'
  <2>1. IF guest = "gone" THEN PartOf(Said, ex[c].kind, ex[c].no)
        ELSE Unanswered(ex[c].kind, ex[c].no, Forward(c)) \/ Answered(ex[c].kind, ex[c].no, Forward(c))
    BY <1>8, <1>15 DEF Sound, Talk, Live
  <2>2. Forward(c)' = Forward(c) BY <1>7, <1>11 DEF Forward
  <2>3. /\ \A k, no, F : Unanswered(k, no, F)' = Unanswered(k, no, F)
        /\ \A k, no, F : Answered(k, no, F)' = Answered(k, no, F)
    BY DEF Unanswered, Answered
  <2>4. (IF guest = "gone" THEN PartOf(Said, ex[c].kind, ex[c].no)
         ELSE Unanswered(ex[c].kind, ex[c].no, Forward(c)) \/ Answered(ex[c].kind, ex[c].no, Forward(c)))'
    BY <1>7, <1>11, <2>1, <2>2, <2>3
  <2>5. \A d \in Callers : Busy(d)' => d = c BY <1>12
  <2> QED BY <1>12, <2>4, <2>5 DEF Live
<1>16. OwnReplies'
  <2>1. \A d \in Callers : /\ ex'[d].reply = ex[d].reply /\ ex'[d].kind = ex[d].kind
                           /\ ex'[d].no = ex[d].no
    BY <1>7, <1>11
  <2>2. OwnReplies /\ closer' = closer /\ closed' = closed BY DEF Sound
  <2> QED BY <2>1, <2>2, SameReplies
<1>17. Talk' BY <1>13, <1>14, <1>15 DEF Talk
<1> QED BY <1>11, <1>16, <1>17 DEF Sound

\* A scan that ends returns the whole reply, and one that does not has passed no end.
LEMMA SoundScan ==
    ASSUME Sound, Core', NEW c \in Callers, ex[c].phase \in {"scanning", "reading"},
           NEW buf \in Replied, NEW rest \in Replied, Coming = buf \o rest,
           wire' = << >> \/ wire' = wire, rest = wire' \o out,
           closer = "idle" => /\ ex[c].scanned <= Len(buf) /\ CutAt(buf, ex[c].scanned)
                              /\ \A i \in 1 .. ex[c].scanned : buf[i].type \notin EndsReplyTo(ex[c].kind),
           ScanFor(c, buf), UNCHANGED <<toGuest, issued, life, backend>>
    PROVE  Sound'
<1> DEFINE from == ex[c].scanned
           s == Scan(buf, ex[c].kind, from)
<1>1. UNCHANGED <<closed, closer, guest, mode, partial, held, out>> BY DEF life, backend
<1>2. ex[c].scanned \in Nat /\ Len(buf) \in Nat BY LenProperties DEF Sound, Core, Typed, Exchange, Replied
<1>4. buffered' \in Replied /\ wire' \in Replied /\ out' \in Replied BY DEF Core, Typed
<1>5. Coming' = buffered' \o rest
  <2> DEFINE a == buffered'
             b == wire'
             d == out'
  <2>1. a \in Replied /\ b \in Replied /\ d \in Replied /\ rest = b \o d BY <1>1, <1>4
  <2>2. Coming' = (a \o b) \o d BY DEF Coming
  <2> HIDE DEF a, b, d
  <2>3. (a \o b) \o d = a \o (b \o d) BY <2>1, BackBracket, Zenon
  <2>4. Coming' = a \o rest BY <2>1, <2>2, <2>3, Zenon
  <2> QED BY <2>4 DEF a
<1>6. Busy(c) BY DEF Busy
<1>7. CASE closer = "idle" /\ s.found
  <2>1. /\ s.end \in 1 .. Len(buf) /\ buf[s.end].type \in EndsReplyTo(ex[c].kind)
        /\ Pairs(buf) => CutAt(buf, s.end)
    BY <1>2, <1>7, ScanFound
  <2>2. Finish(c, SubSeq(buf, 1, s.end)) /\ buffered' = After(buf, s.end) BY <1>7 DEF ScanFor
  <2> HIDE DEF s, from
  <2>3. Coming' = After(buf, s.end) \o rest BY <1>5, <2>2
  <2> QED BY <1>1, <1>6, <1>7, <2>1, <2>2, <2>3, SoundFound
<1>8. CASE closer = "idle" /\ ~ s.found
  <2>1. /\ buffered' = buf /\ ex' = [ex EXCEPT ![c].phase = "reading", ![c].scanned = s.end]
        /\ UNCHANGED inFlight
    BY <1>8 DEF ScanFor
  <2>2. Pairs(buf)
    <3>1. Pairs(buf \o rest) BY <1>8 DEF Sound, Core, Noted
    <3> QED BY <3>1, PairsPrefix
  <2>3. Said' = Said BY <1>5, <2>1 DEF Said
  <2>4. from \in 0 .. Len(buf) BY <1>2, <1>8
  <2>5. CutAt(buf, from) /\ \A i \in 1 .. from : buf[i].type \notin EndsReplyTo(ex[c].kind) BY <1>8
  <2>6. s = Scan(buf, ex[c].kind, from) /\ from = ex[c].scanned OBVIOUS
  <2> HIDE DEF s, from
  <2> QED BY <1>1, <1>8, <2>1, <2>2, <2>3, <2>4, <2>5, <2>6, SoundNotFound
<1>9. CASE closer # "idle"
  <2>1. Turns /\ (\A d \in Callers \ {c} : ~ Busy(d)) /\ ex[c] \in Exchange /\ issued \in Nat
    BY <1>6 DEF Sound, Core, Typed, Turns, Callers
  <2>2. /\ ex[c].no <= issued /\ ex[c].no = issued /\ issued > 0 /\ ex[c].unsent = << >>
        /\ ex[c].kind = "P" => c = "query" /\ ex[c].todo = <<"S">>
        /\ c = "raw" => ex[c].todo = << >>
    BY <1>6, <2>1 DEF Turns
  <2>3. Turns'
    <3>1. CASE s.found
      <4>1. s.end \in 1 .. Len(buf) BY <1>2, <3>1, ScanFound
      <4>2. s.end \in 0 .. Len(buf) BY <4>1
      <4>3. Finish(c, SubSeq(buf, 1, s.end)) BY <3>1 DEF ScanFor
      <4> DEFINE reply == SubSeq(buf, 1, s.end)
                 e == [NoExchange EXCEPT !.phase = Rest(ex[c]), !.kind = ex[c].kind, !.no = ex[c].no,
                                         !.todo = ex[c].todo, !.reply = reply]
      <4>4. reply \in Replied BY <4>2, FrontOf
      <4>5. ex' = [ex EXCEPT ![c] = e] /\ inFlight' = FALSE BY <4>3 DEF Finish
      <4> HIDE DEF reply
      <4>6. /\ e \in Exchange /\ e.phase \in {"idle", "called"} /\ e.no = ex[c].no
            /\ e.todo = ex[c].todo /\ e.unsent = << >> /\ e.scanned = 0
            /\ e.phase = "called" <=> e.todo # << >>
        BY <2>1, <4>4, EmptyAsked DEF NoExchange, Exchange, Rest
      <4> HIDE DEF e
      <4>7. Fits(c, e, issued') BY <2>1, <2>2, <4>6 DEF Fits, BusyPhases
      <4> QED BY <2>1, <4>5, <4>6, <4>7, TurnsSet DEF Sound, Core, BusyPhases
    <3>2. CASE ~ s.found
      <4>1. /\ ex' = [ex EXCEPT ![c].phase = "reading", ![c].scanned = s.end]
            /\ UNCHANGED inFlight
        BY <3>2 DEF ScanFor
      <4>2. s.end \in Nat BY <1>2, ScanTyped
      <4> HIDE DEF s
      <4> DEFINE e == [ex[c] EXCEPT !.phase = "reading", !.scanned = s.end]
      <4>3. ex' = [ex EXCEPT ![c] = e] BY <4>1 DEF Sound, Core, Typed
      <4>4. /\ e \in Exchange /\ e.phase = "reading" /\ e.kind = ex[c].kind /\ e.no = ex[c].no
            /\ e.todo = ex[c].todo /\ e.unsent = ex[c].unsent
        BY <2>1, <4>2 DEF Exchange
      <4> HIDE DEF e
      <4>5. Fits(c, e, issued') BY <2>1, <2>2, <4>4 DEF Fits, BusyPhases
      <4>6. inFlight <=> \E d \in Callers : Busy(d) BY DEF Sound, Turns
      <4> QED BY <1>6, <2>1, <4>1, <4>3, <4>4, <4>5, <4>6, TurnsSet DEF Sound, Core, BusyPhases
    <3> QED BY <3>1, <3>2
  <2> QED BY <1>1, <1>9, <2>3 DEF Sound, Talk, OwnReplies
<1> QED BY <1>7, <1>8, <1>9

\* The steps that scan.
LEMMA SoundFirstScan == ASSUME Sound, Core', NEW c \in Callers, FirstScan(c) PROVE Sound'
<1>1. /\ ex[c].phase = "scanning" /\ ScanFor(c, buffered)
      /\ UNCHANGED <<toGuest, wire, issued, life, backend>>
  BY DEF FirstScan
<1>2. buffered \in Replied BY DEF Sound, Core, Typed
<1>3. wire \o out \in Replied /\ Coming = buffered \o (wire \o out) BY ComingIs DEF Sound, Core
<1>4. /\ ex[c].scanned <= Len(buffered) /\ CutAt(buffered, ex[c].scanned)
      /\ \A i \in 1 .. ex[c].scanned : buffered[i].type \notin EndsReplyTo(ex[c].kind)
  <2>1. ex[c].scanned = 0 BY <1>1 DEF Sound, Turns
  <2>2. Len(buffered) \in Nat BY <1>2, LenProperties DEF Replied
  <2> QED BY <2>1, <2>2 DEF CutAt
<1> DEFINE rest == wire \o out
<1>5. rest \in Replied /\ Coming = buffered \o rest /\ rest = wire' \o out BY <1>1, <1>3
<1> HIDE DEF rest
<1> QED BY <1>1, <1>2, <1>4, <1>5, SoundScan

LEMMA SoundRead == ASSUME Sound, Core', NEW c \in Callers, Read(c) PROVE Sound'
<1> DEFINE b == buffered \o wire
<1>1. /\ ex[c].phase = "reading" /\ ScanFor(c, b) /\ wire' = << >>
      /\ UNCHANGED <<toGuest, issued, life, backend>>
  BY DEF Read
<1>2. out \in Replied /\ b \in Replied /\ Coming = b \o out BY ComingIs DEF Sound, Core, Typed
<1>3. out = wire' \o out
  <2>1. << >> \o out = out BY <1>2, ConcatEmptySeq DEF Replied
  <2> QED BY <1>1, <2>1
<1>4. ASSUME closer = "idle"
      PROVE  /\ ex[c].scanned <= Len(b) /\ CutAt(b, ex[c].scanned)
             /\ \A i \in 1 .. ex[c].scanned : b[i].type \notin EndsReplyTo(ex[c].kind)
  <2> DEFINE k == ex[c].scanned
  <2>1. /\ k <= Len(buffered) /\ CutAt(buffered, k)
        /\ \A u \in SetOf(buffered) : u.type \notin EndsReplyTo(ex[c].kind)
    BY <1>1, <1>4 DEF Sound, Talk, Scanned
  <2>2. k \in Nat /\ buffered \in Replied /\ wire \in Replied BY DEF Sound, Core, Typed, Exchange
  <2>3. /\ Len(buffered) \in Nat /\ Len(wire) \in Nat /\ Len(b) = Len(buffered) + Len(wire)
        /\ \A i \in 1 .. Len(buffered) : b[i] = buffered[i]
    BY <2>2, ConcatProperties, LenProperties DEF Replied
  <2> HIDE DEF b, k
  <2>4. \A i \in 1 .. k : i \in 1 .. Len(buffered) BY <2>1, <2>2, <2>3
  <2>5. CutAt(b, k)
    <3>1. k = 0 \/ k \in 1 .. k BY <2>2
    <3>2. k # 0 => b[k] = buffered[k] BY <2>3, <2>4, <3>1
    <3> QED BY <2>1, <3>2 DEF CutAt
  <2>6. \A i \in 1 .. k : b[i] = buffered[i] /\ buffered[i] \in SetOf(buffered) BY <2>3, <2>4 DEF SetOf
  <2>7. k <= Len(b) BY <2>1, <2>2, <2>3
  <2> QED BY <2>1, <2>5, <2>6, <2>7 DEF k
<1> HIDE DEF b
<1> QED BY <1>1, <1>2, <1>3, <1>4, SoundScan

\* The backend is gone and the reply did not come: the session closes.
LEMMA SoundReadEof == ASSUME Sound, Core', NEW c \in Callers, ReadEof(c) PROVE Sound'
<1> DEFINE e == [NoExchange EXCEPT !.phase = Rest(ex[c]), !.todo = ex[c].todo]
<1>1. /\ ex[c].phase = "reading" /\ guest = "gone" /\ closed' = TRUE /\ inFlight' = FALSE
      /\ ex' = [ex EXCEPT ![c] = e]
      /\ UNCHANGED <<toGuest, wire, buffered, issued, closer, backend>>
  BY DEF ReadEof, Eof
<1>2. UNCHANGED <<guest, mode, partial, held, out>> BY <1>1 DEF backend
<1>3. ex[c].todo \in Todos /\ ex[c] \in Exchange /\ issued \in Nat BY DEF Sound, Core, Typed, Exchange
<1>4. /\ e \in Exchange /\ e.phase \in {"idle", "called"} /\ e.no = 0
      /\ e.todo = ex[c].todo /\ e.reply = << >> /\ e.unsent = << >> /\ e.scanned = 0
      /\ e.phase = "called" <=> e.todo # << >>
  BY <1>3, EmptyAsked, EmptyBack DEF NoExchange, Exchange, Kinds, Rest
<1> HIDE DEF e
<1>5. /\ Busy(c) /\ (\A d \in Callers \ {c} : ~ Busy(d)) /\ ex[c].no = issued /\ issued > 0
      /\ c = "raw" => ex[c].todo = << >>
  BY <1>1 DEF Busy, Sound, Turns, Callers
<1>6. Fits(c, e, issued') BY <1>1, <1>3, <1>4, <1>5 DEF Fits, BusyPhases
<1>7. Turns' /\ ex'[c] = e /\ \A d \in Callers \ {c} : ex'[d] = ex[d] /\ Busy(d)' = Busy(d)
  BY <1>1, <1>4, <1>5, <1>6, TurnsSet DEF Sound, Core, BusyPhases
<1>8. \A d \in Callers : ~ Busy(d)' BY <1>4, <1>5, <1>7 DEF Busy
<1>9. Said' = Said BY <1>1, <1>2 DEF Said, Coming
<1>10. ASSUME closer = "idle" PROVE Stale(issued)
  <2>1. CASE closed BY <1>10, <2>1 DEF Sound, Talk, Dead
  <2>2. CASE ~ closed
    <3>1. PartOf(Said, ex[c].kind, ex[c].no) BY <1>1, <1>5, <1>10, <2>2 DEF Sound, Talk, Live
    <3>2. ex[c].kind \in Kinds /\ ex[c].no \in Nat BY <1>3 DEF Exchange
    <3> DEFINE x == Said
    <3>3. x \in Replied /\ PartOf(x, ex[c].kind, ex[c].no)
      BY <3>1, ComingIs, SaidType DEF Said, Sound, Core
    <3> HIDE DEF x
    <3>4. \A u \in SetOf(x) : u.no = ex[c].no BY <3>2, <3>3, PartNumbers
    <3>5. issued \in 1 .. issued BY <1>3, <1>5
    <3> QED BY <1>5, <3>4, <3>5 DEF Stale, x
  <2> QED BY <2>1, <2>2
<1>11. closer = "idle" => Dead'
  <2>1. closer = "idle" => Stale(issued)' BY <1>1, <1>9, <1>10 DEF Stale
  <2> QED BY <1>1, <1>2, <1>8, <2>1 DEF Dead
<1>12. Scanned' BY <1>8 DEF Scanned, Busy
<1>13. Talk' BY <1>1, <1>11, <1>12 DEF Talk
<1>14. OwnReplies'
  <2>1. \A d \in Callers : ex'[d].reply = << >> \/ ex'[d] = ex[d] BY <1>4, <1>7
  <2> QED BY <1>1, <2>1 DEF Sound, OwnReplies
<1> QED BY <1>7, <1>13, <1>14 DEF Sound

-----------------------------------------------------------------------------
(* One exchange at a time: the backend *)

LEMMA HeadOf ==
    ASSUME NEW U, NEW t \in Seq(U), t # << >>, NEW s \in Seq(U)
    PROVE  /\ t \o s # << >> /\ Head(t \o s) = Head(t) /\ Tail(t \o s) = Tail(t) \o s
<1> DEFINE f == t \o s
           r == Tail(t)
           g == r \o s
<1>1. /\ Len(t) \in Nat /\ Len(t) # 0 /\ Head(t) = t[1] /\ r \in Seq(U) /\ Len(r) = Len(t) - 1
      /\ \A i \in 1 .. Len(r) : r[i] = t[i + 1]
  BY HeadTailProperties, LenProperties, EmptySeq
<1>2. /\ f \in Seq(U) /\ Len(f) = Len(t) + Len(s) /\ Len(s) \in Nat
      /\ \A i \in 1 .. Len(t) : f[i] = t[i]
      /\ \A i \in 1 .. Len(s) : f[Len(t) + i] = s[i]
  BY ConcatProperties, LenProperties
<1> HIDE DEF r
<1>3. /\ g \in Seq(U) /\ Len(g) = Len(r) + Len(s)
      /\ \A i \in 1 .. Len(r) : g[i] = r[i]
      /\ \A i \in 1 .. Len(s) : g[Len(r) + i] = s[i]
  <2>1. \A x, y \in Seq(U) : /\ x \o y \in Seq(U) /\ Len(x \o y) = Len(x) + Len(y)
                             /\ \A i \in 1 .. Len(x) : (x \o y)[i] = x[i]
                             /\ \A i \in 1 .. Len(y) : (x \o y)[Len(x) + i] = y[i]
    BY ConcatProperties, LenProperties
  <2>2. r \in Seq(U) BY <1>1
  <2> QED BY <2>1, <2>2, Zenon
<1> HIDE DEF f, g
<1>4. f # << >> BY <1>1, <1>2
<1> DEFINE h == Tail(f)
<1>5. /\ Head(f) = f[1] /\ h \in Seq(U) /\ Len(h) = Len(f) - 1
      /\ \A i \in 1 .. Len(h) : h[i] = f[i + 1]
  BY <1>2, <1>4, HeadTailProperties, LenProperties
<1> HIDE DEF h
<1>6. Head(f) = Head(t)
  <2>1. 1 \in 1 .. Len(t) BY <1>1
  <2> QED BY <1>1, <1>2, <1>5, <2>1
<1>7. h = g
  <2>1. Len(h) = Len(g) BY <1>1, <1>2, <1>3, <1>5
  <2>2. ASSUME NEW i \in 1 .. Len(h) PROVE h[i] = g[i]
    <3>1. h[i] = f[i + 1] BY <1>5
    <3>2. CASE i \in 1 .. Len(r)
      <4>1. i + 1 \in 1 .. Len(t) BY <1>1, <3>2
      <4> QED BY <1>1, <1>2, <1>3, <3>1, <3>2, <4>1
    <3>3. CASE i \notin 1 .. Len(r)
      <4> DEFINE j == i - Len(r)
      <4>1. j \in 1 .. Len(s) /\ i = Len(r) + j /\ i + 1 = Len(t) + j
        BY <1>1, <1>2, <1>5, <3>3
      <4> HIDE DEF j
      <4> QED BY <1>2, <1>3, <3>1, <4>1
    <3> QED BY <3>2, <3>3
  <2> QED BY <1>3, <1>5, <2>1, <2>2, SeqEqual
<1> QED BY <1>4, <1>6, <1>7 DEF f, g, h, r

\* What the backend answers is said after what was.
LEMMA SaysMore ==
    ASSUME Typed, out = << >>, UNCHANGED <<buffered, wire>>, out' \in Replied
    PROVE  Said' = Said \o Only(out', Substance)
<1>1. Coming = buffered \o wire /\ Coming \in Replied BY ComingIs
<1>2. Coming' = Coming \o out' BY <1>1 DEF Coming
<1> DEFINE a == Coming
           b == out'
<1>3. a \in Replied /\ b \in Replied /\ Said = Only(a, Substance) /\ Said' = Only(a \o b, Substance)
  BY <1>1, <1>2 DEF Said
<1> HIDE DEF a, b
<1>4. Said' = Said \o Only(b, Substance) BY <1>3, SaidConcat
<1> QED BY <1>4 DEF b

\* What the answers say.
LEMMA SyncSays ==
    ASSUME notes \in Nat, held = << >>, NEW no \in Nat, AnswerSync(no)
    PROVE  out' \in Replied /\ Only(out', Substance) = Message("Z", no)
<1> DEFINE Z == Message("Z", no)
           A == Message("A", notes + 1)
<1>1. Z \in Replied /\ Only(Z, Substance) = Z BY MessageBack, MessageSaid DEF BackTypes
<1>2. A \in Replied /\ Only(A, Substance) = << >> BY MessageBack, MessageSaid DEF BackTypes
<1>3. out' = << >> \o Z \/ out' = << >> \o A \o Z BY DEF AnswerSync
<1> HIDE DEF Z, A
<1>4. << >> \o Z = Z /\ << >> \o A = A BY <1>1, <1>2, ConcatEmptySeq DEF Replied
<1>5. A \o Z \in Replied /\ Only(A \o Z, Substance) = << >> \o Z
  BY <1>1, <1>2, ReplyConcat, SaidConcat
<1>6. out' = Z \/ out' = A \o Z BY <1>3, <1>4, Zenon
<1>7. CASE out' = Z BY <1>1, <1>7 DEF Z
<1>8. CASE out' = A \o Z
  <2>1. Only(A \o Z, Substance) = Z BY <1>4, <1>5, Zenon
  <2> QED BY <1>5, <1>8, <2>1, Zenon DEF Z
<1> QED BY <1>6, <1>7, <1>8

\* The substance of an answer to a query, a row or an error, is a reply to it.
LEMMA QuerySays ==
    ASSUME notes \in Nat, held = << >>, NEW no \in Nat, AnswerQuery(no)
    PROVE  out' \in Replied /\ Only(out', Substance) \in Replies("Q", no)
<1>0. PICK verdict \in {"C", "E"} :
          \/ out' = held \o Message(verdict, no) \o Message("A", notes + 1) \o Message("Z", no)
          \/ out' = held \o Message(verdict, no) \o Message("Z", no)
  BY DEF AnswerQuery
<1> DEFINE Z == Message("Z", no)
           V == Message(verdict, no)
           A == Message("A", notes + 1)
<1>1. Z \in Replied /\ Only(Z, Substance) = Z BY MessageBack, MessageSaid DEF BackTypes
<1>2. A \in Replied /\ Only(A, Substance) = << >> BY MessageBack, MessageSaid DEF BackTypes
<1>3. V \in Replied /\ Only(V, Substance) = V BY MessageBack, MessageSaid DEF BackTypes
<1>4. V \o Z \in Replies("Q", no) BY DEF Replies
<1>5. out' = << >> \o V \o A \o Z \/ out' = << >> \o V \o Z BY <1>0
<1> HIDE DEF Z, V, A
<1>6. << >> \o V = V /\ V \o << >> = V BY <1>3, ConcatEmptySeq DEF Replied
<1>7. V \o A \in Replied /\ Only(V \o A, Substance) = V
  <2>1. V \o A \in Replied /\ Only(V \o A, Substance) = V \o << >>
    BY <1>2, <1>3, ReplyConcat, SaidConcat
  <2> QED BY <1>6, <2>1
<1> DEFINE B == V \o A
<1> HIDE DEF B
<1>8. B \in Replied /\ Only(B, Substance) = V BY <1>7 DEF B
<1>9. B \o Z \in Replied /\ Only(B \o Z, Substance) = V \o Z BY <1>1, <1>8, ReplyConcat, SaidConcat
<1>10. V \o Z \in Replied /\ Only(V \o Z, Substance) = V \o Z BY <1>1, <1>3, ReplyConcat, SaidConcat
<1>11. out' = B \o Z \/ out' = V \o Z BY <1>5, <1>6, Zenon DEF B
<1>12. CASE out' = B \o Z
  <2>1. Only(out', Substance) = V \o Z BY <1>9, <1>12, Zenon
  <2> QED BY <1>4, <1>9, <1>12, <2>1, Zenon DEF V, Z
<1>13. CASE out' = V \o Z
  <2>1. Only(out', Substance) = V \o Z BY <1>10, <1>13, Zenon
  <2> QED BY <1>4, <1>10, <1>13, <2>1, Zenon DEF V, Z
<1> QED BY <1>11, <1>12, <1>13

\* So is that of the handshake's.
LEMMA StartSays ==
    ASSUME NEW no \in Nat
    PROVE  LET s == Message("R", no) \o Message("Z", no)
           IN  s \in Replied /\ Only(s, Substance) = s /\ s \in Replies("0", no)
<1> DEFINE R == Message("R", no)
           Z == Message("Z", no)
<1>1. R \in Replied /\ Only(R, Substance) = R BY MessageBack, MessageSaid DEF BackTypes
<1>2. Z \in Replied /\ Only(Z, Substance) = Z BY MessageBack, MessageSaid DEF BackTypes
<1>3. R \o Z \in Replies("0", no) BY DEF Replies
<1> HIDE DEF R, Z
<1>4. R \o Z \in Replied /\ Only(R \o Z, Substance) = R \o Z BY <1>1, <1>2, ReplyConcat, SaidConcat
<1> QED BY <1>3, <1>4 DEF R, Z

\* The ways GuestTake goes on once the unit u is off the ring.
Takes(u) ==
    \/ /\ u.type = "Q" /\ u.part = 1 /\ partial = 0
       /\ partial' = u.no
       /\ UNCHANGED <<guest, mode, held, out, notes>>
    \/ /\ IF u.type = "Q" THEN u.part = 2 /\ partial = u.no
                          ELSE u.type # "X" /\ partial = 0
       /\ Answer(u)
       /\ partial' = 0 /\ UNCHANGED guest
    \/ /\ u.type = "X" /\ partial = 0
       /\ Gone
    \/ /\ partial # 0 /\ ~ (u.type = "Q" /\ u.part = 2 /\ u.no = partial)
       /\ \/ Gone
          \/ guest' = "stuck" /\ UNCHANGED <<mode, partial, held, out, notes>>

\* A unit that ends a message is answered.
LEMMA TakesAnswer ==
    ASSUME NEW u, Takes(u),
           \/ partial = 0 /\ u.type \notin {"Q", "X"}
           \/ partial # 0 /\ u.type = "Q" /\ u.part = 2 /\ u.no = partial
    PROVE  Answer(u) /\ partial' = 0 /\ guest' = guest
BY DEF Takes

\* A message on its way to an idle or a skipping backend that is a Flush says nothing.
LEMMA TakesFlush ==
    ASSUME NEW u, Takes(u), u.type = "H", partial = 0, mode = "skip"
    PROVE  UNCHANGED <<out, held, mode, notes, partial, guest>>
<1>1. Answer(u) /\ partial' = 0 /\ guest' = guest BY TakesAnswer
<1>2. UNCHANGED <<out, held, mode, notes>> BY <1>1 DEF Answer
<1> QED BY <1>1, <1>2

\* Two messages of one unit each.
LEMMA TwoUnits ==
    \A x, y \in FrontUnit : Head(<<x>> \o <<y>>) = x /\ Tail(<<x>> \o <<y>>) = <<y>>
<1> TAKE x, y \in FrontUnit
<1>1. <<x>> \o <<y>> = <<x, y>> BY Joined
<1>2. Head(<<x, y>>) = x /\ Tail(<<x, y>>) = <<y>> OBVIOUS
<1> QED BY <1>1, <1>2, Zenon

\* So are a Flush before a Sync, and a Parse before its Flush.
LEMMA FlushFirst ==
    \A m, n \in Nat : /\ Head(Message("H", m) \o Message("S", n)) = Unit("H", m, 1)
                      /\ Tail(Message("H", m) \o Message("S", n)) = Message("S", n)
<1> TAKE m, n \in Nat
<1>1. Message("H", m) = <<Unit("H", m, 1)>> /\ Message("S", n) = <<Unit("S", n, 1)>>
  BY MessageIs DEF Long
<1>2. Unit("H", m, 1) \in FrontUnit /\ Unit("S", n, 1) \in FrontUnit
  BY DEF Unit, FrontUnit, FrontTypes
<1> QED BY <1>1, <1>2, TwoUnits, Zenon

LEMMA ParseFirst ==
    \A n \in Nat : /\ Head(Message("P", n) \o Message("H", n)) = Unit("P", n, 1)
                   /\ Tail(Message("P", n) \o Message("H", n)) = Message("H", n)
<1> TAKE n \in Nat
<1>1. Message("P", n) = <<Unit("P", n, 1)>> /\ Message("H", n) = <<Unit("H", n, 1)>>
  BY MessageIs DEF Long
<1>2. Unit("P", n, 1) \in FrontUnit /\ Unit("H", n, 1) \in FrontUnit
  BY DEF Unit, FrontUnit, FrontTypes
<1> QED BY <1>1, <1>2, TwoUnits, Zenon

\* A message of one unit.
LEMMA OneUnit ==
    ASSUME NEW t, t \notin Long, NEW n
    PROVE  /\ Message(t, n) = <<Unit(t, n, 1)>>
           /\ Head(Message(t, n)) = Unit(t, n, 1) /\ Tail(Message(t, n)) = << >>
           /\ Head(Message(t, n)).type = t /\ Head(Message(t, n)).no = n
<1>1. Message(t, n) = <<Unit(t, n, 1)>> BY MessageIs
<1>2. Unit(t, n, 1).type = t /\ Unit(t, n, 1).no = n BY DEF Unit
<1> QED BY <1>1, <1>2

\* The backend of an exchange takes a unit.
LEMMA TakeTurn ==
    ASSUME Typed, NEW kind \in Kinds, NEW no \in Nat, no > 0, no = issued, NEW F, F # << >>, NEW G, G = Tail(F),
           Takes(Head(F)), out = << >>, UNCHANGED <<buffered, wire, issued>>,
           Unanswered(kind, no, F) \/ Answered(kind, no, F)
    PROVE  guest' = guest /\ (Unanswered(kind, no, G) \/ Answered(kind, no, G))'
<1> DEFINE u == Head(F)
<1>0. notes \in Nat /\ issued \in Nat /\ Said \in Replied BY ComingIs, SaidType DEF Typed, Said
<1>e. /\ \A s \in Replied : << >> \o s = s
      /\ << >> \in Replied /\ Only(<< >>, Substance) = << >> /\ Said \o << >> = Said
  BY <1>0, EmptyBack, OnlyEmpty, ConcatEmptySeq DEF Replied
<1>k. out' = out => Said' = Said
  <2>1. out' = out => Said' = Said \o << >> BY <1>e, SaysMore
  <2> QED BY <1>e, <2>1
<1>m. ASSUME NEW s \in Replied, Said = << >>, out' \in Replied, Only(out', Substance) = s
      PROVE  Said' = s
  <2>1. Said' = << >> \o s BY <1>m, SaysMore
  <2> QED BY <1>e, <2>1
<1>1. CASE Answered(kind, no, F)
  <2>1. mode = "skip" /\ F = Message("H", no) /\ partial = 0 /\ kind = "P" /\ held = << >>
        /\ Said \in Replies(kind, no)
    BY <1>1 DEF Answered
  <2>2. u.type = "H" /\ G = << >>
    <3>1. "H" \notin Long BY DEF Long
    <3>2. F = Message("H", no) BY <2>1
    <3> QED BY <3>1, <3>2, OneUnit, Zenon
  <2>3. UNCHANGED <<out, held, mode, notes, partial, guest>> BY <2>1, <2>2, TakesFlush
  <2>4. Answered(kind, no, G)' BY <1>k, <2>1, <2>2, <2>3 DEF Answered
  <2> QED BY <2>3, <2>4
<1>2. CASE kind \in {"0", "S"} /\ partial = 0 /\ held = << >> /\ Said = << >> /\ F = Message(kind, no)
  <2>a. kind \notin Long BY <1>2 DEF Long
  <2>b. F = Message(kind, no) BY <1>2
  <2>1. u.type = kind /\ u.no = no /\ G = << >> BY <2>a, <2>b, OneUnit, Zenon
  <2>2. Answer(u) /\ partial' = 0 /\ guest' = guest BY <1>2, <2>1, TakesAnswer
  <2>3. held' = << >> /\ mode' # "skip" /\ Said' \in Replies(kind, no)
    <3>1. CASE kind = "0"
      <4>1. /\ out' = Message("R", no) \o Message("Z", no) /\ mode' = "quiet" /\ held' = << >>
        BY <2>1, <2>2, <3>1 DEF Answer
      <4> DEFINE s == Message("R", no) \o Message("Z", no)
      <4>2. s \in Replied /\ Only(s, Substance) = s /\ s \in Replies("0", no) BY StartSays
      <4> HIDE DEF s
      <4>3. out' = s BY <4>1 DEF s
      <4>4. Said' = s BY <1>2, <1>m, <4>2, <4>3
      <4> QED BY <3>1, <4>1, <4>2, <4>4
    <3>2. CASE kind = "S"
      <4>1. AnswerSync(no) /\ mode' = "idle" /\ held' = << >> BY <2>1, <2>2, <3>2 DEF Answer
      <4>2. out' \in Replied /\ Only(out', Substance) = Message("Z", no) BY <1>0, <1>2, <4>1, SyncSays
      <4>3. Message("Z", no) \in Replied BY MessageBack DEF BackTypes
      <4>4. Said' = Message("Z", no) BY <1>2, <1>m, <4>2, <4>3
      <4> QED BY <3>2, <4>1, <4>4 DEF Replies
    <3> QED BY <1>2, <3>1, <3>2
  <2>4. Answered(kind, no, G)' BY <2>1, <2>2, <2>3 DEF Answered
  <2> QED BY <2>2, <2>4
<1>3. CASE /\ kind = "S" /\ partial = 0 /\ held = << >> /\ Said = << >> /\ mode = "skip"
           /\ \E n \in 0 .. issued : F = Message("H", n) \o Message("S", no)
  <2>1. PICK n \in 0 .. issued : F = Message("H", n) \o Message("S", no) BY <1>3
  <2>2. Head(F) = Unit("H", n, 1) /\ G = Message("S", no)
    <3>1. n \in Nat /\ no \in Nat BY <1>0
    <3>2. /\ Head(Message("H", n) \o Message("S", no)) = Unit("H", n, 1)
          /\ Tail(Message("H", n) \o Message("S", no)) = Message("S", no)
      BY <3>1, FlushFirst, Zenon
    <3> QED BY <2>1, <3>2, Zenon
  <2>3. u.type = "H" BY <2>2 DEF Unit
  <2>4. UNCHANGED <<out, held, mode, notes, partial, guest>> BY <1>3, <2>3, TakesFlush
  <2>5. Unanswered(kind, no, G)' BY <1>3, <1>k, <2>2, <2>4 DEF Unanswered
  <2> QED BY <2>4, <2>5
<1>q. /\ Message("Q", no) = <<Unit("Q", no, 1), Unit("Q", no, 2)>>
      /\ \A p \in {1, 2} : Unit("Q", no, p).type = "Q" /\ Unit("Q", no, p).no = no /\ Unit("Q", no, p).part = p
  BY MessageIs DEF Long, Unit
<1>4. CASE kind = "Q" /\ mode # "skip" /\ held = << >> /\ Said = << >> /\ partial = 0 /\ F = Message("Q", no)
  <2>1. u = Unit("Q", no, 1) /\ G = <<Unit("Q", no, 2)>>
    <3>1. \A x, y : Head(<<x, y>>) = x /\ Tail(<<x, y>>) = <<y>> OBVIOUS
    <3>2. F = <<Unit("Q", no, 1), Unit("Q", no, 2)>> BY <1>4, <1>q
    <3> QED BY <3>1, <3>2
  <2>2. u.type = "Q" /\ u.no = no /\ u.part = 1 BY <1>q, <2>1
  <2>3. partial' = no /\ UNCHANGED <<guest, mode, held, out, notes>> BY <1>4, <2>2 DEF Takes
  <2>4. Unanswered(kind, no, G)' BY <1>4, <1>k, <2>1, <2>3 DEF Unanswered
  <2> QED BY <2>3, <2>4
<1>5. CASE kind = "Q" /\ mode # "skip" /\ held = << >> /\ Said = << >> /\ partial = no /\ F = <<Unit("Q", no, 2)>>
  <2>1. u = Unit("Q", no, 2) /\ G = << >> BY <1>5
  <2>2. u.type = "Q" /\ u.no = no /\ u.part = 2 BY <1>q, <2>1
  <2>3. Answer(u) /\ partial' = 0 /\ guest' = guest BY <1>5, <2>2, TakesAnswer
  <2>4. AnswerQuery(no) /\ mode' = "idle" /\ held' = << >> BY <1>5, <2>2, <2>3 DEF Answer
  <2>5. out' \in Replied /\ Only(out', Substance) \in Replies("Q", no) BY <1>0, <1>5, <2>4, QuerySays
  <2>6. Only(out', Substance) \in Replied BY <2>5, SaidType
  <2>7. Said' \in Replies("Q", no) BY <1>5, <1>m, <2>5, <2>6
  <2>8. Answered(kind, no, G)' BY <1>5, <2>1, <2>3, <2>4, <2>7 DEF Answered
  <2> QED BY <2>3, <2>8
<1>6. CASE /\ kind = "P" /\ mode # "skip" /\ partial = 0 /\ Said = << >> /\ held = << >>
           /\ F = Message("P", no) \o Message("H", no)
  <2>1. Head(F) = Unit("P", no, 1) /\ G = Message("H", no)
    <3>1. /\ Head(Message("P", no) \o Message("H", no)) = Unit("P", no, 1)
          /\ Tail(Message("P", no) \o Message("H", no)) = Message("H", no)
      BY ParseFirst, Zenon
    <3>2. F = Message("P", no) \o Message("H", no) BY <1>6
    <3> QED BY <3>1, <3>2, Zenon
  <2>2. u.type = "P" /\ u.no = no BY <2>1 DEF Unit
  <2>3. Answer(u) /\ partial' = 0 /\ guest' = guest BY <1>6, <2>2, TakesAnswer
  <2>a. Message("1", no) \in Replied /\ Message("E", no) \in Replied
        /\ Only(Message("E", no), Substance) = Message("E", no)
    BY MessageBack, MessageSaid DEF BackTypes
  <2>4. \/ held' = << >> \o Message("1", no) /\ out' = << >> /\ mode' = "ext"
        \/ out' = << >> \o Message("E", no) /\ held' = << >> /\ mode' = "skip"
    BY <1>6, <2>2, <2>3 DEF Answer
  <2>5. CASE held' = << >> \o Message("1", no) /\ out' = << >> /\ mode' = "ext"
    <3>1. held' = Message("1", no) BY <1>e, <2>a, <2>5
    <3>2. Said' = << >> BY <1>6, <1>k, <2>5
    <3>3. Unanswered(kind, no, G)' BY <1>6, <2>1, <2>3, <2>5, <3>1, <3>2 DEF Unanswered
    <3> QED BY <2>3, <3>3
  <2>6. CASE out' = << >> \o Message("E", no) /\ held' = << >> /\ mode' = "skip"
    <3>1. out' = Message("E", no) BY <1>e, <2>a, <2>6
    <3>2. Said' = Message("E", no) BY <1>6, <1>m, <2>a, <3>1
    <3>3. Said' \in Replies(kind, no) BY <1>6, <3>2 DEF Replies
    <3>4. Answered(kind, no, G)' BY <1>6, <2>1, <2>3, <2>6, <3>3 DEF Answered
    <3> QED BY <2>3, <3>4
  <2> QED BY <2>4, <2>5, <2>6
<1>7. CASE /\ kind = "P" /\ mode # "skip" /\ partial = 0 /\ Said = << >> /\ held = Message("1", no)
           /\ F = Message("H", no)
  <2>1. u.type = "H" /\ u.no = no /\ G = << >>
    <3>1. "H" \notin Long BY DEF Long
    <3>2. F = Message("H", no) BY <1>7
    <3> QED BY <3>1, <3>2, OneUnit, Zenon
  <2>2. Answer(u) /\ partial' = 0 /\ guest' = guest BY <1>7, <2>1, TakesAnswer
  <2>3. out' = Message("1", no) /\ held' = << >> /\ mode' = mode BY <1>7, <2>1, <2>2 DEF Answer
  <2>4. Message("1", no) \in Replied /\ Only(Message("1", no), Substance) = Message("1", no)
    BY MessageBack, MessageSaid DEF BackTypes
  <2>5. Said' = Message("1", no) BY <1>7, <1>m, <2>3, <2>4
  <2>6. Said' \in Replies(kind, no) BY <1>7, <2>5 DEF Replies
  <2>7. Answered(kind, no, G)' BY <1>7, <2>1, <2>2, <2>3, <2>6 DEF Answered
  <2> QED BY <2>2, <2>7
<1> QED BY <1>1, <1>2, <1>3, <1>4, <1>5, <1>6, <1>7 DEF Unanswered

\* The steps of the backend: a unit taken is answered, kept or skipped.
LEMMA SoundGuestTake == ASSUME Sound, Core', GuestTake PROVE Sound'
<1>1. /\ guest = "up" /\ out = << >> /\ toGuest # << >> /\ toGuest' = Tail(toGuest)
      /\ Takes(Head(toGuest)) /\ UNCHANGED <<wire, client, life>>
  BY DEF GuestTake, Takes
<1>2. UNCHANGED <<wire, buffered, ex, inFlight, issued, closed, closer>> BY <1>1 DEF client, life
<1>3. CASE closer # "idle" BY <1>2, <1>3, SoundClosing
<1>4. CASE closer = "idle"
  <2>1. Typed /\ Turns /\ Scanned /\ Live /\ ~ closed
    BY <1>1, <1>4 DEF Sound, Core, Talk, Dead
  <2>2. \A c \in Callers : Busy(c)' = Busy(c) BY <1>2 DEF Busy
  <2>3. Turns' BY <1>2, <2>1, <2>2 DEF Turns, Callers
  <2>4. Scanned' BY <1>2, <2>1 DEF Scanned
  <2>5. OwnReplies' BY <1>2 DEF Sound, OwnReplies
  <2>6. CASE \E c \in Callers : Busy(c)
    <3>1. PICK c \in Callers : Busy(c) BY <2>6
    <3>2. PICK kind, no, F : kind = ex[c].kind /\ no = ex[c].no /\ F = Forward(c) OBVIOUS
    <3>3. PICK G : G = Tail(F) OBVIOUS
    <3>4. /\ kind \in Kinds /\ no \in Nat /\ ex[c].unsent \in Asked /\ toGuest \in Asked
      BY <2>1, <3>2 DEF Typed, Exchange
    <3>5. no = issued /\ no > 0 BY <2>1, <3>1, <3>2 DEF Turns
    <3>6. F # << >> /\ Head(F) = Head(toGuest) /\ G = Tail(toGuest) \o ex[c].unsent
      BY <1>1, <3>2, <3>3, <3>4, HeadOf DEF Forward, Asked
    <3>7. Unanswered(kind, no, F) \/ Answered(kind, no, F) BY <1>1, <2>1, <3>1, <3>2 DEF Live
    <3>8. guest' = guest /\ (Unanswered(kind, no, G) \/ Answered(kind, no, G))'
      <4>1. Takes(Head(F)) BY <1>1, <3>6
      <4> QED BY <1>1, <1>2, <2>1, <3>3, <3>4, <3>5, <3>6, <3>7, <4>1, TakeTurn
    <3>9. ex'[c].kind = kind /\ ex'[c].no = no /\ Forward(c)' = G BY <1>1, <1>2, <3>2, <3>6 DEF Forward
    <3>10. (Unanswered(ex[c].kind, ex[c].no, Forward(c)) \/ Answered(ex[c].kind, ex[c].no, Forward(c)))'
      BY <3>8, <3>9 DEF Unanswered, Answered
    <3>11. \A d \in Callers : Busy(d)' => d = c BY <2>1, <2>2, <3>1 DEF Turns, Callers
    <3>12. Live' BY <1>1, <2>2, <3>1, <3>8, <3>10, <3>11 DEF Live
    <3> QED BY <1>2, <2>1, <2>3, <2>4, <2>5, <3>12 DEF Sound, Talk
  <2>7. CASE \A c \in Callers : ~ Busy(c)
    <3>1. Said = << >> /\ held = << >> /\ Resting BY <1>1, <2>1, <2>7 DEF Live
    <3>2. PICK n \in 0 .. issued : toGuest = Message("H", n) BY <1>1, <3>1 DEF Resting
    <3>3. partial = 0 /\ mode = "skip" BY <1>1, <3>1 DEF Resting
    <3>4. toGuest' = << >> /\ Head(toGuest).type = "H"
      <4>1. Head(toGuest) = Unit("H", n, 1) /\ Tail(toGuest) = << >> BY <3>2, OneUnit DEF Long
      <4> QED BY <1>1, <4>1 DEF Unit
    <3>5. UNCHANGED <<out, held, mode, notes, partial, guest>> BY <1>1, <3>3, <3>4, TakesFlush
    <3>6. Said' = Said BY <1>2, <3>5 DEF Said, Coming
    <3>7. Resting'
      <4>1. ex["query"].phase = "called" /\ ex["query"].todo = <<"S">> BY <3>1, <3>3 DEF Resting
      <4> QED BY <1>2, <3>3, <3>4, <3>5, <4>1 DEF Resting
    <3>8. Live' BY <2>2, <2>7, <3>1, <3>5, <3>6, <3>7 DEF Live
    <3> QED BY <1>2, <2>1, <2>3, <2>4, <2>5, <3>8 DEF Sound, Talk
  <2> QED BY <2>6, <2>7
<1> QED BY <1>3, <1>4

LEMMA SoundGuestEmit == ASSUME Sound, Core', GuestEmit PROVE Sound'
<1>1. /\ guest = "up" /\ out # << >> /\ wire' = Append(wire, Head(out)) /\ out' = Tail(out)
      /\ UNCHANGED <<toGuest, buffered, ex, inFlight, issued, closer, closed, guest, mode, partial, held>>
  BY DEF GuestEmit, client, life
<1>2. CASE closer # "idle" BY <1>1, <1>2, SoundClosing
<1>3. CASE closer = "idle"
  <2>1. ~ closed BY <1>1, <1>3 DEF Sound, Talk, Dead
  <2>2. Coming' = Coming BY <1>1, EmitComing DEF Sound, Core
  <2>3. Said' = Said BY <2>2 DEF Said
  <2> QED BY <1>1, <2>1, <2>3, SoundQuiet
<1> QED BY <1>2, <1>3

LEMMA SoundGuestNotify == ASSUME Sound, Core', GuestNotify PROVE Sound'
<1>1. /\ guest = "up" /\ out = << >> /\ out' = Message("A", notes + 1)
      /\ UNCHANGED <<toGuest, wire, buffered, ex, inFlight, issued, closer, closed, guest, mode, partial, held>>
  BY DEF GuestNotify, client, life
<1>2. CASE closer # "idle" BY <1>1, <1>2, SoundClosing
<1>3. CASE closer = "idle"
  <2>1. ~ closed BY <1>1, <1>3 DEF Sound, Talk, Dead
  <2>2. Typed /\ notes + 1 \in Nat BY DEF Sound, Core, Typed
  <2>3. out' \in Replied /\ Only(out', Substance) = << >>
    BY <1>1, <2>2, MessageBack, MessageSaid DEF BackTypes
  <2>4. Said' = Said \o << >> BY <1>1, <2>2, <2>3, SaysMore
  <2>5. Said \in Replied BY <2>2, ComingIs, SaidType DEF Said
  <2>6. Said' = Said BY <2>4, <2>5, ConcatEmptySeq DEF Replied
  <2> QED BY <1>1, <2>1, <2>6, SoundQuiet
<1> QED BY <1>2, <1>3

LEMMA SoundGuestExit == ASSUME Sound, Core', GuestExit PROVE Sound'
<1>1. /\ guest = "up" /\ guest' = "gone" /\ held' = << >> /\ out' = << >>
      /\ UNCHANGED <<toGuest, wire, buffered, ex, inFlight, issued, closer, closed, mode, partial>>
  BY DEF GuestExit, Gone, client, life
<1>2. CASE closer # "idle" BY <1>1, <1>2, SoundClosing
<1>3. CASE closer = "idle"
  <2>1. Typed /\ Turns /\ Scanned /\ Live /\ ~ closed
    BY <1>1, <1>3 DEF Sound, Core, Talk, Dead
  <2>2. \A c \in Callers : Busy(c)' = Busy(c) BY <1>1 DEF Busy
  <2>3. Turns' BY <1>1, <2>1, <2>2 DEF Turns, Callers
  <2>4. Scanned' BY <1>1, <2>1 DEF Scanned
  <2>5. OwnReplies' BY <1>1 DEF Sound, OwnReplies
  <2> DEFINE b == buffered \o wire
             y == Only(out, Substance)
  <2>6. b \in Replied /\ out \in Replied /\ Coming = b \o out BY <2>1, ComingIs DEF Typed
  <2>7. Coming' = b
    <3>1. b \o << >> = b BY <2>6, ConcatEmptySeq DEF Replied
    <3> QED BY <1>1, <3>1 DEF Coming
  <2> DEFINE x == Only(b, Substance)
  <2>8. Said' = x BY <2>7 DEF Said
  <2> HIDE DEF b
  <2>9. x \in Replied /\ y \in Replied /\ Said = x \o y
    <3>1. Only(b \o out, Substance) = x \o y BY <2>6, SaidConcat
    <3> QED BY <2>6, <3>1, SaidType DEF Said
  <2> HIDE DEF x, y
  <2>10. Said = << >> => Said' = << >>
    <3>1. x \o y = << >> => x = << >>
      <4>1. SetOf(x \o y) = SetOf(x) \cup SetOf(y) BY <2>9, SetOfConcat DEF Replied
      <4> QED BY <2>9, <4>1, SetOfEmpty, EmptySetOf DEF Replied
    <3> QED BY <2>8, <2>9, <3>1
  <2>11. ASSUME NEW c \in Callers, Busy(c) PROVE PartOf(Said, ex[c].kind, ex[c].no)'
    <3>1. Unanswered(ex[c].kind, ex[c].no, Forward(c)) \/ Answered(ex[c].kind, ex[c].no, Forward(c))
      BY <1>1, <2>1, <2>11 DEF Live
    <3>2. PICK kind, no : kind = ex[c].kind /\ no = ex[c].no OBVIOUS
    <3>3. kind \in Kinds /\ no \in Nat BY <2>1, <3>2 DEF Typed, Exchange
    <3>4. PartOf(Said', kind, no)
      <4>1. CASE Said = << >> BY <2>10, <3>3, <4>1, PartOfAll
      <4>2. CASE Said \in Replies(kind, no)
        <5>1. PartOf(x \o y, kind, no) BY <2>9, <3>3, <4>2, PartOfAll
        <5>2. PartOf(x, kind, no) BY <2>9, <3>3, <5>1, PartOfPart
        <5> QED BY <2>8, <5>2
      <4> QED BY <3>1, <3>2, <4>1, <4>2 DEF Unanswered, Answered
    <3> QED BY <1>1, <3>2, <3>4 DEF PartOf
  <2>12. (\A c \in Callers : ~ Busy(c)) => Said' = << >> BY <2>1, <2>10 DEF Live
  <2>13. Live' BY <1>1, <2>2, <2>11, <2>12 DEF Live
  <2> QED BY <1>1, <2>1, <2>3, <2>4, <2>5, <2>13 DEF Sound, Talk
<1> QED BY <1>2, <1>3

\* The first state.
LEMMA SoundInit == Init => Sound
<1> SUFFICES ASSUME Init PROVE Sound OBVIOUS
<1>1. Core BY CoreInit
<1>2. /\ toGuest = << >> /\ wire = << >> /\ buffered = << >> /\ out = << >> /\ held = << >>
      /\ inFlight = FALSE /\ issued = 0 /\ closed = FALSE /\ partial = 0 /\ mode = "start"
  BY DEF Init
<1>3. ex["raw"].phase = "idle" /\ ex["raw"].todo = << >> /\ ex["query"].phase = "called"
      /\ \A c \in Callers : /\ ex[c].no = 0 /\ ex[c].unsent = << >> /\ ex[c].scanned = 0
                            /\ ex[c].reply = << >>
  BY DEF Init, NoExchange, Callers
<1>4. \A c \in Callers : ~ Busy(c) BY <1>3 DEF Busy, Callers
<1>5. Turns BY <1>2, <1>3, <1>4 DEF Turns, Callers
<1>6. Said = << >>
  <2>1. Coming = buffered \o wire /\ << >> \o << >> = << >>
    BY <1>1, <1>2, ComingIs, EmptySeq, ConcatEmptySeq DEF Core
  <2> QED BY <1>2, <2>1, OnlyEmpty DEF Said
<1>7. Resting BY <1>2 DEF Resting
<1>8. Talk BY <1>2, <1>4, <1>6, <1>7 DEF Talk, Live, Scanned, Busy
<1>9. OwnReplies BY <1>3 DEF OwnReplies
<1> QED BY <1>1, <1>5, <1>8, <1>9 DEF Sound

\* Every step.
LEMMA SoundNext == ASSUME ~ overlapped', Sound, [Next]_vars PROVE Sound'
<1>0. Core' BY CoreNext DEF Sound
<1>1. ASSUME NEW kind \in {"Q", "P"}, CallQuery(kind) PROVE Sound' BY <1>0, <1>1, SoundCallQuery
<1>2. CASE NextMessage BY <1>0, <1>2, SoundNextMessage
<1>3. CASE CallRawStream BY <1>0, <1>3, SoundCallRawStream
<1>4. ASSUME NEW c \in Callers, ExchangeStep(c) PROVE Sound'
  <2>1. CASE Send(c) BY <1>0, <2>1, SoundSend
  <2>2. CASE FirstScan(c) BY <1>0, <2>2, SoundFirstScan
  <2>3. CASE Read(c) BY <1>0, <2>3, SoundRead
  <2>4. CASE ReadEof(c) BY <1>0, <2>4, SoundReadEof
  <2> QED BY <1>4, <2>1, <2>2, <2>3, <2>4 DEF ExchangeStep
<1>5. CASE \/ StartPump \/ PumpReturn \/ StartClose \/ SendTerminate \/ CloseRead \/ CloseEof
           \/ GuestTraps \/ UNCHANGED vars
  BY <1>0, <1>5, SoundLife
<1>6. CASE PumpRead BY <1>0, <1>6, SoundPumpRead
<1>7. CASE GuestTake BY <1>0, <1>7, SoundGuestTake
<1>8. CASE GuestEmit BY <1>0, <1>8, SoundGuestEmit
<1>9. CASE GuestNotify BY <1>0, <1>9, SoundGuestNotify
<1>10. CASE GuestExit BY <1>0, <1>10, SoundGuestExit
<1> QED BY <1>1, <1>2, <1>3, <1>4, <1>5, <1>6, <1>7, <1>8, <1>9, <1>10 DEF Next, CloseStep, GuestStep

\* An overlap is never forgotten.
LEMMA OverlapStays == ASSUME [Next]_vars, overlapped PROVE overlapped'
<1>1. ASSUME NEW c \in Callers, NEW kind, NEW sync, NEW todo, Begin(c, kind, sync, todo)
      PROVE  overlapped'
  BY <1>1 DEF Begin
<1>2. CASE NextMessage
  <2>1. "query" \in Callers BY DEF Callers
  <2> QED BY <1>1, <1>2, <2>1 DEF NextMessage
<1>3. CASE CallRawStream
  <2>1. "raw" \in Callers BY DEF Callers
  <2> QED BY <1>1, <1>3, <2>1 DEF CallRawStream
<1>4. CASE ~ NextMessage /\ ~ CallRawStream
  BY <1>4 DEF Next, vars, CallQuery, ExchangeStep, Send, FirstScan, Read, ReadEof, StartPump, PumpReturn,
       PumpRead, StartClose, CloseStep, SendTerminate, CloseRead, CloseEof, GuestStep, GuestTake,
       GuestEmit, GuestNotify, GuestExit, GuestTraps
<1> QED BY <1>2, <1>3, <1>4

\* The inductive invariant: the stream's, and Sound as long as calls take turns.
TurnBased == Core /\ (~ overlapped => Sound)

(* As long as no exchange began during the other caller's call, what is said  *)
(* and not yet read is a part of the answer to the one exchange, or nothing,  *)
(* or what a dead backend left.  After an overlap it is false:                *)
(* execProtocolRawStream takes no query mutex, and two exchanges on one ring  *)
(* read each other's replies.                                                 *)
THEOREM SoundHolds == Spec => []TurnBased
<1>1. Init => TurnBased BY SoundInit DEF TurnBased, Sound
<1>2. TurnBased /\ [Next]_vars => TurnBased'
  <2> SUFFICES ASSUME TurnBased, [Next]_vars PROVE TurnBased' OBVIOUS
  <2>1. Core' BY CoreNext DEF TurnBased
  <2>2. ASSUME ~ overlapped' PROVE Sound'
    <3>1. Sound BY <2>2, OverlapStays DEF TurnBased
    <3> QED BY <2>2, <3>1, SoundNext
  <2> QED BY <2>1, <2>2 DEF TurnBased
<1> QED BY <1>1, <1>2, PTL DEF Spec

(* As long as calls take turns, what an exchange returns is the whole answer  *)
(* to its own message, or, on a session its backend closed, what the backend  *)
(* left of one earlier answer (#exchange, #scanForReply).                     *)
THEOREM ReplyIntegrityHolds == Spec => []ReplyIntegrity
<1>1. TurnBased => ReplyIntegrity BY DEF TurnBased, Sound, ReplyIntegrity
<1> QED BY <1>1, SoundHolds, PTL

(* Between two exchanges that took turns nothing of a reply is left in the    *)
(* ring, in the buffer or with the backend: the next exchange cannot read the *)
(* last one's tail (endsReplyTo, #scanForReply).                              *)
THEOREM NothingLeftOverHolds == Spec => []NothingLeftOver
<1>1. ASSUME TurnBased PROVE NothingLeftOver
  <2> SUFFICES ASSUME ~ overlapped, closer = "idle", ~ closed, \A c \in Callers : ~ Busy(c)
               PROVE  held = << >> /\ \A i \in 1 .. Len(Coming) : Coming[i].type = "A"
    BY DEF NothingLeftOver
  <2>0. Sound BY <1>1 DEF TurnBased
  <2>1. Said = << >> /\ held = << >> BY <2>0 DEF Sound, Talk, Live
  <2>2. Coming \in Replied BY <2>0, ComingIs DEF Sound, Core
  <2>3. SetOf(Coming) \cap Substance = {} BY <2>1, <2>2, OnlyNone DEF Said, Replied
  <2>4. ASSUME NEW i \in 1 .. Len(Coming) PROVE Coming[i].type = "A"
    <3>1. Coming[i] \in SetOf(Coming) BY DEF SetOf
    <3>2. Coming[i] \in BackUnit BY <2>2, ElementOfSeq DEF Replied
    <3>3. Coming[i] \notin Substance BY <2>3, <3>1
    <3> QED BY <3>2, <3>3 DEF BackUnit, BackTypes, Substance
  <2> QED BY <2>1, <2>4
<1> QED BY <1>1, SoundHolds, PTL
=============================================================================
