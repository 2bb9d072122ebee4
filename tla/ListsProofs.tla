----------------------------- MODULE ListsProofs -----------------------------
(* What the operators of Lists return, and the facts about numbers it takes   *)
(* to say so.                                                                 *)
EXTENDS Lists, SequenceTheorems, WellFoundedInduction, TLAPS

(* ---------------------------------- numbers --------------------------------- *)

(* Induction, for a set: the least number outside it would be 0 or have a     *)
(* predecessor in it.                                                         *)
LEMMA Inductive ==
    ASSUME NEW S, 0 \in S, \A n \in Nat : n \in S => n + 1 \in S
    PROVE  Nat \subseteq S
<1> SUFFICES ASSUME Nat \ S # {} PROVE FALSE
  OBVIOUS
<1>1. PICK n \in Nat \ S : \A m \in Nat \ S : ~(<<m, n>> \in OpToRel(<, Nat))
  BY NatLessThanWellFounded, WFMin
<1>2. n \in Nat /\ n # 0
  BY <1>1
<1>3. n - 1 \in Nat /\ n - 1 < n
  BY <1>2
<1>4. <<n - 1, n>> \in OpToRel(<, Nat)
  BY <1>2, <1>3 DEF OpToRel
<1>5. n - 1 \in S
  BY <1>1, <1>3, <1>4
<1>6. (n - 1) + 1 \in S /\ (n - 1) + 1 = n
  BY <1>2, <1>3, <1>5
<1>7. QED
  BY <1>1, <1>6

(* A set of numbers has a least one, and a bounded one has a greatest.        *)
LEMMA Least ==
    ASSUME NEW S \in SUBSET Nat, S # {}
    PROVE  \E n \in S : \A m \in S : n <= m
<1>1. PICK n \in S : \A m \in S : ~(<<m, n>> \in OpToRel(<, Nat))
  BY NatLessThanWellFounded, WFMin
<1>2. \A m \in S : m < n => <<m, n>> \in OpToRel(<, Nat)
  <2>1. n \in Nat /\ \A m \in S : m \in Nat
    OBVIOUS
  <2>2. QED
    BY <2>1 DEF OpToRel
<1>3. \A m \in S : ~(m < n) /\ m \in Nat /\ n \in Nat
  BY <1>1, <1>2
<1>4. \A m \in S : n <= m
  BY <1>3
<1>5. QED
  BY <1>4

LEMMA Greatest ==
    ASSUME NEW B \in Nat, NEW S \in SUBSET (0..B), S # {}
    PROVE  \E n \in S : \A m \in S : m <= n
<1> DEFINE D == {B - n : n \in S}
<1>1. D \in SUBSET Nat /\ D # {}
  <2>1. \A n \in S : n \in Nat /\ n <= B
    OBVIOUS
  <2>2. \A n \in S : B - n \in Nat
    BY <2>1
  <2>3. QED
    BY <2>2
<1>2. PICK d \in D : \A e \in D : d <= e
  <2> HIDE DEF D
  <2>1. QED
    BY <1>1, Least
<1>3. PICK n \in S : d = B - n
  BY <1>2
<1>4. \A m \in S : d <= B - m
  BY <1>2
<1>5. \A m \in S : m <= n
  BY <1>3, <1>4
<1>6. QED
  BY <1>5

(* ---------------------------------- joining --------------------------------- *)

(* The function Joined recurs with.                                           *)
IsJoined(f, ss, m) ==
    f = [n \in 0..m |-> IF n = 0 THEN <<>> ELSE f[n - 1] \o ss[n]]

(* There is such a function for any sequence,                                 *)
LEMMA JoinedExists ==
    ASSUME NEW ss, NEW m \in Nat
    PROVE  \E f : IsJoined(f, ss, m)
<1> DEFINE S == {n \in Nat : \E f : IsJoined(f, ss, n)}
<1>1. 0 \in S
  <2> DEFINE k == [n \in 0..0 |-> <<>>]
  <2>1. IsJoined(k, ss, 0)
    BY DEF IsJoined
  <2>2. QED
    BY <2>1
<1>2. ASSUME NEW n \in Nat, n \in S PROVE n + 1 \in S
  <2>1. PICK f : IsJoined(f, ss, n)
    BY <1>2
  <2> DEFINE next == f[n] \o ss[n + 1]
             g == [i \in 0..(n + 1) |-> IF i <= n THEN f[i] ELSE next]
  <2>2. \A i \in 0..n : g[i] = f[i]
    OBVIOUS
  <2>3. \A i \in 0..n : f[i] = IF i = 0 THEN <<>> ELSE f[i - 1] \o ss[i]
    BY <2>1 DEF IsJoined
  <2>4. \A i \in 0..(n + 1) : g[i] = IF i = 0 THEN <<>> ELSE g[i - 1] \o ss[i]
    <3> SUFFICES ASSUME NEW i \in 0..(n + 1) PROVE g[i] = IF i = 0 THEN <<>> ELSE g[i - 1] \o ss[i]
      OBVIOUS
    <3>1. CASE i = 0
      BY <3>1, <2>2, <2>3
    <3>2. CASE i \in 1..n
      <4>1. i - 1 \in 0..n /\ i \in 0..n /\ i # 0
        BY <3>2
      <4>2. g[i] = f[i] /\ g[i - 1] = f[i - 1]
        BY <4>1, <2>2
      <4>3. QED
        BY <4>1, <4>2, <2>3
    <3>3. CASE i = n + 1
      <4>1. g[i] = next /\ i - 1 = n /\ g[n] = f[n] /\ i # 0
        BY <3>3, <2>2
      <4>2. QED
        BY <3>3, <4>1
    <3>4. QED
      BY <3>1, <3>2, <3>3
  <2>5. IsJoined(g, ss, n + 1)
    <3> HIDE DEF next
    <3>1. g = [i \in 0..(n + 1) |-> g[i]]
      OBVIOUS
    <3> HIDE DEF g
    <3>2. QED
      BY <2>4, <3>1 DEF IsJoined
  <2>6. QED
    BY <2>5
<1>3. m \in S
  <2> HIDE DEF S
  <2>1. QED
    BY <1>1, <1>2, Inductive
<1>4. QED
  BY <1>3

(* and what it returns for n is the first n sequences joined.                 *)
LEMMA JoinedSteps ==
    ASSUME NEW ss, Len(ss) \in Nat
    PROVE  \E f : /\ f[0] = <<>> /\ f[Len(ss)] = Joined(ss)
                  /\ \A n \in 1..Len(ss) : f[n] = f[n - 1] \o ss[n]
<1> DEFINE f == CHOOSE g : IsJoined(g, ss, Len(ss))
<1>1. IsJoined(f, ss, Len(ss))
  <2>1. \E g : IsJoined(g, ss, Len(ss))
    BY JoinedExists
  <2>2. QED
    BY <2>1
<1>2. Joined(ss) = f[Len(ss)]
  BY DEF Joined, IsJoined
<1> HIDE DEF f
<1>3. \A n \in 0..Len(ss) : f[n] = IF n = 0 THEN <<>> ELSE f[n - 1] \o ss[n]
  BY <1>1 DEF IsJoined
<1>4. 0 \in 0..Len(ss) /\ \A n \in 1..Len(ss) : n \in 0..Len(ss) /\ n # 0
  OBVIOUS
<1>5. f[0] = <<>> /\ \A n \in 1..Len(ss) : f[n] = f[n - 1] \o ss[n]
  BY <1>3, <1>4
<1>6. QED
  BY <1>2, <1>5

(* Nothing joined is nothing; pieces of R give a sequence of R.               *)
LEMMA JoinedEmpty == Joined(<<>>) = <<>>
<1>1. Len(<<>>) = 0
  OBVIOUS
<1>2. QED
  BY <1>1, JoinedSteps

LEMMA JoinedType ==
    ASSUME NEW R, NEW ss \in Seq(Seq(R))
    PROVE  Joined(ss) \in Seq(R)
<1>0. Len(ss) \in Nat /\ \A n \in 1..Len(ss) : ss[n] \in Seq(R)
  OBVIOUS
<1>1. PICK f : /\ f[0] = <<>> /\ f[Len(ss)] = Joined(ss)
               /\ \A n \in 1..Len(ss) : f[n] = f[n - 1] \o ss[n]
  BY <1>0, JoinedSteps
<1> DEFINE S == {n \in Nat : n <= Len(ss) => f[n] \in Seq(R)}
<1>2. 0 \in S
  <2>1. <<>> \in Seq(R)
    OBVIOUS
  <2>2. QED
    BY <1>1, <2>1
<1>3. ASSUME NEW n \in Nat, n \in S PROVE n + 1 \in S
  <2> SUFFICES ASSUME n + 1 <= Len(ss) PROVE f[n + 1] \in Seq(R)
    OBVIOUS
  <2>0. n + 1 \in 1..Len(ss) /\ (n + 1) - 1 = n /\ n <= Len(ss)
    BY <1>0
  <2>1. f[n + 1] = f[n] \o ss[n + 1] /\ f[n] \in Seq(R) /\ ss[n + 1] \in Seq(R)
    BY <1>0, <1>1, <1>3, <2>0
  <2>2. QED
    BY <2>1
<1>4. Len(ss) \in S
  <2> HIDE DEF S
  <2>1. QED
    BY <1>2, <1>3, Inductive
<1>5. QED
  BY <1>1, <1>4

LEMMA ConcatIs == \A R : \A a, b \in Seq(R) :
    /\ a \o b \in Seq(R) /\ Len(a \o b) = Len(a) + Len(b)
    /\ \A i \in 1..Len(a) + Len(b) : (a \o b)[i] = IF i <= Len(a) THEN a[i] ELSE b[i - Len(a)]
BY ConcatProperties

LEMMA ConcatThree == \A R : \A a, b, c \in Seq(R) : (a \o b) \o c = a \o (b \o c)
BY ConcatAssociative

(* Joining two sequences of pieces joins what they come to.                   *)
LEMMA JoinedConcat ==
    ASSUME NEW R, NEW ss \in Seq(Seq(R)), NEW tt \in Seq(Seq(R))
    PROVE  Joined(ss \o tt) = Joined(ss) \o Joined(tt)
<1> DEFINE uu == ss \o tt
           m == Len(ss)
           l == Len(tt)
<1>1. /\ uu \in Seq(Seq(R)) /\ Len(uu) = m + l /\ m \in Nat /\ l \in Nat
      /\ \A i \in 1..m : uu[i] = ss[i]
      /\ \A i \in 1..l : uu[m + i] = tt[i] /\ tt[i] \in Seq(R)
  BY ConcatProperties
<1> HIDE DEF uu
<1>a. Len(uu) \in Nat
  BY <1>1
<1>2. PICK f : /\ f[0] = <<>> /\ f[Len(uu)] = Joined(uu)
               /\ \A n \in 1..Len(uu) : f[n] = f[n - 1] \o uu[n]
  BY <1>a, JoinedSteps
<1>3. PICK g : /\ g[0] = <<>> /\ g[m] = Joined(ss)
               /\ \A n \in 1..m : g[n] = g[n - 1] \o ss[n]
  BY <1>1, JoinedSteps
<1>4. PICK h : /\ h[0] = <<>> /\ h[l] = Joined(tt)
               /\ \A n \in 1..l : h[n] = h[n - 1] \o tt[n]
  BY <1>1, JoinedSteps
<1>5. f[m] = g[m]
  <2> DEFINE S == {n \in Nat : n <= m => f[n] = g[n]}
  <2>1. 0 \in S
    BY <1>2, <1>3
  <2>2. ASSUME NEW n \in Nat, n \in S PROVE n + 1 \in S
    <3> SUFFICES ASSUME n + 1 <= m PROVE f[n + 1] = g[n + 1]
      OBVIOUS
    <3>1. n + 1 \in 1..Len(uu) /\ n + 1 \in 1..m /\ (n + 1) - 1 = n
      BY <1>1
    <3>2. f[n + 1] = f[n] \o uu[n + 1] /\ g[n + 1] = g[n] \o ss[n + 1]
      BY <1>2, <1>3, <3>1
    <3>3. uu[n + 1] = ss[n + 1] /\ f[n] = g[n]
      BY <1>1, <2>2, <3>1
    <3>4. QED
      BY <3>2, <3>3
  <2>3. m \in S
    <3> HIDE DEF S
    <3>1. QED
      BY <1>1, <2>1, <2>2, Inductive
  <2>4. QED
    BY <2>3
<1>6. Joined(ss) \in Seq(R)
  BY JoinedType
<1>7. f[m + l] = Joined(ss) \o h[l]
  <2> DEFINE S == {n \in Nat : n <= l => h[n] \in Seq(R) /\ f[m + n] = Joined(ss) \o h[n]}
  <2>1. 0 \in S
    <3>1. <<>> \in Seq(R) /\ Joined(ss) \o <<>> = Joined(ss) /\ m + 0 = m
      BY <1>1, <1>6, ConcatEmptySeq
    <3>2. QED
      BY <1>3, <1>4, <1>5, <3>1
  <2>2. ASSUME NEW n \in Nat, n \in S PROVE n + 1 \in S
    <3> SUFFICES ASSUME n + 1 <= l
                 PROVE  h[n + 1] \in Seq(R) /\ f[m + (n + 1)] = Joined(ss) \o h[n + 1]
      OBVIOUS
    <3>1. /\ n + 1 \in 1..l /\ (n + 1) - 1 = n
          /\ m + (n + 1) \in 1..Len(uu) /\ (m + (n + 1)) - 1 = m + n
      BY <1>1
    <3>2. h[n + 1] = h[n] \o tt[n + 1] /\ f[m + (n + 1)] = f[m + n] \o uu[m + (n + 1)]
      BY <1>2, <1>4, <3>1
    <3>3. h[n] \in Seq(R) /\ f[m + n] = Joined(ss) \o h[n] /\ tt[n + 1] \in Seq(R)
          /\ uu[m + (n + 1)] = tt[n + 1]
      BY <1>1, <2>2, <3>1, SMTT(30)
    <3>4. (Joined(ss) \o h[n]) \o tt[n + 1] = Joined(ss) \o (h[n] \o tt[n + 1])
      <4>1. Joined(ss) \in Seq(R) /\ h[n] \in Seq(R) /\ tt[n + 1] \in Seq(R)
        BY <1>6, <3>3
      <4>2. \A x, y, z \in Seq(R) : (x \o y) \o z = x \o (y \o z)
        BY ConcatThree, SMTT(30)
      <4>3. QED
        BY <4>1, <4>2, Zenon
    <3>5. h[n + 1] \in Seq(R)
      BY <3>2, <3>3
    <3>6. QED
      BY <3>2, <3>3, <3>4, <3>5
  <2>3. l \in S
    <3> HIDE DEF S
    <3>1. QED
      BY <1>1, <2>1, <2>2, Inductive
  <2>4. QED
    BY <2>3
<1>8. QED
  BY <1>1, <1>2, <1>4, <1>7 DEF uu

(* One more piece is appended to what the others come to.                     *)
LEMMA JoinedOne ==
    ASSUME NEW R, NEW t \in Seq(R)
    PROVE  Joined(<<t>>) = t
<1>1. Len(<<t>>) = 1 /\ <<t>>[1] = t
  OBVIOUS
<1>2. PICK f : /\ f[0] = <<>> /\ f[1] = Joined(<<t>>)
               /\ \A n \in 1..1 : f[n] = f[n - 1] \o <<t>>[n]
  BY <1>1, JoinedSteps
<1>3. f[1] = <<>> \o t
  BY <1>1, <1>2
<1>4. QED
  BY <1>2, <1>3, ConcatEmptySeq

LEMMA JoinedNext ==
    ASSUME NEW R, NEW ss \in Seq(Seq(R)), NEW t \in Seq(R)
    PROVE  Joined(Append(ss, t)) = Joined(ss) \o t
<1>1. Append(ss, t) = ss \o <<t>> /\ <<t>> \in Seq(Seq(R))
  OBVIOUS
<1>2. Joined(ss \o <<t>>) = Joined(ss) \o Joined(<<t>>)
  BY <1>1, JoinedConcat
<1>3. QED
  BY <1>1, <1>2, JoinedOne

LEMMA JoinedUpTo == \A R : \A ss, tt \in Seq(Seq(R)) :
    Len(tt) = Len(ss) + 1 /\ (\A i \in 1..Len(ss) : tt[i] = ss[i]) => Joined(tt) = Joined(ss) \o tt[Len(tt)]
<1> SUFFICES ASSUME NEW R, NEW ss \in Seq(Seq(R)), NEW tt \in Seq(Seq(R)),
                    Len(tt) = Len(ss) + 1, \A i \in 1..Len(ss) : tt[i] = ss[i]
             PROVE  Joined(tt) = Joined(ss) \o tt[Len(tt)]
  OBVIOUS
<1>1. Len(tt) \in 1..Len(tt)
  OBVIOUS
<1>2. tt[Len(tt)] \in Seq(R)
  BY <1>1
<1>3. Append(ss, tt[Len(tt)]) = tt
  BY <1>2
<1>4. QED
  BY <1>2, <1>3, JoinedNext

(* Empty pieces come to nothing.                                              *)
LEMMA JoinedNothing ==
    ASSUME NEW ss, Len(ss) \in Nat, \A n \in 1..Len(ss) : ss[n] = <<>>
    PROVE  Joined(ss) = <<>>
<1>1. PICK f : /\ f[0] = <<>> /\ f[Len(ss)] = Joined(ss)
               /\ \A n \in 1..Len(ss) : f[n] = f[n - 1] \o ss[n]
  BY JoinedSteps
<1> DEFINE S == {n \in Nat : n <= Len(ss) => f[n] = <<>>}
<1>2. 0 \in S
  BY <1>1
<1>3. ASSUME NEW n \in Nat, n \in S PROVE n + 1 \in S
  <2> SUFFICES ASSUME n + 1 <= Len(ss) PROVE f[n + 1] = <<>>
    OBVIOUS
  <2>0. n + 1 \in 1..Len(ss) /\ (n + 1) - 1 = n /\ n <= Len(ss)
    OBVIOUS
  <2>1. f[n + 1] = f[n] \o ss[n + 1] /\ f[n] = <<>> /\ ss[n + 1] = <<>>
    BY <1>1, <1>3, <2>0
  <2>2. <<>> \o <<>> = <<>>
    OBVIOUS
  <2>3. QED
    BY <2>1, <2>2
<1>4. Len(ss) \in S
  <2> HIDE DEF S
  <2>1. QED
    BY <1>2, <1>3, Inductive
<1>5. QED
  BY <1>1, <1>4

(* ---------------------------------- picking --------------------------------- *)

Pieces(s, ks) == [k \in DOMAIN s |-> IF k \in ks THEN <<s[k]>> ELSE <<>>]

LEMMA PiecesType ==
    ASSUME NEW R, NEW s \in Seq(R), NEW ks
    PROVE  /\ Pieces(s, ks) \in Seq(Seq(R)) /\ Len(Pieces(s, ks)) = Len(s)
           /\ Picked(s, ks) = Joined(Pieces(s, ks))
<1>1. DOMAIN s = 1..Len(s) /\ Len(s) \in Nat /\ \A k \in DOMAIN s : s[k] \in R
  OBVIOUS
<1>2. \A k \in DOMAIN s : Pieces(s, ks)[k] \in Seq(R)
  BY <1>1 DEF Pieces
<1>3. Pieces(s, ks) = [k \in 1..Len(s) |-> Pieces(s, ks)[k]]
  BY <1>1 DEF Pieces
<1>4. QED
  BY <1>1, <1>2, <1>3 DEF Picked, Pieces

(* This is a sequence of the elements at those places, all of them, in order. *)
Follows(r, s, ks) ==
    \E at \in [1..Len(r) -> ks] :
        /\ \A k \in 1..Len(r) : r[k] = s[at[k]]
        /\ \A j, k \in 1..Len(r) : j < k => at[j] < at[k]
        /\ \A n \in ks : \E k \in 1..Len(r) : at[k] = n

LEMMA PickedFollows ==
    ASSUME NEW R, NEW s \in Seq(R), NEW ks
    PROVE  Picked(s, ks) \in Seq(R) /\ Follows(Picked(s, ks), s, ks \cap DOMAIN s)
<1> DEFINE ss == Pieces(s, ks)
<1>1. /\ DOMAIN s = 1..Len(s) /\ Len(s) \in Nat /\ Len(ss) = Len(s) /\ Picked(s, ks) = Joined(ss)
      /\ \A n \in 1..Len(s) : s[n] \in R /\ ss[n] = IF n \in ks THEN <<s[n]>> ELSE <<>>
  BY PiecesType DEF Pieces
<1> HIDE DEF ss
<1>2. PICK f : /\ f[0] = <<>> /\ f[Len(s)] = Joined(ss)
               /\ \A n \in 1..Len(s) : f[n] = f[n - 1] \o ss[n]
  BY <1>1, JoinedSteps
<1> DEFINE Done(n) == f[n] \in Seq(R) /\ Follows(f[n], s, ks \cap (1..n))
           D == {n \in Nat : n <= Len(s) => Done(n)}
<1>3. 0 \in D
  <2>1. f[0] \in Seq(R) /\ 1..Len(f[0]) = {} /\ ks \cap (1..0) = {}
    BY <1>2
  <2> DEFINE none == [k \in {} |-> 0]
  <2>2. none \in [{} -> {}]
    OBVIOUS
  <2>3. Follows(f[0], s, ks \cap (1..0))
    BY <2>1, <2>2 DEF Follows
  <2>4. QED
    BY <2>1, <2>3
<1>4. ASSUME NEW n \in Nat, n \in D PROVE n + 1 \in D
  <2> SUFFICES ASSUME n + 1 <= Len(s) PROVE Done(n + 1)
    OBVIOUS
  <2> DEFINE r == f[n]
             J == ks \cap (1..n)
             K == ks \cap (1..(n + 1))
  <2>1. r \in Seq(R) /\ Follows(r, s, J)
    BY <1>4
  <2>2. n + 1 \in 1..Len(s) /\ (n + 1) - 1 = n
    BY <1>1
  <2>3. f[n + 1] = r \o ss[n + 1] /\ s[n + 1] \in R /\ ss[n + 1] = IF n + 1 \in ks THEN <<s[n + 1]>> ELSE <<>>
    BY <1>1, <1>2, <2>2
  <2>4. PICK at \in [1..Len(r) -> J] :
            /\ \A k \in 1..Len(r) : r[k] = s[at[k]]
            /\ \A j, k \in 1..Len(r) : j < k => at[j] < at[k]
            /\ \A i \in J : \E k \in 1..Len(r) : at[k] = i
    BY <2>1 DEF Follows
  <2> HIDE DEF r
  <2>5. CASE n + 1 \notin ks
    <3>1. f[n + 1] = r
      BY <2>1, <2>3, <2>5, ConcatEmptySeq
    <3>2. K = J
      BY <2>5
    <3>3. QED
      BY <2>1, <3>1, <3>2
  <2>6. CASE n + 1 \in ks
    <3> DEFINE t == Append(r, s[n + 1])
               to == [k \in 1..Len(t) |-> IF k <= Len(r) THEN at[k] ELSE n + 1]
    <3>1. /\ t \in Seq(R) /\ Len(t) = Len(r) + 1 /\ Len(r) \in Nat /\ t[Len(t)] = s[n + 1]
          /\ \A k \in 1..Len(r) : t[k] = r[k]
      BY <2>1, <2>3
    <3>2. f[n + 1] = t
      BY <2>1, <2>3, <2>6
    <3>3. K = J \cup {n + 1} /\ \A i \in J : i \in Nat /\ i < n + 1
      BY <2>6
    <3>4. to \in [1..Len(t) -> K] /\ to[Len(t)] = n + 1 /\ \A k \in 1..Len(r) : to[k] = at[k]
      BY <2>4, <3>1, <3>3
    <3>5. \A k \in 1..Len(t) : t[k] = s[to[k]]
      BY <2>4, <3>1
    <3> HIDE DEF t, K
    <3>6. \A j, k \in 1..Len(t) : j < k => to[j] < to[k]
      <4> SUFFICES ASSUME NEW j \in 1..Len(t), NEW k \in 1..Len(t), j < k PROVE to[j] < to[k]
        OBVIOUS
      <4>1. j \in 1..Len(r) /\ to[j] = at[j] /\ at[j] \in J /\ at[j] < n + 1
        BY <2>4, <3>1, <3>3, <3>4
      <4>2. CASE k \in 1..Len(r)
        BY <2>4, <3>4, <4>1, <4>2
      <4>3. CASE k = Len(t)
        BY <3>4, <4>1, <4>3
      <4>4. QED
        BY <3>1, <4>2, <4>3
    <3>7. \A i \in K : \E k \in 1..Len(t) : to[k] = i
      <4>1. ASSUME NEW i \in J PROVE \E k \in 1..Len(t) : to[k] = i
        <5>1. PICK k \in 1..Len(r) : at[k] = i
          BY <2>4
        <5>2. k \in 1..Len(t) /\ to[k] = i
          BY <3>1, <3>4, <5>1
        <5>3. QED
          BY <5>2
      <4>2. Len(t) \in 1..Len(t)
        BY <3>1
      <4>3. QED
        BY <3>3, <3>4, <4>1, <4>2
    <3> HIDE DEF to
    <3>8. Follows(t, s, K)
      BY <3>4, <3>5, <3>6, <3>7 DEF Follows
    <3>9. QED
      BY <3>1, <3>2, <3>8 DEF K
  <2>7. QED
    BY <2>5, <2>6
<1>5. Len(s) \in D
  <2> HIDE DEF D
  <2>1. QED
    BY <1>1, <1>3, <1>4, Inductive
<1>6. Done(Len(s))
  BY <1>1, <1>5
<1>7. QED
  BY <1>1, <1>2, <1>6

(* Its elements are those at the places in ks.                                *)
LEMMA PickedOf ==
    ASSUME NEW R, NEW s \in Seq(R), NEW ks
    PROVE  /\ Picked(s, ks) \in Seq(R)
           /\ {Picked(s, ks)[k] : k \in DOMAIN Picked(s, ks)} = {s[k] : k \in ks \cap DOMAIN s}
<1> DEFINE r == Picked(s, ks)
           J == ks \cap DOMAIN s
<1>1. r \in Seq(R) /\ Follows(r, s, J)
  BY PickedFollows
<1> HIDE DEF r, J
<1>2. PICK at \in [1..Len(r) -> J] :
          /\ \A k \in 1..Len(r) : r[k] = s[at[k]]
          /\ \A i \in J : \E k \in 1..Len(r) : at[k] = i
  BY <1>1 DEF Follows
<1>3. DOMAIN r = 1..Len(r)
  BY <1>1
<1>4. {r[k] : k \in DOMAIN r} = {s[k] : k \in J}
  BY <1>2, <1>3
<1>5. QED
  BY <1>1, <1>4 DEF r, J

(* There is one such sequence only.                                           *)
LEMMA FollowsOnce ==
    ASSUME NEW R, NEW s, NEW ks \in SUBSET Nat, NEW q \in Seq(R), NEW r \in Seq(R),
           Follows(q, s, ks), Follows(r, s, ks)
    PROVE  q = r
<1> DEFINE m == Len(q)
           n == Len(r)
<1>0. m \in Nat /\ n \in Nat
  OBVIOUS
<1>1. PICK a \in [1..m -> ks] :
          /\ \A k \in 1..m : q[k] = s[a[k]]
          /\ \A j, k \in 1..m : j < k => a[j] < a[k]
          /\ \A i \in ks : \E k \in 1..m : a[k] = i
  BY DEF Follows
<1>2. PICK b \in [1..n -> ks] :
          /\ \A k \in 1..n : r[k] = s[b[k]]
          /\ \A j, k \in 1..n : j < k => b[j] < b[k]
          /\ \A i \in ks : \E k \in 1..n : b[k] = i
  BY DEF Follows
<1> DEFINE agree(k) == k \in 1..m /\ k \in 1..n /\ a[k] = b[k]
           U == {k \in Nat : k \in 1..m \cup 1..n /\ ~agree(k)}
<1> HIDE DEF m, n
<1>3. U = {}
  <2> SUFFICES ASSUME U # {} PROVE FALSE
    OBVIOUS
  <2>1. PICK k \in U : \A j \in U : k <= j
    <3>1. U \in SUBSET Nat
      OBVIOUS
    <3> HIDE DEF U
    <3>2. QED
      BY <3>1, Least
  <2>2. \A j \in 1..(k - 1) : agree(j)
    <3> SUFFICES ASSUME NEW j \in 1..(k - 1), ~agree(j) PROVE FALSE
      OBVIOUS
    <3>1. k \in Nat /\ j \in Nat /\ j < k /\ (k <= m \/ k <= n) /\ j >= 1
      BY <2>1
    <3>2. j \in 1..m \cup 1..n
      BY <1>0, <3>1
    <3>3. j \in U
      BY <3>1, <3>2
    <3>4. QED
      BY <2>1, <3>1, <3>3
  <2>3. ASSUME k \in 1..m, k \notin 1..n \/ a[k] < b[k] PROVE FALSE
    <3>1. PICK j \in 1..n : b[j] = a[k]
      BY <1>1, <1>2, <2>3
    <3>2. j \in Nat /\ k \in Nat
      BY <1>0, <2>1
    <3>3. CASE j < k
      <4>1. j \in 1..m /\ a[j] = b[j] /\ a[j] < a[k]
        BY <1>1, <2>2, <2>3, <3>2, <3>3
      <4>2. a[j] \in Nat
        BY <1>1, <4>1
      <4>3. QED
        BY <3>1, <4>1, <4>2
    <3>4. CASE j >= k
      <4>1. k \in 1..n /\ a[k] < b[k]
        BY <1>0, <2>3, <3>1, <3>2, <3>4
      <4>2. b[k] \in Nat /\ b[j] \in Nat
        BY <1>2, <3>1, <4>1
      <4>3. b[k] <= b[j]
        <5>1. CASE k = j
          BY <4>2, <5>1
        <5>2. CASE k < j
          BY <1>2, <3>1, <4>1, <4>2, <5>2
        <5>3. QED
          BY <3>2, <3>4, <5>1, <5>2
      <4>4. QED
        BY <3>1, <4>1, <4>2, <4>3
    <3>5. QED
      BY <3>2, <3>3, <3>4
  <2>4. ASSUME k \in 1..n, k \notin 1..m \/ b[k] < a[k] PROVE FALSE
    <3>1. PICK j \in 1..m : a[j] = b[k]
      BY <1>1, <1>2, <2>4
    <3>2. j \in Nat /\ k \in Nat
      BY <1>0, <2>1
    <3>3. CASE j < k
      <4>1. j \in 1..n /\ a[j] = b[j] /\ b[j] < b[k]
        BY <1>2, <2>2, <2>4, <3>2, <3>3
      <4>2. b[j] \in Nat
        BY <1>2, <4>1
      <4>3. QED
        BY <3>1, <4>1, <4>2
    <3>4. CASE j >= k
      <4>1. k \in 1..m /\ b[k] < a[k]
        BY <1>0, <2>4, <3>1, <3>2, <3>4
      <4>2. a[k] \in Nat /\ a[j] \in Nat
        BY <1>1, <3>1, <4>1
      <4>3. a[k] <= a[j]
        <5>1. CASE k = j
          BY <4>2, <5>1
        <5>2. CASE k < j
          BY <1>1, <3>1, <4>1, <4>2, <5>2
        <5>3. QED
          BY <3>2, <3>4, <5>1, <5>2
      <4>4. QED
        BY <3>1, <4>1, <4>2, <4>3
    <3>5. QED
      BY <3>2, <3>3, <3>4
  <2>5. k \in 1..m /\ k \in 1..n /\ a[k] # b[k]
    BY <2>1, <2>3, <2>4
  <2>6. a[k] \in Nat /\ b[k] \in Nat
    BY <1>1, <1>2, <2>5
  <2>7. QED
    BY <2>3, <2>4, <2>5, <2>6
<1>4. m = n
  <2>1. CASE m < n
    <3>1. n \in U
      BY <1>0, <2>1
    <3>2. QED
      BY <1>3, <3>1
  <2>2. CASE n < m
    <3>1. m \in U
      BY <1>0, <2>2
    <3>2. QED
      BY <1>3, <3>1
  <2>3. QED
    BY <1>0, <2>1, <2>2
<1>5. \A k \in 1..m : q[k] = r[k]
  <2> SUFFICES ASSUME NEW k \in 1..m PROVE q[k] = r[k]
    OBVIOUS
  <2>1. agree(k)
    BY <1>0, <1>3, SMTT(30)
  <2>2. QED
    BY <1>1, <1>2, <2>1
<1>6. QED
  BY <1>4, <1>5, SeqEqual DEF m, n

(* What is picked from two sequences, one after the other.                    *)
Beyond(s, t, ks) == {k \in DOMAIN t : Len(s) + k \in ks}

LEMMA PickedConcat ==
    ASSUME NEW R, NEW s \in Seq(R), NEW t \in Seq(R), NEW ks
    PROVE  Picked(s \o t, ks) = Picked(s, ks) \o Picked(t, Beyond(s, t, ks))
<1> DEFINE js == Beyond(s, t, ks)
           u == s \o t
<1>1. /\ u \in Seq(R) /\ Len(u) = Len(s) + Len(t) /\ Len(s) \in Nat /\ Len(t) \in Nat
      /\ DOMAIN u = 1..(Len(s) + Len(t)) /\ DOMAIN s = 1..Len(s) /\ DOMAIN t = 1..Len(t)
      /\ \A k \in 1..Len(s) : u[k] = s[k]
      /\ \A k \in 1..Len(t) : u[Len(s) + k] = t[k]
  OBVIOUS
<1>2. \A k \in DOMAIN t : k \in js <=> Len(s) + k \in ks
  BY DEF Beyond
<1> HIDE DEF u, js
<1> DEFINE a == Pieces(s, ks)
           b == Pieces(t, js)
           c == Pieces(u, ks)
<1>3. /\ a \in Seq(Seq(R)) /\ Len(a) = Len(s) /\ Picked(s, ks) = Joined(a)
      /\ b \in Seq(Seq(R)) /\ Len(b) = Len(t) /\ Picked(t, js) = Joined(b)
      /\ c \in Seq(Seq(R)) /\ Len(c) = Len(u) /\ Picked(u, ks) = Joined(c)
  BY <1>1, PiecesType
<1>4. /\ \A k \in 1..Len(s) : a[k] = IF k \in ks THEN <<s[k]>> ELSE <<>>
      /\ \A k \in 1..Len(t) : b[k] = IF Len(s) + k \in ks THEN <<t[k]>> ELSE <<>>
      /\ \A k \in 1..Len(u) : c[k] = IF k \in ks THEN <<u[k]>> ELSE <<>>
  BY <1>1, <1>2 DEF Pieces
<1> HIDE DEF a, b, c
<1>5. c = a \o b
  <2>0. /\ a \o b \in Seq(Seq(R)) /\ Len(a \o b) = Len(a) + Len(b)
        /\ \A k \in 1..Len(a) + Len(b) : (a \o b)[k] = IF k <= Len(a) THEN a[k] ELSE b[k - Len(a)]
    BY <1>3, ConcatIs, Zenon
  <2>1. Len(a \o b) = Len(c)
    BY <1>1, <1>3, <2>0
  <2>2. ASSUME NEW k \in 1..Len(c) PROVE c[k] = (a \o b)[k]
    <3>1. k \in 1..Len(u) /\ (a \o b)[k] = IF k <= Len(s) THEN a[k] ELSE b[k - Len(s)]
      BY <1>1, <1>3, <2>0
    <3>2. c[k] = IF k \in ks THEN <<u[k]>> ELSE <<>>
      BY <1>4, <3>1
    <3>3. CASE k <= Len(s)
      <4>1. k \in 1..Len(s)
        BY <1>1, <3>1, <3>3
      <4>2. QED
        BY <1>1, <1>4, <3>1, <3>2, <3>3, <4>1
    <3>4. CASE ~(k <= Len(s))
      <4>1. k - Len(s) \in 1..Len(t) /\ Len(s) + (k - Len(s)) = k
        BY <1>1, <3>1, <3>4
      <4>2. b[k - Len(s)] = IF k \in ks THEN <<t[k - Len(s)]>> ELSE <<>>
        BY <1>4, <4>1
      <4>3. u[k] = t[k - Len(s)]
        BY <1>1, <4>1
      <4>4. QED
        BY <3>1, <3>2, <3>4, <4>2, <4>3
    <3>5. QED
      BY <3>3, <3>4
  <2>3. QED
    BY <1>3, <2>0, <2>1, <2>2, SeqEqual
<1>6. Joined(a \o b) = Joined(a) \o Joined(b)
  BY <1>3, JoinedConcat
<1>7. QED
  BY <1>3, <1>5, <1>6 DEF u, js

(* ------------------------------ without an element -------------------------- *)

LEMMA WithoutType ==
    ASSUME NEW R, NEW s \in Seq(R), NEW e
    PROVE  /\ Without(s, e) \in Seq(R) /\ Len(Without(s, e)) \in Nat
           /\ Follows(Without(s, e), s, {k \in 1..Len(s) : s[k] /= e})
<1>1. {k \in DOMAIN s : s[k] /= e} \cap DOMAIN s = {k \in 1..Len(s) : s[k] /= e}
  OBVIOUS
<1>2. Without(s, e) \in Seq(R) /\ Follows(Without(s, e), s, {k \in DOMAIN s : s[k] /= e} \cap DOMAIN s)
  BY PickedFollows DEF Without
<1>3. \A r \in Seq(R) : Len(r) \in Nat
  OBVIOUS
<1>4. QED
  BY <1>1, <1>2, <1>3, Zenon

(* No element is doubled by leaving others out.                               *)
AtMostOne(s, x) == \A i, j \in DOMAIN s : s[i] = x /\ s[j] = x => i = j

LEMMA WithoutOnce == \A R : \A s \in Seq(R) : \A e, x : AtMostOne(s, x) => AtMostOne(Without(s, e), x)
<1> SUFFICES ASSUME NEW R, NEW s \in Seq(R), NEW e, NEW x, AtMostOne(s, x),
                    NEW i \in DOMAIN Without(s, e), NEW j \in DOMAIN Without(s, e),
                    Without(s, e)[i] = x, Without(s, e)[j] = x
             PROVE  i = j
  BY ZenonT(30) DEF AtMostOne
<1>1. PICK r : r = Without(s, e)
  OBVIOUS
<1>2. r \in Seq(R) /\ Follows(r, s, {k \in 1..Len(s) : s[k] /= e})
  BY <1>1, WithoutType
<1>3. PICK at \in [1..Len(r) -> {k \in 1..Len(s) : s[k] /= e}] :
          /\ \A k \in 1..Len(r) : r[k] = s[at[k]]
          /\ \A k, n \in 1..Len(r) : k < n => at[k] < at[n]
  BY <1>2 DEF Follows
<1>4. i \in 1..Len(r) /\ j \in 1..Len(r) /\ Len(r) \in Nat /\ DOMAIN s = 1..Len(s) /\ Len(s) \in Nat
  BY <1>1, <1>2
<1>5. at[i] \in 1..Len(s) /\ at[j] \in 1..Len(s) /\ s[at[i]] = x /\ s[at[j]] = x
  BY <1>1, <1>3, <1>4
<1>6. at[i] = at[j]
  BY <1>4, <1>5 DEF AtMostOne
<1>7. ~(i < j) /\ ~(j < i)
  BY <1>3, <1>4, <1>5, <1>6
<1>8. QED
  BY <1>4, <1>7

(* Leaving an element out of two sequences leaves it out of both together.    *)
LEMMA WithoutConcat == \A R : \A s, t \in Seq(R) : \A e :
    Without(s \o t, e) = Without(s, e) \o Without(t, e)
<1> SUFFICES ASSUME NEW R, NEW s \in Seq(R), NEW t \in Seq(R), NEW e
             PROVE  Without(s \o t, e) = Without(s, e) \o Without(t, e)
  OBVIOUS
<1> DEFINE u == s \o t
           ks == {k \in DOMAIN u : u[k] /= e}
<1>1. /\ u \in Seq(R) /\ Len(s) \in Nat /\ Len(t) \in Nat
      /\ DOMAIN u = 1..(Len(s) + Len(t)) /\ DOMAIN s = 1..Len(s) /\ DOMAIN t = 1..Len(t)
      /\ \A k \in 1..Len(s) : u[k] = s[k]
      /\ \A k \in 1..Len(t) : u[Len(s) + k] = t[k]
  OBVIOUS
<1>2. Picked(u, ks) = Picked(s, ks) \o Picked(t, Beyond(s, t, ks))
  <2> HIDE DEF ks
  <2>1. QED
    BY PickedConcat
<1>3. Beyond(s, t, ks) = {k \in DOMAIN t : t[k] /= e}
  BY <1>1 DEF Beyond
<1>4. Pieces(s, ks) = Pieces(s, {k \in DOMAIN s : s[k] /= e})
  <2>1. \A k \in DOMAIN s : k \in ks <=> k \in {i \in DOMAIN s : s[i] /= e}
    BY <1>1
  <2> HIDE DEF ks, u
  <2>2. QED
    BY <2>1 DEF Pieces
<1>5. Picked(s, ks) = Picked(s, {k \in DOMAIN s : s[k] /= e})
  BY <1>4, PiecesType
<1>6. QED
  BY <1>2, <1>3, <1>5 DEF Without

LEMMA WithoutNothing == \A e : Without(<<>>, e) = <<>>
<1> SUFFICES ASSUME NEW e PROVE Without(<<>>, e) = <<>>
  OBVIOUS
<1>1. <<>> \in Seq({}) /\ Len(<<>>) = 0
  OBVIOUS
<1>2. Without(<<>>, e) = Joined(Pieces(<<>>, {k \in DOMAIN <<>> : <<>>[k] /= e}))
  BY <1>1, PiecesType DEF Without
<1>3. Len(Pieces(<<>>, {k \in DOMAIN <<>> : <<>>[k] /= e})) = 0
  BY <1>1, PiecesType
<1>4. QED
  BY <1>2, <1>3, JoinedNothing

LEMMA WithoutOne == \A x, e : Without(<<x>>, e) = IF x = e THEN <<>> ELSE <<x>>
<1> SUFFICES ASSUME NEW x, NEW e PROVE Without(<<x>>, e) = IF x = e THEN <<>> ELSE <<x>>
  OBVIOUS
<1> DEFINE ks == {k \in DOMAIN <<x>> : <<x>>[k] /= e}
<1>1. <<x>> \in Seq({x}) /\ Len(<<x>>) = 1 /\ <<x>>[1] = x /\ DOMAIN <<x>> = {1}
  OBVIOUS
<1>2. Without(<<x>>, e) = Joined(Pieces(<<x>>, ks))
  BY <1>1, PiecesType DEF Without
<1>3. 1 \in ks <=> x /= e
  BY <1>1
<1>4. Pieces(<<x>>, ks) = <<IF x = e THEN <<>> ELSE <<x>> >>
  <2>1. Pieces(<<x>>, ks) = [k \in {1} |-> IF k \in ks THEN <<x>> ELSE <<>>]
    BY <1>1 DEF Pieces
  <2> HIDE DEF ks
  <2>2. QED
    BY <1>3, <2>1
<1> HIDE DEF ks
<1>5. CASE x = e
  <2>1. <<>> \in Seq({x})
    OBVIOUS
  <2>2. QED
    BY <1>2, <1>4, <1>5, <2>1, JoinedOne
<1>6. CASE x /= e
  <2>1. <<x>> \in Seq({x})
    OBVIOUS
  <2>2. QED
    BY <1>2, <1>4, <1>6, <2>1, JoinedOne
<1>7. QED
  BY <1>5, <1>6

(* ------------------------ what is picked, once more ------------------------- *)

LEMMA PickedSame == \A R : \A s \in Seq(R) : \A ks, js :
    (\A k \in DOMAIN s : k \in ks <=> k \in js) => Picked(s, ks) = Picked(s, js)
<1> SUFFICES ASSUME NEW R, NEW s \in Seq(R), NEW ks, NEW js, \A k \in DOMAIN s : k \in ks <=> k \in js
             PROVE  Picked(s, ks) = Picked(s, js)
  OBVIOUS
<1>1. Pieces(s, ks) = Pieces(s, js)
  BY DEF Pieces
<1>2. QED
  BY <1>1, PiecesType

LEMMA PickedAll == \A R : \A s \in Seq(R) : \A ks :
    (\A k \in DOMAIN s : k \in ks) => Picked(s, ks) = s
<1> SUFFICES ASSUME NEW R, NEW s \in Seq(R), NEW ks, \A k \in DOMAIN s : k \in ks
             PROVE  Picked(s, ks) = s
  OBVIOUS
<1>1. DOMAIN s = 1..Len(s) /\ Len(s) \in Nat /\ ks \cap DOMAIN s = 1..Len(s)
  OBVIOUS
<1>2. Picked(s, ks) \in Seq(R) /\ Follows(Picked(s, ks), s, 1..Len(s))
  BY <1>1, PickedFollows
<1>3. Follows(s, s, 1..Len(s))
  <2> DEFINE at == [k \in 1..Len(s) |-> k]
  <2>1. at \in [1..Len(s) -> 1..Len(s)] /\ \A k \in 1..Len(s) : at[k] = k
    OBVIOUS
  <2> HIDE DEF at
  <2>2. QED
    BY <2>1 DEF Follows
<1>4. 1..Len(s) \in SUBSET Nat
  BY <1>1
<1>5. QED
  BY <1>2, <1>3, <1>4, FollowsOnce

LEMMA PickedAppend == \A R : \A s \in Seq(R) : \A x \in R : \A ks :
    Picked(Append(s, x), ks) = IF Len(s) + 1 \in ks THEN Append(Picked(s, ks), x) ELSE Picked(s, ks)
<1> SUFFICES ASSUME NEW R, NEW s \in Seq(R), NEW x \in R, NEW ks
             PROVE  Picked(Append(s, x), ks)
                      = IF Len(s) + 1 \in ks THEN Append(Picked(s, ks), x) ELSE Picked(s, ks)
  OBVIOUS
<1>1. /\ Append(s, x) = s \o <<x>> /\ <<x>> \in Seq(R) /\ DOMAIN <<x>> = {1} /\ <<x>>[1] = x /\ Len(<<x>>) = 1
      /\ Picked(s, ks) \in Seq(R)
  <2>1. Append(s, x) = s \o <<x>> /\ <<x>> \in Seq(R) /\ DOMAIN <<x>> = {1} /\ <<x>>[1] = x /\ Len(<<x>>) = 1
    OBVIOUS
  <2>2. QED
    BY <2>1, PickedFollows
<1>2. Picked(s \o <<x>>, ks) = Picked(s, ks) \o Picked(<<x>>, Beyond(s, <<x>>, ks))
  BY <1>1, PickedConcat
<1>3. Picked(<<x>>, Beyond(s, <<x>>, ks)) = IF Len(s) + 1 \in ks THEN <<x>> ELSE <<>>
  <2>1. 1 \in Beyond(s, <<x>>, ks) <=> Len(s) + 1 \in ks
    BY <1>1 DEF Beyond
  <2>2. CASE Len(s) + 1 \in ks
    BY <1>1, <2>1, <2>2, PickedAll, Zenon
  <2>3. CASE ~(Len(s) + 1 \in ks)
    <3> DEFINE js == Beyond(s, <<x>>, ks)
    <3>1. Pieces(<<x>>, js) \in Seq(Seq(R)) /\ Len(Pieces(<<x>>, js)) = 1
          /\ Picked(<<x>>, js) = Joined(Pieces(<<x>>, js))
      BY <1>1, PiecesType
    <3>2. Pieces(<<x>>, js)[1] = <<>>
      BY <1>1, <2>1, <2>3 DEF Pieces
    <3> HIDE DEF js
    <3>3. Joined(Pieces(<<x>>, js)) = <<>>
      BY <3>1, <3>2, JoinedNothing
    <3>4. QED
      BY <2>3, <3>1, <3>3 DEF js
  <2>4. QED
    BY <2>2, <2>3
<1>4. \A r \in Seq(R) : r \o <<x>> = Append(r, x) /\ r \o <<>> = r
  OBVIOUS
<1>5. QED
  BY <1>1, <1>2, <1>3, <1>4

(* What is left of s when only the elements of es are kept.                   *)
Only(s, es) == Picked(s, {k \in DOMAIN s : s[k] \in es})

LEMMA OnlySame == \A R : \A s \in Seq(R) : \A es, fs :
    (\A k \in DOMAIN s : s[k] \in es <=> s[k] \in fs) => Only(s, es) = Only(s, fs)
<1> SUFFICES ASSUME NEW R, NEW s \in Seq(R), NEW es, NEW fs, \A k \in DOMAIN s : s[k] \in es <=> s[k] \in fs
             PROVE  Only(s, es) = Only(s, fs)
  OBVIOUS
<1>1. {k \in DOMAIN s : s[k] \in es} = {k \in DOMAIN s : s[k] \in fs}
  OBVIOUS
<1>2. QED
  BY <1>1 DEF Only

LEMMA OnlyType == \A R : \A s \in Seq(R) : \A es :
    /\ Only(s, es) \in Seq(R)
    /\ {Only(s, es)[k] : k \in DOMAIN Only(s, es)} = {s[k] : k \in DOMAIN s} \cap es
<1> SUFFICES ASSUME NEW R, NEW s \in Seq(R), NEW es
             PROVE  /\ Only(s, es) \in Seq(R)
                    /\ {Only(s, es)[k] : k \in DOMAIN Only(s, es)} = {s[k] : k \in DOMAIN s} \cap es
  OBVIOUS
<1> DEFINE ks == {k \in DOMAIN s : s[k] \in es}
<1>1. {s[k] : k \in ks \cap DOMAIN s} = {s[k] : k \in DOMAIN s} \cap es
  OBVIOUS
<1>2. Only(s, es) = Picked(s, ks)
  BY DEF Only
<1> HIDE DEF ks
<1>3. /\ Picked(s, ks) \in Seq(R)
      /\ {Picked(s, ks)[k] : k \in DOMAIN Picked(s, ks)} = {s[k] : k \in ks \cap DOMAIN s}
  BY PickedOf
<1>4. PICK r : r = Only(s, es)
  OBVIOUS
<1>5. r \in Seq(R) /\ {r[k] : k \in DOMAIN r} = {s[k] : k \in ks \cap DOMAIN s}
  BY <1>2, <1>3, <1>4
<1>6. QED
  BY <1>1, <1>4, <1>5

LEMMA OnlyAppend == \A R : \A s \in Seq(R) : \A x \in R : \A es :
    Only(Append(s, x), es) = IF x \in es THEN Append(Only(s, es), x) ELSE Only(s, es)
<1> SUFFICES ASSUME NEW R, NEW s \in Seq(R), NEW x \in R, NEW es
             PROVE  Only(Append(s, x), es) = IF x \in es THEN Append(Only(s, es), x) ELSE Only(s, es)
  OBVIOUS
<1> DEFINE t == Append(s, x)
           ks == {k \in DOMAIN t : t[k] \in es}
<1>1. /\ DOMAIN t = 1..(Len(s) + 1) /\ Len(s) \in Nat /\ DOMAIN s = 1..Len(s)
      /\ t[Len(s) + 1] = x /\ \A k \in 1..Len(s) : t[k] = s[k]
  OBVIOUS
<1>2. (Len(s) + 1 \in ks <=> x \in es) /\ \A k \in DOMAIN s : k \in ks <=> k \in {j \in DOMAIN s : s[j] \in es}
  BY <1>1
<1>3. Only(t, es) = Picked(t, ks)
  BY DEF Only
<1> HIDE DEF ks
<1>4. Picked(t, ks) = IF Len(s) + 1 \in ks THEN Append(Picked(s, ks), x) ELSE Picked(s, ks)
  BY PickedAppend, SMT
<1>5. Picked(s, ks) = Only(s, es)
  <2>1. \A js : (\A k \in DOMAIN s : k \in ks <=> k \in js) => Picked(s, ks) = Picked(s, js)
    BY PickedSame, Zenon
  <2>2. QED
    BY <1>2, <2>1, Zenon DEF Only
<1>6. QED
  BY <1>2, <1>3, <1>4, <1>5

LEMMA OnlyAll == \A R : \A s \in Seq(R) : Only(s, {s[k] : k \in DOMAIN s}) = s
<1> SUFFICES ASSUME NEW R, NEW s \in Seq(R) PROVE Only(s, {s[k] : k \in DOMAIN s}) = s
  OBVIOUS
<1> DEFINE ks == {k \in DOMAIN s : s[k] \in {s[j] : j \in DOMAIN s}}
<1>1. \A k \in DOMAIN s : k \in ks
  OBVIOUS
<1>2. Only(s, {s[k] : k \in DOMAIN s}) = Picked(s, ks)
  BY DEF Only
<1> HIDE DEF ks
<1>3. QED
  BY <1>1, <1>2, PickedAll, Zenon

(* Keeping some of what was kept keeps what is in both.                       *)
LEMMA OnlyOnly == \A R : \A s \in Seq(R) : \A es, fs : Only(Only(s, es), fs) = Only(s, es \cap fs)
<1> SUFFICES ASSUME NEW R, NEW s \in Seq(R), NEW es, NEW fs
             PROVE  Only(Only(s, es), fs) = Only(s, es \cap fs)
  OBVIOUS
<1> DEFINE K(t, gs) == {k \in DOMAIN t : t[k] \in gs}
<1>a. \A t \in Seq(R) : \A gs : Only(t, gs) \in Seq(R) /\ Follows(Only(t, gs), t, K(t, gs))
  <2> SUFFICES ASSUME NEW t \in Seq(R), NEW gs
               PROVE  Only(t, gs) \in Seq(R) /\ Follows(Only(t, gs), t, K(t, gs))
    OBVIOUS
  <2>1. K(t, gs) \cap DOMAIN t = K(t, gs)
    OBVIOUS
  <2>2. Only(t, gs) = Picked(t, K(t, gs))
    BY DEF Only
  <2> HIDE DEF K
  <2>3. QED
    BY <2>1, <2>2, PickedFollows
<1> HIDE DEF K
<1>1. PICK r : r = Only(s, es)
  OBVIOUS
<1>2. PICK q : q = Only(r, fs)
  OBVIOUS
<1>3. r \in Seq(R) /\ q \in Seq(R) /\ Follows(r, s, K(s, es)) /\ Follows(q, r, K(r, fs))
  BY <1>a, <1>1, <1>2
<1>4. DOMAIN r = 1..Len(r) /\ DOMAIN q = 1..Len(q) /\ Len(r) \in Nat /\ Len(q) \in Nat /\ DOMAIN s \subseteq Nat
  BY <1>3
<1>5. PICK at \in [1..Len(r) -> K(s, es)] :
          /\ \A k \in 1..Len(r) : r[k] = s[at[k]]
          /\ \A j, k \in 1..Len(r) : j < k => at[j] < at[k]
          /\ \A n \in K(s, es) : \E k \in 1..Len(r) : at[k] = n
  BY <1>3 DEF Follows
<1>6. PICK bt \in [1..Len(q) -> K(r, fs)] :
          /\ \A k \in 1..Len(q) : q[k] = r[bt[k]]
          /\ \A j, k \in 1..Len(q) : j < k => bt[j] < bt[k]
          /\ \A n \in K(r, fs) : \E k \in 1..Len(q) : bt[k] = n
  BY <1>3 DEF Follows
<1> DEFINE ct == [k \in 1..Len(q) |-> at[bt[k]]]
<1>7. \A k \in 1..Len(q) : bt[k] \in 1..Len(r) /\ r[bt[k]] \in fs
  BY <1>4, <1>6 DEF K
<1>8. \A k \in 1..Len(q) : at[bt[k]] \in DOMAIN s /\ s[at[bt[k]]] \in es /\ q[k] = s[at[bt[k]]] /\ s[at[bt[k]]] \in fs
  BY <1>5, <1>6, <1>7 DEF K
<1>9. ct \in [1..Len(q) -> K(s, es \cap fs)]
  BY <1>8 DEF K
<1>10. \A j, k \in 1..Len(q) : j < k => ct[j] < ct[k]
  BY <1>5, <1>6, <1>7
<1>11. ASSUME NEW n \in K(s, es \cap fs) PROVE \E k \in 1..Len(q) : ct[k] = n
  <2>1. n \in K(s, es) /\ s[n] \in fs
    BY DEF K
  <2>2. PICK i \in 1..Len(r) : at[i] = n
    BY <1>5, <2>1
  <2>3. i \in K(r, fs)
    BY <1>4, <1>5, <2>1, <2>2 DEF K
  <2>4. PICK k \in 1..Len(q) : bt[k] = i
    BY <1>6, <2>3
  <2>5. QED
    BY <2>2, <2>4
<1>12. \A k \in 1..Len(q) : q[k] = s[ct[k]]
  BY <1>8
<1> HIDE DEF ct
<1>13. Follows(q, s, K(s, es \cap fs))
  BY <1>9, <1>10, <1>11, <1>12 DEF Follows
<1>14. Only(s, es \cap fs) \in Seq(R) /\ Follows(Only(s, es \cap fs), s, K(s, es \cap fs))
  BY <1>a
<1>15. K(s, es \cap fs) \in SUBSET Nat
  BY <1>4 DEF K
<1>16. q = Only(s, es \cap fs)
  BY <1>3, <1>13, <1>14, <1>15, FollowsOnce
<1>17. QED
  BY <1>1, <1>2, <1>16

(* A function that goes from b by one table after the other.                  *)
IsTable(f, b, F, m) == f = [n \in 0..m |-> IF n = 0 THEN b ELSE F[n][f[n - 1]]]

LEMMA TableExists ==
    ASSUME NEW b, NEW F, NEW m \in Nat
    PROVE  \E f : IsTable(f, b, F, m)
<1> DEFINE G(p, n) == IF n = 0 THEN b ELSE F[n][p]
           Is(f, n) == f = [i \in 0..n |-> G(f[i - 1], i)]
           S == {n \in Nat : \E f : Is(f, n)}
<1>1. \A p, q : G(p, 0) = G(q, 0)
  OBVIOUS
<1>2. \A f : Is(f, m) => IsTable(f, b, F, m)
  BY DEF IsTable
<1> HIDE DEF G
<1>3. 0 \in S
  <2> DEFINE k == [i \in 0..0 |-> G(0, 0)]
  <2>1. \A i \in 0..0 : G(0, 0) = G(k[i - 1], i)
    BY <1>1
  <2>2. k = [i \in 0..0 |-> G(k[i - 1], i)]
    <3> DEFINE h == [i \in 0..0 |-> G(k[i - 1], i)]
    <3>1. \A i \in 0..0 : h[i] = G(0, 0)
      BY <2>1
    <3>2. h = [i \in 0..0 |-> G(0, 0)]
      <4> HIDE DEF k
      <4>1. h = [i \in 0..0 |-> h[i]]
        OBVIOUS
      <4> HIDE DEF h
      <4>2. QED
        BY <3>1, <4>1
    <3>3. QED
      BY <3>2
  <2>3. QED
    BY <2>2
<1>4. ASSUME NEW n \in Nat, n \in S PROVE n + 1 \in S
  <2>1. PICK f : Is(f, n)
    BY <1>4
  <2> DEFINE next == G(f[n], n + 1)
             g == [i \in 0..(n + 1) |-> IF i <= n THEN f[i] ELSE next]
  <2>2. \A i \in 0..n : g[i] = f[i]
    OBVIOUS
  <2>3. \A i \in 0..n : f[i] = G(f[i - 1], i)
    BY <2>1
  <2>4. \A i \in 0..(n + 1) : g[i] = G(g[i - 1], i)
    <3> SUFFICES ASSUME NEW i \in 0..(n + 1) PROVE g[i] = G(g[i - 1], i)
      OBVIOUS
    <3>1. CASE i = 0
      <4>1. 0 \in 0..n
        OBVIOUS
      <4>2. g[0] = G(f[0 - 1], 0)
        BY <4>1, <2>2, <2>3
      <4>3. G(f[0 - 1], 0) = G(g[0 - 1], 0)
        BY <1>1
      <4> HIDE DEF g
      <4>4. QED
        BY <3>1, <4>2, <4>3
    <3>2. CASE i \in 1..n
      <4>1. i - 1 \in 0..n /\ i \in 0..n
        BY <3>2
      <4>2. g[i] = f[i] /\ g[i - 1] = f[i - 1]
        BY <4>1, <2>2
      <4> HIDE DEF g
      <4>3. QED
        BY <4>1, <4>2, <2>3
    <3>3. CASE i = n + 1
      <4>1. g[i] = next /\ i - 1 = n /\ n \in 0..n
        BY <3>3
      <4>2. g[i - 1] = f[n]
        BY <4>1, <2>2
      <4> HIDE DEF g
      <4>3. QED
        BY <3>3, <4>1, <4>2
    <3>4. QED
      BY <3>1, <3>2, <3>3
  <2>5. Is(g, n + 1)
    <3> HIDE DEF next
    <3>1. g = [i \in 0..(n + 1) |-> g[i]]
      OBVIOUS
    <3> HIDE DEF g
    <3>2. QED
      BY <2>4, <3>1
  <2>6. n + 1 \in Nat
    OBVIOUS
  <2> HIDE DEF g
  <2>7. QED
    BY <2>5, <2>6
<1>5. m \in S
  <2> HIDE DEF S
  <2>1. QED
    BY <1>3, <1>4, Inductive
<1>6. QED
  BY <1>2, <1>5

Goes(f, b, F, m) == f[0] = b /\ \A k \in 1..m : f[k] = F[k][f[k - 1]]

LEMMA TableIn == \A X : \A b \in X, m \in Nat : \A F \in [1..m -> [X -> X]] : \E f \in [0..m -> X] : Goes(f, b, F, m)
<1> SUFFICES ASSUME NEW X, NEW b \in X, NEW m \in Nat, NEW F \in [1..m -> [X -> X]]
             PROVE  \E f \in [0..m -> X] : Goes(f, b, F, m)
  OBVIOUS
<1>1. PICK f : IsTable(f, b, F, m)
  BY TableExists
<1>2. f = [k \in 0..m |-> IF k = 0 THEN b ELSE F[k][f[k - 1]]]
  BY <1>1 DEF IsTable
<1>3. f[0] = b /\ \A k \in 1..m : f[k] = F[k][f[k - 1]]
  <2> DEFINE h == [k \in 0..m |-> IF k = 0 THEN b ELSE F[k][f[k - 1]]]
  <2>1. h[0] = b /\ \A k \in 1..m : h[k] = F[k][f[k - 1]]
    OBVIOUS
  <2>2. QED
    BY <1>2, <2>1
<1> DEFINE S == {k \in Nat : k <= m => f[k] \in X}
<1>4. 0 \in S
  BY <1>3
<1>5. ASSUME NEW k \in Nat, k \in S PROVE k + 1 \in S
  <2> SUFFICES ASSUME k + 1 <= m PROVE f[k + 1] \in X
    OBVIOUS
  <2>1. k + 1 \in 1..m /\ (k + 1) - 1 = k /\ f[k] \in X
    BY <1>5
  <2>2. QED
    BY <1>3, <2>1
<1>6. \A k \in 0..m : f[k] \in X
  <2> HIDE DEF S
  <2>1. Nat \subseteq S
    BY <1>4, <1>5, Inductive
  <2>2. QED
    BY <2>1 DEF S
<1>7. f = [k \in 0..m |-> f[k]]
  <2> DEFINE h == [k \in 0..m |-> IF k = 0 THEN b ELSE F[k][f[k - 1]]]
  <2>1. h = [k \in 0..m |-> h[k]]
    OBVIOUS
  <2> HIDE DEF h
  <2>2. f = h
    BY <1>2 DEF h
  <2>3. QED
    BY <2>1, <2>2
<1>8. f \in [0..m -> X]
  BY <1>6, <1>7
<1>9. QED
  BY <1>3, <1>8 DEF Goes

LEMMA SeqsAre == \A R : \A s \in Seq(R) : Len(s) \in Nat /\ DOMAIN s = 1..Len(s) /\ \A k \in 1..Len(s) : s[k] \in R
  OBVIOUS

LEMMA Subs == \A R : \A s \in Seq(R) : \A i, j \in Int :
    1 <= i /\ j <= Len(s) =>
      /\ SubSeq(s, i, j) \in Seq(R)
      /\ Len(SubSeq(s, i, j)) = IF i <= j THEN j - i + 1 ELSE 0
      /\ \A k \in 1..(j - i + 1) : SubSeq(s, i, j)[k] = s[i + k - 1]
<1> SUFFICES ASSUME NEW R, NEW s \in Seq(R), NEW i \in Int, NEW j \in Int, 1 <= i, j <= Len(s)
             PROVE  /\ SubSeq(s, i, j) \in Seq(R)
                    /\ Len(SubSeq(s, i, j)) = IF i <= j THEN j - i + 1 ELSE 0
                    /\ \A k \in 1..(j - i + 1) : SubSeq(s, i, j)[k] = s[i + k - 1]
  OBVIOUS
<1>1. \A k \in i..j : s[k] \in R
  <2> SUFFICES ASSUME NEW k \in i..j PROVE s[k] \in R
    OBVIOUS
  <2>1. k \in 1..Len(s)
    OBVIOUS
  <2>2. QED
    BY <2>1
<1>2. QED
  BY <1>1, SubSeqProperties

LEMMA SameText == \A R : \A s, t \in Seq(R) : Len(s) = Len(t) /\ (\A k \in 1..Len(s) : s[k] = t[k]) => s = t
  OBVIOUS

LEMMA OneIs == \A R : \A x \in R : <<x>> \in Seq(R) /\ Len(<<x>>) = 1 /\ <<x>>[1] = x
  OBVIOUS

LEMMA ConcatAt == \A R : \A a, b \in Seq(R) :
    /\ a \o b \in Seq(R) /\ Len(a) \in Nat /\ Len(b) \in Nat /\ Len(a \o b) = Len(a) + Len(b)
    /\ \A i \in 1..Len(a) : (a \o b)[i] = a[i]
    /\ \A i \in 1..Len(b) : (a \o b)[Len(a) + i] = b[i]
  OBVIOUS
================================================================================
