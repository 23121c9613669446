------------------------- MODULE QueueManagerProofs -------------------------
(***************************************************************************)
(* Proofs about QueueManager, for any number of players and any capacity.  *)
(* The argument goes through the line active \o waiting: every operation   *)
(* is a step of module Line on it, and no step of Line repeats a player or *)
(* moves one back.                                                         *)
(***************************************************************************)
EXTENDS QueueManager, SequenceTheorems, WellFoundedInduction, TLAPS

-----------------------------------------------------------------------------
(* Sequences without repetition, and the removal of one element. *)

(***************************************************************************)
(* A set of indexes that is not empty has a least one, which is what       *)
(* SelectInSeq returns.                                                    *)
(***************************************************************************)
LEMMA LeastIndex ==
  ASSUME NEW n \in Nat, NEW I \in SUBSET (1 .. n), I # {}
  PROVE  Min(I) \in I
<1> DEFINE Less == {ss \in Nat \X Nat : ss[1] < ss[2]}
<1>1. IsWellFoundedOn(Less, Nat)
  BY NatLessThanWellFounded DEF OpToRel
<1>2. I \subseteq Nat
  OBVIOUS
<1>3. PICK m \in I : \A k \in I : << k, m >> \notin Less
  <2> HIDE DEF Less
  <2> QED  BY <1>1, <1>2, WFMin
<1>4. \A k \in I : m <= k
  <2> SUFFICES ASSUME NEW k \in I
               PROVE  m <= k
    OBVIOUS
  <2>1. k \in Nat /\ m \in Nat
    BY <1>2, <1>3
  <2>2. << k, m >> \notin Less
    BY <1>3
  <2>3. ~(k < m)
    BY <2>1, <2>2
  <2> HIDE DEF Less
  <2> QED  BY <2>1, <2>3
<1> QED  BY <1>3, <1>4 DEF Min

(***************************************************************************)
(* RemoveAt shortens a sequence by the element at i; those behind move up. *)
(***************************************************************************)
LEMMA RemoveAtProperties ==
  ASSUME NEW S, NEW s \in Seq(S), NEW i \in 1 .. Len(s)
  PROVE  /\ RemoveAt(s, i) \in Seq(S)
         /\ Len(RemoveAt(s, i)) = Len(s) - 1
         /\ \A j \in 1 .. Len(s) - 1 :
              RemoveAt(s, i)[j] = IF j < i THEN s[j] ELSE s[j + 1]
<1> DEFINE l == SubSeq(s, 1, i - 1)
           r == SubSeq(s, i + 1, Len(s))
<1>1. Len(s) \in Nat /\ i \in Nat /\ i >= 1 /\ i <= Len(s)
  BY LenProperties
<1>2. /\ l \in Seq(S) /\ Len(l) = i - 1
      /\ \A j \in 1 .. i - 1 : l[j] = s[j]
  <2>1. \A j \in 1 .. i - 1 : s[j] \in S
    BY <1>1, ElementOfSeq
  <2> QED  BY <1>1, <2>1, SubSeqProperties
<1>3. /\ r \in Seq(S) /\ Len(r) = Len(s) - i
      /\ \A j \in 1 .. Len(s) - i : r[j] = s[i + j]
  <2>1. \A j \in i + 1 .. Len(s) : s[j] \in S
    BY <1>1, ElementOfSeq
  <2> QED  BY <1>1, <2>1, SubSeqProperties
<1>4. RemoveAt(s, i) = l \o r
  BY DEF RemoveAt
<1> HIDE DEF l, r
<1>5. /\ l \o r \in Seq(S) /\ Len(l \o r) = Len(l) + Len(r)
      /\ \A j \in 1 .. Len(l) + Len(r) :
           (l \o r)[j] = IF j <= Len(l) THEN l[j] ELSE r[j - Len(l)]
  BY <1>2, <1>3, ConcatProperties
<1>6. Len(l) + Len(r) = Len(s) - 1
  BY <1>1, <1>2, <1>3
<1>7. ASSUME NEW j \in 1 .. Len(s) - 1
      PROVE (l \o r)[j] = IF j < i THEN s[j] ELSE s[j + 1]
  <2>1. CASE j < i
    BY <1>1, <1>2, <1>5, <1>6, <2>1
  <2>2. CASE j >= i
    <3>1. (l \o r)[j] = r[j - Len(l)]
      BY <1>1, <1>2, <1>5, <1>6, <2>2
    <3>2. j - Len(l) \in 1 .. Len(s) - i /\ i + (j - Len(l)) = j + 1
      BY <1>1, <1>2, <2>2
    <3>3. r[j - Len(l)] = s[i + (j - Len(l))]
      BY <1>3, <3>2
    <3> QED BY <1>1, <2>2, <3>1, <3>2, <3>3
  <2>3. j < i \/ j >= i
    BY <1>1
  <2> QED BY <2>1, <2>2, <2>3
<1> QED  BY <1>4, <1>5, <1>6, <1>7

(***************************************************************************)
(* In a sequence without repetition, RemoveFirst (list.remove in the code) *)
(* is RemoveAt at the one place where the element stands.                  *)
(***************************************************************************)
LEMMA RemoveFirstIsRemoveAt ==
  ASSUME NEW S, NEW s \in Seq(S), IsInjective(s), NEW p \in ToSet(s)
  PROVE  \E i \in 1 .. Len(s) : s[i] = p /\ RemoveFirst(s, p) = RemoveAt(s, i)
<1>1. PICK i \in 1 .. Len(s) : s[i] = p
  BY LenProperties DEF ToSet
<1> DEFINE I == {j \in 1 .. Len(s) : s[j] = p}
<1>2. I = {i}
  BY <1>1, LenProperties DEF IsInjective
<1>3. Min(I) = i
  BY <1>1, <1>2, LenProperties DEF Min
<1>4. SelectInSeq(s, LAMBDA v : v = p) = i
  BY <1>2, <1>3 DEF SelectInSeq
<1> QED  BY <1>1, <1>4 DEF RemoveFirst

(***************************************************************************)
(* Removing from either part of a concatenation removes from the whole.    *)
(***************************************************************************)
LEMMA RemoveAtLeft ==
  ASSUME NEW S, NEW a \in Seq(S), NEW w \in Seq(S), NEW i \in 1 .. Len(a)
  PROVE  /\ RemoveAt(a \o w, i) = RemoveAt(a, i) \o w
         /\ i \in 1 .. Len(a \o w)
         /\ (a \o w)[i] = a[i]
<1> DEFINE l == RemoveAt(a, i)
           whole == a \o w
           removed == RemoveAt(whole, i)
<1>1. Len(a) \in Nat /\ Len(w) \in Nat /\ i \in Nat
  BY LenProperties
<1>2. /\ whole \in Seq(S) /\ Len(whole) = Len(a) + Len(w)
      /\ \A j \in 1 .. Len(a) + Len(w) :
           whole[j] = IF j <= Len(a) THEN a[j] ELSE w[j - Len(a)]
  BY ConcatProperties
<1>3. /\ l \in Seq(S) /\ Len(l) = Len(a) - 1
      /\ \A j \in 1 .. Len(a) - 1 : l[j] = IF j < i THEN a[j] ELSE a[j + 1]
  BY RemoveAtProperties
<1>4. /\ l \o w \in Seq(S) /\ Len(l \o w) = Len(l) + Len(w)
      /\ \A j \in 1 .. Len(l) + Len(w) :
           (l \o w)[j] = IF j <= Len(l) THEN l[j] ELSE w[j - Len(l)]
  BY <1>3, ConcatProperties
<1>5. i \in 1 .. Len(whole) /\ whole[i] = a[i]
  BY <1>1, <1>2
<1>6. /\ removed \in Seq(S) /\ Len(removed) = Len(whole) - 1
      /\ \A j \in 1 .. Len(whole) - 1 :
           removed[j] = IF j < i THEN whole[j] ELSE whole[j + 1]
  BY <1>2, <1>5, RemoveAtProperties
<1> HIDE DEF l, whole, removed
<1>7. Len(removed) = Len(l) + Len(w)
  BY <1>1, <1>2, <1>3, <1>6
<1>8. ASSUME NEW j \in 1 .. Len(l) + Len(w)
      PROVE  removed[j] = (l \o w)[j]
  <2>1. CASE j < i
    BY <1>1, <1>2, <1>3, <1>4, <1>6, <2>1
  <2>2. CASE j >= i /\ j <= Len(a) - 1
    BY <1>1, <1>2, <1>3, <1>4, <1>6, <2>2
  <2>3. CASE j > Len(a) - 1
    <3>1. /\ removed[j] = whole[j + 1] /\ whole[j + 1] = w[j + 1 - Len(a)]
      BY <1>1, <1>2, <1>3, <1>6, <2>3
    <3>2. (l \o w)[j] = w[j - Len(l)]
      BY <1>1, <1>3, <1>4, <2>3
    <3>3. j + 1 - Len(a) = j - Len(l)
      BY <1>1, <1>3
    <3> QED  BY <3>1, <3>2, <3>3
  <2>4. j < i \/ (j >= i /\ j <= Len(a) - 1) \/ j > Len(a) - 1
    BY <1>1
  <2> QED  BY <2>1, <2>2, <2>3, <2>4
<1>9. removed = l \o w
  BY <1>4, <1>6, <1>7, <1>8, SeqEqual
<1> QED  BY <1>5, <1>9 DEF l, whole, removed

(* To remove from the second part of a line is to remove from the line. *)
LEMMA RemoveAtRight ==
  ASSUME NEW S, NEW a \in Seq(S), NEW w \in Seq(S), NEW i \in 1 .. Len(w)
  PROVE  /\ RemoveAt(a \o w, Len(a) + i) = a \o RemoveAt(w, i)
         /\ Len(a) + i \in 1 .. Len(a \o w)
         /\ (a \o w)[Len(a) + i] = w[i]
<1> DEFINE r == RemoveAt(w, i)
           whole == a \o w
           removed == RemoveAt(whole, Len(a) + i)
<1>1. Len(a) \in Nat /\ Len(w) \in Nat /\ i \in Nat
  BY LenProperties
<1>2. /\ whole \in Seq(S) /\ Len(whole) = Len(a) + Len(w)
      /\ \A j \in 1 .. Len(a) + Len(w) :
           whole[j] = IF j <= Len(a) THEN a[j] ELSE w[j - Len(a)]
  BY ConcatProperties
<1>3. /\ r \in Seq(S) /\ Len(r) = Len(w) - 1
      /\ \A j \in 1 .. Len(w) - 1 : r[j] = IF j < i THEN w[j] ELSE w[j + 1]
  BY RemoveAtProperties
<1>4. /\ a \o r \in Seq(S) /\ Len(a \o r) = Len(a) + Len(r)
      /\ \A j \in 1 .. Len(a) + Len(r) :
           (a \o r)[j] = IF j <= Len(a) THEN a[j] ELSE r[j - Len(a)]
  BY <1>3, ConcatProperties
<1>5. Len(a) + i \in 1 .. Len(whole) /\ whole[Len(a) + i] = w[i]
  BY <1>1, <1>2
<1>6. /\ removed \in Seq(S) /\ Len(removed) = Len(whole) - 1
      /\ \A j \in 1 .. Len(whole) - 1 :
           removed[j] = IF j < Len(a) + i THEN whole[j] ELSE whole[j + 1]
  BY <1>2, <1>5, RemoveAtProperties
<1> HIDE DEF r, whole, removed
<1>7. Len(removed) = Len(a) + Len(r)
  BY <1>1, <1>2, <1>3, <1>6
<1>8. ASSUME NEW j \in 1 .. Len(a) + Len(r)
      PROVE  removed[j] = (a \o r)[j]
  <2>1. CASE j <= Len(a)
    BY <1>1, <1>2, <1>3, <1>4, <1>6, <2>1
  <2>2. CASE j > Len(a) /\ j < Len(a) + i
    <3>1. removed[j] = whole[j] /\ whole[j] = w[j - Len(a)]
      BY <1>1, <1>2, <1>3, <1>6, <2>2
    <3>2. (a \o r)[j] = r[j - Len(a)]
      BY <1>1, <1>4, <2>2
    <3>3. j - Len(a) \in 1 .. Len(w) - 1 /\ j - Len(a) < i
      BY <1>1, <2>2
    <3>4. r[j - Len(a)] = w[j - Len(a)]
      BY <1>3, <3>3
    <3> QED  BY <3>1, <3>2, <3>4
  <2>3. CASE j >= Len(a) + i
    <3>1. removed[j] = whole[j + 1] /\ whole[j + 1] = w[j + 1 - Len(a)]
      BY <1>1, <1>2, <1>3, <1>6, <2>3
    <3>2. (a \o r)[j] = r[j - Len(a)]
      BY <1>1, <1>3, <1>4, <2>3
    <3>3. r[j - Len(a)] = w[j - Len(a) + 1]
      BY <1>1, <1>3, <2>3
    <3>4. j + 1 - Len(a) = j - Len(a) + 1
      BY <1>1
    <3> QED  BY <3>1, <3>2, <3>3, <3>4
  <2>4. j <= Len(a) \/ (j > Len(a) /\ j < Len(a) + i) \/ j >= Len(a) + i
    BY <1>1
  <2> QED  BY <2>1, <2>2, <2>3, <2>4
<1>9. removed = a \o r
  BY <1>4, <1>6, <1>7, <1>8, SeqEqual
<1> QED  BY <1>5, <1>9 DEF r, whole, removed

(***************************************************************************)
(* What RemoveAt and Append do to a sequence without repetition.           *)
(***************************************************************************)
LEMMA RemoveAtInjective ==
  ASSUME NEW S, NEW s \in Seq(S), IsInjective(s), NEW i \in 1 .. Len(s)
  PROVE  IsInjective(RemoveAt(s, i))
<1> DEFINE r == RemoveAt(s, i)
<1>1. Len(s) \in Nat /\ DOMAIN s = 1 .. Len(s)
  BY LenProperties
<1>2. /\ r \in Seq(S) /\ Len(r) = Len(s) - 1
      /\ \A j \in 1 .. Len(s) - 1 : r[j] = IF j < i THEN s[j] ELSE s[j + 1]
  BY RemoveAtProperties
<1>3. DOMAIN r = 1 .. Len(s) - 1
  BY <1>2, LenProperties
<1> HIDE DEF r
<1>4. ASSUME NEW j \in 1 .. Len(s) - 1, NEW k \in 1 .. Len(s) - 1, r[j] = r[k]
      PROVE  j = k
  <2>1. PICK m \in 1 .. Len(s) : m = (IF j < i THEN j ELSE j + 1) /\ r[j] = s[m]
    BY <1>1, <1>2
  <2>2. PICK n \in 1 .. Len(s) : n = (IF k < i THEN k ELSE k + 1) /\ r[k] = s[n]
    BY <1>1, <1>2
  <2>3. m = n
    BY <1>1, <1>4, <2>1, <2>2 DEF IsInjective
  <2> QED  BY <1>1, <2>1, <2>2, <2>3
<1>5. IsInjective(r)
  BY <1>3, <1>4 DEF IsInjective
<1> QED  BY <1>5 DEF r

(* A newcomer makes no repetition. *)
LEMMA AppendIsInjective ==
  ASSUME NEW S, NEW s \in Seq(S), IsInjective(s), NEW p \in S, p \notin ToSet(s)
  PROVE  IsInjective(Append(s, p))
<1> DEFINE t == Append(s, p)
<1>1. Len(s) \in Nat /\ DOMAIN s = 1 .. Len(s)
  BY LenProperties
<1>2. /\ t \in Seq(S) /\ Len(t) = Len(s) + 1
      /\ \A j \in 1 .. Len(s) : t[j] = s[j]
      /\ t[Len(s) + 1] = p
  BY AppendProperties
<1>3. DOMAIN t = 1 .. Len(s) + 1
  BY <1>2, LenProperties
<1>4. \A j \in 1 .. Len(s) : s[j] # p
  BY <1>1 DEF ToSet
<1> HIDE DEF t
<1> SUFFICES ASSUME NEW j \in 1 .. Len(s) + 1, NEW k \in 1 .. Len(s) + 1,
                    t[j] = t[k]
             PROVE  j = k
  BY <1>3 DEF IsInjective, t
<1>5. CASE j <= Len(s) /\ k <= Len(s)
  BY <1>1, <1>2, <1>5 DEF IsInjective
<1>6. CASE j = Len(s) + 1 \/ k = Len(s) + 1
  BY <1>1, <1>2, <1>4, <1>6
<1> QED  BY <1>1, <1>5, <1>6

(***************************************************************************)
(* The head of a concatenation replaced by at most one of its elements:    *)
(* what a rotation leaves has no repetition either.                        *)
(***************************************************************************)
LEMMA KeptIsInjective ==
  ASSUME NEW S, NEW a \in Seq(S), NEW w \in Seq(S), IsInjective(a \o w),
         NEW h \in Seq(S), h = << >> \/ \E i \in 1 .. Len(a) : h = << a[i] >>
  PROVE  IsInjective(h \o w)
<1> DEFINE u == h \o w
           whole == a \o w
<1>1. /\ Len(a) \in Nat /\ Len(w) \in Nat /\ Len(h) \in Nat
      /\ Len(h) <= 1
      /\ Len(h) = 1 => \E i \in 1 .. Len(a) : h[1] = a[i]
  <2>1. CASE h = << >>
    BY <2>1, LenProperties
  <2>2. CASE \E i \in 1 .. Len(a) : h = << a[i] >>
    BY <2>2, LenProperties
  <2> QED  BY <2>1, <2>2
<1>2. /\ whole \in Seq(S) /\ Len(whole) = Len(a) + Len(w)
      /\ \A j \in 1 .. Len(a) + Len(w) :
           whole[j] = IF j <= Len(a) THEN a[j] ELSE w[j - Len(a)]
  BY ConcatProperties
<1>3. /\ u \in Seq(S) /\ Len(u) = Len(h) + Len(w)
      /\ \A j \in 1 .. Len(h) + Len(w) :
           u[j] = IF j <= Len(h) THEN h[j] ELSE w[j - Len(h)]
  BY ConcatProperties
<1>4. /\ DOMAIN whole = 1 .. Len(a) + Len(w)
      /\ DOMAIN u = 1 .. Len(h) + Len(w)
  BY <1>2, <1>3, LenProperties
<1>5. \A j, k \in 1 .. Len(a) + Len(w) : whole[j] = whole[k] => j = k
  BY <1>4 DEF IsInjective
<1> HIDE DEF u, whole
(* Where the element u[j] stands in the old line. *)
<1>6. PICK at \in 0 .. Len(a) :
        /\ at = 0 <=> Len(h) = 0
        /\ Len(h) = 1 => h[1] = a[at]
  BY <1>1
<1> DEFINE Place(j) == IF j <= Len(h) THEN at ELSE j - Len(h) + Len(a)
<1>7. ASSUME NEW j \in 1 .. Len(h) + Len(w)
      PROVE  Place(j) \in 1 .. Len(a) + Len(w) /\ u[j] = whole[Place(j)]
  <2>1. CASE j <= Len(h)
    <3>1. j = 1 /\ Len(h) = 1 /\ at \in 1 .. Len(a) /\ Place(j) = at
      BY <1>1, <1>6, <2>1
    <3>2. u[j] = h[1] /\ whole[at] = a[at]
      BY <1>1, <1>2, <1>3, <2>1, <3>1
    <3> QED  BY <1>1, <1>6, <3>1, <3>2
  <2>2. CASE j > Len(h)
    <3> DEFINE n == j - Len(h) + Len(a)
    <3>1. /\ n \in 1 .. Len(a) + Len(w)
          /\ ~(n <= Len(a)) /\ n - Len(a) = j - Len(h)
      BY <1>1, <2>2
    <3>2. Place(j) = n
      BY <1>1, <2>2
    <3> HIDE DEF n
    <3>3. whole[n] = w[n - Len(a)]
      BY <1>2, <3>1
    <3>4. u[j] = w[j - Len(h)]
      BY <1>1, <1>3, <2>2
    <3> QED  BY <3>1, <3>2, <3>3, <3>4
  <2>3. j <= Len(h) \/ j > Len(h)
    BY <1>1
  <2> QED  BY <2>1, <2>2, <2>3
<1> HIDE DEF Place
<1>8. ASSUME NEW j \in 1 .. Len(h) + Len(w), NEW k \in 1 .. Len(h) + Len(w),
             u[j] = u[k]
      PROVE  j = k
  <2>1. Place(j) = Place(k)
    BY <1>5, <1>7, <1>8
  <2> QED  BY <1>1, <1>6, <2>1 DEF Place
<1>9. IsInjective(u)
  BY <1>4, <1>8 DEF IsInjective
<1> QED  BY <1>9 DEF u

-----------------------------------------------------------------------------
(* The inductive invariant and the line. *)

(***************************************************************************)
(* Injectivity of the line alone is not inductive: leave removes the first *)
(* occurrence from one list, and only NoIdlePlace makes the promotion a    *)
(* step of the line, for a newcomer goes to active when it has room.       *)
(***************************************************************************)
IInv == TypeOK /\ NoIdlePlace /\ NobodyTwice

(* The joined line has the players of both lists. *)
LEMMA RangeOfLine ==
  ASSUME TypeOK
  PROVE  /\ ToSet(active \o waiting) = Queued
         /\ active \o waiting \in Seq(Players)
         /\ Len(active \o waiting) = Len(active) + Len(waiting)
<1>1. active \in Seq(Players) /\ waiting \in Seq(Players)
  BY DEF TypeOK
<1>2. Range(active \o waiting) = Range(active) \union Range(waiting)
  BY <1>1, RangeConcatenation
<1>3. ToSet(active \o waiting) = Queued
  BY <1>2, Zenon DEF Queued, ToSet, Range
<1> QED  BY <1>1, <1>3, ConcatProperties

(***************************************************************************)
(* The parts of a line without repetition have none.                       *)
(***************************************************************************)
LEMMA PartsInjective ==
  ASSUME TypeOK, NobodyTwice
  PROVE  IsInjective(active) /\ IsInjective(waiting)
<1> DEFINE l == active \o waiting
<1>1. /\ Len(active) \in Nat /\ DOMAIN active = 1 .. Len(active)
      /\ Len(waiting) \in Nat /\ DOMAIN waiting = 1 .. Len(waiting)
  BY LenProperties DEF TypeOK
<1>2. /\ l \in Seq(Players) /\ Len(l) = Len(active) + Len(waiting)
      /\ \A j \in 1 .. Len(active) + Len(waiting) :
           l[j] = IF j <= Len(active) THEN active[j] ELSE waiting[j - Len(active)]
  BY ConcatProperties DEF TypeOK
<1>3. DOMAIN l = 1 .. Len(active) + Len(waiting)
  BY <1>2, LenProperties
<1>4. \A j, k \in 1 .. Len(active) + Len(waiting) : l[j] = l[k] => j = k
  BY <1>3 DEF NobodyTwice, IsInjective
<1> HIDE DEF l
<1>5. IsInjective(active)
  BY <1>1, <1>2, <1>4 DEF IsInjective
<1>6. ASSUME NEW j \in 1 .. Len(waiting), NEW k \in 1 .. Len(waiting),
             waiting[j] = waiting[k]
      PROVE  j = k
  <2>1. PICK m \in 1 .. Len(active) + Len(waiting) :
          m = Len(active) + j /\ ~(m <= Len(active)) /\ m - Len(active) = j
    BY <1>1
  <2>2. PICK n \in 1 .. Len(active) + Len(waiting) :
          n = Len(active) + k /\ ~(n <= Len(active)) /\ n - Len(active) = k
    BY <1>1
  <2>3. l[m] = waiting[j] /\ l[n] = waiting[k]
    BY <1>2, <2>1, <2>2
  <2>4. m = n
    BY <1>4, <1>6, <2>3
  <2> QED  BY <1>1, <2>1, <2>2, <2>4
<1> QED  BY <1>1, <1>5, <1>6 DEF IsInjective

(***************************************************************************)
(* A promotion keeps the line as it is and leaves no idle place.           *)
(***************************************************************************)
LEMMA PromoteKeepsLine ==
  ASSUME NEW a \in Seq(Players), NEW w \in Seq(Players),
         Len(a) <= ActiveCount, Len(w) <= WaitingCapacity,
         PromoteWaiting(a, w)
  PROVE  TypeOK' /\ NoIdlePlace' /\ active' \o waiting' = a \o w
<1> DEFINE k == Promoted(a, w)
           hd == SubSeq(w, 1, k)
           tl == SubSeq(w, k + 1, Len(w))
<1>1. Len(a) \in Nat /\ Len(w) \in Nat /\ ActiveCount \in Nat
  BY LenProperties, CapacityAssumption
<1>2. k \in 0 .. Len(w) /\ k <= ActiveCount - Len(a)
      /\ (k < Len(w) => k = ActiveCount - Len(a))
  BY <1>1 DEF Promoted
<1>3. active' = a \o hd /\ waiting' = tl
  BY DEF PromoteWaiting
<1> HIDE DEF k
<1>4. hd \in Seq(Players) /\ Len(hd) = k
  <2>1. \A j \in 1 .. k : w[j] \in Players
    BY <1>1, <1>2, ElementOfSeq
  <2>2. hd \in Seq(Players) /\ Len(hd) = IF 1 <= k THEN k - 1 + 1 ELSE 0
    BY <1>2, <2>1, SubSeqProperties
  <2> QED  BY <1>2, <2>2
<1>5. tl \in Seq(Players) /\ Len(tl) = Len(w) - k
  <2>1. \A j \in k + 1 .. Len(w) : w[j] \in Players
    BY <1>1, <1>2, ElementOfSeq
  <2>2. /\ tl \in Seq(Players)
        /\ Len(tl) = IF k + 1 <= Len(w) THEN Len(w) - (k + 1) + 1 ELSE 0
    BY <1>1, <1>2, <2>1, SubSeqProperties
  <2> QED  BY <1>1, <1>2, <2>2
<1>6. hd \o tl = w
  <2>1. /\ 1 \in 1 .. Len(w) + 1 /\ k \in 1 - 1 .. Len(w)
        /\ Len(w) \in k .. Len(w)
    BY <1>1, <1>2
  <2>2. hd \o tl = SubSeq(w, 1, Len(w))
    BY <2>1, ConcatAdjacentSubSeq
  <2> QED  BY <2>2, SubSeqFull
<1> HIDE DEF hd, tl
<1>7. a \o hd \in Seq(Players) /\ Len(a \o hd) = Len(a) + Len(hd)
  BY <1>4, ConcatProperties
<1>8. (a \o hd) \o tl = a \o w
  <2>1. (a \o hd) \o tl = a \o (hd \o tl)
    BY <1>4, <1>5, ConcatAssociative
  <2> QED  BY <1>6, <2>1
<1>9. Len(a) + Len(hd) <= ActiveCount /\ Len(tl) <= WaitingCapacity
  BY <1>1, <1>2, <1>4, <1>5, CapacityAssumption
<1>10. TypeOK'
  BY <1>3, <1>5, <1>7, <1>9 DEF TypeOK
<1>11. NoIdlePlace'
  <2>1. tl # << >> => Len(tl) # 0
    BY <1>5, EmptySeq
  <2>2. tl # << >> => Len(a \o hd) = ActiveCount
    BY <1>1, <1>2, <1>4, <1>5, <1>7, <2>1
  <2> QED  BY <1>3, <2>2 DEF NoIdlePlace
<1> QED  BY <1>3, <1>8, <1>10, <1>11

-----------------------------------------------------------------------------
(* Every operation is a step of the line and keeps the invariant. *)

(* A step of the line, or none. *)
LineStep == Room!Next \/ UNCHANGED (active \o waiting)

(* The instance of Line has its own copies of the sequence operators. *)
LEMMA SameOperators ==
  ASSUME NEW s
  PROVE  /\ Room!ToSet(s) = ToSet(s)
         /\ \A i : Room!RemoveAt(s, i) = RemoveAt(s, i)
BY DEF Room!ToSet, ToSet, Room!RemoveAt, RemoveAt

(***************************************************************************)
(* join is a step of the line, or none: with a free place nobody waits,    *)
(* and otherwise the newcomer goes to the end.                             *)
(***************************************************************************)
LEMMA JoinStep ==
  ASSUME IInv, NEW p \in Players, Join(p)
  PROVE  /\ TypeOK' /\ NoIdlePlace' /\ LineStep
         /\ Room!Join(p) \/ UNCHANGED (active \o waiting)
<1> DEFINE l == active \o waiting
<1>1. /\ active \in Seq(Players) /\ waiting \in Seq(Players)
      /\ Len(active) \in Nat /\ Len(waiting) \in Nat
      /\ Len(active) <= ActiveCount /\ Len(waiting) <= WaitingCapacity
      /\ ActiveCount \in Nat /\ WaitingCapacity \in Nat
  BY LenProperties, CapacityAssumption DEF IInv, TypeOK
<1>2. /\ ToSet(l) = Queued /\ l \in Seq(Players)
      /\ Len(l) = Len(active) + Len(waiting)
  BY RangeOfLine DEF IInv
<1>3. CASE JoinActive(p)
  <2>1. /\ p \notin Queued /\ Len(active) < ActiveCount
        /\ active' = Append(active, p) /\ waiting' = waiting
    BY <1>3 DEF JoinActive
  <2>2. waiting = << >>
    BY <1>1, <2>1 DEF IInv, NoIdlePlace
  <2>3. l = active /\ active' \o waiting' = Append(active, p)
    <3>1. Append(active, p) \in Seq(Players)
      BY <1>1, AppendProperties
    <3> QED  BY <1>1, <2>1, <2>2, <3>1, ConcatEmptySeq
  <2>4. Len(active) < Capacity
    BY <1>1, <2>1 DEF Capacity
  <2>5. Room!Join(p)
    BY <1>2, <2>1, <2>3, <2>4, SameOperators DEF Room!Join
  <2>6. TypeOK'
    BY <1>1, <2>1, AppendProperties DEF TypeOK
  <2>7. NoIdlePlace'
    BY <2>1, <2>2 DEF NoIdlePlace
  <2> QED  BY <2>5, <2>6, <2>7 DEF LineStep, Room!Next
<1>4. CASE JoinWaiting(p)
  <2>1. /\ p \notin Queued /\ Len(active) >= ActiveCount
        /\ Len(waiting) < WaitingCapacity
        /\ waiting' = Append(waiting, p) /\ active' = active
    BY <1>4 DEF JoinWaiting
  <2>2. active' \o waiting' = Append(l, p)
    <3>1. waiting' = waiting \o << p >>
      BY <1>1, <2>1, AppendIsConcat
    <3>2. << p >> \in Seq(Players)
      OBVIOUS
    <3>3. active \o (waiting \o << p >>) = l \o << p >>
      BY <1>1, <3>2, ConcatAssociative
    <3>4. Append(l, p) = l \o << p >>
      BY <1>2, AppendIsConcat
    <3> QED  BY <2>1, <3>1, <3>3, <3>4
  <2>3. Len(l) < Capacity
    BY <1>1, <1>2, <2>1 DEF Capacity
  <2> HIDE DEF l
  <2>4. Room!Join(p)
    BY <1>2, <2>1, <2>2, <2>3, SameOperators DEF Room!Join, l
  <2>5. TypeOK'
    BY <1>1, <2>1, AppendProperties DEF TypeOK
  <2>6. NoIdlePlace'
    BY <1>1, <2>1 DEF NoIdlePlace
  <2> QED  BY <2>4, <2>5, <2>6 DEF LineStep, Room!Next
<1>5. CASE JoinUnchanged(p)
  BY <1>5 DEF JoinUnchanged, queueVars, LineStep, IInv, TypeOK, NoIdlePlace
<1> QED  BY <1>3, <1>4, <1>5 DEF Join

(* leave is a step of the line, or none: whoever moves up was next. *)
LEMMA LeaveStep ==
  ASSUME IInv, NEW p \in Players, Leave(p)
  PROVE  TypeOK' /\ NoIdlePlace' /\ LineStep /\ (p \in Queued => Room!Leave(p))
<1> DEFINE l == active \o waiting
<1>1. /\ active \in Seq(Players) /\ waiting \in Seq(Players)
      /\ Len(active) \in Nat /\ Len(waiting) \in Nat
      /\ Len(active) <= ActiveCount /\ Len(waiting) <= WaitingCapacity
  BY LenProperties DEF IInv, TypeOK
<1>2. DOMAIN l = 1 .. Len(l)
  BY RangeOfLine, LenProperties DEF IInv
<1>3. IsInjective(active) /\ IsInjective(waiting)
  BY PartsInjective DEF IInv
<1>4. CASE LeaveActive(p)
  <2>1. PICK i \in 1 .. Len(active) :
          active[i] = p /\ RemoveFirst(active, p) = RemoveAt(active, i)
    BY <1>1, <1>3, <1>4, RemoveFirstIsRemoveAt DEF LeaveActive
  <2>2. /\ RemoveAt(active, i) \in Seq(Players)
        /\ Len(RemoveAt(active, i)) = Len(active) - 1
    BY <1>1, RemoveAtProperties
  <2>3. Len(RemoveAt(active, i)) <= ActiveCount
    BY <1>1, <2>2, CapacityAssumption
  <2>4. PromoteWaiting(RemoveAt(active, i), waiting)
    BY <1>4, <2>1 DEF LeaveActive
  <2>5. /\ TypeOK' /\ NoIdlePlace'
        /\ active' \o waiting' = RemoveAt(active, i) \o waiting
    BY <1>1, <2>2, <2>3, <2>4, PromoteKeepsLine
  <2>6. /\ RemoveAt(l, i) = RemoveAt(active, i) \o waiting
        /\ i \in 1 .. Len(l) /\ l[i] = p
    BY <1>1, <2>1, RemoveAtLeft
  <2>7. Room!Leave(p)
    BY <1>2, <2>5, <2>6, SameOperators DEF Room!Leave
  <2> QED  BY <2>5, <2>7 DEF LineStep, Room!Next
<1>5. CASE LeaveWaiting(p)
  <2>1. PICK i \in 1 .. Len(waiting) :
          waiting[i] = p /\ RemoveFirst(waiting, p) = RemoveAt(waiting, i)
    BY <1>1, <1>3, <1>5, RemoveFirstIsRemoveAt DEF LeaveWaiting
  <2>2. active' = active /\ waiting' = RemoveAt(waiting, i)
    BY <1>5, <2>1 DEF LeaveWaiting
  <2>3. /\ RemoveAt(waiting, i) \in Seq(Players)
        /\ Len(RemoveAt(waiting, i)) = Len(waiting) - 1
    BY <1>1, RemoveAtProperties
  <2>4. /\ RemoveAt(l, Len(active) + i) = active' \o waiting'
        /\ Len(active) + i \in 1 .. Len(l) /\ l[Len(active) + i] = p
    BY <1>1, <2>1, <2>2, RemoveAtRight
  <2>5. Room!Leave(p)
    BY <1>2, <2>4, SameOperators DEF Room!Leave
  <2>6. TypeOK'
    BY <1>1, <2>2, <2>3, CapacityAssumption DEF TypeOK
  <2>7. NoIdlePlace'
    <3>1. waiting # << >>
      BY <1>1, <2>1
    <3> QED  BY <2>2, <3>1 DEF IInv, NoIdlePlace
  <2> QED  BY <2>5, <2>6, <2>7 DEF LineStep, Room!Next
<1>6. CASE LeaveUnchanged(p)
  BY <1>6 DEF LeaveUnchanged, queueVars, LineStep, IInv, TypeOK, NoIdlePlace
<1> QED  BY <1>4, <1>5, <1>6 DEF Leave

(***************************************************************************)
(* rotate_after_match is a step of the line: the winner, then those who    *)
(* wait.                                                                   *)
(***************************************************************************)
LEMMA RotateStep ==
  ASSUME IInv, NEW w, RotateAfterMatch(w)
  PROVE  /\ TypeOK' /\ NoIdlePlace' /\ LineStep
         /\ active' \o waiting' = Kept(w) \o waiting
<1> DEFINE l == active \o waiting
           behind == SubSeq(l, ActiveCount + 1, Len(l))
<1>1. /\ active \in Seq(Players) /\ waiting \in Seq(Players)
      /\ Len(active) \in Nat /\ Len(waiting) \in Nat
      /\ Len(active) <= ActiveCount /\ Len(waiting) <= WaitingCapacity
      /\ ActiveCount \in Nat \ {0} /\ DOMAIN active = 1 .. Len(active)
  BY LenProperties, CapacityAssumption DEF IInv, TypeOK
<1>2. /\ l \in Seq(Players) /\ Len(l) = Len(active) + Len(waiting)
      /\ DOMAIN l = 1 .. Len(l)
      /\ \A j \in 1 .. Len(active) : l[j] = active[j]
  <2>1. /\ l \in Seq(Players) /\ Len(l) = Len(active) + Len(waiting)
        /\ \A j \in 1 .. Len(active) + Len(waiting) :
             l[j] = IF j <= Len(active) THEN active[j] ELSE waiting[j - Len(active)]
    BY <1>1, ConcatProperties
  <2>2. DOMAIN l = 1 .. Len(l)
    BY <2>1, LenProperties
  <2> HIDE DEF l
  <2> QED  BY <1>1, <2>1, <2>2
<1>3. \/ Kept(w) = << >>
      \/ \E i \in 1 .. Len(active) : Kept(w) = << active[i] >>
  BY <1>1 DEF Kept, ToSet
<1>4. Kept(w) \in Seq(Players) /\ Len(Kept(w)) <= ActiveCount
  <2>1. CASE Kept(w) = << >>
    BY <1>1, <2>1
  <2>2. CASE \E i \in 1 .. Len(active) : Kept(w) = << active[i] >>
    <3>1. PICK i \in 1 .. Len(active) : Kept(w) = << active[i] >>
      BY <2>2
    <3>2. active[i] \in Players
      BY <1>1, ElementOfSeq
    <3> QED  BY <1>1, <3>1, <3>2
  <2> QED  BY <1>3, <2>1, <2>2
<1>5. /\ TypeOK' /\ NoIdlePlace'
      /\ active' \o waiting' = Kept(w) \o waiting
  BY <1>1, <1>4, PromoteKeepsLine DEF RotateAfterMatch
<1>6. behind = waiting
  <2>1. CASE waiting = << >>
    <3>1. Len(l) < ActiveCount + 1
      BY <1>1, <1>2, <2>1
    <3> QED  BY <1>1, <1>2, <2>1, <3>1, SubSeqEmpty
  <2>2. CASE waiting # << >>
    <3>1. Len(active) = ActiveCount
      BY <2>2 DEF IInv, NoIdlePlace
    <3>2. Len(waiting) >= 1
      BY <1>1, <2>2, EmptySeq
    <3>3. /\ ActiveCount + 1 \in Len(active) + 1 .. Len(active) + Len(waiting)
          /\ Len(l) \in Len(active) + 1 .. Len(active) + Len(waiting)
          /\ ActiveCount + 1 - Len(active) = 1
          /\ Len(l) - Len(active) = Len(waiting)
      BY <1>1, <1>2, <3>1, <3>2
    <3>4. behind = SubSeq(waiting, ActiveCount + 1 - Len(active), Len(l) - Len(active))
      BY <1>1, <3>3, SubSeqOfConcat2
    <3>5. behind = SubSeq(waiting, 1, Len(waiting))
      BY <3>3, <3>4
    <3> QED  BY <1>1, <3>5, SubSeqFull
  <2> QED  BY <2>1, <2>2
<1>7. Kept(w) \in {<< >>} \union {<< l[i] >> : i \in Room!Playing}
  <2>1. \A i \in 1 .. Len(active) : i \in Room!Playing /\ l[i] = active[i]
    BY <1>1, <1>2 DEF Room!Playing
  <2> HIDE DEF l
  <2> QED  BY <1>3, <2>1
<1>8. Room!Rotate
  BY <1>5, <1>6, <1>7 DEF Room!Rotate
<1> QED  BY <1>5, <1>8 DEF LineStep, Room!Next

(***************************************************************************)
(* No step of the line repeats a player.                                   *)
(***************************************************************************)
LEMMA LineStepKeepsNobodyTwice ==
  ASSUME TypeOK, NobodyTwice, LineStep
  PROVE  NobodyTwice'
<1> DEFINE l == active \o waiting
<1>1. /\ active \in Seq(Players) /\ waiting \in Seq(Players)
      /\ Len(active) <= ActiveCount /\ ActiveCount \in Nat
      /\ Len(active) \in Nat /\ Len(waiting) \in Nat /\ WaitingCapacity \in Nat
  BY LenProperties, CapacityAssumption DEF TypeOK
<1>2. l \in Seq(Players) /\ IsInjective(l)
  BY RangeOfLine DEF NobodyTwice
<1>3. Len(l) \in Nat /\ DOMAIN l = 1 .. Len(l)
  BY <1>2, LenProperties
<1>4. ASSUME NEW p \in Players, Room!Join(p)
      PROVE  NobodyTwice'
  <2>1. p \notin ToSet(l) /\ l' = Append(l, p)
    BY <1>4, SameOperators DEF Room!Join
  <2> HIDE DEF l
  <2>2. IsInjective(l')
    BY <1>2, <2>1, AppendIsInjective
  <2> QED  BY <2>2 DEF NobodyTwice, l
<1>5. ASSUME NEW p \in Players, Room!Leave(p)
      PROVE  NobodyTwice'
  <2>1. PICK i \in 1 .. Len(l) : l' = RemoveAt(l, i)
    BY <1>3, <1>5, SameOperators DEF Room!Leave
  <2> HIDE DEF l
  <2>2. IsInjective(l')
    BY <1>2, <2>1, RemoveAtInjective
  <2> QED  BY <2>2 DEF NobodyTwice, l
<1>6. CASE Room!Rotate
  (* Split the line where the rotation does. *)
  <2> DEFINE k == IF Len(l) <= ActiveCount THEN Len(l) ELSE ActiveCount
             hd == SubSeq(l, 1, k)
             tl == SubSeq(l, k + 1, Len(l))
  <2>1. PICK kept \in {<< >>} \union {<< l[i] >> : i \in Room!Playing} :
          l' = kept \o SubSeq(l, ActiveCount + 1, Len(l))
    BY <1>6 DEF Room!Rotate
  <2>2. Room!Playing = {i \in 1 .. Len(l) : i <= ActiveCount}
    BY <1>3 DEF Room!Playing
  <2> HIDE DEF l
  <2>3. k \in 0 .. Len(l) /\ Room!Playing = 1 .. k
    BY <1>1, <1>3, <2>2
  <2>4. SubSeq(l, ActiveCount + 1, Len(l)) = tl
    <3>1. CASE Len(l) <= ActiveCount
      BY <1>1, <1>3, <3>1, SubSeqEmpty
    <3>2. CASE Len(l) > ActiveCount
      <4>1. k = ActiveCount
        <5>1. ~(Len(l) <= ActiveCount)
          BY <1>1, <1>3, <3>2
        <5> QED  BY <5>1
      <4> HIDE DEF k
      <4> QED  BY <4>1
    <3> QED  BY <1>1, <1>3, <3>1, <3>2
  <2> HIDE DEF k
  <2>5. /\ hd \in Seq(Players) /\ Len(hd) = k
        /\ \A i \in 1 .. k : hd[i] = l[i]
    <3>1. \A i \in 1 .. k : l[i] \in Players
      BY <1>2, <1>3, <2>3, ElementOfSeq
    <3>2. /\ hd \in Seq(Players) /\ Len(hd) = IF 1 <= k THEN k - 1 + 1 ELSE 0
          /\ \A i \in 1 .. k - 1 + 1 : hd[i] = l[1 + i - 1]
      BY <2>3, <3>1, SubSeqProperties
    <3> QED  BY <2>3, <3>2
  <2>6. tl \in Seq(Players)
    <3>1. \A i \in k + 1 .. Len(l) : l[i] \in Players
      BY <1>2, <1>3, <2>3, ElementOfSeq
    <3> QED  BY <1>3, <2>3, <3>1, SubSeqProperties
  <2>7. hd \o tl = l
    <3>1. 1 \in 1 .. Len(l) + 1 /\ k \in 1 - 1 .. Len(l) /\ Len(l) \in k .. Len(l)
      BY <1>3, <2>3
    <3>2. hd \o tl = SubSeq(l, 1, Len(l))
      BY <1>2, <3>1, ConcatAdjacentSubSeq
    <3> QED  BY <1>2, <3>2, SubSeqFull
  <2> HIDE DEF hd, tl
  <2>8. kept = << >> \/ \E i \in 1 .. Len(hd) : kept = << hd[i] >>
    BY <2>3, <2>5
  <2>9. kept \in Seq(Players)
    <3>1. ASSUME NEW i \in 1 .. Len(hd), kept = << hd[i] >>
          PROVE  kept \in Seq(Players)
      <4>1. hd[i] \in Players
        BY <2>5, ElementOfSeq
      <4> QED  BY <3>1, <4>1
    <3>2. kept = << >> => kept \in Seq(Players)
      BY EmptySeq
    <3> QED  BY <2>8, <3>1, <3>2
  <2>10. IsInjective(kept \o tl)
    BY <1>2, <2>5, <2>6, <2>7, <2>8, <2>9, KeptIsInjective
  <2> QED  BY <2>1, <2>4, <2>10 DEF NobodyTwice, l
<1>7. CASE UNCHANGED (active \o waiting)
  BY <1>7 DEF NobodyTwice
<1> QED  BY <1>4, <1>5, <1>6, <1>7 DEF LineStep, Room!Next

(***************************************************************************)
(* The inductive invariant survives every operation, and each is a step of *)
(* the line or none.                                                       *)
(***************************************************************************)
LEMMA NextStep ==
  ASSUME IInv, [Next]_queueVars
  PROVE  IInv' /\ LineStep
<1>1. TypeOK' /\ NoIdlePlace' /\ LineStep
  <2>1. CASE UNCHANGED queueVars
    BY <2>1 DEF queueVars, LineStep, IInv, TypeOK, NoIdlePlace
  <2>2. ASSUME NEW p \in Players, Join(p)
        PROVE  TypeOK' /\ NoIdlePlace' /\ LineStep
    BY <2>2, JoinStep
  <2>3. ASSUME NEW p \in Players, Leave(p)
        PROVE  TypeOK' /\ NoIdlePlace' /\ LineStep
    BY <2>3, LeaveStep
  <2>4. ASSUME NEW w \in Players \union {NoPlayer}, RotateAfterMatch(w)
        PROVE  TypeOK' /\ NoIdlePlace' /\ LineStep
    BY <2>4, RotateStep
  <2> QED  BY <2>1, <2>2, <2>3, <2>4 DEF Next
<1> QED  BY <1>1, LineStepKeepsNobodyTwice DEF IInv

-----------------------------------------------------------------------------
(* Who is in the room after an operation, for ServerApp. *)

(* The elements of a joined sequence. *)
LEMMA ConcatRange ==
  ASSUME NEW S, NEW s \in Seq(S), NEW t \in Seq(S)
  PROVE  ToSet(s \o t) = ToSet(s) \union ToSet(t)
<1>1. Range(s \o t) = Range(s) \union Range(t)
  BY RangeConcatenation
<1> QED  BY <1>1, Zenon DEF ToSet, Range

(* Removing takes away one element, when it is there once. *)
LEMMA RemoveAtRange ==
  ASSUME NEW S, NEW s \in Seq(S), IsInjective(s), NEW i \in 1 .. Len(s)
  PROVE  ToSet(RemoveAt(s, i)) = ToSet(s) \ {s[i]}
<1> DEFINE r == RemoveAt(s, i)
<1>1. Len(s) \in Nat /\ DOMAIN s = 1 .. Len(s)
  BY LenProperties
<1>2. /\ r \in Seq(S) /\ Len(r) = Len(s) - 1
      /\ \A j \in 1 .. Len(s) - 1 : r[j] = IF j < i THEN s[j] ELSE s[j + 1]
  BY RemoveAtProperties
<1>3. DOMAIN r = 1 .. Len(s) - 1
  BY <1>2, LenProperties
<1> HIDE DEF r
<1>4. ASSUME NEW j \in 1 .. Len(s) - 1
      PROVE  r[j] \in ToSet(s) \ {s[i]}
  <2>1. PICK m \in 1 .. Len(s) : m = (IF j < i THEN j ELSE j + 1) /\ r[j] = s[m] /\ m # i
    BY <1>1, <1>2
  <2> QED  BY <1>1, <2>1 DEF IsInjective, ToSet
<1>5. ASSUME NEW m \in 1 .. Len(s), s[m] # s[i]
      PROVE  \E j \in 1 .. Len(s) - 1 : r[j] = s[m]
  <2>1. m # i
    BY <1>5
  <2>2. CASE m < i
    BY <1>1, <1>2, <2>2
  <2>3. CASE m > i
    <3>1. m - 1 \in 1 .. Len(s) - 1 /\ ~(m - 1 < i) /\ (m - 1) + 1 = m
      BY <1>1, <2>3
    <3> QED  BY <1>2, <3>1
  <2> QED  BY <1>1, <2>1, <2>2, <2>3
<1>6. ToSet(r) = ToSet(s) \ {s[i]}
  <2>1. ToSet(r) = {r[j] : j \in 1 .. Len(s) - 1} /\ ToSet(s) = {s[m] : m \in 1 .. Len(s)}
    BY <1>1, <1>3 DEF ToSet
  <2> QED  BY <1>4, <1>5, <2>1
<1> QED  BY <1>6 DEF r

(***************************************************************************)
(* Nobody both plays and waits.                                            *)
(***************************************************************************)
LEMMA PartsDisjoint ==
  ASSUME TypeOK, NobodyTwice
  PROVE  ToSet(active) \intersect ToSet(waiting) = {}
<1> DEFINE l == active \o waiting
<1>1. /\ Len(active) \in Nat /\ DOMAIN active = 1 .. Len(active)
      /\ Len(waiting) \in Nat /\ DOMAIN waiting = 1 .. Len(waiting)
  BY LenProperties DEF TypeOK
<1>2. /\ l \in Seq(Players) /\ Len(l) = Len(active) + Len(waiting)
      /\ \A j \in 1 .. Len(active) + Len(waiting) :
           l[j] = IF j <= Len(active) THEN active[j] ELSE waiting[j - Len(active)]
  BY ConcatProperties DEF TypeOK
<1>3. DOMAIN l = 1 .. Len(active) + Len(waiting)
  BY <1>2, LenProperties
<1>4. \A j, k \in 1 .. Len(active) + Len(waiting) : l[j] = l[k] => j = k
  BY <1>3 DEF NobodyTwice, IsInjective
<1> HIDE DEF l
<1>5. ASSUME NEW j \in 1 .. Len(active), NEW k \in 1 .. Len(waiting)
      PROVE  active[j] # waiting[k]
  <2>1. PICK n \in 1 .. Len(active) + Len(waiting) :
          n = Len(active) + k /\ ~(n <= Len(active)) /\ n - Len(active) = k
    BY <1>1
  <2>2. l[n] = waiting[k] /\ l[j] = active[j] /\ n # j
    BY <1>1, <1>2, <2>1
  <2> QED  BY <1>1, <1>4, <2>2
<1> QED  BY <1>1, <1>5 DEF ToSet

(***************************************************************************)
(* join lets in nobody but the newcomer, and leaves a full line-up alone.  *)
(***************************************************************************)
LEMMA JoinEffect ==
  ASSUME IInv, NEW p \in Players, Join(p)
  PROVE  /\ Queued' \subseteq Queued \union {p}
         /\ Len(active) = ActiveCount => active' = active
<1>1. ASSUME NEW s \in Seq(Players)
      PROVE  ToSet(Append(s, p)) = ToSet(s) \union {p}
  <2>1. /\ Append(s, p) \in Seq(Players) /\ Len(Append(s, p)) = Len(s) + 1
        /\ \A j \in 1 .. Len(s) : Append(s, p)[j] = s[j]
        /\ Append(s, p)[Len(s) + 1] = p
    BY AppendProperties
  <2>2. DOMAIN Append(s, p) = 1 .. Len(s) + 1 /\ DOMAIN s = 1 .. Len(s) /\ Len(s) \in Nat
    BY <2>1, LenProperties
  <2> DEFINE t == Append(s, p)
  <2> HIDE DEF t
  <2>3. ToSet(t) = ToSet(s) \union {p}
    BY <2>1, <2>2 DEF ToSet, t
  <2> QED  BY <2>3 DEF t
<1>2. CASE JoinActive(p)
  BY <1>1, <1>2, CapacityAssumption DEF JoinActive, Queued, IInv, TypeOK
<1>3. CASE JoinWaiting(p)
  BY <1>1, <1>3 DEF JoinWaiting, Queued, IInv, TypeOK
<1>4. CASE JoinUnchanged(p)
  BY <1>4 DEF JoinUnchanged, queueVars, Queued
<1> QED  BY <1>2, <1>3, <1>4 DEF Join

(***************************************************************************)
(* leave takes away one player and nobody else; a player who waits leaves  *)
(* the line-up as it is, and of two who play the other comes first.        *)
(***************************************************************************)
LEMMA LeaveEffect ==
  ASSUME IInv, NEW p \in Players, Leave(p)
  PROVE  /\ Queued' = Queued \ {p}
         /\ p \notin ToSet(active) => active' = active
         /\ \A q \in ToSet(active) :
              p \in ToSet(active) /\ q # p /\ Len(active) = 2 => active'[1] = q
<1> DEFINE l == active \o waiting
<1>1. TypeOK' /\ (p \in Queued => Room!Leave(p))
  BY LeaveStep
<1>2. Queued' = Queued \ {p}
  <2>1. CASE p \in Queued
    <3>1. PICK i \in DOMAIN l : l[i] = p /\ active' \o waiting' = RemoveAt(l, i)
      BY <1>1, <2>1, SameOperators DEF Room!Leave
    <3>2. l \in Seq(Players) /\ IsInjective(l) /\ ToSet(l) = Queued /\ DOMAIN l = 1 .. Len(l)
      BY RangeOfLine, LenProperties DEF IInv, NobodyTwice
    <3> HIDE DEF l
    <3>3. ToSet(active' \o waiting') = Queued \ {p}
      BY <3>1, <3>2, RemoveAtRange
    <3>4. ToSet(active' \o waiting') = Queued'
      BY <1>1, ConcatRange DEF TypeOK, Queued
    <3> QED  BY <3>3, <3>4
  <2>2. CASE p \notin Queued
    BY <2>2 DEF Leave, LeaveActive, LeaveWaiting, LeaveUnchanged, queueVars, Queued
  <2> QED  BY <2>1, <2>2
<1>3. p \notin ToSet(active) => active' = active
  BY DEF Leave, LeaveActive, LeaveWaiting, LeaveUnchanged, queueVars
<1>4. ASSUME p \in ToSet(active), Len(active) = 2, NEW q \in ToSet(active), q # p
      PROVE  active'[1] = q
  <2>1. active \in Seq(Players) /\ IsInjective(active) /\ DOMAIN active = 1 .. 2
    BY <1>4, PartsInjective, LenProperties DEF IInv, TypeOK
  <2>2. PICK i \in 1 .. 2 : active[i] = p /\ RemoveFirst(active, p) = RemoveAt(active, i)
    BY <1>4, <2>1, RemoveFirstIsRemoveAt
  <2> DEFINE rest == RemoveAt(active, i)
             k == Promoted(rest, waiting)
             more == SubSeq(waiting, 1, k)
  <2>3. /\ rest \in Seq(Players) /\ Len(rest) = 1
        /\ rest[1] = IF 1 < i THEN active[1] ELSE active[2]
    <3>1. /\ i \in 1 .. Len(active) /\ 1 \in 1 .. Len(active) - 1
          /\ Len(active) - 1 = 1 /\ 1 + 1 = 2
      BY <1>4, <2>2
    <3>2. /\ rest \in Seq(Players) /\ Len(rest) = Len(active) - 1
          /\ rest[1] = IF 1 < i THEN active[1] ELSE active[1 + 1]
      BY <2>1, <3>1, RemoveAtProperties
    <3> HIDE DEF rest
    <3> QED  BY <3>1, <3>2
  <2>4. rest[1] = q
    BY <1>4, <2>1, <2>2, <2>3 DEF ToSet
  <2>5. active' = rest \o more
    BY <1>4, <2>2 DEF Leave, LeaveActive, LeaveWaiting, LeaveUnchanged, Queued, PromoteWaiting
  <2>6. more \in Seq(Players)
    <3>1. /\ waiting \in Seq(Players) /\ Len(waiting) \in Nat
          /\ \A j \in 1 .. Len(waiting) : waiting[j] \in Players
      BY LenProperties, ElementOfSeq DEF IInv, TypeOK
    <3> HIDE DEF rest
    <3>2. k \in Int /\ k <= Len(waiting)
      BY <2>3, <3>1, CapacityAssumption DEF Promoted
    <3> HIDE DEF k
    <3> QED  BY <3>1, <3>2, SubSeqProperties
  <2> HIDE DEF rest, more
  <2>7. (rest \o more)[1] = rest[1]
    <3>1. /\ \A j \in 1 .. Len(rest) + Len(more) :
               (rest \o more)[j] = IF j <= Len(rest) THEN rest[j] ELSE more[j - Len(rest)]
          /\ Len(more) \in Nat
      BY <2>3, <2>6, ConcatProperties, LenProperties
    <3> QED  BY <2>3, <3>1
  <2> QED  BY <2>4, <2>5, <2>7
<1> QED  BY <1>2, <1>3, <1>4

(***************************************************************************)
(* After a rotation those who waited are in the room, and of those who     *)
(* played at most the winner, at the head.                                 *)
(***************************************************************************)
LEMMA RotateEffect ==
  ASSUME IInv, NEW w, RotateAfterMatch(w)
  PROVE  /\ Queued' \subseteq Queued
         /\ ToSet(active) \intersect Queued' \subseteq {w}
         /\ w \in ToSet(active) => w \in Queued' /\ active'[1] = w
<1>1. TypeOK' /\ active' \o waiting' = Kept(w) \o waiting
  BY RotateStep
<1>2. \/ Kept(w) = << >> /\ w \notin ToSet(active)
      \/ Kept(w) = << w >> /\ w \in ToSet(active) /\ w \in Players
  <2>1. ToSet(active) \subseteq Players
    BY LenProperties, ElementOfSeq DEF IInv, TypeOK, ToSet
  <2> QED  BY <2>1 DEF Kept
<1>3. Kept(w) \in Seq(Players) /\ ToSet(Kept(w)) = {w} \intersect ToSet(active)
  <2>1. CASE Kept(w) = << >> /\ w \notin ToSet(active)
    BY <2>1, EmptySeq DEF ToSet
  <2>2. CASE Kept(w) = << w >> /\ w \in ToSet(active) /\ w \in Players
    <3>1. << w >> \in Seq(Players) /\ DOMAIN << w >> = 1 .. 1 /\ << w >>[1] = w
      BY <2>2
    <3> QED  BY <2>2, <3>1 DEF ToSet
  <2> QED  BY <1>2, <2>1, <2>2
<1>4. Queued' = ToSet(Kept(w)) \union ToSet(waiting)
  <2>1. ToSet(active' \o waiting') = Queued'
    <3>1. active' \in Seq(Players) /\ waiting' \in Seq(Players)
      BY <1>1 DEF TypeOK
    <3>2. ToSet(active' \o waiting') = ToSet(active') \union ToSet(waiting')
      BY <3>1, ConcatRange
    <3> QED  BY <3>2 DEF Queued
  <2>2. ToSet(Kept(w) \o waiting) = ToSet(Kept(w)) \union ToSet(waiting)
    BY <1>3, ConcatRange DEF IInv, TypeOK
  <2> QED  BY <1>1, <2>1, <2>2
<1>5. ToSet(active) \intersect ToSet(waiting) = {}
  BY PartsDisjoint DEF IInv
<1>6. ASSUME w \in ToSet(active)
      PROVE  active'[1] = w
  <2> DEFINE k == Promoted(<< w >>, waiting)
             more == SubSeq(waiting, 1, k)
  <2>1. active' = << w >> \o more
    BY <1>2, <1>6 DEF RotateAfterMatch, PromoteWaiting
  <2>2. more \in Seq(Players)
    <3>1. /\ waiting \in Seq(Players) /\ Len(waiting) \in Nat
          /\ \A j \in 1 .. Len(waiting) : waiting[j] \in Players
      BY LenProperties, ElementOfSeq DEF IInv, TypeOK
    <3>2. k \in Int /\ k <= Len(waiting)
      BY <3>1, CapacityAssumption DEF Promoted
    <3> HIDE DEF k
    <3> QED  BY <3>1, <3>2, SubSeqProperties
  <2> HIDE DEF more
  <2>3. << w >> \in Seq(Players) /\ Len(<< w >>) = 1 /\ << w >>[1] = w
    BY <1>2, <1>6
  <2>4. (<< w >> \o more)[1] = << w >>[1]
    <3>1. /\ \A j \in 1 .. Len(<< w >>) + Len(more) :
               (<< w >> \o more)[j] = IF j <= Len(<< w >>) THEN << w >>[j]
                                     ELSE more[j - Len(<< w >>)]
          /\ Len(more) \in Nat
      BY <2>2, <2>3, ConcatProperties, LenProperties
    <3> QED  BY <2>3, <3>1
  <2> QED  BY <2>1, <2>3, <2>4
<1> QED  BY <1>3, <1>4, <1>5, <1>6 DEF Queued

-----------------------------------------------------------------------------
(* Positions: nobody is further back in the line after an operation. *)

(* Where a player stands after somebody has gone. *)
LEMMA RemoveAtOrder ==
  ASSUME NEW S, NEW s \in Seq(S), IsInjective(s), NEW k \in 1 .. Len(s),
         NEW i \in 1 .. Len(s), NEW j \in 1 .. Len(s) - 1,
         RemoveAt(s, k)[j] = s[i]
  PROVE  j <= i
<1>1. Len(s) \in Nat /\ DOMAIN s = 1 .. Len(s)
  BY LenProperties
<1>2. PICK m \in 1 .. Len(s) : m = (IF j < k THEN j ELSE j + 1) /\ s[m] = s[i]
  BY <1>1, RemoveAtProperties
<1>3. m = i
  BY <1>1, <1>2 DEF IsInjective
<1> QED  BY <1>1, <1>2, <1>3

(* Where a player stands after a newcomer has joined. *)
LEMMA AppendOrder ==
  ASSUME NEW S, NEW s \in Seq(S), IsInjective(s), NEW p \in S, p \notin ToSet(s),
         NEW i \in 1 .. Len(s), NEW j \in 1 .. Len(s) + 1,
         Append(s, p)[j] = s[i]
  PROVE  j <= i
<1>1. Len(s) \in Nat /\ DOMAIN s = 1 .. Len(s)
  BY LenProperties
<1>2. /\ \A n \in 1 .. Len(s) : Append(s, p)[n] = s[n]
      /\ Append(s, p)[Len(s) + 1] = p
  BY AppendProperties
<1>3. s[i] # p
  BY <1>1 DEF ToSet
<1>4. j \in 1 .. Len(s)
  BY <1>1, <1>2, <1>3
<1>5. j = i
  BY <1>1, <1>2, <1>4 DEF IsInjective
<1> QED  BY <1>1, <1>5

(* Where a player stands after a rotation. *)
LEMMA KeptOrder ==
  ASSUME NEW S, NEW a \in Seq(S), NEW w \in Seq(S), IsInjective(a \o w),
         NEW h \in Seq(S), Len(h) <= 1, Len(h) <= Len(a),
         NEW i \in 1 .. Len(a) + Len(w), NEW j \in 1 .. Len(h) + Len(w),
         (h \o w)[j] = (a \o w)[i]
  PROVE  j <= i
<1> DEFINE u == h \o w
           whole == a \o w
<1>1. Len(a) \in Nat /\ Len(w) \in Nat /\ Len(h) \in Nat
  BY LenProperties
<1>2. /\ whole \in Seq(S) /\ Len(whole) = Len(a) + Len(w)
      /\ \A n \in 1 .. Len(a) + Len(w) :
           whole[n] = IF n <= Len(a) THEN a[n] ELSE w[n - Len(a)]
  BY ConcatProperties
<1>3. /\ Len(u) = Len(h) + Len(w)
      /\ \A n \in 1 .. Len(h) + Len(w) :
           u[n] = IF n <= Len(h) THEN h[n] ELSE w[n - Len(h)]
  BY ConcatProperties
<1>4. \A m, n \in 1 .. Len(a) + Len(w) : whole[m] = whole[n] => m = n
  BY <1>2, LenProperties DEF IsInjective
<1>5. u[j] = whole[i]
  OBVIOUS
<1> HIDE DEF u, whole
<1>6. i \in 1 .. Len(a) + Len(w) /\ j \in 1 .. Len(h) + Len(w)
  OBVIOUS
<1>7. CASE j <= Len(h)
  BY <1>1, <1>6, <1>7
<1>8. CASE j > Len(h)
  <2> DEFINE m == j - Len(h) + Len(a)
  <2>1. /\ m \in 1 .. Len(a) + Len(w)
        /\ ~(m <= Len(a)) /\ m - Len(a) = j - Len(h) /\ j <= m
    BY <1>1, <1>6, <1>8
  <2> HIDE DEF m
  <2>2. whole[m] = w[j - Len(h)]
    BY <1>2, <2>1
  <2>3. u[j] = w[j - Len(h)]
    BY <1>1, <1>3, <1>6, <1>8
  <2>4. m = i
    BY <1>4, <1>5, <1>6, <2>1, <2>2, <2>3
  <2> QED  BY <1>1, <2>1, <2>4
<1> QED  BY <1>1, <1>6, <1>7, <1>8

(***************************************************************************)
(* The position a player is told is the place behind the first ActiveCount *)
(* of the line, 0 among them.                                              *)
(***************************************************************************)
PositionIn(a, w, p) ==
  IF p \in ToSet(a) THEN 0 ELSE SelectInSeq(w, LAMBDA q : q = p)

(* What the two lists answer, said of the one line. *)
LEMMA PositionInLine ==
  ASSUME NEW a \in Seq(Players), NEW w \in Seq(Players), IsInjective(a \o w),
         Len(a) <= ActiveCount, Len(w) # 0 => Len(a) = ActiveCount,
         NEW i \in 1 .. Len(a) + Len(w)
  PROVE  PositionIn(a, w, (a \o w)[i]) = IF i <= ActiveCount THEN 0 ELSE i - ActiveCount
<1> DEFINE l == a \o w
<1>1. Len(a) \in Nat /\ Len(w) \in Nat /\ ActiveCount \in Nat
  BY LenProperties, CapacityAssumption
<1>2. DOMAIN a = 1 .. Len(a)
  BY LenProperties
<1>3. /\ l \in Seq(Players) /\ Len(l) = Len(a) + Len(w)
      /\ \A n \in 1 .. Len(a) + Len(w) :
           l[n] = IF n <= Len(a) THEN a[n] ELSE w[n - Len(a)]
  BY ConcatProperties
<1>4. \A m, n \in 1 .. Len(a) + Len(w) : l[m] = l[n] => m = n
  BY <1>3, LenProperties DEF IsInjective
<1>5. i \in 1 .. Len(a) + Len(w)
  OBVIOUS
<1> HIDE DEF l
<1>6. CASE i <= Len(a)
  <2>1. i \in 1 .. Len(a) /\ i <= ActiveCount
    BY <1>1, <1>5, <1>6
  <2>2. l[i] = a[i]
    BY <1>3, <1>5, <1>6
  <2>3. l[i] \in ToSet(a)
    BY <1>2, <2>1, <2>2 DEF ToSet
  <2> QED  BY <2>1, <2>3 DEF PositionIn, l
<1>7. CASE i > Len(a)
  <2> DEFINE k == i - Len(a)
  <2>1. k \in 1 .. Len(w) /\ ~(i <= Len(a)) /\ Len(w) # 0
    BY <1>1, <1>5, <1>7
  <2>2. l[i] = w[k]
    BY <1>3, <1>5, <2>1
  <2>3. Len(a) = ActiveCount
    BY <1>1, <2>1
  <2>4. l[i] \notin ToSet(a)
    <3> SUFFICES ASSUME NEW n \in 1 .. Len(a), a[n] = l[i]
                 PROVE  FALSE
      BY <1>2 DEF ToSet
    <3>1. n \in 1 .. Len(a) + Len(w) /\ n <= Len(a)
      BY <1>1
    <3>2. l[n] = a[n]
      BY <1>3, <3>1
    <3>3. n = i
      BY <1>4, <1>5, <3>1, <3>2
    <3> QED  BY <2>1, <3>1, <3>3
  <2>5. ASSUME NEW n \in 1 .. Len(w), w[n] = l[i]
        PROVE  n = k
    <3> DEFINE m == n + Len(a)
    <3>1. /\ m \in 1 .. Len(a) + Len(w)
          /\ ~(m <= Len(a)) /\ m - Len(a) = n
      BY <1>1
    <3> HIDE DEF m
    <3>2. l[m] = w[n]
      BY <1>3, <3>1
    <3>3. m = i
      BY <1>4, <1>5, <2>5, <3>1, <3>2
    <3> QED  BY <3>1, <3>3
  <2> HIDE DEF k
  <2> DEFINE p == l[i]
             I == {n \in 1 .. Len(w) : w[n] = p}
  <2>6. I = {k}
    BY <2>1, <2>2, <2>5
  <2>7. Min(I) = k
    BY <2>6 DEF Min
  <2>8. SelectInSeq(w, LAMBDA q : q = p) = k
    BY <2>6, <2>7 DEF SelectInSeq
  <2> HIDE DEF I
  <2>9. PositionIn(a, w, p) = k
    BY <2>4, <2>8 DEF PositionIn
  <2>10. ~(i <= ActiveCount) /\ k = i - ActiveCount
    BY <2>1, <2>3 DEF k
  <2> QED  BY <2>9, <2>10 DEF l
<1> QED  BY <1>1, <1>5, <1>6, <1>7

(***************************************************************************)
(* Nobody is overtaken: the index in the line never grows.                 *)
(***************************************************************************)
LEMMA NobodyOvertaken ==
  ASSUME IInv, [Next]_queueVars,
         NEW l, l = active \o waiting, NEW m, m = active' \o waiting',
         NEW i \in 1 .. Len(l), NEW j \in 1 .. Len(m), m[j] = l[i]
  PROVE  j <= i
<1>1. /\ l \in Seq(Players) /\ IsInjective(l) /\ ToSet(l) = Queued
      /\ Len(l) \in Nat /\ DOMAIN l = 1 .. Len(l)
  BY RangeOfLine, LenProperties DEF IInv, NobodyTwice
<1>2. /\ active \in Seq(Players) /\ waiting \in Seq(Players)
      /\ Len(active) \in Nat /\ DOMAIN active = 1 .. Len(active)
  BY LenProperties DEF IInv, TypeOK
<1>3. ASSUME m = l
      PROVE  j <= i
  <2>1. j \in 1 .. Len(l) /\ i \in 1 .. Len(l) /\ l[j] = l[i]
    BY <1>3
  <2>2. j = i
    BY <1>1, <2>1 DEF IsInjective
  <2> QED  BY <1>1, <2>1, <2>2
<1>4. ASSUME NEW p \in Players, Room!Join(p)
      PROVE  j <= i
  <2>1. p \notin ToSet(l) /\ m = Append(l, p)
    BY <1>4, SameOperators DEF Room!Join
  <2>2. Len(m) = Len(l) + 1
    BY <1>1, <2>1, AppendProperties
  <2> QED  BY <1>1, <2>1, <2>2, AppendOrder
<1>5. ASSUME NEW p \in Players, Room!Leave(p)
      PROVE  j <= i
  <2>1. PICK k \in 1 .. Len(l) : m = RemoveAt(l, k)
    BY <1>1, <1>5, SameOperators DEF Room!Leave
  <2>2. Len(m) = Len(l) - 1
    BY <1>1, <2>1, RemoveAtProperties
  <2> QED  BY <1>1, <2>1, <2>2, RemoveAtOrder
<1>6. ASSUME NEW w, RotateAfterMatch(w)
      PROVE  j <= i
  <2>1. m = Kept(w) \o waiting
    BY <1>6, RotateStep
  <2>2. Kept(w) \in Seq(Players) /\ Len(Kept(w)) <= 1 /\ Len(Kept(w)) <= Len(active)
    <3>1. CASE w \in ToSet(active)
      <4>1. w \in Players /\ 1 <= Len(active)
        BY <1>2, <3>1, ElementOfSeq DEF ToSet
      <4>2. << w >> \in Seq(Players) /\ Len(<< w >>) = 1
        BY <4>1
      <4> QED  BY <3>1, <4>1, <4>2 DEF Kept
    <3>2. CASE w \notin ToSet(active)
      <4>1. << >> \in Seq(Players) /\ Len(<< >>) = 0
        BY EmptySeq
      <4> QED  BY <1>2, <3>2, <4>1 DEF Kept
    <3> QED  BY <3>1, <3>2
  <2> DEFINE h == Kept(w)
  <2> HIDE DEF h
  <2>3. m = h \o waiting /\ h \in Seq(Players) /\ Len(h) <= 1 /\ Len(h) <= Len(active)
    BY <2>1, <2>2 DEF h
  <2>4. i \in 1 .. Len(active) + Len(waiting) /\ j \in 1 .. Len(h) + Len(waiting)
    BY <1>2, <2>3, ConcatProperties
  <2>5. (h \o waiting)[j] = (active \o waiting)[i] /\ IsInjective(active \o waiting)
    BY <1>1, <2>3
  <2> QED  BY <1>2, <2>3, <2>4, <2>5, KeptOrder
<1>7. ASSUME NEW p \in Players, Join(p)
      PROVE  j <= i
  <2>1. Room!Join(p) \/ m = l
    BY <1>7, JoinStep
  <2> QED  BY <1>3, <1>4, <2>1
<1>8. ASSUME NEW p \in Players, Leave(p)
      PROVE  j <= i
  <2>1. Room!Leave(p) \/ m = l
    <3>1. p \notin Queued => m = l
      BY <1>8 DEF Leave, LeaveActive, LeaveWaiting, LeaveUnchanged, Queued, queueVars
    <3> QED  BY <1>8, <3>1, LeaveStep
  <2> QED  BY <1>3, <1>5, <2>1
<1>9. CASE UNCHANGED queueVars
  BY <1>3, <1>9 DEF queueVars
<1> QED  BY <1>6, <1>7, <1>8, <1>9 DEF Next

(***************************************************************************)
(* The position a player is told never gets worse while the player stays.  *)
(***************************************************************************)
LEMMA PositionStep ==
  ASSUME IInv, [Next]_queueVars
  PROVE  \A p \in Queued : p \in Queued' => Position(p)' <= Position(p)
<1>1. IInv'
  BY NextStep
<1>2. PICK a, w, b, v :
        a = active /\ w = waiting /\ b = active' /\ v = waiting'
  OBVIOUS
<1>3. /\ a \in Seq(Players) /\ w \in Seq(Players) /\ IsInjective(a \o w)
      /\ Len(a) <= ActiveCount /\ (Len(w) # 0 => Len(a) = ActiveCount)
      /\ ToSet(a \o w) = Queued /\ a \o w \in Seq(Players)
  BY <1>2, RangeOfLine, EmptySeq DEF IInv, TypeOK, NobodyTwice, NoIdlePlace
<1>4. /\ b \in Seq(Players) /\ v \in Seq(Players) /\ IsInjective(b \o v)
      /\ Len(b) <= ActiveCount /\ (Len(v) # 0 => Len(b) = ActiveCount)
  BY <1>1, <1>2, EmptySeq DEF IInv, TypeOK, NobodyTwice, NoIdlePlace
<1>5. ToSet(b \o v) = Queued' /\ b \o v \in Seq(Players)
  <2>1. ToSet(b \o v) = ToSet(b) \union ToSet(v)
    BY <1>4, ConcatRange
  <2> QED  BY <1>2, <1>4, <2>1, ConcatProperties DEF Queued
<1>6. ASSUME NEW p
      PROVE  Position(p) = PositionIn(a, w, p) /\ Position(p)' = PositionIn(b, v, p)
  <2>1. Position(p) = PositionIn(active, waiting, p)
    BY DEF Position, PositionIn
  <2>2. Position(p)' = PositionIn(active', waiting', p)
    BY DEF Position, PositionIn, SelectInSeq
  <2> QED  BY <1>2, <2>1, <2>2
<1>7. ASSUME NEW p \in Queued, p \in Queued'
      PROVE  PositionIn(b, v, p) <= PositionIn(a, w, p)
  <2>1. PICK i \in 1 .. Len(a) + Len(w) : (a \o w)[i] = p
    BY <1>3, LenProperties, ConcatProperties DEF ToSet
  <2>2. PICK j \in 1 .. Len(b) + Len(v) : (b \o v)[j] = p
    BY <1>4, <1>5, <1>7, LenProperties, ConcatProperties DEF ToSet
  <2>3. j <= i
    <3>1. PICK l, m : l = a \o w /\ m = b \o v
      OBVIOUS
    <3>2. l = active \o waiting /\ m = active' \o waiting'
      BY <1>2, <3>1
    <3>3. i \in 1 .. Len(l) /\ j \in 1 .. Len(m) /\ m[j] = l[i]
      BY <1>3, <1>4, <2>1, <2>2, <3>1, ConcatProperties
    <3> QED  BY <3>2, <3>3, NobodyOvertaken
  <2>4. PositionIn(a, w, p) = IF i <= ActiveCount THEN 0 ELSE i - ActiveCount
    BY <1>3, <2>1, PositionInLine
  <2>5. PositionIn(b, v, p) = IF j <= ActiveCount THEN 0 ELSE j - ActiveCount
    BY <1>4, <2>2, PositionInLine
  <2>6. i \in Int /\ j \in Int /\ ActiveCount \in Nat
    BY CapacityAssumption
  <2> QED  BY <2>3, <2>4, <2>5, <2>6
<1> QED  BY <1>6, <1>7

-----------------------------------------------------------------------------

(* The empty room is sound, and is an empty line. *)
LEMMA InitStep == Init => IInv /\ Room!Init
<1> SUFFICES ASSUME Init
             PROVE  IInv /\ Room!Init
  OBVIOUS
<1>1. active = << >> /\ waiting = << >> /\ active \o waiting = << >>
  BY ConcatEmptySeq, EmptySeq DEF Init
<1>2. TypeOK
  BY <1>1, CapacityAssumption DEF TypeOK
<1>3. NobodyTwice
  BY <1>1 DEF NobodyTwice, IsInjective
<1> QED  BY <1>1, <1>2, <1>3 DEF IInv, NoIdlePlace, Room!Init

-----------------------------------------------------------------------------

(***************************************************************************)
(* The inductive invariant holds of every behaviour of the room.           *)
(***************************************************************************)
THEOREM InductiveInvariant == Spec => []IInv
<1>1. Init => IInv
  BY InitStep
<1>2. IInv /\ [Next]_queueVars => IInv'
  BY NextStep
<1> QED  BY <1>1, <1>2, PTL DEF Spec

(***************************************************************************)
(* The lists hold players only and never outgrow the configured sizes.     *)
(***************************************************************************)
THEOREM TypeCorrect == Spec => []TypeOK
BY InductiveInvariant, PTL DEF IInv

(***************************************************************************)
(* No operation puts a player into the room twice.                         *)
(***************************************************************************)
THEOREM NobodyTwiceHolds == Spec => []NobodyTwice
BY InductiveInvariant, PTL DEF IInv

(***************************************************************************)
(* No operation leaves a player waiting beside a free place.               *)
(***************************************************************************)
THEOREM NoIdlePlaceHolds == Spec => []NoIdlePlace
BY InductiveInvariant, PTL DEF IInv

(***************************************************************************)
(* The two lists of the code implement one first-come first-served line.   *)
(***************************************************************************)
THEOREM ImplementsLine == Spec => RoomIsALine
<1>1. Init => Room!Init
  BY InitStep
<1>2. IInv /\ [Next]_queueVars => [Room!Next]_(active \o waiting)
  BY NextStep DEF LineStep
<1> QED  BY <1>1, <1>2, InductiveInvariant, PTL DEF Spec, RoomIsALine, Room!Spec

(***************************************************************************)
(* While a player stays in the room, no join, leave or rotation gives the  *)
(* player a later position than status_for told before.                    *)
(***************************************************************************)
THEOREM PositionNeverWorseHolds == Spec => PositionNeverWorse
<1> DEFINE P == \A p \in Queued : p \in Queued' => Position(p)' <= Position(p)
<1>1. IInv /\ [Next]_queueVars => [P]_queueVars
  BY PositionStep
<1> HIDE DEF P
<1>2. Spec => [][P]_queueVars
  BY <1>1, InductiveInvariant, PTL DEF Spec
<1> QED  BY <1>2 DEF P, PositionNeverWorse
=============================================================================
