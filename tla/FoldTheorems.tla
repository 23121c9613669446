---------------------------- MODULE FoldTheorems ----------------------------
(***************************************************************************)
(* What is true of every left fold over a sequence, which is how a client  *)
(* handles the datagrams that have arrived and how a game handles the      *)
(* actions of a tick, and of a fold over a finite set when the order does  *)
(* not matter, such as the sum of the lines in a set of messages.          *)
(*                                                                         *)
(* A fact proved by induction over data needs an operator as a parameter,  *)
(* and the provers cannot instantiate a theorem that has one.  Here the    *)
(* operator is a constant of the module instead: INSTANCE FoldTheorems     *)
(* WITH Op <- Handles gives the facts about the folds with Handles.        *)
(***************************************************************************)
EXTENDS Integers, Sequences, SequencesExt, WellFoundedInduction, SequenceTheorems,
        FiniteSetTheorems, TLAPS

CONSTANT Op(_, _)   \* what one element does to the result so far

(***************************************************************************)
(* Induction on the natural numbers, for a set instead of a predicate: the *)
(* least number outside of S would be a successor of one inside.           *)
(***************************************************************************)
LEMMA NatSetInduction ==
  ASSUME NEW S, 0 \in S, \A n \in Nat : n \in S => n + 1 \in S
  PROVE  Nat \subseteq S
<1> DEFINE Less == {ss \in Nat \X Nat : ss[1] < ss[2]}
           T == Nat \ S
<1> SUFFICES ASSUME T # {} PROVE FALSE
  OBVIOUS
<1>1. IsWellFoundedOn(Less, Nat)
  BY NatLessThanWellFounded DEF OpToRel
<1>2. T \subseteq Nat
  OBVIOUS
<1>3. PICK m \in T : \A k \in T : << k, m >> \notin Less
  <2> HIDE DEF T, Less
  <2> QED  BY <1>1, <1>2, WFMin
<1>4. m \in Nat /\ m # 0 /\ m \notin S
  OBVIOUS
<1>5. m - 1 \in Nat /\ (m - 1) + 1 = m /\ << m - 1, m >> \in Less
  BY <1>4
<1>6. m - 1 \in S
  BY <1>3, <1>5
<1> QED  BY <1>4, <1>5, <1>6

-----------------------------------------------------------------------------
(* FoldLeft is defined by a function on the sets of indexes that are left. *)

(* iter is that function, for the first n elements of s. *)
Iterates(iter, base, s, n) ==
  iter = [t \in SUBSET (1 .. n) |->
            IF t = {} THEN base ELSE Op(iter[t \ {Max(t)}], s[Max(t)])]

(* The greatest of some indexes up to n is n if n is one of them. *)
LEMMA MaxIsLast ==
  ASSUME NEW n \in Nat, NEW t \in SUBSET (1 .. n), n \in t
  PROVE  Max(t) = n
<1>1. \A y \in t : n >= y
  OBVIOUS
<1>2. \A x \in t : (\A y \in t : x >= y) => x = n
  OBVIOUS
<1> QED  BY <1>1, <1>2 DEF Max

(***************************************************************************)
(* There is such a function for every length, by induction: a set with the *)
(* index n + 1 is handled after the rest of it.                            *)
(***************************************************************************)
LEMMA IterExists ==
  ASSUME NEW base, NEW s
  PROVE  \A n \in Nat : \E iter : Iterates(iter, base, s, n)
<1> DEFINE N == {n \in Nat : \E iter : Iterates(iter, base, s, n)}
<1>1. 0 \in N
  <2> DEFINE iter == [t \in SUBSET (1 .. 0) |-> base]
  <2>1. \A t \in SUBSET (1 .. 0) : t = {}
    OBVIOUS
  <2>2. iter = [t \in SUBSET (1 .. 0) |->
            IF t = {} THEN base ELSE Op(iter[t \ {Max(t)}], s[Max(t)])]
    BY <2>1
  <2> QED  BY <2>2 DEF Iterates
<1>2. ASSUME NEW n \in Nat, n \in N
      PROVE  n + 1 \in N
  <2>1. PICK g : Iterates(g, base, s, n)
    BY <1>2
  <2> DEFINE iter == [t \in SUBSET (1 .. n + 1) |->
               IF n + 1 \in t THEN Op(g[t \ {n + 1}], s[n + 1]) ELSE g[t]]
  <2>2. ASSUME NEW t \in SUBSET (1 .. n + 1), t # {}
        PROVE  iter[t] = Op(iter[t \ {Max(t)}], s[Max(t)])
    <3>1. CASE n + 1 \in t
      <4>1. Max(t) = n + 1
        BY <3>1, MaxIsLast
      <4>2. iter[t \ {n + 1}] = g[t \ {n + 1}]
        OBVIOUS
      <4> HIDE DEF iter
      <4>3. iter[t] = Op(g[t \ {n + 1}], s[n + 1])
        BY <3>1 DEF iter
      <4> QED  BY <4>1, <4>2, <4>3
    <3>2. CASE n + 1 \notin t
      <4>1. t \in SUBSET (1 .. n)
        BY <3>2
      <4>2. t \ {Max(t)} \in SUBSET (1 .. n) /\ t \ {Max(t)} \in SUBSET (1 .. n + 1)
            /\ n + 1 \notin t \ {Max(t)}
        <5> DEFINE m == Max(t)
        <5> HIDE DEF m
        <5> SUFFICES /\ t \ {m} \in SUBSET (1 .. n) /\ t \ {m} \in SUBSET (1 .. n + 1)
                     /\ n + 1 \notin t \ {m}
          BY DEF m
        <5> QED  BY <3>2, <4>1
      <4>3. g[t] = Op(g[t \ {Max(t)}], s[Max(t)])
        BY <2>1, <4>1, <2>2 DEF Iterates
      <4>4. iter[t] = g[t] /\ iter[t \ {Max(t)}] = g[t \ {Max(t)}]
        BY <3>2, <4>2
      <4> HIDE DEF iter
      <4> QED  BY <4>3, <4>4
    <3> QED  BY <3>1, <3>2
  <2>3. iter[{}] = base
    <3>1. {} \in SUBSET (1 .. n) /\ {} \in SUBSET (1 .. n + 1) /\ n + 1 \notin {}
      OBVIOUS
    <3> QED  BY <2>1, <3>1 DEF Iterates
  <2>4. iter = [t \in SUBSET (1 .. n + 1) |->
            IF t = {} THEN base ELSE Op(iter[t \ {Max(t)}], s[Max(t)])]
    BY <2>2, <2>3
  <2> HIDE DEF iter
  <2>5. Iterates(iter, base, s, n + 1)
    BY <2>4 DEF Iterates
  <2> QED  BY <2>5
<1> HIDE DEF N
<1>3. Nat \subseteq N
  BY <1>1, <1>2, NatSetInduction
<1> QED  BY <1>3 DEF N

-----------------------------------------------------------------------------

(* The fold this module is about. *)
Folded(base, s) == FoldLeft(Op, base, s)

(***************************************************************************)
(* A fold goes through the elements one by one: there is a trace of the    *)
(* results so far, from base to the final one.                             *)
(***************************************************************************)
THEOREM FoldTrace ==
  ASSUME NEW S, NEW s \in Seq(S), NEW base
  PROVE  \E trace :
           /\ trace[0] = base
           /\ \A i \in 1 .. Len(s) : trace[i] = Op(trace[i - 1], s[i])
           /\ Folded(base, s) = trace[Len(s)]
<1> DEFINE n == Len(s)
           iter == CHOOSE g : Iterates(g, base, s, n)
           trace == [i \in 0 .. n |-> iter[1 .. i]]
<1>1. n \in Nat /\ DOMAIN s = 1 .. n
  BY LenProperties
<1>2. Iterates(iter, base, s, n)
  BY <1>1, IterExists
<1>3. Folded(base, s) = iter[1 .. n]
  BY <1>1 DEF Folded, FoldLeft, MapThenFoldSet, Iterates
<1> HIDE DEF iter
<1>4. trace[0] = base
  <2>1. {} \in SUBSET (1 .. n) /\ 1 .. 0 = {}
    OBVIOUS
  <2> QED  BY <1>1, <1>2, <2>1 DEF Iterates
<1>5. ASSUME NEW i \in 1 .. n
      PROVE  trace[i] = Op(trace[i - 1], s[i])
  <2>1. /\ 1 .. i \in SUBSET (1 .. n) /\ 1 .. i \in SUBSET (1 .. i) /\ i \in 1 .. i
        /\ i \in Nat /\ i - 1 \in 0 .. n /\ i \in 0 .. n
    BY <1>1
  <2>2. Max(1 .. i) = i
    BY <2>1, MaxIsLast
  <2>3. (1 .. i) \ {i} = 1 .. i - 1
    BY <2>1
  <2>4. iter[1 .. i] = Op(iter[1 .. i - 1], s[i])
    BY <1>2, <2>1, <2>2, <2>3 DEF Iterates
  <2> QED  BY <2>1, <2>4
<1>6. Folded(base, s) = trace[n]
  BY <1>1, <1>3
<1> QED  BY <1>4, <1>5, <1>6

(***************************************************************************)
(* An invariant of the loop is true of every result so far.                *)
(***************************************************************************)
LEMMA TraceStays ==
  ASSUME NEW S, NEW s \in Seq(S), NEW T, NEW trace,
         trace[0] \in T,
         \A i \in 1 .. Len(s) : trace[i] = Op(trace[i - 1], s[i]),
         \A r \in T, e \in S : Op(r, e) \in T
  PROVE  \A n \in 0 .. Len(s) : trace[n] \in T
<1> DEFINE N == {n \in Nat : n <= Len(s) => trace[n] \in T}
<1>1. Len(s) \in Nat /\ \A i \in 1 .. Len(s) : s[i] \in S
  BY LenProperties, ElementOfSeq
<1>2. 0 \in N
  OBVIOUS
<1>3. ASSUME NEW n \in Nat, n \in N
      PROVE  n + 1 \in N
  <2> SUFFICES ASSUME n + 1 <= Len(s)
               PROVE  trace[n + 1] \in T
    OBVIOUS
  <2>1. n + 1 \in 1 .. Len(s) /\ (n + 1) - 1 = n /\ trace[n] \in T
    BY <1>1, <1>3
  <2> QED  BY <1>1, <2>1
<1> HIDE DEF N
<1>4. Nat \subseteq N
  BY <1>2, <1>3, NatSetInduction
<1> QED  BY <1>1, <1>4 DEF N

(***************************************************************************)
(* An invariant of the loop is true of its result.                         *)
(***************************************************************************)
THEOREM FoldInduction ==
  ASSUME NEW S, NEW s \in Seq(S), NEW T, NEW base \in T,
         \A r \in T, e \in S : Op(r, e) \in T
  PROVE  Folded(base, s) \in T
<1>1. PICK trace :
        /\ trace[0] = base
        /\ \A i \in 1 .. Len(s) : trace[i] = Op(trace[i - 1], s[i])
        /\ Folded(base, s) = trace[Len(s)]
  BY FoldTrace
<1>2. Len(s) \in 0 .. Len(s)
  BY LenProperties
<1>3. \A n \in 0 .. Len(s) : trace[n] \in T
  BY <1>1, TraceStays
<1> QED  BY <1>1, <1>2, <1>3

(***************************************************************************)
(* The result of a fold is what the last element makes of a result so far, *)
(* for which an invariant of the loop holds.                               *)
(***************************************************************************)
THEOREM FoldLast ==
  ASSUME NEW S, NEW s \in Seq(S), s # << >>, NEW T, NEW base \in T,
         \A r \in T, e \in S : Op(r, e) \in T
  PROVE  \E r \in T : Folded(base, s) = Op(r, s[Len(s)])
<1>1. PICK trace :
        /\ trace[0] = base
        /\ \A i \in 1 .. Len(s) : trace[i] = Op(trace[i - 1], s[i])
        /\ Folded(base, s) = trace[Len(s)]
  BY FoldTrace
<1>2. Len(s) \in 1 .. Len(s) /\ Len(s) - 1 \in 0 .. Len(s)
  BY EmptySeq, LenProperties
<1>3. \A n \in 0 .. Len(s) : trace[n] \in T
  BY <1>1, TraceStays
<1> QED  BY <1>1, <1>2, <1>3

-----------------------------------------------------------------------------
(* Folds over finite sets, whose elements are taken in no known order.     *)

Chosen(t) == CHOOSE x \in t : TRUE

(* iter is the function on the subsets of S that defines such a fold. *)
SetIterates(iter, base, S) ==
  iter = [t \in SUBSET S |->
            IF t = {} THEN base ELSE Op(iter[t \ {Chosen(t)}], Chosen(t))]

(* The fold over S. *)
FoldedOver(base, S) ==
  LET iter[t \in SUBSET S] ==
        IF t = {} THEN base ELSE Op(iter[t \ {Chosen(t)}], Chosen(t))
  IN  iter[S]

(* Whichever element is taken from a set, a smaller set is left. *)
LEMMA ChosenTaken ==
  ASSUME NEW S, IsFiniteSet(S), NEW t \in SUBSET S
  PROVE  /\ Cardinality(t) \in Nat /\ (Cardinality(t) = 0 <=> t = {})
         /\ t # {} => Chosen(t) \in t
         /\ \A x \in t : /\ t \ {x} \in SUBSET S
                          /\ Cardinality(t \ {x}) = Cardinality(t) - 1
<1>1. IsFiniteSet(t)
  BY FS_Subset
<1>2. Cardinality(t) \in Nat /\ (Cardinality(t) = 0 <=> t = {})
  BY <1>1, FS_CardinalityType, FS_EmptySet
<1>3. ASSUME NEW x \in t
      PROVE  t \ {x} \in SUBSET S /\ Cardinality(t \ {x}) = Cardinality(t) - 1
  BY <1>1, FS_RemoveElement
<1>4. t # {} => Chosen(t) \in t
  BY DEF Chosen
<1> QED  BY <1>2, <1>3, <1>4

(***************************************************************************)
(* There is such a function for every finite set: by induction, for the    *)
(* subsets of up to n elements.                                            *)
(***************************************************************************)
LEMMA SetIterExists ==
  ASSUME NEW S, IsFiniteSet(S), NEW base
  PROVE  \E iter : SetIterates(iter, base, S)
<1> DEFINE Upto(n) == {t \in SUBSET S : Cardinality(t) <= n}
           Steps(g, t) == IF t = {} THEN base ELSE Op(g[t \ {Chosen(t)}], Chosen(t))
           N == {n \in Nat : \E g : \A t \in Upto(n) : g[t] = Steps(g, t)}
<1>1. 0 \in N
  <2> DEFINE g == [t \in SUBSET S |-> base]
  <2>1. \A t \in Upto(0) : t = {}
    BY ChosenTaken
  <2>2. \A t \in Upto(0) : g[t] = Steps(g, t)
    BY <2>1
  <2> QED  BY <2>2
<1>2. ASSUME NEW n \in Nat, n \in N
      PROVE  n + 1 \in N
  <2>1. PICK g : \A t \in Upto(n) : g[t] = Steps(g, t)
    BY <1>2
  <2> DEFINE h == [t \in SUBSET S |-> Steps(g, t)]
  <2>2. ASSUME NEW t \in Upto(n + 1)
        PROVE  h[t] = Steps(h, t)
    <3>1. h[t] = Steps(g, t)
      OBVIOUS
    <3>2. CASE t = {}
      BY <3>1, <3>2
    <3>3. CASE t # {}
      <4>1. PICK u : u = t \ {Chosen(t)}
        OBVIOUS
      <4>2. u \in SUBSET S /\ Cardinality(u) <= n
        BY <3>3, <4>1, ChosenTaken
      <4>3. h[u] = Steps(g, u) /\ g[u] = Steps(g, u)
        BY <2>1, <4>2
      <4> HIDE DEF h
      <4> QED  BY <3>1, <3>3, <4>1, <4>3
    <3> QED  BY <3>2, <3>3
  <2>3. \A t \in Upto(n + 1) : h[t] = Steps(h, t)
    BY <2>2
  <2> HIDE DEF h
  <2>4. \E f : \A t \in Upto(n + 1) : f[t] = Steps(f, t)
    BY <2>3
  <2> HIDE DEF Steps, Upto
  <2> QED  BY <2>4
<1> HIDE DEF N
<1>3. Nat \subseteq N
  BY <1>1, <1>2, NatSetInduction
<1>4. Cardinality(S) \in Nat
  BY FS_CardinalityType
<1>5. PICK g : \A t \in Upto(Cardinality(S)) : g[t] = Steps(g, t)
  BY <1>3, <1>4 DEF N
<1> DEFINE iter == [t \in SUBSET S |-> g[t]]
<1>6. ASSUME NEW t \in SUBSET S
      PROVE  iter[t] = Steps(iter, t)
  <2>1. Cardinality(t) <= Cardinality(S)
    BY FS_Subset
  <2>2. g[t] = Steps(g, t)
    BY <1>5, <2>1
  <2>3. t \ {Chosen(t)} \in SUBSET S
    OBVIOUS
  <2> QED  BY <2>2, <2>3
<1>7. iter = [t \in SUBSET S |-> Steps(iter, t)]
  BY <1>6
<1> HIDE DEF iter
<1> QED  BY <1>7 DEF SetIterates

(* Such a function gives a subset the same result, whichever set it is of. *)
LEMMA SetIterAgree ==
  ASSUME NEW S, IsFiniteSet(S), NEW R \in SUBSET S, NEW base, NEW f, NEW g,
         SetIterates(f, base, R), SetIterates(g, base, S)
  PROVE  \A t \in SUBSET R : f[t] = g[t]
<1> DEFINE N == {n \in Nat : \A t \in SUBSET R : Cardinality(t) = n => f[t] = g[t]}
<1>1. \A t \in SUBSET R :
        /\ f[t] = IF t = {} THEN base ELSE Op(f[t \ {Chosen(t)}], Chosen(t))
        /\ g[t] = IF t = {} THEN base ELSE Op(g[t \ {Chosen(t)}], Chosen(t))
  BY DEF SetIterates
<1>2. 0 \in N
  BY <1>1, ChosenTaken
<1>3. ASSUME NEW n \in Nat, n \in N
      PROVE  n + 1 \in N
  <2> SUFFICES ASSUME NEW t \in SUBSET R, Cardinality(t) = n + 1
               PROVE  f[t] = g[t]
    OBVIOUS
  <2>1. PICK x : x = Chosen(t)
    OBVIOUS
  <2>2. /\ t # {} /\ t \ {x} \in SUBSET R /\ Cardinality(t \ {x}) = n
    BY <2>1, ChosenTaken
  <2>3. f[t \ {x}] = g[t \ {x}]
    BY <1>3, <2>2
  <2> QED  BY <1>1, <2>1, <2>2, <2>3
<1> HIDE DEF N
<1>4. Nat \subseteq N
  BY <1>2, <1>3, NatSetInduction
<1>5. \A t \in SUBSET R : Cardinality(t) \in Nat
  BY ChosenTaken
<1> QED  BY <1>4, <1>5 DEF N

(* The order does not matter to Op on elements of E, and T is kept. *)
Commutes(E, T) ==
  /\ \A r \in T, e \in E : Op(r, e) \in T
  /\ \A r \in T : \A d, e \in E : Op(Op(r, d), e) = Op(Op(r, e), d)

(***************************************************************************)
(* When the order does not matter, any element may be taken as the last,   *)
(* not only the chosen one: by induction on the number of elements.        *)
(***************************************************************************)
LEMMA SetIterAdds ==
  ASSUME NEW S, IsFiniteSet(S), NEW T, NEW base \in T, Commutes(S, T),
         NEW iter, SetIterates(iter, base, S)
  PROVE  \A t \in SUBSET S :
           /\ iter[t] \in T
           /\ \A x \in S \ t : iter[t \union {x}] = Op(iter[t], x)
<1> DEFINE Added(t) ==
             /\ iter[t] \in T
             /\ \A x \in S \ t : iter[t \union {x}] = Op(iter[t], x)
           N == {n \in Nat : \A t \in SUBSET S : Cardinality(t) = n => Added(t)}
<1>1. /\ iter[{}] = base
      /\ \A t \in SUBSET S : t # {} => iter[t] = Op(iter[t \ {Chosen(t)}], Chosen(t))
  BY DEF SetIterates
<1>2. 0 \in N
  <2>1. ASSUME NEW x \in S
        PROVE  iter[{x}] = Op(base, x)
    <3>1. {x} \in SUBSET S /\ {x} # {} /\ Chosen({x}) = x /\ {x} \ {x} = {}
      BY DEF Chosen
    <3> QED  BY <1>1, <3>1
  <2>2. Added({})
    <3>1. \A x : {} \union {x} = {x}
      OBVIOUS
    <3> QED  BY <1>1, <2>1, <3>1
  <2>3. \A t \in SUBSET S : Cardinality(t) = 0 => t = {}
    BY ChosenTaken
  <2> HIDE DEF Added
  <2> QED  BY <2>2, <2>3
<1>3. ASSUME NEW n \in Nat, n \in N
      PROVE  n + 1 \in N
  <2> SUFFICES ASSUME NEW t \in SUBSET S, Cardinality(t) = n + 1
               PROVE  Added(t)
    OBVIOUS
  <2>1. \A u \in SUBSET S : Cardinality(u) = n => Added(u)
    BY <1>3
  <2>2. ASSUME NEW z \in t
        PROVE  /\ Added(t \ {z}) /\ t = (t \ {z}) \union {z}
               /\ iter[t] = Op(iter[t \ {z}], z)
    <3>1. t \ {z} \in SUBSET S /\ Cardinality(t \ {z}) = n
      BY ChosenTaken
    <3>2. Added(t \ {z})
      BY <2>1, <3>1
    <3>3. t = (t \ {z}) \union {z} /\ z \in S \ (t \ {z})
      OBVIOUS
    <3> QED  BY <3>2, <3>3
  <2>3. t # {} /\ Chosen(t) \in t
    BY ChosenTaken
  <2>4. iter[t] \in T
    <3>1. PICK z \in t : z \in S
      BY <2>3
    <3>2. iter[t \ {z}] \in T /\ iter[t] = Op(iter[t \ {z}], z)
      BY <2>2
    <3> QED  BY <3>1, <3>2 DEF Commutes
  <2>5. ASSUME NEW x \in S \ t
        PROVE  iter[t \union {x}] = Op(iter[t], x)
    <3>1. PICK v : v = t \union {x}
      OBVIOUS
    <3>2. PICK z : z = Chosen(v)
      OBVIOUS
    <3>3. v \in SUBSET S /\ v # {} /\ z \in v
      BY <3>1, <3>2, ChosenTaken
    <3>4. iter[v] = Op(iter[v \ {z}], z)
      BY <1>1, <3>2, <3>3
    <3>5. CASE z = x
      <4>1. v \ {z} = t
        BY <3>1, <3>5
      <4> QED  BY <3>1, <3>4, <3>5, <4>1
    <3>6. CASE z # x
      <4>1. z \in t /\ v \ {z} = (t \ {z}) \union {x} /\ x \in S \ (t \ {z})
        BY <3>1, <3>3, <3>6
      <4>2. Added(t \ {z}) /\ iter[t] = Op(iter[t \ {z}], z)
        BY <2>2, <4>1
      <4>3. iter[v \ {z}] = Op(iter[t \ {z}], x) /\ iter[t \ {z}] \in T
        BY <4>1, <4>2
      <4>4. Op(Op(iter[t \ {z}], x), z) = Op(Op(iter[t \ {z}], z), x)
        BY <4>1, <4>3 DEF Commutes
      <4> QED  BY <3>1, <3>4, <4>2, <4>3, <4>4
    <3> QED  BY <3>5, <3>6
  <2> QED  BY <2>4, <2>5
<1> HIDE DEF N
<1>4. Nat \subseteq N
  BY <1>2, <1>3, NatSetInduction
<1>5. \A t \in SUBSET S : Cardinality(t) \in Nat
  BY ChosenTaken
<1> QED  BY <1>4, <1>5 DEF N

(***************************************************************************)
(* When the order does not matter, a new element is added to the result of *)
(* a fold over a finite set, and an invariant of the loop is true of it.   *)
(***************************************************************************)
THEOREM FoldOverSet ==
  ASSUME NEW S, IsFiniteSet(S), NEW T, NEW base \in T
  PROVE  /\ FoldedOver(base, {}) = base
         /\ Commutes(S, T) => FoldedOver(base, S) \in T
         /\ \A x : x \notin S /\ Commutes(S \union {x}, T) =>
                 FoldedOver(base, S \union {x}) = Op(FoldedOver(base, S), x)
<1>1. ASSUME NEW R, IsFiniteSet(R)
      PROVE  \E g : SetIterates(g, base, R) /\ FoldedOver(base, R) = g[R]
  <2>1. PICK g : g = CHOOSE f : SetIterates(f, base, R)
    OBVIOUS
  <2>2. SetIterates(g, base, R)
    BY <1>1, <2>1, SetIterExists
  <2>3. FoldedOver(base, R) = g[R]
    BY <2>1 DEF FoldedOver, SetIterates
  <2> QED  BY <2>2, <2>3
<1>2. FoldedOver(base, {}) = base
  <2>1. PICK g : SetIterates(g, base, {}) /\ FoldedOver(base, {}) = g[{}]
    BY <1>1, FS_EmptySet
  <2>2. {} \in SUBSET {}
    OBVIOUS
  <2> QED  BY <2>1, <2>2 DEF SetIterates
<1>3. PICK f : SetIterates(f, base, S) /\ FoldedOver(base, S) = f[S]
  BY <1>1
<1>4. Commutes(S, T) => FoldedOver(base, S) \in T
  BY <1>3, SetIterAdds
<1>5. ASSUME NEW x, x \notin S, Commutes(S \union {x}, T)
      PROVE  FoldedOver(base, S \union {x}) = Op(FoldedOver(base, S), x)
  <2>1. PICK R : R = S \union {x}
    OBVIOUS
  <2>2. IsFiniteSet(R)
    BY <2>1, FS_AddElement
  <2>3. PICK g : SetIterates(g, base, R) /\ FoldedOver(base, R) = g[R]
    BY <1>1, <2>2
  <2>4. f[S] = g[S]
    BY <1>3, <2>1, <2>2, <2>3, SetIterAgree
  <2>5. g[S \union {x}] = Op(g[S], x)
    BY <1>5, <2>1, <2>2, <2>3, SetIterAdds
  <2> QED  BY <1>3, <2>1, <2>3, <2>4, <2>5
<1> QED  BY <1>2, <1>4, <1>5
=============================================================================
