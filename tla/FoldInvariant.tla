---------------------------- MODULE FoldInvariant ----------------------------
(***************************************************************************)
(* Induction along a fold. The loops of the models are folds over a        *)
(* sequence; what their base satisfies and every turn keeps, the result    *)
(* satisfies. A proof takes the lemma FoldKeeps from an instance of this   *)
(* module with its own turn and its own invariant:                         *)
(*   Step(p, c, x)   one turn, from c with the element x                   *)
(*   Good(p, c, k)   what holds of c after k elements                      *)
(* in which p stands for whatever else the two depend on.                  *)
(***************************************************************************)
EXTENDS SequencesExt, Extrema

CONSTANTS Step(_, _, _), Good(_, _, _)

Fold(p, base, seq) == FoldLeft(LAMBDA c, x : Step(p, c, x), base, seq)

\* The recursive function a fold over 1..m is the value of.
Iterates(p, base, seq, m, g) ==
  g = [s \in SUBSET (1..m) |->
         IF s = {} THEN base ELSE Step(p, g[s \ {Max(s)}], seq[Max(s)])]

\* The greatest element is what Max chooses: a fold takes the last index off.
LEMMA MaxIs ==
  ASSUME NEW m \in Nat, NEW s \in SUBSET (1..m), s # {}
  PROVE  Max(s) \in s /\ \A y \in s : y <= Max(s)
<1>1. s \in SUBSET (0..m)
  OBVIOUS
<1>2. \E x \in s : \A y \in s : y <= x
  BY <1>1, GreatestExists
<1>3. \E x \in s : \A y \in s : x >= y
  BY <1>2
<1> QED BY <1>3 DEF Max

\* The recursive function of a fold exists for one element more: a set with the
\* new index is worth one turn more than the set without it.
LEMMA IteratesExtends ==
  ASSUME NEW p, NEW base, NEW seq, NEW m \in Nat, NEW g, Iterates(p, base, seq, m, g)
  PROVE  \E h : Iterates(p, base, seq, m + 1, h)
<1> DEFINE h == [s \in SUBSET (1..(m + 1)) |->
                   IF s \subseteq 1..m THEN g[s] ELSE Step(p, g[s \ {m + 1}], seq[m + 1])]
<1>1. ASSUME NEW s \in SUBSET (1..(m + 1))
      PROVE  h[s] = IF s = {} THEN base ELSE Step(p, h[s \ {Max(s)}], seq[Max(s)])
  <2>1. CASE s = {}
    <3>1. s \in SUBSET (1..m)
      BY <2>1
    <3>2. g[s] = base
      BY <2>1, <3>1 DEF Iterates
    <3> QED BY <2>1, <3>1, <3>2
  <2>2. CASE s # {} /\ s \subseteq 1..m
    <3>1. s \ {Max(s)} \subseteq 1..m /\ s \ {Max(s)} \in SUBSET (1..(m + 1)) 
      BY <2>2
    <3>2. g[s] = Step(p, g[s \ {Max(s)}], seq[Max(s)])
      BY <2>2 DEF Iterates
    <3>3. h[s] = g[s]
      BY <2>2
    <3>4. h[s \ {Max(s)}] = g[s \ {Max(s)}]
      BY <3>1
    <3> QED BY <2>2, <3>2, <3>3, <3>4
  <2>3. CASE ~ (s \subseteq 1..m)
    <3>1. m + 1 \in s
      BY <2>3
    <3>2. m + 1 \in Nat /\ s # {}
      BY <3>1
    <3>3. Max(s) \in s /\ \A y \in s : y <= Max(s)
      BY <3>2, MaxIs
    <3>4. Max(s) = m + 1
      <4>1. Max(s) \in 1..(m + 1) /\ m + 1 <= Max(s)
        BY <3>1, <3>3
      <4> QED BY <4>1
    <3>5. s \ {m + 1} \subseteq 1..m /\ s \ {m + 1} \in SUBSET (1..(m + 1)) 
      OBVIOUS
    <3>6. h[s \ {m + 1}] = g[s \ {m + 1}]
      BY <3>5
    <3>7. h[s] = Step(p, g[s \ {m + 1}], seq[m + 1])
      BY <2>3
    <3> QED BY <3>2, <3>4, <3>6, <3>7
  <2> QED BY <2>1, <2>2, <2>3
<1>2. h = [s \in SUBSET (1..(m + 1)) |->
             IF s = {} THEN base ELSE Step(p, h[s \ {Max(s)}], seq[Max(s)])]
  <2>1. h = [s \in SUBSET (1..(m + 1)) |-> h[s]]
    OBVIOUS
  <2> HIDE DEF h
  <2> QED BY <1>1, <2>1
<1> HIDE DEF h
<1> QED BY <1>2 DEF Iterates

\* So it exists for every length: there is no least length for which it does not.
LEMMA IteratesExists ==
  ASSUME NEW p, NEW base, NEW seq, NEW n \in Nat
  PROVE  \E g : Iterates(p, base, seq, n, g)
<1> DEFINE P(m) == \E g : Iterates(p, base, seq, m, g)
           B == {m \in Nat : ~ P(m)}
<1>1. P(0)
  <2> DEFINE g == [s \in SUBSET (1..0) |-> base]
  <2>1. \A s \in SUBSET (1..0) : s = {}
    OBVIOUS
  <2>2. Iterates(p, base, seq, 0, g)
    BY <2>1 DEF Iterates
  <2> QED BY <2>2
<1>2. \A m \in Nat : P(m) => P(m + 1)
  BY IteratesExtends
<1> HIDE DEF P
<1>3. SUFFICES ASSUME B # {} PROVE FALSE
  <2>1. P(n)
    BY <1>3
  <2> QED BY <2>1 DEF P
<1>4. PICK m \in B : \A k \in B : m <= k
  <2>1. B \in SUBSET Nat
    OBVIOUS
  <2> QED BY <1>3, <2>1, LeastExists
<1>5. m # 0
  BY <1>1, <1>4
<1>6. m - 1 \in Nat /\ m - 1 \notin B
  BY <1>4, <1>5
<1>7. P(m - 1)
  BY <1>6
<1>8. P(m - 1 + 1)
  BY <1>2, <1>6, <1>7
<1> QED BY <1>4, <1>8

\* What holds of base and is kept by every turn holds of the fold (FoldLeft).
LEMMA FoldKeeps ==
  ASSUME NEW p, NEW base, NEW seq, NEW n \in Nat, DOMAIN seq = 1..n,
         Good(p, base, 0),
         \A k \in 1..n : \A c : Good(p, c, k - 1) => Good(p, Step(p, c, seq[k]), k)
  PROVE  Good(p, Fold(p, base, seq), n)
<1> DEFINE g == CHOOSE iter : iter = [s \in SUBSET DOMAIN seq |->
                  IF s = {} THEN base ELSE Step(p, iter[s \ {Max(s)}], seq[Max(s)])]
<1>1. Fold(p, base, seq) = g[DOMAIN seq]
  BY DEF Fold, FoldLeft, MapThenFoldSet
<1>2. \E iter : iter = [s \in SUBSET (1..n) |->
                  IF s = {} THEN base ELSE Step(p, iter[s \ {Max(s)}], seq[Max(s)])]
  <2>1. PICK h : Iterates(p, base, seq, n, h)
    BY IteratesExists
  <2> QED BY <2>1 DEF Iterates
<1>3. g = [s \in SUBSET (1..n) |->
             IF s = {} THEN base ELSE Step(p, g[s \ {Max(s)}], seq[Max(s)])]
  BY <1>2
<1> HIDE DEF g
<1> DEFINE B == {m \in 0..n : ~ Good(p, g[1..m], m)}
<1>4. Good(p, g[1..0], 0)
  <2>1. 1..0 = {} /\ {} \in SUBSET (1..n)
    OBVIOUS
  <2>2. g[{}] = base
    BY <1>3, <2>1
  <2> QED BY <2>1, <2>2
<1>5. ASSUME NEW m \in 1..n, Good(p, g[1..(m - 1)], m - 1)
      PROVE  Good(p, g[1..m], m)
  <2>1. 1..m \in SUBSET (1..n) /\ 1..m # {} /\ m \in Nat
    OBVIOUS
  <2>2. Max(1..m) \in 1..m /\ \A y \in 1..m : y <= Max(1..m)
    BY <2>1, MaxIs
  <2>3. Max(1..m) = m
    BY <2>1, <2>2
  <2>4. (1..m) \ {m} = 1..(m - 1)
    OBVIOUS
  <2>5. g[1..m] = Step(p, g[1..(m - 1)], seq[m])
    BY <1>3, <2>1, <2>3, <2>4
  <2> QED BY <1>5, <2>5
<1>6. SUFFICES ASSUME B # {} PROVE FALSE
  <2>1. Good(p, g[1..n], n)
    BY <1>6
  <2> QED BY <1>1, <2>1
<1>7. PICK m \in B : \A k \in B : m <= k
  <2>1. B \in SUBSET Nat
    OBVIOUS
  <2> QED BY <1>6, <2>1, LeastExists
<1>8. m # 0
  BY <1>4, <1>7
<1>9. m \in 1..n /\ m - 1 \notin B
  BY <1>7, <1>8
<1>10. Good(p, g[1..(m - 1)], m - 1)
  BY <1>9
<1> QED BY <1>5, <1>7, <1>9, <1>10

=============================================================================
