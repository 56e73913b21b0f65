--------------------------- MODULE Subgraph_proofs ---------------------------
(***************************************************************************)
(* Proofs about the subgraph, for any graphs over the modelled kernels,    *)
(* any sizes and alignment, and any set of faults.                         *)
(***************************************************************************)
EXTENDS Subgraph, Extrema, FiniteSetTheorems

-----------------------------------------------------------------------------
(* Least and greatest elements, as the planner chooses them.               *)

LEMMA MaxChosen ==
  ASSUME NEW n \in Nat, NEW S \in SUBSET (0..n), S # {}
  PROVE  Max(S) \in S
<1>1. \E x \in S : \A y \in S : y <= x
  BY GreatestExists
<1>2. \E x \in S : \A y \in S : x >= y
  BY <1>1
<1> QED BY <1>2 DEF Max

LEMMA MinChosen ==
  ASSUME NEW S \in SUBSET Nat, S # {}
  PROVE  Min(S) \in S
<1>1. \E x \in S : \A y \in S : x <= y
  BY LeastExists
<1> QED BY <1>1 DEF Min

-----------------------------------------------------------------------------
(* The arena.                                                              *)

Block == [tensor : Int, offset : Size, size : Size, first : Int, last : Int]

ArenaOK(a) ==
  /\ a \in [active : SUBSET Block, hwm : Size, committed : BOOLEAN, bufsize : Size]
  /\ IsFiniteSet(a.active)

SearchState == [best : Size, fit : Size, current : Size, ok : BOOLEAN]

\* Rounding up goes forward, and stays a size_t when AlignFits says so.
LEMMA AlignToFits ==
  ASSUME NEW offset \in Size, AlignFits(offset)
  PROVE  AlignTo(offset) \in Size /\ offset <= AlignTo(offset)
<1>1. offset \in Nat /\ Alignment \in Nat /\ Alignment > 0 /\ SizeMax \in Nat
  BY SizeMaxAssumption, AlignmentAssumption DEF Size
<1>2. offset % Alignment \in 0..(Alignment - 1)
  BY <1>1
<1> DEFINE r == offset % Alignment
<1>3. r \in 0..(Alignment - 1)
  BY <1>2
<1>4. AlignTo(offset) = IF r = 0 THEN offset ELSE offset + (Alignment - r)
  BY DEF AlignTo
<1>5. r = 0 \/ offset <= SizeMax - (Alignment - r)
  BY DEF AlignFits, AddFits
<1> HIDE DEF r
<1> QED BY <1>1, <1>3, <1>4, <1>5 DEF Size

\* One turn of the search for a place keeps its variables in range.
LEMMA SearchVisitTyped ==
  ASSUME NEW s \in SearchState, NEW a \in Block, NEW req \in Block
  PROVE  SearchVisit(s, a, req) \in SearchState
<1> DEFINE q == SearchGap(s, a, req.size)
           aligned == AlignTo(s.current)
<1>1. s.current \in Size /\ s.best \in Size /\ s.fit \in Size /\ s.ok \in BOOLEAN
      /\ a.offset \in Size /\ a.size \in Size /\ req.size \in Size /\ SizeMax \in Nat
  BY SizeMaxAssumption DEF SearchState, Block
<1>2. q \in SearchState
  <2>1. CASE ~(AlignFits(s.current) /\ AddFits(aligned, req.size) /\ AddFits(a.offset, a.size))
    <3>1. q = [s EXCEPT !.ok = FALSE]
      BY <2>1 DEF SearchGap
    <3> QED BY <3>1 DEF SearchState
  <2>2. CASE AlignFits(s.current) /\ AddFits(aligned, req.size) /\ AddFits(a.offset, a.size)
    <3> DEFINE taken == aligned + req.size <= a.offset /\ a.offset - aligned < s.fit
    <3>1. aligned \in Size /\ s.current <= aligned
      BY <1>1, <2>2, AlignToFits
    <3>2. a.offset + a.size \in Size
      BY <1>1, <2>2 DEF AddFits, Size
    <3>3. taken => a.offset - s.current \in Size
      BY <1>1, <3>1 DEF Size
    <3>4. q = [best |-> IF taken THEN aligned ELSE s.best,
               fit |-> IF taken THEN a.offset - s.current ELSE s.fit,
               current |-> IF s.current < a.offset + a.size THEN a.offset + a.size ELSE s.current,
               ok |-> TRUE]
      BY <2>2 DEF SearchGap
    <3> HIDE DEF taken, aligned, q
    <3> QED BY <1>1, <3>1, <3>2, <3>3, <3>4 DEF SearchState
  <2> QED BY <2>1, <2>2
<1> QED BY <1>2 DEF SearchVisit

\* What the search knows when it has visited the allocs of S: nothing it must
\* avoid ends behind current, or the fit is perfect; and the gap it has chosen
\* is one, before some alloc of S.
SearchClear(S, req, c) ==
  /\ c.fit # 0 => \A a \in S : Intersects(a, req) => a.offset + a.size <= c.current
  /\ c.best # kOffsetNotAssigned =>
       /\ \E b \in S : c.best + req.size <= b.offset
       /\ \A a \in S : Intersects(a, req) =>
            a.offset + a.size <= c.best \/ c.best + req.size <= a.offset
  /\ c.fit = 0 => c.best # kOffsetNotAssigned

Searching(S, req, c) ==
  c \in SearchState /\ (c.ok /\ req.size > 0 => SearchClear(S, req, c))

LEMMA SearchStarts == ASSUME NEW req PROVE Searching({}, req, SearchStart)
BY SizeMaxAssumption
   DEF Searching, SearchClear, SearchStart, SearchState, kOffsetNotAssigned, Size

\* One turn: the gap before the next alloc is behind all the others.
LEMMA SearchVisitClear ==
  ASSUME NEW S \in SUBSET Block, NEW req \in Block, NEW a \in S,
         \A b \in S : b.offset <= a.offset, NEW c, Searching(S \ {a}, req, c)
  PROVE  Searching(S, req, SearchVisit(c, a, req))
<1> DEFINE q == SearchVisit(c, a, req)
           aligned == AlignTo(c.current)
           taken == aligned + req.size <= a.offset /\ a.offset - aligned < c.fit
<1>1. c \in SearchState /\ q \in SearchState
  BY SearchVisitTyped DEF Searching
<1>2. SUFFICES ASSUME q.ok, req.size > 0 PROVE SearchClear(S, req, q)
  BY <1>1 DEF Searching
<1>3. /\ c.current \in Nat /\ c.best \in Nat /\ c.fit \in Nat /\ SizeMax \in Nat
      /\ req.size \in Nat /\ c.current \in Size /\ a.offset <= SizeMax
      /\ \A b \in S : b.offset \in Nat /\ b.size \in Nat
  BY <1>1, SizeMaxAssumption DEF SearchState, Block, Size
<1>4. c.ok
  BY <1>2 DEF SearchVisit
<1>5. SearchClear(S \ {a}, req, c)
  BY <1>2, <1>4 DEF Searching
<1>6. CASE c.fit = 0 \/ ~ Intersects(a, req)
  <2>1. q = c
    BY <1>6 DEF SearchVisit
  <2> HIDE DEF q
  <2>2. c.best # kOffsetNotAssigned => \E b \in S : c.best + req.size <= b.offset
    BY <1>5 DEF SearchClear
  <2>3. c.best # kOffsetNotAssigned => c.best + req.size <= a.offset
    <3>1. \A b \in S : c.best + req.size <= b.offset => c.best + req.size <= a.offset
      BY <1>3
    <3> QED BY <2>2, <3>1
  <2> QED BY <1>5, <1>6, <2>1, <2>2, <2>3 DEF SearchClear
<1>7. CASE c.fit # 0 /\ Intersects(a, req)
  <2>1. q = SearchGap(c, a, req.size)
    BY <1>4, <1>7 DEF SearchVisit
  <2>2. AlignFits(c.current)
    BY <1>2, <2>1 DEF SearchGap
  <2>3. /\ q.best = (IF taken THEN aligned ELSE c.best)
        /\ q.fit = (IF taken THEN a.offset - c.current ELSE c.fit)
        /\ q.current = (IF c.current < a.offset + a.size THEN a.offset + a.size ELSE c.current)
    BY <1>2, <2>1 DEF SearchGap
  <2>4. aligned \in Nat /\ c.current <= aligned
    BY <1>3, <2>2, AlignToFits DEF Size
  <2> HIDE DEF q, aligned
  <2>5. \A b \in S : b # a /\ Intersects(b, req) => b.offset + b.size <= c.current
    BY <1>5, <1>7 DEF SearchClear
  <2>6. \A b \in S : Intersects(b, req) => b.offset + b.size <= q.current
    BY <1>3, <2>3, <2>5
  <2>7. CASE taken
    <3>1. q.best # kOffsetNotAssigned
      BY <1>2, <1>3, <2>3, <2>4, <2>7 DEF kOffsetNotAssigned
    <3>2. q.best + req.size <= a.offset
      BY <2>3, <2>7
    <3>3. \A b \in S : Intersects(b, req) => b.offset + b.size <= q.best \/ b = a
      BY <1>3, <2>3, <2>4, <2>5, <2>7
    <3> QED BY <2>6, <3>1, <3>2, <3>3 DEF SearchClear
  <2>8. CASE ~ taken
    <3>1. q.best = c.best /\ q.fit = c.fit
      BY <2>3, <2>8
    <3>2. c.best # kOffsetNotAssigned => \E b \in S : c.best + req.size <= b.offset
      BY <1>5 DEF SearchClear
    <3>3. c.best # kOffsetNotAssigned => c.best + req.size <= a.offset
      <4>1. \A b \in S : c.best + req.size <= b.offset => c.best + req.size <= a.offset
        BY <1>3
      <4> QED BY <3>2, <4>1
    <3> QED BY <1>5, <1>7, <2>6, <3>1, <3>2, <3>3 DEF SearchClear
  <2> QED BY <2>7, <2>8
<1> QED BY <1>6, <1>7

\* The search visits the active alloc of the highest offset last.
LEMMA LastIsIn ==
  ASSUME NEW S \in SUBSET Block, S # {}
  PROVE  LastInOrder(S) \in S /\ \A b \in S : b.offset <= LastInOrder(S).offset
<1> DEFINE O == {a.offset : a \in S}
<1>1. O \in SUBSET (0..SizeMax) /\ O # {}
  BY DEF Block, Size
<1>2. SizeMax \in Nat
  BY SizeMaxAssumption
<1> HIDE DEF O
<1>3. PICK m \in O : \A o \in O : o <= m
  BY <1>1, <1>2, GreatestExists
<1>4. \E a \in S : \A b \in S : b.offset <= a.offset
  BY <1>3 DEF O
<1> QED BY <1>4 DEF LastInOrder

\* The search over the subsets of at most m active allocs.
UpTo(A, m) == {s \in SUBSET A : Cardinality(s) <= m}

Searched(A, req, g, s) ==
  IF s = {} THEN SearchStart
  ELSE SearchVisit(g[s \ {LastInOrder(s)}], LastInOrder(s), req)

Iterates(A, req, m, g) == g = [s \in UpTo(A, m) |-> Searched(A, req, g, s)]

LEMMA SmallerSet ==
  ASSUME NEW A \in SUBSET Block, IsFiniteSet(A), NEW s \in SUBSET A, s # {}
  PROVE  /\ Cardinality(s) \in Nat
         /\ LastInOrder(s) \in s /\ \A b \in s : b.offset <= LastInOrder(s).offset
         /\ s \ {LastInOrder(s)} \in SUBSET A
         /\ Cardinality(s \ {LastInOrder(s)}) = Cardinality(s) - 1
<1>1. s \in SUBSET Block /\ IsFiniteSet(s)
  BY FS_Subset
<1>2. LastInOrder(s) \in s /\ \A b \in s : b.offset <= LastInOrder(s).offset
  BY <1>1, LastIsIn
<1>3. Cardinality(s) \in Nat
  BY <1>1, FS_CardinalityType
<1>4. Cardinality(s \ {LastInOrder(s)}) = Cardinality(s) - 1
  BY <1>1, <1>2, FS_RemoveElement
<1> QED BY <1>2, <1>3, <1>4

LEMMA IteratesExtends ==
  ASSUME NEW A \in SUBSET Block, IsFiniteSet(A), NEW req, NEW m \in Nat, NEW g,
         Iterates(A, req, m, g)
  PROVE  \E h : Iterates(A, req, m + 1, h)
<1> DEFINE h == [s \in UpTo(A, m + 1) |->
                   IF Cardinality(s) <= m THEN g[s] ELSE Searched(A, req, g, s)]
<1>1. ASSUME NEW s \in UpTo(A, m + 1)
      PROVE  h[s] = Searched(A, req, h, s)
  <2>1. CASE s = {}
    <3>1. Cardinality(s) = 0
      BY <2>1, FS_EmptySet
    <3>2. s \in UpTo(A, m) /\ Cardinality(s) <= m
      BY <3>1, <2>1 DEF UpTo
    <3>3. h[s] = g[s]
      BY <3>2, <1>1
    <3>4. g[s] = Searched(A, req, g, s)
      BY <3>2 DEF Iterates
    <3> QED BY <2>1, <3>3, <3>4 DEF Searched
  <2>2. CASE s # {}
    <3> DEFINE r == s \ {LastInOrder(s)}
    <3>1. /\ Cardinality(s) \in Nat /\ r \in SUBSET A /\ Cardinality(r) = Cardinality(s) - 1
      BY <1>1, <2>2, SmallerSet DEF UpTo
    <3>2. Cardinality(s) <= m + 1
      BY <1>1 DEF UpTo
    <3>3. Cardinality(r) <= m /\ r \in UpTo(A, m + 1)
      BY <3>1, <3>2 DEF UpTo
    <3>4. h[r] = g[r]
      BY <3>3
    <3>5. Searched(A, req, h, s) = Searched(A, req, g, s)
      BY <2>2, <3>4 DEF Searched
    <3>6. Cardinality(s) <= m => g[s] = Searched(A, req, g, s)
      BY <1>1 DEF Iterates, UpTo
    <3> QED BY <1>1, <3>5, <3>6
  <2> QED BY <2>1, <2>2
<1>2. h = [s \in UpTo(A, m + 1) |-> Searched(A, req, h, s)]
  <2>1. h = [s \in UpTo(A, m + 1) |-> h[s]]
    OBVIOUS
  <2> HIDE DEF h
  <2> QED BY <1>1, <2>1
<1> HIDE DEF h
<1> QED BY <1>2 DEF Iterates

\* The recursive function of the search exists, for sets of any size.
LEMMA IteratesExists ==
  ASSUME NEW A \in SUBSET Block, IsFiniteSet(A), NEW req, NEW n \in Nat
  PROVE  \E g : Iterates(A, req, n, g)
<1> DEFINE P(m) == \E g : Iterates(A, req, m, g)
           B == {m \in Nat : ~ P(m)}
<1>1. P(0)
  <2> DEFINE g == [s \in UpTo(A, 0) |-> SearchStart]
  <2>1. ASSUME NEW s \in UpTo(A, 0) PROVE s = {}
    <3>1. IsFiniteSet(s) /\ Cardinality(s) <= 0
      BY <2>1, FS_Subset DEF UpTo
    <3>2. Cardinality(s) = 0
      BY <3>1, FS_CardinalityType
    <3> QED BY <3>1, <3>2, FS_EmptySet
  <2>2. Iterates(A, req, 0, g)
    BY <2>1 DEF Iterates, Searched
  <2> QED BY <2>2
<1>2. \A m \in Nat : P(m) => P(m + 1)
  BY IteratesExtends
<1> HIDE DEF P
<1>3. SUFFICES ASSUME B # {} PROVE FALSE
  <2>1. P(n)
    BY <1>3
  <2> QED BY <2>1 DEF P
<1>4. PICK m \in B : \A k \in B : m <= k
  <2>1. B \in SUBSET Nat
    OBVIOUS
  <2> QED BY <1>3, <2>1, LeastExists
<1>5. m # 0
  BY <1>1, <1>4
<1>6. m - 1 \in Nat /\ m - 1 \notin B
  BY <1>4, <1>5
<1>7. P(m - 1 + 1)
  BY <1>2, <1>6
<1> QED BY <1>4, <1>7

\* Whatever the active allocs are, the search ends clear of those it must avoid.
LEMMA SearchEnds ==
  ASSUME NEW arena, ArenaOK(arena), NEW req \in Block
  PROVE  Searching(arena.active, req, Search(arena, req))
<1> DEFINE A == arena.active
           n == Cardinality(A)
           g == CHOOSE iter : iter = [s \in SUBSET A |->
                  IF s = {} THEN SearchStart
                  ELSE SearchVisit(iter[s \ {LastInOrder(s)}], LastInOrder(s), req)]
<1>1. A \in SUBSET Block /\ IsFiniteSet(A) /\ n \in Nat
  BY FS_CardinalityType DEF ArenaOK
<1>2. Search(arena, req) = g[A]
  BY DEF Search, MapThenFoldSet
<1>3. UpTo(A, n) = SUBSET A
  <2>1. ASSUME NEW s \in SUBSET A PROVE Cardinality(s) <= n
    BY <1>1, FS_Subset
  <2> QED BY <2>1 DEF UpTo
<1>4. g = [s \in SUBSET A |-> Searched(A, req, g, s)]
  <2> HIDE DEF A, n
  <2>1. PICK h : Iterates(A, req, n, h)
    BY <1>1, IteratesExists
  <2>2. h = [s \in SUBSET A |->
               IF s = {} THEN SearchStart
               ELSE SearchVisit(h[s \ {LastInOrder(s)}], LastInOrder(s), req)]
    BY <2>1, <1>3 DEF Iterates, Searched
  <2>3. g = [s \in SUBSET A |->
               IF s = {} THEN SearchStart
               ELSE SearchVisit(g[s \ {LastInOrder(s)}], LastInOrder(s), req)]
    BY <2>2
  <2> QED BY <2>3 DEF Searched
<1> HIDE DEF g
<1> DEFINE B == {m \in Nat : \E s \in SUBSET A : Cardinality(s) = m /\ ~ Searching(s, req, g[s])}
<1>5. SUFFICES ASSUME B # {} PROVE FALSE
  <2>1. n \notin B
    BY <1>5
  <2> QED BY <1>1, <1>2, <2>1
<1>6. PICK m \in B : \A k \in B : m <= k
  <2>1. B \in SUBSET Nat
    OBVIOUS
  <2> HIDE DEF B
  <2> QED BY <1>5, <2>1, LeastExists
<1>7. PICK s \in SUBSET A : Cardinality(s) = m /\ ~ Searching(s, req, g[s])
  BY <1>6
<1>8. g[s] = Searched(A, req, g, s)
  BY <1>4
<1>9. CASE s = {}
  BY <1>7, <1>8, <1>9, SearchStarts DEF Searched
<1>10. CASE s # {}
  <2> DEFINE r == s \ {LastInOrder(s)}
             b == LastInOrder(s)
  <2>1. /\ Cardinality(s) \in Nat /\ b \in s /\ \A x \in s : x.offset <= b.offset
        /\ r \in SUBSET A /\ Cardinality(r) = Cardinality(s) - 1
    BY <1>1, <1>10, SmallerSet
  <2>2. Cardinality(r) \in Nat
    BY <1>1, <2>1, FS_Subset, FS_CardinalityType
  <2>3. Cardinality(r) \notin B
    <3>1. m \in Nat /\ Cardinality(r) = m - 1
      BY <1>7, <2>1
    <3> HIDE DEF B, r
    <3> QED BY <1>6, <3>1
  <2>4. Searching(s \ {b}, req, g[r])
    BY <2>1, <2>2, <2>3
  <2>5. s \in SUBSET Block
    BY <1>1
  <2>6. g[s] = SearchVisit(g[r], b, req)
    BY <1>8, <1>10 DEF Searched
  <2> HIDE DEF r, b
  <2>7. Searching(s, req, SearchVisit(g[r], b, req))
    BY <2>1, <2>4, <2>5, SearchVisitClear
  <2> QED BY <1>7, <2>6, <2>7
<1> QED BY <1>9, <1>10

LEMMA AllocateTyped ==
  ASSUME NEW arena, ArenaOK(arena), NEW old \in Block, NEW req \in Block,
         NEW r, r = Allocate(arena, old, req)
  PROVE  /\ r.ok \in BOOLEAN /\ ArenaOK(r.arena) /\ r.alloc \in Block
<1>1. CASE req.size = 0
  <2>1. r = [ok |-> TRUE, arena |-> arena, alloc |-> [req EXCEPT !.offset = 0]]
    BY <1>1 DEF Allocate
  <2>2. 0 \in Size
    BY SizeMaxAssumption DEF Size
  <2> QED BY <2>1, <2>2 DEF Block
<1>2. CASE req.size # 0
  <2> DEFINE s == Search(arena, req)
             o == ChosenOffset(s)
             alloc == [req EXCEPT !.offset = o]
  <2>1. s \in SearchState
    BY SearchEnds DEF Searching
  <2> HIDE DEF s
  <2>2. r = AllocateFound(arena, old, req, s)
    BY <1>2 DEF Allocate, s
  <2>3. CASE ~ SearchSucceeds(s, req.size)
    <3>1. r = [ok |-> FALSE, arena |-> arena, alloc |-> [req EXCEPT !.offset = old.offset]]
      BY <2>2, <2>3 DEF AllocateFound
    <3> QED BY <3>1 DEF Block
  <2>4. CASE SearchSucceeds(s, req.size)
    <3>1. r = [ok |-> TRUE, arena |-> Insert(arena, alloc), alloc |-> alloc]
      BY <2>2, <2>4 DEF AllocateFound
    <3>2. s.best \in Size /\ s.current \in Size /\ (s.best = kOffsetNotAssigned => AlignFits(s.current))
          /\ AddFits(o, req.size)
      BY <2>1, <2>4 DEF SearchState, SearchSucceeds
    <3>3. o \in Size
      BY <3>2, AlignToFits DEF ChosenOffset
    <3> HIDE DEF o
    <3>4. o + req.size \in Size
      BY <3>2, <3>3, SizeMaxAssumption DEF AddFits, Size, Block
    <3>5. alloc \in Block /\ alloc.offset = o /\ alloc.size = req.size
      BY <3>3 DEF Block
    <3> HIDE DEF alloc
    <3>6. IsFiniteSet(arena.active \union {alloc})
      BY FS_AddElement DEF ArenaOK
    <3>7. ArenaOK(Insert(arena, alloc))
      BY <3>4, <3>5, <3>6 DEF ArenaOK, Insert
    <3> QED BY <3>1, <3>5, <3>7
  <2> QED BY <2>3, <2>4
<1> QED BY <1>1, <1>2

\* A block is put where no block is that its own would meet (best fit or not).
LEMMA AllocateApart ==
  ASSUME NEW arena, ArenaOK(arena), NEW old, NEW req \in Block, req.size > 0,
         NEW r, r = Allocate(arena, old, req), r.ok
  PROVE  /\ r.alloc.size = req.size /\ r.alloc.first = req.first /\ r.alloc.last = req.last
         /\ r.arena.active = arena.active \union {r.alloc}
         /\ \A a \in arena.active : Intersects(a, req) => Disjoint(a, r.alloc)
<1> DEFINE s == Search(arena, req)
           o == ChosenOffset(s)
           alloc == [req EXCEPT !.offset = o]
<1>1. Searching(arena.active, req, s)
  BY SearchEnds
<1> HIDE DEF s
<1>2. r = AllocateFound(arena, old, req, s) /\ req.size \in Nat
  BY SizeMaxAssumption DEF Allocate, s, Block, Size
<1>3. SearchSucceeds(s, req.size)
  BY <1>2 DEF AllocateFound
<1>4. r.alloc = alloc /\ r.arena = Insert(arena, alloc)
  BY <1>2, <1>3 DEF AllocateFound
<1>5. /\ s \in SearchState /\ SearchClear(arena.active, req, s)
      /\ s.best = kOffsetNotAssigned => AlignFits(s.current)
  BY <1>1, <1>3 DEF Searching, SearchSucceeds
<1>6. /\ s.current \in Size /\ s.current \in Nat /\ s.best \in Nat
      /\ \A a \in arena.active : a.offset \in Nat /\ a.size \in Nat
  BY <1>5, SizeMaxAssumption DEF SearchState, ArenaOK, Block, Size
<1>7. s.best = kOffsetNotAssigned => o \in Nat /\ s.current <= o
  BY <1>5, <1>6, AlignToFits DEF ChosenOffset, Size
<1>8. s.best # kOffsetNotAssigned => o = s.best
  BY DEF ChosenOffset
<1> HIDE DEF o
<1>9. alloc.offset = o /\ alloc.size = req.size /\ alloc.first = req.first /\ alloc.last = req.last
  BY DEF Block
<1>10. r.arena.active = arena.active \union {alloc}
  <2> HIDE DEF alloc
  <2> QED BY <1>4 DEF Insert, ArenaOK
<1>11. ASSUME NEW a \in arena.active, Intersects(a, req)
       PROVE  a.offset + a.size <= o \/ o + req.size <= a.offset
  <2>1. CASE s.best = kOffsetNotAssigned
    <3>1. a.offset + a.size <= s.current
      BY <1>5, <1>11, <2>1 DEF SearchClear
    <3> QED BY <1>6, <1>7, <2>1, <3>1
  <2>2. CASE s.best # kOffsetNotAssigned
    BY <1>5, <1>8, <1>11, <2>2 DEF SearchClear
  <2> QED BY <2>1, <2>2
<1> QED BY <1>4, <1>9, <1>10, <1>11 DEF Disjoint

\* The operations that forget allocs, and those on the buffer, keep the types.
LEMMA ArenaOperationsTyped ==
  ASSUME NEW arena, ArenaOK(arena), NEW node \in Int
  PROVE  /\ ArenaOK(PurgeAfter(arena, node)) /\ ArenaOK(PurgeActiveAllocs(arena, node))
         /\ \A S \in SUBSET Block : IsFiniteSet(S) => ArenaOK(CalculateActiveAllocs(arena, S, node))
         /\ ArenaOK(ResetAllocs(arena)) /\ ArenaOK(ClearPlan(arena))
         /\ \A mallocOk \in BOOLEAN : ArenaOK(Commit(arena, mallocOk))
         /\ ArenaOK(ReleaseBuffer(arena))
<1>1. 0 \in Size /\ IsFiniteSet({})
  BY SizeMaxAssumption, FS_EmptySet DEF Size
<1>2. \A S \in SUBSET arena.active : IsFiniteSet(S)
  BY FS_Subset DEF ArenaOK
<1>3. ArenaOK(PurgeAfter(arena, node)) /\ ArenaOK(PurgeActiveAllocs(arena, node))
  <2>1. IsFiniteSet({a \in arena.active : ~(a.first > node)})
        /\ IsFiniteSet({a \in arena.active : ~(a.last < node)})
    BY <1>2
  <2> QED BY <2>1 DEF ArenaOK, PurgeAfter, PurgeActiveAllocs
<1>4. ASSUME NEW S \in SUBSET Block, IsFiniteSet(S)
      PROVE  ArenaOK(CalculateActiveAllocs(arena, S, node))
  <2>1. IsFiniteSet({a \in S : a.first <= node /\ a.last >= node})
    BY <1>4, FS_Subset
  <2> QED BY <2>1 DEF ArenaOK, CalculateActiveAllocs
<1>5. ArenaOK(ResetAllocs(arena)) /\ ArenaOK(ClearPlan(arena)) /\ ArenaOK(ReleaseBuffer(arena))
  BY <1>1 DEF ArenaOK, ResetAllocs, ClearPlan, ReleaseBuffer
<1>6. ASSUME NEW mallocOk \in BOOLEAN PROVE ArenaOK(Commit(arena, mallocOk))
  BY DEF ArenaOK, Commit
<1> QED BY <1>3, <1>4, <1>5, <1>6

-----------------------------------------------------------------------------
(* The tensors and the planner.                                            *)

IsAFcn(f) == f = [x \in DOMAIN f |-> f[x]]

AllTensors(g) == TensorsOf(g.tensors)

Data == [where : {"rw", "persistent", "heap", "null", "freed"}, offset : Size]

Tensor == [bytes : Size, dims : Dims, type : {"rw", "persistent", "dynamic"}, data : Data]

TensorsOK(g, ts) == ts \in [AllTensors(g) -> Tensor]

\* Not a persistent tensor, and not in the arena of those.
Elsewhere(x) == x.type # "persistent" /\ x.data.where # "persistent"

\* Nothing but data pointers differs.
SameShapes(ts, q) ==
  \A t \in DOMAIN ts : q[t].bytes = ts[t].bytes /\ q[t].dims = ts[t].dims /\ q[t].type = ts[t].type

LEMMA PointersTyped ==
  /\ Null \in Data /\ Heap \in Data /\ Dangling \in Data
  /\ \A o \in Size : Pointer("rw", o) \in Data /\ Pointer("persistent", o) \in Data
BY SizeMaxAssumption DEF Null, Heap, Dangling, Pointer, Data, Size

LEMMA DataAssigned ==
  ASSUME NEW g, NEW ts, TensorsOK(g, ts), NEW q, IsAFcn(q), DOMAIN q = DOMAIN ts,
         \A t \in DOMAIN ts : q[t] = ts[t] \/ \E d \in Data : q[t] = [ts[t] EXCEPT !.data = d]
  PROVE  TensorsOK(g, q) /\ SameShapes(ts, q)
<1>1. DOMAIN ts = AllTensors(g) /\ \A t \in DOMAIN ts : ts[t] \in Tensor
  BY DEF TensorsOK
<1>2. ASSUME NEW t \in DOMAIN ts
      PROVE  q[t] \in Tensor /\ q[t].bytes = ts[t].bytes /\ q[t].dims = ts[t].dims
             /\ q[t].type = ts[t].type
  BY <1>1 DEF Tensor
<1>3. q \in [AllTensors(g) -> Tensor]
  BY <1>1, <1>2 DEF IsAFcn
<1> QED BY <1>2, <1>3 DEF TensorsOK, SameShapes

PlannerFields ==
  {"allocs", "lastActive", "arena", "persistentArena", "actualId", "allocNode", "deallocNode",
   "nodesToTensors", "hasNonPersistent"}

\* The persistent tensors: those that keep their place while the plan is used.
Persistent(g) == {t \in AllTensors(g) : g.tensors[t].type = "persistent"}

SharingOK(g, actualId) ==
  /\ DOMAIN actualId \subseteq AllTensors(g) \ Persistent(g)
  /\ \A t \in DOMAIN actualId : actualId[t] \in AllTensors(g)

PlannerOK(g, p) ==
  /\ DOMAIN p = PlannerFields
  /\ p.allocs \in [AllTensors(g) -> Block]
  /\ p.lastActive \in Int
  /\ ArenaOK(p.arena) /\ ArenaOK(p.persistentArena)
  /\ SharingOK(g, p.actualId)
  /\ p.allocNode \in [AllTensors(g) -> 0 .. kNodeNotAssigned]
  /\ p.deallocNode \in [AllTensors(g) -> Int]
  /\ p.nodesToTensors \in [NodesOf(g) -> SUBSET AllTensors(g)]
  /\ p.hasNonPersistent \in BOOLEAN

LEMMA NoAllocTyped ==
  /\ NoAlloc \in Block /\ kNodeNotAssigned \in Int /\ kLastActiveNodeUndefined \in Int
  /\ kNodeNotAssigned \in 0 .. kNodeNotAssigned
BY SizeMaxAssumption, NotAssignedAssumption DEF NoAlloc, Block, Size, kLastActiveNodeUndefined

LEMMA EmptyArenaTyped == ArenaOK(EmptyArena)
<1>1. IsFiniteSet({}) /\ 0 \in Size
  BY FS_EmptySet, SizeMaxAssumption DEF Size
<1> QED BY <1>1 DEF EmptyArena, ArenaOK

LEMMA NewPlannerTyped ==
  ASSUME NEW g, NEW ts, TensorsOK(g, ts)
  PROVE  PlannerOK(g, NewPlanner(g, ts)) /\ NewPlanner(g, ts).hasNonPersistent = FALSE
<1>1. DOMAIN ts = AllTensors(g)
  BY DEF TensorsOK
<1>2. DOMAIN << >> = {}
  OBVIOUS
<1> QED BY <1>1, <1>2, NoAllocTyped, EmptyArenaTyped
  DEF NewPlanner, PlannerOK, PlannerFields, SharingOK, TensorsOf

LEMMA ResetAllocationsKeeps ==
  ASSUME NEW g, NEW p, PlannerOK(g, p)
  PROVE  /\ PlannerOK(g, ResetAllocations(p))
         /\ ResetAllocations(p).hasNonPersistent = p.hasNonPersistent
         /\ ResetAllocations(p).allocs = [t \in AllTensors(g) |-> NoAlloc]
         /\ ResetAllocations(p).nodesToTensors = p.nodesToTensors
<1>1. ArenaOK(ClearPlan(p.arena)) /\ ArenaOK(ClearPlan(p.persistentArena))
  BY ArenaOperationsTyped DEF PlannerOK
<1>2. [t \in DOMAIN p.allocs |-> NoAlloc] \in [AllTensors(g) -> Block]
  BY NoAllocTyped DEF PlannerOK
<1> QED BY <1>1, <1>2, NoAllocTyped DEF PlannerOK, PlannerFields, ResetAllocations

LEMMA ValuesFinite ==
  ASSUME NEW S, IsFiniteSet(S), NEW f
  PROVE  IsFiniteSet({f[x] : x \in S})
<1> DEFINE V == {f[x] : x \in S}
<1>1. PICK n \in Nat : ExistsSurjection(1..n, S)
  BY FS_NatSurjection
<1>2. PICK h \in Surjection(1..n, S) : TRUE
  BY <1>1 DEF ExistsSurjection
<1>3. [i \in 1..n |-> f[h[i]]] \in Surjection(1..n, V)
  BY <1>2 DEF Surjection
<1>4. ExistsSurjection(1..n, V)
  BY <1>3 DEF ExistsSurjection
<1> QED BY <1>1, <1>4, FS_NatSurjection

LEMMA GraphFacts ==
  ASSUME NEW g \in Graphs
  PROVE  /\ NumNodes(g) \in Nat /\ NumNodes(g) >= 1 /\ NodesOf(g) = 0 .. (NumNodes(g) - 1)
         /\ NodesOf(g) \in SUBSET Nat
         /\ AllTensors(g) \in SUBSET Int /\ IsFiniteSet(AllTensors(g))
         /\ g.inputs \in SUBSET AllTensors(g) /\ g.outputs \in SUBSET AllTensors(g)
         /\ g.variables \in SUBSET AllTensors(g)
         /\ g.inputSizes \in SUBSET Sizes
         /\ TensorsOK(g, g.tensors)
<1>1. /\ NumNodes(g) \in Nat \ {0} /\ NodesOf(g) = 0 .. NumNodes(g) - 1
      /\ AllTensors(g) \in SUBSET Int /\ IsFiniteSet(AllTensors(g))
      /\ g.inputs \union g.outputs \union g.variables \subseteq AllTensors(g)
      /\ g.inputSizes \in SUBSET Sizes
  BY GraphsAssumption DEF AllTensors
<1>2. g.tensors \in [AllTensors(g) -> [bytes : Size, dims : Dims,
                                       type : {"rw", "persistent"}, data : {Null}]]
  BY GraphsAssumption DEF AllTensors
<1>3. [bytes : Size, dims : Dims, type : {"rw", "persistent"}, data : {Null}] \in SUBSET Tensor
  BY PointersTyped DEF Tensor
<1>4. g.tensors \in [AllTensors(g) -> Tensor]
  BY <1>2, <1>3
<1> QED BY <1>1, <1>4 DEF TensorsOK

Fits(g, node) ==
  /\ node.in \in Seq(AllTensors(g)) /\ node.out \in Seq(AllTensors(g))
  /\ node.tmp \in Seq(AllTensors(g))
  /\ node.kind \in KernelKinds
  /\ Len(node.in) = (IF node.kind \in {"add", "svdf"} THEN 2 ELSE 1)
  /\ Len(node.out) = (IF node.kind = "unique" THEN 2 ELSE 1)
  /\ Len(node.tmp) = (IF node.kind = "svdf" THEN 2 ELSE 0)
  /\ node.shared \in SUBSET Nat /\ node.view \in BOOLEAN

\* The tensors of a node; what a node makes is read by later nodes only.
LEMMA NodeFacts ==
  ASSUME NEW g \in Graphs, NEW i \in NodesOf(g)
  PROVE  /\ Fits(g, g.nodes[i])
         /\ Makes(g.nodes[i]) \intersect (g.inputs \union g.variables) = {}
         /\ \A k \in NodesOf(g) : k <= i => Makes(g.nodes[i]) \intersect Range(g.nodes[k].in) = {}
         /\ Range(g.nodes[i].in) \in SUBSET AllTensors(g)
         /\ Range(g.nodes[i].out) \in SUBSET AllTensors(g)
         /\ Range(g.nodes[i].tmp) \in SUBSET AllTensors(g)
         /\ \A j \in DOMAIN g.nodes[i].in : g.nodes[i].in[j] \in AllTensors(g)
         /\ g.nodes[i].out # << >> /\ g.nodes[i].out[1] \in AllTensors(g)
<1> DEFINE node == g.nodes[i]
<1>1. LET x == g.nodes[i]
      IN  /\ {x.in, x.out, x.tmp} \subseteq Seq(TensorsOf(g.tensors))
          /\ x.kind \in KernelKinds
          /\ Len(x.in) = (IF x.kind \in {"add", "svdf"} THEN 2 ELSE 1)
          /\ Len(x.out) = (IF x.kind = "unique" THEN 2 ELSE 1)
          /\ Len(x.tmp) = (IF x.kind = "svdf" THEN 2 ELSE 0)
          /\ x.shared \subseteq Nat /\ x.view \in BOOLEAN
          /\ Makes(x) \intersect (g.inputs \union g.variables) = {}
          /\ \A k \in 0 .. i : Makes(x) \intersect Range(g.nodes[k].in) = {}
  BY GraphsAssumption, ZenonT(60)
<1> HIDE DEF node
<1>2. Fits(g, node)
  BY <1>1 DEF Fits, AllTensors, node
<1>3. \A k \in NodesOf(g) : k <= i => k \in 0..i
  BY GraphFacts
<1>4. \A s \in Seq(AllTensors(g)) : Range(s) \in SUBSET AllTensors(g)
  BY DEF Range
<1>5. /\ Range(node.in) \in SUBSET AllTensors(g) /\ Range(node.out) \in SUBSET AllTensors(g)
      /\ Range(node.tmp) \in SUBSET AllTensors(g)
  BY <1>2, <1>4 DEF Fits
<1>6. node.out # << >> /\ node.out[1] \in AllTensors(g)
  BY <1>2 DEF Fits
<1>7. \A j \in DOMAIN node.in : node.in[j] \in AllTensors(g)
  BY <1>2 DEF Fits
<1> QED BY <1>1, <1>2, <1>3, <1>5, <1>6, <1>7 DEF node

\* The persistent tensors are the variables and what a kernel computes once. Kernels size neither
\* and nobody fills them.
LEMMA PersistentFacts ==
  ASSUME NEW g \in Graphs
  PROVE  /\ Persistent(g) \in SUBSET AllTensors(g) /\ g.variables \in SUBSET Persistent(g)
         /\ g.inputs \intersect Persistent(g) = {}
         /\ \A t \in Persistent(g) : g.tensors[t].bytes \in Nat /\ g.tensors[t].bytes > 0
         /\ NumNodes(g) <= kNodeNotAssigned
         /\ \A i \in NodesOf(g) :
              /\ Range(g.nodes[i].out) \intersect Persistent(g) = {}
              /\ g.nodes[i].kind = "svdf" =>
                   /\ g.nodes[i].in[2] \in g.variables
                   /\ g.nodes[i].tmp[1] \notin Persistent(g)
                   /\ g.nodes[i].tmp[2] \in Persistent(g)
                   /\ g.nodes[i].tmp[2] \in Range(g.nodes[i].tmp)
<1>1. /\ \A t \in AllTensors(g) : g.tensors[t].type = "persistent" => g.tensors[t].bytes > 0
      /\ \A t \in g.inputs : g.tensors[t].type = "rw"
      /\ \A t \in g.variables : g.tensors[t].type = "persistent"
      /\ NumNodes(g) <= kNodeNotAssigned
      /\ \A i \in NodesOf(g) :
           /\ \A t \in Range(g.nodes[i].out) : g.tensors[t].type = "rw"
           /\ g.nodes[i].kind = "svdf" => /\ g.nodes[i].in[2] \in g.variables
                                          /\ g.tensors[g.nodes[i].tmp[1]].type = "rw"
                                          /\ g.tensors[g.nodes[i].tmp[2]].type = "persistent"
  BY GraphsAssumption DEF AllTensors
<1>2. g.variables \in SUBSET AllTensors(g) /\ g.inputs \in SUBSET AllTensors(g)
      /\ \A t \in AllTensors(g) : g.tensors[t].bytes \in Nat
  BY GraphFacts, SizeMaxAssumption DEF TensorsOK, Tensor, Size
<1>3. \A i \in NodesOf(g) :
        g.nodes[i].kind = "svdf" => /\ g.nodes[i].tmp[2] \in AllTensors(g)
                                    /\ g.nodes[i].tmp[2] \in Range(g.nodes[i].tmp)
  BY NodeFacts DEF Fits, Range
<1> QED BY <1>1, <1>2, <1>3 DEF Persistent

\* Persistent tensors keep their size and stay persistent; no other tensor
\* becomes one or gets into their arena.
PersistentKept(g, ts) ==
  \A t \in AllTensors(g) :
    IF t \in Persistent(g)
    THEN ts[t].type = "persistent" /\ ts[t].bytes = g.tensors[t].bytes
    ELSE Elsewhere(ts[t])

\* From ts to q nothing happens to them.
PersistentAlone(g, ts, q) ==
  \A t \in AllTensors(g) :
    IF t \in Persistent(g) THEN q[t] = ts[t] ELSE Elsewhere(ts[t]) => Elsewhere(q[t])

LEMMA AloneKeeps ==
  ASSUME NEW g, NEW ts, NEW q, PersistentAlone(g, ts, q)
  PROVE  /\ PersistentKept(g, ts) => PersistentKept(g, q)
         /\ \A r : PersistentAlone(g, q, r) => PersistentAlone(g, ts, r)
BY DEF PersistentAlone, PersistentKept

\* What the tensors and the planner are after ResetAllocationsAfter(node).
ResetTo(g, ts, p, node, r) ==
  /\ TensorsOK(g, r.ts) /\ SameShapes(ts, r.ts)
  /\ PlannerOK(g, r.p)
  /\ r.p.hasNonPersistent = p.hasNonPersistent /\ r.p.lastActive = node

\* Going back to a node takes blocks and pointers away, and nothing else
\* (ArenaPlanner::ResetAllocationsAfter).
LEMMA ResetAllocationsAfterKeeps ==
  ASSUME NEW g \in Graphs, NEW ts, TensorsOK(g, ts), NEW p, PlannerOK(g, p),
         NEW node, node \in Int
  PROVE  ResetTo(g, ts, p, node, ResetAllocationsAfter(ts, p, node))
<1> DEFINE r == ResetAllocationsAfter(ts, p, node)
           gone == ForgottenAfter(ts, p, node)
           allocs == [t \in TensorsOf(ts) |-> IF t \in gone THEN NoAlloc ELSE p.allocs[t]]
           arena == IF p.lastActive > node
                    THEN CalculateActiveAllocs(p.arena, {allocs[t] : t \in TensorsOf(ts)}, node)
                    ELSE PurgeAfter(p.arena, node)
<1>1. TensorsOf(ts) = AllTensors(g) /\ DOMAIN ts = AllTensors(g)
  BY DEF TensorsOK, TensorsOf
<1>2. r.ts = [t \in TensorsOf(ts) |-> IF t \in gone THEN [ts[t] EXCEPT !.data = Null] ELSE ts[t]]
      /\ r.p = [p EXCEPT !.allocs = allocs, !.arena = arena, !.lastActive = node]
  BY DEF ResetAllocationsAfter, WithData
<1> HIDE DEF gone
<1>3. allocs \in [AllTensors(g) -> Block]
  BY <1>1, NoAllocTyped DEF PlannerOK
<1> HIDE DEF allocs
<1>4. IsFiniteSet({allocs[t] : t \in TensorsOf(ts)})
  BY <1>1, GraphFacts, ValuesFinite
<1>5. {allocs[t] : t \in TensorsOf(ts)} \in SUBSET Block
  BY <1>1, <1>3
<1>6. ArenaOK(arena)
  BY <1>4, <1>5, ArenaOperationsTyped DEF PlannerOK
<1> HIDE DEF arena
<1>7. PlannerOK(g, r.p) /\ r.p.hasNonPersistent = p.hasNonPersistent /\ r.p.lastActive = node
  BY <1>2, <1>3, <1>6 DEF PlannerOK, PlannerFields
<1>8. IsAFcn(r.ts) /\ DOMAIN r.ts = DOMAIN ts
      /\ \A t \in DOMAIN ts : r.ts[t] = ts[t] \/ r.ts[t] = [ts[t] EXCEPT !.data = Null]
  BY <1>1, <1>2 DEF IsAFcn
<1> HIDE DEF r
<1>9. TensorsOK(g, r.ts) /\ SameShapes(ts, r.ts)
  BY <1>8, PointersTyped, DataAssigned
<1>10. ResetTo(g, ts, p, node, r)
  BY <1>7, <1>9 DEF ResetTo
<1> QED BY <1>10 DEF r

LEMMA NodeSeqFacts ==
  ASSUME NEW first \in Int, NEW last \in Int, first <= last
  PROVE  /\ last - first + 1 \in Nat
         /\ DOMAIN NodeSeq(first, last) = 1..(last - first + 1)
         /\ \A k \in 1..(last - first + 1) : NodeSeq(first, last)[k] = first + k - 1
BY DEF NodeSeq

\* Argument: the graph, its tensors.
ShareStep(a, c, i) == ShareNode(a[1], a[2], c, i)

ShareGood(a, c, k) == SharingOK(a[1], c)

Shares == INSTANCE FoldInvariant WITH Step <- ShareStep, Good <- ShareGood

\* A tensor shares the buffer of a tensor (IdentifyInPlaceTensors).
LEMMA SharesTensors ==
  ASSUME NEW g \in Graphs, NEW ts
  PROVE  SharingOK(g, IdentifyInPlaceTensors(g, ts))
<1> DEFINE seq == NodeSeq(0, NumNodes(g) - 1)
           a == <<g, ts>>
<1>1. NumNodes(g) \in Nat /\ NumNodes(g) >= 1 /\ NodesOf(g) = 0 .. (NumNodes(g) - 1)
  BY GraphFacts
<1>2. DOMAIN seq = 1..NumNodes(g) /\ \A k \in 1..NumNodes(g) : seq[k] \in NodesOf(g)
  <2> DEFINE m == NumNodes(g) - 1
  <2>1. m \in Int /\ 0 <= m /\ m - 0 + 1 = NumNodes(g) /\ 0 \in Int
    BY <1>1
  <2>2. seq = NodeSeq(0, m)
    OBVIOUS
  <2> HIDE DEF m, seq
  <2>3. DOMAIN seq = 1..(m - 0 + 1) /\ \A k \in 1..(m - 0 + 1) : seq[k] = 0 + k - 1
    BY <2>1, <2>2, NodeSeqFacts
  <2>4. \A k \in 1..NumNodes(g) : seq[k] = 0 + k - 1 /\ 0 + k - 1 \in NodesOf(g)
    BY <1>1, <2>1, <2>3
  <2> QED BY <2>1, <2>3, <2>4
<1> HIDE DEF seq
<1>3. ASSUME NEW actualId, SharingOK(g, actualId), NEW i \in NodesOf(g)
      PROVE  SharingOK(g, ShareNode(g, ts, actualId, i))
  <2> DEFINE node == g.nodes[i]
             output == node.out[1]
             candidates == {j \in node.shared \intersect DOMAIN node.in :
                              InputTensorCanBeShared(g, ts, node.in[j], output, ~node.view)}
             root == FindSharedTensor(actualId, node.in[Min(candidates)])
             more == [t \in DOMAIN actualId \union {output} |->
                        IF t = output THEN root ELSE actualId[t]]
  <2>1. output \in AllTensors(g) \ Persistent(g) /\ node.shared \in SUBSET Nat
        /\ \A j \in DOMAIN node.in : node.in[j] \in AllTensors(g)
    BY NodeFacts, PersistentFacts DEF Fits, Range
  <2>2. ShareNode(g, ts, actualId, i) = actualId
        \/ (candidates # {} /\ ShareNode(g, ts, actualId, i) = more)
    BY DEF ShareNode
  <2>3. candidates # {} => Min(candidates) \in candidates
    BY <2>1, MinChosen
  <2>4. candidates # {} => root \in AllTensors(g)
    <3>1. candidates # {} => node.in[Min(candidates)] \in AllTensors(g)
      BY <2>1, <2>3
    <3> HIDE DEF candidates
    <3> QED BY <3>1, <1>3 DEF FindSharedTensor, SharingOK
  <2> HIDE DEF candidates, root, output
  <2>5. root \in AllTensors(g) => SharingOK(g, more)
    BY <2>1, <1>3 DEF SharingOK
  <2> QED BY <1>3, <2>2, <2>4, <2>5
<1>4. \A k \in 1..NumNodes(g) : seq[k] \in NodesOf(g)
  BY <1>2
<1>5. \A k \in 1..NumNodes(g) : \A c : ShareGood(a, c, k - 1) => ShareGood(a, ShareStep(a, c, seq[k]), k)
  BY <1>3, <1>4 DEF ShareGood, ShareStep
<1>6. ShareGood(a, << >>, 0)
  BY DEF ShareGood, SharingOK
<1>7. ShareGood(a, Shares!Fold(a, << >>, seq), NumNodes(g))
  <2> HIDE DEF a
  <2> QED BY <1>1, <1>2, <1>5, <1>6, Shares!FoldKeeps
<1>8. IdentifyInPlaceTensors(g, ts) = Shares!Fold(<<g, ts>>, << >>, NodeSeq(0, NumNodes(g) - 1))
  BY DEF IdentifyInPlaceTensors, NumNodes, ShareStep, Shares!Fold, Shares!FoldLeft,
         Shares!MapThenFoldSet, Shares!Max, FoldLeft, MapThenFoldSet, Max
<1>9. IdentifyInPlaceTensors(g, ts) = Shares!Fold(a, << >>, seq)
  BY <1>8 DEF seq
<1>10. a[1] = g
  OBVIOUS
<1> HIDE DEF a
<1> QED BY <1>7, <1>9, <1>10 DEF ShareGood

\* The nodes at which a buffer is taken and given back are numbers.
LEMMA NodesOfBuffers ==
  ASSUME NEW g \in Graphs, NEW actualId, NEW t
  PROVE  AllocNode(g, t) \in 0 .. kNodeNotAssigned /\ DeallocNode(g, actualId, t) \in Int
<1>1. NodesOf(g) \in SUBSET Nat /\ NumNodes(g) \in Nat /\ NodesOf(g) = 0..(NumNodes(g) - 1)
      /\ NumNodes(g) - 1 \in Nat
  BY GraphFacts
<1>2. AllocNode(g, t) \in 0 .. kNodeNotAssigned
  <2> DEFINE producers == {i \in NodesOf(g) : t \in Range(g.nodes[i].out)}
  <2>1. producers # {} => Min(producers) \in NodesOf(g)
    BY <1>1, MinChosen
  <2>2. NodesOf(g) \in SUBSET (0 .. kNodeNotAssigned) /\ 0 \in 0 .. kNodeNotAssigned
    BY <1>1, PersistentFacts, NotAssignedAssumption
  <2> HIDE DEF producers
  <2>3. AllocNode(g, t) = CASE t \in g.inputs \union g.variables -> 0
          [] t \notin g.inputs \union g.variables /\ producers # {} -> Min(producers)
          [] OTHER -> kNodeNotAssigned
    BY DEF AllocNode, producers
  <2> QED BY <2>1, <2>2, <2>3, NoAllocTyped
<1>3. DeallocNode(g, actualId, t) \in Int
  <2> DEFINE uses == References(g, actualId, t)
             last == Max({use[1] : use \in uses})
  <2>1. \A use \in uses : use[1] \in NodesOf(g)
    BY DEF References
  <2>2. uses # {} => last \in {use[1] : use \in uses}
    <3>1. {use[1] : use \in uses} \in SUBSET (0..(NumNodes(g) - 1))
      BY <1>1, <2>1
    <3> DEFINE U == {use[1] : use \in uses}
    <3>2. U \in SUBSET (0..(NumNodes(g) - 1)) /\ (uses # {} => U # {})
      BY <3>1
    <3> HIDE DEF U
    <3>3. U # {} => Max(U) \in U
      BY <1>1, <3>2, MaxChosen
    <3> QED BY <3>2, <3>3 DEF U
  <2>3. uses # {} => last \in Int
    BY <1>1, <2>1, <2>2
  <2>4. DeallocNode(g, actualId, t) = kNodeNotAssigned
        \/ (uses # {} /\ DeallocNode(g, actualId, t) = last)
    BY DEF DeallocNode
  <2> HIDE DEF uses, last
  <2> QED BY <2>3, <2>4, NoAllocTyped
<1> QED BY <1>2, <1>3

LEMMA PlanAllocationsKeeps ==
  ASSUME NEW g \in Graphs, NEW ts, TensorsOK(g, ts), NEW p, PlannerOK(g, p)
  PROVE  /\ PlannerOK(g, PlanAllocations(g, ts, p))
         /\ PlanAllocations(g, ts, p).hasNonPersistent = p.hasNonPersistent
         /\ PlanAllocations(g, ts, p).allocs = [t \in AllTensors(g) |-> NoAlloc]
         /\ g.variables \in SUBSET PlanAllocations(g, ts, p).nodesToTensors[0]
<1> DEFINE actualId == IdentifyInPlaceTensors(g, ts)
           reset == ResetAllocations(p)
           allocNode == [t \in TensorsOf(ts) |-> AllocNode(g, t)]
           deallocNode == [t \in TensorsOf(ts) |-> DeallocNode(g, actualId, t)]
           lists == [i \in NodesOf(g) |->
                       Range(g.nodes[i].out)
                       \union (IF i = 0 THEN g.inputs \union g.variables ELSE {})]
<1>1. PlannerOK(g, reset) /\ reset.hasNonPersistent = p.hasNonPersistent
      /\ reset.allocs = [t \in AllTensors(g) |-> NoAlloc]
  BY ResetAllocationsKeeps
<1>2. SharingOK(g, actualId)
  BY SharesTensors
<1>3. TensorsOf(ts) = AllTensors(g)
  BY DEF TensorsOK, TensorsOf
<1>4. allocNode \in [AllTensors(g) -> 0 .. kNodeNotAssigned]
      /\ deallocNode \in [AllTensors(g) -> Int]
  BY <1>3, NodesOfBuffers
<1>5. lists \in [NodesOf(g) -> SUBSET AllTensors(g)] /\ g.variables \in SUBSET lists[0]
  BY NodeFacts, GraphFacts
<1>6. PlanAllocations(g, ts, p) =
        [reset EXCEPT !.actualId = actualId, !.allocNode = allocNode,
                      !.deallocNode = deallocNode, !.nodesToTensors = lists]
  BY DEF PlanAllocations
<1> HIDE DEF actualId, reset, allocNode, deallocNode, lists
<1> QED BY <1>1, <1>2, <1>4, <1>5, <1>6 DEF PlannerOK, PlannerFields

\* What is planned when the temporaries of the nodes are known.
TemporariesAdded(g, p, first, last, q) ==
  /\ PlannerOK(g, q)
  /\ q.hasNonPersistent = p.hasNonPersistent /\ q.lastActive = p.lastActive
  /\ q.arena = p.arena /\ q.persistentArena = p.persistentArena /\ q.allocs = p.allocs
  /\ \A i \in NodesOf(g) : p.nodesToTensors[i] \in SUBSET q.nodesToTensors[i]
  /\ \A i \in NodesOf(g) :
       i \in first .. last => Range(g.nodes[i].tmp) \in SUBSET q.nodesToTensors[i]

LEMMA AddTemporariesKeeps ==
  ASSUME NEW g \in Graphs, NEW p, PlannerOK(g, p), NEW first \in NodesOf(g), NEW last \in NodesOf(g),
         NEW q, q = AddTemporaries(g, p, first, last)
  PROVE  TemporariesAdded(g, p, first, last, q)
<1> DEFINE users(t) == {i \in first .. last : t \in Range(g.nodes[i].tmp)}
           temporaries == UNION {Range(g.nodes[i].tmp) : i \in first .. last}
           upToLastUser(nodes) ==
             [t \in DOMAIN nodes |-> IF t \in temporaries THEN Max(users(t)) ELSE nodes[t]]
           allocNode == upToLastUser(p.allocNode)
           deallocNode == IF g.preserve THEN p.deallocNode ELSE upToLastUser(p.deallocNode)
           lists == [i \in NodesOf(g) |->
                       IF i \in first .. last THEN p.nodesToTensors[i] \union Range(g.nodes[i].tmp)
                       ELSE p.nodesToTensors[i]]
<1>1. NumNodes(g) - 1 \in Nat /\ NodesOf(g) = 0..(NumNodes(g) - 1)
      /\ first .. last \in SUBSET (0..(NumNodes(g) - 1))
  BY GraphFacts
<1>2. ASSUME NEW t \in temporaries PROVE Max(users(t)) \in 0 .. kNodeNotAssigned
  <2>1. users(t) \in SUBSET (0..(NumNodes(g) - 1)) /\ users(t) # {}
    BY <1>1
  <2> HIDE DEF users
  <2>2. Max(users(t)) \in users(t)
    BY <1>1, <2>1, MaxChosen
  <2>3. 0..(NumNodes(g) - 1) \in SUBSET (0 .. kNodeNotAssigned)
    <3> DEFINE m == NumNodes(g) - 1
    <3>1. NumNodes(g) <= kNodeNotAssigned /\ NumNodes(g) \in Nat
      BY PersistentFacts, GraphFacts
    <3>2. m \in Nat /\ m <= kNodeNotAssigned /\ kNodeNotAssigned \in Nat
      BY <3>1, <1>1, NotAssignedAssumption
    <3> HIDE DEF m
    <3>3. 0..m \in SUBSET (0 .. kNodeNotAssigned)
      BY ONLY <3>2
    <3> QED BY <3>3 DEF m
  <2> QED BY <2>1, <2>2, <2>3
<1>3. ASSUME NEW N \in SUBSET Int, 0 .. kNodeNotAssigned \in SUBSET N,
             NEW nodes \in [AllTensors(g) -> N]
      PROVE  upToLastUser(nodes) \in [AllTensors(g) -> N]
  <2> HIDE DEF temporaries, users
  <2> QED BY <1>2, <1>3
<1>4. q = [p EXCEPT !.allocNode = allocNode, !.deallocNode = deallocNode, !.nodesToTensors = lists]
  BY DEF AddTemporaries
<1>5. lists \in [NodesOf(g) -> SUBSET AllTensors(g)]
  BY NodeFacts DEF PlannerOK
<1> HIDE DEF upToLastUser
<1>6. allocNode \in [AllTensors(g) -> 0 .. kNodeNotAssigned]
      /\ deallocNode \in [AllTensors(g) -> Int]
  <2>1. 0 .. kNodeNotAssigned \in SUBSET Int /\ Int \in SUBSET Int
    OBVIOUS
  <2> QED BY <1>3, <2>1 DEF PlannerOK
<1>7. \A i \in NodesOf(g) :
        /\ p.nodesToTensors[i] \in SUBSET lists[i]
        /\ i \in first .. last => Range(g.nodes[i].tmp) \in SUBSET lists[i]
  OBVIOUS
<1> HIDE DEF allocNode, deallocNode, lists
<1> QED BY <1>4, <1>5, <1>6, <1>7 DEF TemporariesAdded, PlannerOK, PlannerFields

-----------------------------------------------------------------------------
(* ExecuteAllocations. *)

CallFields == {"ok", "ts", "p", "listed", "moved"}

\* A call under way that began with the tensors ts and the planner p.
CallOK(g, ts, p, call) ==
  /\ DOMAIN call = CallFields
  /\ call.ok \in BOOLEAN
  /\ TensorsOK(g, call.ts) /\ SameShapes(ts, call.ts)
  /\ PlannerOK(g, call.p)
  /\ p.hasNonPersistent => call.p.hasNonPersistent
  /\ call.listed \in SUBSET AllTensors(g) /\ call.moved \in BOOLEAN

\* An Allocate of the loop, in one arena or the other.
LEMMA AllocateOwnKeeps ==
  ASSUME NEW g, NEW ts, NEW p, NEW call, CallOK(g, ts, p, call), NEW t \in AllTensors(g),
         AllTensors(g) \in SUBSET Int
  PROVE  CallOK(g, ts, p, AllocateOwn(call, t))
<1> DEFINE request(last) == Request(t, call.ts[t].bytes, call.p.allocNode[t], last)
           own == Allocate(call.p.arena, call.p.allocs[t], request(call.p.deallocNode[t]))
           persistent == Allocate(call.p.persistentArena, call.p.allocs[t],
                                  request(kNodeNotAssigned))
<1>1. /\ call.ts[t] \in Tensor /\ call.p.allocs[t] \in Block
      /\ call.p.allocNode[t] \in Int /\ call.p.deallocNode[t] \in Int
      /\ ArenaOK(call.p.arena) /\ ArenaOK(call.p.persistentArena)
  BY DEF CallOK, TensorsOK, PlannerOK
<1>2. \A last \in Int : request(last) \in Block
  <2>1. call.ts[t].bytes \in Size /\ 0 \in Size /\ t \in Int
    BY <1>1, SizeMaxAssumption DEF Tensor, Size
  <2> QED BY <1>1, <2>1 DEF Request, Block
<1> HIDE DEF request
<1>3. own.ok \in BOOLEAN /\ ArenaOK(own.arena) /\ own.alloc \in Block
  BY <1>1, <1>2, AllocateTyped
<1>4. persistent.ok \in BOOLEAN /\ ArenaOK(persistent.arena) /\ persistent.alloc \in Block
  BY <1>1, <1>2, AllocateTyped, NoAllocTyped
<1>5. AllocateOwn(call, t) \in {InArena(call, t, own), InPersistentArena(call, t, persistent), call}
  BY DEF AllocateOwn, request
<1> HIDE DEF own, persistent
<1>6. CallOK(g, ts, p, InArena(call, t, own))
  BY <1>3 DEF CallOK, CallFields, PlannerOK, PlannerFields, InArena
<1>7. CallOK(g, ts, p, InPersistentArena(call, t, persistent))
  BY <1>4 DEF CallOK, CallFields, PlannerOK, PlannerFields, InPersistentArena
<1> QED BY <1>5, <1>6, <1>7

\* One turn of the loop; a tensor that has its own buffer shares no more.
LEMMA AllocateTensorKeeps ==
  ASSUME NEW g, NEW ts, NEW p, NEW call, CallOK(g, ts, p, call), NEW t \in AllTensors(g),
         AllTensors(g) \in SUBSET Int
  PROVE  CallOK(g, ts, p, AllocateTensor(call, t))
<1> DEFINE actualId == Restrict(call.p.actualId, DOMAIN call.p.actualId \ {t})
           own == [call EXCEPT !.p.actualId = actualId]
<1>1. SharingOK(g, actualId)
  BY DEF CallOK, PlannerOK, SharingOK, Restrict
<1> HIDE DEF actualId
<1>2. CallOK(g, ts, p, own)
  BY <1>1 DEF CallOK, CallFields, PlannerOK, PlannerFields
<1>3. AllocateTensor(call, t) \in {call, AllocateOwn(own, t)}
  BY DEF AllocateTensor, actualId
<1> HIDE DEF own
<1> QED BY <1>2, <1>3, AllocateOwnKeeps

\* Argument: the graph, the tensors and the planner the call began with.
AllocateStep(a, call, entry) == AllocateTensor(call, entry[2])

AllocateGood(a, call, k) == CallOK(a[1], a[2], a[3], call)

Loop == INSTANCE FoldInvariant WITH Step <- AllocateStep, Good <- AllocateGood

\* R is an order of S; the elements of S it has before a.
Orders(R, S) ==
  /\ \A a \in S : <<a, a>> \notin R
  /\ \A a, b, c \in S : <<a, b>> \in R /\ <<b, c>> \in R => <<a, c>> \in R
  /\ \A a, b \in S : a # b => <<a, b>> \in R \/ <<b, a>> \in R

Preceding(R, S, a) == {b \in S : <<b, a>> \in R}

\* In a finite set that is ordered no two elements have the same place...
LEMMA PlacesDiffer ==
  ASSUME NEW S, IsFiniteSet(S), NEW R, Orders(R, S)
  PROVE  /\ \A a \in S : Cardinality(Preceding(R, S, a)) \in 0..(Cardinality(S) - 1)
         /\ \A a, b \in S :
              a # b => Cardinality(Preceding(R, S, a)) # Cardinality(Preceding(R, S, b))
<1> DEFINE before(a) == {b \in S : <<b, a>> \in R}
           n == Cardinality(S)
<1>0. /\ \A a \in S : <<a, a>> \notin R
      /\ \A a, b, c \in S : <<a, b>> \in R /\ <<b, c>> \in R => <<a, c>> \in R
      /\ \A a, b \in S : a # b => <<a, b>> \in R \/ <<b, a>> \in R
  BY DEF Orders
<1>1. n \in Nat
  BY FS_CardinalityType
<1>2. ASSUME NEW a \in S
      PROVE  IsFiniteSet(before(a)) /\ Cardinality(before(a)) \in 0..(n - 1)
  <2>1. before(a) \in SUBSET S /\ before(a) # S
    BY <1>0
  <2>2. IsFiniteSet(before(a)) /\ Cardinality(before(a)) <= n /\ Cardinality(before(a)) # n
    BY <2>1, FS_Subset
  <2>3. Cardinality(before(a)) \in Nat
    BY <2>2, FS_CardinalityType
  <2> QED BY <1>1, <2>2, <2>3
<1>3. ASSUME NEW a \in S, NEW b \in S, <<a, b>> \in R
      PROVE  Cardinality(before(a)) # Cardinality(before(b))
  <2>1. before(a) \in SUBSET before(b) /\ a \in before(b) /\ a \notin before(a)
    BY <1>0, <1>3
  <2>2. Cardinality(before(b)) # Cardinality(before(a))
    BY <1>2, <2>1, FS_Subset
  <2> QED BY <2>2
<1> DEFINE place(a) == Cardinality(before(a))
<1>4. ASSUME NEW a \in S, NEW b \in S, a # b PROVE place(a) # place(b)
  <2>1. <<a, b>> \in R \/ <<b, a>> \in R
    BY <1>0, <1>4
  <2>2. /\ <<a, b>> \in R => place(a) # place(b)
        /\ <<b, a>> \in R => place(b) # place(a)
    BY <1>3
  <2> HIDE DEF place
  <2> QED BY ONLY <2>1, <2>2
<1> QED BY <1>2, <1>4 DEF Preceding

\* ... and every place is taken.
LEMMA PlaceTaken ==
  ASSUME NEW S, IsFiniteSet(S), NEW R, Orders(R, S), NEW k \in 1..Cardinality(S)
  PROVE  \E a \in S : Cardinality(Preceding(R, S, a)) = k - 1
<1> DEFINE n == Cardinality(S)
           place == [a \in S |-> Cardinality(Preceding(R, S, a))]
<1>1. n \in Nat
  BY FS_CardinalityType
<1>2. place \in Injection(S, 0..(n - 1))
  <2>1. place \in [S -> 0..(n - 1)] /\ \A a, b \in S : a # b => place[a] # place[b]
    BY PlacesDiffer
  <2> HIDE DEF place
  <2> QED BY <2>1 DEF Injection, IsInjective
<1>3. IsFiniteSet(0..(n - 1)) /\ Cardinality(0..(n - 1)) = n
  <2> DEFINE m == n - 1
  <2>1. m \in Int /\ 0 \in Int /\ (IF 0 > m THEN 0 ELSE m - 0 + 1) = n
    BY <1>1
  <2> HIDE DEF m
  <2>2. IsFiniteSet(0..m) /\ Cardinality(0..m) = n
    BY <2>1, FS_Interval
  <2> QED BY <2>2 DEF m
<1> HIDE DEF place
<1>4. place \in Surjection(S, 0..(n - 1))
  BY <1>2, <1>3, FS_Injection
<1>5. k - 1 \in 0..(n - 1)
  BY <1>1
<1>6. PICK a \in S : place[a] = k - 1
  BY <1>4, <1>5 DEF Surjection
<1> QED BY <1>6 DEF place

\* The tensors of one call, by the node that lists them.
Listing(g, listed) == listed \in SUBSET (NodesOf(g) \X AllTensors(g))

\* The order of the vector is one: two tensors are never in the same place.
LEMMA BeforeOrders ==
  ASSUME NEW g \in Graphs, NEW ts, TensorsOK(g, ts), NEW p, PlannerOK(g, p),
         NEW listed, Listing(g, listed), NEW a \in listed, NEW b \in listed, NEW c \in listed
  PROVE  /\ ~ Before(ts, p, a, a)
         /\ Before(ts, p, a, b) /\ Before(ts, p, b, c) => Before(ts, p, a, c)
         /\ a # b => Before(ts, p, a, b) \/ Before(ts, p, b, a)
<1> DEFINE Known(e) == /\ e = <<e[1], e[2]>> /\ e[1] \in Int /\ e[2] \in Int
                       /\ ts[e[2]].bytes \in Int /\ p.allocNode[e[2]] \in Int
                       /\ WholeLife(p, e[2]) \in BOOLEAN
<1>1. ASSUME NEW e \in listed PROVE Known(e)
  <2>1. e = <<e[1], e[2]>> /\ e[1] \in NodesOf(g) /\ e[2] \in AllTensors(g)
    BY DEF Listing
  <2>2. e[1] \in Int /\ e[2] \in Int
    BY <2>1, GraphFacts
  <2>3. ts[e[2]].bytes \in Int
    BY <2>1, SizeMaxAssumption DEF TensorsOK, Tensor, Size
  <2>4. p.allocNode[e[2]] \in Int /\ WholeLife(p, e[2]) \in BOOLEAN
    BY <2>1 DEF PlannerOK, WholeLife
  <2> QED BY <2>1, <2>2, <2>3, <2>4
<1>2. Known(a) /\ Known(b) /\ Known(c)
  BY <1>1
<1> QED BY <1>2 DEF Before

\* The vector lists what there is to allocate, and nothing else.
LEMMA VectorLists ==
  ASSUME NEW g \in Graphs, NEW ts, TensorsOK(g, ts), NEW p, PlannerOK(g, p),
         NEW listed, Listing(g, listed)
  PROVE  /\ Cardinality(listed) \in Nat
         /\ DOMAIN CreateTensorAllocationVector(ts, p, listed) = 1..Cardinality(listed)
         /\ \A k \in 1..Cardinality(listed) :
              CreateTensorAllocationVector(ts, p, listed)[k] \in listed
         /\ \A entry \in listed : \E k \in 1..Cardinality(listed) :
              CreateTensorAllocationVector(ts, p, listed)[k] = entry
<1> DEFINE R == {e \in listed \X listed : Before(ts, p, e[1], e[2])}
<1>1. IsFiniteSet(listed)
  <2>1. IsFiniteSet(NodesOf(g)) /\ IsFiniteSet(AllTensors(g))
    BY GraphFacts, FS_Interval
  <2> QED BY <2>1, FS_Product, FS_Subset DEF Listing
<1>2. Cardinality(listed) \in Nat
  BY <1>1, FS_CardinalityType
<1>3. \A x, y \in listed : <<x, y>> \in R <=> Before(ts, p, x, y)
  OBVIOUS
<1>4. Orders(R, listed)
  <2> HIDE DEF R
  <2> QED BY <1>3, BeforeOrders DEF Orders
<1> HIDE DEF R
<1>5. ASSUME NEW k \in 1..Cardinality(listed)
      PROVE  \E a \in listed : Cardinality({b \in listed : Before(ts, p, b, a)}) = k - 1
  <2>1. PICK a \in listed : Cardinality(Preceding(R, listed, a)) = k - 1
    BY <1>1, <1>4, PlaceTaken
  <2>2. Preceding(R, listed, a) = {b \in listed : Before(ts, p, b, a)}
    BY <1>3 DEF Preceding
  <2>3. Cardinality({b \in listed : Before(ts, p, b, a)}) = k - 1
    BY <2>1, <2>2
  <2> QED BY <2>3
<1> DEFINE place(a) == Cardinality({b \in listed : Before(ts, p, b, a)})
           seq == CreateTensorAllocationVector(ts, p, listed)
<1>6. ASSUME NEW entry \in listed PROVE \E k \in 1..Cardinality(listed) : seq[k] = entry
  <2>1. \A a \in listed : Preceding(R, listed, a) = {b \in listed : Before(ts, p, b, a)}
    BY <1>3 DEF Preceding
  <2>2. /\ \A a \in listed : place(a) \in 0..(Cardinality(listed) - 1)
        /\ \A a, b \in listed : a # b => place(a) # place(b)
    <3>1. /\ \A a \in listed : Cardinality(Preceding(R, listed, a)) \in 0..(Cardinality(listed) - 1)
          /\ \A a, b \in listed :
               a # b => Cardinality(Preceding(R, listed, a)) # Cardinality(Preceding(R, listed, b))
      BY <1>1, <1>4, PlacesDiffer
    <3>2. \A a \in listed : Cardinality(Preceding(R, listed, a)) = place(a)
      BY <2>1
    <3> HIDE DEF place
    <3> QED BY <3>1, <3>2
  <2> DEFINE k == place(entry) + 1
  <2>3. k \in 1..Cardinality(listed) /\ place(entry) = k - 1
    BY <1>2, <2>2
  <2>4. seq = [i \in 1..Cardinality(listed) |-> CHOOSE a \in listed : place(a) = i - 1]
    BY DEF CreateTensorAllocationVector
  <2> HIDE DEF k, place, seq
  <2>5. (CHOOSE a \in listed : place(a) = k - 1) = entry
    BY <2>2, <2>3
  <2> QED BY <2>3, <2>4, <2>5
<1> QED BY <1>2, <1>5, <1>6 DEF CreateTensorAllocationVector

\* The allocation loop (ArenaPlanner::CalculateAllocations).
LEMMA CalculateAllocationsKeeps ==
  ASSUME NEW g \in Graphs, NEW ts, TensorsOK(g, ts), NEW p, PlannerOK(g, p),
         NEW first \in NodesOf(g), NEW last \in NodesOf(g),
         NEW r, r = CalculateAllocations(ts, p, first, last)
  PROVE  CallOK(g, ts, p, r) /\ (r.ok => r.p.lastActive = last)
<1> DEFINE listed == TensorsToAllocate(ts, p, first, last)
           tensorsListed == {entry[2] : entry \in listed}
           start == StartAllocations(p, first)
           base == [ok |-> TRUE, ts |-> ts, p |-> start, listed |-> tensorsListed, moved |-> FALSE]
           seq == CreateTensorAllocationVector(ts, p, listed)
           a == <<g, ts, p>>
           n == Cardinality(listed)
<1>1. first \in Int /\ last \in Int /\ AllTensors(g) \in SUBSET Int
      /\ first .. last \in SUBSET NodesOf(g) /\ SameShapes(ts, ts)
  BY GraphFacts DEF SameShapes
<1>2. Listing(g, listed)
  BY <1>1 DEF TensorsToAllocate, Listing, PlannerOK
<1>3. r = AllocateListed(ts, p, first, last, listed)
  BY DEF CalculateAllocations
<1> HIDE DEF listed
<1>4. CASE listed = {}
  <2> DEFINE q == [p EXCEPT !.lastActive = last]
  <2>1. r = [ok |-> TRUE, ts |-> ts, p |-> q, listed |-> {}, moved |-> FALSE]
    BY <1>3, <1>4 DEF AllocateListed
  <2>2. PlannerOK(g, q) /\ q.lastActive = last /\ q.hasNonPersistent = p.hasNonPersistent
    BY <1>1 DEF PlannerOK, PlannerFields
  <2> HIDE DEF q
  <2> QED BY <1>1, <2>1, <2>2 DEF CallOK, CallFields
<1>5. CASE listed # {}
  <2> DEFINE folded == Loop!Fold(a, base, seq)
  <2>1. tensorsListed \in SUBSET AllTensors(g)
    BY <1>2 DEF Listing
  <2>2. PlannerOK(g, start) /\ start.hasNonPersistent = p.hasNonPersistent
    <3>1. ArenaOK(ResetAllocs(p.arena)) /\ ArenaOK(PurgeActiveAllocs(p.arena, first))
      BY <1>1, ArenaOperationsTyped DEF PlannerOK
    <3> QED BY <1>1, <3>1 DEF PlannerOK, PlannerFields, StartAllocations
  <2> HIDE DEF tensorsListed, start
  <2>3. CallOK(g, ts, p, base)
    BY <1>1, <2>1, <2>2 DEF CallOK, CallFields
  <2>4. n \in Nat /\ DOMAIN seq = 1..n /\ \A k \in 1..n : seq[k] \in listed
    BY <1>2, VectorLists
  <2>5. \A k \in 1..n : seq[k][2] \in AllTensors(g)
    BY <1>2, <2>4 DEF Listing
  <2> HIDE DEF seq, base, n
  <2>6. \A k \in 1..n : \A c : AllocateGood(a, c, k - 1) => AllocateGood(a, AllocateStep(a, c, seq[k]), k)
    BY <1>1, <2>5, AllocateTensorKeeps DEF AllocateGood, AllocateStep
  <2>7. AllocateGood(a, base, 0)
    BY <2>3 DEF AllocateGood
  <2>8. AllocateGood(a, folded, n)
    <3> HIDE DEF a
    <3> QED BY <2>4, <2>6, <2>7, Loop!FoldKeeps
  <2>9. CallOK(g, ts, p, folded)
    BY <2>8 DEF AllocateGood
  <2>10. FoldLeft(LAMBDA call, entry : AllocateTensor(call, entry[2]), base, seq)
         = Loop!Fold(<<g, ts, p>>, base, seq)
    BY DEF AllocateStep, Loop!Fold, Loop!FoldLeft, Loop!MapThenFoldSet, Loop!Max,
           FoldLeft, MapThenFoldSet, Max
  <2>11. r = EndAllocations(FoldLeft(LAMBDA call, entry : AllocateTensor(call, entry[2]), base, seq), last)
    BY <1>3, <1>5 DEF AllocateListed, base, seq, tensorsListed, start
  <2>12. r = EndAllocations(folded, last)
    BY <2>10, <2>11
  <2> HIDE DEF folded
  <2>13. CASE folded.ok
    <3>1. r = [folded EXCEPT !.p.lastActive = last]
      BY <2>12, <2>13 DEF EndAllocations
    <3> QED BY <1>1, <2>9, <3>1 DEF CallOK, CallFields, PlannerOK, PlannerFields
  <2>14. CASE ~ folded.ok
    BY <2>9, <2>12, <2>14 DEF EndAllocations
  <2> QED BY <2>13, <2>14
<1> QED BY <1>4, <1>5

LEMMA BufferMovedKeeps ==
  ASSUME NEW g, NEW ts, NEW q, TensorsOK(g, q), SameShapes(ts, q), DOMAIN ts = DOMAIN q, NEW arena
  PROVE  TensorsOK(g, BufferMoved(q, arena)) /\ SameShapes(ts, BufferMoved(q, arena))
<1> DEFINE b == BufferMoved(q, arena)
<1>1. IsAFcn(b) /\ DOMAIN b = DOMAIN q
      /\ \A t \in DOMAIN q : b[t] = q[t] \/ b[t] = [q[t] EXCEPT !.data = Dangling]
  BY DEF BufferMoved, WithData, TensorsOf, IsAFcn
<1> HIDE DEF b
<1>2. TensorsOK(g, b) /\ SameShapes(q, b)
  BY <1>1, PointersTyped, DataAssigned
<1> QED BY <1>2 DEF SameShapes, b

\* Committing an arena moves its buffer when it grows, and may fail then.
LEMMA CommitsKeep ==
  ASSUME NEW g, NEW ts, DOMAIN ts = AllTensors(g), NEW p, NEW call, CallOK(g, ts, p, call),
         NEW mallocOk \in BOOLEAN, NEW c, NEW d,
         c = CommitArena(call, mallocOk), d = CommitPersistentArena(call, mallocOk)
  PROVE  /\ CallOK(g, ts, p, c) /\ c.p.lastActive = call.p.lastActive
         /\ c.ok => call.ok /\ c.p.hasNonPersistent
         /\ CallOK(g, ts, p, d) /\ d.p.lastActive = call.p.lastActive
         /\ d.ok => call.ok /\ d.p.hasNonPersistent = call.p.hasNonPersistent
<1>1. ArenaOK(call.p.arena) /\ ArenaOK(call.p.persistentArena) /\ PlannerOK(g, call.p)
      /\ TensorsOK(g, call.ts) /\ SameShapes(ts, call.ts) /\ DOMAIN ts = DOMAIN call.ts
  BY DEF CallOK, PlannerOK, TensorsOK
<1>2. \A ok \in BOOLEAN :
        ArenaOK(Commit(call.p.arena, ok)) /\ ArenaOK(Commit(call.p.persistentArena, ok))
  <2>1. 0 \in Int
    OBVIOUS
  <2> QED BY <1>1, <2>1, ArenaOperationsTyped
<1>3. \A arena : TensorsOK(g, BufferMoved(call.ts, arena)) /\ SameShapes(ts, BufferMoved(call.ts, arena))
  BY <1>1, BufferMovedKeeps
<1>4. Reallocates(call.p.arena) \in BOOLEAN /\ Reallocates(call.p.persistentArena) \in BOOLEAN
  BY DEF Reallocates
<1>5. CallOK(g, ts, p, c) /\ c.p.lastActive = call.p.lastActive
      /\ (c.ok => call.ok /\ c.p.hasNonPersistent)
  <2>1. CASE ~ call.ok
    BY <2>1 DEF CommitArena, CallOK
  <2>2. CASE call.ok /\ Reallocates(call.p.arena) /\ ~mallocOk
    <3>1. c = [call EXCEPT !.ok = FALSE, !.p.arena = Commit(call.p.arena, FALSE)]
      BY <2>2 DEF CommitArena
    <3> QED BY <1>2, <3>1, ZenonT(40) DEF CallOK, CallFields, PlannerOK, PlannerFields
  <2>3. CASE call.ok /\ ~(Reallocates(call.p.arena) /\ ~mallocOk)
    <3> DEFINE moved == IF Reallocates(call.p.arena) THEN BufferMoved(call.ts, "rw") ELSE call.ts
    <3>1. c = [call EXCEPT !.ts = moved, !.p.arena = Commit(call.p.arena, TRUE),
                           !.p.hasNonPersistent = TRUE, !.moved = Reallocates(call.p.arena)]
      BY <2>3 DEF CommitArena
    <3>2. TensorsOK(g, moved) /\ SameShapes(ts, moved)
      BY <1>1, <1>3
    <3> DEFINE q == [call.p EXCEPT !.arena = Commit(call.p.arena, TRUE), !.hasNonPersistent = TRUE]
    <3>3. PlannerOK(g, q) /\ q.hasNonPersistent /\ q.lastActive = call.p.lastActive
      BY <1>1, <1>2 DEF PlannerOK, PlannerFields
    <3> HIDE DEF moved
    <3>4. DOMAIN call = CallFields
      BY DEF CallOK
    <3>5. /\ c.p = q /\ c.ts = moved /\ c.ok = call.ok /\ c.listed = call.listed
          /\ c.moved = Reallocates(call.p.arena) /\ DOMAIN c = CallFields
      BY <1>1, <3>1, <3>4 DEF CallFields, PlannerOK, PlannerFields
    <3> HIDE DEF q
    <3> QED BY <1>4, <2>3, <3>2, <3>3, <3>5 DEF CallOK
  <2> QED BY <2>1, <2>2, <2>3
<1>6. CallOK(g, ts, p, d) /\ d.p.lastActive = call.p.lastActive
      /\ (d.ok => call.ok /\ d.p.hasNonPersistent = call.p.hasNonPersistent)
  <2>1. CASE ~ call.ok
    BY <2>1 DEF CommitPersistentArena, CallOK
  <2>2. CASE call.ok /\ Reallocates(call.p.persistentArena) /\ ~mallocOk
    <3>1. d = [call EXCEPT !.ok = FALSE, !.p.persistentArena = Commit(call.p.persistentArena, FALSE)]
      BY <2>2 DEF CommitPersistentArena
    <3> QED BY <1>2, <3>1, ZenonT(40) DEF CallOK, CallFields, PlannerOK, PlannerFields
  <2>3. CASE call.ok /\ ~(Reallocates(call.p.persistentArena) /\ ~mallocOk)
    <3> DEFINE moved == IF Reallocates(call.p.persistentArena)
                        THEN BufferMoved(call.ts, "persistent") ELSE call.ts
               either == call.moved \/ Reallocates(call.p.persistentArena)
    <3>1. d = [call EXCEPT !.ts = moved, !.p.persistentArena = Commit(call.p.persistentArena, TRUE),
                           !.moved = either]
      BY <2>3 DEF CommitPersistentArena
    <3>2. TensorsOK(g, moved) /\ SameShapes(ts, moved)
      BY <1>1, <1>3
    <3>3. either \in BOOLEAN
      OBVIOUS
    <3> DEFINE q == [call.p EXCEPT !.persistentArena = Commit(call.p.persistentArena, TRUE)]
    <3>4. /\ PlannerOK(g, q) /\ q.hasNonPersistent = call.p.hasNonPersistent
          /\ q.lastActive = call.p.lastActive
      BY <1>1, <1>2 DEF PlannerOK, PlannerFields
    <3> HIDE DEF moved, either
    <3>5. DOMAIN call = CallFields
      BY DEF CallOK
    <3>6. /\ d.p = q /\ d.ts = moved /\ d.ok = call.ok /\ d.listed = call.listed
          /\ d.moved = either /\ DOMAIN d = CallFields
      BY <1>1, <3>1, <3>5 DEF CallFields, PlannerOK, PlannerFields
    <3> HIDE DEF q
    <3> QED BY <2>3, <3>2, <3>3, <3>4, <3>6 DEF CallOK
  <2> QED BY <2>1, <2>2, <2>3
<1> QED BY <1>5, <1>6

\* Resolving assigns addresses.
LEMMA ResolveAllocationsKeeps ==
  ASSUME NEW g, NEW ts, DOMAIN ts = AllTensors(g), NEW p, NEW call, CallOK(g, ts, p, call),
         NEW r, r = ResolveAllocations(call)
  PROVE  CallOK(g, ts, p, r) /\ r.p = call.p /\ (r.ok => call.ok)
<1> DEFINE S == TensorsToResolve(call)
           q == ResolveTensors(call.ts, call.p, S)
<1>1. PlannerOK(g, call.p) /\ TensorsOK(g, call.ts) /\ SameShapes(ts, call.ts)
      /\ DOMAIN call.ts = AllTensors(g) /\ call.listed \in SUBSET AllTensors(g)
  BY DEF CallOK, TensorsOK
<1>2. S \in SUBSET AllTensors(g)
  BY <1>1 DEF TensorsToResolve, TensorsOf
<1> HIDE DEF S
<1>3. \A t \in AllTensors(g) : OwnPointer(call.ts, call.p, t) \in Data
  <2> TAKE t \in AllTensors(g)
  <2>1. call.p.allocs[t].offset \in Size /\ call.ts[t].data \in Data
    BY <1>1 DEF PlannerOK, Block, TensorsOK, Tensor
  <2>2. Null \in Data /\ Pointer("rw", call.p.allocs[t].offset) \in Data
        /\ Pointer("persistent", call.p.allocs[t].offset) \in Data
    BY <2>1, PointersTyped
  <2>3. OwnPointer(call.ts, call.p, t) \in
          {Null, Pointer("rw", call.p.allocs[t].offset),
           Pointer("persistent", call.p.allocs[t].offset), call.ts[t].data}
    BY DEF OwnPointer
  <2> QED BY <2>1, <2>2, <2>3
<1>4. TensorsOK(g, q) /\ SameShapes(call.ts, q)
  <2> DEFINE roots == {call.p.actualId[t] : t \in {u \in S : SharesPointer(call.ts, call.p, u)}}
             buffer(t) == IF t \in S /\ SharesPointer(call.ts, call.p, t) THEN call.p.actualId[t] ELSE t
  <2>1. q = [t \in DOMAIN call.ts |->
               IF t \in S \union roots
               THEN [call.ts[t] EXCEPT !.data = OwnPointer(call.ts, call.p, buffer(t))]
               ELSE call.ts[t]]
    BY DEF ResolveTensors, WithData, TensorsOf
  <2>2. \A t \in AllTensors(g) : buffer(t) \in AllTensors(g)
    BY <1>1 DEF SharesPointer, PlannerOK, SharingOK
  <2> HIDE DEF roots, buffer, q
  <2>3. \A t \in DOMAIN call.ts : q[t] = call.ts[t] \/ \E d \in Data : q[t] = [call.ts[t] EXCEPT !.data = d]
    BY <1>1, <1>3, <2>1, <2>2
  <2>4. IsAFcn(q) /\ DOMAIN q = DOMAIN call.ts
    BY <2>1 DEF IsAFcn
  <2> QED BY <1>1, <2>3, <2>4, DataAssigned
<1>5. SameShapes(ts, q)
  BY <1>1, <1>4 DEF SameShapes
<1>6. r \in {call, [call EXCEPT !.ok = FALSE]} \/ (call.ok /\ r = [call EXCEPT !.ts = q])
  BY DEF ResolveAllocations, S
<1> HIDE DEF q
<1> QED BY <1>4, <1>5, <1>6 DEF CallOK, CallFields

\* What a call to the planner for the nodes up to the last leaves
\* (ArenaPlanner::ExecuteAllocations): sizes and types as they were, and the
\* arena if it succeeds.
Executed(g, ts, p, last, r) ==
  /\ r.ok \in BOOLEAN
  /\ TensorsOK(g, r.ts) /\ SameShapes(ts, r.ts) /\ PlannerOK(g, r.p)
  /\ p.hasNonPersistent => r.p.hasNonPersistent
  /\ r.ok => r.p.hasNonPersistent /\ r.p.lastActive = last

LEMMA ExecuteAllocationsKeeps ==
  ASSUME NEW g \in Graphs, NEW ts, TensorsOK(g, ts), NEW p, PlannerOK(g, p),
         NEW first \in NodesOf(g), NEW last, last \in NodesOf(g),
         NEW mallocOk \in BOOLEAN, NEW persistentMallocOk \in BOOLEAN,
         NEW r, r = ExecuteAllocations(g, ts, p, first, last, mallocOk, persistentMallocOk)
  PROVE  Executed(g, ts, p, last, r)
<1> DEFINE q == AddTemporaries(g, p, first, last)
           c1 == CalculateAllocations(ts, q, first, last)
           c2 == CommitArena(c1, mallocOk)
           c3 == CommitPersistentArena(c2, persistentMallocOk)
<1>1. PlannerOK(g, q) /\ q.hasNonPersistent = p.hasNonPersistent
  BY AddTemporariesKeeps DEF TemporariesAdded
<1>2. DOMAIN ts = AllTensors(g)
  BY DEF TensorsOK
<1>3. r = ResolveAllocations(c3)
  BY DEF ExecuteAllocations
<1> HIDE DEF q
<1>4. CallOK(g, ts, q, c1) /\ (c1.ok => c1.p.lastActive = last)
  BY <1>1, CalculateAllocationsKeeps
<1> HIDE DEF c1
<1>5. CallOK(g, ts, q, c2) /\ c2.p.lastActive = c1.p.lastActive
      /\ (c2.ok => c1.ok /\ c2.p.hasNonPersistent)
  BY <1>2, <1>4, CommitsKeep
<1> HIDE DEF c2
<1>6. CallOK(g, ts, q, c3) /\ c3.p.lastActive = c2.p.lastActive
      /\ (c3.ok => c2.ok /\ c3.p.hasNonPersistent = c2.p.hasNonPersistent)
  BY <1>2, <1>5, CommitsKeep
<1> HIDE DEF c3
<1>7. CallOK(g, ts, q, r) /\ r.p = c3.p /\ (r.ok => c3.ok)
  BY <1>2, <1>3, <1>6, ResolveAllocationsKeeps
<1> QED BY <1>1, <1>4, <1>5, <1>6, <1>7 DEF CallOK, Executed

-----------------------------------------------------------------------------
(* The persistent arena: blocks in it do not move while a plan is used.    *)

\* The persistent tensors that have a block have it for the whole graph, and
\* apart from each other.
PersistentApart(g, p) ==
  /\ \A t \in Persistent(g) :
       p.allocs[t].size > 0 => /\ p.allocs[t] \in p.persistentArena.active
                               /\ p.allocs[t].size = g.tensors[t].bytes
                               /\ p.allocs[t].last = kNodeNotAssigned
                               /\ p.allocs[t].first <= kNodeNotAssigned
  /\ \A t, u \in Persistent(g) :
       t # u /\ p.allocs[t].size > 0 /\ p.allocs[u].size > 0 => Disjoint(p.allocs[t], p.allocs[u])

\* From p to q no persistent tensor loses its block.
BlocksKept(g, p, q) == \A t \in Persistent(g) : p.allocs[t].size > 0 => q.allocs[t] = p.allocs[t]

\* Nothing happens to the blocks of persistent tensors.
BlocksAlone(g, p, q) ==
  /\ q.persistentArena.active = p.persistentArena.active
  /\ \A t \in Persistent(g) : q.allocs[t] = p.allocs[t]

LEMMA ApartAlone ==
  ASSUME NEW g, NEW p, NEW q, BlocksAlone(g, p, q), PersistentApart(g, p)
  PROVE  PersistentApart(g, q) /\ BlocksKept(g, p, q)
BY DEF BlocksAlone, PersistentApart, BlocksKept

\* A new block: it meets every other one in time, so that it is put apart.
LEMMA ApartExtends ==
  ASSUME NEW g, NEW p, PlannerOK(g, p), PersistentApart(g, p),
         NEW t \in Persistent(g), p.allocs[t].size = 0,
         NEW req \in Block, req.size = g.tensors[t].bytes, req.size > 0,
         req.first <= kNodeNotAssigned, req.last = kNodeNotAssigned,
         NEW r, r = Allocate(p.persistentArena, p.allocs[t], req), r.ok,
         NEW q, q.persistentArena = r.arena, q.allocs[t] = r.alloc,
         \A u \in AllTensors(g) : u # t => q.allocs[u] = p.allocs[u]
  PROVE  PersistentApart(g, q) /\ BlocksKept(g, p, q) /\ q.allocs[t].size > 0
<1>1. /\ r.alloc.size = req.size /\ r.alloc.first = req.first /\ r.alloc.last = req.last
      /\ r.arena.active = p.persistentArena.active \union {r.alloc}
      /\ \A a \in p.persistentArena.active : Intersects(a, req) => Disjoint(a, r.alloc)
  BY AllocateApart DEF PlannerOK
<1>2. DOMAIN p.allocs = AllTensors(g) /\ Persistent(g) \in SUBSET AllTensors(g)
  BY DEF PlannerOK, Persistent
<1>3. q.allocs[t] = r.alloc /\ \A u \in Persistent(g) : u # t => q.allocs[u] = p.allocs[u]
  BY <1>2
<1>4. ASSUME NEW u \in Persistent(g), u # t, p.allocs[u].size > 0
      PROVE  Disjoint(p.allocs[u], r.alloc) /\ Disjoint(r.alloc, p.allocs[u])
  <2>1. p.allocs[u] \in p.persistentArena.active /\ p.allocs[u].last = kNodeNotAssigned
        /\ p.allocs[u].first <= kNodeNotAssigned
    BY <1>4 DEF PersistentApart
  <2>2. Intersects(p.allocs[u], req)
    <3>1. p.allocs[u].first \in Int /\ req.first \in Int
      BY <1>2 DEF PlannerOK, Block
    <3> QED BY <2>1, <3>1, NoAllocTyped DEF Intersects
  <2> QED BY <1>1, <2>1, <2>2 DEF Disjoint
<1>5. ASSUME NEW u \in Persistent(g), q.allocs[u].size > 0
      PROVE  /\ q.allocs[u] \in q.persistentArena.active /\ q.allocs[u].size = g.tensors[u].bytes
             /\ q.allocs[u].last = kNodeNotAssigned /\ q.allocs[u].first <= kNodeNotAssigned
  <2>1. CASE u = t
    BY <1>1, <1>3, <2>1
  <2>2. CASE u # t
    <3>1. p.allocs[u] \in p.persistentArena.active /\ p.allocs[u].size = g.tensors[u].bytes
          /\ p.allocs[u].last = kNodeNotAssigned /\ p.allocs[u].first <= kNodeNotAssigned
      BY <1>3, <1>5, <2>2 DEF PersistentApart
    <3> QED BY <1>1, <1>3, <2>2, <3>1
  <2> QED BY <2>1, <2>2
<1>6. ASSUME NEW u \in Persistent(g), NEW v \in Persistent(g), u # v,
             q.allocs[u].size > 0, q.allocs[v].size > 0
      PROVE  Disjoint(q.allocs[u], q.allocs[v])
  <2>1. CASE u = t
    BY <1>3, <1>4, <1>6, <2>1
  <2>2. CASE v = t
    BY <1>3, <1>4, <1>6, <2>2
  <2>3. CASE u # t /\ v # t
    BY <1>3, <1>6, <2>3 DEF PersistentApart
  <2> QED BY <2>1, <2>2, <2>3
<1>7. BlocksKept(g, p, q) /\ q.allocs[t].size > 0
  BY <1>1, <1>3 DEF BlocksKept
<1> QED BY <1>5, <1>6, <1>7 DEF PersistentApart

\* What a turn of the loop for t does to the blocks.
BlockGiven(g, t, call, r) ==
  /\ r.ts = call.ts /\ r.listed = call.listed /\ r.moved = call.moved
  /\ r.p.nodesToTensors = call.p.nodesToTensors
  /\ r.ok => /\ PersistentApart(g, r.p) /\ BlocksKept(g, call.p, r.p)
             /\ t \in Persistent(g) => r.p.allocs[t].size > 0

LEMMA AllocateOwnBlocks ==
  ASSUME NEW g \in Graphs, NEW ts, NEW p, NEW call, CallOK(g, ts, p, call),
         PersistentKept(g, call.ts), PersistentApart(g, call.p), NEW t \in AllTensors(g)
  PROVE  BlockGiven(g, t, call, AllocateOwn(call, t))
<1> DEFINE request(last) == Request(t, call.ts[t].bytes, call.p.allocNode[t], last)
           own == Allocate(call.p.arena, call.p.allocs[t], request(call.p.deallocNode[t]))
           persistent == Allocate(call.p.persistentArena, call.p.allocs[t],
                                  request(kNodeNotAssigned))
           r == AllocateOwn(call, t)
<1>1. /\ DOMAIN call = CallFields /\ PlannerOK(g, call.p) /\ DOMAIN call.p = PlannerFields
      /\ call.p.allocs \in [AllTensors(g) -> Block]
      /\ call.p.allocNode[t] \in 0 .. kNodeNotAssigned
      /\ call.ts[t].bytes \in Size
  BY DEF CallOK, PlannerOK, TensorsOK, Tensor
<1>2. t \in Persistent(g) => call.ts[t].type = "persistent" /\ call.ts[t].bytes = g.tensors[t].bytes
                             /\ call.ts[t].bytes > 0
  BY PersistentFacts DEF PersistentKept
<1>3. t \notin Persistent(g) => call.ts[t].type # "persistent"
  BY DEF PersistentKept, Elsewhere
<1>4. request(kNodeNotAssigned) \in Block
  <2>1. t \in Int /\ 0 \in Size /\ call.p.allocNode[t] \in Int
    BY <1>1, GraphFacts, SizeMaxAssumption DEF Size
  <2> QED BY <1>1, <2>1, NoAllocTyped DEF Request, Block
<1>5. /\ request(kNodeNotAssigned).size = call.ts[t].bytes
      /\ request(kNodeNotAssigned).first = call.p.allocNode[t]
      /\ request(kNodeNotAssigned).last = kNodeNotAssigned
  BY DEF Request
<1>6. \/ t \notin Persistent(g) /\ r = InArena(call, t, own)
      \/ t \in Persistent(g) /\ call.p.allocs[t].size = 0 /\ r = InPersistentArena(call, t, persistent)
      \/ (t \in Persistent(g) => call.p.allocs[t].size # 0) /\ r = call
  BY <1>2, <1>3 DEF AllocateOwn
<1>7. CASE t \notin Persistent(g) /\ r = InArena(call, t, own)
  <2> HIDE DEF r, own
  <2>1. /\ r.ts = call.ts /\ r.listed = call.listed /\ r.moved = call.moved
        /\ r.p.nodesToTensors = call.p.nodesToTensors
        /\ r.p.persistentArena = call.p.persistentArena
        /\ r.p.allocs = [call.p.allocs EXCEPT ![t] = own.alloc]
    BY <1>1, <1>7 DEF InArena, CallFields, PlannerFields
  <2>2. BlocksAlone(g, call.p, r.p)
    BY <1>1, <1>7, <2>1 DEF BlocksAlone, Persistent
  <2>3. PersistentApart(g, r.p) /\ BlocksKept(g, call.p, r.p)
    BY <2>2, ApartAlone
  <2>4. BlockGiven(g, t, call, r)
    BY <1>7, <2>1, <2>3 DEF BlockGiven
  <2> QED BY <2>4 DEF r
<1>8. CASE t \in Persistent(g) /\ call.p.allocs[t].size = 0
           /\ r = InPersistentArena(call, t, persistent)
  <2> HIDE DEF r, persistent
  <2>1. /\ r.ts = call.ts /\ r.listed = call.listed /\ r.moved = call.moved
        /\ r.ok = persistent.ok
        /\ r.p.nodesToTensors = call.p.nodesToTensors
        /\ r.p.persistentArena = persistent.arena
        /\ r.p.allocs[t] = persistent.alloc
        /\ \A u \in AllTensors(g) : u # t => r.p.allocs[u] = call.p.allocs[u]
    BY <1>1, <1>8 DEF InPersistentArena, CallFields, PlannerFields
  <2>2. ASSUME r.ok
        PROVE  PersistentApart(g, r.p) /\ BlocksKept(g, call.p, r.p) /\ r.p.allocs[t].size > 0
    <3> DEFINE req == request(kNodeNotAssigned)
    <3>1. req \in Block /\ req.size = g.tensors[t].bytes /\ req.size > 0
          /\ req.first <= kNodeNotAssigned /\ req.last = kNodeNotAssigned
      BY <1>1, <1>2, <1>4, <1>5, <1>8
    <3>2. persistent = Allocate(call.p.persistentArena, call.p.allocs[t], req)
      BY DEF persistent
    <3> HIDE DEF req
    <3>3. persistent.ok
      BY <2>1, <2>2
    <3> DEFINE q == r.p
    <3>4. /\ q.persistentArena = persistent.arena /\ q.allocs[t] = persistent.alloc
          /\ \A u \in AllTensors(g) : u # t => q.allocs[u] = call.p.allocs[u]
          /\ PlannerOK(g, call.p) /\ t \in Persistent(g) /\ call.p.allocs[t].size = 0
      BY <1>1, <1>8, <2>1
    <3> HIDE DEF q
    <3>5. PersistentApart(g, q) /\ BlocksKept(g, call.p, q) /\ q.allocs[t].size > 0
      BY <3>1, <3>2, <3>3, <3>4, ApartExtends
    <3> QED BY <3>5 DEF q
  <2>3. BlockGiven(g, t, call, r)
    BY <2>1, <2>2 DEF BlockGiven
  <2> QED BY <2>3 DEF r
<1>9. CASE (t \in Persistent(g) => call.p.allocs[t].size # 0) /\ r = call
  <2> HIDE DEF r
  <2>1. t \in Persistent(g) => call.p.allocs[t].size > 0
    <3>1. call.p.allocs[t].size \in Nat
      BY <1>1, SizeMaxAssumption DEF Block, Size
    <3> QED BY <1>9, <3>1
  <2>2. BlockGiven(g, t, call, r)
    BY <1>9, <2>1 DEF BlockGiven, BlocksKept
  <2> QED BY <2>2 DEF r
<1> HIDE DEF r, own, persistent, request
<1> QED BY <1>6, <1>7, <1>8, <1>9

LEMMA AllocateTensorBlocks ==
  ASSUME NEW g \in Graphs, NEW ts, NEW p, NEW call, CallOK(g, ts, p, call), call.ok,
         PersistentKept(g, call.ts), PersistentApart(g, call.p), NEW t \in AllTensors(g)
  PROVE  BlockGiven(g, t, call, AllocateTensor(call, t))
<1> DEFINE actualId == Restrict(call.p.actualId, DOMAIN call.p.actualId \ {t})
           own == [call EXCEPT !.p.actualId = actualId]
           r == AllocateTensor(call, t)
<1>0. /\ DOMAIN call = CallFields /\ PlannerOK(g, call.p) /\ DOMAIN call.p = PlannerFields
      /\ SharingOK(g, call.p.actualId)
  BY DEF CallOK, PlannerOK
<1>1. SharingOK(g, actualId)
  BY <1>0 DEF SharingOK, Restrict
<1> HIDE DEF actualId
<1>2. CallOK(g, ts, p, own)
  BY <1>1 DEF CallOK, CallFields, PlannerOK, PlannerFields
<1>3. /\ own.ts = call.ts /\ own.listed = call.listed /\ own.moved = call.moved /\ own.ok = call.ok
      /\ own.p.nodesToTensors = call.p.nodesToTensors /\ own.p.allocs = call.p.allocs
      /\ own.p.persistentArena = call.p.persistentArena
  BY <1>0 DEF CallFields, PlannerFields
<1>4. \/ t \notin Persistent(g) /\ r = call
      \/ r = AllocateOwn(own, t)
  BY <1>0 DEF AllocateTensor, StillShared, SharingOK, actualId
<1> HIDE DEF own
<1>5. PersistentKept(g, own.ts) /\ PersistentApart(g, own.p)
  BY <1>3, ApartAlone DEF BlocksAlone
<1>6. BlockGiven(g, t, own, AllocateOwn(own, t))
  BY <1>2, <1>5, AllocateOwnBlocks
<1>7. CASE t \notin Persistent(g) /\ r = call
  <2> HIDE DEF r
  <2>1. BlockGiven(g, t, call, r)
    BY <1>7 DEF BlockGiven, BlocksKept
  <2> QED BY <2>1 DEF r
<1>8. CASE r = AllocateOwn(own, t)
  <2> HIDE DEF r
  <2>1. BlockGiven(g, t, own, r)
    BY <1>6, <1>8
  <2>2. BlockGiven(g, t, call, r)
    BY ONLY <1>3, <2>1 DEF BlockGiven, BlocksKept
  <2> QED BY <2>2 DEF r
<1> HIDE DEF r
<1> QED BY <1>4, <1>7, <1>8

\* A call under way: the persistent tensors among its first k entries have blocks.
GivenUpTo(g, ts, p, seq, listed, call, k) ==
  /\ CallOK(g, ts, p, call)
  /\ call.ts = ts /\ call.listed = listed /\ call.moved = FALSE
  /\ call.p.nodesToTensors = p.nodesToTensors
  /\ call.ok => /\ PersistentApart(g, call.p) /\ BlocksKept(g, p, call.p)
                /\ \A j \in 1..k : seq[j][2] \in Persistent(g) => call.p.allocs[seq[j][2]].size > 0

LEMMA GivenStep ==
  ASSUME NEW g \in Graphs, NEW ts, PersistentKept(g, ts), NEW p, NEW seq, NEW listed,
         NEW k, k \in Nat, k >= 1, seq[k][2] \in AllTensors(g),
         NEW call, GivenUpTo(g, ts, p, seq, listed, call, k - 1)
  PROVE  GivenUpTo(g, ts, p, seq, listed, AllocateTensor(call, seq[k][2]), k)
<1> DEFINE t == seq[k][2]
           r == AllocateTensor(call, t)
<1>1. /\ CallOK(g, ts, p, call)
      /\ call.ts = ts /\ call.listed = listed /\ call.moved = FALSE
      /\ call.p.nodesToTensors = p.nodesToTensors
      /\ call.ok => /\ PersistentApart(g, call.p) /\ BlocksKept(g, p, call.p)
                    /\ \A j \in 1..k - 1 : seq[j][2] \in Persistent(g) =>
                                             call.p.allocs[seq[j][2]].size > 0
  BY DEF GivenUpTo
<1>2. CallOK(g, ts, p, r)
  BY <1>1, GraphFacts, AllocateTensorKeeps
<1>3. CASE ~ call.ok
  <2>1. r = call
    BY <1>3 DEF AllocateTensor
  <2> HIDE DEF r
  <2>2. GivenUpTo(g, ts, p, seq, listed, r, k)
    BY <1>1, <1>3, <2>1 DEF GivenUpTo
  <2> QED BY <2>2 DEF r
<1>4. CASE call.ok
  <2>1. BlockGiven(g, t, call, r)
    BY <1>1, <1>4, AllocateTensorBlocks
  <2> HIDE DEF r
  <2>2. ASSUME r.ok, NEW j \in 1..k, seq[j][2] \in Persistent(g)
        PROVE  r.p.allocs[seq[j][2]].size > 0
    <3>1. CASE j = k
      BY <2>1, <2>2, <3>1 DEF BlockGiven
    <3>2. CASE j # k
      <4>1. j \in 1..k - 1
        BY <3>2
      <4>2. call.p.allocs[seq[j][2]].size > 0
        BY <1>1, <1>4, <2>2, <4>1
      <4> QED BY <2>1, <2>2, <4>2 DEF BlockGiven, BlocksKept
    <3> QED BY <3>1, <3>2
  <2>3. r.ok => PersistentApart(g, r.p) /\ BlocksKept(g, p, r.p)
    BY <1>1, <1>4, <2>1 DEF BlockGiven, BlocksKept
  <2>4. GivenUpTo(g, ts, p, seq, listed, r, k)
    BY <1>1, <1>2, <2>1, <2>2, <2>3 DEF GivenUpTo, BlockGiven
  <2> QED BY <2>4 DEF r
<1> QED BY <1>3, <1>4

\* Argument: the graph, the tensors and the planner, the entries, their tensors.
GivenGood(a, call, k) == GivenUpTo(a[1], a[2], a[3], a[4], a[5], call, k)

Blocks == INSTANCE FoldInvariant WITH Step <- AllocateStep, Good <- GivenGood

\* What the whole loop does to the blocks.
BlocksGiven(g, ts, p, first, last, r) ==
  /\ CallOK(g, ts, p, r)
  /\ r.ts = ts /\ r.moved = FALSE /\ r.p.nodesToTensors = p.nodesToTensors
  /\ r.ok => /\ PersistentApart(g, r.p) /\ BlocksKept(g, p, r.p)
             /\ \A i \in first .. last : \A t \in p.nodesToTensors[i] :
                  t \in Persistent(g) => t \in r.listed /\ r.p.allocs[t].size > 0

LEMMA CalculateAllocationsBlocks ==
  ASSUME NEW g \in Graphs, NEW ts, TensorsOK(g, ts), PersistentKept(g, ts),
         NEW p, PlannerOK(g, p), PersistentApart(g, p),
         NEW first \in NodesOf(g), NEW last \in NodesOf(g),
         NEW r, r = CalculateAllocations(ts, p, first, last)
  PROVE  BlocksGiven(g, ts, p, first, last, r)
<1> DEFINE listed == TensorsToAllocate(ts, p, first, last)
           tensorsListed == {entry[2] : entry \in listed}
           start == StartAllocations(p, first)
           base == [ok |-> TRUE, ts |-> ts, p |-> start, listed |-> tensorsListed, moved |-> FALSE]
           seq == CreateTensorAllocationVector(ts, p, listed)
           a == <<g, ts, p, seq, tensorsListed>>
           n == Cardinality(listed)
<1>1. first \in Int /\ last \in Int /\ AllTensors(g) \in SUBSET Int
      /\ first .. last \in SUBSET NodesOf(g) /\ SameShapes(ts, ts)
  BY GraphFacts DEF SameShapes
<1>2. Listing(g, listed)
  BY <1>1 DEF TensorsToAllocate, Listing, PlannerOK
<1>3. r = AllocateListed(ts, p, first, last, listed)
  BY DEF CalculateAllocations
<1>4. CallOK(g, ts, p, r)
  BY CalculateAllocationsKeeps
<1>5. ASSUME NEW i \in first .. last, NEW t \in p.nodesToTensors[i], t \in Persistent(g)
      PROVE  <<i, t>> \in listed
  BY <1>5 DEF TensorsToAllocate, PersistentKept, Persistent
<1> HIDE DEF listed
<1>6. CASE listed = {}
  <2> DEFINE q == [p EXCEPT !.lastActive = last]
  <2>1. r = [ok |-> TRUE, ts |-> ts, p |-> q, listed |-> {}, moved |-> FALSE]
    BY <1>3, <1>6 DEF AllocateListed
  <2>2. q.nodesToTensors = p.nodesToTensors /\ q.allocs = p.allocs
        /\ q.persistentArena = p.persistentArena
    BY DEF PlannerOK, PlannerFields
  <2>3. PersistentApart(g, q) /\ BlocksKept(g, p, q)
    BY <2>2, ApartAlone DEF BlocksAlone
  <2> HIDE DEF q
  <2> QED BY <1>4, <1>5, <1>6, <2>1, <2>2, <2>3 DEF BlocksGiven
<1>7. CASE listed # {}
  <2> DEFINE folded == Blocks!Fold(a, base, seq)
  <2>1. tensorsListed \in SUBSET AllTensors(g)
    BY <1>2 DEF Listing
  <2>2. PlannerOK(g, start) /\ start.hasNonPersistent = p.hasNonPersistent
        /\ start.nodesToTensors = p.nodesToTensors /\ start.allocs = p.allocs
        /\ start.persistentArena = p.persistentArena
    <3>1. ArenaOK(ResetAllocs(p.arena)) /\ ArenaOK(PurgeActiveAllocs(p.arena, first))
      BY <1>1, ArenaOperationsTyped DEF PlannerOK
    <3> QED BY <1>1, <3>1 DEF PlannerOK, PlannerFields, StartAllocations
  <2>3. PersistentApart(g, start) /\ BlocksKept(g, p, start)
    <3> HIDE DEF start
    <3> QED BY <2>2, ApartAlone DEF BlocksAlone
  <2> HIDE DEF tensorsListed, start
  <2>4. CallOK(g, ts, p, base)
    BY <1>1, <2>1, <2>2 DEF CallOK, CallFields
  <2>5. /\ n \in Nat /\ DOMAIN seq = 1..n /\ \A k \in 1..n : seq[k] \in listed
        /\ \A entry \in listed : \E k \in 1..n : seq[k] = entry
    BY <1>2, VectorLists
  <2>6. \A k \in 1..n : seq[k][2] \in AllTensors(g)
    BY <1>2, <2>5 DEF Listing
  <2>7. GivenUpTo(g, ts, p, seq, tensorsListed, base, 0)
    <3>1. 1..0 = {}
      OBVIOUS
    <3> HIDE DEF seq
    <3> QED BY <2>2, <2>3, <2>4, <3>1 DEF GivenUpTo
  <2> HIDE DEF seq, base, n
  <2>8. \A k \in 1..n : \A c : GivenGood(a, c, k - 1) => GivenGood(a, AllocateStep(a, c, seq[k]), k)
    <3>1. ASSUME NEW k \in 1..n, NEW c, GivenUpTo(g, ts, p, seq, tensorsListed, c, k - 1)
          PROVE  GivenUpTo(g, ts, p, seq, tensorsListed, AllocateTensor(c, seq[k][2]), k)
      <4>1. k \in Nat /\ k >= 1 /\ seq[k][2] \in AllTensors(g)
        BY <2>5, <2>6
      <4> QED BY <3>1, <4>1, GivenStep
    <3> QED BY <3>1 DEF GivenGood, AllocateStep
  <2>9. GivenGood(a, base, 0)
    BY <2>7 DEF GivenGood
  <2>10. GivenGood(a, folded, n)
    <3> HIDE DEF a
    <3> QED BY <2>5, <2>8, <2>9, Blocks!FoldKeeps
  <2>11. GivenUpTo(g, ts, p, seq, tensorsListed, folded, n)
    BY <2>10 DEF GivenGood
  <2>12. FoldLeft(LAMBDA call, entry : AllocateTensor(call, entry[2]), base, seq)
         = Blocks!Fold(<<g, ts, p, seq, tensorsListed>>, base, seq)
    BY DEF AllocateStep, Blocks!Fold, Blocks!FoldLeft, Blocks!MapThenFoldSet, Blocks!Max,
           FoldLeft, MapThenFoldSet, Max
  <2>13. r = EndAllocations(FoldLeft(LAMBDA call, entry : AllocateTensor(call, entry[2]), base, seq), last)
    BY <1>3, <1>7 DEF AllocateListed, base, seq, tensorsListed, start
  <2>14. r = EndAllocations(folded, last)
    BY <2>12, <2>13
  <2> HIDE DEF folded
  <2>15. /\ r.ok = folded.ok /\ r.ts = folded.ts /\ r.listed = folded.listed /\ r.moved = folded.moved
         /\ r.p.nodesToTensors = folded.p.nodesToTensors /\ r.p.allocs = folded.p.allocs
         /\ r.p.persistentArena = folded.p.persistentArena
    BY <2>11, <2>14 DEF EndAllocations, GivenUpTo, CallOK, CallFields, PlannerOK, PlannerFields
  <2>16. r.ok => PersistentApart(g, r.p) /\ BlocksKept(g, p, r.p)
    BY <2>11, <2>15, ApartAlone DEF GivenUpTo, BlocksAlone, BlocksKept
  <2>17. ASSUME r.ok, NEW i \in first .. last, NEW t \in p.nodesToTensors[i], t \in Persistent(g)
         PROVE  t \in r.listed /\ r.p.allocs[t].size > 0
    <3>1. <<i, t>> \in listed /\ <<i, t>>[2] = t
      BY <1>5, <2>17
    <3>2. t \in tensorsListed
      BY <3>1 DEF tensorsListed
    <3>3. PICK k \in 1..n : seq[k] = <<i, t>>
      BY <2>5, <3>1
    <3> QED BY <2>11, <2>15, <2>17, <3>1, <3>2, <3>3 DEF GivenUpTo
  <2> QED BY <1>4, <2>11, <2>15, <2>16, <2>17 DEF BlocksGiven, GivenUpTo
<1> QED BY <1>6, <1>7

LEMMA PointersKeep ==
  ASSUME NEW g, NEW ts, TensorsOK(g, ts), PersistentKept(g, ts), NEW q, SameShapes(ts, q),
         \A t \in AllTensors(g) \ Persistent(g) : q[t].data.where # "persistent"
  PROVE  PersistentKept(g, q)
BY DEF TensorsOK, PersistentKept, SameShapes, Elsewhere

LEMMA BufferMovedKept ==
  ASSUME NEW g, NEW ts, TensorsOK(g, ts), PersistentKept(g, ts), NEW arena
  PROVE  PersistentKept(g, BufferMoved(ts, arena))
<1> DEFINE b == BufferMoved(ts, arena)
<1>1. SameShapes(ts, b)
  <2>1. SameShapes(ts, ts)
    BY DEF SameShapes
  <2> QED BY <2>1, BufferMovedKeeps
<1>2. \A t \in AllTensors(g) : b[t] = ts[t] \/ b[t] = [ts[t] EXCEPT !.data = Dangling]
  BY DEF BufferMoved, WithData, TensorsOf, TensorsOK
<1> HIDE DEF b
<1>3. ASSUME NEW t \in AllTensors(g) \ Persistent(g) PROVE b[t].data.where # "persistent"
  <2>1. ts[t] \in Tensor /\ ts[t].data.where # "persistent"
    BY DEF TensorsOK, PersistentKept, Elsewhere
  <2>2. b[t].data \in {ts[t].data, Dangling}
    BY <1>2, <2>1 DEF Tensor
  <2> QED BY <2>1, <2>2 DEF Dangling
<1>4. PersistentKept(g, b)
  BY <1>1, <1>3, PointersKeep
<1> QED BY <1>4 DEF b

\* What committing an arena leaves of the blocks and the pointers.
Committed(g, call, c) ==
  /\ PersistentKept(g, c.ts) /\ BlocksAlone(g, call.p, c.p)
  /\ c.p.nodesToTensors = call.p.nodesToTensors /\ c.p.actualId = call.p.actualId
  /\ c.listed = call.listed
  /\ c.ok => call.ok
  /\ c.ok /\ c.moved = FALSE => c.ts = call.ts

LEMMA CommitArenaBlocks ==
  ASSUME NEW g, NEW ts, NEW p, NEW call, CallOK(g, ts, p, call), PersistentKept(g, call.ts),
         call.moved = FALSE, NEW mallocOk \in BOOLEAN, NEW c, c = CommitArena(call, mallocOk)
  PROVE  Committed(g, call, c)
<1> DEFINE grows == Reallocates(call.p.arena)
<1>1. DOMAIN call = CallFields /\ PlannerOK(g, call.p) /\ DOMAIN call.p = PlannerFields
      /\ TensorsOK(g, call.ts)
  BY DEF CallOK, PlannerOK
<1>2. PersistentKept(g, BufferMoved(call.ts, "rw"))
  BY <1>1, BufferMovedKept
<1>3. CASE ~ call.ok
  BY <1>3 DEF CommitArena, Committed, BlocksAlone
<1>4. CASE call.ok /\ grows /\ ~ mallocOk
  <2>1. c = [call EXCEPT !.ok = FALSE, !.p.arena = Commit(call.p.arena, FALSE)]
    BY <1>4 DEF CommitArena
  <2>2. /\ c.ok = FALSE /\ c.ts = call.ts /\ c.listed = call.listed
        /\ c.p.allocs = call.p.allocs /\ c.p.persistentArena = call.p.persistentArena
        /\ c.p.nodesToTensors = call.p.nodesToTensors /\ c.p.actualId = call.p.actualId
    BY <1>1, <2>1 DEF CallFields, PlannerFields
  <2> QED BY <2>2 DEF Committed, BlocksAlone
<1>5. CASE call.ok /\ ~ (grows /\ ~ mallocOk)
  <2> DEFINE moved == IF grows THEN BufferMoved(call.ts, "rw") ELSE call.ts
  <2>1. c = [call EXCEPT !.ts = moved, !.p.arena = Commit(call.p.arena, TRUE),
                         !.p.hasNonPersistent = TRUE, !.moved = grows]
    BY <1>5 DEF CommitArena
  <2>2. PersistentKept(g, moved) /\ (grows = FALSE => moved = call.ts)
    BY <1>2
  <2> HIDE DEF moved, grows
  <2> DEFINE q == [call.p EXCEPT !.arena = Commit(call.p.arena, TRUE), !.hasNonPersistent = TRUE]
  <2>3. /\ q.allocs = call.p.allocs /\ q.persistentArena = call.p.persistentArena
        /\ q.nodesToTensors = call.p.nodesToTensors /\ q.actualId = call.p.actualId
    BY <1>1 DEF PlannerFields
  <2>4. c.ok = call.ok /\ c.ts = moved /\ c.listed = call.listed /\ c.moved = grows /\ c.p = q
    BY <1>1, <2>1 DEF CallFields, PlannerFields
  <2> HIDE DEF q
  <2> QED BY <2>2, <2>3, <2>4 DEF Committed, BlocksAlone
<1> QED BY <1>3, <1>4, <1>5

LEMMA CommitPersistentArenaBlocks ==
  ASSUME NEW g, NEW ts, NEW p, NEW call, CallOK(g, ts, p, call), PersistentKept(g, call.ts),
         NEW mallocOk \in BOOLEAN, NEW c, c = CommitPersistentArena(call, mallocOk)
  PROVE  Committed(g, call, c) /\ (c.ok /\ c.moved = FALSE => call.moved = FALSE)
<1> DEFINE grows == Reallocates(call.p.persistentArena)
<1>1. DOMAIN call = CallFields /\ PlannerOK(g, call.p) /\ DOMAIN call.p = PlannerFields
      /\ TensorsOK(g, call.ts) /\ call.moved \in BOOLEAN
  BY DEF CallOK, PlannerOK
<1>2. PersistentKept(g, BufferMoved(call.ts, "persistent"))
  BY <1>1, BufferMovedKept
<1>3. CASE ~ call.ok
  BY <1>3 DEF CommitPersistentArena, Committed, BlocksAlone
<1>4. CASE call.ok /\ grows /\ ~ mallocOk
  <2>1. c = [call EXCEPT !.ok = FALSE, !.p.persistentArena = Commit(call.p.persistentArena, FALSE)]
    BY <1>4 DEF CommitPersistentArena
  <2>2. /\ c.ok = FALSE /\ c.ts = call.ts /\ c.listed = call.listed
        /\ c.p.allocs = call.p.allocs
        /\ c.p.persistentArena = Commit(call.p.persistentArena, FALSE)
        /\ c.p.nodesToTensors = call.p.nodesToTensors /\ c.p.actualId = call.p.actualId
    BY <1>1, <2>1 DEF CallFields, PlannerFields
  <2>3. c.p.persistentArena.active = call.p.persistentArena.active
    BY <1>1, <2>2 DEF Commit, PlannerOK, ArenaOK
  <2> QED BY <2>2, <2>3 DEF Committed, BlocksAlone
<1>5. CASE call.ok /\ ~ (grows /\ ~ mallocOk)
  <2> DEFINE moved == IF grows THEN BufferMoved(call.ts, "persistent") ELSE call.ts
             either == call.moved \/ grows
  <2>1. c = [call EXCEPT !.ts = moved, !.p.persistentArena = Commit(call.p.persistentArena, TRUE),
                         !.moved = either]
    BY <1>5 DEF CommitPersistentArena
  <2>2. PersistentKept(g, moved) /\ (either = FALSE => moved = call.ts /\ call.moved = FALSE)
    BY <1>1, <1>2
  <2> HIDE DEF moved, either
  <2>3. /\ c.ok = call.ok /\ c.ts = moved /\ c.listed = call.listed /\ c.moved = either
        /\ c.p.allocs = call.p.allocs
        /\ c.p.persistentArena = Commit(call.p.persistentArena, TRUE)
        /\ c.p.nodesToTensors = call.p.nodesToTensors /\ c.p.actualId = call.p.actualId
    BY <1>1, <2>1 DEF CallFields, PlannerFields
  <2>4. c.p.persistentArena.active = call.p.persistentArena.active
    BY <1>1, <2>3 DEF Commit, PlannerOK, ArenaOK
  <2> QED BY <2>2, <2>3, <2>4 DEF Committed, BlocksAlone
<1> QED BY <1>3, <1>4, <1>5

\* A persistent tensor has a block, and its pointer is there.
Placed(ts, p, t) ==
  p.allocs[t].size > 0 /\ ts[t].data = Pointer("persistent", p.allocs[t].offset)

\* Resolving gives each persistent tensor its own address, and no other tensor
\* one in their arena: what shares a buffer is not persistent.
LEMMA ResolveTensorsPlaces ==
  ASSUME NEW g, NEW ts, TensorsOK(g, ts), PersistentKept(g, ts), NEW p, PlannerOK(g, p),
         NEW S \in SUBSET AllTensors(g), NEW q, q = ResolveTensors(ts, p, S), SameShapes(ts, q)
  PROVE  /\ PersistentKept(g, q)
         /\ \A t \in Persistent(g) : IF t \in S THEN p.allocs[t].size > 0 => Placed(q, p, t)
                                     ELSE q[t] = ts[t]
<1> DEFINE sharing == {u \in S : SharesPointer(ts, p, u)}
           roots == {p.actualId[t] : t \in sharing}
           buffer(t) == IF t \in S /\ SharesPointer(ts, p, t) THEN p.actualId[t] ELSE t
<1>1. DOMAIN ts = AllTensors(g) /\ Persistent(g) \in SUBSET AllTensors(g)
      /\ \A t \in AllTensors(g) : ts[t] \in Tensor
  BY DEF TensorsOK, Persistent
<1>2. q = [t \in AllTensors(g) |->
             IF t \in S \union roots THEN [ts[t] EXCEPT !.data = OwnPointer(ts, p, buffer(t))]
             ELSE ts[t]]
  BY <1>1 DEF ResolveTensors, WithData, TensorsOf
<1>3. /\ \A t \in Persistent(g) : ts[t].type = "persistent"
      /\ \A t \in AllTensors(g) : t \notin Persistent(g) => Elsewhere(ts[t])
  BY <1>1 DEF PersistentKept
<1>4. ASSUME NEW t, SharesPointer(ts, p, t)
      PROVE  t \notin Persistent(g) /\ p.actualId[t] \in AllTensors(g) \ Persistent(g)
  <2>1. /\ t \in DOMAIN p.actualId /\ t \in AllTensors(g) /\ t \notin Persistent(g)
        /\ p.actualId[t] \in AllTensors(g) /\ ts[t].type = ts[p.actualId[t]].type
    BY <1>4 DEF SharesPointer, PlannerOK, SharingOK
  <2> QED BY <1>3, <2>1 DEF Elsewhere
<1>5. \A t \in Persistent(g) : t \notin roots /\ buffer(t) = t
  BY <1>4
<1>6. \A t \in AllTensors(g) \ Persistent(g) : buffer(t) \in AllTensors(g) \ Persistent(g)
  BY <1>4
<1> HIDE DEF sharing, roots, buffer
<1>7. ASSUME NEW t \in AllTensors(g) \ Persistent(g)
      PROVE  OwnPointer(ts, p, t).where # "persistent" /\ ts[t].data.where # "persistent"
  <2>1. ts[t].type # "persistent" /\ ts[t].data.where # "persistent"
    BY <1>3, <1>7 DEF Elsewhere
  <2>2. OwnPointer(ts, p, t) \in {Pointer("rw", p.allocs[t].offset), ts[t].data}
    BY <2>1 DEF OwnPointer
  <2> QED BY <2>1, <2>2 DEF Pointer
<1>8. ASSUME NEW t \in AllTensors(g) \ Persistent(g) PROVE q[t].data.where # "persistent"
  <2>1. q[t].data \in {OwnPointer(ts, p, buffer(t)), ts[t].data}
    BY <1>1, <1>2 DEF Tensor
  <2> QED BY <1>6, <1>7, <2>1
<1>9. PersistentKept(g, q)
  BY <1>8, PointersKeep
<1>10. ASSUME NEW t \in Persistent(g), t \in S, p.allocs[t].size > 0 PROVE Placed(q, p, t)
  <2>1. OwnPointer(ts, p, t) = Pointer("persistent", p.allocs[t].offset)
    <3>1. p.allocs[t].size # 0
      BY <1>10
    <3> QED BY <1>3, <3>1 DEF OwnPointer
  <2>2. q[t].data = OwnPointer(ts, p, t)
    BY <1>1, <1>2, <1>5, <1>10 DEF Tensor
  <2> QED BY <1>10, <2>1, <2>2 DEF Placed
<1>11. ASSUME NEW t \in Persistent(g), t \notin S PROVE q[t] = ts[t]
  BY <1>1, <1>2, <1>5, <1>11
<1> QED BY <1>9, <1>10, <1>11

LEMMA ResolveAllocationsPlaces ==
  ASSUME NEW g, NEW ts, DOMAIN ts = AllTensors(g), NEW p, NEW call, CallOK(g, ts, p, call),
         PersistentKept(g, call.ts), NEW r, r = ResolveAllocations(call)
  PROVE  /\ PersistentKept(g, r.ts)
         /\ r.ok => \A t \in Persistent(g) :
                      IF t \in TensorsToResolve(call) THEN call.p.allocs[t].size > 0 => Placed(r.ts, r.p, t)
                      ELSE r.ts[t] = call.ts[t]
<1> DEFINE S == TensorsToResolve(call)
           q == ResolveTensors(call.ts, call.p, S)
<1>1. PlannerOK(g, call.p) /\ TensorsOK(g, call.ts) /\ DOMAIN call.ts = AllTensors(g)
      /\ call.listed \in SUBSET AllTensors(g) /\ DOMAIN call = CallFields
  BY DEF CallOK, TensorsOK
<1>2. S \in SUBSET AllTensors(g)
  BY <1>1 DEF TensorsToResolve, TensorsOf
<1>3. \/ ~ call.ok /\ r = call
      \/ r = [call EXCEPT !.ok = FALSE]
      \/ call.ok /\ r = [call EXCEPT !.ts = q]
  BY DEF ResolveAllocations
<1>4. CASE ~ call.ok /\ r = call
  BY <1>4
<1>5. CASE r = [call EXCEPT !.ok = FALSE]
  <2>1. r.ok = FALSE /\ r.ts = call.ts
    BY <1>1, <1>5 DEF CallFields
  <2> QED BY <2>1
<1>6. CASE call.ok /\ r = [call EXCEPT !.ts = q]
  <2>1. r.ts = q /\ r.p = call.p
    BY <1>1, <1>6 DEF CallFields
  <2>2. SameShapes(call.ts, q)
    <3>1. CallOK(g, call.ts, p, call)
      BY DEF CallOK, SameShapes
    <3>2. SameShapes(call.ts, r.ts)
      BY <1>1, <3>1, ResolveAllocationsKeeps DEF CallOK
    <3> QED BY <2>1, <3>2
  <2> HIDE DEF S, q
  <2>3. /\ PersistentKept(g, q)
        /\ \A t \in Persistent(g) : IF t \in S THEN call.p.allocs[t].size > 0 => Placed(q, call.p, t)
                                    ELSE q[t] = call.ts[t]
    BY <1>1, <1>2, <2>2, ResolveTensorsPlaces DEF q
  <2> QED BY <2>1, <2>3 DEF S
<1> QED BY <1>3, <1>4, <1>5, <1>6

\* What a call to the planner leaves of persistent tensors: a plan that succeeds
\* moves none that is placed, and places those of its nodes.
Executes(g, ts, p, first, last, r) ==
  /\ PersistentKept(g, r.ts)
  /\ g.variables \in SUBSET p.nodesToTensors[0] => g.variables \in SUBSET r.p.nodesToTensors[0]
  /\ r.ok => /\ PersistentApart(g, r.p)
             /\ \A t \in Persistent(g) :
                  /\ Placed(ts, p, t) => Placed(r.ts, r.p, t) /\ Region(r.ts, t) = Region(ts, t)
                  /\ \A i \in first .. last :
                       t \in p.nodesToTensors[i] \union Range(g.nodes[i].tmp) => Placed(r.ts, r.p, t)

LEMMA ExecuteAllocationsPlaces ==
  ASSUME NEW g \in Graphs, NEW ts, TensorsOK(g, ts), PersistentKept(g, ts),
         NEW p, PlannerOK(g, p), PersistentApart(g, p),
         NEW first \in NodesOf(g), NEW last, last \in NodesOf(g),
         NEW mallocOk \in BOOLEAN, NEW persistentMallocOk \in BOOLEAN,
         NEW r, r = ExecuteAllocations(g, ts, p, first, last, mallocOk, persistentMallocOk)
  PROVE  Executes(g, ts, p, first, last, r)
<1> DEFINE q == AddTemporaries(g, p, first, last)
           c1 == CalculateAllocations(ts, q, first, last)
           c2 == CommitArena(c1, mallocOk)
           c3 == CommitPersistentArena(c2, persistentMallocOk)
<1>0. q = AddTemporaries(g, p, first, last) /\ r = ResolveAllocations(c3)
  BY DEF ExecuteAllocations
<1> HIDE DEF q
<1>1. /\ PlannerOK(g, q) /\ q.allocs = p.allocs /\ q.persistentArena = p.persistentArena
      /\ \A i \in NodesOf(g) : p.nodesToTensors[i] \in SUBSET q.nodesToTensors[i]
      /\ \A i \in NodesOf(g) :
           i \in first .. last => Range(g.nodes[i].tmp) \in SUBSET q.nodesToTensors[i]
  <2>1. TemporariesAdded(g, p, first, last, q)
    BY <1>0, AddTemporariesKeeps
  <2> QED BY <2>1 DEF TemporariesAdded
<1>2. DOMAIN ts = AllTensors(g) /\ 0 \in NodesOf(g) /\ first .. last \in SUBSET NodesOf(g)
      /\ Persistent(g) \in SUBSET AllTensors(g)
  BY GraphFacts DEF TensorsOK, Persistent
<1>3. r = ResolveAllocations(c3)
  BY <1>0
<1>4. PersistentApart(g, q)
  BY <1>1, ApartAlone DEF BlocksAlone
<1>5. BlocksGiven(g, ts, q, first, last, c1)
  BY <1>1, <1>4, CalculateAllocationsBlocks
<1> HIDE DEF c1
<1>6. CallOK(g, ts, q, c1) /\ c1.ts = ts /\ c1.moved = FALSE
  BY <1>5 DEF BlocksGiven
<1>7. CallOK(g, ts, q, c2)
  BY <1>2, <1>6, CommitsKeep
<1>8. Committed(g, c1, c2)
  BY <1>6, CommitArenaBlocks
<1> HIDE DEF c2
<1>9. CallOK(g, ts, q, c3)
  BY <1>2, <1>7, CommitsKeep
<1>10. Committed(g, c2, c3) /\ (c3.ok /\ c3.moved = FALSE => c2.moved = FALSE)
  <2>1. PersistentKept(g, c2.ts)
    BY <1>8 DEF Committed
  <2> QED BY <1>7, <2>1, CommitPersistentArenaBlocks
<1> HIDE DEF c3
<1>11. CallOK(g, ts, q, r) /\ r.p = c3.p /\ (r.ok => c3.ok)
  BY <1>2, <1>3, <1>9, ResolveAllocationsKeeps
<1>12. /\ PersistentKept(g, r.ts)
       /\ r.ok => \A t \in Persistent(g) :
                    IF t \in TensorsToResolve(c3) THEN c3.p.allocs[t].size > 0 => Placed(r.ts, r.p, t)
                    ELSE r.ts[t] = c3.ts[t]
  BY <1>2, <1>3, <1>9, <1>10, ResolveAllocationsPlaces DEF Committed
<1>13. r.p.nodesToTensors = q.nodesToTensors
  BY <1>5, <1>8, <1>10, <1>11 DEF BlocksGiven, Committed
<1>14. ASSUME r.ok
       PROVE  /\ c1.ok /\ PersistentApart(g, r.p) /\ BlocksKept(g, p, r.p)
              /\ \A t \in Persistent(g) : r.p.allocs[t] = c1.p.allocs[t]
              /\ c3.moved = FALSE => c3.ts = ts
              /\ c3.listed = c1.listed
  <2>1. c3.ok /\ c2.ok /\ c1.ok
    BY <1>8, <1>10, <1>11, <1>14 DEF Committed
  <2>2. PersistentApart(g, c1.p) /\ BlocksKept(g, q, c1.p)
    BY <1>5, <2>1 DEF BlocksGiven
  <2>3. BlocksAlone(g, c1.p, c2.p) /\ BlocksAlone(g, c2.p, r.p)
    BY <1>8, <1>10, <1>11 DEF Committed
  <2>4. BlocksAlone(g, c1.p, r.p)
    BY <2>3 DEF BlocksAlone
  <2>5. PersistentApart(g, r.p)
    BY <2>2, <2>4, ApartAlone
  <2>6. BlocksKept(g, p, r.p) /\ \A t \in Persistent(g) : r.p.allocs[t] = c1.p.allocs[t]
    BY <1>1, <2>2, <2>4 DEF BlocksKept, BlocksAlone
  <2>7. c3.moved = FALSE => c3.ts = ts
    BY <1>6, <1>8, <1>10, <2>1 DEF Committed
  <2>8. c3.listed = c1.listed
    BY <1>8, <1>10 DEF Committed
  <2> QED BY <2>1, <2>5, <2>6, <2>7, <2>8
<1>15. ASSUME r.ok, NEW t \in Persistent(g), Placed(ts, p, t)
       PROVE  Placed(r.ts, r.p, t) /\ Region(r.ts, t) = Region(ts, t)
  <2>1. p.allocs[t].size > 0 /\ r.p.allocs[t] = p.allocs[t] /\ c3.p = r.p
        /\ ts[t].data = Pointer("persistent", p.allocs[t].offset)
    BY <1>11, <1>14, <1>15 DEF Placed, BlocksKept
  <2>2. r.ts[t].data = ts[t].data
    <3>1. CASE t \in TensorsToResolve(c3)
      <4>1. Placed(r.ts, r.p, t)
        BY <1>12, <1>15, <2>1, <3>1
      <4> QED BY <2>1, <4>1 DEF Placed
    <3>2. CASE t \notin TensorsToResolve(c3)
      <4>1. c3.moved = FALSE
        <5>1. DOMAIN c3.ts = AllTensors(g) /\ c3.moved \in BOOLEAN
          BY <1>9 DEF CallOK, TensorsOK
        <5> QED BY <1>2, <3>2, <5>1 DEF TensorsToResolve, TensorsOf
      <4> QED BY <1>12, <1>14, <1>15, <3>2, <4>1
    <3> QED BY <3>1, <3>2
  <2>3. r.ts[t].bytes = ts[t].bytes
    BY <1>2, <1>11 DEF CallOK, SameShapes
  <2> QED BY <2>1, <2>2, <2>3 DEF Placed, Region
<1>16. ASSUME r.ok, NEW t \in Persistent(g), NEW i \in first .. last,
              t \in p.nodesToTensors[i] \union Range(g.nodes[i].tmp)
       PROVE  Placed(r.ts, r.p, t)
  <2>1. t \in q.nodesToTensors[i]
    BY <1>1, <1>2, <1>16
  <2>2. t \in c1.listed /\ c1.p.allocs[t].size > 0
    BY <1>5, <1>14, <1>16, <2>1 DEF BlocksGiven
  <2>3. t \in TensorsToResolve(c3)
    <3>1. DOMAIN c3.ts = AllTensors(g)
      BY <1>9 DEF CallOK, TensorsOK
    <3> QED BY <1>2, <1>14, <1>16, <2>2, <3>1 DEF TensorsToResolve, TensorsOf
  <2>4. c3.p.allocs[t].size > 0
    BY <1>11, <1>14, <1>16, <2>2
  <2> QED BY <1>12, <1>16, <2>3, <2>4
<1>17. g.variables \in SUBSET p.nodesToTensors[0] => g.variables \in SUBSET r.p.nodesToTensors[0]
  BY <1>1, <1>2, <1>13
<1> QED BY <1>12, <1>14, <1>15, <1>16, <1>17 DEF Executes

LEMMA ReleaseArenaKeeps ==
  ASSUME NEW g, NEW ts, TensorsOK(g, ts), NEW p, PlannerOK(g, p), NEW r, r = ReleaseArena(ts, p)
  PROVE  TensorsOK(g, r.ts) /\ PlannerOK(g, r.p)
<1>1. ArenaOK(ReleaseBuffer(p.arena))
  <2>1. 0 \in Int /\ ArenaOK(p.arena)
    BY DEF PlannerOK
  <2> QED BY <2>1, ArenaOperationsTyped
<1>2. PlannerOK(g, r.p)
  BY <1>1 DEF ReleaseArena, PlannerOK, PlannerFields
<1>3. IsAFcn(r.ts) /\ DOMAIN r.ts = DOMAIN ts
      /\ \A t \in DOMAIN ts : r.ts[t] = ts[t] \/ r.ts[t] = [ts[t] EXCEPT !.data = Null]
  BY DEF ReleaseArena, WithData, TensorsOf, IsAFcn
<1> QED BY <1>2, <1>3, PointersTyped, DataAssigned

-----------------------------------------------------------------------------
(* The kernels. *)

LEMMA TensorResized ==
  ASSUME NEW x \in Tensor, NEW dims \in Dims
  PROVE  /\ ResizeTensor(x, dims) \in Tensor /\ ResizeTensor(x, dims).type = x.type
         /\ ResizeTensorImpl(x, dims) \in Tensor /\ ResizeTensorImpl(x, dims).type = x.type
         /\ ~ SetsResized(x, dims) => ResizeTensor(x, dims).dims = x.dims
         /\ Elsewhere(x) => Elsewhere(ResizeTensor(x, dims)) /\ Elsewhere(ResizeTensorImpl(x, dims))
<1>1. dims[1] \in Size
  BY KernelAssumption DEF Dims
<1>2. Heap \in Data /\ Null \in Data
  BY PointersTyped
<1>3. ResizeTensorImpl(x, dims) \in Tensor /\ ResizeTensorImpl(x, dims).type = x.type
      /\ ResizeTensorImpl(x, dims).dims = dims
  BY <1>1, <1>2 DEF ResizeTensorImpl, BytesRequired, Tensor
<1>4. Elsewhere(x) => Elsewhere(ResizeTensorImpl(x, dims))
  BY DEF ResizeTensorImpl, Elsewhere, Heap, Null, Tensor
<1> QED BY <1>3, <1>4 DEF ResizeTensor, SetsResized

LEMMA TensorMadeDynamic ==
  ASSUME NEW x \in Tensor
  PROVE  /\ SetTensorToDynamic(x) \in Tensor /\ SetTensorToDynamic(x).type = "dynamic"
         /\ SetTensorToDynamic(x).dims = x.dims
         /\ Elsewhere(x) => Elsewhere(SetTensorToDynamic(x))
<1>1. Null \in Data /\ Null.where = "null"
  BY PointersTyped DEF Null
<1> QED BY <1>1 DEF SetTensorToDynamic, Tensor, Elsewhere

\* What a kernel does to the tensors: it sizes those it makes, a persistent
\* one excepted, a dynamic tensor stays one and none becomes persistent.
SizedBy(node) == Range(node.out) \union (IF node.kind = "svdf" THEN {node.tmp[1]} ELSE {})

Sizing(g, node, ts, q) ==
  /\ TensorsOK(g, q)
  /\ \A t \in AllTensors(g) : t \notin SizedBy(node) => q[t] = ts[t]
  /\ \A t \in AllTensors(g) : ts[t].type = "dynamic" => q[t].type = "dynamic"
  /\ \A t \in AllTensors(g) : Elsewhere(ts[t]) => Elsewhere(q[t])

With(ts, t, x) == [ts EXCEPT ![t] = x]

LEMMA SizingAlone ==
  ASSUME NEW g, NEW node, SizedBy(node) \intersect Persistent(g) = {},
         NEW ts, NEW q, Sizing(g, node, ts, q)
  PROVE  PersistentAlone(g, ts, q)
BY DEF Sizing, PersistentAlone, Persistent

LEMMA OneSized ==
  ASSUME NEW g, NEW node, NEW ts, TensorsOK(g, ts), NEW q, Sizing(g, node, ts, q),
         NEW t \in AllTensors(g), t \in SizedBy(node), NEW x \in Tensor,
         q[t].type = "dynamic" => x.type = "dynamic",
         Elsewhere(q[t]) => Elsewhere(x)
  PROVE  Sizing(g, node, ts, With(q, t, x))
BY DEF Sizing, TensorsOK, With

LEMMA NodeTensors ==
  ASSUME NEW g, NEW node, Fits(g, node)
  PROVE  /\ \A j \in DOMAIN node.in : node.in[j] \in AllTensors(g)
         /\ 1 \in DOMAIN node.in /\ node.out[1] \in AllTensors(g) /\ node.out[1] \in SizedBy(node)
         /\ node.kind \in {"add", "svdf"} => 2 \in DOMAIN node.in
         /\ node.kind = "unique" => node.out[2] \in AllTensors(g) /\ node.out[2] \in SizedBy(node)
         /\ node.kind = "svdf" => node.tmp[1] \in AllTensors(g) /\ node.tmp[1] \in SizedBy(node)
         /\ SizedBy(node) \in SUBSET Makes(node) /\ node.out[1] \in Makes(node)
         /\ SizedBy(node) \in SUBSET AllTensors(g)
<1>1. Len(node.out) >= 1 /\ node.out \in Seq(AllTensors(g))
  BY DEF Fits
<1>2. node.out[1] \in AllTensors(g) /\ node.out[1] \in Range(node.out)
      /\ Range(node.out) \in SUBSET AllTensors(g)
  BY <1>1 DEF Range
<1>3. node.kind = "svdf" => node.tmp[1] \in AllTensors(g) /\ node.tmp[1] \in Range(node.tmp)
  BY DEF Fits, Range
<1>4. node.kind = "unique" => node.out[2] \in AllTensors(g) /\ node.out[2] \in Range(node.out)
  BY DEF Fits, Range
<1>5. /\ \A j \in DOMAIN node.in : node.in[j] \in AllTensors(g)
      /\ 1 \in DOMAIN node.in
      /\ node.kind \in {"add", "svdf"} => 2 \in DOMAIN node.in
  BY DEF Fits
<1> QED BY <1>2, <1>3, <1>4, <1>5 DEF SizedBy, Makes

\* Prepare of any kernel. Unique's first output is dynamic from then on.
LEMMA OpPrepareKeeps ==
  ASSUME NEW g, NEW node, Fits(g, node), NEW ts, TensorsOK(g, ts), NEW q, q = OpPrepare(ts, node)
  PROVE  /\ Sizing(g, node, ts, q)
         /\ node.kind = "unique" => q[node.out[1]].type = "dynamic"
<1> DEFINE a == node.in[1]
           b == node.in[2]
           o == node.out[1]
           o2 == node.out[2]
           m == node.tmp[1]
<1>1. /\ a \in AllTensors(g) /\ o \in AllTensors(g) /\ o \in SizedBy(node)
      /\ node.kind \in {"add", "svdf"} => b \in AllTensors(g)
      /\ node.kind = "unique" => o2 \in AllTensors(g) /\ o2 \in SizedBy(node)
      /\ node.kind = "svdf" => m \in AllTensors(g) /\ m \in SizedBy(node)
  BY NodeTensors
<1>2. DOMAIN ts = AllTensors(g)
      /\ \A t \in AllTensors(g) : ts[t] \in Tensor /\ ts[t].dims \in Dims /\ ts[t].bytes \in Size
                                  /\ ts[t].type \in {"rw", "persistent", "dynamic"}
  BY DEF TensorsOK, Tensor
<1>3. Sizing(g, node, ts, ts)
  BY DEF Sizing
<1>4. node.kind \in KernelKinds
  BY DEF Fits
<1> HIDE DEF a, b, o, o2, m
<1>5. CASE node.kind = "add"
  <2> DEFINE dims == BroadcastDims(ts[a].dims, ts[b].dims)
             x == ResizeTensor(ts[o], dims)
  <2>1. q = With(ts, o, x)
    BY <1>5 DEF OpPrepare, PrepareAdd, a, b, o, With
  <2>2. dims \in Dims
    BY <1>1, <1>2, <1>5 DEF BroadcastDims
  <2> HIDE DEF dims
  <2>3. x \in Tensor /\ x.type = ts[o].type /\ (Elsewhere(ts[o]) => Elsewhere(x))
    BY <1>1, <1>2, <2>2, TensorResized
  <2> HIDE DEF x
  <2> QED BY <1>1, <1>3, <1>5, <2>1, <2>3, OneSized
<1>6. CASE node.kind = "reshape"
  <2> DEFINE x == ResizeTensor(ts[o], ts[a].dims)
  <2>1. q = With(ts, o, x)
    BY <1>6 DEF OpPrepare, PrepareReshape, a, o, With
  <2>2. x \in Tensor /\ x.type = ts[o].type /\ (Elsewhere(ts[o]) => Elsewhere(x))
    BY <1>1, <1>2, TensorResized
  <2> HIDE DEF x
  <2> QED BY <1>1, <1>3, <1>6, <2>1, <2>2, OneSized
<1>7. CASE node.kind = "reshapeTo"
  <2> DEFINE x == IF ts[o].type = "rw" THEN [ts[o] EXCEPT !.bytes = ts[a].bytes] ELSE ts[o]
  <2>1. q = With(ts, o, x)
    BY <1>7 DEF OpPrepare, PrepareReshapeTo, a, o, With
  <2>2. ts[o] \in Tensor /\ ts[a].bytes \in Size
    BY <1>1, <1>2
  <2>3. x \in Tensor /\ x.type = ts[o].type /\ (Elsewhere(ts[o]) => Elsewhere(x))
    BY <2>2 DEF Tensor, Elsewhere
  <2> HIDE DEF x
  <2> QED BY <1>1, <1>3, <1>7, <2>1, <2>3, OneSized
<1>8. CASE node.kind = "unique"
  <2> DEFINE x == SetTensorToDynamic(ts[o])
             half == With(ts, o, x)
             y == ResizeTensor(half[o2], ts[a].dims)
  <2>1. q = With(half, o2, y)
    BY <1>8 DEF OpPrepare, PrepareUnique, a, o, o2, With
  <2>2. x \in Tensor /\ x.type = "dynamic" /\ (Elsewhere(ts[o]) => Elsewhere(x))
    BY <1>1, <1>2, TensorMadeDynamic
  <2>3. Sizing(g, node, ts, half)
    <3> HIDE DEF x
    <3> QED BY <1>1, <1>3, <2>2, OneSized
  <2>4. half[o].type = "dynamic" /\ DOMAIN half = AllTensors(g)
    BY <1>1, <1>2, <2>2 DEF With
  <2> HIDE DEF x, half
  <2>5. half[o2] \in Tensor
    BY <1>1, <1>8, <2>3 DEF Sizing, TensorsOK
  <2>6. y \in Tensor /\ y.type = half[o2].type /\ (Elsewhere(half[o2]) => Elsewhere(y))
    BY <1>1, <1>2, <2>5, TensorResized
  <2> HIDE DEF y
  <2>7. Sizing(g, node, ts, q)
    BY <1>1, <1>8, <2>1, <2>3, <2>6, OneSized
  <2>8. q[o].type = "dynamic"
    BY <1>1, <2>1, <2>4, <2>6 DEF With
  <2> QED BY <2>7, <2>8 DEF o
<1>9. CASE node.kind = "svdf"
  <2> DEFINE x == ResizeTensor(ts[o], ts[a].dims)
             half == With(ts, o, x)
             y == ResizeTensor(half[m], ts[a].dims)
  <2>1. q = With(half, m, y)
    BY <1>9 DEF OpPrepare, PrepareSvdf, a, o, m, With
  <2>2. x \in Tensor /\ x.type = ts[o].type /\ (Elsewhere(ts[o]) => Elsewhere(x))
    BY <1>1, <1>2, TensorResized
  <2>3. Sizing(g, node, ts, half)
    <3> HIDE DEF x
    <3> QED BY <1>1, <1>3, <2>2, OneSized
  <2> HIDE DEF x, half
  <2>4. half[m] \in Tensor
    BY <1>1, <1>9, <2>3 DEF Sizing, TensorsOK
  <2>5. y \in Tensor /\ y.type = half[m].type /\ (Elsewhere(half[m]) => Elsewhere(y))
    BY <1>1, <1>2, <2>4, TensorResized
  <2> HIDE DEF y
  <2> QED BY <1>1, <1>9, <2>1, <2>3, <2>5, OneSized
<1> QED BY <1>4, <1>5, <1>6, <1>7, <1>8, <1>9 DEF KernelKinds

\* Eval. Only the kernels whose output is sized then change one, and unless
\* they report it, it keeps its dims. A reshape that does not run in its
\* input's buffer makes its output dynamic.
LEMMA EvalResizeKeeps ==
  ASSUME NEW g, NEW node, Fits(g, node), NEW ts, TensorsOK(g, ts), NEW dims \in Dims,
         NEW q, q = EvalResize(ts, node, dims)
  PROVE  /\ Sizing(g, node, ts, q)
         /\ \A t \in AllTensors(g) : t # node.out[1] => q[t] = ts[t]
         /\ node.kind \notin {"unique", "reshapeTo"} => q = ts
         /\ ~ EvalResized(ts, node, dims) => q[node.out[1]].dims = ts[node.out[1]].dims
         /\ node.kind = "reshapeTo" /\ ts[node.out[1]].data # ts[node.in[1]].data
              => q[node.out[1]].type = "dynamic"
<1> DEFINE a == node.in[1]
           o == node.out[1]
<1>1. a \in AllTensors(g) /\ o \in AllTensors(g) /\ o \in SizedBy(node)
  BY NodeTensors
<1>2. DOMAIN ts = AllTensors(g) /\ \A t \in AllTensors(g) : ts[t] \in Tensor
  BY DEF TensorsOK
<1>3. Sizing(g, node, ts, ts)
  BY DEF Sizing
<1> HIDE DEF a, o
<1>4. CASE node.kind = "unique"
  <2> DEFINE x == ResizeTensor(ts[o], dims)
  <2>1. q = With(ts, o, x)
    BY <1>4 DEF EvalResize, o, With
  <2>2. x \in Tensor /\ x.type = ts[o].type /\ (Elsewhere(ts[o]) => Elsewhere(x))
        /\ (~ SetsResized(ts[o], dims) => x.dims = ts[o].dims)
    BY <1>1, <1>2, TensorResized
  <2>3. EvalResized(ts, node, dims) = SetsResized(ts[o], dims)
    BY <1>4 DEF EvalResized, o
  <2> HIDE DEF x
  <2>4. Sizing(g, node, ts, q)
    BY <1>1, <1>3, <2>1, <2>2, OneSized
  <2>5. (\A t \in AllTensors(g) : t # o => q[t] = ts[t]) /\ q[o] = x
    BY <1>1, <1>2, <2>1 DEF With
  <2> QED BY <1>4, <2>2, <2>3, <2>4, <2>5 DEF o
<1>5. CASE node.kind = "reshapeTo"
  <2> DEFINE x == EvalReshapeTo(ts[a], ts[o], dims)
  <2>1. q = With(ts, o, x)
    BY <1>5 DEF EvalResize, a, o, With
  <2>2. ts[o] \in Tensor /\ ts[a].data \in Data
    BY <1>1, <1>2 DEF Tensor
  <2> DEFINE moved == SetTensorToDynamic(ts[o])
  <2>3. moved \in Tensor /\ moved.type = "dynamic" /\ moved.dims = ts[o].dims
        /\ (Elsewhere(ts[o]) => Elsewhere(moved))
    BY <2>2, TensorMadeDynamic
  <2>4. EvalResized(ts, node, dims) = IF ts[o].data = ts[a].data THEN SetsResized(ts[o], dims)
                                      ELSE SetsResized(moved, dims)
    BY <1>5 DEF EvalResized, a, o
  <2>5. x = IF ts[o].data = ts[a].data
            THEN [ResizeTensor(ts[o], dims) EXCEPT !.data = ts[a].data]
            ELSE ResizeTensor(moved, dims)
    BY DEF EvalReshapeTo
  <2> HIDE DEF x, moved
  <2>6. /\ x \in Tensor /\ (ts[o].type = "dynamic" => x.type = "dynamic")
        /\ ~ EvalResized(ts, node, dims) => x.dims = ts[o].dims
        /\ ts[o].data # ts[a].data => x.type = "dynamic"
        /\ Elsewhere(ts[o]) => Elsewhere(x)
    <3>1. CASE ts[o].data = ts[a].data
      <4> DEFINE y == ResizeTensor(ts[o], dims)
      <4>1. y \in Tensor /\ y.type = ts[o].type
            /\ (~ SetsResized(ts[o], dims) => y.dims = ts[o].dims)
        BY <2>2, TensorResized
      <4>2. x = [y EXCEPT !.data = ts[a].data]
        BY <2>5, <3>1
      <4> HIDE DEF y
      <4>3. x \in Tensor /\ x.type = ts[o].type /\ x.dims = y.dims /\ x.data = ts[o].data
        BY <2>2, <3>1, <4>1, <4>2 DEF Tensor
      <4>4. Elsewhere(ts[o]) => Elsewhere(x)
        BY <4>3 DEF Elsewhere
      <4> QED BY <2>4, <3>1, <4>1, <4>3, <4>4
    <3>2. CASE ts[o].data # ts[a].data
      <4>1. x \in Tensor /\ x.type = "dynamic"
            /\ (~ SetsResized(moved, dims) => x.dims = moved.dims)
            /\ (Elsewhere(moved) => Elsewhere(x))
        BY <2>3, <2>5, <3>2, TensorResized
      <4> QED BY <2>3, <2>4, <3>2, <4>1
    <3> QED BY <3>1, <3>2
  <2>7. Sizing(g, node, ts, q)
    BY <1>1, <1>3, <2>1, <2>6, OneSized
  <2>8. (\A t \in AllTensors(g) : t # o => q[t] = ts[t]) /\ q[o] = x
    BY <1>1, <1>2, <2>1 DEF With
  <2> QED BY <1>5, <2>6, <2>7, <2>8 DEF a, o
<1>6. CASE node.kind \notin {"unique", "reshapeTo"}
  <2>1. q = ts
    BY <1>6 DEF EvalResize
  <2> QED BY <1>3, <1>6, <2>1 DEF o
<1> QED BY <1>4, <1>5, <1>6

-----------------------------------------------------------------------------
(* PrepareOpsStartingAt. *)

LEMMA InputDimsSame ==
  ASSUME NEW node, NEW ts, NEW q, \A t \in Range(node.in) : q[t].dims = ts[t].dims
  PROVE  InputDims(q, node) = InputDims(ts, node)
<1>1. \A j \in DOMAIN node.in : node.in[j] \in Range(node.in)
  BY DEF Range
<1> QED BY <1>1 DEF InputDims

\* Node i was prepared with the inputs it has.
PreparedAt(ts, prepared, i) ==
  /\ prepared[i] = InputDims(ts, graph.nodes[i])
  /\ graph.nodes[i].kind = "unique" => ts[graph.nodes[i].out[1]].type = "dynamic"

AccFields == {"ok", "stopped", "last", "ts", "preparedFor"}

\* The nodes before the first are left alone.
KeptBefore(first, c) ==
  /\ DOMAIN c = AccFields /\ c.ok \in BOOLEAN /\ c.stopped \in BOOLEAN
  /\ TensorsOK(graph, c.ts) /\ DOMAIN c.preparedFor = NodesOf(graph)
  /\ \A t \in AllTensors(graph) : tensors[t].type = "dynamic" => c.ts[t].type = "dynamic"
  /\ \A i \in NodesOf(graph) :
       i < first => /\ c.preparedFor[i] = preparedFor[i]
                    /\ \A t \in Range(graph.nodes[i].in) : c.ts[t] = tensors[t]
  /\ ~ c.ok => c.stopped
  /\ PersistentAlone(graph, tensors, c.ts)

\* After k nodes: those from the first to the last are prepared.
PreparedFrom(first, c, k) ==
  /\ KeptBefore(first, c)
  /\ k = 0 => ~ c.stopped
  /\ ~ c.stopped /\ k >= 1 => c.last = first + k - 1
  /\ c.ok /\ k >= 1 => c.last \in first .. first + k - 1
  /\ c.ok /\ k >= 1 => \A i \in first .. c.last : PreparedAt(c.ts, c.preparedFor, i)

\* Argument: the failure, the first node.
PrepareStep(a, c, i) == PrepareNode(c, i, a[1])

PrepareGood(a, c, k) == PreparedFrom(a[2], c, k)

Prepares == INSTANCE FoldInvariant WITH Step <- PrepareStep, Good <- PrepareGood

\* A node is prepared after the nodes that make what it reads.
LEMMA PrepareStepKeeps ==
  ASSUME graph \in Graphs, NEW failure, NEW first \in NodesOf(graph),
         NEW k \in Nat, k >= 1, NEW i \in NodesOf(graph), i = first + k - 1,
         NEW c, PreparedFrom(first, c, k - 1)
  PROVE  PreparedFrom(first, PrepareNode(c, i, failure), k)
<1> DEFINE node == graph.nodes[i]
           q == OpPrepare(c.ts, node)
           r == PrepareNode(c, i, failure)
           prepared == [c.preparedFor EXCEPT ![i] = InputDims(c.ts, node)]
<1>0. /\ DOMAIN c = AccFields /\ c.ok \in BOOLEAN /\ c.stopped \in BOOLEAN
      /\ TensorsOK(graph, c.ts) /\ DOMAIN c.preparedFor = NodesOf(graph)
      /\ \A t \in AllTensors(graph) : tensors[t].type = "dynamic" => c.ts[t].type = "dynamic"
      /\ \A j \in NodesOf(graph) :
           j < first => /\ c.preparedFor[j] = preparedFor[j]
                        /\ \A t \in Range(graph.nodes[j].in) : c.ts[t] = tensors[t]
      /\ ~ c.ok => c.stopped
      /\ PersistentAlone(graph, tensors, c.ts)
  BY DEF PreparedFrom, KeptBefore
<1>1. /\ KeptBefore(first, c)
      /\ k - 1 = 0 => ~ c.stopped
      /\ ~ c.stopped /\ k - 1 >= 1 => c.last = first + (k - 1) - 1
      /\ c.ok /\ k - 1 >= 1 => c.last \in first .. first + (k - 1) - 1
      /\ c.ok /\ k - 1 >= 1 => \A j \in first .. c.last : PreparedAt(c.ts, c.preparedFor, j)
  BY DEF PreparedFrom
<1>2. first \in Nat /\ i \in Nat /\ NodesOf(graph) \in SUBSET Nat
      /\ NodesOf(graph) = 0 .. (NumNodes(graph) - 1) /\ NumNodes(graph) \in Nat
  BY GraphFacts
<1>3. CASE c.stopped
  <2>1. r = c
    BY <1>3 DEF PrepareNode
  <2> HIDE DEF r
  <2>2. k - 1 >= 1
    BY <1>1, <1>3
  <2>3. c.ok => c.last \in first .. first + k - 1
    BY <1>1, <1>2, <2>2
  <2>4. PreparedFrom(first, r, k)
    BY <1>1, <1>3, <2>1, <2>2, <2>3 DEF PreparedFrom
  <2> QED BY <2>4 DEF r
<1>4. CASE ~ c.stopped /\ failure = PrepareFails(i)
  <2>1. r = [c EXCEPT !.ok = FALSE, !.stopped = TRUE]
    BY <1>4 DEF PrepareNode
  <2>2. /\ DOMAIN r = AccFields /\ r.ok = FALSE /\ r.stopped = TRUE
        /\ r.ts = c.ts /\ r.preparedFor = c.preparedFor
    BY <1>0, <2>1 DEF AccFields
  <2> HIDE DEF r
  <2>3. KeptBefore(first, r)
    BY <1>0, <2>2 DEF KeptBefore
  <2>4. PreparedFrom(first, r, k)
    BY <2>2, <2>3 DEF PreparedFrom
  <2> QED BY <2>4 DEF r
<1>5. CASE ~ c.stopped /\ failure # PrepareFails(i)
  <2>1. r = NodePrepared(c, i, q)
    BY <1>5 DEF PrepareNode
  <2>2. /\ DOMAIN r = AccFields /\ r.ok = TRUE /\ r.stopped \in BOOLEAN /\ r.last = i
        /\ r.ts = q /\ r.preparedFor = prepared
    <3>1. StopsPreparation(q, node) \in BOOLEAN
      BY DEF StopsPreparation, HasDynamicTensor
    <3> HIDE DEF q, r
    <3> QED BY <2>1, <3>1 DEF NodePrepared, AccFields, prepared
  <2>3. Fits(graph, node)
        /\ (\A j \in NodesOf(graph) : j <= i => Makes(node) \intersect Range(graph.nodes[j].in) = {})
        /\ (\A j \in NodesOf(graph) : Range(graph.nodes[j].in) \in SUBSET AllTensors(graph))
        /\ (\A j \in NodesOf(graph) : graph.nodes[j].out[1] \in AllTensors(graph))
    BY NodeFacts
  <2> HIDE DEF node
  <2>4. Sizing(graph, node, c.ts, q) /\ (node.kind = "unique" => q[node.out[1]].type = "dynamic")
    BY <1>0, <2>3, OpPrepareKeeps
  <2>5. \A j \in NodesOf(graph) : j <= i => \A t \in Range(graph.nodes[j].in) : q[t] = c.ts[t]
    BY <2>3, <2>4, NodeTensors DEF Sizing
  <2>6. \A j \in NodesOf(graph) : j <= i => InputDims(q, graph.nodes[j]) = InputDims(c.ts, graph.nodes[j])
    <3> TAKE j \in NodesOf(graph)
    <3> HAVE j <= i
    <3>1. \A t \in Range(graph.nodes[j].in) : q[t].dims = c.ts[t].dims
      BY <2>5
    <3> QED BY <3>1, InputDimsSame
  <2>7. DOMAIN prepared = NodesOf(graph) /\ prepared[i] = InputDims(c.ts, node)
        /\ \A j \in NodesOf(graph) : j # i => prepared[j] = c.preparedFor[j]
    BY <1>0
  <2> HIDE DEF q, prepared, r
  <2>8. \A j \in NodesOf(graph) : j < first =>
          prepared[j] = preparedFor[j] /\ \A t \in Range(graph.nodes[j].in) : q[t] = tensors[t]
    <3>1. \A j \in NodesOf(graph) : j < first => j <= i /\ j # i
      BY <1>2
    <3> QED BY <1>0, <2>5, <2>7, <3>1
  <2>9. \A t \in AllTensors(graph) : tensors[t].type = "dynamic" => q[t].type = "dynamic"
    BY <1>0, <2>4 DEF Sizing
  <2>10. ASSUME NEW j \in first .. i PROVE PreparedAt(q, prepared, j)
    <3>1. j \in NodesOf(graph) /\ j <= i
      BY <1>2
    <3>2. CASE j = i
      BY <2>4, <2>6, <2>7, <3>1, <3>2 DEF PreparedAt, node
    <3>3. CASE j # i
      <4>1. k - 1 >= 1 /\ c.last = i - 1 /\ j \in first .. c.last
        BY <1>1, <1>2, <1>5, <3>3
      <4>2. PreparedAt(c.ts, c.preparedFor, j)
        BY <1>0, <1>1, <1>5, <4>1
      <4> QED BY <2>3, <2>4, <2>6, <2>7, <3>1, <3>3, <4>2 DEF PreparedAt, Sizing
    <3> QED BY <3>2, <3>3
  <2>11. i \in first .. first + k - 1 /\ k # 0
    BY <1>2
  <2>12. TensorsOK(graph, q)
    BY <2>4 DEF Sizing
  <2>13. PreparedFrom(first, r, k)
    <3>1. PersistentAlone(graph, tensors, q)
      <4>1. Sizing(graph, node, c.ts, q) /\ SizedBy(node) \intersect Persistent(graph) = {}
        BY <2>4, PersistentFacts DEF SizedBy, node
      <4>2. PersistentAlone(graph, c.ts, q)
        BY <4>1, PersistentFacts, SizingAlone
      <4> QED BY <1>0, <4>2, AloneKeeps
    <3>2. KeptBefore(first, r)
      BY <2>2, <2>7, <2>8, <2>9, <2>12, <3>1 DEF KeptBefore
    <3> QED BY <2>2, <2>10, <2>11, <3>2 DEF PreparedFrom
  <2> QED BY <2>13 DEF r
<1> QED BY <1>3, <1>4, <1>5

LEMMA PrepareOpsStartingAtPrepares ==
  ASSUME graph \in Graphs, TensorsOK(graph, tensors), DOMAIN preparedFor = NodesOf(graph),
         NEW failure, NEW first \in NodesOf(graph),
         NEW r, r = PrepareOpsStartingAt(first, failure)
  PROVE  PreparedFrom(first, r, NumNodes(graph) - first)
<1> DEFINE base == [ok |-> TRUE, stopped |-> FALSE, last |-> 0, ts |-> tensors,
                    preparedFor |-> preparedFor]
           m == NumNodes(graph) - 1
           n == NumNodes(graph) - first
           seq == NodeSeq(first, m)
           a == <<failure, first>>
<1>1. first \in Nat /\ NumNodes(graph) \in Nat /\ NodesOf(graph) = 0 .. m
      /\ first \in Int /\ m \in Int /\ first <= m /\ m - first + 1 = n /\ n \in Nat
  BY GraphFacts
<1>2. r = FoldLeft(LAMBDA acc, i : PrepareNode(acc, i, failure), base, seq)
  BY DEF PrepareOpsStartingAt
<1>3. FoldLeft(LAMBDA acc, i : PrepareNode(acc, i, failure), base, seq)
      = Prepares!Fold(<<failure, first>>, base, seq)
  BY DEF PrepareStep, Prepares!Fold, Prepares!FoldLeft, Prepares!MapThenFoldSet, Prepares!Max,
         FoldLeft, MapThenFoldSet, Max
<1> HIDE DEF m
<1>4. DOMAIN seq = 1..n /\ \A k \in 1..n : seq[k] = first + k - 1
  BY <1>1, NodeSeqFacts
<1>5. \A k \in 1..n : k \in Nat /\ k >= 1 /\ seq[k] \in NodesOf(graph) /\ seq[k] = first + k - 1
  BY <1>1, <1>4
<1>6. PreparedFrom(first, base, 0)
  BY <1>1 DEF PreparedFrom, KeptBefore, AccFields, PersistentAlone
<1> HIDE DEF seq, base, n
<1>7. a[1] = failure /\ a[2] = first
  OBVIOUS
<1> HIDE DEF a
<1>8. \A k \in 1..n : \A c : PrepareGood(a, c, k - 1) => PrepareGood(a, PrepareStep(a, c, seq[k]), k)
  BY <1>5, <1>7, PrepareStepKeeps DEF PrepareStep, PrepareGood
<1>9. PrepareGood(a, base, 0)
  BY <1>6, <1>7 DEF PrepareGood
<1>10. PrepareGood(a, Prepares!Fold(a, base, seq), n)
  BY <1>1, <1>4, <1>8, <1>9, Prepares!FoldKeeps
<1>11. PreparedFrom(first, Prepares!Fold(a, base, seq), n)
  BY <1>7, <1>10 DEF PrepareGood
<1> QED BY <1>2, <1>3, <1>11 DEF n, a

-----------------------------------------------------------------------------
(* PrepareOpsAndTensors. *)

\* What a call that starts to prepare at the node first leaves.
PrepareResult(first, p, r) ==
  /\ r.ok \in BOOLEAN /\ r.hasPlanner \in BOOLEAN
  /\ TensorsOK(graph, r.ts) /\ PlannerOK(graph, r.p)
  /\ hasPlanner /\ p.hasNonPersistent => r.hasPlanner /\ r.p.hasNonPersistent
  /\ r.ok => r.hasPlanner /\ r.p.hasNonPersistent
  /\ r.nextPrepare \in first .. NumNodes(graph) /\ (r.ok => r.nextPrepare # first)
  /\ r.nextPlan \in 0 .. r.nextPrepare
  /\ DOMAIN r.preparedFor = NodesOf(graph)
  /\ \A t \in AllTensors(graph) : tensors[t].type = "dynamic" => r.ts[t].type = "dynamic"
  /\ \A i \in NodesOf(graph) :
       i < first => /\ r.preparedFor[i] = preparedFor[i]
                    /\ \A t \in Range(graph.nodes[i].in) : r.ts[t].dims = tensors[t].dims
  /\ \A i \in first .. r.nextPrepare - 1 : PreparedAt(r.ts, r.preparedFor, i)

\* The planner's last active node is behind the next node to plan, unless the
\* call failed while it planned.
PlanResult(first, planFirst, p, r) ==
  /\ r.ok => r.p.lastActive < r.nextPlan
  /\ ~ r.ok => r.nextPlan = planFirst /\ (r.nextPrepare = first => r.p = p)

LEMMA PrepareOpsAndTensorsResult ==
  ASSUME graph \in Graphs, TensorsOK(graph, tensors), DOMAIN preparedFor = NodesOf(graph),
         hasPlanner \in BOOLEAN, NEW p, PlannerOK(graph, p),
         NEW first \in NodesOf(graph), NEW planFirst \in 0 .. first, NEW failure,
         NEW r, r = PrepareOpsAndTensors(p, first, planFirst, failure)
  PROVE  PrepareResult(first, p, r) /\ PlanResult(first, planFirst, p, r)
<1> DEFINE prepared == PrepareOpsStartingAt(first, failure)
           planned == IF hasPlanner THEN p ELSE PlanAllocations(graph, prepared.ts, p)
           executed == ExecuteAllocations(graph, prepared.ts, planned, planFirst, prepared.last,
                                          failure # ArenaFails, failure # PersistentArenaFails)
           n == NumNodes(graph) - first
<1>1. first \in Nat /\ NodesOf(graph) = 0 .. (NumNodes(graph) - 1) /\ NumNodes(graph) \in Nat
      /\ n >= 1 /\ planFirst \in NodesOf(graph) /\ n \in Nat
      /\ \A i \in NodesOf(graph) : Range(graph.nodes[i].in) \in SUBSET AllTensors(graph)
      /\ \A k \in NodesOf(graph) : graph.nodes[k].out[1] \in AllTensors(graph)
  BY GraphFacts, NodeFacts
<1>2. PreparedFrom(first, prepared, n)
  BY PrepareOpsStartingAtPrepares
<1>3. r = AllocatePrepared(prepared, p, first, planFirst, failure)
  BY DEF PrepareOpsAndTensors
<1> HIDE DEF prepared
<1>4. KeptBefore(first, prepared)
  BY <1>2 DEF PreparedFrom
<1>5. /\ prepared.ok \in BOOLEAN
      /\ TensorsOK(graph, prepared.ts) /\ DOMAIN prepared.preparedFor = NodesOf(graph)
      /\ \A t \in AllTensors(graph) : tensors[t].type = "dynamic" => prepared.ts[t].type = "dynamic"
      /\ \A i \in NodesOf(graph) :
           i < first => /\ prepared.preparedFor[i] = preparedFor[i]
                        /\ \A t \in Range(graph.nodes[i].in) : prepared.ts[t].dims = tensors[t].dims
  BY <1>4 DEF KeptBefore
<1>6. CASE ~ prepared.ok
  <2>1. r = [ok |-> FALSE, ts |-> prepared.ts, p |-> p, hasPlanner |-> hasPlanner,
             nextPrepare |-> first, nextPlan |-> planFirst, preparedFor |-> prepared.preparedFor]
    BY <1>3, <1>6 DEF AllocatePrepared
  <2>2. first \in first .. NumNodes(graph) /\ first .. first - 1 = {}
    BY <1>1
  <2> QED BY <1>5, <2>1, <2>2 DEF PrepareResult, PlanResult
<1>7. CASE prepared.ok
  <2>1. prepared.last \in first .. first + n - 1
        /\ \A i \in first .. prepared.last : PreparedAt(prepared.ts, prepared.preparedFor, i)
    BY <1>1, <1>2, <1>7 DEF PreparedFrom
  <2>2. prepared.last \in NodesOf(graph) /\ prepared.last + 1 \in first .. NumNodes(graph)
        /\ prepared.last + 1 # first /\ prepared.last + 1 - 1 = prepared.last
        /\ planFirst \in 0 .. prepared.last + 1 /\ prepared.last + 1 \in 0 .. prepared.last + 1
        /\ first .. prepared.last \in SUBSET NodesOf(graph)
    BY <1>1, <2>1
  <2>3. r = AfterAllocations(prepared, executed, planFirst)
    BY <1>3, <1>7 DEF AllocatePrepared
  <2>4. PlannerOK(graph, planned) /\ (p.hasNonPersistent => planned.hasNonPersistent)
    BY <1>5, PlanAllocationsKeeps
  <2> HIDE DEF planned
  <2>5. /\ executed.ok \in BOOLEAN
        /\ TensorsOK(graph, executed.ts) /\ SameShapes(prepared.ts, executed.ts)
        /\ PlannerOK(graph, executed.p)
        /\ planned.hasNonPersistent => executed.p.hasNonPersistent
        /\ executed.ok => executed.p.hasNonPersistent /\ executed.p.lastActive = prepared.last
    <3>1. (failure # ArenaFails) \in BOOLEAN /\ (failure # PersistentArenaFails) \in BOOLEAN
      OBVIOUS
    <3>2. graph \in Graphs /\ TensorsOK(graph, prepared.ts) /\ PlannerOK(graph, planned)
          /\ planFirst \in NodesOf(graph) /\ prepared.last \in NodesOf(graph)
      BY <1>1, <1>5, <2>2, <2>4
    <3>3. Executed(graph, prepared.ts, planned, prepared.last, executed)
      BY <3>1, <3>2, ExecuteAllocationsKeeps
    <3> HIDE DEF executed
    <3> QED BY <3>3 DEF Executed
  <2> HIDE DEF executed
  <2>6. /\ r.ok = executed.ok /\ r.ts = executed.ts /\ r.p = executed.p /\ r.hasPlanner = TRUE
        /\ r.nextPrepare = prepared.last + 1
        /\ r.nextPlan = (IF executed.ok THEN prepared.last + 1 ELSE planFirst)
        /\ r.preparedFor = prepared.preparedFor
    BY <2>3 DEF AfterAllocations
  <2>7. \A t \in AllTensors(graph) : executed.ts[t].dims = prepared.ts[t].dims
                                     /\ executed.ts[t].type = prepared.ts[t].type
    BY <1>5, <2>5 DEF SameShapes, TensorsOK
  <2>8. \A i \in NodesOf(graph) : \A t \in Range(graph.nodes[i].in) :
          r.ts[t].dims = prepared.ts[t].dims
    BY <1>1, <2>6, <2>7
  <2>9. \A i \in first .. prepared.last : PreparedAt(r.ts, r.preparedFor, i)
    <3> TAKE i \in first .. prepared.last
    <3>1. i \in NodesOf(graph)
      BY <2>2
    <3>2. InputDims(r.ts, graph.nodes[i]) = InputDims(prepared.ts, graph.nodes[i])
      BY <2>8, <3>1, InputDimsSame
    <3>3. r.ts[graph.nodes[i].out[1]].type = prepared.ts[graph.nodes[i].out[1]].type
      BY <1>1, <2>6, <2>7, <3>1, ZenonT(40)
    <3> QED BY <2>1, <2>6, <3>2, <3>3 DEF PreparedAt
  <2>10. \A t \in AllTensors(graph) : tensors[t].type = "dynamic" => r.ts[t].type = "dynamic"
    BY <1>5, <2>6, <2>7
  <2>11. \A i \in NodesOf(graph) :
           i < first => /\ r.preparedFor[i] = preparedFor[i]
                        /\ \A t \in Range(graph.nodes[i].in) : r.ts[t].dims = tensors[t].dims
    BY <1>5, <2>6, <2>8
  <2>12. r.nextPlan \in 0 .. r.nextPrepare /\ r.nextPrepare \in first .. NumNodes(graph)
         /\ r.nextPrepare # first /\ r.nextPrepare - 1 = prepared.last
    <3>1. prepared.last \in Int
      BY <1>1, <2>2
    <3> QED BY <2>2, <2>6, <3>1
  <2>13. PlanResult(first, planFirst, p, r)
    <3>1. prepared.last \in Int /\ prepared.last < prepared.last + 1
      BY <1>1, <2>2
    <3> QED BY <2>2, <2>5, <2>6, <3>1 DEF PlanResult
  <2>14. PrepareResult(first, p, r)
    BY <1>5, <2>4, <2>5, <2>6, <2>9, <2>10, <2>11, <2>12 DEF PrepareResult
  <2> QED BY <2>13, <2>14
<1> QED BY <1>5, <1>6, <1>7

\* The persistent tensors that the nodes before n use, the variables with node 0.
UsedBefore(g, n) ==
  {t \in g.variables : n >= 1}
  \union {g.nodes[i].tmp[2] : i \in {k \in NodesOf(g) : k < n /\ g.nodes[k].kind = "svdf"}}

PlacedBefore(g, ts, p, n) == \A t \in UsedBefore(g, n) : Placed(ts, p, t)

\* What happens to the persistent tensors: a call that succeeds moves none that
\* is placed, and places those of the nodes it plans.
PlaceResult(first, p, r) ==
  /\ PersistentKept(graph, r.ts)
  /\ r.hasPlanner => graph.variables \in SUBSET r.p.nodesToTensors[0]
  /\ r.ok => /\ r.nextPlan = r.nextPrepare
             /\ PersistentApart(graph, r.p)
             /\ PlacedBefore(graph, r.ts, r.p, r.nextPlan)
             /\ hasPlanner => \A t \in Persistent(graph) :
                                Placed(tensors, p, t) => Region(r.ts, t) = Region(tensors, t)
  /\ ~ r.ok /\ r.nextPrepare = first =>
       r.p = p /\ r.hasPlanner = hasPlanner /\ PersistentAlone(graph, tensors, r.ts)

LEMMA PlacedBeforeGrows ==
  ASSUME NEW g \in Graphs, NEW ts, NEW p, NEW first, first \in NodesOf(g),
         NEW last, last \in NodesOf(g), first <= last,
         PlacedBefore(g, ts, p, first), g.variables \in SUBSET p.nodesToTensors[0],
         NEW r, Executes(g, ts, p, first, last, r), r.ok
  PROVE  PlacedBefore(g, r.ts, r.p, last + 1)
<1>1. /\ first \in Nat /\ last \in Nat /\ NodesOf(g) \in SUBSET Nat
      /\ g.variables \in SUBSET Persistent(g)
      /\ \A i \in NodesOf(g) : g.nodes[i].kind = "svdf" =>
           g.nodes[i].tmp[2] \in Persistent(g) /\ g.nodes[i].tmp[2] \in Range(g.nodes[i].tmp)
  BY GraphFacts, PersistentFacts
<1>2. \A t \in Persistent(g) :
        /\ Placed(ts, p, t) => Placed(r.ts, r.p, t)
        /\ \A i \in first .. last :
             t \in p.nodesToTensors[i] \union Range(g.nodes[i].tmp) => Placed(r.ts, r.p, t)
  BY DEF Executes
<1>3. ASSUME NEW t \in g.variables PROVE Placed(r.ts, r.p, t)
  <2>1. CASE first >= 1
    <3>1. t \in UsedBefore(g, first)
      BY <2>1 DEF UsedBefore
    <3>2. Placed(ts, p, t)
      BY <3>1 DEF PlacedBefore
    <3> QED BY <1>1, <1>2, <3>2
  <2>2. CASE ~ (first >= 1)
    <3>1. 0 \in first .. last
      BY <1>1, <2>2
    <3> QED BY <1>1, <1>2, <3>1
  <2> QED BY <2>1, <2>2
<1>4. ASSUME NEW i \in NodesOf(g), i < last + 1, g.nodes[i].kind = "svdf"
      PROVE  Placed(r.ts, r.p, g.nodes[i].tmp[2])
  <2>1. CASE i < first
    <3>1. g.nodes[i].tmp[2] \in UsedBefore(g, first)
      BY <1>4, <2>1 DEF UsedBefore
    <3>2. Placed(ts, p, g.nodes[i].tmp[2])
      BY <3>1 DEF PlacedBefore
    <3> QED BY <1>1, <1>2, <1>4, <3>2
  <2>2. CASE ~ (i < first)
    <3>1. i \in first .. last
      BY <1>1, <1>4, <2>2
    <3> QED BY <1>1, <1>2, <1>4, <3>1
  <2> QED BY <2>1, <2>2
<1> QED BY <1>3, <1>4 DEF PlacedBefore, UsedBefore

LEMMA PrepareOpsAndTensorsPlaces ==
  ASSUME graph \in Graphs, TensorsOK(graph, tensors), DOMAIN preparedFor = NodesOf(graph),
         hasPlanner \in BOOLEAN, PersistentKept(graph, tensors),
         NEW p, PlannerOK(graph, p),
         hasPlanner => PersistentApart(graph, p) /\ graph.variables \in SUBSET p.nodesToTensors[0],
         NEW first \in NodesOf(graph), NEW planFirst \in 0 .. first, NEW failure,
         PlacedBefore(graph, tensors, p, planFirst), hasPlanner \/ planFirst = 0,
         NEW r, r = PrepareOpsAndTensors(p, first, planFirst, failure)
  PROVE  PlaceResult(first, p, r)
<1> DEFINE prepared == PrepareOpsStartingAt(first, failure)
           planned == IF hasPlanner THEN p ELSE PlanAllocations(graph, prepared.ts, p)
           executed == ExecuteAllocations(graph, prepared.ts, planned, planFirst, prepared.last,
                                          failure # ArenaFails, failure # PersistentArenaFails)
           n == NumNodes(graph) - first
<1>1. first \in Nat /\ NodesOf(graph) = 0 .. (NumNodes(graph) - 1) /\ NumNodes(graph) \in Nat
      /\ n >= 1 /\ planFirst \in NodesOf(graph) /\ n \in Nat /\ planFirst <= first
  BY GraphFacts
<1>2. PreparedFrom(first, prepared, n)
  BY PrepareOpsStartingAtPrepares
<1>3. r = AllocatePrepared(prepared, p, first, planFirst, failure)
  BY DEF PrepareOpsAndTensors
<1> HIDE DEF prepared
<1>4. PersistentAlone(graph, tensors, prepared.ts) /\ TensorsOK(graph, prepared.ts)
      /\ prepared.ok \in BOOLEAN
  BY <1>2 DEF PreparedFrom, KeptBefore
<1>5. PersistentKept(graph, prepared.ts)
  BY <1>4, AloneKeeps
<1>6. CASE ~ prepared.ok
  <2>1. r = [ok |-> FALSE, ts |-> prepared.ts, p |-> p, hasPlanner |-> hasPlanner,
             nextPrepare |-> first, nextPlan |-> planFirst, preparedFor |-> prepared.preparedFor]
    BY <1>3, <1>6 DEF AllocatePrepared
  <2> QED BY <1>4, <1>5, <2>1 DEF PlaceResult
<1>7. CASE prepared.ok
  <2>1. prepared.last \in first .. first + n - 1
    BY <1>1, <1>2, <1>7 DEF PreparedFrom
  <2>2. prepared.last \in NodesOf(graph) /\ planFirst <= prepared.last /\ prepared.last \in Int
        /\ prepared.last + 1 # first
    BY <1>1, <2>1
  <2>3. r = AfterAllocations(prepared, executed, planFirst)
    BY <1>3, <1>7 DEF AllocatePrepared
  <2>4. PlannerOK(graph, planned) /\ PersistentApart(graph, planned)
        /\ graph.variables \in SUBSET planned.nodesToTensors[0]
        /\ (hasPlanner => planned = p)
    <3>1. CASE hasPlanner
      BY <3>1
    <3>2. CASE ~ hasPlanner
      <4> DEFINE q == PlanAllocations(graph, prepared.ts, p)
      <4>1. PlannerOK(graph, q) /\ q.allocs = [t \in AllTensors(graph) |-> NoAlloc]
            /\ graph.variables \in SUBSET q.nodesToTensors[0]
        BY <1>4, PlanAllocationsKeeps
      <4> HIDE DEF q
      <4>2. PersistentApart(graph, q)
        BY <4>1 DEF PersistentApart, Persistent, NoAlloc
      <4> QED BY <3>2, <4>1, <4>2 DEF q
    <3> QED BY <3>1, <3>2
  <2>5. PlacedBefore(graph, prepared.ts, planned, planFirst)
    <3>1. CASE hasPlanner
      <4>1. \A t \in UsedBefore(graph, planFirst) : t \in Persistent(graph)
        BY PersistentFacts DEF UsedBefore
      <4>2. \A t \in Persistent(graph) : t \in AllTensors(graph) /\ prepared.ts[t] = tensors[t]
        BY <1>4 DEF PersistentAlone, Persistent
      <4> QED BY <2>4, <3>1, <4>1, <4>2 DEF PlacedBefore, Placed
    <3>2. CASE planFirst = 0
      <4>1. UsedBefore(graph, planFirst) = {}
        BY <1>1, <3>2 DEF UsedBefore
      <4> QED BY <4>1 DEF PlacedBefore
    <3> QED BY <3>1, <3>2
  <2> HIDE DEF planned
  <2>6. Executes(graph, prepared.ts, planned, planFirst, prepared.last, executed)
    <3>1. (failure # ArenaFails) \in BOOLEAN /\ (failure # PersistentArenaFails) \in BOOLEAN
      OBVIOUS
    <3>2. graph \in Graphs /\ TensorsOK(graph, prepared.ts) /\ PlannerOK(graph, planned)
          /\ planFirst \in NodesOf(graph) /\ prepared.last \in NodesOf(graph)
          /\ PersistentKept(graph, prepared.ts) /\ PersistentApart(graph, planned)
      BY <1>1, <1>4, <1>5, <2>2, <2>4
    <3> QED BY <3>1, <3>2, ExecuteAllocationsPlaces
  <2> HIDE DEF executed
  <2>7. /\ r.ok = executed.ok /\ r.ts = executed.ts /\ r.p = executed.p /\ r.hasPlanner = TRUE
        /\ r.nextPrepare = prepared.last + 1
        /\ r.nextPlan = (IF executed.ok THEN prepared.last + 1 ELSE planFirst)
    BY <2>3 DEF AfterAllocations
  <2>8. PersistentKept(graph, r.ts) /\ graph.variables \in SUBSET r.p.nodesToTensors[0]
    BY <2>4, <2>6, <2>7 DEF Executes
  <2>9. ASSUME r.ok
        PROVE  /\ r.nextPlan = r.nextPrepare /\ PersistentApart(graph, r.p)
               /\ PlacedBefore(graph, r.ts, r.p, r.nextPlan)
    <3>1. PlacedBefore(graph, executed.ts, executed.p, prepared.last + 1)
      BY <1>1, <2>2, <2>4, <2>5, <2>6, <2>7, <2>9, PlacedBeforeGrows
    <3> QED BY <2>6, <2>7, <2>9, <3>1 DEF Executes
  <2>10. ASSUME r.ok, hasPlanner, NEW t \in Persistent(graph), Placed(tensors, p, t)
         PROVE  Region(r.ts, t) = Region(tensors, t)
    <3>1. prepared.ts[t] = tensors[t]
      BY <1>4 DEF PersistentAlone, Persistent
    <3>2. Placed(prepared.ts, planned, t) /\ Region(prepared.ts, t) = Region(tensors, t)
      BY <2>4, <2>10, <3>1 DEF Placed, Region
    <3> QED BY <2>6, <2>7, <2>10, <3>2 DEF Executes
  <2>11. r.nextPrepare # first
    BY <2>2, <2>7
  <2> QED BY <2>7, <2>8, <2>9, <2>10, <2>11 DEF PlaceResult
<1> QED BY <1>4, <1>6, <1>7

-----------------------------------------------------------------------------
(* The invariant: every variable has its type, an Invoke has the memory it *)
(* runs in, and it never gets past the nodes that are prepared.            *)

Held == [where : {"rw", "persistent", "heap", "null", "freed", "nothing"},
         offset : Size, size : Size]

SubgraphTyped ==
  /\ graph \in Graphs
  /\ TensorsOK(graph, tensors)
  /\ PlannerOK(graph, planner)
  /\ hasPlanner \in BOOLEAN
  /\ state \in {"uninvokable", "invokable"}
  /\ nextPrepare \in 0 .. NumNodes(graph) /\ nextPlan \in 0 .. nextPrepare
  /\ pc \in {"idle", "visit", "run"} /\ index \in 0 .. NumNodes(graph)
  /\ held \in [AllTensors(graph) -> Held]
  /\ filled \in SUBSET graph.inputs /\ initialized \in SUBSET NodesOf(graph)
  /\ DOMAIN preparedFor = NodesOf(graph)
  /\ invokeOk \in BOOLEAN

InvokeAtPrepared ==
  /\ pc # "idle" => state = "invokable"
  /\ pc = "run" => index \in NodesOf(graph) /\ index < nextPrepare
  /\ pc = "visit" => index <= nextPrepare

SubgraphInv == SubgraphTyped /\ InvokeAtPrepared /\ InvokableHasMemory

LEMMA NothingHeld == Nothing \in Held
BY SizeMaxAssumption DEF Nothing, Held, Size

LEMMA RegionHeld ==
  ASSUME NEW g, NEW ts, TensorsOK(g, ts), NEW t \in AllTensors(g)
  PROVE  Region(ts, t) \in Held
<1>1. ts[t] \in Tensor
  BY DEF TensorsOK
<1> QED BY <1>1 DEF Tensor, Data, Region, Held

LEMMA WrittenHeld ==
  ASSUME NEW g, NEW ts, TensorsOK(g, ts), held \in [AllTensors(g) -> Held], NEW W
  PROVE  Written(ts, W) \in [AllTensors(g) -> Held]
<1>1. TensorsOf(ts) = AllTensors(g)
  BY DEF TensorsOK, TensorsOf
<1>2. \A u \in AllTensors(g) : Written(ts, W)[u] \in {Nothing, Region(ts, u), held[u]}
  BY <1>1 DEF Written
<1>3. \A u \in AllTensors(g) : Written(ts, W)[u] \in Held
  BY <1>2, NothingHeld, RegionHeld
<1>4. Written(ts, W) = [u \in AllTensors(g) |-> Written(ts, W)[u]]
  BY <1>1 DEF Written
<1> QED BY <1>3, <1>4

LEMMA AfterEvalHeld ==
  ASSUME NEW g, NEW ts, TensorsOK(g, ts), held \in [AllTensors(g) -> Held],
         NEW node, node.out[1] \in AllTensors(g)
  PROVE  AfterEval(ts, node) \in [AllTensors(g) -> Held]
<1> DEFINE W == EvalWrites(ts, node, index \in initialized)
           place == IF Readable(node.in[1]) THEN Region(ts, node.out[1]) ELSE Nothing
<1>1. Written(ts, W) \in [AllTensors(g) -> Held]
  BY WrittenHeld
<1>2. place \in Held
  BY NothingHeld, RegionHeld
<1>3. AfterEval(ts, node) \in {[held EXCEPT ![node.out[1]] = place], Written(ts, W)}
  BY DEF AfterEval
<1> HIDE DEF place
<1>4. [held EXCEPT ![node.out[1]] = place] \in [AllTensors(g) -> Held]
  BY <1>2
<1> QED BY <1>1, <1>3, <1>4

LEMMA InitInv == Init => SubgraphInv
<1> SUFFICES ASSUME Init PROVE SubgraphInv
  OBVIOUS
<1>1. graph \in Graphs /\ tensors = graph.tensors /\ planner = NewPlanner(graph, tensors)
      /\ hasPlanner = FALSE /\ state = "uninvokable" /\ nextPrepare = 0 /\ nextPlan = 0
      /\ pc = "idle" /\ index = 0 /\ held = [t \in TensorsOf(tensors) |-> Nothing]
      /\ filled = {} /\ initialized = {} /\ preparedFor = [i \in NodesOf(graph) |-> NotPrepared]
      /\ invokeOk = FALSE
  BY DEF Init
<1>2. TensorsOK(graph, tensors) /\ NumNodes(graph) \in Nat
  BY <1>1, GraphFacts
<1>3. PlannerOK(graph, planner)
  BY <1>1, <1>2, NewPlannerTyped
<1>4. held \in [AllTensors(graph) -> Held]
  BY <1>1, NothingHeld DEF AllTensors
<1>5. 0 \in 0 .. NumNodes(graph) /\ 0 \in 0 .. 0 /\ DOMAIN preparedFor = NodesOf(graph)
  BY <1>1, <1>2
<1>6. SubgraphTyped
  BY <1>1, <1>2, <1>3, <1>4, <1>5, Zenon DEF SubgraphTyped
<1> QED BY <1>1, <1>6 DEF SubgraphInv, InvokeAtPrepared, InvokableHasMemory

\* The calls that change no tensor and no plan.
LEMMA QuietInv ==
  ASSUME SubgraphInv,
         FillInputs \/ BeginInvoke \/ VisitNode \/ CancelInvoke \/ RunNodeFails \/ InvokeReturns
  PROVE  SubgraphInv'
<1>1. /\ graph \in Graphs /\ TensorsOK(graph, tensors) /\ NumNodes(graph) \in Nat
      /\ NodesOf(graph) = 0 .. (NumNodes(graph) - 1) /\ 0 \in 0 .. NumNodes(graph)
      /\ held \in [AllTensors(graph) -> Held] /\ SubgraphTyped /\ InvokeAtPrepared
      /\ nextPrepare \in 0 .. NumNodes(graph) /\ index \in 0 .. NumNodes(graph)
  BY GraphFacts DEF SubgraphInv, SubgraphTyped
<1>2. \A W : Written(tensors, W) \in [AllTensors(graph) -> Held]
  BY <1>1, WrittenHeld
<1>3. CASE FillInputs
  BY <1>1, <1>2, <1>3 DEF SubgraphInv, SubgraphTyped, InvokeAtPrepared, InvokableHasMemory, FillInputs
<1>4. CASE BeginInvoke
  <2>1. /\ pc' = "visit" /\ index' = 0 /\ invokeOk' = FALSE /\ state = "invokable"
        /\ UNCHANGED <<graph, tensors, planner, hasPlanner, state, nextPrepare, nextPlan, held,
                       filled, initialized, preparedFor>>
    BY <1>4 DEF BeginInvoke
  <2>2. SubgraphTyped'
    BY <1>1, <2>1 DEF SubgraphTyped
  <2>3. 0 <= nextPrepare
    BY <1>1
  <2>4. InvokeAtPrepared'
    BY <2>1, <2>3 DEF InvokeAtPrepared
  <2> QED BY <2>1, <2>2, <2>4 DEF SubgraphInv, InvokableHasMemory
<1>5. CASE VisitNode
  BY <1>1, <1>5
     DEF SubgraphInv, SubgraphTyped, InvokeAtPrepared, InvokableHasMemory, VisitNode, LeaveInvoke
<1>6. CASE CancelInvoke
  BY <1>1, <1>6
     DEF SubgraphInv, SubgraphTyped, InvokeAtPrepared, InvokableHasMemory, CancelInvoke, LeaveInvoke
<1>7. CASE RunNodeFails
  <2> DEFINE W == EvalWrites(tensors, Node, index \in initialized)
             after == [t \in TensorsOf(tensors) |->
                         IF t \in W \ graph.variables THEN Nothing ELSE Written(tensors, W)[t]]
  <2>1. TensorsOf(tensors) = AllTensors(graph)
    BY <1>1 DEF TensorsOK, TensorsOf
  <2>2. held' = after
    BY <1>7 DEF RunNodeFails
  <2> HIDE DEF W
  <2>3. held' \in [AllTensors(graph) -> Held]
    BY <1>2, <2>1, <2>2, NothingHeld
  <2> QED BY <1>1, <1>7, <2>3
     DEF SubgraphInv, SubgraphTyped, InvokeAtPrepared, InvokableHasMemory, RunNodeFails, LeaveInvoke
<1>8. CASE InvokeReturns
  BY <1>1, <1>8
     DEF SubgraphInv, SubgraphTyped, InvokeAtPrepared, InvokableHasMemory, InvokeReturns, LeaveInvoke
<1> QED BY <1>3, <1>4, <1>5, <1>6, <1>7, <1>8

LEMMA AllocateTensorsInv ==
  ASSUME SubgraphInv, NEW failure, AllocateTensors(failure)
  PROVE  SubgraphInv'
<1> DEFINE p == IF hasPlanner THEN ResetAllocations(planner) ELSE planner
<1>1. /\ graph \in Graphs /\ TensorsOK(graph, tensors) /\ PlannerOK(graph, planner)
      /\ hasPlanner \in BOOLEAN /\ DOMAIN preparedFor = NodesOf(graph)
      /\ held \in [AllTensors(graph) -> Held]
      /\ NumNodes(graph) \in Nat /\ 0 \in NodesOf(graph) /\ 0 \in 0 .. 0
  BY GraphFacts DEF SubgraphInv, SubgraphTyped
<1>2. PlannerOK(graph, p)
  BY <1>1, ResetAllocationsKeeps
<1> HIDE DEF p
<1>3. PICK r : /\ r = PrepareOpsAndTensors(p, 0, 0, failure)
               /\ Becomes(r) /\ state' = IF r.ok THEN "invokable" ELSE "uninvokable"
               /\ held' = IF r.ok THEN Written(r.ts, graph.variables) ELSE held
  BY DEF AllocateTensors, p
<1>4. PrepareResult(0, p, r)
  BY <1>1, <1>2, <1>3, PrepareOpsAndTensorsResult
<1>5. held' \in [AllTensors(graph) -> Held]
  BY <1>1, <1>3, <1>4, WrittenHeld DEF PrepareResult
<1>6. /\ pc = "idle" /\ filled' = {} /\ invokeOk' = FALSE
      /\ UNCHANGED <<graph, pc, index, initialized>>
  BY DEF AllocateTensors
<1>7. SubgraphTyped'
  BY <1>3, <1>4, <1>5, <1>6 DEF SubgraphInv, SubgraphTyped, Becomes, PrepareResult
<1> QED BY <1>3, <1>4, <1>6, <1>7
    DEF SubgraphInv, InvokeAtPrepared, InvokableHasMemory, Becomes, PrepareResult

LEMMA VisitAndPrepareNodeInv ==
  ASSUME SubgraphInv, NEW failure, VisitAndPrepareNode(failure)
  PROVE  SubgraphInv'
<1>1. /\ graph \in Graphs /\ TensorsOK(graph, tensors) /\ PlannerOK(graph, planner)
      /\ hasPlanner \in BOOLEAN /\ DOMAIN preparedFor = NodesOf(graph)
      /\ nextPlan \in 0 .. nextPrepare
  BY DEF SubgraphInv, SubgraphTyped
<1>2. index \in NodesOf(graph) /\ index = nextPrepare /\ pc = "visit" /\ state = "invokable"
      /\ hasPlanner /\ planner.hasNonPersistent
      /\ NumNodes(graph) \in Nat /\ index \in Int /\ 0 \in 0 .. NumNodes(graph)
      /\ index \in 0 .. NumNodes(graph)
  BY <1>1, GraphFacts
     DEF VisitAndPrepareNode, SubgraphInv, SubgraphTyped, InvokeAtPrepared, InvokableHasMemory
<1>3. PICK r : /\ r = PrepareOpsAndTensors(planner, nextPrepare, nextPlan, failure)
               /\ Becomes(r)
               /\ \/ pc' = "idle" /\ index' = 0
                  \/ r.ok /\ pc' = "run" /\ index' = index
  BY DEF VisitAndPrepareNode, LeaveInvoke
<1>4. PrepareResult(nextPrepare, planner, r)
  BY <1>1, <1>2, <1>3, PrepareOpsAndTensorsResult
<1>5. UNCHANGED <<graph, state, held, filled, initialized, invokeOk>>
  BY DEF VisitAndPrepareNode
<1>6. nextPrepare' \in 0 .. NumNodes(graph) /\ nextPrepare' \in nextPrepare .. NumNodes(graph)
      /\ (r.ok => index < nextPrepare')
  BY <1>2, <1>3, <1>4 DEF Becomes, PrepareResult
<1>7. SubgraphTyped'
  BY <1>2, <1>3, <1>4, <1>5, <1>6 DEF SubgraphInv, SubgraphTyped, Becomes, PrepareResult
<1> QED BY <1>2, <1>3, <1>4, <1>5, <1>6, <1>7
    DEF SubgraphInv, InvokeAtPrepared, InvokableHasMemory, Becomes, PrepareResult

LEMMA ResizeInputTensorInv ==
  ASSUME SubgraphInv, NEW t \in graph.inputs, NEW n \in graph.inputSizes,
         ResizeInputTensor(t, <<n, tensors[t].dims[2]>>)
  PROVE  SubgraphInv'
<1> DEFINE dims == <<n, tensors[t].dims[2]>>
           x == ResizeTensorImpl(tensors[t], dims)
<1>1. t \in AllTensors(graph) /\ n \in Sizes
  BY GraphFacts DEF SubgraphInv, SubgraphTyped
<1>2. tensors[t] \in Tensor /\ tensors[t].dims \in Dims
  BY <1>1 DEF SubgraphInv, SubgraphTyped, TensorsOK, Tensor
<1>3. dims \in Dims
  BY <1>1, <1>2 DEF Dims
<1> HIDE DEF dims
<1>4. x \in Tensor
  BY <1>2, <1>3, TensorResized
<1>5. tensors' = [tensors EXCEPT ![t] = x]
  BY DEF ResizeInputTensor, dims
<1> HIDE DEF x
<1>6. TensorsOK(graph, tensors')
  BY <1>4, <1>5 DEF SubgraphInv, SubgraphTyped, TensorsOK
<1> QED BY <1>6 DEF ResizeInputTensor, SubgraphInv, SubgraphTyped, InvokeAtPrepared, InvokableHasMemory

LEMMA ReleaseNonPersistentMemoryInv ==
  ASSUME SubgraphInv, ReleaseNonPersistentMemory
  PROVE  SubgraphInv'
<1> DEFINE r == ReleaseArena(tensors, planner)
           after == [t \in TensorsOf(tensors) |-> IF held[t].where = "rw" THEN Nothing ELSE held[t]]
<1>1. TensorsOK(graph, tensors) /\ PlannerOK(graph, planner) /\ held \in [AllTensors(graph) -> Held]
      /\ TensorsOf(tensors) = AllTensors(graph)
  BY DEF SubgraphInv, SubgraphTyped, TensorsOK, TensorsOf
<1>2. TensorsOK(graph, r.ts) /\ PlannerOK(graph, r.p)
  BY <1>1, ReleaseArenaKeeps
<1>3. after \in [AllTensors(graph) -> Held]
  BY <1>1, NothingHeld
<1>4. /\ planner' = r.p /\ tensors' = r.ts /\ held' = after /\ pc = "idle" /\ state' = "uninvokable"
      /\ filled' = {} /\ invokeOk' = FALSE
      /\ UNCHANGED <<graph, hasPlanner, nextPrepare, nextPlan, pc, index, initialized, preparedFor>>
  BY DEF ReleaseNonPersistentMemory
<1> HIDE DEF r, after
<1> QED BY <1>2, <1>3, <1>4 DEF SubgraphInv, SubgraphTyped, InvokeAtPrepared, InvokableHasMemory

\* The data pointers that MaybeReleaseDynamicTensors clears.
LEMMA ClearedTyped ==
  ASSUME NEW g, NEW ts, TensorsOK(g, ts), NEW S, NEW q, q = WithData(ts, S, LAMBDA t : Null)
  PROVE  TensorsOK(g, q) /\ SameShapes(ts, q)
<1>1. IsAFcn(q) /\ DOMAIN q = DOMAIN ts
      /\ \A t \in DOMAIN ts : q[t] = ts[t] \/ q[t] = [ts[t] EXCEPT !.data = Null]
  BY DEF WithData, TensorsOf, IsAFcn
<1> QED BY <1>1, PointersTyped, DataAssigned

\* Running a node sizes its tensors and clears pointers; the nodes after it are
\* prepared again if one of its outputs changed.
RunResult(sized, again) ==
  /\ TensorsOK(graph, tensors') /\ SameShapes(sized, tensors')
  /\ PlannerOK(graph, planner') /\ planner'.hasNonPersistent = planner.hasNonPersistent
  /\ nextPrepare' = (IF again THEN index + 1 ELSE nextPrepare)
  /\ nextPlan' = (IF again /\ nextPlan > index + 1 THEN index + 1 ELSE nextPlan)
  /\ held' \in [AllTensors(graph) -> Held]

LEMMA RunNodeResult ==
  ASSUME SubgraphInv, NEW dims \in Dims, RunNode(dims)
  PROVE  /\ Fits(graph, Node) /\ index \in NodesOf(graph)
         /\ RunResult(EvalResize(tensors, Node, dims),
                      PrepareAgain(EvalResize(tensors, Node, dims), dims))
<1> DEFINE sized == EvalResize(tensors, Node, dims)
           again == PrepareAgain(sized, dims)
           r == PlanAgain(sized, again)
           released == ReleasedDynamic(r.ts, Node)
           after == AfterEval(sized, Node)
           left == [t \in DOMAIN after |-> IF t \in released THEN Nothing ELSE after[t]]
<1>1. /\ tensors' = WithData(r.ts, released, LAMBDA t : Null) /\ held' = left /\ planner' = r.p
      /\ nextPrepare' = (IF again THEN index + 1 ELSE nextPrepare)
      /\ nextPlan' = (IF again /\ nextPlan > index + 1 THEN index + 1 ELSE nextPlan)
  BY DEF RunNode
<1>2. /\ graph \in Graphs /\ TensorsOK(graph, tensors) /\ PlannerOK(graph, planner)
      /\ held \in [AllTensors(graph) -> Held] /\ index \in NodesOf(graph)
  BY DEF SubgraphInv, SubgraphTyped, InvokeAtPrepared, RunNode
<1>3. Fits(graph, Node) /\ Node.out[1] \in AllTensors(graph) /\ index \in Int
  BY <1>2, NodeFacts, GraphFacts DEF Node
<1>4. TensorsOK(graph, sized)
  BY <1>2, <1>3, EvalResizeKeeps DEF Sizing
<1>5. after \in [AllTensors(graph) -> Held]
  BY <1>2, <1>3, <1>4, AfterEvalHeld
<1> HIDE DEF sized, after
<1>6. left \in [AllTensors(graph) -> Held]
  BY <1>5, NothingHeld
<1> HIDE DEF left
<1>7. TensorsOK(graph, r.ts) /\ SameShapes(sized, r.ts) /\ PlannerOK(graph, r.p)
      /\ r.p.hasNonPersistent = planner.hasNonPersistent
  <2>1. CASE again /\ nextPlan > index + 1
    <3>1. r = ResetAllocationsAfter(sized, planner, index)
      BY <2>1 DEF PlanAgain
    <3> HIDE DEF r, again
    <3>2. graph \in Graphs /\ TensorsOK(graph, sized) /\ PlannerOK(graph, planner) /\ index \in Int
      BY <1>2, <1>3, <1>4
    <3>3. ResetTo(graph, sized, planner, index, r)
      BY <3>1, <3>2, ResetAllocationsAfterKeeps
    <3>4. SameShapes(sized, r.ts) /\ TensorsOK(graph, r.ts) /\ PlannerOK(graph, r.p)
          /\ r.p.hasNonPersistent = planner.hasNonPersistent
      BY ONLY <3>3 DEF ResetTo
    <3> QED BY ONLY <3>4
  <2>2. CASE ~ (again /\ nextPlan > index + 1)
    <3>1. r.ts = sized /\ r.p = planner
      BY <2>2 DEF PlanAgain
    <3> QED BY <1>2, <1>4, <3>1 DEF SameShapes
  <2> QED BY <2>1, <2>2
<1> HIDE DEF r, again, released
<1>8. TensorsOK(graph, tensors') /\ SameShapes(r.ts, tensors')
  BY <1>1, <1>7, ClearedTyped
<1>9. SameShapes(sized, tensors')
  BY <1>4, <1>7, <1>8 DEF SameShapes, TensorsOK
<1>10. RunResult(sized, again)
  BY <1>1, <1>6, <1>7, <1>8, <1>9 DEF RunResult
<1> QED BY <1>2, <1>3, <1>10 DEF sized, again

LEMMA RunNodeInv ==
  ASSUME SubgraphInv, NEW dims \in Dims, RunNode(dims)
  PROVE  SubgraphInv'
<1> DEFINE again == PrepareAgain(EvalResize(tensors, Node, dims), dims)
<1>1. /\ TensorsOK(graph, tensors') /\ PlannerOK(graph, planner')
      /\ planner'.hasNonPersistent = planner.hasNonPersistent
      /\ nextPrepare' = (IF again THEN index + 1 ELSE nextPrepare)
      /\ nextPlan' = (IF again /\ nextPlan > index + 1 THEN index + 1 ELSE nextPlan)
      /\ held' \in [AllTensors(graph) -> Held] /\ index \in NodesOf(graph)
  BY RunNodeResult DEF RunResult
<1> HIDE DEF again
<1>2. /\ graph \in Graphs /\ NumNodes(graph) \in Nat /\ NodesOf(graph) = 0 .. (NumNodes(graph) - 1)
      /\ nextPrepare \in 0 .. NumNodes(graph) /\ nextPlan \in 0 .. nextPrepare
      /\ index < nextPrepare /\ pc = "run" /\ state = "invokable"
      /\ initialized \in SUBSET NodesOf(graph)
  BY GraphFacts DEF SubgraphInv, SubgraphTyped, InvokeAtPrepared, RunNode
<1>3. /\ index' = index + 1 /\ pc' = "visit"
      /\ UNCHANGED <<graph, hasPlanner, state, filled, preparedFor, invokeOk>>
      /\ initialized' = IF Node.kind = "svdf" THEN initialized \union {index} ELSE initialized
  BY DEF RunNode
<1>4. nextPrepare' \in 0 .. NumNodes(graph) /\ nextPlan' \in 0 .. nextPrepare'
      /\ index' \in 0 .. NumNodes(graph) /\ index' <= nextPrepare'
  BY <1>1, <1>2, <1>3
<1>5. initialized' \in SUBSET NodesOf(graph)
  BY <1>1, <1>2, <1>3
<1>6. SubgraphTyped'
  BY <1>1, <1>3, <1>4, <1>5 DEF SubgraphInv, SubgraphTyped
<1>7. InvokeAtPrepared'
  BY <1>2, <1>3, <1>4 DEF InvokeAtPrepared
<1> QED BY <1>1, <1>3, <1>6, <1>7 DEF SubgraphInv, InvokableHasMemory

LEMMA NextInv == SubgraphInv /\ [Next]_vars => SubgraphInv'
<1> SUFFICES ASSUME SubgraphInv, [Next]_vars PROVE SubgraphInv'
  OBVIOUS
<1>1. CASE UNCHANGED vars
  BY <1>1 DEF vars, SubgraphInv, SubgraphTyped, InvokeAtPrepared, InvokableHasMemory
<1>2. CASE \E failure \in Failures("mallocInAllocate") : AllocateTensors(failure)
  BY <1>2, AllocateTensorsInv
<1>3. CASE \E t \in graph.inputs, n \in graph.inputSizes :
             ResizeInputTensor(t, <<n, tensors[t].dims[2]>>)
  BY <1>3, ResizeInputTensorInv
<1>4. CASE ReleaseNonPersistentMemory
  BY <1>4, ReleaseNonPersistentMemoryInv
<1>5. CASE \E failure \in Failures("mallocInInvoke") : VisitAndPrepareNode(failure)
  BY <1>5, VisitAndPrepareNodeInv
<1>6. CASE \E dims \in Dims : RunNode(dims)
  BY <1>6, RunNodeInv
<1>7. CASE FillInputs \/ BeginInvoke \/ VisitNode \/ CancelInvoke \/ RunNodeFails \/ InvokeReturns
  BY <1>7, QuietInv
<1> QED BY <1>1, <1>2, <1>3, <1>4, <1>5, <1>6, <1>7 DEF Next

LEMMA InvAlways == Spec => []SubgraphInv
BY InitInv, NextInv, PTL DEF Spec

\* Every variable of the subgraph has its type, the tensors' sizes and offsets
\* in size_t among them: whatever the graphs, sizes and faults.
THEOREM SubgraphTypeOK == Spec => []TypeOK
<1>1. SubgraphInv => TypeOK
  <2> SUFFICES ASSUME SubgraphInv PROVE TypeOK
    OBVIOUS
  <2>1. SubgraphTyped /\ TensorsOK(graph, tensors) /\ PlannerOK(graph, planner)
        /\ nextPrepare \in 0 .. NumNodes(graph) /\ nextPlan \in 0 .. nextPrepare
        /\ index \in 0 .. NumNodes(graph) /\ NumNodes(graph) \in Nat
        /\ held \in [AllTensors(graph) -> Held] /\ planner.hasNonPersistent \in BOOLEAN
        /\ DOMAIN planner.actualId \subseteq AllTensors(graph)
    BY GraphFacts DEF SubgraphInv, SubgraphTyped, PlannerOK, SharingOK
  <2>2. ASSUME NEW t \in AllTensors(graph)
        PROVE  /\ tensors[t].bytes \in Size /\ tensors[t].dims \in Dims
               /\ tensors[t].type \in {"rw", "persistent", "dynamic"} /\ tensors[t].data \in Places
               /\ [where |-> held[t].where, offset |-> held[t].offset] \in Places
               /\ planner.allocs[t].offset \in Size /\ planner.allocs[t].size \in Size
    <3>1. tensors[t] \in Tensor /\ planner.allocs[t] \in Block /\ held[t] \in Held
      BY <2>1 DEF TensorsOK, PlannerOK
    <3> QED BY <3>1 DEF Tensor, Data, Places, Block, Held
  <2>3. {nextPrepare, nextPlan, index} \subseteq 0 .. NumNodes(graph)
    BY <2>1
  <2> QED BY <2>1, <2>2, <2>3 DEF SubgraphTyped, TypeOK, AllTensors
<1> QED BY <1>1, InvAlways, PTL

\* An invokable subgraph has a planner with its arena, whatever failed before:
\* the tests for it in AllocateTensors and Invoke never find it missing.
THEOREM InvokableAlwaysHasMemory == Spec => []InvokableHasMemory
<1>1. SubgraphInv => InvokableHasMemory
  BY DEF SubgraphInv
<1> QED BY <1>1, InvAlways, PTL

-----------------------------------------------------------------------------
(* A node runs with the dims it was prepared for.                          *)

\* While the subgraph is invokable every node before the next to prepare was
\* prepared with the dims its inputs have: they may not change unreported.
PreparedUpTo ==
  state = "invokable" =>
    \A i \in NodesOf(graph) : i < nextPrepare => PreparedAt(tensors, preparedFor, i)

\* A reshape with the shape in a tensor, whose output another node reads, does
\* not run in its input's buffer: there it may change the output's dims and no
\* node is prepared again. The run MCReshapeTo has the counterexample.
ReadShapesCopied ==
  pc = "run" /\ Node.kind = "reshapeTo"
    => LET out == Node.out[1]
       IN  \/ tensors[out].data # tensors[Node.in[1]].data
           \/ tensors[out].type = "dynamic"
           \/ \A i \in NodesOf(graph) : out \notin Range(graph.nodes[i].in)

\* The nodes' inputs keep their dims.
LEMMA PreparedKept ==
  ASSUME graph \in Graphs, NEW i \in NodesOf(graph), NEW ts, NEW q, NEW before, NEW after,
         PreparedAt(ts, before, i), after[i] = before[i],
         \A t \in Range(graph.nodes[i].in) : q[t].dims = ts[t].dims,
         \A t \in AllTensors(graph) : ts[t].type = "dynamic" => q[t].type = "dynamic"
  PROVE  PreparedAt(q, after, i)
<1>1. InputDims(q, graph.nodes[i]) = InputDims(ts, graph.nodes[i])
  BY InputDimsSame
<1>2. graph.nodes[i].out[1] \in AllTensors(graph)
  BY NodeFacts
<1> QED BY <1>1, <1>2 DEF PreparedAt

LEMMA AllocateTensorsPrepares ==
  ASSUME SubgraphInv, NEW failure, AllocateTensors(failure)
  PROVE  PreparedUpTo'
<1> DEFINE p == IF hasPlanner THEN ResetAllocations(planner) ELSE planner
<1>1. /\ graph \in Graphs /\ TensorsOK(graph, tensors) /\ PlannerOK(graph, planner)
      /\ hasPlanner \in BOOLEAN /\ DOMAIN preparedFor = NodesOf(graph)
      /\ NumNodes(graph) \in Nat /\ 0 \in NodesOf(graph) /\ 0 \in 0 .. 0
      /\ NodesOf(graph) \in SUBSET Nat
  BY GraphFacts DEF SubgraphInv, SubgraphTyped
<1>2. PlannerOK(graph, p)
  BY <1>1, ResetAllocationsKeeps
<1> HIDE DEF p
<1>3. PICK r : r = PrepareOpsAndTensors(p, 0, 0, failure) /\ Becomes(r)
  BY DEF AllocateTensors, p
<1>4. PrepareResult(0, p, r)
  BY <1>1, <1>2, <1>3, PrepareOpsAndTensorsResult
<1>5. graph' = graph
  BY DEF AllocateTensors
<1>6. /\ nextPrepare' = r.nextPrepare /\ tensors' = r.ts /\ preparedFor' = r.preparedFor
      /\ nextPrepare' \in 0 .. NumNodes(graph)
      /\ \A i \in 0 .. nextPrepare' - 1 : PreparedAt(tensors', preparedFor', i)
  BY <1>3, <1>4 DEF Becomes, PrepareResult
<1>7. \A i \in NodesOf(graph) : i < nextPrepare' => i \in 0 .. nextPrepare' - 1
  BY <1>1, <1>6
<1> QED BY <1>5, <1>6, <1>7 DEF PreparedUpTo, PreparedAt

LEMMA VisitAndPrepareNodePrepares ==
  ASSUME SubgraphInv, PreparedUpTo, NEW failure, VisitAndPrepareNode(failure)
  PROVE  PreparedUpTo'
<1>1. /\ graph \in Graphs /\ TensorsOK(graph, tensors) /\ PlannerOK(graph, planner)
      /\ hasPlanner \in BOOLEAN /\ DOMAIN preparedFor = NodesOf(graph)
      /\ nextPlan \in 0 .. nextPrepare
      /\ pc # "idle" => state = "invokable"
      /\ NumNodes(graph) \in Nat /\ NodesOf(graph) \in SUBSET Nat
  BY GraphFacts DEF SubgraphInv, SubgraphTyped, InvokeAtPrepared
<1>2. nextPrepare \in NodesOf(graph) /\ state = "invokable" /\ graph' = graph
  BY <1>1 DEF VisitAndPrepareNode
<1>3. PICK r : /\ r = PrepareOpsAndTensors(planner, nextPrepare, nextPlan, failure)
               /\ Becomes(r)
  BY DEF VisitAndPrepareNode
<1>4. PrepareResult(nextPrepare, planner, r)
  BY <1>1, <1>2, <1>3, PrepareOpsAndTensorsResult
<1>5. /\ nextPrepare' = r.nextPrepare /\ tensors' = r.ts /\ preparedFor' = r.preparedFor
      /\ nextPrepare' \in nextPrepare .. NumNodes(graph)
      /\ \A t \in AllTensors(graph) : tensors[t].type = "dynamic" => r.ts[t].type = "dynamic"
      /\ \A i \in NodesOf(graph) :
           i < nextPrepare => /\ r.preparedFor[i] = preparedFor[i]
                              /\ \A t \in Range(graph.nodes[i].in) : r.ts[t].dims = tensors[t].dims
      /\ \A i \in nextPrepare .. nextPrepare' - 1 : PreparedAt(r.ts, r.preparedFor, i)
  BY <1>3, <1>4 DEF Becomes, PrepareResult
<1>6. ASSUME NEW i \in NodesOf(graph), i < nextPrepare'
      PROVE  PreparedAt(r.ts, r.preparedFor, i)
  <2>1. CASE i < nextPrepare
    <3>1. PreparedAt(tensors, preparedFor, i)
      BY <1>2, <2>1 DEF PreparedUpTo
    <3> QED BY <1>1, <1>5, <2>1, <3>1, PreparedKept
  <2>2. CASE ~ (i < nextPrepare)
    <3>1. i \in nextPrepare .. nextPrepare' - 1
      BY <1>1, <1>2, <1>5, <1>6, <2>2
    <3> QED BY <1>5, <3>1
  <2> QED BY <2>1, <2>2
<1> QED BY <1>2, <1>5, <1>6 DEF PreparedUpTo, PreparedAt

\* Running a node changes the dims of an output only if the kernel reports it:
\* then the nodes after it are to be prepared again.
LEMMA RunNodePrepares ==
  ASSUME SubgraphInv, PreparedUpTo, ReadShapesCopied, NEW dims \in Dims, RunNode(dims)
  PROVE  PreparedUpTo'
<1> DEFINE sized == EvalResize(tensors, Node, dims)
           again == PrepareAgain(sized, dims)
           out == Node.out[1]
<1>1. /\ graph \in Graphs /\ TensorsOK(graph, tensors) /\ NodesOf(graph) \in SUBSET Nat
      /\ nextPrepare \in Nat /\ index < nextPrepare /\ pc = "run" /\ state = "invokable"
      /\ index \in NodesOf(graph)
  <2>1. graph \in Graphs /\ NumNodes(graph) \in Nat /\ NodesOf(graph) \in SUBSET Nat
    BY GraphFacts DEF SubgraphInv, SubgraphTyped
  <2> QED BY <2>1 DEF SubgraphInv, SubgraphTyped, InvokeAtPrepared, RunNode
<1>2. Fits(graph, Node) /\ RunResult(sized, again)
  BY RunNodeResult
<1>3. /\ Sizing(graph, Node, tensors, sized)
      /\ \A t \in AllTensors(graph) : t # out => sized[t] = tensors[t]
      /\ Node.kind \notin {"unique", "reshapeTo"} => sized = tensors
      /\ ~ EvalResized(tensors, Node, dims) => sized[out].dims = tensors[out].dims
      /\ Node.kind = "reshapeTo" /\ tensors[out].data # tensors[Node.in[1]].data
           => sized[out].type = "dynamic"
  BY <1>1, <1>2, EvalResizeKeeps
<1>4. again <=> EvalResized(tensors, Node, dims) /\ HasDynamicTensor(sized, Range(Node.out))
  BY DEF PrepareAgain
<1>5. out \in AllTensors(graph) /\ out \in Makes(Node) /\ out \in Range(Node.out)
  BY <1>2, NodeTensors DEF Fits, Range
<1>6. /\ \A t \in AllTensors(graph) : tensors'[t].dims = sized[t].dims
                                      /\ tensors'[t].type = sized[t].type
      /\ nextPrepare' = IF again THEN index + 1 ELSE nextPrepare
  <2>1. DOMAIN sized = AllTensors(graph)
    BY <1>3 DEF Sizing, TensorsOK
  <2> HIDE DEF sized, again
  <2> QED BY <1>2, <2>1 DEF RunResult, SameShapes
<1>7. graph' = graph /\ preparedFor' = preparedFor /\ state' = state
  BY DEF RunNode
<1> HIDE DEF sized, again
<1>8. \A i \in NodesOf(graph) : i < nextPrepare => PreparedAt(tensors, preparedFor, i)
  BY <1>1 DEF PreparedUpTo
<1>9. \A t \in AllTensors(graph) : tensors[t].type = "dynamic" => tensors'[t].type = "dynamic"
  BY <1>3, <1>6 DEF Sizing
<1>10. ASSUME NEW i \in NodesOf(graph), i < nextPrepare', NEW t \in Range(graph.nodes[i].in)
       PROVE  tensors'[t].dims = tensors[t].dims
  <2>1. t \in AllTensors(graph)
    BY <1>1, NodeFacts
  <2>2. CASE i <= index
    <3>1. t \notin Makes(Node)
      BY <1>1, <2>2, NodeFacts DEF Node
    <3>2. t \notin SizedBy(Node)
      BY <1>2, <3>1, NodeTensors
    <3> QED BY <1>3, <1>6, <2>1, <3>2 DEF Sizing
  <2>3. CASE ~ (i <= index) /\ t # out
    BY <1>3, <1>6, <2>1, <2>3
  <2>4. CASE ~ (i <= index) /\ t = out
    <3>1. ~ again
      BY <1>1, <1>6, <1>10, <2>4
    <3>2. CASE Node.kind = "unique"
      <4>1. tensors[out].type = "dynamic"
        BY <1>1, <1>8, <3>2 DEF PreparedAt, Node
      <4>2. HasDynamicTensor(sized, Range(Node.out))
        BY <1>3, <1>5, <4>1 DEF Sizing, HasDynamicTensor
      <4> QED BY <1>3, <1>4, <1>6, <2>1, <2>4, <3>1, <4>2
    <3>3. CASE Node.kind = "reshapeTo"
      <4>1. \/ tensors[out].data # tensors[Node.in[1]].data
            \/ tensors[out].type = "dynamic"
        BY <1>1, <2>4, <3>3 DEF ReadShapesCopied
      <4>2. sized[out].type = "dynamic"
        BY <1>3, <1>5, <3>3, <4>1 DEF Sizing
      <4>3. HasDynamicTensor(sized, Range(Node.out))
        BY <1>5, <4>2 DEF HasDynamicTensor
      <4> QED BY <1>3, <1>4, <1>6, <2>1, <2>4, <3>1, <4>3
    <3>4. CASE Node.kind \notin {"unique", "reshapeTo"}
      BY <1>3, <1>6, <2>1, <3>4
    <3> QED BY <3>2, <3>3, <3>4
  <2> QED BY <2>2, <2>3, <2>4
<1>11. ASSUME NEW i \in NodesOf(graph), i < nextPrepare'
       PROVE  PreparedAt(tensors', preparedFor', i)
  <2>1. i < nextPrepare
    BY <1>1, <1>6, <1>11
  <2>2. PreparedAt(tensors, preparedFor, i)
    BY <1>8, <2>1
  <2>3. preparedFor'[i] = preparedFor[i]
    BY <1>7
  <2>4. \A t \in Range(graph.nodes[i].in) : tensors'[t].dims = tensors[t].dims
    BY <1>10, <1>11
  <2> QED BY <1>1, <1>9, <2>2, <2>3, <2>4, PreparedKept
<1> QED BY <1>7, <1>11 DEF PreparedUpTo, PreparedAt

LEMMA PreparedNext ==
  SubgraphInv /\ PreparedUpTo /\ ReadShapesCopied /\ [Next]_vars => PreparedUpTo'
<1> SUFFICES ASSUME SubgraphInv, PreparedUpTo, ReadShapesCopied, [Next]_vars
             PROVE  PreparedUpTo'
  OBVIOUS
<1>1. CASE UNCHANGED vars
  BY <1>1 DEF vars, PreparedUpTo, PreparedAt
<1>2. CASE \E failure \in Failures("mallocInAllocate") : AllocateTensors(failure)
  BY <1>2, AllocateTensorsPrepares
<1>3. CASE \E t \in graph.inputs, n \in graph.inputSizes :
             ResizeInputTensor(t, <<n, tensors[t].dims[2]>>)
  BY <1>3 DEF ResizeInputTensor, PreparedUpTo
<1>4. CASE ReleaseNonPersistentMemory
  BY <1>4 DEF ReleaseNonPersistentMemory, PreparedUpTo
<1>5. CASE \E failure \in Failures("mallocInInvoke") : VisitAndPrepareNode(failure)
  BY <1>5, VisitAndPrepareNodePrepares
<1>6. CASE \E dims \in Dims : RunNode(dims)
  BY <1>6, RunNodePrepares
<1>7. CASE FillInputs \/ BeginInvoke \/ VisitNode \/ CancelInvoke \/ RunNodeFails \/ InvokeReturns
  <2>1. UNCHANGED <<graph, tensors, state, nextPrepare, preparedFor>>
    BY <1>7 DEF FillInputs, BeginInvoke, VisitNode, CancelInvoke, RunNodeFails, InvokeReturns
  <2> QED BY <2>1 DEF PreparedUpTo, PreparedAt
<1> QED BY <1>1, <1>2, <1>3, <1>4, <1>5, <1>6, <1>7 DEF Next

\* A node that runs was prepared with the dims its inputs have now, however
\* often they changed since in resizes, in Evals of earlier nodes and in calls
\* that failed half way, if reshapes that others read are copies.
THEOREM PreparedForInputsAlways == Spec /\ []ReadShapesCopied => []PreparedForInputs
<1>1. Init => PreparedUpTo
  BY DEF Init, PreparedUpTo
<1>2. SubgraphInv /\ PreparedUpTo => PreparedForInputs
  <2> SUFFICES ASSUME SubgraphInv, PreparedUpTo, pc = "run"
               PROVE  preparedFor[index] = InputDims(tensors, Node)
    BY DEF PreparedForInputs
  <2> QED BY DEF SubgraphInv, InvokeAtPrepared, PreparedUpTo, PreparedAt, Node
<1> QED BY <1>1, <1>2, PreparedNext, InvAlways, PTL DEF Spec

-----------------------------------------------------------------------------
(* The next plan starts after the last node that is planned for.           *)

\* A plan that an Invoke makes as it prepares on does not fail: no malloc of an
\* arena does and no size overflows. CalculateAllocations has moved the last
\* active node when it fails. The run MCFailedReplan shows what happens then.
PlansSucceed ==
  pc = "visit" /\ nextPrepare' > nextPrepare => nextPlan' = nextPrepare'

LEMMA VisitAndPrepareNodePlansOn ==
  ASSUME SubgraphInv, PlansOnFromLastActive, PlansSucceed,
         NEW failure, VisitAndPrepareNode(failure)
  PROVE  PlansOnFromLastActive'
<1>1. /\ graph \in Graphs /\ TensorsOK(graph, tensors) /\ PlannerOK(graph, planner)
      /\ hasPlanner \in BOOLEAN /\ DOMAIN preparedFor = NodesOf(graph)
      /\ nextPrepare \in Nat /\ nextPlan \in 0 .. nextPrepare
      /\ pc # "idle" => state = "invokable"
      /\ NumNodes(graph) \in Nat /\ NodesOf(graph) \in SUBSET Nat
  BY GraphFacts DEF SubgraphInv, SubgraphTyped, InvokeAtPrepared
<1>2. nextPrepare \in NodesOf(graph) /\ pc = "visit" /\ state = "invokable" /\ state' = state
  BY <1>1 DEF VisitAndPrepareNode
<1>3. planner.lastActive < nextPlan
  BY <1>2 DEF PlansOnFromLastActive
<1>4. PICK r : /\ r = PrepareOpsAndTensors(planner, nextPrepare, nextPlan, failure)
               /\ Becomes(r)
  BY DEF VisitAndPrepareNode
<1>5. PrepareResult(nextPrepare, planner, r) /\ PlanResult(nextPrepare, nextPlan, planner, r)
  BY <1>1, <1>2, <1>4, PrepareOpsAndTensorsResult
<1>6. /\ nextPrepare' = r.nextPrepare /\ nextPlan' = r.nextPlan /\ planner' = r.p
      /\ r.nextPrepare \in nextPrepare .. NumNodes(graph)
      /\ r.ok => r.p.lastActive < r.nextPlan
      /\ ~ r.ok => r.nextPlan = nextPlan /\ (r.nextPrepare = nextPrepare => r.p = planner)
  BY <1>4, <1>5 DEF Becomes, PrepareResult, PlanResult
<1>7. CASE r.ok
  BY <1>6, <1>7 DEF PlansOnFromLastActive
<1>8. CASE ~ r.ok
  <2>1. nextPrepare' = nextPrepare
    BY <1>1, <1>2, <1>6, <1>8 DEF PlansSucceed
  <2>2. planner' = planner /\ nextPlan' = nextPlan
    BY <1>6, <1>8, <2>1
  <2> QED BY <1>3, <2>2 DEF PlansOnFromLastActive
<1> QED BY <1>7, <1>8

LEMMA RunNodePlansOn ==
  ASSUME SubgraphInv, PlansOnFromLastActive, NEW dims \in Dims, RunNode(dims)
  PROVE  PlansOnFromLastActive'
<1> DEFINE sized == EvalResize(tensors, Node, dims)
           again == PrepareAgain(sized, dims)
           r == PlanAgain(sized, again)
<1>1. /\ planner' = r.p /\ state' = state
      /\ nextPlan' = (IF again /\ nextPlan > index + 1 THEN index + 1 ELSE nextPlan)
  BY DEF RunNode
<1>2. /\ graph \in Graphs /\ TensorsOK(graph, tensors) /\ PlannerOK(graph, planner)
      /\ index \in NodesOf(graph) /\ index \in Nat /\ pc = "run" /\ state = "invokable"
  <2>1. graph \in Graphs /\ NodesOf(graph) \in SUBSET Nat
    BY GraphFacts DEF SubgraphInv, SubgraphTyped
  <2> QED BY <2>1 DEF SubgraphInv, SubgraphTyped, InvokeAtPrepared, RunNode
<1>3. planner.lastActive < nextPlan
  BY <1>2 DEF PlansOnFromLastActive
<1>4. TensorsOK(graph, sized)
  <2>1. Fits(graph, Node)
    BY <1>2, NodeFacts DEF Node
  <2> QED BY <1>2, <2>1, EvalResizeKeeps DEF Sizing
<1> HIDE DEF sized
<1>5. CASE again /\ nextPlan > index + 1
  <2>1. r = ResetAllocationsAfter(sized, planner, index)
    BY <1>5 DEF PlanAgain
  <2> HIDE DEF r, again
  <2>2. graph \in Graphs /\ TensorsOK(graph, sized) /\ PlannerOK(graph, planner) /\ index \in Int
    BY <1>2, <1>4
  <2>3. ResetTo(graph, sized, planner, index, r)
    BY <2>1, <2>2, ResetAllocationsAfterKeeps
  <2>4. r.p.lastActive = index
    BY ONLY <2>3 DEF ResetTo
  <2> QED BY <1>1, <1>2, <1>5, <2>4 DEF PlansOnFromLastActive
<1>6. CASE ~ (again /\ nextPlan > index + 1)
  <2>1. r.p = planner
    BY <1>6 DEF PlanAgain
  <2> HIDE DEF r, again
  <2> QED BY <1>1, <1>3, <1>6, <2>1 DEF PlansOnFromLastActive
<1> QED BY <1>5, <1>6

LEMMA AllocateTensorsPlansOn ==
  ASSUME SubgraphInv, NEW failure, AllocateTensors(failure)
  PROVE  PlansOnFromLastActive'
<1> DEFINE p == IF hasPlanner THEN ResetAllocations(planner) ELSE planner
<1>1. /\ graph \in Graphs /\ TensorsOK(graph, tensors) /\ PlannerOK(graph, planner)
      /\ hasPlanner \in BOOLEAN /\ DOMAIN preparedFor = NodesOf(graph)
      /\ NumNodes(graph) \in Nat /\ 0 \in NodesOf(graph) /\ 0 \in 0 .. 0
  BY GraphFacts DEF SubgraphInv, SubgraphTyped
<1>2. PlannerOK(graph, p)
  BY <1>1, ResetAllocationsKeeps
<1> HIDE DEF p
<1>3. PICK r : /\ r = PrepareOpsAndTensors(p, 0, 0, failure)
               /\ Becomes(r) /\ state' = IF r.ok THEN "invokable" ELSE "uninvokable"
  BY DEF AllocateTensors, p
<1>4. PlanResult(0, 0, p, r)
  BY <1>1, <1>2, <1>3, PrepareOpsAndTensorsResult
<1> QED BY <1>3, <1>4 DEF Becomes, PlanResult, PlansOnFromLastActive

\* As long as no plan of an Invoke fails, the next plan starts after the last
\* node that the arena is planned for, however often nodes are planned again.
THEOREM PlansAlwaysOnFromLastActive ==
  Spec /\ [][PlansSucceed]_vars => []PlansOnFromLastActive
<1>1. Init => PlansOnFromLastActive
  BY DEF Init, PlansOnFromLastActive
<1>2. SubgraphInv /\ PlansOnFromLastActive /\ [Next]_vars /\ [PlansSucceed]_vars
        => PlansOnFromLastActive'
  <2> SUFFICES ASSUME SubgraphInv, PlansOnFromLastActive, [Next]_vars, [PlansSucceed]_vars
               PROVE  PlansOnFromLastActive'
    OBVIOUS
  <2>1. CASE UNCHANGED vars
    BY <2>1 DEF vars, PlansOnFromLastActive
  <2>2. CASE PlansSucceed /\ Next
    <3>1. CASE \E failure \in Failures("mallocInAllocate") : AllocateTensors(failure)
      BY <3>1, AllocateTensorsPlansOn
    <3>2. CASE \E t \in graph.inputs, n \in graph.inputSizes :
                 ResizeInputTensor(t, <<n, tensors[t].dims[2]>>)
      BY <3>2 DEF ResizeInputTensor, PlansOnFromLastActive
    <3>3. CASE ReleaseNonPersistentMemory
      BY <3>3 DEF ReleaseNonPersistentMemory, PlansOnFromLastActive
    <3>4. CASE \E failure \in Failures("mallocInInvoke") : VisitAndPrepareNode(failure)
      BY <2>2, <3>4, VisitAndPrepareNodePlansOn
    <3>5. CASE \E dims \in Dims : RunNode(dims)
      BY <3>5, RunNodePlansOn
    <3>6. CASE FillInputs \/ BeginInvoke \/ VisitNode \/ CancelInvoke \/ RunNodeFails \/ InvokeReturns
      <4>1. UNCHANGED <<planner, state, nextPlan>>
        BY <3>6 DEF FillInputs, BeginInvoke, VisitNode, CancelInvoke, RunNodeFails, InvokeReturns
      <4> QED BY <4>1 DEF PlansOnFromLastActive
    <3> QED BY <2>2, <3>1, <3>2, <3>3, <3>4, <3>5, <3>6 DEF Next
  <2> QED BY <2>1, <2>2
<1> QED BY <1>1, <1>2, InvAlways, PTL DEF Spec

-----------------------------------------------------------------------------
(* Variables keep their values.                                            *)

\* Writing takes no place of a persistent tensor that is placed.
LEMMA WrittenKeeps ==
  ASSUME NEW g \in Graphs, NEW ts, TensorsOK(g, ts), PersistentKept(g, ts),
         NEW p, PlannerOK(g, p), PersistentApart(g, p),
         NEW W, W \in SUBSET AllTensors(g),
         \A w \in W : w \in Persistent(g) => Placed(ts, p, w),
         NEW v, v \in Persistent(g), Placed(ts, p, v), v \in W \/ held[v] = Region(ts, v)
  PROVE  Written(ts, W)[v] = Region(ts, v)
<1>1. /\ Persistent(g) \in SUBSET AllTensors(g) /\ TensorsOf(ts) = AllTensors(g)
      /\ \A t \in AllTensors(g) : p.allocs[t].offset \in Nat /\ p.allocs[t].size \in Nat
  BY PersistentFacts, SizeMaxAssumption DEF TensorsOK, TensorsOf, PlannerOK, Block, Size
<1>2. ASSUME NEW t \in Persistent(g), Placed(ts, p, t)
      PROVE  /\ Region(ts, t).where = "persistent" /\ Region(ts, t).offset = p.allocs[t].offset
             /\ Region(ts, t).size = p.allocs[t].size
  BY <1>1, <1>2 DEF Placed, Region, Pointer, PersistentApart, PersistentKept
<1>3. ASSUME NEW w \in W, w # v PROVE ~ Overlap(Region(ts, v), Region(ts, w))
  <2>1. CASE w \in Persistent(g)
    <3>1. Placed(ts, p, w)
      BY <2>1
    <3>2. Disjoint(p.allocs[v], p.allocs[w])
      BY <1>3, <2>1, <3>1 DEF PersistentApart, Placed
    <3> QED BY <1>1, <1>2, <2>1, <3>1, <3>2 DEF Disjoint, Overlap
  <2>2. CASE w \notin Persistent(g)
    <3>1. ts[w].data.where # "persistent"
      BY <2>2 DEF PersistentKept, Elsewhere
    <3> QED BY <1>2, <3>1 DEF Overlap, Region
  <2> QED BY <2>1, <2>2
<1>4. CASE v \in W
  <2>1. ~ \E w \in W \ {v} : Overlap(Region(ts, v), Region(ts, w))
    BY <1>3
  <2> QED BY <1>1, <1>4, <2>1 DEF Written
<1>5. CASE v \notin W
  <2>1. ~ \E w \in W : Overlap(held[v], Region(ts, w))
    BY <1>3, <1>5
  <2> QED BY <1>1, <1>5, <2>1 DEF Written
<1> QED BY <1>4, <1>5

\* The persistent tensors that a node writes are its own.
LEMMA WritesUsed ==
  ASSUME NEW g \in Graphs, NEW i \in NodesOf(g), NEW node, node = g.nodes[i], NEW ts, NEW once
  PROVE  /\ EvalWrites(ts, node, once) \in SUBSET AllTensors(g)
         /\ EvalWrites(ts, node, once) \intersect Persistent(g) \in SUBSET UsedBefore(g, i + 1)
<1> DEFINE W == EvalWrites(ts, node, once)
<1>1. /\ Fits(g, node) /\ i \in Nat /\ i < i + 1 /\ i + 1 >= 1
  BY NodeFacts, GraphFacts
<1>2. /\ node.out[1] \in AllTensors(g) /\ node.out[1] \in Range(node.out)
      /\ node.kind = "unique" => node.out[2] \in AllTensors(g) /\ node.out[2] \in Range(node.out)
      /\ node.kind = "svdf" => /\ node.tmp[1] \in AllTensors(g) /\ node.tmp[2] \in AllTensors(g)
                               /\ node.in[2] \in AllTensors(g)
  <2>1. node.out[1] \in Range(node.out) /\ (node.kind = "unique" => node.out[2] \in Range(node.out))
    BY <1>1 DEF Fits, Range
  <2>2. node.kind = "svdf" => node.tmp[2] \in AllTensors(g) /\ node.in[2] \in AllTensors(g)
    BY <1>1 DEF Fits
  <2> QED BY <1>1, <2>1, <2>2, NodeTensors
<1>3. /\ Range(node.out) \intersect Persistent(g) = {}
      /\ node.kind = "svdf" => node.in[2] \in g.variables /\ node.tmp[1] \notin Persistent(g)
  BY PersistentFacts
<1>4. node.kind = "svdf" => node.in[2] \in UsedBefore(g, i + 1) /\ node.tmp[2] \in UsedBefore(g, i + 1)
  BY <1>1, <1>3 DEF UsedBefore
<1>5. node.kind \in KernelKinds
  BY <1>1 DEF Fits
<1>6. \/ W \in SUBSET {node.out[1]}
      \/ node.kind = "unique" /\ W = {node.out[1], node.out[2]}
      \/ /\ node.kind = "svdf"
         /\ W \in SUBSET {node.out[1], node.in[2], node.tmp[1], node.tmp[2]}
  BY <1>5 DEF EvalWrites, AddWrites, ReshapeWrites, UniqueWrites, SvdfWrites, KernelKinds
<1> HIDE DEF W
<1>7. W \in SUBSET AllTensors(g) /\ W \intersect Persistent(g) \in SUBSET UsedBefore(g, i + 1)
  BY <1>2, <1>3, <1>4, <1>6
<1> QED BY <1>7 DEF W

\* While the subgraph is invokable every variable has a block of its own in the
\* persistent arena, its pointer there, and its value there.
VariablesInv ==
  /\ PersistentKept(graph, tensors)
  /\ hasPlanner => graph.variables \in SUBSET planner.nodesToTensors[0]
  /\ state = "invokable" =>
       /\ nextPlan = nextPrepare /\ nextPlan >= 1
       /\ PersistentApart(graph, planner)
       /\ PlacedBefore(graph, tensors, planner, nextPlan)
       /\ \A v \in graph.variables : held[v] = Region(tensors, v)

\* What VariablesInv says of one that is invokable, with the types.
LEMMA InvokableVariables ==
  ASSUME SubgraphInv, VariablesInv, state = "invokable"
  PROVE  /\ graph \in Graphs /\ TensorsOK(graph, tensors) /\ PlannerOK(graph, planner)
         /\ hasPlanner = TRUE /\ nextPlan = nextPrepare /\ nextPlan >= 1 /\ nextPlan \in Nat
         /\ PersistentApart(graph, planner) /\ PlacedBefore(graph, tensors, planner, nextPlan)
         /\ graph.variables \in SUBSET Persistent(graph)
         /\ \A v \in graph.variables : Placed(tensors, planner, v) /\ held[v] = Region(tensors, v)
<1>1. /\ graph \in Graphs /\ TensorsOK(graph, tensors) /\ PlannerOK(graph, planner)
      /\ hasPlanner = TRUE /\ nextPrepare \in 0 .. NumNodes(graph)
  BY DEF SubgraphInv, SubgraphTyped, InvokableHasMemory
<1>2. /\ nextPlan = nextPrepare /\ nextPlan >= 1
      /\ PersistentApart(graph, planner) /\ PlacedBefore(graph, tensors, planner, nextPlan)
      /\ \A v \in graph.variables : held[v] = Region(tensors, v)
  BY DEF VariablesInv
<1>3. nextPlan \in Nat /\ graph.variables \in SUBSET Persistent(graph)
  BY <1>1, <1>2, GraphFacts, PersistentFacts
<1>4. \A v \in graph.variables : v \in UsedBefore(graph, nextPlan)
  BY <1>2 DEF UsedBefore
<1> QED BY <1>1, <1>2, <1>3, <1>4 DEF PlacedBefore

LEMMA AllocateTensorsVariables ==
  ASSUME SubgraphInv, VariablesInv, NEW failure, AllocateTensors(failure)
  PROVE  VariablesInv'
<1> DEFINE p == IF hasPlanner THEN ResetAllocations(planner) ELSE planner
<1>1. /\ graph \in Graphs /\ TensorsOK(graph, tensors) /\ PlannerOK(graph, planner)
      /\ hasPlanner \in BOOLEAN /\ DOMAIN preparedFor = NodesOf(graph)
      /\ PersistentKept(graph, tensors)
      /\ 0 \in NodesOf(graph) /\ 0 \in 0 .. 0 /\ graph' = graph
  BY GraphFacts DEF SubgraphInv, SubgraphTyped, VariablesInv, AllocateTensors
<1>2. PlannerOK(graph, p)
  BY <1>1, ResetAllocationsKeeps
<1>3. ASSUME hasPlanner
      PROVE  PersistentApart(graph, p) /\ graph.variables \in SUBSET p.nodesToTensors[0]
  <2>1. p.allocs = [t \in AllTensors(graph) |-> NoAlloc] /\ p.nodesToTensors = planner.nodesToTensors
    BY <1>1, <1>3, ResetAllocationsKeeps
  <2> HIDE DEF p
  <2>2. PersistentApart(graph, p)
    BY <2>1 DEF PersistentApart, Persistent, NoAlloc
  <2> QED BY <1>3, <2>1, <2>2 DEF VariablesInv
<1>4. PlacedBefore(graph, tensors, p, 0)
  BY <1>1, GraphFacts DEF PlacedBefore, UsedBefore
<1> HIDE DEF p
<1>5. PICK r : /\ r = PrepareOpsAndTensors(p, 0, 0, failure)
               /\ Becomes(r) /\ state' = IF r.ok THEN "invokable" ELSE "uninvokable"
               /\ held' = IF r.ok THEN Written(r.ts, graph.variables) ELSE held
  BY DEF AllocateTensors, p
<1>6. PlaceResult(0, p, r)
  BY <1>1, <1>2, <1>3, <1>4, <1>5, PrepareOpsAndTensorsPlaces
<1>7. PrepareResult(0, p, r)
  BY <1>1, <1>2, <1>5, PrepareOpsAndTensorsResult
<1>8. /\ tensors' = r.ts /\ planner' = r.p /\ hasPlanner' = r.hasPlanner
      /\ nextPrepare' = r.nextPrepare /\ nextPlan' = r.nextPlan
      /\ state' = "invokable" => r.ok /\ held' = Written(r.ts, graph.variables)
  BY <1>5 DEF Becomes
<1>9. PersistentKept(graph, r.ts)
      /\ (r.hasPlanner => graph.variables \in SUBSET r.p.nodesToTensors[0])
  BY <1>6 DEF PlaceResult
<1>10. ASSUME r.ok
       PROVE  /\ r.nextPlan = r.nextPrepare /\ r.nextPlan >= 1
              /\ PersistentApart(graph, r.p) /\ PlacedBefore(graph, r.ts, r.p, r.nextPlan)
              /\ \A v \in graph.variables : Written(r.ts, graph.variables)[v] = Region(r.ts, v)
  <2>1. /\ r.nextPlan = r.nextPrepare
        /\ PersistentApart(graph, r.p) /\ PlacedBefore(graph, r.ts, r.p, r.nextPlan)
    BY <1>6, <1>10 DEF PlaceResult
  <2>2. TensorsOK(graph, r.ts) /\ PlannerOK(graph, r.p) /\ r.nextPlan >= 1
    BY <1>1, <1>7, <1>10, <2>1, GraphFacts DEF PrepareResult
  <2>3. \A v \in graph.variables : v \in Persistent(graph) /\ Placed(r.ts, r.p, v)
    BY <1>1, <2>1, <2>2, PersistentFacts DEF PlacedBefore, UsedBefore
  <2>4. graph.variables \in SUBSET AllTensors(graph)
    BY <1>1, GraphFacts
  <2> DEFINE q == r.p
             ts == r.ts
  <2>5. /\ TensorsOK(graph, ts) /\ PlannerOK(graph, q) /\ PersistentApart(graph, q)
        /\ PersistentKept(graph, ts)
        /\ \A v \in graph.variables : v \in Persistent(graph) /\ Placed(ts, q, v)
    BY <1>9, <2>1, <2>2, <2>3
  <2> HIDE DEF q, ts
  <2>6. \A v \in graph.variables : Written(ts, graph.variables)[v] = Region(ts, v)
    BY <1>1, <2>4, <2>5, WrittenKeeps
  <2> QED BY <2>1, <2>2, <2>6 DEF q, ts
<1> QED BY <1>1, <1>8, <1>9, <1>10 DEF VariablesInv

\* Preparing on and planning on leave the variables where they are.
LEMMA VisitAndPrepareNodeVariables ==
  ASSUME SubgraphInv, VariablesInv, PlansSucceed, NEW failure, VisitAndPrepareNode(failure)
  PROVE  VariablesInv'
<1>1. /\ state = "invokable" /\ state' = state /\ held' = held /\ graph' = graph
      /\ pc = "visit" /\ index = nextPrepare /\ index \in NodesOf(graph)
  BY DEF VisitAndPrepareNode, SubgraphInv, InvokeAtPrepared
<1>2. /\ graph \in Graphs /\ TensorsOK(graph, tensors) /\ PlannerOK(graph, planner)
      /\ hasPlanner = TRUE /\ nextPlan = nextPrepare /\ nextPlan >= 1 /\ nextPlan \in Nat
      /\ PersistentApart(graph, planner) /\ PlacedBefore(graph, tensors, planner, nextPlan)
      /\ graph.variables \in SUBSET Persistent(graph)
      /\ \A v \in graph.variables : Placed(tensors, planner, v) /\ held[v] = Region(tensors, v)
  BY <1>1, InvokableVariables
<1>3. /\ DOMAIN preparedFor = NodesOf(graph) /\ PersistentKept(graph, tensors)
      /\ graph.variables \in SUBSET planner.nodesToTensors[0]
      /\ nextPlan \in 0 .. nextPrepare /\ nextPrepare \in NodesOf(graph)
  BY <1>1, <1>2 DEF SubgraphInv, SubgraphTyped, VariablesInv
<1>4. PICK r : r = PrepareOpsAndTensors(planner, nextPrepare, nextPlan, failure) /\ Becomes(r)
  BY DEF VisitAndPrepareNode
<1>5. PlaceResult(nextPrepare, planner, r)
  BY <1>2, <1>3, <1>4, PrepareOpsAndTensorsPlaces
<1>6. PrepareResult(nextPrepare, planner, r) /\ PlanResult(nextPrepare, nextPlan, planner, r)
  BY <1>2, <1>3, <1>4, PrepareOpsAndTensorsResult
<1>7. /\ tensors' = r.ts /\ planner' = r.p /\ hasPlanner' = r.hasPlanner
      /\ nextPrepare' = r.nextPrepare /\ nextPlan' = r.nextPlan
  BY <1>4 DEF Becomes
<1>8. PersistentKept(graph, r.ts)
      /\ (r.hasPlanner => graph.variables \in SUBSET r.p.nodesToTensors[0])
  BY <1>5 DEF PlaceResult
<1>9. CASE r.ok
  <2>1. /\ r.nextPlan = r.nextPrepare
        /\ PersistentApart(graph, r.p) /\ PlacedBefore(graph, r.ts, r.p, r.nextPlan)
        /\ \A t \in Persistent(graph) : Placed(tensors, planner, t) =>
                                          Region(r.ts, t) = Region(tensors, t)
    BY <1>2, <1>5, <1>9 DEF PlaceResult
  <2>2. r.nextPlan >= 1
    BY <1>2, <1>6, <2>1, GraphFacts DEF PrepareResult
  <2>3. \A v \in graph.variables : held[v] = Region(r.ts, v)
    BY <1>2, <2>1
  <2> QED BY <1>1, <1>7, <1>8, <2>1, <2>2, <2>3 DEF VariablesInv
<1>10. CASE ~ r.ok
  <2>1. r.nextPlan = nextPlan /\ r.nextPrepare = nextPrepare
    <3>1. r.nextPlan = nextPlan /\ r.nextPrepare \in nextPrepare .. NumNodes(graph)
      BY <1>6, <1>10 DEF PlanResult, PrepareResult
    <3>2. NumNodes(graph) \in Nat
      BY <1>2, GraphFacts
    <3> QED BY <1>1, <1>2, <1>7, <3>1, <3>2 DEF PlansSucceed
  <2>2. r.p = planner /\ PersistentAlone(graph, tensors, r.ts)
    BY <1>5, <1>10, <2>1 DEF PlaceResult
  <2>3. \A t \in Persistent(graph) : r.ts[t] = tensors[t]
    BY <2>2 DEF PersistentAlone, Persistent
  <2>4. PlacedBefore(graph, r.ts, planner, nextPlan)
    <3>1. UsedBefore(graph, nextPlan) \in SUBSET Persistent(graph)
      BY <1>2, PersistentFacts DEF UsedBefore
    <3> QED BY <1>2, <2>3, <3>1 DEF PlacedBefore, Placed
  <2>5. \A v \in graph.variables : held[v] = Region(r.ts, v)
    BY <1>2, <2>3 DEF Region
  <2> QED BY <1>1, <1>2, <1>7, <1>8, <2>1, <2>2, <2>4, <2>5 DEF VariablesInv
<1> QED BY <1>9, <1>10

\* Going back to a node leaves the persistent tensors and their blocks alone.
ResetLeaves(g, ts, p, r) ==
  /\ PersistentAlone(g, ts, r.ts) /\ BlocksAlone(g, p, r.p)
  /\ r.p.nodesToTensors = p.nodesToTensors

LEMMA ResetAllocationsAfterPlaces ==
  ASSUME NEW g, NEW ts, TensorsOK(g, ts), PersistentKept(g, ts), NEW p, PlannerOK(g, p),
         NEW node, NEW r, r = ResetAllocationsAfter(ts, p, node)
  PROVE  ResetLeaves(g, ts, p, r)
<1> DEFINE gone == ForgottenAfter(ts, p, node)
           allocs == [t \in TensorsOf(ts) |-> IF t \in gone THEN NoAlloc ELSE p.allocs[t]]
           arena == IF p.lastActive > node
                    THEN CalculateActiveAllocs(p.arena, {allocs[t] : t \in TensorsOf(ts)}, node)
                    ELSE PurgeAfter(p.arena, node)
<1>1. /\ TensorsOf(ts) = AllTensors(g) /\ Persistent(g) \in SUBSET AllTensors(g)
      /\ \A t \in AllTensors(g) : ts[t] \in Tensor
  BY DEF TensorsOK, TensorsOf, Persistent
<1>2. r.ts = [t \in TensorsOf(ts) |-> IF t \in gone THEN [ts[t] EXCEPT !.data = Null] ELSE ts[t]]
      /\ r.p = [p EXCEPT !.allocs = allocs, !.arena = arena, !.lastActive = node]
  BY DEF ResetAllocationsAfter, WithData
<1>3. \A t \in Persistent(g) : t \notin gone
  BY <1>1 DEF ForgottenAfter, PersistentKept
<1> HIDE DEF gone
<1>4. ASSUME NEW t \in AllTensors(g)
      PROVE  IF t \in Persistent(g) THEN r.ts[t] = ts[t] ELSE Elsewhere(ts[t]) => Elsewhere(r.ts[t])
  BY <1>1, <1>2, <1>3 DEF Elsewhere, Null, Tensor
<1>5. \A t \in Persistent(g) : allocs[t] = p.allocs[t]
  BY <1>1, <1>3
<1> HIDE DEF allocs, arena
<1>6. r.p.allocs = allocs /\ r.p.persistentArena = p.persistentArena
      /\ r.p.nodesToTensors = p.nodesToTensors
  BY <1>2 DEF PlannerOK, PlannerFields
<1> QED BY <1>4, <1>5, <1>6 DEF ResetLeaves, PersistentAlone, BlocksAlone

LEMMA ReleaseArenaPlaces ==
  ASSUME NEW g, NEW ts, TensorsOK(g, ts), PersistentKept(g, ts), NEW p, PlannerOK(g, p),
         NEW r, r = ReleaseArena(ts, p)
  PROVE  PersistentKept(g, r.ts) /\ r.p.nodesToTensors = p.nodesToTensors
<1>1. /\ DOMAIN ts = AllTensors(g) /\ \A t \in AllTensors(g) : ts[t] \in Tensor
  BY DEF TensorsOK
<1>2. r.ts = [t \in AllTensors(g) |-> IF ts[t].type = "rw" THEN [ts[t] EXCEPT !.data = Null]
                                      ELSE ts[t]]
  BY <1>1 DEF ReleaseArena, WithData, TensorsOf
<1>3. PersistentKept(g, r.ts)
  BY <1>1, <1>2 DEF PersistentKept, Elsewhere, Null, Tensor
<1>4. r.p.nodesToTensors = p.nodesToTensors
  BY DEF ReleaseArena, PlannerOK, PlannerFields
<1> QED BY <1>3, <1>4

\* A node writes persistent tensors that are placed only: its own, and no
\* variable but the state of an svdf.
LEMMA EvalKeepsVariables ==
  ASSUME SubgraphInv, VariablesInv, pc = "run", NEW ts, TensorsOK(graph, ts),
         PersistentAlone(graph, tensors, ts), NEW v \in graph.variables,
         NEW W, W = EvalWrites(ts, Node, index \in initialized)
  PROVE  Written(ts, W)[v] = Region(ts, v) /\ Region(ts, v) = Region(tensors, v)
<1>1. state = "invokable" /\ index \in NodesOf(graph) /\ index < nextPrepare
  BY DEF SubgraphInv, InvokeAtPrepared
<1>2. /\ graph \in Graphs /\ PlannerOK(graph, planner)
      /\ nextPlan = nextPrepare /\ nextPlan \in Nat
      /\ PersistentApart(graph, planner) /\ PlacedBefore(graph, tensors, planner, nextPlan)
      /\ graph.variables \in SUBSET Persistent(graph)
      /\ \A u \in graph.variables : Placed(tensors, planner, u) /\ held[u] = Region(tensors, u)
  BY <1>1, InvokableVariables
<1>3. PersistentKept(graph, ts)
  BY AloneKeeps DEF VariablesInv
<1>4. \A t \in Persistent(graph) : ts[t] = tensors[t]
  BY DEF PersistentAlone, Persistent
<1>5. /\ W \in SUBSET AllTensors(graph)
      /\ W \intersect Persistent(graph) \in SUBSET UsedBefore(graph, index + 1)
  BY <1>1, <1>2, WritesUsed DEF Node
<1>6. UsedBefore(graph, index + 1) \in SUBSET UsedBefore(graph, nextPlan)
  <2>1. NodesOf(graph) \in SUBSET Nat
    BY <1>2, GraphFacts
  <2> QED BY <1>1, <1>2, <2>1 DEF UsedBefore
<1>7. \A w \in W : w \in Persistent(graph) => Placed(ts, planner, w)
  BY <1>2, <1>4, <1>5, <1>6 DEF PlacedBefore, Placed
<1>8. Placed(ts, planner, v) /\ held[v] = Region(ts, v) /\ v \in Persistent(graph)
      /\ Region(ts, v) = Region(tensors, v)
  BY <1>2, <1>4 DEF Placed, Region
<1> QED BY <1>2, <1>3, <1>5, <1>7, <1>8, WrittenKeeps

LEMMA RunNodeVariables ==
  ASSUME SubgraphInv, VariablesInv, NEW dims \in Dims, RunNode(dims)
  PROVE  VariablesInv'
<1> DEFINE sized == EvalResize(tensors, Node, dims)
           again == PrepareAgain(sized, dims)
           r == PlanAgain(sized, again)
           released == ReleasedDynamic(r.ts, Node)
           after == AfterEval(sized, Node)
<1>1. /\ pc = "run" /\ state = "invokable" /\ state' = state /\ graph' = graph
      /\ hasPlanner' = hasPlanner /\ index \in NodesOf(graph) /\ index < nextPrepare
  BY DEF RunNode, SubgraphInv, InvokeAtPrepared
<1>2. /\ tensors' = WithData(r.ts, released, LAMBDA t : Null)
      /\ held' = [t \in DOMAIN after |-> IF t \in released THEN Nothing ELSE after[t]]
      /\ planner' = r.p
      /\ nextPrepare' = (IF again THEN index + 1 ELSE nextPrepare)
      /\ nextPlan' = (IF again /\ nextPlan > index + 1 THEN index + 1 ELSE nextPlan)
  BY DEF RunNode
<1>3. /\ graph \in Graphs /\ TensorsOK(graph, tensors) /\ PlannerOK(graph, planner)
      /\ hasPlanner = TRUE /\ nextPlan = nextPrepare /\ nextPlan \in Nat /\ nextPlan >= 1
      /\ PersistentApart(graph, planner) /\ PlacedBefore(graph, tensors, planner, nextPlan)
      /\ graph.variables \in SUBSET Persistent(graph)
      /\ \A v \in graph.variables : Placed(tensors, planner, v) /\ held[v] = Region(tensors, v)
  BY <1>1, InvokableVariables
<1>4. /\ PersistentKept(graph, tensors) /\ graph.variables \in SUBSET planner.nodesToTensors[0]
      /\ held \in [AllTensors(graph) -> Held]
  BY <1>3 DEF VariablesInv, SubgraphInv, SubgraphTyped
<1>5. Fits(graph, Node) /\ Node.out[1] \in AllTensors(graph) /\ Node.out[1] \notin Persistent(graph)
      /\ SizedBy(Node) \intersect Persistent(graph) = {}
  <2>1. Fits(graph, Node) /\ Node.out[1] \in AllTensors(graph)
    BY <1>1, <1>3, NodeFacts DEF Node
  <2>2. Range(Node.out) \intersect Persistent(graph) = {}
        /\ (Node.kind = "svdf" => Node.tmp[1] \notin Persistent(graph))
    BY <1>1, <1>3, PersistentFacts DEF Node
  <2>3. Node.out[1] \in Range(Node.out)
    BY <2>1 DEF Fits, Range
  <2> QED BY <2>1, <2>2, <2>3 DEF SizedBy
<1>6. Sizing(graph, Node, tensors, sized)
  BY <1>3, <1>5, EvalResizeKeeps
<1> HIDE DEF sized
<1>7. PersistentAlone(graph, tensors, sized) /\ TensorsOK(graph, sized)
  BY <1>5, <1>6, SizingAlone DEF Sizing
<1>8. PersistentKept(graph, sized)
  BY <1>4, <1>7, AloneKeeps
<1>9. \A v \in graph.variables : after[v] = Region(tensors, v)
  <2> TAKE v \in graph.variables
  <2> DEFINE W == EvalWrites(sized, Node, index \in initialized)
             place == IF Readable(Node.in[1]) THEN Region(sized, Node.out[1]) ELSE Nothing
  <2>1. Written(sized, W)[v] = Region(tensors, v)
    BY <1>1, <1>7, EvalKeepsVariables
  <2>2. after \in {[held EXCEPT ![Node.out[1]] = place], Written(sized, W)}
    BY DEF AfterEval
  <2> HIDE DEF W, place, after
  <2>3. [held EXCEPT ![Node.out[1]] = place][v] = held[v]
    BY <1>3, <1>4, <1>5, PersistentFacts
  <2> QED BY <1>3, <2>1, <2>2, <2>3
<1>10. DOMAIN after = AllTensors(graph)
  BY <1>3, <1>4, <1>5, <1>7, AfterEvalHeld
<1> HIDE DEF after
<1>11. /\ PersistentAlone(graph, sized, r.ts) /\ BlocksAlone(graph, planner, r.p)
       /\ r.p.nodesToTensors = planner.nodesToTensors /\ TensorsOK(graph, r.ts)
  <2>1. CASE again /\ nextPlan > index + 1
    <3>1. r = ResetAllocationsAfter(sized, planner, index)
      BY <2>1 DEF PlanAgain
    <3> HIDE DEF r, again
    <3>2. ResetLeaves(graph, sized, planner, r)
      BY <1>3, <1>7, <1>8, <3>1, ResetAllocationsAfterPlaces
    <3>3. graph \in Graphs /\ TensorsOK(graph, sized) /\ PlannerOK(graph, planner) /\ index \in Int
      BY <1>1, <1>3, <1>7, GraphFacts
    <3>4. ResetTo(graph, sized, planner, index, r)
      BY <3>1, <3>3, ResetAllocationsAfterKeeps
    <3> QED BY ONLY <3>2, <3>4 DEF ResetLeaves, ResetTo
  <2>2. CASE ~ (again /\ nextPlan > index + 1)
    <3>1. r.ts = sized /\ r.p = planner
      BY <2>2 DEF PlanAgain
    <3> QED BY <1>7, <3>1 DEF PersistentAlone, BlocksAlone
  <2> QED BY <2>1, <2>2
<1> HIDE DEF r, again
<1>12. PersistentKept(graph, r.ts)
  BY <1>8, <1>11, AloneKeeps
<1>13. \A t \in Persistent(graph) : t \notin released
  BY <1>12, PersistentFacts, <1>3 DEF ReleasedDynamic, PersistentKept
<1> HIDE DEF released
<1>14. /\ \A t \in Persistent(graph) : tensors'[t] = tensors[t]
       /\ PersistentKept(graph, tensors')
  <2>1. DOMAIN r.ts = AllTensors(graph) /\ \A t \in AllTensors(graph) : r.ts[t] \in Tensor
    BY <1>11 DEF TensorsOK
  <2>2. tensors' = [t \in AllTensors(graph) |->
                      IF t \in released THEN [r.ts[t] EXCEPT !.data = Null] ELSE r.ts[t]]
    BY <1>2, <2>1 DEF WithData, TensorsOf
  <2>3. PersistentAlone(graph, r.ts, tensors')
    BY <1>13, <2>1, <2>2 DEF PersistentAlone, Elsewhere, Null, Tensor
  <2>4. PersistentKept(graph, tensors')
    BY <1>12, <2>3, AloneKeeps
  <2>5. PersistentAlone(graph, tensors, tensors')
    BY <1>7, <1>11, <2>3, AloneKeeps
  <2> QED BY <2>4, <2>5 DEF PersistentAlone, Persistent
<1>15. PersistentApart(graph, planner')
       /\ \A t \in Persistent(graph) : planner'.allocs[t] = planner.allocs[t]
  BY <1>2, <1>3, <1>11, ApartAlone DEF BlocksAlone
<1>16. nextPlan' = nextPrepare' /\ nextPlan' >= 1 /\ nextPlan' <= nextPlan /\ nextPlan' \in Nat
  <2>1. index \in Nat
    BY <1>1, <1>3, GraphFacts
  <2> QED BY <1>1, <1>2, <1>3, <2>1
<1>17. PlacedBefore(graph, tensors', planner', nextPlan')
  <2>1. NodesOf(graph) \in SUBSET Nat
    BY <1>3, GraphFacts
  <2>2. UsedBefore(graph, nextPlan') \in SUBSET UsedBefore(graph, nextPlan)
    BY <1>3, <1>16, <2>1 DEF UsedBefore
  <2>3. UsedBefore(graph, nextPlan) \in SUBSET Persistent(graph)
    BY <1>3, PersistentFacts DEF UsedBefore
  <2> QED BY <1>3, <1>14, <1>15, <2>2, <2>3 DEF PlacedBefore, Placed
<1>18. \A v \in graph.variables : held'[v] = Region(tensors', v)
  <2>1. \A v \in graph.variables : held'[v] = after[v]
    BY <1>2, <1>3, <1>10, <1>13, PersistentFacts
  <2> QED BY <1>3, <1>9, <1>14, <2>1 DEF Region
<1>19. graph.variables \in SUBSET planner'.nodesToTensors[0]
  BY <1>2, <1>4, <1>11
<1> QED BY <1>1, <1>14, <1>15, <1>16, <1>17, <1>18, <1>19 DEF VariablesInv

\* The calls that change no tensor and no plan.
LEMMA QuietVariables ==
  ASSUME SubgraphInv, VariablesInv,
         FillInputs \/ BeginInvoke \/ VisitNode \/ CancelInvoke \/ RunNodeFails \/ InvokeReturns
  PROVE  VariablesInv'
<1>1. UNCHANGED <<graph, tensors, planner, hasPlanner, state, nextPrepare, nextPlan>>
  BY DEF FillInputs, BeginInvoke, VisitNode, CancelInvoke, RunNodeFails, InvokeReturns
<1>2. ASSUME state = "invokable", NEW v \in graph.variables PROVE held'[v] = Region(tensors, v)
  <2>1. /\ graph \in Graphs /\ TensorsOK(graph, tensors) /\ PlannerOK(graph, planner)
        /\ PersistentApart(graph, planner) /\ PersistentKept(graph, tensors)
        /\ v \in Persistent(graph)
        /\ Placed(tensors, planner, v) /\ held[v] = Region(tensors, v)
    BY <1>2, InvokableVariables DEF VariablesInv
  <2>2. v \in TensorsOf(tensors)
    BY <2>1, PersistentFacts DEF TensorsOK, TensorsOf
  <2>3. CASE FillInputs
    <3>1. held' = Written(tensors, graph.inputs)
      BY <2>3 DEF FillInputs
    <3>2. graph.inputs \in SUBSET AllTensors(graph)
          /\ \A w \in graph.inputs : w \in Persistent(graph) => Placed(tensors, planner, w)
      BY <2>1, GraphFacts, PersistentFacts
    <3>3. Written(tensors, graph.inputs)[v] = Region(tensors, v)
      BY <2>1, <3>2, WrittenKeeps
    <3> QED BY <3>1, <3>3
  <2>4. CASE RunNodeFails
    <3> DEFINE W == EvalWrites(tensors, Node, index \in initialized)
    <3>1. held' = [t \in TensorsOf(tensors) |->
                     IF t \in W \ graph.variables THEN Nothing ELSE Written(tensors, W)[t]]
          /\ pc = "run"
      BY <2>4 DEF RunNodeFails
    <3>2. PersistentAlone(graph, tensors, tensors)
      BY DEF PersistentAlone
    <3>3. Written(tensors, W)[v] = Region(tensors, v)
      BY <2>1, <3>1, <3>2, EvalKeepsVariables
    <3> HIDE DEF W
    <3> QED BY <1>2, <2>2, <3>1, <3>3
  <2>5. CASE BeginInvoke \/ VisitNode \/ CancelInvoke \/ InvokeReturns
    BY <2>1, <2>5 DEF BeginInvoke, VisitNode, CancelInvoke, InvokeReturns
  <2> QED BY <2>3, <2>4, <2>5
<1> QED BY <1>1, <1>2 DEF VariablesInv

LEMMA ResizeInputTensorVariables ==
  ASSUME SubgraphInv, VariablesInv, NEW t \in graph.inputs, NEW n \in graph.inputSizes,
         ResizeInputTensor(t, <<n, tensors[t].dims[2]>>)
  PROVE  VariablesInv'
<1> DEFINE dims == <<n, tensors[t].dims[2]>>
           x == ResizeTensorImpl(tensors[t], dims)
<1>1. graph \in Graphs /\ TensorsOK(graph, tensors) /\ PersistentKept(graph, tensors)
  BY DEF SubgraphInv, SubgraphTyped, VariablesInv
<1>2. t \in AllTensors(graph) /\ n \in Sizes /\ t \notin Persistent(graph)
  BY <1>1, GraphFacts, PersistentFacts
<1>3. tensors[t] \in Tensor /\ tensors[t].dims \in Dims /\ Elsewhere(tensors[t])
  BY <1>1, <1>2 DEF TensorsOK, Tensor, PersistentKept
<1>4. dims \in Dims
  BY <1>2, <1>3 DEF Dims
<1> HIDE DEF dims
<1>5. Elsewhere(x)
  BY <1>3, <1>4, TensorResized
<1>6. /\ tensors' = [tensors EXCEPT ![t] = x] /\ state' = "uninvokable"
      /\ UNCHANGED <<graph, planner, hasPlanner>>
  BY DEF ResizeInputTensor, dims
<1> HIDE DEF x
<1>7. PersistentKept(graph, tensors')
  BY <1>1, <1>2, <1>5, <1>6 DEF TensorsOK, PersistentKept, Persistent
<1> QED BY <1>6, <1>7 DEF VariablesInv

LEMMA ReleaseNonPersistentMemoryVariables ==
  ASSUME SubgraphInv, VariablesInv, ReleaseNonPersistentMemory
  PROVE  VariablesInv'
<1> DEFINE r == ReleaseArena(tensors, planner)
<1>1. TensorsOK(graph, tensors) /\ PlannerOK(graph, planner) /\ PersistentKept(graph, tensors)
  BY DEF SubgraphInv, SubgraphTyped, VariablesInv
<1>2. PersistentKept(graph, r.ts) /\ r.p.nodesToTensors = planner.nodesToTensors
  BY <1>1, ReleaseArenaPlaces
<1>3. /\ planner' = r.p /\ tensors' = r.ts /\ state' = "uninvokable"
      /\ UNCHANGED <<graph, hasPlanner>>
  BY DEF ReleaseNonPersistentMemory
<1> HIDE DEF r
<1> QED BY <1>2, <1>3 DEF VariablesInv

LEMMA VariablesNext ==
  SubgraphInv /\ VariablesInv /\ [Next]_vars /\ [PlansSucceed]_vars => VariablesInv'
<1> SUFFICES ASSUME SubgraphInv, VariablesInv, [Next]_vars, [PlansSucceed]_vars
             PROVE  VariablesInv'
  OBVIOUS
<1>1. CASE UNCHANGED vars
  BY <1>1 DEF vars, VariablesInv
<1>2. CASE PlansSucceed /\ Next
  <2>1. CASE \E failure \in Failures("mallocInAllocate") : AllocateTensors(failure)
    BY <2>1, AllocateTensorsVariables
  <2>2. CASE \E t \in graph.inputs, n \in graph.inputSizes :
               ResizeInputTensor(t, <<n, tensors[t].dims[2]>>)
    BY <2>2, ResizeInputTensorVariables
  <2>3. CASE ReleaseNonPersistentMemory
    BY <2>3, ReleaseNonPersistentMemoryVariables
  <2>4. CASE \E failure \in Failures("mallocInInvoke") : VisitAndPrepareNode(failure)
    BY <1>2, <2>4, VisitAndPrepareNodeVariables
  <2>5. CASE \E dims \in Dims : RunNode(dims)
    BY <2>5, RunNodeVariables
  <2>6. CASE FillInputs \/ BeginInvoke \/ VisitNode \/ CancelInvoke \/ RunNodeFails \/ InvokeReturns
    BY <2>6, QuietVariables
  <2> QED BY <1>2, <2>1, <2>2, <2>3, <2>4, <2>5, <2>6 DEF Next
<1> QED BY <1>1, <1>2

\* Variables keep their values from one Invoke to the next, as long as no plan
\* of an Invoke fails: no other tensor is put into the persistent arena, no
\* variable shares its block, and no plan or failed node moves or writes one
\* but the state that an svdf updates. AllocateTensors, which does move them,
\* zeroes them.
THEOREM VariablesAlwaysPreserved == Spec /\ [][PlansSucceed]_vars => []VariablesPreserved
<1>1. Init => VariablesInv
  <2> SUFFICES ASSUME Init PROVE VariablesInv
    OBVIOUS
  <2>1. graph \in Graphs /\ tensors = graph.tensors /\ hasPlanner = FALSE /\ state = "uninvokable"
    BY DEF Init
  <2>2. \A t \in AllTensors(graph) : tensors[t].type \in {"rw", "persistent"} /\ tensors[t].data = Null
    BY <2>1, GraphsAssumption DEF AllTensors
  <2>3. PersistentKept(graph, tensors)
    BY <2>1, <2>2 DEF PersistentKept, Persistent, Elsewhere, Null
  <2> QED BY <2>1, <2>3 DEF VariablesInv
<1>2. SubgraphInv /\ VariablesInv => VariablesPreserved
  <2> SUFFICES ASSUME SubgraphInv, VariablesInv, state = "invokable", NEW v \in graph.variables
               PROVE  Readable(v)
    BY DEF VariablesPreserved
  <2>1. Placed(tensors, planner, v) /\ held[v] = Region(tensors, v)
    BY InvokableVariables
  <2> QED BY <2>1 DEF Placed, Region, Pointer, Readable
<1> QED BY <1>1, <1>2, VariablesNext, InvAlways, PTL DEF Spec
=============================================================================
