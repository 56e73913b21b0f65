------------------------- MODULE WeightCache_proofs -------------------------
(***************************************************************************)
(* Proofs about the weight cache of one process at a time, for any set of  *)
(* weights of any sizes and any alignment, with crashes anywhere, until a  *)
(* failure leads a builder astray: a truncation or a header that cannot be *)
(* written, a header or list that cannot be read back, or a later step     *)
(* that cannot be mapped.                                                  *)
(***************************************************************************)
EXTENDS WeightCache, Extrema, SequenceTheorems

\* One process has the file at a time; another one may open it when the first
\* is gone. Two at once break the properties (SharedBetweenProcesses).
OneProcess == \A p, q \in Procs : p = q

-----------------------------------------------------------------------------
(***************************************************************************)
(* The inductive invariant is about a process s and the file f.            *)
(***************************************************************************)

Entry == [key : Keys, off : Nat]
Address == [in : {"map", "heap"}, handle : Nat, cell : Nat]
Handle == [off : Nat, size : Nat \ {0}]
Miss == [off : Nat, key : {<< >>} \cup {<<k>> : k \in Keys}]
Maps(S, T) == UNION {[D -> T] : D \in SUBSET S}

Process ==
  [pc : {"down", "start", "list", "header", "up"}, step : BOOLEAN,
   runtime : BOOLEAN, fd : BOOLEAN, started : BOOLEAN, building : BOOLEAN,
   firstWrite : BOOLEAN, pos : Nat, segStart : Nat, segSize : Nat,
   schema : Seq(Entry), keys : Maps(Keys, Nat), addr : Maps(Nat, Address),
   handles : Seq(Handle), minOffset : Nat, misses : Seq(Miss), fails : Nat]

HeaderCell == {"header"} \X Nat \X Nat \X Nat \X BOOLEAN
DataCell == {"data"} \X Keys \X Nat
ListCell == {"list"} \X Seq(Entry) \X Nat
Cell == {Hole} \cup HeaderCell \cup DataCell \cup ListCell

Aligned(x) == x % kMinAlignment = 0

\* The buffers of a list are in the file, before position end.
Held(f, list, end) ==
  \A i \in DOMAIN list :
    /\ Aligned(list[i].off)
    /\ kBaseOffset + list[i].off + Size[list[i].key] <= end
    /\ HoldsData(f, list[i].off, list[i].key)

\* A file that loads has its buffers before its list.
FileSound(f) ==
  LoadChecks(f) =>
    /\ ListOffset(f[1]) >= kHeaderSize
    /\ Aligned(ListOffset(f[1]))
    /\ Held(f, LoadedList(f), ListOffset(f[1]))

\* Nothing is known yet, or nothing could be loaded.
Empty(s) ==
  /\ s.keys = << >> /\ s.addr = << >> /\ s.handles = << >> /\ s.misses = << >>
  /\ s.minOffset = 0

\* Which calls can be under way.
Control(s, f) ==
  /\ s.pc = "start" => /\ f = << >> /\ s.started /\ ~s.building /\ ~s.step
                       /\ ~s.firstWrite /\ s.schema = << >> /\ Empty(s)
  /\ s.step => s.pc # "down" /\ s.started /\ s.building
  /\ s.pc \in {"list", "header"} => /\ s.started /\ s.building
                                    /\ ~s.step => Empty(s)
  /\ s.runtime => s.handles # << >>
  /\ s.pc = "up" /\ s.started /\ ~s.building => s.firstWrite /\ LoadChecks(f)

\* Where the data of an open build step ends.
DataEnd(s) == IF s.pc = "header" THEN s.pos - Len(s.schema) - 1 ELSE s.pos

\* An open build step: the file loads only before its first write, which goes
\* over the list.
Building(s, f) ==
  s.started /\ s.building =>
    /\ kHeaderSize <= s.segStart /\ s.segStart <= DataEnd(s)
    /\ s.segSize = IF s.pc = "header" THEN s.pos - s.segStart ELSE 0
    /\ HasHeader(f)
    /\ Len(f) <= s.pos + Len(s.schema) + 1
    /\ Held(f, s.schema, DataEnd(s))
    /\ s.pc = "header" => /\ Aligned(DataEnd(s))
                          /\ Len(f) = s.pos
                          /\ SubSeq(f, DataEnd(s) + 1, s.pos) = ListCells(s.schema)
    /\ ~s.firstWrite => Version(f[1]) = kInvalidHeader
    /\ s.firstWrite =>
         /\ ListOffset(f[1]) = s.segStart
         /\ Aligned(s.segStart)
         /\ s.pos = s.segStart => /\ s.pc = "up"
                                  /\ LoadChecks(f)
                                  /\ s.schema = LoadedList(f)
         /\ s.pos # s.segStart => s.segStart < Len(f) /\ f[s.segStart + 1][1] # "list"

\* The list that a file being built has, or will have.
CurrentList(s, f) == IF s.building THEN s.schema ELSE LoadedList(f)

Missed(s, k) == \E i \in DOMAIN s.misses : s.misses[i].key = <<k>>

\* A key that was given out is in the list or was missed, and has an address
\* outside of build steps.
Known(s, f) ==
  \A k \in DOMAIN s.keys :
    /\ ~s.building => s.keys[k] \in DOMAIN s.addr
    /\ s.started => \/ \E i \in DOMAIN CurrentList(s, f) :
                         CurrentList(s, f)[i] = [key |-> k, off |-> s.keys[k]]
                    \/ Missed(s, k) /\ s.keys[k] \in DOMAIN s.addr

Typed(s, f) == s \in Process /\ f \in Seq(Cell)

Sound(s, f) ==
  /\ Typed(s, f)
  /\ FileSound(f)
  /\ Control(s, f)
  /\ Building(s, f)
  /\ Known(s, f)

IInv ==
  /\ proc \in [Procs -> Process] /\ file \in Seq(Cell) /\ FileSound(file)
  /\ \A p \in Procs : Sound(proc[p], file)

-----------------------------------------------------------------------------
(***************************************************************************)
(* Alignment.                                                              *)
(***************************************************************************)

\* Division by the alignment.
LEMMA Division ==
  ASSUME NEW x \in Int
  PROVE  /\ x \div kMinAlignment \in Int
         /\ x % kMinAlignment \in 0 .. kMinAlignment - 1
         /\ x = kMinAlignment * (x \div kMinAlignment) + (x % kMinAlignment)
BY AlignmentAssumption

\* A multiple and a remainder determine each other.
LEMMA DivisionIsUnique ==
  ASSUME NEW x \in Int, NEW q \in Int, NEW r \in 0 .. kMinAlignment - 1,
         x = kMinAlignment * q + r
  PROVE  x % kMinAlignment = r
<1> DEFINE A == kMinAlignment
           d == x \div A
           m == x % A
<1>1. A \in Nat /\ A > 0
  BY AlignmentAssumption
<1>2. d \in Int /\ m \in 0 .. A - 1 /\ x = A * d + m
  BY Division
<1> HIDE DEF A, d, m
<1>3. CASE d < q
  <2>1. A * (d + 1) <= A * q
    BY <1>1, <1>2, <1>3
  <2>2. A * (d + 1) = A * d + A
    BY <1>1, <1>2
  <2> QED BY <1>1, <1>2, <2>1, <2>2 DEF A
<1>4. CASE q < d
  <2>1. A * (q + 1) <= A * d
    BY <1>1, <1>2, <1>4
  <2>2. A * (q + 1) = A * q + A
    BY <1>1, <1>2
  <2> QED BY <1>1, <1>2, <2>1, <2>2 DEF A
<1>5. CASE q = d
  BY <1>1, <1>2, <1>5 DEF A, m
<1> QED BY <1>2, <1>3, <1>4, <1>5

\* Sums and differences with the alignment, and numbers between two multiples.
LEMMA AlignedNeighbours ==
  ASSUME NEW x \in Int, Aligned(x)
  PROVE  /\ Aligned(x + kMinAlignment) /\ Aligned(x - kMinAlignment)
         /\ \A j \in 1 .. kMinAlignment - 1 : ~Aligned(x + j)
<1> DEFINE d == x \div kMinAlignment
<1>1. kMinAlignment \in Nat /\ kMinAlignment > 0
  BY AlignmentAssumption
<1>2. d \in Int /\ x = kMinAlignment * d
  <2>1. d \in Int /\ x = kMinAlignment * d + (x % kMinAlignment)
    BY Division
  <2>2. x % kMinAlignment = 0
    BY DEF Aligned
  <2> HIDE DEF d
  <2> QED BY <1>1, <2>1, <2>2
<1> HIDE DEF d
<1>3. /\ x + kMinAlignment = kMinAlignment * (d + 1) + 0
      /\ x - kMinAlignment = kMinAlignment * (d - 1) + 0
  BY <1>1, <1>2
<1>4. 0 \in 0 .. kMinAlignment - 1
  BY <1>1
<1>5. Aligned(x + kMinAlignment)
  BY <1>1, <1>2, <1>3, <1>4, DivisionIsUnique DEF Aligned
<1>6. Aligned(x - kMinAlignment)
  BY <1>1, <1>2, <1>3, <1>4, DivisionIsUnique DEF Aligned
<1>7. ASSUME NEW j \in 1 .. kMinAlignment - 1 PROVE ~Aligned(x + j)
  <2>1. x + j = kMinAlignment * d + j /\ j \in 0 .. kMinAlignment - 1 /\ x + j \in Int
    BY <1>1, <1>2
  <2>2. (x + j) % kMinAlignment = j
    BY <1>2, <2>1, DivisionIsUnique
  <2> QED BY <2>2 DEF Aligned
<1> QED BY <1>5, <1>6, <1>7

\* Align rounds up to a multiple, and keeps one.
LEMMA AlignRoundsUp ==
  ASSUME NEW x \in Nat
  PROVE  /\ Align(x) \in Nat /\ x <= Align(x)
         /\ Aligned(Align(x))
         /\ Aligned(x) => Align(x) = x
<1> DEFINE d == x \div kMinAlignment
           m == x % kMinAlignment
<1>1. kMinAlignment \in Nat /\ kMinAlignment > 0
  BY AlignmentAssumption
<1>2. d \in Int /\ m \in 0 .. kMinAlignment - 1 /\ x = kMinAlignment * d + m
  BY Division
<1>3. Align(x) = x + (IF m = 0 THEN 0 ELSE kMinAlignment - m)
  BY DEF Align
<1> HIDE DEF d
<1>4. CASE m = 0
  BY <1>3, <1>4 DEF Aligned
<1>5. CASE m # 0
  <2>1. Align(x) = kMinAlignment * (d + 1) + 0
    <3>1. kMinAlignment * (d + 1) = kMinAlignment * d + kMinAlignment
      BY <1>1, <1>2
    <3> QED BY <1>1, <1>2, <1>3, <1>5, <3>1
  <2>2. Align(x) \in Nat /\ x <= Align(x)
    BY <1>1, <1>2, <1>3, <1>5
  <2>3. Align(x) % kMinAlignment = 0
    <3>1. d + 1 \in Int /\ 0 \in 0 .. kMinAlignment - 1
      BY <1>1, <1>2
    <3> HIDE DEF m
    <3> QED BY <2>1, <2>2, <3>1, DivisionIsUnique
  <2> QED BY <1>5, <2>2, <2>3 DEF Aligned
<1> QED BY <1>4, <1>5

\* The buffers begin at the first multiple behind the header.
LEMMA BaseOffset ==
  /\ kBaseOffset = kMinAlignment /\ kBaseOffset \in Nat /\ 1 <= kBaseOffset
  /\ \A x \in Nat : 1 <= x /\ Aligned(x) => kBaseOffset <= x
<1>1. kMinAlignment \in Nat /\ kMinAlignment > 0
  BY AlignmentAssumption
<1>2. ASSUME NEW x \in Nat, 1 <= x, x < kMinAlignment PROVE x % kMinAlignment = x
  BY <1>1, <1>2, DivisionIsUnique
<1>3. kBaseOffset = kMinAlignment
  <2>1. CASE kMinAlignment = 1
    <3>1. 1 % kMinAlignment = 0
      BY <2>1, Division
    <3> QED BY <2>1, <3>1 DEF kBaseOffset, kHeaderSize, Align
  <2>2. CASE kMinAlignment # 1
    <3>1. 1 % kMinAlignment = 1
      BY <1>1, <1>2, <2>2
    <3> QED BY <1>1, <3>1 DEF kBaseOffset, kHeaderSize, Align
  <2> QED BY <2>1, <2>2
<1>4. \A x \in Nat : 1 <= x /\ Aligned(x) => kMinAlignment <= x
  BY <1>1, <1>2 DEF Aligned
<1> QED BY <1>1, <1>3, <1>4

-----------------------------------------------------------------------------
(***************************************************************************)
(* The file.                                                               *)
(***************************************************************************)

\* What the fields of a cell are.
LEMMA CellFields ==
  /\ Hole \in Cell
  /\ \A c \in Cell :
       /\ c[1] = "header" => /\ Version(c) \in Nat /\ ListOffset(c) \in Nat
                             /\ ListSize(c) \in Nat /\ Stale(c) \in BOOLEAN
       /\ c[1] = "list" => c[2] \in Seq(Entry)
<1>1. Hole \in Cell
  BY DEF Cell
<1>2. ASSUME NEW c \in Cell, c[1] = "header"
      PROVE  /\ Version(c) \in Nat /\ ListOffset(c) \in Nat
             /\ ListSize(c) \in Nat /\ Stale(c) \in BOOLEAN
  <2>1. c \in HeaderCell
    BY <1>2 DEF Cell, Hole, DataCell, ListCell
  <2> QED BY <2>1 DEF HeaderCell, Version, ListOffset, ListSize, Stale
<1>3. ASSUME NEW c \in Cell, c[1] = "list" PROVE c[2] \in Seq(Entry)
  <2>1. c \in ListCell
    BY <1>3 DEF Cell, Hole, DataCell, HeaderCell
  <2> QED BY <2>1 DEF ListCell
<1> QED BY <1>1, <1>2, <1>3

\* A header that is written.
LEMMA HeaderFields ==
  ASSUME NEW v \in Nat, NEW o \in Nat, NEW n \in Nat, NEW b \in BOOLEAN,
         NEW h, h = Header(v, o, n, b)
  PROVE  /\ h \in Cell /\ h[1] = "header" /\ Version(h) = v
         /\ ListOffset(h) = o /\ ListSize(h) = n /\ (Stale(h) <=> b)
BY DEF Header, Cell, HeaderCell, Version, ListOffset, ListSize, Stale

\* What is written for a key and for a list.
LEMMA WrittenCells ==
  /\ \A k \in Keys :
       /\ DataCells(k) \in Seq(Cell) /\ Len(DataCells(k)) = Size[k]
       /\ Size[k] \in Nat /\ Size[k] > 0
       /\ \A i \in 1..Size[k] : DataCells(k)[i][1] = "data"
  /\ \A l \in Seq(Entry) :
       /\ ListCells(l) \in Seq(Cell) /\ Len(ListCells(l)) = Len(l) + 1
       /\ \A i \in 1..(Len(l) + 1) : ListCells(l)[i][1] = "list" /\ ListCells(l)[i][2] = l
<1>1. ASSUME NEW k \in Keys
      PROVE  /\ DataCells(k) \in Seq(Cell) /\ Len(DataCells(k)) = Size[k]
             /\ Size[k] \in Nat /\ Size[k] > 0
             /\ \A i \in 1..Size[k] : DataCells(k)[i][1] = "data"
  <2>1. Size[k] \in Nat /\ Size[k] > 0
    BY SizeAssumption
  <2>2. \A i \in 1..Size[k] : <<"data", k, i>> \in Cell
    BY <2>1 DEF Cell, DataCell
  <2>3. DataCells(k) \in [1..Size[k] -> Cell]
    BY <2>2 DEF DataCells
  <2>4. DataCells(k) \in Seq(Cell) /\ Len(DataCells(k)) = Size[k]
    BY <2>1, <2>3
  <2> QED BY <2>1, <2>4 DEF DataCells
<1>2. ASSUME NEW l \in Seq(Entry)
      PROVE  /\ ListCells(l) \in Seq(Cell) /\ Len(ListCells(l)) = Len(l) + 1
             /\ \A i \in 1..(Len(l) + 1) :
                  ListCells(l)[i][1] = "list" /\ ListCells(l)[i][2] = l
  <2>1. Len(l) \in Nat
    OBVIOUS
  <2>2. \A i \in 1..(Len(l) + 1) : <<"list", l, i>> \in Cell
    BY <2>1 DEF Cell, ListCell
  <2>3. ListCells(l) \in [1..(Len(l) + 1) -> Cell]
    BY <2>2 DEF ListCells
  <2>4. ListCells(l) \in Seq(Cell) /\ Len(ListCells(l)) = Len(l) + 1
    BY <2>1, <2>3
  <2> QED BY <2>1, <2>4 DEF ListCells
<1> QED BY <1>1, <1>2

\* WriteAt writes its cells and nothing else.
LEMMA WriteAtWrites ==
  ASSUME NEW f \in Seq(Cell), NEW pos \in Nat, NEW cells \in Seq(Cell), cells # << >>
  PROVE  LET g == WriteAt(f, pos, cells)
         IN  /\ g \in Seq(Cell)
             /\ Len(g) = IF pos + Len(cells) > Len(f) THEN pos + Len(cells) ELSE Len(f)
             /\ \A i \in 1..Len(f) : i \notin (pos + 1)..(pos + Len(cells)) => g[i] = f[i]
             /\ \A i \in (pos + 1)..(pos + Len(cells)) : g[i] = cells[i - pos]
<1> DEFINE end == pos + Len(cells)
           n == IF end > Len(f) THEN end ELSE Len(f)
           g == WriteAt(f, pos, cells)
<1>1. Len(f) \in Nat /\ Len(cells) \in Nat /\ end \in Nat /\ n \in Nat
  OBVIOUS
<1>2. g = [i \in 1..n |-> IF i \in (pos + 1)..end THEN cells[i - pos]
                          ELSE IF i <= Len(f) THEN f[i] ELSE Hole]
  BY DEF WriteAt
<1>3. \A i \in 1..n : g[i] \in Cell
  <2> SUFFICES ASSUME NEW i \in 1..n PROVE g[i] \in Cell
    OBVIOUS
  <2>1. CASE i \in (pos + 1)..end
    <3>1. i - pos \in 1..Len(cells)
      BY <1>1, <2>1
    <3> QED BY <1>2, <2>1, <3>1
  <2>2. CASE i \notin (pos + 1)..end
    BY <1>1, <1>2, <2>2, CellFields
  <2> QED BY <2>1, <2>2
<1>4. g \in [1..n -> Cell]
  BY <1>2, <1>3
<1>5. g \in Seq(Cell) /\ Len(g) = n
  <2> HIDE DEF g, n, end
  <2> QED BY <1>1, <1>4
<1>6. \A i \in 1..Len(f) : i \notin (pos + 1)..end => g[i] = f[i]
  BY <1>1, <1>2
<1>7. \A i \in (pos + 1)..end : g[i] = cells[i - pos]
  BY <1>1, <1>2
<1> QED BY <1>5, <1>6, <1>7

\* A write behind the data of a key, or before all data, leaves it alone.
LEMMA DataKept ==
  ASSUME NEW f \in Seq(Cell), NEW pos \in Nat, NEW cells \in Seq(Cell),
         NEW k \in Keys, NEW off \in Nat, HoldsData(f, off, k),
         kBaseOffset + off + Size[k] <= pos \/ pos + Len(cells) <= kBaseOffset
  PROVE  HoldsData(WriteAt(f, pos, cells), off, k)
<1> DEFINE g == WriteAt(f, pos, cells)
<1>1. CASE cells = << >>
  BY <1>1 DEF WriteAt
<1>2. CASE cells # << >>
  <2>1. /\ g \in Seq(Cell) /\ Len(g) >= Len(f)
        /\ \A i \in 1..Len(f) : i \notin (pos + 1)..(pos + Len(cells)) => g[i] = f[i]
    BY <1>2, WriteAtWrites
  <2>2. kBaseOffset \in Nat /\ Size[k] \in Nat /\ Len(f) \in Nat /\ Len(cells) \in Nat
    BY BaseOffset, WrittenCells
  <2>3. kBaseOffset + off + Size[k] <= Len(g)
    <3>1. Len(g) \in Nat
      BY <2>1
    <3> HIDE DEF g
    <3> QED BY <2>1, <2>2, <3>1 DEF HoldsData
  <2>4. \A i \in 1..Size[k] : g[kBaseOffset + off + i] = f[kBaseOffset + off + i]
    <3> HIDE DEF g
    <3> QED BY <2>1, <2>2, SMTT(40) DEF HoldsData
  <2> QED BY <2>3, <2>4 DEF HoldsData
<1> QED BY <1>1, <1>2

\* The entries of a list have a key and an offset.
LEMMA EntryFields ==
  ASSUME NEW list \in Seq(Entry), NEW i \in DOMAIN list
  PROVE  list[i] \in Entry /\ list[i].off \in Nat /\ list[i].key \in Keys
<1>1. list[i] \in Entry
  BY LenProperties, ElementOfSeq
<1> QED BY <1>1 DEF Entry

\* So do the buffers of a list.
LEMMA HeldKept ==
  ASSUME NEW f \in Seq(Cell), NEW pos \in Nat, NEW cells \in Seq(Cell),
         NEW list \in Seq(Entry), NEW end \in Int, Held(f, list, end),
         end <= pos \/ pos + Len(cells) <= kBaseOffset
  PROVE  Held(WriteAt(f, pos, cells), list, end)
<1> SUFFICES ASSUME NEW i \in DOMAIN list
             PROVE  HoldsData(WriteAt(f, pos, cells), list[i].off, list[i].key)
  BY DEF Held
<1>1. list[i].off \in Nat /\ list[i].key \in Keys
  BY EntryFields
<1>2. /\ kBaseOffset + list[i].off + Size[list[i].key] <= end
      /\ HoldsData(f, list[i].off, list[i].key)
  BY DEF Held
<1>3. kBaseOffset \in Nat /\ Size[list[i].key] \in Nat
  BY <1>1, BaseOffset, WrittenCells
<1>4. \/ kBaseOffset + list[i].off + Size[list[i].key] <= pos
      \/ pos + Len(cells) <= kBaseOffset
  BY <1>1, <1>2, <1>3
<1> QED BY <1>1, <1>2, <1>4, DataKept

\* What a file that loads looks like.
LEMMA LoadableFile ==
  ASSUME NEW f \in Seq(Cell), LoadChecks(f)
  PROVE  /\ HasHeader(f) /\ ListOffset(f[1]) \in Nat /\ LoadedList(f) \in Seq(Entry)
         /\ ListSize(f[1]) = Len(LoadedList(f)) + 1
         /\ Len(f) = ListOffset(f[1]) + Len(LoadedList(f)) + 1
         /\ f[ListOffset(f[1]) + 1][1] = "list"
<1> DEFINE o == ListOffset(f[1])
           n == ListSize(f[1])
           l == LoadedList(f)
<1>1. HasHeader(f) /\ Len(f) \in Nat
  BY DEF LoadChecks
<1>2. f[1] \in Cell /\ f[1][1] = "header"
  BY <1>1 DEF HasHeader, kHeaderSize
<1>3. o \in Nat /\ n \in Nat
  BY <1>2, CellFields
<1>4. /\ o < Len(f) /\ n = Len(f) - o /\ n > 0
      /\ f[o + 1][1] = "list" /\ SubSeq(f, o + 1, o + n) = ListCells(f[o + 1][2])
  BY DEF LoadChecks, VerifyBufferList
<1>5. f[o + 1] \in Cell
  <2> HIDE DEF o, n
  <2> QED BY <1>1, <1>3, <1>4
<1>6. l \in Seq(Entry)
  BY <1>4, <1>5, CellFields DEF LoadedList
<1>7. SubSeq(f, o + 1, o + n) = ListCells(l)
  BY <1>4 DEF LoadedList
<1>8. n = Len(l) + 1
  <2> HIDE DEF o, n, l
  <2>1. Len(SubSeq(f, o + 1, o + n)) = n
    BY <1>1, <1>3, <1>4
  <2> QED BY <1>6, <1>7, <2>1, WrittenCells
<1> QED
  <2>0. Len(l) \in Nat
    BY <1>6, LenProperties
  <2> HIDE DEF o, n, l
  <2>1. Len(f) = o + Len(l) + 1
    BY <1>1, <1>3, <1>4, <1>8, <2>0
  <2> QED BY <1>1, <1>3, <1>4, <1>6, <1>8, <2>1 DEF o, n, l

\* A file with a header of this version that names the whole list at its end.
LEMMA WrittenFileLoads ==
  ASSUME NEW f \in Seq(Cell), NEW o \in Nat, NEW l \in Seq(Entry),
         Len(f) = o + Len(l) + 1, SubSeq(f, o + 1, o + Len(l) + 1) = ListCells(l),
         f[1] = Header(kVersion, o, Len(l) + 1, FALSE)
  PROVE  LoadChecks(f) /\ LoadedList(f) = l
<1>1. PICK n \in Nat : n = Len(l) + 1
  OBVIOUS
<1>2. n > 0 /\ Len(f) = o + n /\ SubSeq(f, o + 1, o + n) = ListCells(l)
  <2>1. Len(l) \in Nat
    BY LenProperties
  <2>2. o + Len(l) + 1 = o + n
    BY <1>1, <2>1
  <2> QED BY <1>1, <2>1, <2>2
<1>3. /\ f[1][1] = "header" /\ Version(f[1]) = kVersion /\ ~Stale(f[1])
      /\ ListOffset(f[1]) = o /\ ListSize(f[1]) = n
  <2>1. PICK h : h = f[1]
    OBVIOUS
  <2>2. h = Header(kVersion, o, n, FALSE) /\ kVersion \in Nat
    BY <1>1, <2>1 DEF kVersion
  <2>3. /\ h[1] = "header" /\ Version(h) = kVersion /\ ~Stale(h)
        /\ ListOffset(h) = o /\ ListSize(h) = n
    BY <2>2, HeaderFields
  <2> QED BY <2>1, <2>3
<1>4. f[o + 1][1] = "list" /\ f[o + 1][2] = l
  <2>1. SubSeq(f, o + 1, o + n)[1] = f[o + 1]
    BY <1>2
  <2>2. 1 \in 1..(Len(l) + 1)
    BY <1>1, <1>2
  <2> QED BY <1>2, <2>1, <2>2, WrittenCells, SMTT(40)
<1>5. VerifyBufferList(f, o, n)
  <2>1. o + n <= Len(f)
    BY <1>2
  <2>2. SubSeq(f, o + 1, o + n) = ListCells(f[o + 1][2])
    BY <1>2, <1>4, Zenon
  <2> QED BY <1>2, <1>4, <2>1, <2>2, Zenon DEF VerifyBufferList
<1>6. n = Len(f) - o /\ o < Len(f) /\ Len(f) >= 1
  BY <1>2
<1> QED BY <1>3, <1>4, <1>5, <1>6 DEF LoadChecks, LoadedList, HasHeader, kHeaderSize

-----------------------------------------------------------------------------
(***************************************************************************)
(* Loading.                                                                *)
(***************************************************************************)

LoadedState(s, f) ==
  [s EXCEPT !.keys = KeysOf(LoadedList(f)),
            !.addr = Insert(@, MappedIn(1, LoadedList(f))),
            !.handles = <<[off |-> 0, size |-> Len(f)]>>,
            !.minOffset = 1 + Max({0} \cup OffsetsOf(LoadedList(f)))]

\* The tests of Load's loop find nothing in a file that is sound.
LEMMA BuffersAreInMapping ==
  ASSUME NEW f \in Seq(Cell), LoadChecks(f), FileSound(f),
         NEW i \in DOMAIN LoadedList(f)
  PROVE  BufferInMapping(f, LoadedList(f)[i])
<1> DEFINE e == LoadedList(f)[i]
<1>1. /\ ListOffset(f[1]) \in Nat /\ LoadedList(f) \in Seq(Entry)
      /\ Len(f) = ListOffset(f[1]) + Len(LoadedList(f)) + 1
  BY LoadableFile
<1>2. e.off \in Nat /\ e.key \in Keys
  BY <1>1, EntryFields
<1>3. kBaseOffset + e.off + Size[e.key] <= ListOffset(f[1])
  BY DEF FileSound, Held
<1>4. kBaseOffset \in Nat /\ Size[e.key] \in Nat /\ Len(LoadedList(f)) \in Nat
  BY <1>1, <1>2, BaseOffset, WrittenCells, LenProperties
<1>5. BufferInMapping(f, e)
  <2>1. /\ Len(f) \in Nat /\ Len(f) > ListOffset(f[1])
        /\ kBaseOffset + e.off + Size[e.key] < Len(f)
    <3> HIDE DEF e
    <3> QED BY <1>1, <1>2, <1>3, <1>4
  <2> HIDE DEF e
  <2> QED BY <1>2, <1>4, <2>1 DEF BufferInMapping
<1> QED BY <1>5

\* So Load succeeds with a file that passes its first tests.
LEMMA LoadSucceeds ==
  ASSUME NEW f \in Seq(Cell), LoadChecks(f), FileSound(f), NEW s
  PROVE  Load(s, f) = [ok |-> TRUE, s |-> LoadedState(s, f)]
<1> DEFINE list == LoadedList(f)
           I == {i \in 1..Len(list) : ~BufferInMapping(f, list[i])}
           bad == SelectInSeq(list, LAMBDA e : ~BufferInMapping(f, e))
<1>1. list \in Seq(Entry)
  BY LoadableFile
<1>2. I = {}
  BY <1>1, BuffersAreInMapping
<1>3. bad = 0
  BY <1>2 DEF SelectInSeq
<1> QED BY <1>3 DEF Load, LoadedState

\* And changes little when it fails in them.
LEMMA LoadFails ==
  ASSUME NEW f \in Seq(Cell), ~LoadChecks(f), NEW s
  PROVE  Load(s, f) = [ok |-> FALSE, s |-> NotLoaded(s)]
BY DEF Load

\* The maps of std::map.
LEMMA InsertIsMap ==
  ASSUME NEW S, NEW T, NEW m \in Maps(S, T), NEW q \in Maps(S, T)
  PROVE  /\ Insert(m, q) \in Maps(S, T)
         /\ DOMAIN Insert(m, q) = DOMAIN m \cup DOMAIN q
         /\ \A x \in DOMAIN m : Insert(m, q)[x] = m[x]
         /\ \A x \in DOMAIN q \ DOMAIN m : Insert(m, q)[x] = q[x]
<1>1. PICK D \in SUBSET S : m \in [D -> T]
  BY DEF Maps
<1>2. PICK E \in SUBSET S : q \in [E -> T]
  BY DEF Maps
<1>3. Insert(m, q) \in [D \cup E -> T]
  BY <1>1, <1>2 DEF Insert
<1>4. D \cup E \in SUBSET S
  OBVIOUS
<1> QED BY <1>1, <1>2, <1>3, <1>4 DEF Maps, Insert

\* What cache_key_to_offset_ gets from a list.
LEMMA KeysOfList ==
  ASSUME NEW list \in Seq(Entry)
  PROVE  /\ KeysOf(list) \in Maps(Keys, Nat)
         /\ \A i \in DOMAIN list : list[i].key \in DOMAIN KeysOf(list)
         /\ \A k \in DOMAIN KeysOf(list) :
              \E i \in DOMAIN list : list[i] = [key |-> k, off |-> KeysOf(list)[k]]
<1> DEFINE D == {e.key : e \in ToSet(list)}
           pick(k) == Min({i \in DOMAIN list : list[i].key = k})
<1>1. KeysOf(list) = [k \in D |-> list[pick(k)].off]
  BY DEF KeysOf
<1>2. ASSUME NEW k \in D PROVE pick(k) \in DOMAIN list /\ list[pick(k)].key = k
  <2> DEFINE S == {i \in DOMAIN list : list[i].key = k}
  <2>1. S # {}
    BY DEF ToSet
  <2>2. S \in SUBSET Nat
    BY LenProperties
  <2>3. pick(k) = Min(S)
    OBVIOUS
  <2> HIDE DEF S
  <2>4. \E x \in S : \A y \in S : x <= y
    BY <2>1, <2>2, LeastExists
  <2>5. Min(S) \in S
    BY <2>4 DEF Min
  <2> QED BY <2>3, <2>5 DEF S
<1>3. \A i \in DOMAIN list : list[i] \in Entry /\ list[i].off \in Nat /\ list[i].key \in Keys
  BY EntryFields
<1>4. D \in SUBSET Keys /\ \A i \in DOMAIN list : list[i].key \in D
  BY <1>3 DEF ToSet
<1>5. KeysOf(list) \in [D -> Nat]
  <2> HIDE DEF D, pick
  <2> QED BY <1>1, <1>2, <1>3
<1>6. \A i \in DOMAIN list : list[i] = [key |-> list[i].key, off |-> list[i].off]
  BY <1>3 DEF Entry
<1>7. ASSUME NEW k \in D
      PROVE  \E i \in DOMAIN list : list[i] = [key |-> k, off |-> KeysOf(list)[k]]
  <2> HIDE DEF D, pick
  <2>1. KeysOf(list)[k] = list[pick(k)].off
    BY <1>1
  <2>2. pick(k) \in DOMAIN list /\ list[pick(k)].key = k
    BY <1>2
  <2>3. list[pick(k)] = [key |-> list[pick(k)].key, off |-> list[pick(k)].off]
    BY <1>6, <2>2
  <2> QED BY <2>1, <2>2, <2>3
<1> HIDE DEF D, pick
<1> QED BY <1>4, <1>5, <1>7 DEF Maps

\* What offset_to_addr_ gets from a list.
LEMMA MappedInList ==
  ASSUME NEW list \in Seq(Entry), NEW h \in Nat
  PROVE  /\ MappedIn(h, list) \in Maps(Nat, Address)
         /\ \A i \in DOMAIN list : list[i].off \in DOMAIN MappedIn(h, list)
         /\ \A o \in DOMAIN MappedIn(h, list) :
              /\ \E i \in DOMAIN list : list[i].off = o
              /\ MappedIn(h, list)[o] = [in |-> "map", handle |-> h, cell |-> kBaseOffset + o]
<1> DEFINE D == {e.off : e \in ToSet(list)}
<1>1. MappedIn(h, list) = [o \in D |-> [in |-> "map", handle |-> h, cell |-> kBaseOffset + o]]
  BY DEF MappedIn
<1>2. D \in SUBSET Nat /\ \A i \in DOMAIN list : list[i].off \in D
  BY EntryFields DEF ToSet
<1>3. \A o \in D : \E i \in DOMAIN list : list[i].off = o
  BY DEF ToSet
<1>4. \A o \in D : [in |-> "map", handle |-> h, cell |-> kBaseOffset + o] \in Address
  <2> SUFFICES ASSUME NEW o \in D
               PROVE  [in |-> "map", handle |-> h, cell |-> kBaseOffset + o] \in Address
    OBVIOUS
  <2> HIDE DEF D
  <2>1. kBaseOffset + o \in Nat
    BY <1>2, BaseOffset
  <2> QED BY <2>1 DEF Address
<1> HIDE DEF D
<1>5. MappedIn(h, list) \in [D -> Address]
  BY <1>1, <1>4
<1> QED BY <1>1, <1>2, <1>3, <1>5 DEF Maps

\* The largest offset of a list is one of them, or zero.
LEMMA LargestOffset ==
  ASSUME NEW f \in Seq(Cell), NEW list \in Seq(Entry), NEW end \in Nat, Held(f, list, end)
  PROVE  /\ Max({0} \cup OffsetsOf(list)) \in Nat
         /\ Aligned(Max({0} \cup OffsetsOf(list)))
<1> DEFINE S == {0} \cup OffsetsOf(list)
<1>1. ASSUME NEW i \in DOMAIN list PROVE list[i].off \in 0..end /\ Aligned(list[i].off)
  <2>1. list[i].off \in Nat /\ list[i].key \in Keys
    BY EntryFields
  <2>2. kBaseOffset \in Nat /\ Size[list[i].key] \in Nat
    BY <2>1, BaseOffset, WrittenCells
  <2>3. kBaseOffset + list[i].off + Size[list[i].key] <= end /\ Aligned(list[i].off)
    BY DEF Held
  <2> QED BY <2>1, <2>2, <2>3
<1>2. Aligned(0)
  BY AlignmentAssumption, BaseOffset, Division DEF Aligned
<1>3. S \in SUBSET (0..end) /\ \A o \in S : Aligned(o)
  BY <1>1, <1>2 DEF OffsetsOf, ToSet
<1>4. S # {}
  OBVIOUS
<1> HIDE DEF S
<1>5. \E x \in S : \A y \in S : y <= x
  BY <1>3, <1>4, GreatestExists
<1>6. Max(S) \in S
  BY <1>3, <1>5 DEF Max
<1> QED BY <1>3, <1>6 DEF S

-----------------------------------------------------------------------------
(***************************************************************************)
(* The open build step.                                                    *)
(***************************************************************************)

\* The types of the fields.
LEMMA ProcessFields ==
  ASSUME NEW s \in Process
  PROVE  /\ s.pc \in {"down", "start", "list", "header", "up"}
         /\ s.step \in BOOLEAN /\ s.runtime \in BOOLEAN /\ s.fd \in BOOLEAN
         /\ s.started \in BOOLEAN /\ s.building \in BOOLEAN /\ s.firstWrite \in BOOLEAN
         /\ s.pos \in Nat /\ s.segStart \in Nat /\ s.segSize \in Nat
         /\ s.schema \in Seq(Entry) /\ s.keys \in Maps(Keys, Nat)
         /\ s.addr \in Maps(Nat, Address) /\ s.handles \in Seq(Handle)
         /\ s.minOffset \in Nat /\ s.misses \in Seq(Miss) /\ s.fails \in Nat
BY DEF Process

\* The values of a map.
LEMMA MapValues ==
  ASSUME NEW S, NEW T, NEW m \in Maps(S, T)
  PROVE  DOMAIN m \subseteq S /\ \A x \in DOMAIN m : m[x] \in T
BY DEF Maps

\* The empty tuple is the empty map.
LEMMA EmptyMap ==
  ASSUME NEW S, NEW T
  PROVE  << >> \in Maps(S, T) /\ DOMAIN << >> = {}
<1>1. DOMAIN << >> = {}
  OBVIOUS
<1>2. << >> = [x \in {} |-> x]
  OBVIOUS
<1>3. << >> \in [{} -> T]
  BY <1>2
<1> QED BY <1>1, <1>3 DEF Maps

\* A file without a version, or whose header names something else than a list,
\* does not load.
LEMMA DoesNotLoad ==
  ASSUME NEW f \in Seq(Cell),
         \/ Version(f[1]) = kInvalidHeader
         \/ f[ListOffset(f[1]) + 1][1] # "list"
         \/ Stale(f[1])
  PROVE  ~LoadChecks(f) /\ FileSound(f)
<1>1. ~LoadChecks(f)
  BY DEF LoadChecks, VerifyBufferList, kInvalidHeader, kVersion
<1> QED BY <1>1 DEF FileSound

\* A write of an open build step, whole or not: the data stays, the header
\* stays, and the file does not load.
LEMMA WriteOver ==
  ASSUME NEW s \in Process, NEW f \in Seq(Cell), Building(s, f),
         s.started, s.building, s.pc \in {"up", "list"},
         NEW cells \in Seq(Cell), cells # << >>,
         s.firstWrite /\ s.pos = s.segStart => cells[1][1] # "list"
  PROVE  LET at == Align(s.pos)
             g == WriteAt(f, at, cells)
         IN  /\ at \in Nat /\ s.pos <= at /\ kBaseOffset <= at /\ Aligned(at)
             /\ g \in Seq(Cell) /\ g[1] = f[1] /\ HasHeader(g)
             /\ Len(g) = IF at + Len(cells) > Len(f) THEN at + Len(cells) ELSE Len(f)
             /\ \A i \in (at + 1)..(at + Len(cells)) : g[i] = cells[i - at]
             /\ Held(g, s.schema, s.pos)
             /\ s.firstWrite => s.segStart < Len(g) /\ g[s.segStart + 1][1] # "list"
             /\ ~LoadChecks(g) /\ FileSound(g)
<1> DEFINE at == Align(s.pos)
           g == WriteAt(f, at, cells)
<1>1. /\ s.pos \in Nat /\ s.segStart \in Nat /\ s.schema \in Seq(Entry)
      /\ s.firstWrite \in BOOLEAN
  BY ProcessFields
<1>2. DataEnd(s) = s.pos
  BY DEF DataEnd
<1>3. /\ 1 <= s.segStart /\ s.segStart <= s.pos /\ HasHeader(f) /\ Held(f, s.schema, s.pos)
      /\ ~s.firstWrite => Version(f[1]) = kInvalidHeader
      /\ s.firstWrite => ListOffset(f[1]) = s.segStart /\ Aligned(s.segStart)
      /\ s.firstWrite /\ s.pos # s.segStart =>
           s.segStart < Len(f) /\ f[s.segStart + 1][1] # "list"
  BY <1>2 DEF Building, kHeaderSize
<1>4. /\ at \in Nat /\ s.pos <= at /\ Aligned(at) /\ 1 <= at
      /\ Aligned(s.pos) => at = s.pos
  BY <1>1, <1>3, AlignRoundsUp, SMTT(40)
<1>5. kBaseOffset <= at
  BY <1>4, BaseOffset
<1>6. Len(cells) \in Nat /\ Len(cells) > 0 /\ Len(f) \in Nat /\ 1 <= Len(f)
  BY <1>3, EmptySeq DEF HasHeader, kHeaderSize
<1> HIDE DEF at
<1>7. /\ g \in Seq(Cell)
      /\ Len(g) = IF at + Len(cells) > Len(f) THEN at + Len(cells) ELSE Len(f)
      /\ \A i \in 1..Len(f) : i \notin (at + 1)..(at + Len(cells)) => g[i] = f[i]
      /\ \A i \in (at + 1)..(at + Len(cells)) : g[i] = cells[i - at]
  BY <1>4, WriteAtWrites
<1>8. Held(g, s.schema, s.pos)
  BY <1>1, <1>3, <1>4, HeldKept
<1> HIDE DEF g
<1>9. g[1] = f[1] /\ HasHeader(g)
  <2>1. g[1] = f[1]
    BY <1>4, <1>6, <1>7
  <2>2. Len(g) >= 1
    BY <1>4, <1>6, <1>7
  <2> QED BY <1>3, <2>1, <2>2 DEF HasHeader, kHeaderSize
<1>10. ASSUME s.firstWrite PROVE s.segStart < Len(g) /\ g[s.segStart + 1][1] # "list"
  <2>1. CASE s.pos = s.segStart
    <3>1. at = s.segStart
      BY <1>3, <1>4, <1>10, <2>1
    <3>2. at + 1 \in (at + 1)..(at + Len(cells)) /\ (at + 1) - at = 1 /\ at < Len(g)
      BY <1>4, <1>6, <1>7
    <3>3. g[at + 1] = cells[1]
      BY <1>7, <3>2
    <3> QED BY <1>10, <2>1, <3>1, <3>2, <3>3
  <2>2. CASE s.pos # s.segStart
    <3>1. s.segStart < Len(f) /\ f[s.segStart + 1][1] # "list"
      BY <1>3, <1>10, <2>2
    <3>2. s.segStart < at
      BY <1>1, <1>3, <1>4, <2>2
    <3>3. /\ s.segStart + 1 \in 1..Len(f) /\ s.segStart < Len(g)
          /\ s.segStart + 1 \notin (at + 1)..(at + Len(cells))
      BY <1>1, <1>4, <1>6, <1>7, <3>1, <3>2
    <3>4. g[s.segStart + 1] = f[s.segStart + 1]
      BY <1>7, <3>3
    <3> QED BY <3>1, <3>3, <3>4
  <2> QED BY <2>1, <2>2
<1>11. ~LoadChecks(g) /\ FileSound(g)
  <2>1. CASE s.firstWrite
    BY <1>3, <1>7, <1>9, <1>10, <2>1, DoesNotLoad
  <2>2. CASE ~s.firstWrite
    BY <1>3, <1>7, <1>9, <2>2, DoesNotLoad
  <2> QED BY <1>1, <2>1, <2>2
<1> QED BY <1>4, <1>5, <1>7, <1>8, <1>9, <1>10, <1>11 DEF at, g

-----------------------------------------------------------------------------
(***************************************************************************)
(* Every action keeps the process and the file sound.                      *)
(***************************************************************************)

\* A piece of the file that has the cells of c is c.
LEMMA PieceOfFile ==
  ASSUME NEW g \in Seq(Cell), NEW a \in Nat, NEW c \in Seq(Cell),
         a + Len(c) <= Len(g), \A i \in (a + 1)..(a + Len(c)) : g[i] = c[i - a]
  PROVE  SubSeq(g, a + 1, a + Len(c)) = c
<1> DEFINE p == SubSeq(g, a + 1, a + Len(c))
<1>1. Len(c) \in Nat /\ Len(g) \in Nat
  OBVIOUS
<1>2. p \in Seq(Cell) /\ Len(p) = Len(c)
  BY <1>1
<1>3. ASSUME NEW i \in 1..Len(c) PROVE p[i] = c[i]
  <2>1. p[i] = g[a + i]
    BY <1>1
  <2>2. a + i \in (a + 1)..(a + Len(c)) /\ (a + i) - a = i
    BY <1>1
  <2>3. g[a + i] = c[i]
    BY <2>2
  <2> QED BY <2>1, <2>3
<1> HIDE DEF p
<1>4. p = c
  BY <1>2, <1>3, SeqEqual
<1> QED BY <1>4 DEF p

\* What a process knows does not change with the other fields.
LEMMA KnownKept ==
  ASSUME NEW s, NEW t, NEW f, NEW g, Known(s, f),
         t.keys = s.keys, t.addr = s.addr, t.misses = s.misses,
         t.building = s.building, t.started = s.started,
         t.started => CurrentList(t, g) = CurrentList(s, f)
  PROVE  Known(t, g)
<1> DEFINE L == CurrentList(s, f)
<1>1. \A k : Missed(t, k) <=> Missed(s, k)
  BY DEF Missed
<1> SUFFICES ASSUME NEW k \in DOMAIN s.keys
             PROVE  /\ ~t.building => t.keys[k] \in DOMAIN t.addr
                    /\ t.started => \/ \E i \in DOMAIN CurrentList(t, g) :
                                         CurrentList(t, g)[i] = [key |-> k, off |-> t.keys[k]]
                                    \/ Missed(t, k) /\ t.keys[k] \in DOMAIN t.addr
  BY DEF Known
<1>2. /\ ~s.building => s.keys[k] \in DOMAIN s.addr
      /\ s.started => \/ \E i \in DOMAIN L : L[i] = [key |-> k, off |-> s.keys[k]]
                      \/ Missed(s, k) /\ s.keys[k] \in DOMAIN s.addr
  BY DEF Known
<1> HIDE DEF L
<1>3. t.started => CurrentList(t, g) = L
  BY DEF L
<1> QED BY <1>1, <1>2, <1>3

\* A list that ends before some position ends before a later one.
LEMMA HeldBefore ==
  ASSUME NEW f, NEW list \in Seq(Entry), NEW a \in Int, NEW b \in Int, a <= b,
         Held(f, list, a)
  PROVE  Held(f, list, b)
<1> SUFFICES ASSUME NEW i \in DOMAIN list
             PROVE  kBaseOffset + list[i].off + Size[list[i].key] <= b
  BY DEF Held
<1>1. kBaseOffset + list[i].off + Size[list[i].key] <= a
  BY DEF Held
<1>2. kBaseOffset \in Nat /\ list[i].off \in Nat /\ Size[list[i].key] \in Nat
  BY EntryFields, BaseOffset, WrittenCells
<1> QED BY <1>1, <1>2

\* The list is written behind the data.
LEMMA WriteListKeeps ==
  ASSUME NEW s, NEW f, Sound(s, f), s.pc = "list"
  PROVE  LET at == Align(s.pos)
             cells == ListCells(s.schema)
         IN  Sound([s EXCEPT !.pc = "header", !.pos = at + Len(cells),
                             !.segSize = at + Len(cells) - s.segStart],
                   WriteAt(f, at, cells))
<1> DEFINE at == Align(s.pos)
           cells == ListCells(s.schema)
           n == Len(cells)
           g == WriteAt(f, at, cells)
           t == [s EXCEPT !.pc = "header", !.pos = at + n, !.segSize = at + n - s.segStart]
<1>1. s \in Process /\ f \in Seq(Cell)
  BY DEF Sound, Typed
<1>2. s.started /\ s.building /\ Control(s, f) /\ Building(s, f) /\ Known(s, f)
  BY DEF Sound, Control
<1>3. s.pos \in Nat /\ s.segStart \in Nat /\ s.schema \in Seq(Entry)
  BY <1>1, ProcessFields
<1>4. Len(s.schema) \in Nat /\ Len(f) \in Nat
  BY <1>1, <1>3, LenProperties
<1>5. cells \in Seq(Cell) /\ n = Len(s.schema) + 1
  BY <1>3, WrittenCells
<1>6. cells # << >> /\ n \in Nat /\ n > 0
  BY <1>4, <1>5
<1>7. s.firstWrite => s.pos # s.segStart
  BY <1>2 DEF Building
<1>8. 1 <= s.segStart /\ s.segStart <= s.pos /\ Len(f) <= s.pos + Len(s.schema) + 1
  BY <1>2 DEF Building, DataEnd, kHeaderSize
<1>9. /\ at \in Nat /\ s.pos <= at
      /\ Len(g) = IF at + n > Len(f) THEN at + n ELSE Len(f)
  BY <1>1, <1>2, <1>5, <1>6, <1>7, WriteOver
<1>10. g \in Seq(Cell) /\ g[1] = f[1] /\ HasHeader(g) /\ Aligned(at) /\ FileSound(g)
  BY <1>1, <1>2, <1>5, <1>6, <1>7, WriteOver
<1>11. \A i \in (at + 1)..(at + n) : g[i] = cells[i - at]
  BY <1>1, <1>2, <1>5, <1>6, <1>7, WriteOver
<1>12. Held(g, s.schema, s.pos)
  BY <1>1, <1>2, <1>5, <1>6, <1>7, WriteOver
<1>13. s.firstWrite => s.segStart < Len(g) /\ g[s.segStart + 1][1] # "list"
  BY <1>1, <1>2, <1>5, <1>6, <1>7, WriteOver
<1> HIDE DEF at, g, cells, n
<1>14. Len(g) = at + n /\ at + n - s.segStart \in Nat /\ at + n \in Nat
  <2>1. n \in Nat /\ n = Len(s.schema) + 1
    BY <1>5, <1>6
  <2>2. s.pos \in Nat /\ s.segStart \in Nat
    BY <1>3
  <2>3. at + n >= Len(f)
    BY <1>4, <1>8, <1>9, <2>1, <2>2
  <2>4. Len(g) = at + n
    BY <1>4, <1>9, <2>1, <2>3
  <2>5. at + n - s.segStart \in Nat
    BY <1>8, <1>9, <2>1, <2>2, SMTT(40)
  <2>6. at + n \in Nat
    BY <1>9, <2>1
  <2> QED BY <2>4, <2>5, <2>6
<1>15. SubSeq(g, at + 1, at + n) = cells
  BY <1>5, <1>9, <1>10, <1>11, <1>14, PieceOfFile DEF n
<1>16. /\ t \in Process /\ t.pc = "header" /\ t.pos = at + n
       /\ t.segSize = at + n - s.segStart
       /\ t.step = s.step /\ t.runtime = s.runtime /\ t.started = s.started
       /\ t.building = s.building /\ t.firstWrite = s.firstWrite
       /\ t.segStart = s.segStart /\ t.schema = s.schema /\ t.keys = s.keys
       /\ t.addr = s.addr /\ t.handles = s.handles /\ t.minOffset = s.minOffset
       /\ t.misses = s.misses
  BY <1>1, <1>14 DEF Process
<1> HIDE DEF t
<1>17. DataEnd(t) = at
  BY <1>4, <1>5, <1>6, <1>9, <1>16 DEF DataEnd
<1>18. Held(g, s.schema, at)
  BY <1>3, <1>9, <1>12, HeldBefore
<1>19. Building(t, g)
  <2>1. /\ kHeaderSize <= t.segStart /\ t.segStart <= DataEnd(t) /\ t.pos # t.segStart
        /\ Len(g) <= t.pos + Len(t.schema) + 1
    <3>1. s.pos \in Nat /\ s.segStart \in Nat /\ n \in Nat /\ n > 0
      BY <1>3, <1>6
    <3>2. t.segStart = s.segStart /\ t.pos = at + n /\ Len(t.schema) = Len(s.schema)
      BY <1>16
    <3>3. kHeaderSize <= t.segStart /\ t.segStart <= DataEnd(t)
      BY <1>8, <1>9, <1>17, <3>1, <3>2 DEF kHeaderSize
    <3>4. t.pos # t.segStart
      BY <1>8, <1>9, <3>1, <3>2
    <3>5. Len(g) <= t.pos + Len(t.schema) + 1
      BY <1>4, <1>14, <3>2
    <3> QED BY <3>3, <3>4, <3>5
  <2>2. /\ Aligned(DataEnd(t)) /\ Len(g) = t.pos /\ t.segSize = t.pos - t.segStart
        /\ SubSeq(g, DataEnd(t) + 1, t.pos) = ListCells(t.schema)
    <3>1. SubSeq(g, DataEnd(t) + 1, t.pos) = ListCells(t.schema)
      BY <1>15, <1>16, <1>17, Zenon DEF cells
    <3>2. Len(g) = t.pos /\ t.segSize = t.pos - t.segStart
      <4>1. t.pos = at + n /\ t.segStart = s.segStart /\ t.segSize = at + n - s.segStart
        BY <1>16
      <4>2. at \in Nat /\ n \in Nat /\ s.segStart \in Nat /\ Len(g) = at + n
        BY <1>3, <1>6, <1>9, <1>14
      <4> QED BY <4>1, <4>2
    <3>3. Aligned(DataEnd(t))
      BY <1>10, <1>17
    <3> QED BY <3>1, <3>2, <3>3
  <2>3. ~t.firstWrite => Version(g[1]) = kInvalidHeader
    BY <1>2, <1>10, <1>16 DEF Building
  <2>4. t.firstWrite => ListOffset(g[1]) = t.segStart /\ Aligned(t.segStart)
    BY <1>2, <1>10, <1>16 DEF Building
  <2>5. t.firstWrite => t.segStart < Len(g) /\ g[t.segStart + 1][1] # "list"
    BY <1>13, <1>16
  <2>6. Held(g, t.schema, DataEnd(t))
    BY <1>16, <1>17, <1>18
  <2> QED BY <1>10, <1>16, <2>1, <2>2, <2>3, <2>4, <2>5, <2>6 DEF Building
<1>20. Control(t, g)
  BY <1>2, <1>16 DEF Control, Empty
<1>21. Known(t, g)
  <2>1. CurrentList(t, g) = CurrentList(s, f)
    BY <1>2, <1>16 DEF CurrentList
  <2> QED BY <1>2, <1>16, <2>1, KnownKept
<1> QED BY <1>10, <1>16, <1>19, <1>20, <1>21 DEF Sound, Typed, t, g, at, cells, n

\* The write of the list fails after its first cells c.
LEMMA WriteListFailsKeeps ==
  ASSUME NEW s, NEW f, Sound(s, f), s.pc = "list", NEW c \in Seq(Cell)
  PROVE  Sound([s EXCEPT !.pc = "up", !.step = FALSE, !.pos = Align(s.pos) + Len(c),
                         !.fails = @ + 1],
               WriteAt(f, Align(s.pos), c))
<1> DEFINE at == Align(s.pos)
           n == Len(c)
           g == WriteAt(f, at, c)
           t == [s EXCEPT !.pc = "up", !.step = FALSE, !.pos = at + n, !.fails = @ + 1]
<1>1. s \in Process /\ f \in Seq(Cell) /\ FileSound(f)
  BY DEF Sound, Typed
<1>2. s.started /\ s.building /\ Control(s, f) /\ Building(s, f) /\ Known(s, f)
  BY DEF Sound, Control
<1>3. s.pos \in Nat /\ s.segStart \in Nat /\ s.schema \in Seq(Entry) /\ s.fails \in Nat
  BY <1>1, ProcessFields
<1>4. Len(s.schema) \in Nat /\ Len(f) \in Nat /\ n \in Nat
  BY <1>1, <1>3, LenProperties
<1>5. s.firstWrite => s.pos # s.segStart
  BY <1>2 DEF Building
<1>6. 1 <= s.segStart /\ s.segStart <= s.pos /\ Len(f) <= s.pos + Len(s.schema) + 1
  BY <1>2 DEF Building, DataEnd, kHeaderSize
<1>7. at \in Nat /\ s.pos <= at
  BY <1>3, AlignRoundsUp
<1>8. /\ g \in Seq(Cell) /\ g[1] = f[1] /\ HasHeader(g) /\ FileSound(g)
      /\ Held(g, s.schema, s.pos)
      /\ Len(g) = IF c # << >> /\ at + n > Len(f) THEN at + n ELSE Len(f)
      /\ s.firstWrite => s.segStart < Len(g) /\ g[s.segStart + 1][1] # "list"
  <2>1. CASE c # << >>
    BY <1>1, <1>2, <1>5, <2>1, WriteOver
  <2>2. CASE c = << >>
    <3>1. g = f
      BY <2>2 DEF WriteAt
    <3>2. Held(f, s.schema, s.pos) /\ HasHeader(f)
      BY <1>2 DEF Building, DataEnd
    <3>3. s.firstWrite => s.segStart < Len(f) /\ f[s.segStart + 1][1] # "list"
      BY <1>2, <1>5 DEF Building
    <3> HIDE DEF g
    <3> QED BY <1>1, <2>2, <3>1, <3>2, <3>3
  <2> QED BY <2>1, <2>2
<1> HIDE DEF at, g, n
<1>9. /\ t \in Process /\ t.pc = "up" /\ t.pos = at + n /\ ~t.step
      /\ t.runtime = s.runtime /\ t.started = s.started
      /\ t.building = s.building /\ t.firstWrite = s.firstWrite
      /\ t.segStart = s.segStart /\ t.segSize = s.segSize
      /\ t.schema = s.schema /\ t.keys = s.keys
      /\ t.addr = s.addr /\ t.handles = s.handles /\ t.minOffset = s.minOffset
      /\ t.misses = s.misses
  <2>1. at + n \in Nat /\ s.fails + 1 \in Nat
    BY <1>3, <1>4, <1>7
  <2> QED BY <1>1, <2>1 DEF Process
<1> HIDE DEF t
<1>10. DataEnd(t) = at + n
  BY <1>9 DEF DataEnd
<1>11. Building(t, g)
  <2>1. t.segStart = s.segStart /\ t.pos = at + n /\ t.schema = s.schema
    BY <1>9
  <2>2. kHeaderSize <= t.segStart /\ t.segStart <= DataEnd(t)
    BY <1>3, <1>4, <1>6, <1>7, <1>10, <2>1 DEF kHeaderSize
  <2>3. t.firstWrite => t.pos # t.segStart
    BY <1>3, <1>4, <1>5, <1>6, <1>7, <1>9
  <2>4. Len(g) <= t.pos + Len(t.schema) + 1
    <3>1. Len(g) <= at + n \/ Len(g) = Len(f)
      BY <1>4, <1>7, <1>8
    <3>2. s.pos \in Nat /\ Len(t.schema) \in Nat /\ Len(f) <= s.pos + Len(t.schema) + 1
      BY <1>3, <1>4, <1>6, <2>1
    <3>3. t.pos \in Nat /\ s.pos <= t.pos /\ t.pos = at + n /\ Len(g) \in Nat
      <4>1. Len(g) \in Nat
        BY <1>8, LenProperties
      <4>2. t.pos = at + n
        BY <2>1
      <4> QED BY <1>3, <1>4, <1>7, <4>1, <4>2
    <3>4. CASE Len(g) <= at + n
      BY <3>2, <3>3, <3>4
    <3>5. CASE Len(g) = Len(f)
      BY <1>4, <3>2, <3>3, <3>5
    <3> QED BY <3>1, <3>4, <3>5
  <2>5. Held(g, t.schema, DataEnd(t))
    <3>1. at + n \in Nat /\ s.pos <= at + n
      BY <1>3, <1>4, <1>7
    <3> QED BY <1>3, <1>8, <1>10, <2>1, <3>1, HeldBefore
  <2>6. t.segSize = 0
    BY <1>2, <1>9 DEF Building
  <2>7. ~t.firstWrite => Version(g[1]) = kInvalidHeader
    BY <1>2, <1>8, <1>9 DEF Building
  <2>8. t.firstWrite => ListOffset(g[1]) = t.segStart /\ Aligned(t.segStart)
    BY <1>2, <1>8, <1>9 DEF Building
  <2>9. t.firstWrite => t.segStart < Len(g) /\ g[t.segStart + 1][1] # "list"
    BY <1>8, <1>9
  <2>10. HasHeader(g) /\ t.pc = "up"
    BY <1>8, <1>9
  <2> QED BY <2>2, <2>3, <2>4, <2>5, <2>6, <2>7, <2>8, <2>9, <2>10 DEF Building
<1>12. Control(t, g)
  BY <1>2, <1>9 DEF Control
<1>13. Known(t, g)
  <2>1. CurrentList(t, g) = CurrentList(s, f)
    BY <1>2, <1>9 DEF CurrentList
  <2> QED BY <1>2, <1>9, <2>1, KnownKept
<1>14. Sound(t, g)
  BY <1>8, <1>9, <1>11, <1>12, <1>13 DEF Sound, Typed
<1> QED BY <1>14 DEF t, g, at, n

\* A list that gets one more buffer.
LEMMA HeldAppend ==
  ASSUME NEW f, NEW list \in Seq(Entry), NEW e \in Entry, NEW end \in Int,
         Held(f, list, end), Aligned(e.off),
         kBaseOffset + e.off + Size[e.key] <= end, HoldsData(f, e.off, e.key)
  PROVE  Held(f, Append(list, e), end)
<1> DEFINE m == Append(list, e)
<1>1. /\ DOMAIN m = 1..(Len(list) + 1) /\ DOMAIN list = 1..Len(list) /\ Len(list) \in Nat
      /\ m[Len(list) + 1] = e /\ \A i \in 1..Len(list) : m[i] = list[i]
  OBVIOUS
<1> HIDE DEF m
<1> SUFFICES ASSUME NEW i \in DOMAIN m
             PROVE  /\ Aligned(m[i].off)
                    /\ kBaseOffset + m[i].off + Size[m[i].key] <= end
                    /\ HoldsData(f, m[i].off, m[i].key)
  BY DEF Held, m
<1>2. CASE i = Len(list) + 1
  BY <1>1, <1>2
<1>3. CASE i # Len(list) + 1
  <2>1. i \in DOMAIN list /\ m[i] = list[i]
    BY <1>1, <1>3
  <2> QED BY <2>1 DEF Held
<1> QED BY <1>2, <1>3

\* A key that is inserted with its entry.
LEMMA KnownInsert ==
  ASSUME NEW s \in Process, NEW t, NEW f, NEW g, Known(s, f), s.started, s.building,
         NEW k \in Keys, k \notin DOMAIN s.keys, NEW off \in Nat,
         t.keys = Insert(s.keys, [j \in {k} |-> off]),
         t.schema = Append(s.schema, [key |-> k, off |-> off]),
         t.addr = s.addr, t.misses = s.misses, t.building, t.started
  PROVE  Known(t, g)
<1> DEFINE e == [key |-> k, off |-> off]
           new == [j \in {k} |-> off]
<1>1. s.schema \in Seq(Entry) /\ s.keys \in Maps(Keys, Nat) /\ e \in Entry
  BY ProcessFields DEF Entry
<1>2. new \in Maps(Keys, Nat) /\ DOMAIN new = {k} /\ new[k] = off
  <2>1. new \in [{k} -> Nat]
    OBVIOUS
  <2> QED BY <2>1 DEF Maps
<1> HIDE DEF new
<1>3. /\ DOMAIN t.keys = DOMAIN s.keys \cup {k} /\ t.keys[k] = off
      /\ \A j \in DOMAIN s.keys : t.keys[j] = s.keys[j]
  <2>1. t.keys = Insert(s.keys, new)
    BY DEF new
  <2>2. /\ DOMAIN Insert(s.keys, new) = DOMAIN s.keys \cup DOMAIN new
        /\ \A x \in DOMAIN s.keys : Insert(s.keys, new)[x] = s.keys[x]
        /\ \A x \in DOMAIN new \ DOMAIN s.keys : Insert(s.keys, new)[x] = new[x]
    BY DEF Insert
  <2> QED BY <1>2, <2>1, <2>2
<1>4. /\ DOMAIN t.schema = 1..(Len(s.schema) + 1) /\ DOMAIN s.schema = 1..Len(s.schema)
      /\ Len(s.schema) \in Nat /\ t.schema[Len(s.schema) + 1] = e
      /\ \A i \in 1..Len(s.schema) : t.schema[i] = s.schema[i]
  <2>1. t.schema = Append(s.schema, e)
    OBVIOUS
  <2> HIDE DEF e
  <2> QED BY <1>1, <2>1
<1>5. CurrentList(t, g) = t.schema /\ CurrentList(s, f) = s.schema
  BY DEF CurrentList
<1> SUFFICES ASSUME NEW j \in DOMAIN t.keys
             PROVE  \/ \E i \in DOMAIN t.schema :
                         t.schema[i] = [key |-> j, off |-> t.keys[j]]
                    \/ Missed(t, j) /\ t.keys[j] \in DOMAIN t.addr
  BY <1>5 DEF Known
<1>6. CASE j = k
  <2>1. Len(s.schema) + 1 \in DOMAIN t.schema
    BY <1>4
  <2>2. t.schema[Len(s.schema) + 1] = [key |-> j, off |-> t.keys[j]]
    BY <1>3, <1>4, <1>6
  <2> QED BY <2>1, <2>2
<1>7. CASE j # k
  <2>1. j \in DOMAIN s.keys /\ t.keys[j] = s.keys[j]
    BY <1>3, <1>7
  <2>2. \/ \E i \in DOMAIN s.schema : s.schema[i] = [key |-> j, off |-> s.keys[j]]
        \/ Missed(s, j) /\ s.keys[j] \in DOMAIN s.addr
    BY <1>5, <2>1 DEF Known
  <2>3. ASSUME NEW i \in DOMAIN s.schema, s.schema[i] = [key |-> j, off |-> s.keys[j]]
        PROVE  i \in DOMAIN t.schema /\ t.schema[i] = [key |-> j, off |-> t.keys[j]]
    BY <1>4, <2>1, <2>3
  <2>4. Missed(s, j) => Missed(t, j)
    BY DEF Missed
  <2> QED BY <2>1, <2>2, <2>3, <2>4
<1> QED BY <1>6, <1>7

\* A weight is packed in a build step.
LEMMA InsertInFileKeeps ==
  ASSUME NEW s, NEW f, Sound(s, f), s.pc = "up", s.started, s.building,
         NEW k \in Keys, k \notin DOMAIN s.keys
  PROVE  LET at == Align(s.pos)
         IN  Sound([s EXCEPT !.pos = at + Size[k],
                             !.schema = Append(@, [key |-> k, off |-> at - kBaseOffset]),
                             !.keys = Insert(@, [j \in {k} |-> at - kBaseOffset])],
                   WriteAt(f, at, DataCells(k)))
<1> DEFINE at == Align(s.pos)
           n == Size[k]
           off == at - kBaseOffset
           e == [key |-> k, off |-> off]
           cells == DataCells(k)
           g == WriteAt(f, at, cells)
           new == [j \in {k} |-> off]
           t == [s EXCEPT !.pos = at + n, !.schema = Append(@, e), !.keys = Insert(@, new)]
<1>1. s \in Process /\ f \in Seq(Cell)
  BY DEF Sound, Typed
<1>2. Control(s, f) /\ Building(s, f) /\ Known(s, f)
  BY DEF Sound
<1>3. /\ s.pos \in Nat /\ s.segStart \in Nat /\ s.schema \in Seq(Entry)
      /\ s.keys \in Maps(Keys, Nat)
  BY <1>1, ProcessFields
<1>4. Len(s.schema) \in Nat /\ Len(f) \in Nat
  BY <1>1, <1>3, LenProperties
<1>5. cells \in Seq(Cell) /\ Len(cells) = n /\ n \in Nat /\ n > 0 /\ cells # << >>
  BY WrittenCells
<1>6. cells[1][1] # "list"
  <2>1. cells[1][1] = "data"
    <3>1. 1 \in 1..Size[k]
      BY <1>5
    <3> QED BY <3>1, WrittenCells
  <2> QED BY <2>1
<1>7. 1 <= s.segStart /\ s.segStart <= s.pos /\ Len(f) <= s.pos + Len(s.schema) + 1
  BY <1>2 DEF Building, DataEnd, kHeaderSize
<1>8. /\ at \in Nat /\ s.pos <= at /\ kBaseOffset <= at
      /\ Len(g) = IF at + n > Len(f) THEN at + n ELSE Len(f)
  BY <1>1, <1>2, <1>5, <1>6, WriteOver
<1>9. g \in Seq(Cell) /\ g[1] = f[1] /\ HasHeader(g) /\ Aligned(at) /\ FileSound(g)
  BY <1>1, <1>2, <1>5, <1>6, WriteOver
<1>10. \A i \in (at + 1)..(at + n) : g[i] = cells[i - at]
  BY <1>1, <1>2, <1>5, <1>6, WriteOver
<1>11. Held(g, s.schema, s.pos)
  BY <1>1, <1>2, <1>5, <1>6, WriteOver
<1>12. s.firstWrite => s.segStart < Len(g) /\ g[s.segStart + 1][1] # "list"
  BY <1>1, <1>2, <1>5, <1>6, WriteOver
<1>13. off \in Nat /\ kBaseOffset + off = at /\ kBaseOffset \in Nat /\ e \in Entry
  <2>1. off \in Nat /\ kBaseOffset + off = at /\ kBaseOffset \in Nat
    <3> HIDE DEF at
    <3> QED BY <1>8, BaseOffset
  <2> QED BY <2>1 DEF Entry
<1>14. Aligned(off)
  <2> HIDE DEF at
  <2> QED BY <1>8, <1>9, BaseOffset, AlignedNeighbours
<1> HIDE DEF at, n, off, cells, g
<1>15. Len(g) \in Nat /\ Len(g) >= at + n
  BY <1>4, <1>5, <1>8
<1>16. HoldsData(g, off, k)
  <2>1. kBaseOffset + off + Size[k] <= Len(g)
    BY <1>13, <1>15 DEF n
  <2>2. ASSUME NEW i \in 1..Size[k] PROVE g[kBaseOffset + off + i] = DataCells(k)[i]
    <3>1. at + i \in (at + 1)..(at + n) /\ (at + i) - at = i
      BY <1>5, <1>8 DEF n
    <3>2. g[at + i] = cells[i]
      BY <1>10, <3>1
    <3> QED BY <1>13, <3>2 DEF cells
  <2> QED BY <2>1, <2>2 DEF HoldsData
<1>17. Held(g, Append(s.schema, e), at + n)
  <2>1. at + n \in Nat /\ s.pos <= at + n
    BY <1>3, <1>5, <1>8
  <2>2. Held(g, s.schema, at + n)
    BY <1>3, <1>11, <2>1, HeldBefore
  <2>3. e.off = off /\ e.key = k
    OBVIOUS
  <2>4. kBaseOffset + e.off + Size[e.key] <= at + n
    BY <1>5, <1>8, <1>13, <2>3 DEF n
  <2> HIDE DEF e
  <2> QED BY <1>3, <1>13, <1>14, <1>16, <2>1, <2>2, <2>3, <2>4, HeldAppend
<1>18. new \in Maps(Keys, Nat)
  <2>1. new \in [{k} -> Nat]
    BY <1>13
  <2> QED BY <2>1 DEF Maps
<1>19. Insert(s.keys, new) \in Maps(Keys, Nat) /\ Append(s.schema, e) \in Seq(Entry)
  <2>1. Insert(s.keys, new) \in Maps(Keys, Nat)
    <3> HIDE DEF new
    <3> QED BY <1>3, <1>18, InsertIsMap
  <2> HIDE DEF e
  <2> QED BY <1>3, <1>13, <2>1
<1> HIDE DEF e, new
<1>20. /\ t \in Process /\ t.pc = "up" /\ t.pos = at + n /\ t.step = s.step
       /\ t.runtime = s.runtime /\ t.started = s.started
       /\ t.building = s.building /\ t.firstWrite = s.firstWrite
       /\ t.segStart = s.segStart /\ t.segSize = s.segSize
       /\ t.schema = Append(s.schema, e) /\ t.keys = Insert(s.keys, new)
       /\ t.addr = s.addr /\ t.handles = s.handles /\ t.minOffset = s.minOffset
       /\ t.misses = s.misses
  <2>1. at + n \in Nat
    BY <1>5, <1>8
  <2> QED BY <1>1, <1>19, <2>1 DEF Process
<1> HIDE DEF t
<1>21. DataEnd(t) = at + n
  BY <1>20 DEF DataEnd
<1>22. Building(t, g)
  <2>1. t.segStart = s.segStart /\ t.pos = at + n /\ Len(t.schema) = Len(s.schema) + 1
    BY <1>3, <1>13, <1>20
  <2>2. kHeaderSize <= t.segStart /\ t.segStart <= DataEnd(t)
    BY <1>3, <1>5, <1>7, <1>8, <1>21, <2>1 DEF kHeaderSize
  <2>3. t.pos # t.segStart
    BY <1>3, <1>5, <1>7, <1>8, <2>1
  <2>4. Len(g) <= t.pos + Len(t.schema) + 1
    <3>0. at \in Nat /\ n \in Nat /\ s.pos \in Nat /\ s.pos <= at
      BY <1>3, <1>5, <1>8
    <3>1. CASE at + n > Len(f)
      <4>1. Len(g) = at + n
        BY <1>8, <3>1
      <4> QED BY <1>4, <2>1, <3>0, <4>1
    <3>2. CASE ~(at + n > Len(f))
      <4>1. Len(g) = Len(f)
        BY <1>8, <3>2
      <4>2. t.pos \in Nat /\ Len(t.schema) \in Nat
        BY <1>4, <2>1, <3>0
      <4>3. s.pos <= t.pos /\ Len(s.schema) <= Len(t.schema)
        BY <1>4, <2>1, <3>0
      <4>4. Len(f) <= s.pos + Len(s.schema) + 1
        BY <1>7
      <4> QED BY <1>4, <3>0, <4>1, <4>2, <4>3, <4>4
    <3> QED BY <3>1, <3>2
  <2>5. Held(g, t.schema, DataEnd(t))
    BY <1>17, <1>20, <1>21
  <2>6. t.segSize = 0
    BY <1>2, <1>20 DEF Building
  <2>7. ~t.firstWrite => Version(g[1]) = kInvalidHeader
    BY <1>2, <1>9, <1>20 DEF Building
  <2>8. t.firstWrite => ListOffset(g[1]) = t.segStart /\ Aligned(t.segStart)
    BY <1>2, <1>9, <1>20 DEF Building
  <2>9. t.firstWrite => t.segStart < Len(g) /\ g[t.segStart + 1][1] # "list"
    BY <1>12, <1>20
  <2>10. HasHeader(g) /\ t.pc = "up"
    BY <1>9, <1>20
  <2> QED BY <2>2, <2>3, <2>4, <2>5, <2>6, <2>7, <2>8, <2>9, <2>10 DEF Building
<1>23. Control(t, g)
  BY <1>2, <1>20 DEF Control
<1>24. Known(t, g)
  BY <1>1, <1>2, <1>13, <1>20, KnownInsert DEF e, new
<1>25. Sound(t, g)
  BY <1>9, <1>20, <1>22, <1>23, <1>24 DEF Sound, Typed
<1> QED BY <1>25 DEF t, g, at, n, off, cells, e, new

\* A process that is not there knows nothing.
LEMMA DownIsSound ==
  ASSUME NEW f \in Seq(Cell), FileSound(f)
  PROVE  Sound(Down, f)
<1>1. << >> \in Maps(Keys, Nat) /\ << >> \in Maps(Nat, Address) /\ DOMAIN << >> = {}
  BY EmptyMap
<1>2. << >> \in Seq(Entry) /\ << >> \in Seq(Handle) /\ << >> \in Seq(Miss)
  OBVIOUS
<1>3. Down \in Process
  BY <1>1, <1>2 DEF Down, Process
<1>4. Control(Down, f) /\ Building(Down, f) /\ Known(Down, f)
  BY <1>1 DEF Down, Control, Building, Known
<1> QED BY <1>3, <1>4 DEF Sound, Typed

\* Addresses are inserted; those that are there stay.
LEMMA InsertAddress ==
  ASSUME NEW m \in Maps(Nat, Address), NEW q \in Maps(Nat, Address)
  PROVE  /\ Insert(m, q) \in Maps(Nat, Address)
         /\ DOMAIN Insert(m, q) = DOMAIN m \cup DOMAIN q
         /\ \A x \in DOMAIN m : Insert(m, q)[x] = m[x]
         /\ \A x \in DOMAIN q \ DOMAIN m : Insert(m, q)[x] = q[x]
<1>1. Insert(m, q) \in Maps(Nat, Address)
  BY InsertIsMap
<1> QED BY <1>1 DEF Insert

\* A process that loads a file knows what its list names.
LEMMA LoadedIsKnown ==
  ASSUME NEW s \in Process, NEW f \in Seq(Cell), LoadChecks(f), FileSound(f),
         s.building => s.schema = LoadedList(f)
  PROVE  /\ LoadedState(s, f) \in Process
         /\ LoadedState(s, f).handles # << >>
         /\ Known(LoadedState(s, f), f)
<1> DEFINE list == LoadedList(f)
           keys == KeysOf(list)
           mapped == MappedIn(1, list)
           addr == Insert(s.addr, mapped)
           handles == <<[off |-> 0, size |-> Len(f)]>>
           top == 1 + Max({0} \cup OffsetsOf(list))
           t == LoadedState(s, f)
<1>1. list \in Seq(Entry) /\ ListOffset(f[1]) \in Nat /\ Len(f) \in Nat /\ Len(f) > 0
  <2>1. list \in Seq(Entry) /\ ListOffset(f[1]) \in Nat /\ HasHeader(f)
    BY LoadableFile
  <2>2. Len(f) \in Nat
    OBVIOUS
  <2> QED BY <2>1, <2>2 DEF HasHeader, kHeaderSize
<1>2. keys \in Maps(Keys, Nat)
  BY <1>1, KeysOfList
<1>3. mapped \in Maps(Nat, Address)
  BY <1>1, MappedInList
<1>4. s.addr \in Maps(Nat, Address)
  BY ProcessFields
<1>5. addr \in Maps(Nat, Address) /\ DOMAIN addr = DOMAIN s.addr \cup DOMAIN mapped
  BY <1>3, <1>4, InsertAddress
<1>6. handles \in Seq(Handle) /\ handles # << >>
  BY <1>1 DEF Handle
<1>7. top \in Nat
  <2>1. Held(f, list, ListOffset(f[1]))
    BY DEF FileSound
  <2>2. Max({0} \cup OffsetsOf(list)) \in Nat
    BY <1>1, <2>1, LargestOffset
  <2> QED BY <2>2
<1>8. /\ t = [s EXCEPT !.keys = keys, !.addr = addr, !.handles = handles, !.minOffset = top]
  BY DEF LoadedState
<1> HIDE DEF list, keys, mapped, addr, handles, top, t
<1>9. t \in Process
  BY <1>2, <1>5, <1>6, <1>7, <1>8 DEF Process
<1>10. /\ t.keys = keys /\ t.addr = addr /\ t.handles = handles
       /\ t.building = s.building /\ t.schema = s.schema
  BY <1>8 DEF Process
<1>11. CurrentList(t, f) = list
  BY <1>10 DEF CurrentList, list
<1>12. ASSUME NEW k \in DOMAIN keys
       PROVE  /\ keys[k] \in DOMAIN addr
              /\ \E i \in DOMAIN list : list[i] = [key |-> k, off |-> keys[k]]
  <2>1. PICK i \in DOMAIN list : list[i] = [key |-> k, off |-> keys[k]]
    BY <1>1, KeysOfList DEF keys
  <2>2. list[i].off \in DOMAIN mapped
    BY <1>1, MappedInList DEF mapped
  <2> QED BY <1>5, <2>1, <2>2
<1>13. Known(t, f)
  BY <1>10, <1>11, <1>12 DEF Known
<1> QED BY <1>6, <1>9, <1>10, <1>13 DEF t

\* LoadOrStartBuild loads the file, or empties it.
LEMMA LoadOrStartKeeps ==
  ASSUME NEW f \in Seq(Cell), FileSound(f), NEW byFd \in BOOLEAN, NEW fails \in Nat
  PROVE  LET fresh == [Down EXCEPT !.pc = "up", !.fd = byFd, !.fails = fails]
             loaded == Load(fresh, f)
             mapped == f # << >> /\ fails = 0
         IN  IF mapped /\ loaded.ok THEN Sound(loaded.s, f)
             ELSE Sound([(IF mapped THEN loaded.s ELSE fresh) EXCEPT
                           !.pc = "start", !.fd = TRUE, !.started = TRUE], << >>)
<1> DEFINE fresh == [Down EXCEPT !.pc = "up", !.fd = byFd, !.fails = fails]
           loaded == Load(fresh, f)
           mapped == f # << >> /\ fails = 0
           s == IF mapped THEN loaded.s ELSE fresh
           t == [s EXCEPT !.pc = "start", !.fd = TRUE, !.started = TRUE]
<1>1. Sound(Down, f)
  BY DownIsSound
<1>2. /\ Down \in Process /\ Down.pc = "down" /\ ~Down.step /\ ~Down.runtime
      /\ ~Down.started /\ ~Down.building /\ ~Down.firstWrite /\ Down.schema = << >>
      /\ Empty(Down)
  BY <1>1 DEF Sound, Typed, Empty, Down
<1>3. /\ fresh \in Process /\ fresh.pc = "up" /\ ~fresh.step /\ ~fresh.runtime
      /\ ~fresh.started /\ ~fresh.building /\ ~fresh.firstWrite /\ fresh.schema = << >>
      /\ Empty(fresh)
  <2> HIDE DEF Down
  <2> QED BY <1>2 DEF Process, Empty
<1> HIDE DEF fresh
<1>4. CASE LoadChecks(f) /\ fails = 0
  <2>1. loaded = [ok |-> TRUE, s |-> LoadedState(fresh, f)]
    BY <1>4, LoadSucceeds
  <2>2. f # << >>
    <3>1. Len(f) >= 1
      BY <1>4 DEF LoadChecks, HasHeader, kHeaderSize
    <3> QED BY <3>1
  <2> DEFINE l == LoadedState(fresh, f)
  <2>3. l \in Process /\ l.handles # << >> /\ Known(l, f)
    BY <1>3, <1>4, LoadedIsKnown
  <2>4. l.pc = "up" /\ ~l.step /\ ~l.runtime /\ ~l.started /\ ~l.building
    BY <1>3 DEF LoadedState, Process
  <2> HIDE DEF l
  <2>5. Control(l, f) /\ Building(l, f)
    BY <2>4 DEF Control, Building
  <2>6. Sound(l, f)
    BY <2>3, <2>5 DEF Sound, Typed
  <2> QED BY <1>4, <2>1, <2>2, <2>6 DEF l, fresh
<1>5. CASE ~(LoadChecks(f) /\ fails = 0)
  <2>1. mapped => loaded = [ok |-> FALSE, s |-> NotLoaded(fresh)]
    BY <1>5, LoadFails
  <2>2. << >> \in Maps(Keys, Nat) /\ << >> \in Seq(Handle)
    BY EmptyMap
  <2>3. /\ s \in Process /\ ~s.step /\ ~s.runtime
        /\ ~s.building /\ ~s.firstWrite /\ s.schema = << >>
        /\ Empty(s)
    <3>1. CASE ~mapped
      BY <1>3, <3>1
    <3>2. CASE mapped
      <4>1. s = [fresh EXCEPT !.keys = << >>, !.handles = << >>]
        BY <2>1, <3>2 DEF NotLoaded
      <4> HIDE DEF s
      <4> QED BY <1>3, <2>2, <4>1 DEF Process, Empty
    <3> QED BY <3>1, <3>2
  <2> HIDE DEF s, loaded
  <2>4. /\ t \in Process /\ t.pc = "start" /\ t.started /\ ~t.step /\ ~t.runtime
        /\ ~t.building /\ ~t.firstWrite /\ t.schema = << >>
        /\ t.keys = s.keys /\ t.addr = s.addr /\ t.handles = s.handles
        /\ t.misses = s.misses /\ t.minOffset = s.minOffset
    BY <2>3 DEF Process
  <2> HIDE DEF t
  <2>5. Empty(t)
    BY <2>3, <2>4 DEF Empty
  <2>6. Control(t, << >>) /\ Building(t, << >>)
    BY <2>4, <2>5 DEF Control, Building
  <2>7. Known(t, << >>)
    <3>1. t.keys = << >> /\ DOMAIN << >> = {}
      BY <2>5, EmptyMap DEF Empty
    <3> QED BY <3>1 DEF Known
  <2>8. FileSound(<< >>) /\ << >> \in Seq(Cell)
    BY DEF FileSound, LoadChecks, HasHeader, kHeaderSize
  <2>9. Sound(t, << >>)
    BY <2>4, <2>6, <2>7, <2>8 DEF Sound, Typed
  <2>10. ~(mapped /\ loaded.ok)
    BY <2>1
  <2> QED BY <2>9, <2>10 DEF t, s, loaded, fresh
<1> QED BY <1>4, <1>5

\* Start writes a header without a version.
LEMMA WriteInitialHeaderKeeps ==
  ASSUME NEW s, NEW f, Sound(s, f), s.pc = "start"
  PROVE  LET g == WriteAt(f, 0, <<Header(kInvalidHeader, kHeaderSize, 0, FALSE)>>)
         IN  Sound([BeginSegment(s, g) EXCEPT !.pc = "list"], g)
<1> DEFINE h == Header(kInvalidHeader, kHeaderSize, 0, FALSE)
           g == WriteAt(f, 0, <<h>>)
           t == [BeginSegment(s, g) EXCEPT !.pc = "list"]
<1>1. s \in Process /\ f = << >>
  BY DEF Sound, Typed, Control
<1>2. /\ s.started /\ ~s.step /\ ~s.firstWrite /\ s.schema = << >> /\ Empty(s)
      /\ s.runtime => s.handles # << >>
  BY DEF Sound, Control
<1>3. /\ h \in Cell /\ h[1] = "header" /\ Version(h) = kInvalidHeader
      /\ ListOffset(h) = 1 /\ ListSize(h) = 0
  <2>1. h = Header(0, 1, 0, FALSE) /\ kInvalidHeader = 0
    BY DEF kInvalidHeader, kHeaderSize
  <2> HIDE DEF h
  <2>2. h \in Cell /\ h[1] = "header" /\ Version(h) = 0 /\ ListOffset(h) = 1 /\ ListSize(h) = 0
    BY <2>1 DEF Header, Cell, HeaderCell, Version, ListOffset, ListSize
  <2> QED BY <2>1, <2>2
<1> HIDE DEF h
<1>4. g \in Seq(Cell) /\ Len(g) = 1 /\ g[1] = h
  <2>1. <<h>> \in Seq(Cell) /\ <<h>> # << >> /\ Len(<<h>>) = 1 /\ <<h>>[1] = h
    BY <1>3
  <2>2. f \in Seq(Cell) /\ Len(f) = 0 /\ 0 \in Nat
    BY <1>1
  <2>3. /\ g \in Seq(Cell)
        /\ Len(g) = IF 0 + Len(<<h>>) > Len(f) THEN 0 + Len(<<h>>) ELSE Len(f)
        /\ \A i \in (0 + 1)..(0 + Len(<<h>>)) : g[i] = <<h>>[i - 0]
    BY <2>1, <2>2, WriteAtWrites, ZenonT(40)
  <2> QED BY <2>1, <2>2, <2>3
<1> HIDE DEF g
<1>5. t = [s EXCEPT !.building = TRUE, !.pos = 1, !.segStart = 1, !.segSize = 0, !.pc = "list"]
  <2>1. /\ ListOffset(g[1]) = 1 /\ ListSize(g[1]) = 0
    BY <1>3, <1>4
  <2>2. t = [s EXCEPT !.building = TRUE, !.pos = 1, !.segStart = 1, !.segSize = 0,
                      !.schema = @, !.pc = "list"]
    BY <2>1 DEF BeginSegment
  <2> QED BY <1>1, <2>2 DEF Process
<1> HIDE DEF t
<1>6. /\ t \in Process /\ t.pc = "list" /\ t.building /\ t.pos = 1 /\ t.segStart = 1
      /\ t.segSize = 0 /\ t.started = s.started /\ t.step = s.step
      /\ t.firstWrite = s.firstWrite /\ t.schema = s.schema /\ t.runtime = s.runtime
  BY <1>1, <1>5 DEF Process
<1>7. /\ t.keys = s.keys /\ t.addr = s.addr /\ t.handles = s.handles
      /\ t.misses = s.misses /\ t.minOffset = s.minOffset
  BY <1>1, <1>5 DEF Process
<1>8. Empty(t)
  BY <1>2, <1>7 DEF Empty
<1>9. HasHeader(g) /\ Version(g[1]) = kInvalidHeader
  BY <1>3, <1>4 DEF HasHeader, kHeaderSize
<1>10. Building(t, g)
  <2>1. DataEnd(t) = 1
    BY <1>6 DEF DataEnd
  <2>2. Held(g, t.schema, DataEnd(t)) /\ Len(t.schema) = 0
    <3>1. t.schema = << >>
      BY <1>2, <1>6
    <3> QED BY <3>1, EmptyMap DEF Held
  <2>3. Len(g) <= t.pos + Len(t.schema) + 1
    BY <1>4, <1>6, <2>2
  <2>4. kHeaderSize <= t.segStart /\ t.segStart <= DataEnd(t)
    BY <1>6, <2>1 DEF kHeaderSize
  <2> QED BY <1>2, <1>6, <1>9, <2>2, <2>3, <2>4 DEF Building
<1>11. Control(t, g)
  BY <1>2, <1>6, <1>7, <1>8 DEF Control
<1>12. Known(t, g)
  BY <1>8, EmptyMap DEF Known, Empty
<1>13. FileSound(g)
  BY <1>4, <1>9, DoesNotLoad
<1>14. Sound(t, g)
  BY <1>4, <1>6, <1>10, <1>11, <1>12, <1>13 DEF Sound, Typed
<1> QED BY <1>14 DEF t, g, h

\* StartBuildStep puts the cursor on the list, which it has read.
LEMMA BeginSegmentKeeps ==
  ASSUME NEW s, NEW f, Sound(s, f), s.pc = "up", s.started, ~s.building
  PROVE  Sound([BeginSegment(s, f) EXCEPT !.step = TRUE], f)
<1> DEFINE o == ListOffset(f[1])
           list == LoadedList(f)
           t == [BeginSegment(s, f) EXCEPT !.step = TRUE]
<1>1. s \in Process /\ f \in Seq(Cell) /\ FileSound(f) /\ Control(s, f) /\ Known(s, f)
  BY DEF Sound, Typed
<1>2. s.firstWrite /\ LoadChecks(f)
  BY <1>1 DEF Control
<1>3. /\ HasHeader(f) /\ o \in Nat /\ list \in Seq(Entry)
      /\ ListSize(f[1]) = Len(list) + 1 /\ Len(f) = o + Len(list) + 1
  BY <1>1, <1>2, LoadableFile
<1>4. kHeaderSize <= o /\ Aligned(o) /\ Held(f, list, o)
  BY <1>1, <1>2 DEF FileSound, kHeaderSize
<1>5. Len(list) \in Nat /\ ListSize(f[1]) # 0
  BY <1>3, LenProperties
<1>6. t = [s EXCEPT !.building = TRUE, !.pos = o, !.segStart = o, !.segSize = 0,
                    !.schema = list, !.step = TRUE]
  BY <1>5 DEF BeginSegment
<1> HIDE DEF t, o, list
<1>7. /\ t \in Process /\ t.pc = "up" /\ t.step /\ t.building /\ t.pos = o /\ t.segStart = o
      /\ t.segSize = 0 /\ t.schema = list /\ t.started = s.started
      /\ t.firstWrite = s.firstWrite /\ t.runtime = s.runtime
  BY <1>1, <1>3, <1>6 DEF Process
<1>8. t.keys = s.keys /\ t.addr = s.addr /\ t.handles = s.handles /\ t.misses = s.misses
  BY <1>1, <1>6 DEF Process
<1>9. DataEnd(t) = o
  BY <1>7 DEF DataEnd
<1>10. Building(t, f)
  <2>1. kHeaderSize <= t.segStart /\ t.segStart <= DataEnd(t)
    BY <1>3, <1>4, <1>7, <1>9
  <2>2. Len(f) <= t.pos + Len(t.schema) + 1
    <3>1. t.pos + Len(t.schema) + 1 = o + Len(list) + 1 /\ o + Len(list) + 1 \in Nat
      BY <1>3, <1>5, <1>7
    <3> QED BY <1>3, <3>1
  <2>3. Held(f, t.schema, DataEnd(t))
    BY <1>4, <1>7, <1>9
  <2>4. ListOffset(f[1]) = t.segStart /\ Aligned(t.segStart) /\ t.schema = LoadedList(f)
    BY <1>4, <1>7 DEF o, list
  <2> QED BY <1>2, <1>3, <1>7, <2>1, <2>2, <2>3, <2>4 DEF Building
<1>11. Control(t, f)
  BY <1>1, <1>7, <1>8 DEF Control
<1>12. Known(t, f)
  <2>1. CurrentList(t, f) = list /\ CurrentList(s, f) = list
    BY <1>7 DEF CurrentList, list
  <2>2. \A k : Missed(t, k) <=> Missed(s, k)
    BY <1>8 DEF Missed
  <2> QED BY <1>1, <1>7, <1>8, <2>1, <2>2 DEF Known
<1>13. Sound(t, f)
  BY <1>1, <1>7, <1>10, <1>11, <1>12 DEF Sound, Typed
<1> QED BY <1>13 DEF t

\* StartBuildStep, with the tests of what it reads.
LEMMA StartBuildStepKeeps ==
  ASSUME NEW s, NEW f, Sound(s, f), s.pc = "up", s.started, ~s.step
  PROVE  Sound([(IF s.building THEN s ELSE BeginSegment(s, f)) EXCEPT !.step = TRUE], f)
<1>1. s \in Process /\ f \in Seq(Cell) /\ FileSound(f) /\ Control(s, f) /\ Known(s, f)
      /\ Building(s, f)
  BY DEF Sound, Typed
<1>2. CASE s.building
  <2> DEFINE t == [s EXCEPT !.step = TRUE]
  <2>1. /\ t \in Process /\ t.pc = "up" /\ t.step /\ t.building = s.building
        /\ t.pos = s.pos /\ t.segStart = s.segStart
        /\ t.segSize = s.segSize /\ t.schema = s.schema /\ t.started = s.started
        /\ t.firstWrite = s.firstWrite /\ t.runtime = s.runtime
    BY <1>1 DEF Process
  <2>2. t.keys = s.keys /\ t.addr = s.addr /\ t.handles = s.handles /\ t.misses = s.misses
    BY <1>1 DEF Process
  <2> HIDE DEF t
  <2>3. DataEnd(t) = DataEnd(s)
    BY <2>1 DEF DataEnd
  <2>4. Building(t, f)
    BY <1>1, <2>1, <2>3 DEF Building
  <2>5. Control(t, f)
    BY <1>1, <1>2, <2>1, <2>2 DEF Control
  <2>6. CurrentList(t, f) = CurrentList(s, f)
    BY <2>1 DEF CurrentList
  <2>7. Known(t, f)
    BY <1>1, <2>1, <2>2, <2>6, KnownKept
  <2>8. Sound(t, f)
    BY <1>1, <2>1, <2>4, <2>5, <2>7 DEF Sound, Typed
  <2> QED BY <1>2, <2>8 DEF t
<1>3. CASE ~s.building
  BY <1>3, BeginSegmentKeeps
<1> QED BY <1>2, <1>3

\* StopBuildStep, when there is a list to write and when nothing was written.
LEMMA StopBuildStepKeeps ==
  ASSUME NEW s, NEW f, Sound(s, f), s.pc = "up", s.step, s.building, NEW resized
  PROVE  LET empty == s.pos = s.segStart /\ s.firstWrite
             r == LoadLastBuildStep(s, f, resized)
         IN  Sound(IF ~empty THEN [s EXCEPT !.pc = "list"]
                   ELSE [r.s EXCEPT !.step = FALSE, !.runtime = @ \/ r.ok], f)
<1> DEFINE empty == s.pos = s.segStart /\ s.firstWrite
           r == LoadLastBuildStep(s, f, resized)
<1>1. s \in Process /\ f \in Seq(Cell) /\ FileSound(f) /\ Control(s, f) /\ Known(s, f)
      /\ Building(s, f)
  BY DEF Sound, Typed
<1>2. s.started
  BY <1>1 DEF Control
<1>3. CASE ~empty
  <2> DEFINE t == [s EXCEPT !.pc = "list"]
  <2>1. /\ t \in Process /\ t.pc = "list" /\ t.step = s.step /\ t.building = s.building
        /\ t.pos = s.pos /\ t.segStart = s.segStart
        /\ t.segSize = s.segSize /\ t.schema = s.schema /\ t.started = s.started
        /\ t.firstWrite = s.firstWrite /\ t.runtime = s.runtime
    BY <1>1 DEF Process
  <2>2. t.keys = s.keys /\ t.addr = s.addr /\ t.handles = s.handles /\ t.misses = s.misses
    BY <1>1 DEF Process
  <2> HIDE DEF t
  <2>3. DataEnd(t) = DataEnd(s)
    BY <2>1 DEF DataEnd
  <2>4. Building(t, f)
    BY <1>1, <1>3, <2>1, <2>3 DEF Building
  <2>5. Control(t, f)
    BY <1>1, <1>2, <2>1, <2>2 DEF Control
  <2>6. CurrentList(t, f) = CurrentList(s, f)
    BY <2>1 DEF CurrentList
  <2>7. Known(t, f)
    BY <1>1, <2>1, <2>2, <2>6, KnownKept
  <2>8. Sound(t, f)
    BY <1>1, <2>1, <2>4, <2>5, <2>7 DEF Sound, Typed
  <2> QED BY <1>3, <2>8 DEF t
<1>4. CASE empty
  <2>1. LoadChecks(f) /\ s.schema = LoadedList(f) /\ s.segSize = 0
    BY <1>1, <1>2, <1>4 DEF Building
  <2> DEFINE u == IF s.handles = << >> THEN LoadedState(s, f) ELSE s
             t == [u EXCEPT !.step = FALSE, !.runtime = @ \/ TRUE]
  <2>2. r = [ok |-> TRUE, s |-> u]
    <3>1. CASE s.handles = << >>
      <4>1. Load(s, f) = [ok |-> TRUE, s |-> LoadedState(s, f)]
        BY <1>1, <2>1, LoadSucceeds
      <4> QED BY <3>1, <4>1 DEF LoadLastBuildStep
    <3>2. CASE s.handles # << >>
      BY <2>1, <3>2 DEF LoadLastBuildStep
    <3> QED BY <3>1, <3>2
  <2>3. u \in Process /\ u.handles # << >> /\ Known(u, f)
    BY <1>1, <2>1, LoadedIsKnown
  <2>4. /\ u.pc = s.pc /\ u.building = s.building /\ u.started = s.started
        /\ u.pos = s.pos /\ u.segStart = s.segStart /\ u.segSize = s.segSize
        /\ u.schema = s.schema /\ u.firstWrite = s.firstWrite
    BY <1>1 DEF LoadedState, Process
  <2> HIDE DEF u
  <2>5. /\ t \in Process /\ t.pc = u.pc /\ ~t.step /\ t.building = u.building
        /\ t.pos = u.pos /\ t.segStart = u.segStart /\ t.segSize = u.segSize
        /\ t.schema = u.schema /\ t.started = u.started /\ t.firstWrite = u.firstWrite
    BY <2>3 DEF Process
  <2>6. t.keys = u.keys /\ t.addr = u.addr /\ t.handles = u.handles /\ t.misses = u.misses
    BY <2>3 DEF Process
  <2>7. t = [r.s EXCEPT !.step = FALSE, !.runtime = @ \/ r.ok]
    BY <2>2
  <2> HIDE DEF t
  <2>8. DataEnd(t) = DataEnd(s)
    BY <2>4, <2>5 DEF DataEnd
  <2>9. Building(t, f)
    <3>1. /\ t.pc = s.pc /\ t.building = s.building /\ t.started = s.started
          /\ t.pos = s.pos /\ t.segStart = s.segStart /\ t.segSize = s.segSize
          /\ t.schema = s.schema /\ t.firstWrite = s.firstWrite
      BY <2>4, <2>5
    <3> QED BY <1>1, <2>8, <3>1 DEF Building
  <2>10. Control(t, f)
    BY <2>3, <2>4, <2>5, <2>6 DEF Control
  <2>11. Known(t, f)
    <3>1. CurrentList(t, f) = CurrentList(u, f)
      BY <2>5 DEF CurrentList
    <3> QED BY <2>3, <2>5, <2>6, <3>1, KnownKept
  <2>12. Sound(t, f)
    BY <1>1, <2>5, <2>9, <2>10, <2>11 DEF Sound, Typed
  <2> QED BY <1>4, <2>7, <2>12 DEF r
<1> QED BY <1>3, <1>4

\* An empty step that cannot map the file knows nothing.
LEMMA NotLoadedKeeps ==
  ASSUME NEW s, NEW f, Sound(s, f), s.pc = "up", s.step, s.building, s.handles = << >>
  PROVE  Sound([NotLoaded(s) EXCEPT !.step = FALSE, !.fails = @ + 1], f)
<1> DEFINE t == [NotLoaded(s) EXCEPT !.step = FALSE, !.fails = @ + 1]
<1>1. s \in Process /\ f \in Seq(Cell) /\ FileSound(f) /\ Control(s, f) /\ Building(s, f)
  BY DEF Sound, Typed
<1>2. << >> \in Maps(Keys, Nat) /\ << >> \in Seq(Handle) /\ DOMAIN << >> = {}
  BY EmptyMap
<1>3. t = [s EXCEPT !.keys = << >>, !.handles = << >>, !.step = FALSE, !.fails = @ + 1]
  BY <1>1 DEF NotLoaded, Process
<1>4. /\ t \in Process /\ t.pc = s.pc /\ ~t.step /\ t.building = s.building
      /\ t.pos = s.pos /\ t.segStart = s.segStart
      /\ t.segSize = s.segSize /\ t.schema = s.schema /\ t.started = s.started
      /\ t.firstWrite = s.firstWrite /\ t.runtime = s.runtime
      /\ t.keys = << >> /\ t.handles = s.handles
  <2>1. s.fails + 1 \in Nat
    BY <1>1, ProcessFields
  <2> HIDE DEF t
  <2> QED BY <1>1, <1>2, <1>3, <2>1 DEF Process
<1> HIDE DEF t
<1>5. DataEnd(t) = DataEnd(s)
  BY <1>4 DEF DataEnd
<1>6. Building(t, f)
  BY <1>1, <1>4, <1>5 DEF Building
<1>7. Control(t, f)
  BY <1>1, <1>4 DEF Control
<1>8. Known(t, f)
  BY <1>2, <1>4 DEF Known
<1>9. Sound(t, f)
  BY <1>1, <1>4, <1>6, <1>7, <1>8 DEF Sound, Typed
<1> QED BY <1>9 DEF t

\* The header that StopBuildStep writes last makes the file load.
LEMMA HeaderMakesItLoad ==
  ASSUME NEW s, NEW f, Sound(s, f), s.pc = "header"
  PROVE  LET size == Len(ListCells(s.schema))
             g == WriteAt(f, 0, <<Header(kVersion, s.pos - size, size, FALSE)>>)
         IN  /\ g \in Seq(Cell) /\ Len(g) = s.pos
             /\ LoadChecks(g) /\ LoadedList(g) = s.schema /\ FileSound(g)
             /\ ListOffset(g[1]) = DataEnd(s)
<1> DEFINE size == Len(ListCells(s.schema))
           o == s.pos - size
           h == Header(kVersion, o, size, FALSE)
           g == WriteAt(f, 0, <<h>>)
<1>1. s \in Process /\ f \in Seq(Cell) /\ Control(s, f) /\ Building(s, f)
  BY DEF Sound, Typed
<1>2. s.started /\ s.building
  BY <1>1 DEF Control
<1>3. s.pos \in Nat /\ s.segStart \in Nat /\ s.schema \in Seq(Entry) /\ Len(s.schema) \in Nat
  BY <1>1, ProcessFields, LenProperties
<1>4. size = Len(s.schema) + 1 /\ size \in Nat
  BY <1>3, WrittenCells
<1>5. DataEnd(s) = s.pos - Len(s.schema) - 1
  BY DEF DataEnd
<1>6. o = DataEnd(s) /\ o \in Int
  <2> HIDE DEF size
  <2> QED BY <1>3, <1>4, <1>5
<1>7. 1 <= s.segStart /\ s.segStart <= o /\ Aligned(o) /\ Held(f, s.schema, o)
  BY <1>1, <1>2, <1>6 DEF Building, kHeaderSize
<1>8. o \in Nat /\ 1 <= o
  BY <1>3, <1>6, <1>7
<1>9. Len(f) = s.pos /\ SubSeq(f, o + 1, s.pos) = ListCells(s.schema)
  BY <1>1, <1>2, <1>6 DEF Building
<1>10. o + size = s.pos /\ s.pos = o + Len(s.schema) + 1
  <2> HIDE DEF size
  <2>1. o = s.pos - size
    OBVIOUS
  <2> HIDE DEF o
  <2> QED BY <1>3, <1>4, <1>8, <2>1
<1> HIDE DEF size, o
<1>11. h \in Cell /\ h = Header(kVersion, o, size, FALSE) /\ ListOffset(h) = o
  <2>1. kVersion \in Nat /\ FALSE \in BOOLEAN
    BY DEF kVersion
  <2>2. h = Header(kVersion, o, size, FALSE)
    OBVIOUS
  <2> HIDE DEF h
  <2>3. h \in Cell /\ ListOffset(h) = o
    BY <1>4, <1>8, <2>1, <2>2 DEF Header, Cell, HeaderCell, ListOffset
  <2> QED BY <2>2, <2>3
<1> HIDE DEF h
<1>18. h \in Cell
  BY <1>11
<1>12. /\ g \in Seq(Cell) /\ Len(g) = s.pos /\ g[1] = h
       /\ \A i \in 2..Len(f) : g[i] = f[i]
  <2>1. <<h>> \in Seq(Cell) /\ <<h>> # << >> /\ Len(<<h>>) = 1 /\ <<h>>[1] = h
    BY <1>18
  <2>2. /\ g \in Seq(Cell)
        /\ Len(g) = IF 0 + Len(<<h>>) > Len(f) THEN 0 + Len(<<h>>) ELSE Len(f)
        /\ \A i \in 1..Len(f) : i \notin (0 + 1)..(0 + Len(<<h>>)) => g[i] = f[i]
        /\ \A i \in (0 + 1)..(0 + Len(<<h>>)) : g[i] = <<h>>[i - 0]
    BY <1>1, <2>1, WriteAtWrites
  <2>3. s.pos >= 1 /\ Len(f) = s.pos /\ s.pos \in Nat
    BY <1>3, <1>8, <1>9, <1>10
  <2>4. Len(g) = s.pos
    BY <2>1, <2>2, <2>3
  <2>5. g[1] = h
    BY <2>1, <2>2
  <2>6. \A i \in 2..Len(f) : g[i] = f[i]
    BY <2>1, <2>2, <2>3
  <2> QED BY <2>2, <2>4, <2>5, <2>6
<1>13. Held(g, s.schema, o)
  <2>1. <<h>> \in Seq(Cell) /\ Len(<<h>>) = 1
    BY <1>18
  <2>2. 0 + Len(<<h>>) <= kBaseOffset
    BY <2>1, BaseOffset
  <2> QED BY <1>1, <1>3, <1>6, <1>7, <2>1, <2>2, HeldKept
<1> HIDE DEF g
<1>14. SubSeq(g, o + 1, o + Len(s.schema) + 1) = ListCells(s.schema)
  <2> DEFINE c == ListCells(s.schema)
  <2>1. c \in Seq(Cell) /\ Len(c) = size /\ Len(c) = Len(s.schema) + 1
    BY <1>3, <1>4, WrittenCells
  <2>2. SubSeq(f, o + 1, o + Len(c)) = c
    BY <1>9, <1>10, <2>1
  <2>3. ASSUME NEW i \in (o + 1)..(o + Len(c)) PROVE g[i] = c[i - o]
    <3>1. i \in Nat /\ i - o \in 1..Len(c) /\ o + Len(c) = Len(f) /\ Len(c) \in Nat
      BY <1>4, <1>8, <1>9, <1>10, <2>1
    <3>2. i \in 2..Len(f)
      BY <1>8, <3>1
    <3>3. SubSeq(f, o + 1, o + Len(c))[i - o] = f[i]
      <4>1. PICK n \in Nat : n = Len(c)
        BY <3>1
      <4>2. i - o \in 1..n /\ o + n = Len(f)
        BY <3>1, <4>1
      <4>3. SubSeq(f, o + 1, o + n)[i - o] = f[(o + 1) + (i - o) - 1]
        BY <1>1, <1>8, <4>2
      <4>4. (o + 1) + (i - o) - 1 = i
        BY <1>8, <3>1
      <4> QED BY <4>1, <4>3, <4>4
    <3> QED BY <1>12, <2>2, <3>2, <3>3
  <2>4. o + Len(c) <= Len(g)
    BY <1>10, <1>12, <1>3, <2>1
  <2> HIDE DEF c
  <2>5. SubSeq(g, o + 1, o + Len(c)) = c
    BY <1>8, <1>12, <2>1, <2>3, <2>4, PieceOfFile
  <2>6. o + Len(c) = o + Len(s.schema) + 1
    BY <1>10, <2>1
  <2> QED BY <2>5, <2>6 DEF c
<1>15. LoadChecks(g) /\ LoadedList(g) = s.schema
  <2>1. g[1] = Header(kVersion, o, Len(s.schema) + 1, FALSE)
    BY <1>4, <1>11, <1>12
  <2>2. Len(g) = o + Len(s.schema) + 1
    BY <1>10, <1>12
  <2> QED BY <1>3, <1>8, <1>12, <1>14, <2>1, <2>2, WrittenFileLoads
<1>16. ListOffset(g[1]) = o
  BY <1>11, <1>12
<1>17. FileSound(g)
  BY <1>7, <1>8, <1>13, <1>15, <1>16 DEF FileSound, kHeaderSize
<1> QED BY <1>6, <1>12, <1>15, <1>16, <1>17 DEF g, h, o, size

\* The mappings after a build step of size cells at start: the last one grows
\* where it is, or a new one is there.
Grown(handles, start, size, resized) ==
  IF resized THEN [handles EXCEPT ![Len(handles)].size = @ + size]
  ELSE Append(handles, [off |-> start, size |-> size])

\* What a mapping has, and what it has when it grows.
LEMMA HandleFields ==
  ASSUME NEW h \in Handle, NEW size \in Nat
  PROVE  /\ h.off \in Nat /\ h.size \in Nat
         /\ [h EXCEPT !.size = @ + size] \in Handle
         /\ [h EXCEPT !.size = @ + size].off = h.off
         /\ [h EXCEPT !.size = @ + size].size = h.size + size
BY DEF Handle

\* They are mappings.
LEMMA GrownHandles ==
  ASSUME NEW handles \in Seq(Handle), handles # << >>, NEW start \in Nat, NEW size \in Nat,
         size > 0, NEW resized
  PROVE  LET grown == Grown(handles, start, size, resized)
         IN  grown \in Seq(Handle) /\ grown # << >> /\ Len(grown) \in Nat
<1> DEFINE n == Len(handles)
           big == [handles EXCEPT ![n].size = @ + size]
           new == [off |-> start, size |-> size]
<1>1. n \in Nat /\ n > 0 /\ n \in DOMAIN handles
  BY EmptySeq, LenProperties
<1>2. handles[n] \in Handle /\ handles[n].off \in Nat /\ handles[n].size \in Nat
  <2>1. handles[n] \in Handle
    BY <1>1
  <2> QED BY <2>1 DEF Handle
<1>3. big \in Seq(Handle) /\ Len(big) = n
  <2> DEFINE last == [handles[n] EXCEPT !.size = @ + size]
  <2>1. last \in Handle
    BY <1>2, HandleFields
  <2>2. big = [handles EXCEPT ![n] = last]
    OBVIOUS
  <2> HIDE DEF last, big
  <2> QED BY <1>1, <2>1, <2>2
<1>4. new \in Handle
  BY DEF Handle
<1>5. Append(handles, new) \in Seq(Handle) /\ Len(Append(handles, new)) = n + 1
  <2> HIDE DEF new
  <2> QED BY <1>4
<1>6. \A q \in Seq(Handle) : Len(q) > 0 => q # << >>
  OBVIOUS
<1> HIDE DEF big, new
<1>7. big # << >> /\ Append(handles, new) # << >> /\ n + 1 \in Nat
  BY <1>1, <1>3, <1>5, <1>6
<1> QED BY <1>1, <1>3, <1>5, <1>7 DEF Grown, big, new

\* A step that LoadLastBuildStep maps behind what is mapped.
LEMMA MappedStep ==
  ASSUME NEW w, NEW g, LoadChecks(g), w.handles # << >>, w.segSize # 0,
         w.segSize = Len(g) - w.segStart, NEW resized
  PROVE  LET grown == Grown(w.handles, w.segStart, w.segSize, resized)
         IN  LoadLastBuildStep(w, g, resized) =
               [ok |-> TRUE,
                s |-> [w EXCEPT !.handles = grown,
                                !.addr = Insert(@, MappedIn(Len(grown), LoadedList(g)))]]
BY DEF LoadLastBuildStep, LoadChecks, Grown

\* StopBuildStep maps what is new once the header is written.
LEMMA WriteHeaderKeeps ==
  ASSUME NEW s, NEW f, Sound(s, f), s.pc = "header", NEW resized
  PROVE  LET size == Len(ListCells(s.schema))
             g == WriteAt(f, 0, <<Header(kVersion, s.pos - size, size, FALSE)>>)
             written == [s EXCEPT !.pc = "up", !.step = FALSE, !.pos = kHeaderSize,
                                  !.firstWrite = TRUE, !.building = FALSE]
             r == LoadLastBuildStep(written, g, resized)
         IN  Sound(IF s.step THEN [r.s EXCEPT !.runtime = @ \/ r.ok] ELSE written, g)
<1> DEFINE size == Len(ListCells(s.schema))
           g == WriteAt(f, 0, <<Header(kVersion, s.pos - size, size, FALSE)>>)
           w == [s EXCEPT !.pc = "up", !.step = FALSE, !.pos = kHeaderSize,
                          !.firstWrite = TRUE, !.building = FALSE]
           r == LoadLastBuildStep(w, g, resized)
<1>1. s \in Process /\ f \in Seq(Cell) /\ Control(s, f) /\ Building(s, f) /\ Known(s, f)
  BY DEF Sound, Typed
<1>2. /\ g \in Seq(Cell) /\ Len(g) = s.pos
      /\ LoadChecks(g) /\ LoadedList(g) = s.schema /\ FileSound(g)
  BY HeaderMakesItLoad
<1> HIDE DEF size, g
<1>3. /\ w \in Process /\ w.pc = "up" /\ ~w.step /\ w.firstWrite /\ ~w.building
      /\ w.started = s.started /\ w.runtime = s.runtime /\ w.segStart = s.segStart
      /\ w.segSize = s.segSize /\ w.schema = s.schema
  <2>1. kHeaderSize \in Nat
    BY DEF kHeaderSize
  <2> QED BY <1>1, <2>1 DEF Process
<1>4. w.keys = s.keys /\ w.addr = s.addr /\ w.handles = s.handles /\ w.misses = s.misses
  BY <1>1 DEF Process
<1> HIDE DEF w
<1>5. s.started /\ s.building /\ (s.runtime => s.handles # << >>)
  BY <1>1 DEF Control
<1>6. ASSUME NEW u \in Process, u.pc = "up", ~u.step, u.firstWrite, ~u.building,
             u.runtime => u.handles # << >>, Known(u, g)
      PROVE  Sound(u, g)
  <2>1. Control(u, g)
    BY <1>2, <1>6 DEF Control
  <2>2. Building(u, g)
    BY <1>6 DEF Building
  <2> QED BY <1>2, <1>6, <2>1, <2>2 DEF Sound, Typed
<1>7. CASE ~s.step
  <2>1. Empty(s)
    BY <1>1, <1>7 DEF Control
  <2>2. Known(w, g)
    BY <1>4, <2>1, EmptyMap DEF Known, Empty
  <2>3. Sound(w, g)
    BY <1>3, <1>4, <1>5, <1>6, <2>2
  <2> QED BY <1>7, <2>3 DEF w, g, size
<1>8. ASSUME NEW u \in Process, r = [ok |-> TRUE, s |-> u], s.step,
             u.pc = "up", ~u.step, u.firstWrite, ~u.building,
             u.handles # << >>, Known(u, g)
      PROVE  Sound([r.s EXCEPT !.runtime = @ \/ r.ok], g)
  <2> DEFINE t == [u EXCEPT !.runtime = @ \/ TRUE]
  <2>1. /\ t \in Process /\ t.pc = u.pc /\ t.step = u.step /\ t.firstWrite = u.firstWrite
        /\ t.building = u.building /\ t.started = u.started /\ t.schema = u.schema
    BY DEF Process
  <2>2. t.keys = u.keys /\ t.addr = u.addr /\ t.handles = u.handles /\ t.misses = u.misses
    BY DEF Process
  <2>3. t = [r.s EXCEPT !.runtime = @ \/ r.ok]
    BY <1>8
  <2> HIDE DEF t
  <2>4. CurrentList(t, g) = CurrentList(u, g)
    BY <2>1 DEF CurrentList
  <2>5. Known(t, g)
    BY <1>8, <2>1, <2>2, <2>4, KnownKept
  <2>6. Sound(t, g)
    BY <1>6, <1>8, <2>1, <2>2, <2>5
  <2> QED BY <2>3, <2>6
<1>9. CASE s.step /\ s.handles = << >>
  <2> DEFINE u == LoadedState(w, g)
  <2>1. Load(w, g) = [ok |-> TRUE, s |-> u]
    BY <1>2, LoadSucceeds
  <2>2. r = [ok |-> TRUE, s |-> u]
    BY <1>4, <1>9, <2>1 DEF LoadLastBuildStep
  <2>3. u \in Process /\ u.handles # << >> /\ Known(u, g)
    BY <1>2, <1>3, LoadedIsKnown
  <2>4. u.pc = "up" /\ ~u.step /\ u.firstWrite /\ ~u.building
    BY <1>3 DEF LoadedState, Process
  <2> HIDE DEF u, r
  <2>5. Sound([r.s EXCEPT !.runtime = @ \/ r.ok], g)
    BY <1>8, <1>9, <2>2, <2>3, <2>4
  <2> QED BY <1>9, <2>5 DEF r, w, g, size
<1>10. CASE s.step /\ s.handles # << >>
  <2> DEFINE new == Len(g) - s.segStart
             grown == Grown(s.handles, s.segStart, s.segSize, resized)
             mapped == MappedIn(Len(grown), s.schema)
             addr == Insert(s.addr, mapped)
             u == [w EXCEPT !.handles = grown, !.addr = addr]
  <2>1. new = s.segSize /\ s.segSize \in Nat /\ s.segSize > 0
    <3>1. s.segSize = s.pos - s.segStart /\ s.segStart <= DataEnd(s)
      BY <1>1, <1>5 DEF Building
    <3>2. DataEnd(s) = s.pos - Len(s.schema) - 1
      BY DEF DataEnd
    <3>3. s.segSize \in Nat /\ s.pos \in Nat /\ s.segStart \in Nat /\ Len(s.schema) \in Nat
      BY <1>1, ProcessFields, LenProperties
    <3> QED BY <1>2, <3>1, <3>2, <3>3
  <2>2. s.handles \in Seq(Handle) /\ s.segStart \in Nat /\ s.schema \in Seq(Entry)
        /\ s.addr \in Maps(Nat, Address)
    BY <1>1, ProcessFields
  <2> HIDE DEF new
  <2>3. grown \in Seq(Handle) /\ grown # << >> /\ Len(grown) \in Nat
    BY <1>10, <2>1, <2>2, GrownHandles
  <2>4. r = [ok |-> TRUE, s |-> u]
    <3>1. w.segSize # 0 /\ w.segSize = Len(g) - w.segStart /\ w.handles # << >>
      BY <1>3, <1>4, <1>10, <2>1 DEF new
    <3>2. r = [ok |-> TRUE,
               s |-> [w EXCEPT !.handles = Grown(w.handles, w.segStart, w.segSize, resized),
                               !.addr = Insert(@, MappedIn(Len(Grown(w.handles, w.segStart,
                                                                     w.segSize, resized)),
                                                           LoadedList(g)))]]
      BY <1>2, <3>1, MappedStep
    <3> QED BY <1>2, <1>3, <1>4, <3>2
  <2> HIDE DEF grown
  <2>5. mapped \in Maps(Nat, Address)
    BY <2>2, <2>3, MappedInList
  <2>6. addr \in Maps(Nat, Address) /\ DOMAIN addr = DOMAIN s.addr \cup DOMAIN mapped
    BY <2>2, <2>5, InsertAddress
  <2> HIDE DEF addr
  <2>7. /\ u \in Process /\ u.handles = grown /\ u.addr = addr
        /\ u.pc = w.pc /\ u.step = w.step /\ u.firstWrite = w.firstWrite
        /\ u.building = w.building /\ u.keys = w.keys /\ u.misses = w.misses
    BY <1>3, <2>3, <2>6 DEF Process
  <2> HIDE DEF u, r
  <2>8. CurrentList(u, g) = s.schema /\ CurrentList(s, f) = s.schema
    BY <1>2, <1>3, <1>5, <2>7 DEF CurrentList
  <2>9. Known(u, g)
    <3>1. u.keys = s.keys /\ u.addr = addr /\ u.misses = s.misses
      BY <1>4, <2>7
    <3>2. \A k : Missed(u, k) <=> Missed(s, k)
      BY <3>1 DEF Missed
    <3> SUFFICES ASSUME NEW k \in DOMAIN s.keys
                 PROVE  /\ s.keys[k] \in DOMAIN addr
                        /\ \/ \E i \in DOMAIN s.schema :
                                s.schema[i] = [key |-> k, off |-> s.keys[k]]
                           \/ Missed(u, k) /\ s.keys[k] \in DOMAIN addr
      BY <2>8, <3>1 DEF Known
    <3>3. \/ \E i \in DOMAIN s.schema : s.schema[i] = [key |-> k, off |-> s.keys[k]]
          \/ Missed(s, k) /\ s.keys[k] \in DOMAIN s.addr
      BY <1>1, <1>5, <2>8 DEF Known
    <3>4. ASSUME NEW i \in DOMAIN s.schema, s.schema[i] = [key |-> k, off |-> s.keys[k]]
          PROVE  s.keys[k] \in DOMAIN addr
      <4>1. s.schema[i].off \in DOMAIN mapped
        BY <2>2, <2>3, MappedInList
      <4> QED BY <2>6, <3>4, <4>1
    <3> QED BY <2>6, <3>2, <3>3, <3>4
  <2>10. Sound([r.s EXCEPT !.runtime = @ \/ r.ok], g)
    BY <1>3, <1>8, <1>10, <2>3, <2>4, <2>7, <2>9
  <2> QED BY <1>10, <2>10 DEF r, w, g, size
<1> QED BY <1>7, <1>9, <1>10

\* The first step that cannot be mapped leaves a file that loads, and a process
\* that knows nothing.
LEMMA FirstMappingFailsKeeps ==
  ASSUME NEW s, NEW f, Sound(s, f), s.pc = "header", s.handles = << >>
  PROVE  LET size == Len(ListCells(s.schema))
             g == WriteAt(f, 0, <<Header(kVersion, s.pos - size, size, FALSE)>>)
             written == [s EXCEPT !.pc = "up", !.step = FALSE, !.pos = kHeaderSize,
                                  !.firstWrite = TRUE, !.building = FALSE, !.fails = @ + 1]
         IN  Sound(NotLoaded(written), g)
<1> DEFINE size == Len(ListCells(s.schema))
           g == WriteAt(f, 0, <<Header(kVersion, s.pos - size, size, FALSE)>>)
           w == [s EXCEPT !.pc = "up", !.step = FALSE, !.pos = kHeaderSize,
                          !.firstWrite = TRUE, !.building = FALSE, !.fails = @ + 1]
           t == NotLoaded(w)
<1>1. s \in Process /\ Control(s, f)
  BY DEF Sound, Typed
<1>2. g \in Seq(Cell) /\ LoadChecks(g) /\ FileSound(g)
  BY HeaderMakesItLoad
<1> HIDE DEF g
<1>3. << >> \in Maps(Keys, Nat) /\ << >> \in Seq(Handle) /\ DOMAIN << >> = {}
  BY EmptyMap
<1>4. /\ w \in Process /\ w.pc = "up" /\ ~w.step /\ w.firstWrite /\ ~w.building
      /\ w.runtime = s.runtime
  <2>1. kHeaderSize \in Nat /\ s.fails + 1 \in Nat
    BY <1>1, ProcessFields DEF kHeaderSize
  <2> QED BY <1>1, <2>1 DEF Process
<1> HIDE DEF w
<1>5. /\ t \in Process /\ t.pc = "up" /\ ~t.step /\ t.firstWrite /\ ~t.building
      /\ t.runtime = s.runtime /\ t.keys = << >> /\ t.handles = << >>
  BY <1>3, <1>4 DEF NotLoaded, Process
<1> HIDE DEF t
<1>6. ~s.runtime
  BY <1>1 DEF Control
<1>7. Control(t, g) /\ Building(t, g) /\ Known(t, g)
  BY <1>2, <1>3, <1>5, <1>6 DEF Control, Building, Known
<1>8. Sound(t, g)
  BY <1>2, <1>5, <1>7 DEF Sound, Typed
<1> QED BY <1>8 DEF t, w, g, size

\* Reserve adds a buffer without a key, or replaces one; the others stay.
LEMMA ReserveKeeps ==
  ASSUME NEW s \in Process
  PROVE  LET m == Reserve(s)
         IN  /\ m \in Seq(Miss) /\ Len(m) \in DOMAIN m /\ Len(m) \in Nat
             /\ \A i \in DOMAIN s.misses :
                  s.misses[i].key # << >> => /\ i \in DOMAIN m /\ i # Len(m)
                                             /\ m[i] = s.misses[i]
<1> DEFINE n == Len(s.misses)
           b == [off |-> s.minOffset + n, key |-> << >>]
           m == Reserve(s)
<1>1. s.misses \in Seq(Miss) /\ s.minOffset \in Nat /\ n \in Nat
  BY ProcessFields, LenProperties
<1>2. b \in Miss /\ b.key = << >>
  BY <1>1 DEF Miss
<1>3. m = IF s.misses # << >> /\ Last(s.misses).key = << >>
          THEN [s.misses EXCEPT ![n] = b] ELSE Append(s.misses, b)
  BY DEF Reserve
<1>4. DOMAIN s.misses = 1..n
  BY <1>1
<1> HIDE DEF b
<1>5. CASE s.misses # << >> /\ Last(s.misses).key = << >>
  <2>1. m = [s.misses EXCEPT ![n] = b]
    BY <1>3, <1>5
  <2>2. n > 0 /\ s.misses[n].key = << >>
    BY <1>1, <1>5 DEF Last
  <2> HIDE DEF m
  <2>3. m \in Seq(Miss) /\ Len(m) = n /\ DOMAIN m = 1..n
    BY <1>1, <1>2, <2>1, <2>2
  <2>4. \A i \in 1..n : i # n => m[i] = s.misses[i]
    BY <1>1, <2>1
  <2>5. m \in Seq(Miss) /\ Len(m) \in DOMAIN m /\ Len(m) \in Nat
    BY <1>1, <2>2, <2>3
  <2>6. \A i \in DOMAIN s.misses :
          s.misses[i].key # << >> => i \in DOMAIN m /\ i # Len(m) /\ m[i] = s.misses[i]
    BY <1>4, <2>2, <2>3, <2>4
  <2> QED BY <2>5, <2>6 DEF m
<1>6. CASE ~(s.misses # << >> /\ Last(s.misses).key = << >>)
  <2>1. m = Append(s.misses, b)
    BY <1>3, <1>6
  <2> HIDE DEF m
  <2>2. m \in Seq(Miss) /\ Len(m) = n + 1 /\ DOMAIN m = 1..(n + 1)
    BY <1>1, <1>2, <2>1
  <2>3. \A i \in 1..n : m[i] = s.misses[i]
    BY <1>1, <2>1
  <2>4. m \in Seq(Miss) /\ Len(m) \in DOMAIN m /\ Len(m) \in Nat
    BY <1>1, <2>2
  <2>5. \A i \in DOMAIN s.misses :
          s.misses[i].key # << >> => i \in DOMAIN m /\ i # Len(m) /\ m[i] = s.misses[i]
    BY <1>1, <1>4, <2>2, <2>3
  <2> QED BY <2>4, <2>5 DEF m
<1> QED BY <1>5, <1>6

\* A cache miss has an address, whether its offset was in use or not.
LEMMA InsertMissKeeps ==
  ASSUME NEW s, NEW f, Sound(s, f), s.pc = "up", ~s.building, NEW k \in Keys
  PROVE  LET reserved == Reserve(s)
             n == Len(reserved)
             off == reserved[n].off
         IN  Sound(IF k \in DOMAIN s.keys THEN [s EXCEPT !.misses = reserved]
                   ELSE [s EXCEPT
                           !.misses = [reserved EXCEPT ![n].key = <<k>>],
                           !.keys = Insert(@, [j \in {k} |-> off]),
                           !.addr = Insert(@, [o \in {off} |->
                                                 [in |-> "heap", handle |-> 0, cell |-> n]])], f)
<1> DEFINE reserved == Reserve(s)
           n == Len(reserved)
           off == reserved[n].off
           named == [reserved EXCEPT ![n].key = <<k>>]
           key == [j \in {k} |-> off]
           heap == [in |-> "heap", handle |-> 0, cell |-> n]
           place == [o \in {off} |-> heap]
           keys == Insert(s.keys, key)
           addr == Insert(s.addr, place)
<1>1. s \in Process /\ f \in Seq(Cell) /\ FileSound(f) /\ Control(s, f) /\ Known(s, f)
  BY DEF Sound, Typed
<1>2. reserved \in Seq(Miss) /\ n \in DOMAIN reserved /\ n \in Nat
  BY <1>1, ReserveKeeps
<1>3. \A i \in DOMAIN s.misses :
        s.misses[i].key # << >> =>
          i \in DOMAIN reserved /\ i # n /\ reserved[i] = s.misses[i]
  BY <1>1, ReserveKeeps
<1>4. s.keys \in Maps(Keys, Nat) /\ s.addr \in Maps(Nat, Address)
  BY <1>1, ProcessFields
<1>5. \A j : <<j>> # << >>
  OBVIOUS
<1> HIDE DEF reserved, n
<1>6. ASSUME NEW t \in Process, t.pc = s.pc, t.step = s.step, t.started = s.started,
             t.building = s.building, t.firstWrite = s.firstWrite, t.runtime = s.runtime,
             t.schema = s.schema, t.handles = s.handles, Known(t, f)
      PROVE  Sound(t, f)
  <2>1. Control(t, f)
    BY <1>1, <1>6 DEF Control
  <2>2. Building(t, f)
    BY <1>6 DEF Building
  <2> QED BY <1>1, <1>6, <2>1, <2>2 DEF Sound, Typed
<1>7. CASE k \in DOMAIN s.keys
  <2> DEFINE t == [s EXCEPT !.misses = reserved]
  <2>1. /\ t \in Process /\ t.pc = s.pc /\ t.step = s.step /\ t.started = s.started
        /\ t.building = s.building /\ t.firstWrite = s.firstWrite /\ t.runtime = s.runtime
        /\ t.schema = s.schema /\ t.handles = s.handles
    BY <1>1, <1>2 DEF Process
  <2>2. t.misses = reserved /\ t.keys = s.keys /\ t.addr = s.addr
    BY <1>1 DEF Process
  <2> HIDE DEF t
  <2>3. CurrentList(t, f) = CurrentList(s, f)
    BY <2>1 DEF CurrentList
  <2>4. \A j : Missed(s, j) => Missed(t, j)
    BY <1>3, <1>5, <2>2 DEF Missed
  <2>5. Known(t, f)
    BY <1>1, <2>1, <2>2, <2>3, <2>4 DEF Known
  <2>6. Sound(t, f)
    BY <1>6, <2>1, <2>5
  <2> QED BY <1>7, <2>6 DEF t, reserved, n
<1>8. CASE k \notin DOMAIN s.keys
  <2> DEFINE t == [s EXCEPT !.misses = named, !.keys = keys, !.addr = addr]
  <2>1. reserved[n] \in Miss /\ off \in Nat
    <3>1. reserved[n] \in Miss
      BY <1>2
    <3> QED BY <3>1 DEF Miss
  <2>2. named \in Seq(Miss) /\ DOMAIN named = DOMAIN reserved /\ named[n].key = <<k>>
        /\ \A i \in DOMAIN reserved : i # n => named[i] = reserved[i]
    <3> DEFINE b == [reserved[n] EXCEPT !.key = <<k>>]
    <3>1. b \in Miss /\ b.key = <<k>>
      BY <2>1 DEF Miss
    <3>2. named = [reserved EXCEPT ![n] = b]
      OBVIOUS
    <3> HIDE DEF named, b
    <3> QED BY <1>2, <3>1, <3>2
  <2>3. keys \in Maps(Keys, Nat) /\ DOMAIN keys = DOMAIN s.keys \cup {k} /\ keys[k] = off
        /\ \A j \in DOMAIN s.keys : keys[j] = s.keys[j]
    <3>1. key \in [{k} -> Nat]
      BY <2>1
    <3>2. key \in Maps(Keys, Nat)
      BY <3>1 DEF Maps
    <3>3. DOMAIN key = {k} /\ key[k] = off
      OBVIOUS
    <3> HIDE DEF key, off
    <3>4. keys \in Maps(Keys, Nat)
      BY <1>4, <3>2, InsertIsMap
    <3> QED BY <1>8, <3>3, <3>4 DEF Insert
  <2>4. addr \in Maps(Nat, Address) /\ DOMAIN addr = DOMAIN s.addr \cup {off}
    <3>1. heap \in Address
      BY <1>2 DEF Address
    <3> HIDE DEF heap, off
    <3>2. place \in [{off} -> Address]
      BY <3>1
    <3>3. {off} \in SUBSET Nat
      BY <2>1
    <3>4. place \in Maps(Nat, Address)
      BY <3>2, <3>3 DEF Maps
    <3>5. DOMAIN place = {off}
      OBVIOUS
    <3> HIDE DEF place
    <3>6. s.addr \in Maps(Nat, Address)
      BY <1>4
    <3>7. addr \in Maps(Nat, Address)
      BY <3>4, <3>6, InsertAddress
    <3> QED BY <3>5, <3>7 DEF Insert
  <2> HIDE DEF named, keys, addr, off
  <2>5. /\ t \in Process /\ t.pc = s.pc /\ t.step = s.step /\ t.started = s.started
        /\ t.building = s.building /\ t.firstWrite = s.firstWrite /\ t.runtime = s.runtime
        /\ t.schema = s.schema /\ t.handles = s.handles
    BY <1>1, <2>2, <2>3, <2>4 DEF Process
  <2>6. t.misses = named /\ t.keys = keys /\ t.addr = addr
    BY <1>1 DEF Process
  <2> HIDE DEF t
  <2>7. CurrentList(t, f) = CurrentList(s, f)
    BY <2>5 DEF CurrentList
  <2>8. Missed(t, k) /\ \A j : Missed(s, j) => Missed(t, j)
    <3>1. Missed(t, k)
      BY <1>2, <2>2, <2>6 DEF Missed
    <3>2. ASSUME NEW j, Missed(s, j) PROVE Missed(t, j)
      <4>1. PICK i \in DOMAIN s.misses : s.misses[i].key = <<j>>
        BY <3>2 DEF Missed
      <4>2. i \in DOMAIN reserved /\ i # n /\ reserved[i] = s.misses[i]
        BY <1>3, <1>5, <4>1
      <4>3. i \in DOMAIN named /\ named[i] = s.misses[i]
        BY <2>2, <4>2
      <4> QED BY <2>6, <4>1, <4>3 DEF Missed
    <3> QED BY <3>1, <3>2
  <2>9. Known(t, f)
    <3> SUFFICES ASSUME NEW j \in DOMAIN keys
                 PROVE  /\ keys[j] \in DOMAIN addr
                        /\ s.started =>
                             \/ \E i \in DOMAIN CurrentList(s, f) :
                                  CurrentList(s, f)[i] = [key |-> j, off |-> keys[j]]
                             \/ Missed(t, j)
      BY <2>5, <2>6, <2>7 DEF Known
    <3>1. CASE j = k
      BY <2>3, <2>4, <2>8, <3>1
    <3>2. CASE j # k
      <4>1. j \in DOMAIN s.keys /\ keys[j] = s.keys[j]
        BY <2>3, <3>2
      <4>2. s.keys[j] \in DOMAIN s.addr
        BY <1>1, <4>1 DEF Known
      <4>3. s.started => \/ \E i \in DOMAIN CurrentList(s, f) :
                              CurrentList(s, f)[i] = [key |-> j, off |-> s.keys[j]]
                         \/ Missed(s, j)
        BY <1>1, <4>1 DEF Known
      <4> QED BY <2>4, <2>8, <4>1, <4>2, <4>3
    <3> QED BY <3>1, <3>2
  <2>10. Sound(t, f)
    BY <1>6, <2>5, <2>9
  <2> QED BY <1>8, <2>10 DEF t, named, keys, addr, off, reserved, n
<1> QED BY <1>7, <1>8

\* StopBuild drops the builder, not what the provider knows.
LEMMA StopBuildKeeps ==
  ASSUME NEW s, NEW f, Sound(s, f), s.pc = "up", s.started, ~s.step
  PROVE  Sound([s EXCEPT !.started = FALSE, !.firstWrite = FALSE, !.pos = 0,
                         !.segStart = 0, !.segSize = 0, !.schema = << >>], f)
<1> DEFINE t == [s EXCEPT !.started = FALSE, !.firstWrite = FALSE, !.pos = 0,
                          !.segStart = 0, !.segSize = 0, !.schema = << >>]
<1>1. s \in Process /\ f \in Seq(Cell) /\ FileSound(f) /\ Control(s, f) /\ Known(s, f)
  BY DEF Sound, Typed
<1>2. << >> \in Seq(Entry)
  OBVIOUS
<1>3. /\ t \in Process /\ t.pc = s.pc /\ t.step = s.step /\ ~t.started
      /\ t.building = s.building /\ t.runtime = s.runtime
      /\ t.keys = s.keys /\ t.addr = s.addr /\ t.handles = s.handles
  BY <1>1, <1>2 DEF Process
<1> HIDE DEF t
<1>4. Control(t, f) /\ Building(t, f)
  BY <1>1, <1>3 DEF Control, Building
<1>5. Known(t, f)
  BY <1>1, <1>3 DEF Known
<1>6. Sound(t, f)
  BY <1>1, <1>3, <1>4, <1>5 DEF Sound, Typed
<1> QED BY <1>6 DEF t

\* A file whose header is marked as stale does not load.
LEMMA MarkedIsSound ==
  ASSUME NEW f \in Seq(Cell), HasHeader(f)
  PROVE  LET h == f[1]
             g == WriteAt(f, 0, <<Header(Version(h), ListOffset(h), ListSize(h), TRUE)>>)
         IN  g \in Seq(Cell) /\ FileSound(g)
<1> DEFINE v == Version(f[1])
           o == ListOffset(f[1])
           z == ListSize(f[1])
           m == Header(v, o, z, TRUE)
           g == WriteAt(f, 0, <<m>>)
<1>1. f[1] \in Cell /\ f[1][1] = "header"
  BY DEF HasHeader, kHeaderSize
<1>2. v \in Nat /\ o \in Nat /\ z \in Nat
  BY <1>1, CellFields
<1> HIDE DEF v, o, z
<1>3. m \in Cell /\ Stale(m)
  <2>1. m = Header(v, o, z, TRUE)
    OBVIOUS
  <2> HIDE DEF m
  <2> QED BY <1>2, <2>1 DEF Header, Cell, HeaderCell, Stale
<1> HIDE DEF m
<1>4. <<m>> \in Seq(Cell) /\ <<m>> # << >> /\ Len(<<m>>) = 1 /\ <<m>>[1] = m
  BY <1>3
<1>5. g \in Seq(Cell) /\ g[1] = m
  <2>1. /\ g \in Seq(Cell)
        /\ \A i \in (0 + 1)..(0 + Len(<<m>>)) : g[i] = <<m>>[i - 0]
    BY <1>4, WriteAtWrites
  <2> QED BY <1>4, <2>1
<1> HIDE DEF g
<1>6. FileSound(g)
  BY <1>3, <1>5, DoesNotLoad
<1> QED BY <1>5, <1>6 DEF g, m, v, o, z

\* A write that ends in the middle leaves a file that does not load.
LEMMA PartialWriteIsSound ==
  ASSUME NEW s, NEW f, Sound(s, f), s.started, s.building, s.pc \in {"up", "list"},
         NEW c \in Seq(Cell), NEW n \in 1..(Len(c) - 1),
         s.pc = "up" => c[1][1] # "list"
  PROVE  LET g == WriteAt(f, Align(s.pos), SubSeq(c, 1, n))
         IN  g \in Seq(Cell) /\ FileSound(g)
<1> DEFINE d == SubSeq(c, 1, n)
<1>1. s \in Process /\ f \in Seq(Cell) /\ Building(s, f)
  BY DEF Sound, Typed
<1>2. d \in Seq(Cell) /\ d # << >> /\ d[1] = c[1]
  <2>1. Len(c) \in Nat /\ 1 <= n /\ n <= Len(c)
    BY LenProperties
  <2>2. d \in Seq(Cell) /\ Len(d) = n /\ d[1] = c[1]
    BY <2>1
  <2> HIDE DEF d
  <2> QED BY <2>1, <2>2
<1> HIDE DEF d
<1>3. s.firstWrite /\ s.pos = s.segStart => s.pc = "up"
  BY <1>1 DEF Building
<1>4. s.firstWrite /\ s.pos = s.segStart => d[1][1] # "list"
  BY <1>2, <1>3
<1> QED BY <1>1, <1>2, <1>4, WriteOver DEF d

-----------------------------------------------------------------------------
(***************************************************************************)
(* The invariant and what follows from it.                                 *)
(***************************************************************************)

\* At first there is no file and no process.
LEMMA InitIInv == Init => IInv
<1> SUFFICES ASSUME Init PROVE IInv
  OBVIOUS
<1>1. file \in Seq(Cell) /\ FileSound(file)
  BY DEF Init, FileSound, LoadChecks, HasHeader, kHeaderSize
<1>2. Sound(Down, file) /\ Down \in Process
  BY <1>1, DownIsSound DEF Sound, Typed
<1>3. proc = [p \in Procs |-> Down]
  BY DEF Init
<1> HIDE DEF Init
<1> QED BY <1>1, <1>2, <1>3 DEF IInv

\* Every step of the process keeps the invariant.
LEMMA StepIInv ==
  ASSUME OneProcess, IInv, NEW p \in Procs, Step(p)
  PROVE  IInv'
<1>2. /\ proc \in [Procs -> Process] /\ Sound(proc[p], file) /\ proc[p] \in Process
      /\ file \in Seq(Cell) /\ FileSound(file) /\ Control(proc[p], file)
  BY DEF IInv, Sound, Typed
<1>3. ASSUME NEW t, Sound(t, file'), proc' = [proc EXCEPT ![p] = t]
      PROVE  IInv'
  <2>1. t \in Process /\ file' \in Seq(Cell) /\ FileSound(file')
    BY <1>3 DEF Sound, Typed
  <2>2. proc' \in [Procs -> Process] /\ proc'[p] = t
    BY <1>2, <1>3, <2>1
  <2>3. \A q \in Procs : q = p
    BY DEF OneProcess
  <2> QED BY <1>3, <2>1, <2>2, <2>3 DEF IInv
<1>4. CASE LoadOrStartBuild(p)
  <2>1. PICK byFd \in BOOLEAN, fails \in 0..(IF MaxFails = 0 THEN 0 ELSE 1) :
          LET fresh == [Down EXCEPT !.pc = "up", !.fd = byFd, !.fails = fails]
              loaded == Load(fresh, file)
              mapped == file # << >> /\ fails = 0
          IN  IF mapped /\ loaded.ok
              THEN /\ proc' = [proc EXCEPT ![p] = loaded.s]
                   /\ UNCHANGED file
              ELSE /\ proc' = [proc EXCEPT ![p] =
                        [(IF mapped THEN loaded.s ELSE fresh) EXCEPT
                           !.pc = "start", !.fd = TRUE, !.started = TRUE]]
                   /\ file' = << >>
    BY <1>4 DEF LoadOrStartBuild
  <2> DEFINE fresh == [Down EXCEPT !.pc = "up", !.fd = byFd, !.fails = fails]
             loaded == Load(fresh, file)
             mapped == file # << >> /\ fails = 0
             s == [(IF mapped THEN loaded.s ELSE fresh) EXCEPT
                     !.pc = "start", !.fd = TRUE, !.started = TRUE]
  <2>2. fails \in Nat
    OBVIOUS
  <2>3. IF mapped /\ loaded.ok THEN Sound(loaded.s, file) ELSE Sound(s, << >>)
    BY <1>2, <2>2, LoadOrStartKeeps
  <2>4. IF mapped /\ loaded.ok
        THEN proc' = [proc EXCEPT ![p] = loaded.s] /\ file' = file
        ELSE proc' = [proc EXCEPT ![p] = s] /\ file' = << >>
    BY <2>1
  <2> HIDE DEF loaded, s, mapped
  <2> QED BY <1>3, <2>3, <2>4
<1>5. CASE WriteInitialHeader(p)
  <2> DEFINE t == [BeginSegment(proc[p], file') EXCEPT !.pc = "list"]
  <2>1. proc' = [proc EXCEPT ![p] = t] /\ proc[p].pc = "start"
        /\ file' = WriteAt(file, 0, <<Header(kInvalidHeader, kHeaderSize, 0, FALSE)>>)
    BY <1>5 DEF WriteInitialHeader
  <2>2. Sound(t, file')
    BY <1>2, <2>1, WriteInitialHeaderKeeps
  <2> HIDE DEF t
  <2> QED BY <1>3, <2>1, <2>2
<1>6. CASE StartBuildStep(p)
  <2> DEFINE s == proc[p]
             t == [(IF s.building THEN s ELSE BeginSegment(s, file)) EXCEPT !.step = TRUE]
  <2>1. proc' = [proc EXCEPT ![p] = t] /\ file' = file /\ s.pc = "up" /\ s.started /\ ~s.step
    BY <1>6 DEF StartBuildStep
  <2>2. Sound(t, file)
    BY <1>2, <2>1, StartBuildStepKeeps
  <2> HIDE DEF t
  <2> QED BY <1>3, <2>1, <2>2
<1>7. CASE StopBuildStep(p)
  <2> DEFINE s == proc[p]
             empty == s.pos = s.segStart /\ s.firstWrite
             r(b) == LoadLastBuildStep(s, file, b)
             listed == [s EXCEPT !.pc = "list"]
             loaded(b) == [r(b).s EXCEPT !.step = FALSE, !.runtime = @ \/ r(b).ok]
             none == [NotLoaded(s) EXCEPT !.step = FALSE, !.fails = @ + 1]
  <2>1. s.pc = "up" /\ s.step /\ s.building /\ file' = file
    BY <1>7 DEF StopBuildStep
  <2>2. \/ ~empty /\ proc' = [proc EXCEPT ![p] = listed]
        \/ empty /\ \E b \in BOOLEAN : proc' = [proc EXCEPT ![p] = loaded(b)]
        \/ s.handles = << >> /\ proc' = [proc EXCEPT ![p] = none]
    BY <1>2, <1>7 DEF StopBuildStep, Process
  <2>3. ~empty => Sound(listed, file)
    BY <1>2, <2>1, StopBuildStepKeeps
  <2>4. ASSUME NEW b \in BOOLEAN PROVE empty => Sound(loaded(b), file)
    BY <1>2, <2>1, StopBuildStepKeeps
  <2>5. s.handles = << >> => Sound(none, file)
    BY <1>2, <2>1, NotLoadedKeeps
  <2> HIDE DEF listed, loaded, none, empty
  <2> QED BY <1>3, <2>1, <2>2, <2>3, <2>4, <2>5
<1>8. CASE WriteList(p)
  <2> DEFINE s == proc[p]
             cells == ListCells(s.schema)
             t == [s EXCEPT !.pc = "header", !.pos = Align(s.pos) + Len(cells),
                            !.segSize = Align(s.pos) + Len(cells) - s.segStart]
  <2>1. /\ proc' = [proc EXCEPT ![p] = t] /\ s.pc = "list"
        /\ file' = WriteAt(file, Align(s.pos), cells)
    BY <1>8 DEF WriteList
  <2>2. Sound(t, file')
    BY <1>2, <2>1, WriteListKeeps
  <2> HIDE DEF t
  <2> QED BY <1>3, <2>1, <2>2
<1>9. CASE WriteListFails(p)
  <2> DEFINE s == proc[p]
             cells == ListCells(s.schema)
  <2>1. s.pc = "list" /\ s.schema \in Seq(Entry)
    BY <1>2, <1>9, ProcessFields DEF WriteListFails
  <2>2. PICK n \in 0..(Len(cells) - 1) :
          /\ file' = WriteAt(file, Align(s.pos), SubSeq(cells, 1, n))
          /\ proc' = [proc EXCEPT ![p] =
                        [s EXCEPT !.pc = "up", !.step = FALSE, !.pos = Align(s.pos) + n,
                                  !.fails = @ + 1]]
    BY <1>9 DEF WriteListFails
  <2>3. cells \in Seq(Cell)
    BY <2>1, WrittenCells
  <2> DEFINE c == SubSeq(cells, 1, n)
             t == [s EXCEPT !.pc = "up", !.step = FALSE, !.pos = Align(s.pos) + Len(c),
                            !.fails = @ + 1]
  <2>4. c \in Seq(Cell) /\ Len(c) = n
    <3> HIDE DEF cells
    <3>1. Len(cells) \in Nat /\ n \in Nat /\ n <= Len(cells)
      BY <2>3, LenProperties
    <3> QED BY <2>3, <3>1
  <2>5. Sound(t, file')
    <3> HIDE DEF c
    <3>1. file' = WriteAt(file, Align(s.pos), c)
      BY <2>2 DEF c
    <3> QED BY <1>2, <2>1, <2>4, <3>1, WriteListFailsKeeps
  <2>6. proc' = [proc EXCEPT ![p] = t]
    <3> HIDE DEF c
    <3> QED BY <2>2, <2>4
  <2> HIDE DEF t
  <2> QED BY <1>3, <2>5, <2>6
<1>10. CASE WriteHeader(p)
  <2> DEFINE s == proc[p]
             size == Len(ListCells(s.schema))
             w == [s EXCEPT !.pc = "up", !.step = FALSE, !.pos = kHeaderSize,
                            !.firstWrite = TRUE, !.building = FALSE]
             r(b) == LoadLastBuildStep(w, file', b)
             t(b) == IF s.step THEN [r(b).s EXCEPT !.runtime = @ \/ r(b).ok] ELSE w
  <2>1. /\ s.pc = "header"
        /\ file' = WriteAt(file, 0, <<Header(kVersion, s.pos - size, size, FALSE)>>)
        /\ \E b \in BOOLEAN : proc' = [proc EXCEPT ![p] = t(b)]
    BY <1>10 DEF WriteHeader
  <2>2. PICK b \in BOOLEAN : proc' = [proc EXCEPT ![p] = t(b)]
    BY <2>1
  <2>3. Sound(t(b), file')
    BY <1>2, <2>1, WriteHeaderKeeps
  <2> HIDE DEF t
  <2> QED BY <1>3, <2>2, <2>3
<1>11. ASSUME NEW k \in Keys, InsertInFile(p, k) PROVE IInv'
  <2> DEFINE s == proc[p]
             at == Align(s.pos)
             t == [s EXCEPT !.pos = at + Size[k],
                            !.schema = Append(@, [key |-> k, off |-> at - kBaseOffset]),
                            !.keys = Insert(@, [j \in {k} |-> at - kBaseOffset])]
  <2>1. /\ s.pc = "up" /\ s.building /\ s.started /\ k \notin DOMAIN s.keys
        /\ file' = WriteAt(file, at, DataCells(k)) /\ proc' = [proc EXCEPT ![p] = t]
    BY <1>11 DEF InsertInFile, Packs
  <2>2. Sound(t, file')
    BY <1>2, <2>1, InsertInFileKeeps
  <2> HIDE DEF t
  <2> QED BY <1>3, <2>1, <2>2
<1>12. ASSUME NEW k \in Keys, InsertMiss(p, k) PROVE IInv'
  <2> DEFINE s == proc[p]
             reserved == Reserve(s)
             n == Len(reserved)
             off == reserved[n].off
             t == IF k \in DOMAIN s.keys THEN [s EXCEPT !.misses = reserved]
                  ELSE [s EXCEPT
                          !.misses = [reserved EXCEPT ![n].key = <<k>>],
                          !.keys = Insert(@, [j \in {k} |-> off]),
                          !.addr = Insert(@, [o \in {off} |->
                                                [in |-> "heap", handle |-> 0, cell |-> n]])]
  <2>1. s.pc = "up" /\ ~s.building /\ file' = file /\ proc' = [proc EXCEPT ![p] = t]
    BY <1>12 DEF InsertMiss, Packs
  <2>2. Sound(t, file)
    BY <1>2, <2>1, InsertMissKeeps
  <2> HIDE DEF t
  <2> QED BY <1>3, <2>1, <2>2
<1>13. CASE StopBuild(p)
  <2> DEFINE s == proc[p]
             t == [s EXCEPT !.started = FALSE, !.firstWrite = FALSE, !.pos = 0,
                            !.segStart = 0, !.segSize = 0, !.schema = << >>]
  <2>1. s.pc = "up" /\ s.started /\ ~s.step /\ file' = file
    BY <1>13 DEF StopBuild
  <2>2. proc' = [proc EXCEPT ![p] = t]
    BY <1>2, <1>13 DEF StopBuild, Process
  <2>3. Sound(t, file)
    BY <1>2, <2>1, StopBuildKeeps
  <2> HIDE DEF t
  <2> QED BY <1>3, <2>1, <2>2, <2>3
<1>14. CASE Destroy(p)
  <2> DEFINE h == file[1]
             g == WriteAt(file, 0, <<Header(Version(h), ListOffset(h), ListSize(h), TRUE)>>)
  <2>1. /\ proc' = [proc EXCEPT ![p] = Down]
        /\ file' = IF HasCacheMisses(proc[p]) /\ proc[p].fd /\ HasHeader(file) THEN g ELSE file
    BY <1>14 DEF Destroy
  <2>2. HasHeader(file) => g \in Seq(Cell) /\ FileSound(g)
    BY <1>2, MarkedIsSound
  <2> HIDE DEF g
  <2>3. Sound(Down, file')
    BY <1>2, <2>1, <2>2, DownIsSound
  <2> QED BY <1>3, <2>1, <2>3
<1>15. CASE Crash(p)
  BY <1>2, <1>3, <1>15, DownIsSound DEF Crash
<1>16. CASE CrashInWrite(p)
  <2> DEFINE s == proc[p]
  <2>1. s.pc \in {"list", "up"} /\ proc' = [proc EXCEPT ![p] = Down]
    BY <1>16 DEF CrashInWrite
  <2>2. PICK c : /\ \/ s.pc = "list" /\ c = ListCells(s.schema)
                    \/ /\ s.pc = "up" /\ s.started /\ s.building
                       /\ \E k \in Keys : c = DataCells(k)
                 /\ \E n \in 1..(Len(c) - 1) :
                      file' = WriteAt(file, Align(s.pos), SubSeq(c, 1, n))
    BY <1>16, <2>1 DEF CrashInWrite
  <2>3. PICK n \in 1..(Len(c) - 1) : file' = WriteAt(file, Align(s.pos), SubSeq(c, 1, n))
    BY <2>2
  <2>4. s.started /\ s.building
    BY <1>2, <2>2 DEF Control
  <2>5. c \in Seq(Cell) /\ (s.pc = "up" => c[1][1] # "list")
    <3>1. CASE s.pc = "list" /\ c = ListCells(s.schema)
      <4>1. s.schema \in Seq(Entry)
        BY <1>2, ProcessFields
      <4> QED BY <3>1, <4>1, WrittenCells
    <3>2. ASSUME NEW k \in Keys, c = DataCells(k) PROVE c \in Seq(Cell) /\ c[1][1] # "list"
      <4>1. DataCells(k) \in Seq(Cell) /\ Size[k] \in Nat /\ Size[k] > 0
            /\ \A i \in 1..Size[k] : DataCells(k)[i][1] = "data"
        BY WrittenCells
      <4>2. DataCells(k)[1][1] = "data"
        BY <4>1
      <4> QED BY <3>2, <4>1, <4>2
    <3> QED BY <2>2, <3>1, <3>2
  <2>6. file' \in Seq(Cell) /\ FileSound(file')
    BY <1>2, <2>1, <2>3, <2>4, <2>5, PartialWriteIsSound
  <2>7. Sound(Down, file')
    BY <2>6, DownIsSound
  <2> QED BY <1>3, <2>1, <2>7
<1>17. CASE MappingFails(p, TRUE)
  <2> DEFINE s == proc[p]
             size == Len(ListCells(s.schema))
             g == WriteAt(file, 0, <<Header(kVersion, s.pos - size, size, FALSE)>>)
             w == [s EXCEPT !.pc = "up", !.step = FALSE, !.pos = kHeaderSize,
                            !.firstWrite = TRUE, !.building = FALSE, !.fails = @ + 1]
             t == NotLoaded(w)
  <2>1. s.pc = "header" /\ s.handles = << >> /\ file' = g /\ proc' = [proc EXCEPT ![p] = t]
    BY <1>17 DEF MappingFails
  <2>2. Sound(t, g)
    BY <1>2, <2>1, FirstMappingFailsKeeps
  <2> HIDE DEF t, g
  <2> QED BY <1>3, <2>1, <2>2
<1> QED BY <1>4, <1>5, <1>6, <1>7, <1>8, <1>9, <1>10, <1>11, <1>12, <1>13, <1>14, <1>15,
           <1>16, <1>17 DEF Step

\* What holds in every state: the invariant as long as no failure led astray.
UntilAstray ==
  /\ astray \in BOOLEAN /\ file \in Seq(Cell)
  /\ ~astray => IInv

\* A failure that leads astray leaves cells in the file; what they are worth is
\* not claimed.
LEMMA AstrayWritesCells ==
  ASSUME IInv, NEW p \in Procs, GoesAstray(p)
  PROVE  file' \in Seq(Cell)
<1>1. file \in Seq(Cell) /\ Sound(proc[p], file)
  BY DEF IInv
<1>2. CASE StartFails(p) \/ ReadBackFails(p) \/ WriteHeaderFails(p)
  BY <1>1, <1>2 DEF StartFails, ReadBackFails, WriteHeaderFails
<1>3. CASE MappingFails(p, FALSE)
  <2> DEFINE s == proc[p]
             size == Len(ListCells(s.schema))
             g == WriteAt(file, 0, <<Header(kVersion, s.pos - size, size, FALSE)>>)
  <2>1. s.pc = "header" /\ file' = g
    BY <1>3 DEF MappingFails
  <2>2. g \in Seq(Cell)
    BY <1>1, <2>1, HeaderMakesItLoad
  <2> HIDE DEF g
  <2> QED BY <2>1, <2>2
<1> QED BY <1>2, <1>3 DEF GoesAstray

\* The invariant holds in every state of a process that has the file for
\* itself, however it crashes and whatever fails, until a failure leads astray.
THEOREM Invariant ==
  ASSUME OneProcess
  PROVE  Spec => []UntilAstray
<1>1. Init => UntilAstray
  BY InitIInv DEF UntilAstray, Init, IInv
<1>2. ASSUME UntilAstray, [Next]_vars PROVE UntilAstray'
  <2>1. CASE UNCHANGED vars
    BY <1>2, <2>1 DEF UntilAstray, IInv, vars
  <2>2. ASSUME NEW p \in Procs, ~astray, Step(p), UNCHANGED astray PROVE UntilAstray'
    <3>1. IInv'
      BY <1>2, <2>2, StepIInv DEF UntilAstray
    <3> QED BY <1>2, <2>2, <3>1 DEF UntilAstray, IInv
  <2>3. ASSUME NEW p \in Procs, ~astray, GoesAstray(p), astray' = TRUE PROVE UntilAstray'
    BY <1>2, <2>3, AstrayWritesCells DEF UntilAstray
  <2> QED BY <1>2, <2>1, <2>2, <2>3 DEF Next
<1> QED BY <1>1, <1>2, PTL DEF Spec

\* Type correctness: the file consists of whole cells, and until a failure leads
\* astray no position or size wraps and the mappings are never empty.
THEOREM TypeCorrect ==
  ASSUME OneProcess
  PROVE  Spec => []TypeOK
<1>1. ASSUME UntilAstray PROVE TypeOK
  <2>1. \A i \in DOMAIN file : file[i][1] \in {"header", "data", "list", "hole"}
    <3>1. file \in Seq(Cell)
      BY <1>1 DEF UntilAstray
    <3>2. \A i \in DOMAIN file : file[i] \in Cell
      BY <3>1
    <3>3. \A c \in Cell : c[1] \in {"header", "data", "list", "hole"}
      BY DEF Cell, Hole, HeaderCell, DataCell, ListCell
    <3> QED BY <3>2, <3>3
  <2>2. ASSUME ~astray, NEW p \in Procs
        PROVE  LET s == proc[p]
               IN  /\ s.pc \in {"down", "start", "list", "header", "up"}
                   /\ s.pos \in Nat /\ s.segStart \in Nat /\ s.segSize \in Nat
                   /\ s.minOffset \in Nat
                   /\ DOMAIN s.keys \subseteq Keys
                   /\ \A h \in ToSet(s.handles) : h.off \in Nat /\ h.size \in Nat \ {0}
                   /\ \A o \in DOMAIN s.addr : s.addr[o].in \in {"map", "heap"}
    <3> DEFINE s == proc[p]
    <3>1. s \in Process
      BY <1>1, <2>2 DEF UntilAstray, IInv
    <3> HIDE DEF s
    <3>2. /\ s.pc \in {"down", "start", "list", "header", "up"}
          /\ s.pos \in Nat /\ s.segStart \in Nat /\ s.segSize \in Nat /\ s.minOffset \in Nat
      BY <3>1, ProcessFields
    <3>3. s.keys \in Maps(Keys, Nat) /\ s.addr \in Maps(Nat, Address) /\ s.handles \in Seq(Handle)
      BY <3>1, ProcessFields
    <3>4. DOMAIN s.keys \subseteq Keys
      BY <3>3 DEF Maps
    <3>5. ASSUME NEW h \in ToSet(s.handles) PROVE h.off \in Nat /\ h.size \in Nat \ {0}
      <4>1. PICK i \in DOMAIN s.handles : h = s.handles[i]
        BY DEF ToSet
      <4>2. h \in Handle
        BY <3>3, <4>1
      <4> QED BY <4>2 DEF Handle
    <3>6. ASSUME NEW o \in DOMAIN s.addr PROVE s.addr[o].in \in {"map", "heap"}
      <4>1. s.addr[o] \in Address
        BY <3>3, ZenonT(40) DEF Maps
      <4> QED BY <4>1 DEF Address
    <3> QED BY <3>2, <3>4, <3>5, <3>6 DEF s
  <2>3. astray \in BOOLEAN
    BY <1>1 DEF UntilAstray
  <2> QED BY <2>1, <2>2, <2>3 DEF TypeOK
<1> QED BY <1>1, Invariant, PTL

\* A file that Load accepts holds every buffer of its list, whole, whatever the
\* process that wrote it was doing when it died, if no failure led it astray.
THEOREM LoadableFilesAreSound ==
  ASSUME OneProcess
  PROVE  Spec => []LoadableIsSound
<1>1. ASSUME IInv, LoadChecks(file), NEW e \in ToSet(LoadedList(file))
      PROVE  BufferInMapping(file, e) /\ HoldsData(file, e.off, e.key)
  <2>1. file \in Seq(Cell) /\ FileSound(file)
    BY <1>1 DEF IInv
  <2>2. PICK i \in DOMAIN LoadedList(file) : e = LoadedList(file)[i]
    BY DEF ToSet
  <2>3. BufferInMapping(file, e)
    BY <1>1, <2>1, <2>2, BuffersAreInMapping
  <2>4. HoldsData(file, e.off, e.key)
    BY <1>1, <2>1, <2>2 DEF FileSound, Held
  <2> QED BY <2>3, <2>4
<1>2. UntilAstray => LoadableIsSound
  BY <1>1 DEF UntilAstray, LoadableIsSound
<1> QED BY <1>2, Invariant, PTL

\* Outside of build steps every offset that was given out has an address, until
\* a failure leads astray.
THEOREM OffsetsAreAddressable ==
  ASSUME OneProcess
  PROVE  Spec => []Addressable
<1>1. ASSUME IInv, NEW p \in Procs, proc[p].pc = "up", ~proc[p].building,
             NEW k \in DOMAIN proc[p].keys
      PROVE  proc[p].keys[k] \in DOMAIN proc[p].addr
  <2>1. Known(proc[p], file)
    BY <1>1 DEF IInv, Sound
  <2> QED BY <1>1, <2>1 DEF Known
<1>2. UntilAstray => Addressable
  BY <1>1 DEF UntilAstray, Addressable
<1> QED BY <1>2, Invariant, PTL

\* Between two build steps the file loads and its list has every weight that was
\* packed in a step, until a failure leads astray.
THEOREM CrashesBetweenStepsLoseNothing ==
  ASSUME OneProcess
  PROVE  Spec => []CrashBetweenStepsKeepsAll
<1>1. ASSUME IInv, NEW p \in Procs, NEW s, s = proc[p], s.pc = "up", s.started, s.firstWrite,
             s.building => s.pos = s.segStart
      PROVE  /\ LoadChecks(file)
             /\ DOMAIN s.keys \subseteq (UNION {ToSet(b.key) : b \in ToSet(s.misses)})
                                        \cup {e.key : e \in ToSet(LoadedList(file))}
  <2>1. Control(s, file) /\ Building(s, file) /\ Known(s, file)
    BY <1>1 DEF IInv, Sound
  <2>2. LoadChecks(file) /\ CurrentList(s, file) = LoadedList(file)
    <3>1. CASE s.building
      BY <1>1, <2>1, <3>1 DEF Building, CurrentList
    <3>2. CASE ~s.building
      BY <1>1, <2>1, <3>2 DEF Control, CurrentList
    <3> QED BY <3>1, <3>2
  <2>3. ASSUME NEW k \in DOMAIN s.keys
        PROVE  \/ k \in UNION {ToSet(b.key) : b \in ToSet(s.misses)}
               \/ k \in {e.key : e \in ToSet(LoadedList(file))}
    <3>1. \/ \E i \in DOMAIN LoadedList(file) :
               LoadedList(file)[i] = [key |-> k, off |-> s.keys[k]]
          \/ Missed(s, k)
      BY <1>1, <2>1, <2>2 DEF Known
    <3>2. CASE \E i \in DOMAIN LoadedList(file) :
                 LoadedList(file)[i] = [key |-> k, off |-> s.keys[k]]
      <4>1. PICK i \in DOMAIN LoadedList(file) :
              LoadedList(file)[i] = [key |-> k, off |-> s.keys[k]]
        BY <3>2
      <4>2. LoadedList(file)[i] \in ToSet(LoadedList(file)) /\ LoadedList(file)[i].key = k
        BY <4>1 DEF ToSet
      <4> QED BY <4>2
    <3>3. CASE Missed(s, k)
      <4>1. PICK i \in DOMAIN s.misses : s.misses[i].key = <<k>>
        BY <3>3 DEF Missed
      <4>2. s.misses[i] \in ToSet(s.misses) /\ k \in ToSet(s.misses[i].key)
        BY <4>1 DEF ToSet
      <4> QED BY <4>2
    <3> QED BY <3>1, <3>2, <3>3
  <2> DEFINE M == UNION {ToSet(b.key) : b \in ToSet(s.misses)}
             L == {e.key : e \in ToSet(LoadedList(file))}
  <2>4. \A k \in DOMAIN s.keys : k \in M \/ k \in L
    BY <2>3
  <2> HIDE DEF M, L
  <2>5. DOMAIN s.keys \subseteq M \cup L
    BY <2>4
  <2> QED BY <2>2, <2>5 DEF M, L
<1>2. ASSUME UntilAstray PROVE CrashBetweenStepsKeepsAll
  <2> SUFFICES ASSUME ~astray, NEW p \in Procs, NEW s, s = proc[p],
                      s.pc = "up", s.started, s.firstWrite, s.building => s.pos = s.segStart
               PROVE  /\ LoadChecks(file)
                      /\ DOMAIN s.keys \subseteq (UNION {ToSet(b.key) : b \in ToSet(s.misses)})
                                                 \cup {e.key : e \in ToSet(LoadedList(file))}
    BY DEF CrashBetweenStepsKeepsAll
  <2>1. IInv
    BY <1>2 DEF UntilAstray
  <2> QED BY <1>1, <2>1
<1> QED BY <1>2, Invariant, PTL

-----------------------------------------------------------------------------
(***************************************************************************)
(* What LookUp finds is the packed buffer of its key: the mappings and the *)
(* miss buffers, on top of the invariant above.                            *)
(***************************************************************************)

\* The caller reserves space only for a key it did not find, and there are too
\* few misses for their offsets to reach the next multiple of the alignment.
FewMisses == LooksUpFirst /\ MaxMisses < kMinAlignment

\* Where the data of the file ends, as far as process s may write to it.
FileEnd(s, f) ==
  IF ~s.started THEN Len(f) ELSE IF s.building THEN DataEnd(s) ELSE ListOffset(f[1])

\* The bytes of k are in the file, where no later write of s goes.
InFile(s, f, k) ==
  /\ Aligned(s.keys[k])
  /\ kBaseOffset + s.keys[k] + Size[k] <= FileEnd(s, f)
  /\ HoldsData(f, s.keys[k], k)

\* The i-th miss has the i-th offset after those of the file.
IsMiss(s, off, i) == i \in DOMAIN s.misses /\ off = s.minOffset + i - 1

Covers(h, cell, size) == h.off <= cell /\ cell + size <= h.off + h.size

\* The mappings: the last one ends behind the list a build step goes over.
Mappings(s, f) ==
  s.started /\ s.handles # << >> =>
    LET h == Last(s.handles)
        start == IF s.building THEN s.segStart ELSE ListOffset(f[1])
    IN  h.off <= start /\ start <= h.off + h.size

\* The address of an offset, and the offsets of misses and of the file do not meet.
AddressHolds(s, f, o) ==
  IF s.addr[o].in = "heap" THEN IsMiss(s, o, s.addr[o].cell)
  ELSE /\ Aligned(o)
       /\ s.addr[o].cell = kBaseOffset + o
       /\ s.addr[o].handle \in DOMAIN s.handles
       /\ s.started => kBaseOffset + o < FileEnd(s, f)

\* Every reserved buffer was used, and what was loaded bounds the offsets.
Misses(s) ==
  /\ Len(s.misses) <= MaxMisses
  /\ \A i \in DOMAIN s.misses : s.misses[i].key # << >>
  /\ s.minOffset # 0 => Aligned(s.minOffset - 1)
  /\ s.handles = << >> => s.minOffset = 0
  /\ s.handles = << >> /\ (s.started \/ s.building) => s.misses = << >>
  /\ s.handles # << >> => s.minOffset # 0

\* A key has its bytes in a miss buffer.
MissHolds(s, k) ==
  \E i \in DOMAIN s.misses : IsMiss(s, s.keys[k], i) /\ s.misses[i].key = <<k>>

\* Or in the file: what is mapped lies in its mapping and what is not lies in
\* the open segment.
FileHolds(s, f, k) ==
  /\ InFile(s, f, k)
  /\ s.misses # << >> => s.handles # << >>
  /\ s.started /\ s.keys[k] \notin DOMAIN s.addr => s.segStart <= kBaseOffset + s.keys[k]
  /\ s.keys[k] \in DOMAIN s.addr /\ s.addr[s.keys[k]].in = "map" =>
       Covers(s.handles[s.addr[s.keys[k]].handle], s.addr[s.keys[k]].cell, Size[k])

Resolves(s, f) ==
  /\ Mappings(s, f)
  /\ Misses(s)
  /\ \A o \in DOMAIN s.addr : AddressHolds(s, f, o)
  /\ \A k \in DOMAIN s.keys : MissHolds(s, k) \/ FileHolds(s, f, k)

RInv == \A p \in Procs : Resolves(proc[p], file)

-----------------------------------------------------------------------------
(***************************************************************************)
(* What follows from it.                                                   *)
(***************************************************************************)

\* An offset of the file is not the offset of a miss.
LEMMA OffsetsApart ==
  ASSUME FewMisses, NEW s \in Process, Misses(s), s.handles # << >>,
         NEW o \in Nat, Aligned(o), NEW i
  PROVE  ~IsMiss(s, o, i)
<1> SUFFICES ASSUME IsMiss(s, o, i) PROVE FALSE
  OBVIOUS
<1>1. s.misses \in Seq(Miss) /\ s.minOffset \in Nat
  BY ProcessFields
<1>2. Len(s.misses) \in Nat /\ DOMAIN s.misses = 1..Len(s.misses)
  BY <1>1, LenProperties
<1>3. MaxMisses \in Nat /\ kMinAlignment \in Nat /\ MaxMisses < kMinAlignment
  BY BoundsAssumption, AlignmentAssumption DEF FewMisses
<1>4. s.minOffset # 0 /\ Aligned(s.minOffset - 1) /\ Len(s.misses) <= MaxMisses
  BY DEF Misses
<1>5. i \in 1..(kMinAlignment - 1) /\ o = s.minOffset + i - 1
  BY <1>2, <1>3, <1>4 DEF IsMiss
<1>6. (s.minOffset - 1) + i = o
  BY <1>1, <1>3, <1>5
<1>7. ~Aligned((s.minOffset - 1) + i)
  <2>1. s.minOffset - 1 \in Int
    BY <1>1
  <2> QED BY <1>4, <1>5, <2>1, AlignedNeighbours
<1> QED BY <1>6, <1>7

\* What an address shows is the buffer of its key.
LEMMA ResolvesShows ==
  ASSUME FewMisses, NEW p \in Procs, NEW s, s = proc[p], s \in Process, Resolves(s, file),
         NEW k \in DOMAIN s.keys, s.keys[k] \in DOMAIN s.addr
  PROVE  Shows(s, s.addr[s.keys[k]], k)
<1> DEFINE o == s.keys[k]
           a == s.addr[o]
<1>1. o \in Nat /\ k \in Keys
  <2>1. s.keys \in Maps(Keys, Nat)
    BY ProcessFields
  <2> QED BY <2>1 DEF Maps
<1>2. a.in \in {"map", "heap"}
  <2>1. s.addr \in Maps(Nat, Address)
    BY ProcessFields
  <2>2. a \in Address
    BY <2>1 DEF Maps
  <2> QED BY <2>2 DEF Address
<1>3. AddressHolds(s, file, o) /\ Misses(s) /\ (MissHolds(s, k) \/ FileHolds(s, file, k))
  BY DEF Resolves
<1>4. s.misses \in Seq(Miss) /\ s.minOffset \in Nat /\ s.handles \in Seq(Handle)
  BY ProcessFields
<1> HIDE DEF o, a
<1>5. CASE a.in = "heap"
  <2>1. IsMiss(s, o, a.cell)
    BY <1>3, <1>5 DEF AddressHolds, a
  <2>2. CASE MissHolds(s, k)
    <3>1. PICK i \in DOMAIN s.misses : IsMiss(s, o, i) /\ s.misses[i].key = <<k>>
      BY <2>2 DEF MissHolds, o
    <3>2. i \in Nat /\ a.cell \in Nat /\ o = s.minOffset + i - 1 /\ o = s.minOffset + a.cell - 1
      BY <1>4, <2>1, <3>1 DEF IsMiss
    <3>3. i = a.cell
      BY <1>4, <3>2
    <3> QED BY <1>5, <3>1, <3>3 DEF Shows, a, o
  <2>3. CASE FileHolds(s, file, k)
    <3>1. s.misses # << >> /\ Aligned(o)
      BY <1>4, <2>1, <2>3 DEF IsMiss, FileHolds, InFile, o
    <3>2. s.handles # << >>
      BY <2>3, <3>1 DEF FileHolds
    <3> QED BY <1>1, <1>3, <2>1, <3>1, <3>2, OffsetsApart
  <2> QED BY <1>3, <2>2, <2>3
<1>6. CASE a.in = "map"
  <2>1. Aligned(o) /\ a.cell = kBaseOffset + o /\ a.handle \in DOMAIN s.handles
    BY <1>3, <1>6 DEF AddressHolds, a
  <2>2. s.handles # << >>
    BY <2>1
  <2>3. ~MissHolds(s, k)
    BY <1>1, <1>3, <2>1, <2>2, OffsetsApart DEF MissHolds, o
  <2>4. FileHolds(s, file, k)
    BY <1>3, <2>3
  <2>5. Covers(s.handles[a.handle], a.cell, Size[k])
    BY <1>6, <2>4 DEF FileHolds, o, a
  <2>6. HoldsData(file, o, k)
    BY <2>4 DEF FileHolds, InFile, o
  <2>7. a.cell - kBaseOffset = o
    BY <1>1, <2>1, BaseOffset
  <2>8. Shows(s, a, k)
    BY <1>6, <2>1, <2>5, <2>6, <2>7 DEF Shows, Covers
  <2> QED BY <2>8 DEF a, o
<1> QED BY <1>2, <1>5, <1>6

-----------------------------------------------------------------------------
(***************************************************************************)
(* The steps.                                                              *)
(***************************************************************************)

\* A process that knows nothing.
LEMMA EmptyResolves ==
  ASSUME NEW s, NEW f, Empty(s)
  PROVE  Resolves(s, f)
<1>1. DOMAIN << >> = {} /\ Len(<< >>) = 0 /\ 0 <= MaxMisses
  BY BoundsAssumption, EmptyMap
<1> QED BY <1>1 DEF Empty, Resolves, Mappings, Misses

\* A step that adds no key and no address, and moves the end of the data up.
LEMMA ResolvesKept ==
  ASSUME NEW s \in Process, NEW t, NEW f, NEW g, Resolves(s, f),
         t.keys = s.keys, t.addr = s.addr, t.handles = s.handles,
         t.minOffset = s.minOffset, t.misses = s.misses,
         Mappings(t, g),
         t.started \/ t.building => s.started \/ s.building,
         t.started => s.started /\ FileEnd(s, f) \in Int /\ FileEnd(t, g) \in Int
                      /\ FileEnd(s, f) <= FileEnd(t, g),
         \A k \in DOMAIN s.keys : InFile(s, f, k) => InFile(t, g, k),
         \A k \in DOMAIN s.keys : t.started /\ FileHolds(s, f, k) /\ s.keys[k] \notin DOMAIN s.addr
                                    => t.segStart <= kBaseOffset + s.keys[k]
  PROVE  Resolves(t, g)
<1>1. Misses(t)
  BY DEF Resolves, Misses
<1>2. ASSUME NEW o \in DOMAIN s.addr PROVE AddressHolds(t, g, o)
  <2>1. AddressHolds(s, f, o)
    BY DEF Resolves
  <2>2. CASE s.addr[o].in = "heap"
    BY <2>1, <2>2 DEF AddressHolds, IsMiss
  <2>3. CASE s.addr[o].in # "heap"
    <3>1. t.started => kBaseOffset + o < FileEnd(t, g)
      <4>1. s.addr \in Maps(Nat, Address)
        BY ProcessFields
      <4>2. o \in Nat
        BY <4>1 DEF Maps
      <4>3. s.started => kBaseOffset + o < FileEnd(s, f)
        BY <2>1, <2>3 DEF AddressHolds
      <4> QED BY <4>2, <4>3, BaseOffset
    <3> QED BY <2>1, <2>3, <3>1 DEF AddressHolds
  <2> QED BY <2>2, <2>3
<1>3. ASSUME NEW k \in DOMAIN s.keys PROVE MissHolds(t, k) \/ FileHolds(t, g, k)
  <2>1. MissHolds(s, k) \/ FileHolds(s, f, k)
    BY DEF Resolves
  <2>2. CASE MissHolds(s, k)
    BY <2>2 DEF MissHolds, IsMiss
  <2>3. CASE FileHolds(s, f, k)
    BY <2>3 DEF FileHolds
  <2> QED BY <2>1, <2>2, <2>3
<1> QED BY <1>1, <1>2, <1>3 DEF Resolves

\* The keys and offsets of a process.
LEMMA KeyFields ==
  ASSUME NEW s \in Process, NEW k \in DOMAIN s.keys
  PROVE  k \in Keys /\ s.keys[k] \in Nat /\ Size[k] \in Nat /\ Size[k] > 0
<1>1. s.keys \in Maps(Keys, Nat)
  BY ProcessFields
<1>2. k \in Keys /\ s.keys[k] \in Nat
  BY <1>1 DEF Maps
<1> QED BY <1>2, WrittenCells

\* The bytes of a key stay in the file when what is written is behind them, or
\* is the header.
LEMMA InFileKept ==
  ASSUME NEW s \in Process, NEW t, NEW f \in Seq(Cell), NEW k \in DOMAIN s.keys,
         InFile(s, f, k), NEW pos \in Nat, NEW cells \in Seq(Cell),
         NEW g, g = WriteAt(f, pos, cells),
         FileEnd(s, f) \in Int, FileEnd(t, g) \in Int, FileEnd(s, f) <= FileEnd(t, g),
         FileEnd(s, f) <= pos \/ pos + Len(cells) <= kBaseOffset,
         t.keys[k] = s.keys[k]
  PROVE  InFile(t, g, k)
<1>1. k \in Keys /\ s.keys[k] \in Nat /\ Size[k] \in Nat /\ kBaseOffset \in Nat
  BY KeyFields, BaseOffset
<1>2. /\ kBaseOffset + s.keys[k] + Size[k] <= FileEnd(s, f)
      /\ HoldsData(f, s.keys[k], k) /\ Aligned(s.keys[k])
  BY DEF InFile
<1>3. kBaseOffset + s.keys[k] + Size[k] <= FileEnd(t, g)
  BY <1>1, <1>2
<1>4. kBaseOffset + s.keys[k] + Size[k] <= pos \/ pos + Len(cells) <= kBaseOffset
  BY <1>1, <1>2
<1>5. HoldsData(g, s.keys[k], k)
  BY <1>1, <1>2, <1>4, DataKept
<1> QED BY <1>2, <1>3, <1>5 DEF InFile

\* A process that loads a file, with nothing mapped and nothing missed before.
LEMMA LoadedResolves ==
  ASSUME NEW s \in Process, NEW f \in Seq(Cell), LoadChecks(f), FileSound(f),
         s.misses = << >>, DOMAIN s.addr = {},
         s.started /\ s.building =>
           s.segStart = ListOffset(f[1]) /\ DataEnd(s) = ListOffset(f[1])
  PROVE  Resolves(LoadedState(s, f), f)
<1> DEFINE list == LoadedList(f)
           end == ListOffset(f[1])
           h == [off |-> 0, size |-> Len(f)]
           mapped == MappedIn(1, list)
           t == LoadedState(s, f)
<1>1. /\ end \in Nat /\ list \in Seq(Entry) /\ Len(f) = end + Len(list) + 1
  BY LoadableFile
<1>2. Len(list) \in Nat /\ Len(f) \in Nat /\ end < Len(f)
  BY <1>1, LenProperties
<1>3. Held(f, list, end)
  BY DEF FileSound
<1>4. /\ t.keys = KeysOf(list) /\ t.addr = Insert(s.addr, mapped) /\ t.handles = <<h>>
      /\ t.minOffset = 1 + Max({0} \cup OffsetsOf(list)) /\ t.misses = << >>
      /\ t.started = s.started /\ t.building = s.building /\ t.pc = s.pc /\ t.pos = s.pos
      /\ t.schema = s.schema /\ t.segStart = s.segStart
  BY DEF LoadedState, Process
<1>5. /\ DOMAIN t.addr = DOMAIN mapped
      /\ \A o \in DOMAIN mapped :
           t.addr[o] = [in |-> "map", handle |-> 1, cell |-> kBaseOffset + o]
  <2>1. \A o \in DOMAIN mapped :
          mapped[o] = [in |-> "map", handle |-> 1, cell |-> kBaseOffset + o]
    BY <1>1, MappedInList
  <2> HIDE DEF mapped
  <2> QED BY <1>4, <2>1 DEF Insert
<1>6. ASSUME NEW i \in DOMAIN list
      PROVE  /\ list[i].off \in Nat /\ Aligned(list[i].off) /\ list[i].key \in Keys
             /\ Size[list[i].key] \in Nat /\ Size[list[i].key] > 0
             /\ kBaseOffset + list[i].off + Size[list[i].key] <= end
             /\ HoldsData(f, list[i].off, list[i].key) /\ list[i].off \in DOMAIN mapped
  BY <1>1, <1>3, EntryFields, MappedInList, WrittenCells DEF Held
<1>7. Max({0} \cup OffsetsOf(list)) \in Nat /\ Aligned(Max({0} \cup OffsetsOf(list)))
  BY <1>1, <1>3, LargestOffset
<1> HIDE DEF list, end, mapped, t
<1>8. FileEnd(t, f) \in Int /\ end <= FileEnd(t, f) /\ (t.started => FileEnd(t, f) = end)
  <2>1. DataEnd(t) = DataEnd(s)
    BY <1>4 DEF DataEnd
  <2>2. t.started /\ t.building => DataEnd(t) = end
    BY <1>4, <2>1 DEF end
  <2>3. CASE ~t.started
    BY <1>1, <1>2, <2>3 DEF FileEnd
  <2>4. CASE t.started
    BY <1>1, <2>2, <2>4 DEF FileEnd, end
  <2> QED BY <2>3, <2>4
<1>9. h.off = 0 /\ h.size = Len(f) /\ Last(<<h>>) = h /\ DOMAIN <<h>> = {1} /\ <<h>>[1] = h
      /\ <<h>> # << >>
  BY DEF Last
<1> HIDE DEF h
<1>10. Mappings(t, f)
  <2>1. t.started => (IF t.building THEN t.segStart ELSE ListOffset(f[1])) = end
    BY <1>4 DEF end
  <2> QED BY <1>1, <1>2, <1>4, <1>9, <2>1 DEF Mappings
<1>11. Misses(t)
  <2>1. t.minOffset # 0 /\ t.minOffset - 1 = Max({0} \cup OffsetsOf(list))
    BY <1>4, <1>7
  <2>2. Len(<< >>) <= MaxMisses /\ DOMAIN << >> = {}
    BY BoundsAssumption, EmptyMap
  <2>3. Aligned(t.minOffset - 1)
    BY <1>7, <2>1
  <2> QED BY <1>4, <1>9, <2>1, <2>2, <2>3 DEF Misses
<1>12. ASSUME NEW o \in DOMAIN t.addr PROVE AddressHolds(t, f, o)
  <2>1. PICK i \in DOMAIN list : list[i].off = o
    BY <1>1, <1>5, MappedInList DEF mapped
  <2>2. o \in Nat /\ Aligned(o) /\ kBaseOffset + o < end
    <3>1. /\ list[i].off \in Nat /\ Aligned(list[i].off) /\ Size[list[i].key] \in Nat
          /\ Size[list[i].key] > 0 /\ kBaseOffset + list[i].off + Size[list[i].key] <= end
      BY <1>6
    <3> QED BY <1>1, <2>1, <3>1, BaseOffset
  <2>3. t.addr[o] = [in |-> "map", handle |-> 1, cell |-> kBaseOffset + o]
    BY <1>5
  <2>4. t.started => kBaseOffset + o < FileEnd(t, f)
    BY <1>8, <2>2
  <2>5. 1 \in DOMAIN t.handles
    BY <1>4, <1>9
  <2> QED BY <2>2, <2>3, <2>4, <2>5 DEF AddressHolds
<1>13. ASSUME NEW k \in DOMAIN t.keys PROVE FileHolds(t, f, k)
  <2>1. PICK i \in DOMAIN list : list[i] = [key |-> k, off |-> t.keys[k]]
    BY <1>1, <1>4, KeysOfList
  <2>2. list[i].key = k /\ list[i].off = t.keys[k]
    BY <2>1
  <2>3. /\ t.keys[k] \in Nat /\ Aligned(t.keys[k]) /\ Size[k] \in Nat
        /\ kBaseOffset + t.keys[k] + Size[k] <= end /\ HoldsData(f, t.keys[k], k)
        /\ t.keys[k] \in DOMAIN mapped
    BY <1>6, <2>2
  <2>4. InFile(t, f, k)
    <3>1. kBaseOffset + t.keys[k] + Size[k] <= FileEnd(t, f)
      BY <1>1, <1>8, <2>3, BaseOffset
    <3> QED BY <2>3, <3>1 DEF InFile
  <2>5. t.keys[k] \in DOMAIN t.addr
        /\ t.addr[t.keys[k]] = [in |-> "map", handle |-> 1, cell |-> kBaseOffset + t.keys[k]]
    BY <1>5, <2>3
  <2>6. Covers(t.handles[1], kBaseOffset + t.keys[k], Size[k])
    <3>1. kBaseOffset + t.keys[k] + Size[k] <= Len(f) /\ 0 <= kBaseOffset + t.keys[k]
      BY <1>1, <1>2, <2>3, BaseOffset
    <3> QED BY <1>2, <1>4, <1>9, <3>1 DEF Covers
  <2> QED BY <1>4, <2>4, <2>5, <2>6 DEF FileHolds
<1> QED BY <1>10, <1>11, <1>12, <1>13 DEF Resolves, t

\* A process without keys, addresses, mappings and misses.
LEMMA NothingResolves ==
  ASSUME NEW t, NEW f, t.keys = << >>, DOMAIN t.addr = {}, t.handles = << >>,
         t.misses = << >>, t.minOffset = 0
  PROVE  Resolves(t, f)
<1>1. DOMAIN << >> = {} /\ Len(<< >>) = 0 /\ 0 <= MaxMisses
  BY BoundsAssumption, EmptyMap
<1> QED BY <1>1 DEF Resolves, Mappings, Misses

\* Where the data ends is a position while a call is under way or was made.
LEMMA FileEndIsInt ==
  ASSUME NEW s, NEW f, Sound(s, f), s.pc \in {"list", "header", "up"}
  PROVE  FileEnd(s, f) \in Int
<1>1. s \in Process /\ f \in Seq(Cell) /\ Control(s, f)
  BY DEF Sound, Typed
<1>2. s.pos \in Nat /\ s.schema \in Seq(Entry) /\ Len(s.schema) \in Nat /\ Len(f) \in Nat
  BY <1>1, ProcessFields, LenProperties
<1>3. CASE ~s.started
  BY <1>2, <1>3 DEF FileEnd
<1>4. CASE s.started /\ s.building
  BY <1>2, <1>4 DEF FileEnd, DataEnd
<1>5. CASE s.started /\ ~s.building
  <2>1. LoadChecks(f)
    BY <1>1, <1>5 DEF Control
  <2>2. ListOffset(f[1]) \in Nat
    BY <1>1, <2>1, LoadableFile
  <2> QED BY <1>5, <2>2 DEF FileEnd
<1> QED BY <1>3, <1>4, <1>5

\* Nothing is mapped or missed while there is a builder but no mapping.
LEMMA NothingMapped ==
  ASSUME NEW s \in Process, NEW f, Resolves(s, f), s.handles = << >>,
         s.started \/ s.building
  PROVE  s.misses = << >> /\ DOMAIN s.addr = {}
<1>1. s.misses = << >>
  BY DEF Resolves, Misses
<1>2. ASSUME NEW o \in DOMAIN s.addr PROVE FALSE
  <2>1. AddressHolds(s, f, o)
    BY DEF Resolves
  <2>2. DOMAIN << >> = {}
    BY EmptyMap
  <2> QED BY <1>1, <2>1, <2>2 DEF AddressHolds, IsMiss
<1> QED BY <1>1, <1>2

\* Nor is anything known once the file could not be mapped.
LEMMA NotLoadedResolves ==
  ASSUME NEW s \in Process, NEW f, NEW g, Resolves(s, f), s.handles = << >>,
         s.started \/ s.building,
         NEW t, t.keys = << >>, t.handles = << >>, t.addr = s.addr,
         t.misses = s.misses, t.minOffset = s.minOffset
  PROVE  Resolves(t, g)
<1>1. s.misses = << >> /\ DOMAIN s.addr = {}
  BY NothingMapped
<1>2. s.minOffset = 0
  BY DEF Resolves, Misses
<1> QED BY <1>1, <1>2, NothingResolves

\* A step that changes the control alone.
LEMMA ControlResolves ==
  ASSUME NEW s, NEW t, NEW f, Resolves(s, f),
         t.keys = s.keys, t.addr = s.addr, t.handles = s.handles,
         t.minOffset = s.minOffset, t.misses = s.misses, t.started = s.started,
         t.building = s.building, t.segStart = s.segStart, DataEnd(t) = DataEnd(s)
  PROVE  Resolves(t, f)
<1>1. FileEnd(t, f) = FileEnd(s, f)
  BY DEF FileEnd
<1>2. Mappings(t, f) /\ Misses(t)
  BY DEF Resolves, Mappings, Misses
<1>3. \A o \in DOMAIN s.addr : AddressHolds(t, f, o)
  BY <1>1 DEF Resolves, AddressHolds, IsMiss
<1>4. ASSUME NEW k \in DOMAIN s.keys PROVE MissHolds(t, k) \/ FileHolds(t, f, k)
  <2>1. MissHolds(s, k) => MissHolds(t, k)
    BY DEF MissHolds, IsMiss
  <2>2. FileHolds(s, f, k) => FileHolds(t, f, k)
    BY <1>1 DEF FileHolds, InFile
  <2> QED BY <2>1, <2>2 DEF Resolves
<1> QED BY <1>2, <1>3, <1>4 DEF Resolves

\* A write of a build step, behind the data.
LEMMA WriteResolves ==
  ASSUME NEW s, NEW t, NEW f, NEW g, Sound(s, f), Resolves(s, f),
         s.pc \in {"list", "up"}, s.started, s.building, NEW cells \in Seq(Cell),
         g = WriteAt(f, Align(s.pos), cells),
         t.keys = s.keys, t.addr = s.addr, t.handles = s.handles,
         t.minOffset = s.minOffset, t.misses = s.misses, t.started,
         t.building, t.segStart = s.segStart, DataEnd(t) \in Int, s.pos <= DataEnd(t)
  PROVE  Resolves(t, g)
<1>1. s \in Process /\ f \in Seq(Cell)
  BY DEF Sound, Typed
<1>2. s.pos \in Nat
  BY <1>1, ProcessFields
<1>3. Align(s.pos) \in Nat /\ s.pos <= Align(s.pos)
  BY <1>2, AlignRoundsUp
<1>4. FileEnd(s, f) = s.pos /\ FileEnd(t, g) = DataEnd(t)
  BY DEF FileEnd, DataEnd
<1>5. Mappings(t, g)
  BY DEF Resolves, Mappings
<1>6. ASSUME NEW k \in DOMAIN s.keys, InFile(s, f, k) PROVE InFile(t, g, k)
  <2>1. FileEnd(s, f) \in Int /\ FileEnd(t, g) \in Int /\ FileEnd(s, f) <= FileEnd(t, g)
        /\ FileEnd(s, f) <= Align(s.pos)
    BY <1>2, <1>3, <1>4
  <2> QED BY <1>1, <1>3, <1>6, <2>1, InFileKept
<1>7. \A k \in DOMAIN s.keys : t.started /\ FileHolds(s, f, k) /\ s.keys[k] \notin DOMAIN s.addr
                                 => t.segStart <= kBaseOffset + s.keys[k]
  BY DEF FileHolds
<1> QED BY <1>1, <1>2, <1>4, <1>5, <1>6, <1>7, ResolvesKept

\* StartBuildStep: the data ends where the list is.
LEMMA BeginResolves ==
  ASSUME NEW s, NEW t, NEW f, Sound(s, f), Resolves(s, f), s.pc = "up", s.started, ~s.building,
         t = [BeginSegment(s, f) EXCEPT !.step = TRUE]
  PROVE  Resolves(t, f)
<1> DEFINE o == ListOffset(f[1])
<1>1. s \in Process /\ f \in Seq(Cell) /\ Control(s, f) /\ Known(s, f)
  BY DEF Sound, Typed
<1>2. LoadChecks(f)
  BY <1>1 DEF Control
<1>3. o \in Nat
  BY <1>1, <1>2, LoadableFile
<1>4. /\ t.keys = s.keys /\ t.addr = s.addr /\ t.handles = s.handles
      /\ t.minOffset = s.minOffset /\ t.misses = s.misses /\ t.started = s.started
      /\ t.pc = s.pc /\ t.building /\ t.segStart = o /\ t.pos = o
  BY <1>1 DEF BeginSegment, Process
<1>5. FileEnd(s, f) = o /\ FileEnd(t, f) = o
  BY <1>4 DEF FileEnd, DataEnd
<1>6. Mappings(t, f)
  BY <1>4 DEF Resolves, Mappings
<1>7. \A k \in DOMAIN s.keys : InFile(s, f, k) => InFile(t, f, k)
  BY <1>4, <1>5 DEF InFile
<1>8. \A k \in DOMAIN s.keys : s.keys[k] \in DOMAIN s.addr
  BY <1>1 DEF Known
<1> HIDE DEF o
<1>9. FileEnd(s, f) \in Int /\ FileEnd(s, f) <= FileEnd(t, f) /\ FileEnd(t, f) \in Int
  BY <1>3, <1>5
<1> QED BY <1>1, <1>4, <1>6, <1>7, <1>8, <1>9, ResolvesKept

\* StopBuild: nothing of the process is written any more.
LEMMA StopBuildResolves ==
  ASSUME NEW s, NEW f, Sound(s, f), Resolves(s, f), s.started,
         NEW t, t = [s EXCEPT !.started = FALSE, !.firstWrite = FALSE, !.pos = 0,
                              !.segStart = 0, !.segSize = 0, !.schema = << >>]
  PROVE  Resolves(t, f)
<1>1. s \in Process
  BY DEF Sound, Typed
<1>2. /\ t.keys = s.keys /\ t.addr = s.addr /\ t.handles = s.handles
      /\ t.minOffset = s.minOffset /\ t.misses = s.misses /\ ~t.started
  BY <1>1 DEF Process
<1>3. Mappings(t, f)
  BY <1>2 DEF Mappings
<1>4. \A k \in DOMAIN s.keys : InFile(s, f, k) => InFile(t, f, k)
  BY <1>2 DEF InFile, FileEnd, HoldsData
<1> QED BY <1>1, <1>2, <1>3, <1>4, ResolvesKept

\* What an insertion adds to a map, and the address of the n-th miss.
Pair(x, v) == [y \in {x} |-> v]
Heap(n) == [in |-> "heap", handle |-> 0, cell |-> n]

\* A packed buffer goes behind the data, to an offset no address has.
LEMMA InsertInFileResolves ==
  ASSUME NEW s, NEW f, Sound(s, f), Resolves(s, f), s.pc = "up", s.started, s.building,
         NEW k \in Keys, k \notin DOMAIN s.keys,
         NEW at, at = Align(s.pos), NEW off, off = at - kBaseOffset,
         NEW t, t = [s EXCEPT !.pos = at + Size[k],
                              !.schema = Append(@, [key |-> k, off |-> off]),
                              !.keys = Insert(@, Pair(k, off))],
         NEW g, g = WriteAt(f, at, DataCells(k)), Sound(t, g)
  PROVE  Resolves(t, g)
<1> DEFINE u == [s EXCEPT !.pos = at + Size[k]]
           e == [key |-> k, off |-> off]
<1>1. s \in Process /\ f \in Seq(Cell) /\ Building(s, f) /\ Building(t, g)
  BY DEF Sound, Typed
<1>2. s.pos \in Nat /\ s.segStart \in Nat /\ s.schema \in Seq(Entry)
  BY <1>1, ProcessFields
<1>3. at \in Nat /\ s.pos <= at /\ Aligned(at)
  BY <1>2, AlignRoundsUp
<1>4. DataCells(k) \in Seq(Cell) /\ Size[k] \in Nat /\ Size[k] > 0
  BY WrittenCells
<1>5. 1 <= s.segStart /\ s.segStart <= s.pos
  BY <1>1 DEF Building, DataEnd, kHeaderSize
<1>6. off \in Nat /\ kBaseOffset + off = at /\ kBaseOffset \in Nat
  <2>1. kBaseOffset <= at /\ kBaseOffset \in Nat
    BY <1>2, <1>3, <1>5, BaseOffset
  <2> QED BY <1>3, <2>1
<1>7. /\ u.keys = s.keys /\ u.addr = s.addr /\ u.handles = s.handles
      /\ u.minOffset = s.minOffset /\ u.misses = s.misses /\ u.started = s.started
      /\ u.building = s.building /\ u.segStart = s.segStart /\ u.pc = s.pc
      /\ u.pos = at + Size[k]
  BY <1>1 DEF Process
<1>8. /\ t.keys = Insert(s.keys, Pair(k, off)) /\ t.addr = s.addr
      /\ t.handles = s.handles /\ t.minOffset = s.minOffset /\ t.misses = s.misses
      /\ t.started = s.started /\ t.building = s.building /\ t.segStart = s.segStart
      /\ t.pc = s.pc /\ t.pos = at + Size[k] /\ t.schema = Append(s.schema, e)
  BY <1>1 DEF Process
<1> HIDE DEF u
<1>9. DataEnd(u) = at + Size[k] /\ DataEnd(t) = at + Size[k]
  BY <1>7, <1>8 DEF DataEnd
<1>10. Resolves(u, g)
  <2>1. DataEnd(u) \in Int /\ s.pos <= DataEnd(u)
    BY <1>2, <1>3, <1>4, <1>9
  <2> QED BY <1>4, <1>7, <2>1, WriteResolves
<1>11. FileEnd(u, g) = at + Size[k] /\ FileEnd(t, g) = at + Size[k] /\ FileEnd(s, f) = s.pos
  BY <1>7, <1>8, <1>9 DEF FileEnd, DataEnd
<1>12. Aligned(off) /\ HoldsData(g, off, k)
  <2>1. Held(g, t.schema, DataEnd(t))
    BY <1>1, <1>8 DEF Building
  <2>2. e.key = k /\ e.off = off /\ e \in Entry
    BY <1>6 DEF Entry
  <2> HIDE DEF e
  <2>3. Len(s.schema) + 1 \in DOMAIN t.schema /\ t.schema[Len(s.schema) + 1] = e
    BY <1>2, <1>8, <2>2
  <2> QED BY <2>1, <2>2, <2>3 DEF Held
<1>13. /\ DOMAIN t.keys = DOMAIN s.keys \cup {k} /\ t.keys[k] = off
       /\ \A j \in DOMAIN s.keys : t.keys[j] = s.keys[j]
  BY <1>8 DEF Insert, Pair
<1>14. Mappings(t, g)
  BY <1>7, <1>8, <1>10 DEF Resolves, Mappings
<1>15. Misses(t)
  BY <1>7, <1>8, <1>10 DEF Resolves, Misses
<1>16. ASSUME NEW o \in DOMAIN t.addr PROVE AddressHolds(t, g, o)
  <2>1. AddressHolds(u, g, o)
    BY <1>7, <1>8, <1>10 DEF Resolves
  <2> QED BY <1>7, <1>8, <1>11, <2>1 DEF AddressHolds, IsMiss
<1>17. FileHolds(t, g, k)
  <2>1. InFile(t, g, k)
    <3>1. kBaseOffset + off + Size[k] <= at + Size[k]
      BY <1>3, <1>4, <1>6
    <3> QED BY <1>11, <1>12, <1>13, <3>1 DEF InFile
  <2>2. t.misses # << >> => t.handles # << >>
    BY <1>8, <1>15 DEF Misses
  <2>3. t.segStart <= kBaseOffset + t.keys[k]
    BY <1>2, <1>3, <1>5, <1>6, <1>8, <1>13
  <2>4. ASSUME off \in DOMAIN s.addr PROVE s.addr[off].in # "map"
    <3>1. AddressHolds(s, f, off)
      BY <2>4 DEF Resolves
    <3>2. s.addr[off].in = "map" => kBaseOffset + off < s.pos
      BY <1>11, <3>1 DEF AddressHolds
    <3> QED BY <1>2, <1>3, <1>6, <3>2
  <2> QED BY <1>8, <1>13, <2>1, <2>2, <2>3, <2>4 DEF FileHolds
<1>18. ASSUME NEW j \in DOMAIN s.keys PROVE MissHolds(t, j) \/ FileHolds(t, g, j)
  <2>1. MissHolds(u, j) \/ FileHolds(u, g, j)
    BY <1>7, <1>10 DEF Resolves
  <2>2. t.keys[j] = u.keys[j]
    BY <1>7, <1>13
  <2>3. CASE MissHolds(u, j)
    BY <1>7, <1>8, <2>2, <2>3 DEF MissHolds, IsMiss
  <2>4. CASE FileHolds(u, g, j)
    <3>1. InFile(t, g, j)
      BY <1>11, <2>2, <2>4 DEF FileHolds, InFile
    <3>2. /\ t.keys[j] = u.keys[j] /\ t.addr = u.addr /\ t.handles = u.handles
          /\ t.misses = u.misses /\ t.started = u.started /\ t.segStart = u.segStart
      BY <1>7, <1>8, <2>2
    <3> QED BY ONLY <2>4, <3>1, <3>2, SMTT(40) DEF FileHolds
  <2> QED BY <2>1, <2>3, <2>4
<1> QED BY <1>13, <1>14, <1>15, <1>16, <1>17, <1>18 DEF Resolves

\* A miss has the next offset behind those of the file.
LEMMA InsertMissResolves ==
  ASSUME FewMisses, NEW s, NEW f, Sound(s, f), Resolves(s, f), s.pc = "up", ~s.building,
         s.step \/ s.runtime \/ ~s.started, NEW k \in Keys, k \notin DOMAIN s.keys,
         NEW reserved, reserved = Reserve(s), NEW n, n = Len(reserved), n <= MaxMisses,
         NEW off, off = reserved[n].off,
         NEW t, t = [s EXCEPT !.misses = [reserved EXCEPT ![n].key = <<k>>],
                              !.keys = Insert(@, Pair(k, off)),
                              !.addr = Insert(@, Pair(off, Heap(n)))]
  PROVE  Resolves(t, f)
<1> DEFINE b == [off |-> s.minOffset + Len(s.misses), key |-> << >>]
           named == [reserved EXCEPT ![n].key = <<k>>]
           heap == Heap(n)
<1>1. s \in Process /\ Control(s, f) /\ Known(s, f)
  BY DEF Sound, Typed
<1>2. s.misses \in Seq(Miss) /\ s.minOffset \in Nat /\ Len(s.misses) \in Nat
  BY <1>1, ProcessFields, LenProperties
<1>3. DOMAIN s.misses = 1..Len(s.misses)
  BY <1>2
<1>4. Misses(s)
  BY DEF Resolves
<1>5. reserved = Append(s.misses, b)
  <2>1. s.misses # << >> => Last(s.misses).key # << >>
    <3>1. s.misses # << >> => Len(s.misses) \in DOMAIN s.misses
      BY <1>2
    <3> QED BY <1>4, <3>1 DEF Misses, Last
  <2> QED BY <2>1 DEF Reserve
<1>6. n = Len(s.misses) + 1 /\ n \in Nat /\ DOMAIN reserved = 1..n /\ off = s.minOffset + n - 1
      /\ off \in Nat /\ \A i \in DOMAIN s.misses : reserved[i] = s.misses[i]
  <2>1. b \in Miss /\ b.off = s.minOffset + Len(s.misses)
    BY <1>2 DEF Miss
  <2> HIDE DEF b
  <2>2. n = Len(s.misses) + 1 /\ DOMAIN reserved = 1..n /\ reserved[n] = b
        /\ \A i \in DOMAIN s.misses : reserved[i] = s.misses[i]
    BY <1>2, <1>5, <2>1
  <2> QED BY <1>2, <2>1, <2>2
<1>7. /\ DOMAIN named = 1..n /\ named[n].key = <<k>>
      /\ \A i \in DOMAIN s.misses : named[i] = s.misses[i]
  <2>1. reserved \in Seq(Miss) /\ reserved[n] \in Miss
    <3>1. reserved \in Seq(Miss)
      BY <1>1, ReserveKeeps
    <3> QED BY <1>6, <3>1
  <2>2. [reserved[n] EXCEPT !.key = <<k>>].key = <<k>>
    BY <2>1 DEF Miss
  <2>3. named = [reserved EXCEPT ![n] = [reserved[n] EXCEPT !.key = <<k>>]]
    OBVIOUS
  <2>4. n \in 1..n /\ \A i \in DOMAIN s.misses : i # n /\ i \in 1..n
    BY <1>2, <1>3, <1>6
  <2> HIDE DEF named
  <2> QED BY <1>6, <2>1, <2>2, <2>3, <2>4
<1> HIDE DEF named
<1>8. /\ t.misses = named /\ t.keys = Insert(s.keys, Pair(k, off))
      /\ t.addr = Insert(s.addr, Pair(off, heap))
      /\ t.handles = s.handles /\ t.minOffset = s.minOffset
      /\ t.started = s.started /\ t.building = s.building /\ t.segStart = s.segStart
      /\ t.pc = s.pc
  BY <1>1 DEF Process, named
<1>9. /\ DOMAIN t.keys = DOMAIN s.keys \cup {k} /\ t.keys[k] = off
      /\ \A j \in DOMAIN s.keys : t.keys[j] = s.keys[j]
  BY <1>8 DEF Insert, Pair
<1>10. /\ DOMAIN t.addr = DOMAIN s.addr \cup {off}
       /\ \A o \in DOMAIN s.addr : t.addr[o] = s.addr[o]
       /\ off \notin DOMAIN s.addr => t.addr[off] = heap
  <2> HIDE DEF heap
  <2> QED BY <1>8 DEF Insert, Pair
<1>11. heap.in = "heap" /\ heap.cell = n
  BY DEF Heap
<1> HIDE DEF heap
<1>12. \A o, i : IsMiss(s, o, i) => IsMiss(t, o, i)
  BY <1>2, <1>3, <1>6, <1>7, <1>8 DEF IsMiss
<1>13. IsMiss(t, off, n)
  BY <1>6, <1>7, <1>8 DEF IsMiss
<1>14. FileEnd(t, f) = FileEnd(s, f)
  BY <1>8 DEF FileEnd
<1>15. Mappings(t, f)
  BY <1>8 DEF Resolves, Mappings
<1>16. s.handles = << >> => ~s.started
  BY <1>1 DEF Control
<1>17. Misses(t)
  <2>1. Len(t.misses) <= MaxMisses
    <3>1. Len(named) = n
      <4>1. named \in Seq(Miss)
        <5>1. reserved \in Seq(Miss) /\ reserved[n] \in Miss /\ n \in DOMAIN reserved
          <6>1. reserved \in Seq(Miss) /\ n \in DOMAIN reserved
            BY <1>1, ReserveKeeps
          <6> QED BY <6>1
        <5>2. [reserved[n] EXCEPT !.key = <<k>>] \in Miss
          BY <5>1 DEF Miss
        <5>3. named = [reserved EXCEPT ![n] = [reserved[n] EXCEPT !.key = <<k>>]]
          BY DEF named
        <5> QED BY <5>1, <5>2, <5>3
      <4> QED BY <1>6, <1>7, <4>1
    <3> QED BY <1>8, <3>1
  <2>2. \A i \in DOMAIN t.misses : t.misses[i].key # << >>
    <3>3. t.misses = named /\ DOMAIN named = 1..n
      BY <1>7, <1>8
    <3> SUFFICES ASSUME NEW i \in 1..n PROVE named[i].key # << >>
      BY <3>3
    <3>1. CASE i = n
      <4>1. named[i].key = <<k>>
        BY <1>7, <3>1
      <4>2. <<k>> # << >>
        OBVIOUS
      <4> QED BY <4>1, <4>2
    <3>2. CASE i # n
      <4>1. i \in DOMAIN s.misses
        BY <1>2, <1>3, <1>6, <3>2
      <4> QED BY <1>4, <1>7, <4>1 DEF Misses
    <3> QED BY <3>1, <3>2
  <2> QED BY <1>4, <1>8, <1>16, <2>1, <2>2 DEF Misses
<1>18. ASSUME NEW o \in DOMAIN t.addr PROVE AddressHolds(t, f, o)
  <2>1. CASE o \in DOMAIN s.addr
    <3>1. AddressHolds(s, f, o) /\ t.addr[o] = s.addr[o]
      BY <1>10, <2>1 DEF Resolves
    <3> QED BY <1>8, <1>12, <1>14, <3>1 DEF AddressHolds
  <2>2. CASE o \notin DOMAIN s.addr
    <3>1. o = off /\ t.addr[o] = heap
      BY <1>10, <2>2
    <3> QED BY <1>11, <1>13, <3>1 DEF AddressHolds
  <2> QED BY <2>1, <2>2
<1>19. MissHolds(t, k)
  BY <1>6, <1>7, <1>8, <1>9, <1>13, SMTT(40) DEF MissHolds
<1>20. ASSUME NEW j \in DOMAIN s.keys PROVE MissHolds(t, j) \/ FileHolds(t, f, j)
  <2>1. MissHolds(s, j) \/ FileHolds(s, f, j)
    BY DEF Resolves
  <2>2. t.keys[j] = s.keys[j] /\ s.keys[j] \in DOMAIN s.addr
    BY <1>1, <1>9 DEF Known
  <2>3. CASE MissHolds(s, j)
    <3>1. PICK i \in DOMAIN s.misses : IsMiss(s, s.keys[j], i) /\ s.misses[i].key = <<j>>
      BY <2>3 DEF MissHolds
    <3>2. i \in DOMAIN t.misses /\ t.misses[i] = s.misses[i]
      BY <1>2, <1>3, <1>6, <1>7, <1>8
    <3> QED BY <1>12, <2>2, <3>1, <3>2 DEF MissHolds
  <2>4. CASE FileHolds(s, f, j)
    <3>1. InFile(t, f, j)
      BY <1>14, <2>2, <2>4 DEF FileHolds, InFile
    <3>2. s.handles # << >>
      <4>1. AddressHolds(s, f, s.keys[j])
        BY <2>2 DEF Resolves
      <4>2. s.addr[s.keys[j]].in = "heap" => s.misses # << >>
        BY <1>2, <4>1 DEF AddressHolds, IsMiss
      <4>3. s.addr[s.keys[j]].in # "heap" => s.handles # << >>
        BY <4>1 DEF AddressHolds
      <4> QED BY <2>4, <4>2, <4>3 DEF FileHolds
    <3>3. t.keys[j] \in DOMAIN t.addr /\ t.addr[t.keys[j]] = s.addr[s.keys[j]]
      BY <1>10, <2>2
    <3> QED BY <1>8, <2>2, <2>4, <3>1, <3>2, <3>3 DEF FileHolds
  <2> QED BY <2>1, <2>3, <2>4
<1> QED BY <1>9, <1>15, <1>17, <1>18, <1>19, <1>20 DEF Resolves

\* A sequence whose last element is replaced, and one with one more.
LEMMA LastReplaced ==
  ASSUME NEW T, NEW q \in Seq(T), q # << >>, NEW e \in T
  PROVE  LET r == [q EXCEPT ![Len(q)] = e]
         IN  /\ Len(r) = Len(q) /\ Len(q) \in DOMAIN r /\ DOMAIN r = DOMAIN q /\ r[Len(q)] = e
             /\ \A i \in DOMAIN q : i # Len(q) => r[i] = q[i]
<1>1. Len(q) \in Nat /\ Len(q) > 0 /\ DOMAIN q = 1..Len(q)
  BY EmptySeq, LenProperties
<1> QED BY <1>1

\* An element appended goes behind the others.
LEMMA OneMore ==
  ASSUME NEW T, NEW q \in Seq(T), NEW e \in T
  PROVE  LET r == Append(q, e)
         IN  /\ Len(r) \in DOMAIN r /\ DOMAIN q \subseteq DOMAIN r /\ r[Len(r)] = e
             /\ \A i \in DOMAIN q : r[i] = q[i]
<1>1. Len(q) \in Nat /\ DOMAIN q = 1..Len(q)
  BY LenProperties
<1> QED BY <1>1

\* None shrinks, and the last one covers the step.
LEMMA GrownCovers ==
  ASSUME NEW handles \in Seq(Handle), handles # << >>, NEW start \in Nat, NEW size \in Nat,
         size > 0, NEW resized, handles[Len(handles)].off <= start,
         start <= handles[Len(handles)].off + handles[Len(handles)].size
  PROVE  LET grown == Grown(handles, start, size, resized)
             new == grown[Len(grown)]
         IN  /\ Len(grown) \in DOMAIN grown /\ DOMAIN handles \subseteq DOMAIN grown
             /\ \A i \in DOMAIN handles :
                  /\ handles[i].off \in Nat /\ handles[i].size \in Nat /\ grown[i].size \in Nat
                  /\ grown[i].off = handles[i].off /\ handles[i].size <= grown[i].size
             /\ new.off \in Nat /\ new.size \in Nat /\ new.off <= start
             /\ start + size <= new.off + new.size
<1> DEFINE n == Len(handles)
           grown == Grown(handles, start, size, resized)
<1>7. PICK last : last = handles[n] /\ last.off <= start /\ start <= last.off + last.size
  OBVIOUS
<1>1. n \in DOMAIN handles
  BY EmptySeq, LenProperties
<1>2. \A i \in DOMAIN handles : handles[i] \in Handle
  OBVIOUS
<1>3. \A i \in DOMAIN handles : handles[i].off \in Nat /\ handles[i].size \in Nat
  BY <1>2, HandleFields
<1>4. last \in Handle /\ last.off \in Nat /\ last.size \in Nat
  BY <1>1, <1>2, <1>3, <1>7
<1>5. CASE resized
  <2> DEFINE e == [last EXCEPT !.size = @ + size]
  <2>1. grown = [handles EXCEPT ![n] = e]
    BY <1>5, <1>7 DEF Grown
  <2>2. e \in Handle /\ e.off = last.off /\ e.size = last.size + size
    BY <1>4, HandleFields
  <2> HIDE DEF e
  <2>3. /\ Len(grown) = n /\ n \in DOMAIN grown /\ DOMAIN grown = DOMAIN handles
        /\ grown[n] = e /\ \A i \in DOMAIN handles : i # n => grown[i] = handles[i]
    <3> HIDE DEF grown
    <3> QED BY <2>1, <2>2, LastReplaced
  <2> HIDE DEF grown
  <2>4. e.off \in Nat /\ e.size \in Nat /\ last.size <= e.size
    BY <1>4, <2>2
  <2>5. e.off <= start /\ start + size <= e.off + e.size
    BY <1>4, <1>7, <2>2
  <2>6. ASSUME NEW i \in DOMAIN handles
        PROVE  /\ grown[i].size \in Nat
               /\ grown[i].off = handles[i].off /\ handles[i].size <= grown[i].size
    <3>1. CASE i = n
      BY <1>7, <2>2, <2>3, <2>4, <3>1
    <3>2. CASE i # n
      <4>1. grown[i] = handles[i] /\ handles[i].size \in Nat
        BY <1>3, <2>3, <3>2
      <4> QED BY <4>1
    <3> QED BY <3>1, <3>2
  <2> QED BY <1>3, <2>3, <2>4, <2>5, <2>6 DEF grown
<1>6. CASE ~resized
  <2> DEFINE e == [off |-> start, size |-> size]
  <2>1. grown = Append(handles, e)
    BY <1>6 DEF Grown
  <2>2. e \in Handle /\ e.off = start /\ e.size = size
    BY DEF Handle
  <2> HIDE DEF e
  <2>3. /\ Len(grown) \in DOMAIN grown /\ DOMAIN handles \subseteq DOMAIN grown
        /\ grown[Len(grown)] = e /\ \A i \in DOMAIN handles : grown[i] = handles[i]
    <3> HIDE DEF grown
    <3> QED BY <2>1, <2>2, OneMore
  <2> HIDE DEF grown
  <2>4. ASSUME NEW i \in DOMAIN handles
        PROVE  /\ grown[i].size \in Nat
               /\ grown[i].off = handles[i].off /\ handles[i].size <= grown[i].size
    <3>1. grown[i] = handles[i] /\ handles[i].size \in Nat
      BY <1>3, <2>3
    <3> QED BY <3>1
  <2>5. start <= start /\ start + size <= start + size
    OBVIOUS
  <2> QED BY <1>3, <2>2, <2>3, <2>4, <2>5 DEF grown
<1> QED BY <1>5, <1>6

\* The header is written: what the step packed is mapped where the data is.
LEMMA HeaderResolves ==
  ASSUME NEW s, NEW f, Sound(s, f), Resolves(s, f), s.pc = "header", s.handles # << >>,
         NEW resized,
         NEW g, g = WriteAt(f, 0, <<Header(kVersion, s.pos - Len(ListCells(s.schema)),
                                           Len(ListCells(s.schema)), FALSE)>>),
         NEW grown, grown = Grown(s.handles, s.segStart, s.segSize, resized),
         NEW t, Sound(t, g), t.pc = "up", t.keys = s.keys, t.handles = grown,
         t.addr = Insert(s.addr, MappedIn(Len(grown), s.schema)),
         t.minOffset = s.minOffset, t.misses = s.misses, t.started, ~t.building
  PROVE  Resolves(t, g)
<1> DEFINE end == DataEnd(s)
           last == grown[Len(grown)]
           mapped == MappedIn(Len(grown), s.schema)
<1>1. s \in Process /\ f \in Seq(Cell) /\ Control(s, f) /\ Building(s, f)
      /\ Known(t, g) /\ t \in Process
  BY DEF Sound, Typed
<1>2. s.started /\ s.building
  BY <1>1 DEF Control
<1>3. /\ s.pos \in Nat /\ s.segStart \in Nat /\ s.segSize \in Nat /\ s.schema \in Seq(Entry)
      /\ Len(s.schema) \in Nat /\ s.handles \in Seq(Handle) /\ s.addr \in Maps(Nat, Address)
  BY <1>1, ProcessFields, LenProperties
<1>4. end = s.pos - Len(s.schema) - 1
  BY DEF DataEnd
<1>5. s.segStart <= end /\ s.segSize = s.pos - s.segStart /\ Held(f, s.schema, end)
  BY <1>1, <1>2 DEF Building
<1> HIDE DEF end
<1>6. end \in Int /\ end < s.pos /\ s.segSize > 0 /\ s.segStart + s.segSize = s.pos
  <2>1. s.pos \in Nat /\ s.segStart \in Nat /\ Len(s.schema) \in Nat
    BY <1>3
  <2>2. end \in Int /\ end < s.pos
    BY <1>4, <2>1
  <2>3. s.segStart <= end /\ s.segSize = s.pos - s.segStart
    BY <1>5
  <2> QED BY <2>1, <2>2, <2>3
<1>7. g \in Seq(Cell) /\ LoadChecks(g) /\ LoadedList(g) = s.schema /\ ListOffset(g[1]) = end
  BY HeaderMakesItLoad DEF end
<1>8. FileEnd(s, f) = end /\ FileEnd(t, g) = end
  BY <1>2, <1>7 DEF FileEnd, end
<1>9. s.handles[Len(s.handles)].off <= s.segStart
      /\ s.segStart <= s.handles[Len(s.handles)].off + s.handles[Len(s.handles)].size
  BY <1>2 DEF Resolves, Mappings, Last
<1>10. /\ Len(grown) \in DOMAIN grown /\ DOMAIN s.handles \subseteq DOMAIN grown
       /\ \A i \in DOMAIN s.handles :
            /\ s.handles[i].off \in Nat /\ s.handles[i].size \in Nat /\ grown[i].size \in Nat
            /\ grown[i].off = s.handles[i].off /\ s.handles[i].size <= grown[i].size
       /\ last.off \in Nat /\ last.size \in Nat /\ last.off <= s.segStart
       /\ s.segStart + s.segSize <= last.off + last.size
  <2>1. s.handles \in Seq(Handle) /\ s.segStart \in Nat /\ s.segSize \in Nat
    BY <1>3
  <2>2. PICK H, a, z : H = s.handles /\ a = s.segStart /\ z = s.segSize
    OBVIOUS
  <2>3. /\ H \in Seq(Handle) /\ H # << >> /\ a \in Nat /\ z \in Nat /\ z > 0
        /\ H[Len(H)].off <= a /\ a <= H[Len(H)].off + H[Len(H)].size
    BY <1>6, <1>9, <2>1, <2>2
  <2>4. grown = Grown(H, a, z, resized)
    BY <2>2
  <2>5. /\ Len(grown) \in DOMAIN grown /\ DOMAIN H \subseteq DOMAIN grown
        /\ \A i \in DOMAIN H :
             /\ H[i].off \in Nat /\ H[i].size \in Nat /\ grown[i].size \in Nat
             /\ grown[i].off = H[i].off /\ H[i].size <= grown[i].size
        /\ last.off \in Nat /\ last.size \in Nat /\ last.off <= a
        /\ a + z <= last.off + last.size
    BY <2>3, <2>4, GrownCovers
  <2> QED BY <2>2, <2>5
<1>11. /\ Len(grown) \in DOMAIN grown /\ DOMAIN s.handles \subseteq DOMAIN grown
       /\ last.off \in Nat /\ last.size \in Nat /\ last.off <= s.segStart
       /\ s.pos <= last.off + last.size
  BY <1>6, <1>10
<1>12. grown \in Seq(Handle) /\ grown # << >> /\ Len(grown) \in Nat
  <2>1. s.handles \in Seq(Handle) /\ s.segStart \in Nat /\ s.segSize \in Nat
    BY <1>3
  <2> QED BY <1>6, <2>1, GrownHandles
<1>13. /\ \A o \in DOMAIN mapped :
            /\ \E i \in DOMAIN s.schema : s.schema[i].off = o
            /\ mapped[o] = [in |-> "map", handle |-> Len(grown), cell |-> kBaseOffset + o]
  BY <1>3, <1>12, MappedInList
<1> HIDE DEF last, mapped
<1>14. /\ DOMAIN t.addr = DOMAIN s.addr \cup DOMAIN mapped
       /\ \A o \in DOMAIN s.addr : t.addr[o] = s.addr[o]
       /\ \A o \in DOMAIN mapped \ DOMAIN s.addr : t.addr[o] = mapped[o]
  <2>1. t.addr = Insert(s.addr, mapped)
    BY DEF mapped
  <2> QED BY <2>1 DEF Insert
<1>15. Mappings(t, g)
  <2>1. Last(t.handles) = last
    BY DEF Last, last
  <2>2. last.off <= end /\ end <= last.off + last.size
    BY <1>3, <1>5, <1>6, <1>11
  <2> QED BY <1>7, <2>1, <2>2 DEF Mappings
<1>16. Misses(t)
  BY <1>12 DEF Resolves, Misses
<1>17. ASSUME NEW o \in DOMAIN t.addr PROVE AddressHolds(t, g, o)
  <2>1. CASE o \in DOMAIN s.addr
    <3>1. AddressHolds(s, f, o) /\ t.addr[o] = s.addr[o]
      BY <1>14, <2>1 DEF Resolves
    <3> QED BY <1>2, <1>8, <1>11, <3>1 DEF AddressHolds, IsMiss
  <2>2. CASE o \notin DOMAIN s.addr
    <3>1. o \in DOMAIN mapped /\ t.addr[o] = mapped[o]
      BY <1>14, <2>2
    <3>2. t.addr[o] = [in |-> "map", handle |-> Len(grown), cell |-> kBaseOffset + o]
      BY <1>13, <3>1
    <3>3. PICK i \in DOMAIN s.schema : s.schema[i].off = o
      BY <1>13, <3>1
    <3>4. o \in Nat /\ Size[s.schema[i].key] \in Nat /\ Size[s.schema[i].key] > 0
      BY <1>3, <3>3, EntryFields, WrittenCells
    <3>5. Aligned(o) /\ kBaseOffset + o + Size[s.schema[i].key] <= end
      BY <1>5, <3>3 DEF Held
    <3>6. kBaseOffset + o < end
      BY <1>6, <3>4, <3>5, BaseOffset
    <3> QED BY <1>8, <1>11, <3>2, <3>5, <3>6 DEF AddressHolds
  <2> QED BY <2>1, <2>2
<1>18. ASSUME NEW k \in DOMAIN s.keys PROVE MissHolds(t, k) \/ FileHolds(t, g, k)
  <2>1. MissHolds(s, k) \/ FileHolds(s, f, k)
    BY DEF Resolves
  <2>2. CASE MissHolds(s, k)
    BY <2>2 DEF MissHolds, IsMiss
  <2>3. CASE FileHolds(s, f, k)
    <3> DEFINE o == s.keys[k]
    <3>1. k \in Keys /\ o \in Nat /\ Size[k] \in Nat
      BY <1>1, KeyFields
    <3>2. InFile(s, f, k)
      BY <2>3 DEF FileHolds
    <3>3. InFile(t, g, k)
      <4> DEFINE h == <<Header(kVersion, s.pos - Len(ListCells(s.schema)),
                               Len(ListCells(s.schema)), FALSE)>>
      <4>1. h \in Seq(Cell) /\ 0 + Len(h) <= kBaseOffset
        <5> DEFINE c == Header(kVersion, s.pos - Len(ListCells(s.schema)),
                               Len(ListCells(s.schema)), FALSE)
        <5>1. Len(ListCells(s.schema)) = Len(s.schema) + 1
          BY <1>3, WrittenCells
        <5>2. s.pos - Len(ListCells(s.schema)) \in Nat /\ Len(ListCells(s.schema)) \in Nat
              /\ kVersion \in Nat
          BY <1>3, <1>4, <1>5, <5>1 DEF kVersion
        <5>3. c \in Cell
          BY <5>2 DEF Header, Cell, HeaderCell
        <5>4. h = <<c>>
          OBVIOUS
        <5> HIDE DEF c, h
        <5> QED BY <5>3, <5>4, BaseOffset
      <4>2. g = WriteAt(f, 0, h) /\ 0 \in Nat
        OBVIOUS
      <4>3. FileEnd(s, f) \in Int /\ FileEnd(t, g) \in Int /\ FileEnd(s, f) <= FileEnd(t, g)
        BY <1>6, <1>8
      <4> HIDE DEF h
      <4> QED BY <1>1, <3>2, <4>1, <4>2, <4>3, InFileKept
    <3>4. kBaseOffset + o + Size[k] <= end /\ kBaseOffset \in Nat
      BY <1>8, <3>2, BaseOffset DEF InFile
    <3>5. o \in DOMAIN t.addr
      BY <1>1 DEF Known
    <3>6. ASSUME t.addr[o].in = "map"
          PROVE  Covers(t.handles[t.addr[o].handle], t.addr[o].cell, Size[k])
      <4>1. CASE o \in DOMAIN s.addr
        <5>1. t.addr[o] = s.addr[o]
          BY <1>14, <4>1
        <5> DEFINE a == s.addr[o]
        <5>2. /\ Covers(s.handles[a.handle], a.cell, Size[k])
              /\ a.handle \in DOMAIN s.handles /\ a.cell = kBaseOffset + o
          <6>1. AddressHolds(s, f, o)
            BY <4>1 DEF Resolves
          <6>2. a.in = "map"
            BY <3>6, <5>1
          <6> QED BY <2>3, <4>1, <6>1, <6>2 DEF FileHolds, AddressHolds
        <5> HIDE DEF a, o
        <5>3. Covers(grown[a.handle], a.cell, Size[k])
          <6>1. /\ grown[a.handle].off = s.handles[a.handle].off
                /\ s.handles[a.handle].off \in Nat /\ s.handles[a.handle].size \in Nat
                /\ grown[a.handle].size \in Nat
                /\ s.handles[a.handle].size <= grown[a.handle].size
            BY <1>10, <5>2
          <6>2. a.cell \in Nat
            BY <3>1, <3>4, <5>2
          <6> QED BY <3>1, <5>2, <6>1, <6>2, SMTT(40) DEF Covers
        <5> QED BY <5>1, <5>3 DEF a
      <4>2. CASE o \notin DOMAIN s.addr
        <5>1. t.addr[o] = [in |-> "map", handle |-> Len(grown), cell |-> kBaseOffset + o]
          BY <1>13, <1>14, <3>5, <4>2
        <5>2. s.segStart <= kBaseOffset + o
          BY <1>2, <2>3, <4>2 DEF FileHolds
        <5> HIDE DEF o
        <5>3. Covers(last, kBaseOffset + o, Size[k])
          <6>1. s.segStart \in Nat /\ s.pos \in Nat /\ end \in Int /\ end < s.pos
            BY <1>3, <1>6
          <6>2. last.off <= kBaseOffset + o
            BY <1>11, <3>1, <3>4, <5>2, <6>1
          <6>3. kBaseOffset + o + Size[k] <= last.off + last.size
            BY <1>11, <3>1, <3>4, <6>1
          <6> QED BY <6>2, <6>3 DEF Covers
        <5> QED BY <5>1, <5>3 DEF last
      <4> QED BY <4>1, <4>2
    <3> QED BY <1>12, <3>3, <3>5, <3>6 DEF FileHolds
  <2> QED BY <2>1, <2>2, <2>3
<1> QED BY <1>15, <1>16, <1>17, <1>18 DEF Resolves

\* WriteHeader: after Start nothing is known, after the first step the file is
\* loaded, and after a later one what is new is mapped.
LEMMA WriteHeaderResolves ==
  ASSUME NEW s, NEW f, Sound(s, f), Resolves(s, f), s.pc = "header", NEW resized
  PROVE  LET size == Len(ListCells(s.schema))
             g == WriteAt(f, 0, <<Header(kVersion, s.pos - size, size, FALSE)>>)
             w == [s EXCEPT !.pc = "up", !.step = FALSE, !.pos = kHeaderSize,
                            !.firstWrite = TRUE, !.building = FALSE]
             r == LoadLastBuildStep(w, g, resized)
             t == IF s.step THEN [r.s EXCEPT !.runtime = @ \/ r.ok] ELSE w
         IN  Sound(t, g) => Resolves(t, g)
<1> DEFINE size == Len(ListCells(s.schema))
           g == WriteAt(f, 0, <<Header(kVersion, s.pos - size, size, FALSE)>>)
           w == [s EXCEPT !.pc = "up", !.step = FALSE, !.pos = kHeaderSize,
                          !.firstWrite = TRUE, !.building = FALSE]
           r == LoadLastBuildStep(w, g, resized)
           t == IF s.step THEN [r.s EXCEPT !.runtime = @ \/ r.ok] ELSE w
<1> SUFFICES ASSUME Sound(t, g) PROVE Resolves(t, g)
  OBVIOUS
<1>1. s \in Process /\ Control(s, f) /\ Building(s, f)
  BY DEF Sound, Typed
<1>2. s.started /\ s.building
  BY <1>1 DEF Control
<1>3. /\ g \in Seq(Cell) /\ Len(g) = s.pos
      /\ LoadChecks(g) /\ LoadedList(g) = s.schema /\ FileSound(g)
  BY HeaderMakesItLoad
<1>4. /\ w \in Process /\ w.pc = "up" /\ ~w.building /\ w.started = s.started
      /\ w.segStart = s.segStart /\ w.segSize = s.segSize /\ w.minOffset = s.minOffset
      /\ w.keys = s.keys /\ w.addr = s.addr /\ w.handles = s.handles /\ w.misses = s.misses
  <2>1. kHeaderSize \in Nat
    BY DEF kHeaderSize
  <2> QED BY <1>1, <2>1 DEF Process
<1>8. t = IF s.step THEN [r.s EXCEPT !.runtime = @ \/ r.ok] ELSE w
  OBVIOUS
<1> HIDE DEF g, w, t
<1>5. CASE ~s.step
  <2>1. Empty(w) /\ t = w
    BY <1>1, <1>4, <1>5, <1>8 DEF Control, Empty
  <2> QED BY <2>1, EmptyResolves
<1>6. CASE s.step /\ s.handles = << >>
  <2> DEFINE u == LoadedState(w, g)
  <2>1. s.misses = << >> /\ DOMAIN s.addr = {}
    BY <1>1, <1>2, <1>6, NothingMapped
  <2>2. Resolves(u, g) /\ u \in Process
    BY <1>3, <1>4, <2>1, LoadedResolves, LoadedIsKnown
  <2>3. t = [u EXCEPT !.runtime = @ \/ TRUE]
    <3>1. Load(w, g) = [ok |-> TRUE, s |-> u]
      BY <1>3, LoadSucceeds
    <3>2. r = [ok |-> TRUE, s |-> u]
      BY <1>4, <1>6, <3>1 DEF LoadLastBuildStep
    <3> HIDE DEF u, r
    <3> QED BY <1>6, <1>8, <3>2
  <2> HIDE DEF u
  <2>4. /\ t.keys = u.keys /\ t.addr = u.addr /\ t.handles = u.handles
        /\ t.minOffset = u.minOffset /\ t.misses = u.misses /\ t.started = u.started
        /\ t.building = u.building /\ t.segStart = u.segStart
        /\ t.pc = u.pc /\ t.pos = u.pos /\ t.schema = u.schema
    BY <2>2, <2>3 DEF Process
  <2>5. DataEnd(t) = DataEnd(u)
    BY <2>4 DEF DataEnd
  <2> QED BY <2>2, <2>4, <2>5, ControlResolves
<1>7. CASE s.step /\ s.handles # << >>
  <2> DEFINE grown == Grown(s.handles, s.segStart, s.segSize, resized)
             addr == Insert(s.addr, MappedIn(Len(grown), s.schema))
             u == [w EXCEPT !.handles = grown, !.addr = addr]
  <2>1. s.segSize # 0 /\ s.segSize = Len(g) - s.segStart
    <3>1. s.segSize = s.pos - s.segStart /\ s.segStart <= DataEnd(s)
      BY <1>1, <1>2 DEF Building
    <3>2. DataEnd(s) = s.pos - Len(s.schema) - 1
      BY DEF DataEnd
    <3>3. s.pos \in Nat /\ s.segStart \in Nat /\ Len(s.schema) \in Nat
      BY <1>1, ProcessFields, LenProperties
    <3> QED BY <1>3, <3>1, <3>2, <3>3
  <2>2. r = [ok |-> TRUE, s |-> u]
    <3>1. w.segSize # 0 /\ w.segSize = Len(g) - w.segStart /\ w.handles # << >>
      BY <1>4, <1>7, <2>1
    <3>2. LoadLastBuildStep(w, g, resized) =
            [ok |-> TRUE,
             s |-> [w EXCEPT !.handles = Grown(w.handles, w.segStart, w.segSize, resized),
                             !.addr = Insert(@, MappedIn(Len(Grown(w.handles, w.segStart,
                                                                   w.segSize, resized)),
                                                         LoadedList(g)))]]
      BY <1>3, <3>1, MappedStep
    <3> QED BY <1>3, <1>4, <3>2
  <2>3. t = [u EXCEPT !.runtime = @ \/ TRUE]
    <3> HIDE DEF u, r
    <3> QED BY <1>7, <1>8, <2>2
  <2>4. t = [w EXCEPT !.handles = grown, !.addr = addr, !.runtime = @ \/ TRUE]
    BY <1>4, <2>3 DEF Process
  <2> HIDE DEF grown, addr
  <2>5. /\ t.pc = "up" /\ t.keys = s.keys /\ t.handles = grown /\ t.addr = addr
        /\ t.minOffset = s.minOffset /\ t.misses = s.misses /\ t.started /\ ~t.building
    BY <1>2, <1>4, <2>4 DEF Process
  <2>6. g = WriteAt(f, 0, <<Header(kVersion, s.pos - Len(ListCells(s.schema)),
                                   Len(ListCells(s.schema)), FALSE)>>)
    BY DEF g
  <2>7. t.addr = Insert(s.addr, MappedIn(Len(grown), s.schema))
    BY <2>5 DEF addr
  <2>8. grown = Grown(s.handles, s.segStart, s.segSize, resized)
    BY DEF grown
  <2> QED BY <1>7, <2>5, <2>6, <2>7, <2>8, HeaderResolves
<1> QED BY <1>5, <1>6, <1>7

\* LoadOrStartBuild: what it loads is mapped, or it knows nothing.
LEMMA LoadOrStartResolves ==
  ASSUME NEW f \in Seq(Cell), FileSound(f), NEW byFd \in BOOLEAN, NEW fails \in Nat
  PROVE  LET fresh == [Down EXCEPT !.pc = "up", !.fd = byFd, !.fails = fails]
             loaded == Load(fresh, f)
             mapped == f # << >> /\ fails = 0
         IN  IF mapped /\ loaded.ok THEN Resolves(loaded.s, f)
             ELSE Resolves([(IF mapped THEN loaded.s ELSE fresh) EXCEPT
                              !.pc = "start", !.fd = TRUE, !.started = TRUE], << >>)
<1> DEFINE fresh == [Down EXCEPT !.pc = "up", !.fd = byFd, !.fails = fails]
           loaded == Load(fresh, f)
           mapped == f # << >> /\ fails = 0
           s == IF mapped THEN loaded.s ELSE fresh
           t == [s EXCEPT !.pc = "start", !.fd = TRUE, !.started = TRUE]
<1>1. Down \in Process /\ Empty(Down) /\ ~Down.started
  <2>1. Sound(Down, f)
    BY DownIsSound
  <2> QED BY <2>1 DEF Sound, Typed, Empty, Down
<1>2. fresh \in Process /\ Empty(fresh) /\ ~fresh.started
  <2> HIDE DEF Down
  <2> QED BY <1>1 DEF Process, Empty
<1> HIDE DEF fresh
<1>3. CASE LoadChecks(f) /\ fails = 0
  <2>1. loaded = [ok |-> TRUE, s |-> LoadedState(fresh, f)]
    BY <1>3, LoadSucceeds
  <2>2. fresh.misses = << >> /\ DOMAIN fresh.addr = {}
    BY <1>2, EmptyMap DEF Empty
  <2>3. Resolves(LoadedState(fresh, f), f)
    BY <1>2, <1>3, <2>2, LoadedResolves
  <2>4. f # << >>
    <3>1. Len(f) >= 1
      BY <1>3 DEF LoadChecks, HasHeader, kHeaderSize
    <3> QED BY <3>1
  <2> QED BY <1>3, <2>1, <2>3, <2>4 DEF fresh
<1>4. CASE ~(LoadChecks(f) /\ fails = 0)
  <2>1. mapped => loaded = [ok |-> FALSE, s |-> NotLoaded(fresh)]
    BY <1>4, LoadFails
  <2>2. << >> \in Maps(Keys, Nat) /\ << >> \in Seq(Handle)
    BY EmptyMap
  <2>3. s \in Process /\ Empty(s)
    <3>1. CASE ~mapped
      BY <1>2, <3>1
    <3>2. CASE mapped
      <4>1. s = [fresh EXCEPT !.keys = << >>, !.handles = << >>]
        BY <2>1, <3>2 DEF NotLoaded
      <4> HIDE DEF s
      <4> QED BY <1>2, <2>2, <4>1 DEF Process, Empty
    <3> QED BY <3>1, <3>2
  <2> HIDE DEF s, loaded
  <2>4. Empty(t)
    BY <2>3 DEF Process, Empty
  <2>5. Resolves(t, << >>)
    BY <2>4, EmptyResolves
  <2>6. ~(mapped /\ loaded.ok)
    BY <2>1
  <2> QED BY <2>5, <2>6 DEF t, s, loaded, fresh
<1> QED BY <1>3, <1>4

\* StopBuildStep: what is written next changes nothing, and an empty step maps
\* the file when nothing was mapped.
LEMMA StopBuildStepResolves ==
  ASSUME NEW s, NEW f, Sound(s, f), Resolves(s, f), s.pc = "up", s.step, s.building, NEW resized
  PROVE  LET empty == s.pos = s.segStart /\ s.firstWrite
             r == LoadLastBuildStep(s, f, resized)
         IN  Resolves(IF ~empty THEN [s EXCEPT !.pc = "list"]
                      ELSE [r.s EXCEPT !.step = FALSE, !.runtime = @ \/ r.ok], f)
<1> DEFINE empty == s.pos = s.segStart /\ s.firstWrite
           r == LoadLastBuildStep(s, f, resized)
<1>1. s \in Process /\ f \in Seq(Cell) /\ FileSound(f) /\ Control(s, f) /\ Building(s, f)
  BY DEF Sound, Typed
<1>2. s.started
  BY <1>1 DEF Control
<1>3. CASE ~empty
  <2> DEFINE t == [s EXCEPT !.pc = "list"]
  <2>1. /\ t.keys = s.keys /\ t.addr = s.addr /\ t.handles = s.handles
        /\ t.minOffset = s.minOffset /\ t.misses = s.misses /\ t.started = s.started
        /\ t.building = s.building /\ t.segStart = s.segStart
        /\ t.pc = "list" /\ t.pos = s.pos /\ t.schema = s.schema
    BY <1>1 DEF Process
  <2> HIDE DEF t
  <2>2. DataEnd(t) = DataEnd(s)
    BY <2>1 DEF DataEnd
  <2>3. Resolves(t, f)
    BY <2>1, <2>2, ControlResolves
  <2> QED BY <1>3, <2>3 DEF t
<1>4. CASE empty
  <2>1. LoadChecks(f) /\ s.segSize = 0 /\ ListOffset(f[1]) = s.segStart
        /\ s.schema = LoadedList(f)
    BY <1>1, <1>2, <1>4 DEF Building
  <2> DEFINE u == IF s.handles = << >> THEN LoadedState(s, f) ELSE s
             t == [u EXCEPT !.step = FALSE, !.runtime = @ \/ TRUE]
  <2>2. r = [ok |-> TRUE, s |-> u]
    <3>1. CASE s.handles = << >>
      <4>1. Load(s, f) = [ok |-> TRUE, s |-> LoadedState(s, f)]
        BY <1>1, <2>1, LoadSucceeds
      <4> QED BY <3>1, <4>1 DEF LoadLastBuildStep
    <3>2. CASE s.handles # << >>
      BY <2>1, <3>2 DEF LoadLastBuildStep
    <3> QED BY <3>1, <3>2
  <2>3. u \in Process /\ Resolves(u, f)
    <3>1. CASE s.handles = << >>
      <4>1. s.misses = << >> /\ DOMAIN s.addr = {}
        BY <1>1, <1>2, <3>1, NothingMapped
      <4>2. DataEnd(s) = ListOffset(f[1])
        BY <1>4, <2>1 DEF DataEnd
      <4>3. LoadedState(s, f) \in Process /\ Resolves(LoadedState(s, f), f)
        BY <1>1, <2>1, <4>1, <4>2, LoadedResolves, LoadedIsKnown
      <4> QED BY <3>1, <4>3
    <3>2. CASE s.handles # << >>
      BY <1>1, <3>2
    <3> QED BY <3>1, <3>2
  <2>4. t = [r.s EXCEPT !.step = FALSE, !.runtime = @ \/ r.ok]
    <3> HIDE DEF u, r
    <3> QED BY <2>2
  <2> HIDE DEF u
  <2>5. /\ t.keys = u.keys /\ t.addr = u.addr /\ t.handles = u.handles
        /\ t.minOffset = u.minOffset /\ t.misses = u.misses /\ t.started = u.started
        /\ t.building = u.building /\ t.segStart = u.segStart
        /\ t.pc = u.pc /\ t.pos = u.pos /\ t.schema = u.schema
    BY <2>3 DEF Process
  <2> HIDE DEF t
  <2>6. DataEnd(t) = DataEnd(u)
    BY <2>5 DEF DataEnd
  <2>7. Resolves(t, f)
    BY <2>3, <2>5, <2>6, ControlResolves
  <2> QED BY <1>4, <2>4, <2>7 DEF r
<1> QED BY <1>3, <1>4

\* StartBuildStep.
LEMMA StartBuildStepResolves ==
  ASSUME NEW s, NEW f, Sound(s, f), Resolves(s, f), s.pc = "up", s.started, ~s.step
  PROVE  Resolves([(IF s.building THEN s ELSE BeginSegment(s, f)) EXCEPT !.step = TRUE], f)
<1>1. s \in Process /\ Control(s, f)
  BY DEF Sound, Typed
<1>2. CASE s.building
  <2> DEFINE t == [s EXCEPT !.step = TRUE]
  <2>1. /\ t.keys = s.keys /\ t.addr = s.addr /\ t.handles = s.handles
        /\ t.minOffset = s.minOffset /\ t.misses = s.misses /\ t.started = s.started
        /\ t.building = s.building /\ t.segStart = s.segStart
        /\ t.pc = s.pc /\ t.pos = s.pos /\ t.schema = s.schema
    BY <1>1 DEF Process
  <2> HIDE DEF t
  <2>2. DataEnd(t) = DataEnd(s)
    BY <2>1 DEF DataEnd
  <2>3. Resolves(t, f)
    BY <2>1, <2>2, ControlResolves
  <2> QED BY <1>2, <2>3 DEF t
<1>3. CASE ~s.building
  BY <1>3, BeginResolves
<1> QED BY <1>2, <1>3

\* The first header is written while nothing is known.
LEMMA WriteInitialHeaderResolves ==
  ASSUME NEW s, NEW f, NEW g, Sound(s, f), s.pc = "start"
  PROVE  Resolves([BeginSegment(s, g) EXCEPT !.pc = "list"], g)
<1> DEFINE t == [BeginSegment(s, g) EXCEPT !.pc = "list"]
<1>1. s \in Process /\ Empty(s)
  BY DEF Sound, Typed, Control
<1>2. /\ t.keys = s.keys /\ t.addr = s.addr /\ t.handles = s.handles
      /\ t.minOffset = s.minOffset /\ t.misses = s.misses
  BY <1>1 DEF BeginSegment, Process
<1> HIDE DEF t
<1>3. Empty(t)
  BY <1>1, <1>2 DEF Empty
<1>4. Resolves(t, g)
  BY <1>3, EmptyResolves
<1> QED BY <1>4 DEF t

\* The list is written behind the data.
LEMMA WriteListResolves ==
  ASSUME NEW s, NEW f, Sound(s, f), Resolves(s, f), s.pc = "list"
  PROVE  LET at == Align(s.pos)
             cells == ListCells(s.schema)
         IN  Resolves([s EXCEPT !.pc = "header", !.pos = at + Len(cells),
                                !.segSize = at + Len(cells) - s.segStart],
                      WriteAt(f, at, cells))
<1> DEFINE at == Align(s.pos)
           cells == ListCells(s.schema)
           t == [s EXCEPT !.pc = "header", !.pos = at + Len(cells),
                          !.segSize = at + Len(cells) - s.segStart]
<1>1. s \in Process /\ s.started /\ s.building
  BY DEF Sound, Typed, Control
<1>2. s.pos \in Nat /\ s.schema \in Seq(Entry)
  BY <1>1, ProcessFields
<1>3. cells \in Seq(Cell) /\ Len(cells) = Len(s.schema) + 1 /\ Len(s.schema) \in Nat
  BY <1>2, WrittenCells, LenProperties
<1>4. at \in Nat /\ s.pos <= at
  BY <1>2, AlignRoundsUp
<1> HIDE DEF at, cells
<1>5. /\ t.keys = s.keys /\ t.addr = s.addr /\ t.handles = s.handles
      /\ t.minOffset = s.minOffset /\ t.misses = s.misses /\ t.started = s.started
      /\ t.building = s.building /\ t.segStart = s.segStart
      /\ t.pc = "header" /\ t.pos = at + Len(cells) /\ t.schema = s.schema
  BY <1>1 DEF Process
<1> HIDE DEF t
<1>6. DataEnd(t) = at
  <2>1. DataEnd(t) = t.pos - Len(t.schema) - 1
    BY <1>5 DEF DataEnd
  <2> QED BY <1>3, <1>4, <1>5, <2>1
<1>7. DataEnd(t) \in Int /\ s.pos <= DataEnd(t)
  BY <1>4, <1>6
<1> DEFINE g == WriteAt(f, at, cells)
<1>8. g = WriteAt(f, Align(s.pos), cells)
  BY DEF at
<1> HIDE DEF g
<1>9. Resolves(t, g)
  BY <1>1, <1>3, <1>5, <1>7, <1>8, WriteResolves
<1> QED BY <1>9 DEF t, g, at, cells

\* A part of it is.
LEMMA WriteListFailsResolves ==
  ASSUME NEW s, NEW f, Sound(s, f), Resolves(s, f), s.pc = "list", NEW c \in Seq(Cell)
  PROVE  Resolves([s EXCEPT !.pc = "up", !.step = FALSE, !.pos = Align(s.pos) + Len(c),
                            !.fails = @ + 1],
                  WriteAt(f, Align(s.pos), c))
<1> DEFINE at == Align(s.pos)
           t == [s EXCEPT !.pc = "up", !.step = FALSE, !.pos = at + Len(c), !.fails = @ + 1]
           g == WriteAt(f, at, c)
<1>1. s \in Process /\ s.started /\ s.building
  BY DEF Sound, Typed, Control
<1>2. s.pos \in Nat /\ Len(c) \in Nat
  BY <1>1, ProcessFields, LenProperties
<1>3. at \in Nat /\ s.pos <= at
  BY <1>2, AlignRoundsUp
<1>4. g = WriteAt(f, Align(s.pos), c)
  OBVIOUS
<1> HIDE DEF at, g
<1>5. /\ t.keys = s.keys /\ t.addr = s.addr /\ t.handles = s.handles
      /\ t.minOffset = s.minOffset /\ t.misses = s.misses /\ t.started = s.started
      /\ t.building = s.building /\ t.segStart = s.segStart
      /\ t.pc = "up" /\ t.pos = at + Len(c)
  BY <1>1 DEF Process
<1> HIDE DEF t
<1>6. DataEnd(t) = at + Len(c)
  BY <1>5 DEF DataEnd
<1>7. DataEnd(t) \in Int /\ s.pos <= DataEnd(t)
  BY <1>2, <1>3, <1>6
<1>8. Resolves(t, g)
  BY <1>1, <1>4, <1>5, <1>7, WriteResolves
<1> QED BY <1>8 DEF t, g, at

-----------------------------------------------------------------------------
(***************************************************************************)
(* The invariant holds initially, every step preserves it, and LookUp is   *)
(* sound.                                                                  *)
(***************************************************************************)

\* No process holds anything yet.
LEMMA InitRInv == Init => RInv
<1> SUFFICES ASSUME Init, NEW p \in Procs PROVE Resolves(proc[p], file)
  BY DEF RInv
<1>1. proc[p] = Down
  BY DEF Init
<1>2. Empty(Down)
  BY DEF Empty, Down
<1> QED BY <1>1, <1>2, EmptyResolves

\* One step per action.
LEMMA StepRInv ==
  ASSUME OneProcess, FewMisses, IInv, RInv, NEW p \in Procs, Step(p)
  PROVE  RInv'
<1>2. /\ proc \in [Procs -> Process] /\ Sound(proc[p], file) /\ proc[p] \in Process
      /\ file \in Seq(Cell) /\ FileSound(file) /\ Control(proc[p], file)
      /\ Resolves(proc[p], file)
  BY DEF IInv, RInv, Sound, Typed
<1>3. ASSUME NEW t, Resolves(t, file'), proc' = [proc EXCEPT ![p] = t]
      PROVE  RInv'
  <2>1. \A q \in Procs : proc'[q] = t
    BY <1>2, <1>3 DEF OneProcess
  <2>2. \A q \in Procs : Resolves(proc'[q], file')
    BY <1>3, <2>1
  <2> QED BY <2>2 DEF RInv
<1>4. ASSUME NEW t, proc' = [proc EXCEPT ![p] = t]
      PROVE  Sound(t, file')
  <2>1. IInv'
    BY StepIInv
  <2>2. Sound(proc'[p], file')
    BY <2>1 DEF IInv
  <2> QED BY <1>2, <1>4, <2>2
<1>5. ASSUME proc' = [proc EXCEPT ![p] = Down]
      PROVE  RInv'
  <2>1. Empty(Down)
    BY DEF Empty, Down
  <2> QED BY <1>3, <1>5, <2>1, EmptyResolves
<1>6. CASE LoadOrStartBuild(p)
  <2>1. PICK byFd \in BOOLEAN, fails \in 0..(IF MaxFails = 0 THEN 0 ELSE 1) :
          LET fresh == [Down EXCEPT !.pc = "up", !.fd = byFd, !.fails = fails]
              loaded == Load(fresh, file)
              mapped == file # << >> /\ fails = 0
          IN  IF mapped /\ loaded.ok
              THEN /\ proc' = [proc EXCEPT ![p] = loaded.s]
                   /\ UNCHANGED file
              ELSE /\ proc' = [proc EXCEPT ![p] =
                        [(IF mapped THEN loaded.s ELSE fresh) EXCEPT
                           !.pc = "start", !.fd = TRUE, !.started = TRUE]]
                   /\ file' = << >>
    BY <1>6 DEF LoadOrStartBuild
  <2> DEFINE fresh == [Down EXCEPT !.pc = "up", !.fd = byFd, !.fails = fails]
             loaded == Load(fresh, file)
             mapped == file # << >> /\ fails = 0
             s == [(IF mapped THEN loaded.s ELSE fresh) EXCEPT
                     !.pc = "start", !.fd = TRUE, !.started = TRUE]
  <2>2. fails \in Nat
    OBVIOUS
  <2>3. IF mapped /\ loaded.ok THEN Resolves(loaded.s, file) ELSE Resolves(s, << >>)
    BY <1>2, <2>2, LoadOrStartResolves
  <2>4. IF mapped /\ loaded.ok
        THEN proc' = [proc EXCEPT ![p] = loaded.s] /\ file' = file
        ELSE proc' = [proc EXCEPT ![p] = s] /\ file' = << >>
    BY <2>1
  <2> HIDE DEF loaded, s, mapped
  <2> QED BY <1>3, <2>3, <2>4
<1>7. CASE WriteInitialHeader(p)
  <2> DEFINE t == [BeginSegment(proc[p], file') EXCEPT !.pc = "list"]
  <2>1. proc' = [proc EXCEPT ![p] = t] /\ proc[p].pc = "start"
    BY <1>7 DEF WriteInitialHeader
  <2>2. Resolves(t, file')
    BY <1>2, <2>1, WriteInitialHeaderResolves
  <2> HIDE DEF t
  <2> QED BY <1>3, <2>1, <2>2
<1>8. CASE StartBuildStep(p)
  <2> DEFINE s == proc[p]
             t == [(IF s.building THEN s ELSE BeginSegment(s, file)) EXCEPT !.step = TRUE]
  <2>1. proc' = [proc EXCEPT ![p] = t] /\ file' = file /\ s.pc = "up" /\ s.started /\ ~s.step
    BY <1>8 DEF StartBuildStep
  <2>2. Resolves(t, file)
    BY <1>2, <2>1, StartBuildStepResolves
  <2> HIDE DEF t
  <2> QED BY <1>3, <2>1, <2>2
<1>9. CASE StopBuildStep(p)
  <2> DEFINE s == proc[p]
             empty == s.pos = s.segStart /\ s.firstWrite
             r(b) == LoadLastBuildStep(s, file, b)
             listed == [s EXCEPT !.pc = "list"]
             loaded(b) == [r(b).s EXCEPT !.step = FALSE, !.runtime = @ \/ r(b).ok]
             none == [NotLoaded(s) EXCEPT !.step = FALSE, !.fails = @ + 1]
  <2>1. s.pc = "up" /\ s.step /\ s.building /\ file' = file
    BY <1>9 DEF StopBuildStep
  <2>2. \/ ~empty /\ proc' = [proc EXCEPT ![p] = listed]
        \/ empty /\ \E b \in BOOLEAN : proc' = [proc EXCEPT ![p] = loaded(b)]
        \/ s.handles = << >> /\ proc' = [proc EXCEPT ![p] = none]
    BY <1>2, <1>9 DEF StopBuildStep, Process
  <2>3. ~empty => Resolves(listed, file)
    BY <1>2, <2>1, StopBuildStepResolves
  <2>4. ASSUME NEW b \in BOOLEAN PROVE empty => Resolves(loaded(b), file)
    BY <1>2, <2>1, StopBuildStepResolves
  <2>5. s.handles = << >> => Resolves(none, file)
    <3>1. /\ none.keys = << >> /\ none.handles = << >> /\ none.addr = s.addr
          /\ none.misses = s.misses /\ none.minOffset = s.minOffset
      BY <1>2 DEF NotLoaded, Process
    <3> HIDE DEF none
    <3> QED BY <1>2, <2>1, <3>1, NotLoadedResolves
  <2> HIDE DEF listed, loaded, none, empty
  <2> QED BY <1>3, <2>1, <2>2, <2>3, <2>4, <2>5
<1>10. CASE WriteList(p)
  <2> DEFINE s == proc[p]
             cells == ListCells(s.schema)
             t == [s EXCEPT !.pc = "header", !.pos = Align(s.pos) + Len(cells),
                            !.segSize = Align(s.pos) + Len(cells) - s.segStart]
  <2>1. /\ proc' = [proc EXCEPT ![p] = t] /\ s.pc = "list"
        /\ file' = WriteAt(file, Align(s.pos), cells)
    BY <1>10 DEF WriteList
  <2>2. Resolves(t, file')
    BY <1>2, <2>1, WriteListResolves
  <2> HIDE DEF t
  <2> QED BY <1>3, <2>1, <2>2
<1>11. CASE WriteListFails(p)
  <2> DEFINE s == proc[p]
             cells == ListCells(s.schema)
  <2>1. s.pc = "list" /\ s.schema \in Seq(Entry)
    BY <1>2, <1>11, ProcessFields DEF WriteListFails
  <2>2. PICK n \in 0..(Len(cells) - 1) :
          /\ file' = WriteAt(file, Align(s.pos), SubSeq(cells, 1, n))
          /\ proc' = [proc EXCEPT ![p] =
                        [s EXCEPT !.pc = "up", !.step = FALSE, !.pos = Align(s.pos) + n,
                                  !.fails = @ + 1]]
    BY <1>11 DEF WriteListFails
  <2>3. cells \in Seq(Cell)
    BY <2>1, WrittenCells
  <2> DEFINE c == SubSeq(cells, 1, n)
             t == [s EXCEPT !.pc = "up", !.step = FALSE, !.pos = Align(s.pos) + Len(c),
                            !.fails = @ + 1]
  <2>4. c \in Seq(Cell) /\ Len(c) = n
    <3> HIDE DEF cells
    <3>1. Len(cells) \in Nat /\ n \in Nat /\ n <= Len(cells)
      BY <2>3, LenProperties
    <3> QED BY <2>3, <3>1
  <2>5. Resolves(t, file')
    <3> HIDE DEF c
    <3>1. file' = WriteAt(file, Align(s.pos), c)
      BY <2>2 DEF c
    <3> QED BY <1>2, <2>1, <2>4, <3>1, WriteListFailsResolves
  <2>6. proc' = [proc EXCEPT ![p] = t]
    <3> HIDE DEF c
    <3> QED BY <2>2, <2>4
  <2> HIDE DEF t
  <2> QED BY <1>3, <2>5, <2>6
<1>12. CASE WriteHeader(p)
  <2> DEFINE s == proc[p]
             size == Len(ListCells(s.schema))
             w == [s EXCEPT !.pc = "up", !.step = FALSE, !.pos = kHeaderSize,
                            !.firstWrite = TRUE, !.building = FALSE]
             r(b) == LoadLastBuildStep(w, file', b)
             t(b) == IF s.step THEN [r(b).s EXCEPT !.runtime = @ \/ r(b).ok] ELSE w
  <2>1. /\ s.pc = "header"
        /\ file' = WriteAt(file, 0, <<Header(kVersion, s.pos - size, size, FALSE)>>)
        /\ \E b \in BOOLEAN : proc' = [proc EXCEPT ![p] = t(b)]
    BY <1>12 DEF WriteHeader
  <2>2. PICK b \in BOOLEAN : proc' = [proc EXCEPT ![p] = t(b)]
    BY <2>1
  <2>3. Sound(t(b), file') => Resolves(t(b), file')
    BY <1>2, <2>1, WriteHeaderResolves
  <2> HIDE DEF t
  <2> QED BY <1>3, <1>4, <2>2, <2>3
<1>13. ASSUME NEW k \in Keys, InsertInFile(p, k) PROVE RInv'
  <2> DEFINE s == proc[p]
             at == Align(s.pos)
             t == [s EXCEPT !.pos = at + Size[k],
                            !.schema = Append(@, [key |-> k, off |-> at - kBaseOffset]),
                            !.keys = Insert(@, [j \in {k} |-> at - kBaseOffset])]
  <2>1. /\ s.pc = "up" /\ s.building /\ s.started /\ k \notin DOMAIN s.keys
        /\ file' = WriteAt(file, at, DataCells(k)) /\ proc' = [proc EXCEPT ![p] = t]
    BY <1>13 DEF InsertInFile, Packs
  <2>2. Sound(t, file')
    BY <1>4, <2>1
  <2>3. Resolves(t, file')
    <3>1. PICK o : o = at - kBaseOffset
      OBVIOUS
    <3>2. t = [s EXCEPT !.pos = at + Size[k],
                        !.schema = Append(@, [key |-> k, off |-> o]),
                        !.keys = Insert(@, Pair(k, o))]
      BY <3>1 DEF Pair
    <3> HIDE DEF t
    <3> QED BY <1>2, <2>1, <2>2, <3>1, <3>2, InsertInFileResolves
  <2> HIDE DEF t
  <2> QED BY <1>3, <2>1, <2>3
<1>14. ASSUME NEW k \in Keys, InsertMiss(p, k) PROVE RInv'
  <2> DEFINE s == proc[p]
             reserved == Reserve(s)
             n == Len(reserved)
             off == reserved[n].off
             t == [s EXCEPT !.misses = [reserved EXCEPT ![n].key = <<k>>],
                            !.keys = Insert(@, [j \in {k} |-> off]),
                            !.addr = Insert(@, [o \in {off} |->
                                                  [in |-> "heap", handle |-> 0, cell |-> n]])]
  <2>1. /\ s.pc = "up" /\ ~s.building /\ file' = file /\ n <= MaxMisses
        /\ s.step \/ s.runtime \/ ~s.started
        /\ k \notin DOMAIN s.keys
    BY <1>14 DEF InsertMiss, Packs, FewMisses
  <2>2. proc' = [proc EXCEPT ![p] = t]
    BY <1>14, <2>1 DEF InsertMiss
  <2>3. t = [s EXCEPT !.misses = [reserved EXCEPT ![n].key = <<k>>],
                      !.keys = Insert(@, Pair(k, off)),
                      !.addr = Insert(@, Pair(off, Heap(n)))]
    BY DEF Pair, Heap
  <2> HIDE DEF t
  <2>4. Resolves(t, file)
    BY <1>2, <2>1, <2>3, InsertMissResolves
  <2> QED BY <1>3, <2>1, <2>2, <2>4
<1>15. CASE StopBuild(p)
  <2> DEFINE s == proc[p]
             t == [s EXCEPT !.started = FALSE, !.firstWrite = FALSE, !.pos = 0,
                            !.segStart = 0, !.segSize = 0, !.schema = << >>]
  <2>1. s.pc = "up" /\ s.started /\ ~s.step /\ file' = file
    BY <1>15 DEF StopBuild
  <2>2. proc' = [proc EXCEPT ![p] = t]
    BY <1>2, <1>15 DEF StopBuild, Process
  <2>3. Resolves(t, file)
    BY <1>2, <2>1, StopBuildResolves
  <2> HIDE DEF t
  <2> QED BY <1>3, <2>1, <2>2, <2>3
<1>16. CASE Destroy(p)
  BY <1>5, <1>16 DEF Destroy
<1>17. CASE Crash(p)
  BY <1>5, <1>17 DEF Crash
<1>18. CASE CrashInWrite(p)
  BY <1>5, <1>18 DEF CrashInWrite
<1>19. CASE MappingFails(p, TRUE)
  <2> DEFINE s == proc[p]
             size == Len(ListCells(s.schema))
             g == WriteAt(file, 0, <<Header(kVersion, s.pos - size, size, FALSE)>>)
             w == [s EXCEPT !.pc = "up", !.step = FALSE, !.pos = kHeaderSize,
                            !.firstWrite = TRUE, !.building = FALSE, !.fails = @ + 1]
             t == NotLoaded(w)
  <2>1. s.pc = "header" /\ s.handles = << >> /\ file' = g /\ proc' = [proc EXCEPT ![p] = t]
    BY <1>19 DEF MappingFails
  <2>2. Resolves(t, g)
    <3>1. /\ t.keys = << >> /\ t.handles = << >> /\ t.addr = s.addr
          /\ t.misses = s.misses /\ t.minOffset = s.minOffset
      BY <1>2 DEF NotLoaded, Process
    <3>2. s.started
      BY <1>2, <2>1 DEF Control
    <3> HIDE DEF t, g
    <3> QED BY <1>2, <2>1, <3>1, <3>2, NotLoadedResolves
  <2> HIDE DEF t, g
  <2> QED BY <1>3, <2>1, <2>2
<1> QED BY <1>6, <1>7, <1>8, <1>9, <1>10, <1>11, <1>12, <1>13, <1>14, <1>15, <1>16,
           <1>17, <1>18, <1>19 DEF Step

\* What LookUp finds and OffsetToAddr resolves is the packed buffer of the
\* weight, after any crash, in the middle of a build step and after misses,
\* until a failure leads astray.
THEOREM LookUpsAreSound ==
  ASSUME OneProcess, FewMisses
  PROVE  Spec => []LookUpSound
<1> DEFINE R == ~astray => RInv
<1>1. Init => R
  BY InitRInv
<1>2. ASSUME UntilAstray, R, [Next]_vars PROVE R'
  <2>1. CASE UNCHANGED vars
    <3>1. proc' = proc /\ file' = file /\ astray' = astray
      BY <2>1 DEF vars
    <3>2. ~astray => \A q \in Procs : Resolves(proc'[q], file')
      BY <1>2, <3>1 DEF RInv
    <3> QED BY <3>1, <3>2 DEF RInv
  <2>2. ASSUME NEW p \in Procs, ~astray, Step(p) PROVE RInv'
    BY <1>2, <2>2, StepRInv DEF UntilAstray
  <2> QED BY <1>2, <2>1, <2>2 DEF Next
<1>3. ASSUME UntilAstray, R PROVE LookUpSound
  <2> SUFFICES ASSUME ~astray, NEW p \in Procs, NEW k \in DOMAIN proc[p].keys,
                      proc[p].keys[k] \in DOMAIN proc[p].addr
               PROVE  Shows(proc[p], proc[p].addr[proc[p].keys[k]], k)
    BY DEF LookUpSound, WeightsShown
  <2>1. proc[p] \in Process /\ Resolves(proc[p], file)
    BY <1>3 DEF UntilAstray, IInv, RInv
  <2> QED BY <2>1, ResolvesShows
<1> QED BY <1>1, <1>2, <1>3, Invariant, PTL DEF Spec

=============================================================================
