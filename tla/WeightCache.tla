----------------------------- MODULE WeightCache -----------------------------
(***************************************************************************)
(* tflite/delegates/xnnpack/weight_cache.cc: packed weights in a file that *)
(* one process builds step by step and that later processes map. Each      *)
(* process has one MMapWeightCacheProvider, used the way the delegate uses *)
(* it: LoadOrStartBuild when it is created, then the creation of each      *)
(* runtime between StartBuildStep and StopBuildStep.                       *)
(*                                                                         *)
(* The file is a sequence of cells; position i of the code is file[i + 1]. *)
(* A cell is <<"header", version, offset, size, stale>> (the header is one *)
(* cell, written at once), <<"data", key, i>> (the i-th cell of the packed *)
(* buffer of key), <<"list", entries, i>> (the i-th cell of the flatbuffer *)
(* that lists entries) or a hole left by seeking past the end. A process   *)
(* can die between any two writes and inside a write of several cells; the *)
(* system goes on, so what was written stays in the file.                  *)
(*                                                                         *)
(* Every call that truncates, reads, writes or maps can fail; only seeks   *)
(* to a position inside of the file cannot. After some of the failures the *)
(* code goes on with a builder whose cursor is at the start of what it     *)
(* wrote, or that has no base_offset, or with a provider that lacks the    *)
(* mapping of a step. Such a failure sets astray, is the last step that is *)
(* followed, and nothing is claimed after it (README, "Astray").           *)
(*                                                                         *)
(* The state of process p is the record proc[p]:                           *)
(*   pc        "down", "up", or the next write of a call under way:        *)
(*             "start", "list", "header"                                   *)
(*   step      the delegate is between StartBuildStep and StopBuildStep    *)
(*   runtime   a runtime exists, so weights may come outside of a step     *)
(*   fd        file_descriptor_ is valid                                   *)
(*   started, building, firstWrite, pos, segStart, segSize, schema         *)
(*             builder_: fd_ is valid, is_build_step_, first_write_done_,  *)
(*             the position of fd_, build_segment_start_ and _size_,       *)
(*             schema_                                                     *)
(*   keys      cache_key_to_offset_                                        *)
(*   addr      offset_to_addr_: a cell of a mapping, or a miss buffer      *)
(*   handles   mmap_handles_: [off, size]                                  *)
(*   minOffset, misses   cache_miss_handler_: min_offset_ and buffers_     *)
(*   fails     counts the failed calls, for the bound                      *)
(***************************************************************************)
EXTENDS Integers, Sequences, SequencesExt

CONSTANTS
  Procs,
  Keys,            \* pack identifiers
  Size,            \* cells of the packed buffer of each key
  kMinAlignment,
  LooksUpFirst,    \* XNNPACK reserves space only for a key LookUp does not find
  MaxMisses,       \* bound: buffers of one CacheMissHandler
  MaxFails         \* bound: failed calls of one process

ASSUME SizeAssumption == Size \in [Keys -> Nat \ {0}]
ASSUME AlignmentAssumption == kMinAlignment \in Nat \ {0}
ASSUME LooksUpFirstAssumption == LooksUpFirst \in BOOLEAN
ASSUME BoundsAssumption == MaxMisses \in Nat /\ MaxFails \in Nat

VARIABLES
  file,   \* the cells of the cache file; empty when it does not exist
  proc,   \* what each process holds
  astray  \* history: whether a failure has left a builder or provider astray

vars == <<file, proc, astray>>

-----------------------------------------------------------------------------
(* Files.                                                                  *)

kInvalidHeader == 0
kVersion == 4
kHeaderSize == 1

Hole == <<"hole">>
Header(version, offset, size, stale) == <<"header", version, offset, size, stale>>
Version(h) == h[2]
ListOffset(h) == h[3]
ListSize(h) == h[4]
Stale(h) == h[5]

HasHeader(f) == Len(f) >= kHeaderSize /\ f[1][1] = "header"

Align(offset) ==
  LET misalign == offset % kMinAlignment
  IN  offset + (IF misalign = 0 THEN 0 ELSE kMinAlignment - misalign)

\* base_offset of the list: buffer offsets are counted from here.
kBaseOffset == Align(kHeaderSize)

\* FileDescriptorView::Write at a position: a gap before it becomes holes.
WriteAt(f, pos, cells) ==
  LET end == pos + Len(cells)
  IN  IF cells = << >> THEN f
      ELSE [i \in 1..(IF end > Len(f) THEN end ELSE Len(f)) |->
              IF i \in (pos + 1)..end THEN cells[i - pos]
              ELSE IF i <= Len(f) THEN f[i] ELSE Hole]

DataCells(k) == [i \in 1..Size[k] |-> <<"data", k, i>>]

\* The flatbuffer grows with the number of its entries.
ListCells(entries) == [i \in 1..(Len(entries) + 1) |-> <<"list", entries, i>>]

\* VerifyBufferListBuffer: what is there is one list, whole.
VerifyBufferList(f, offset, size) ==
  /\ size > 0
  /\ offset + size <= Len(f)
  /\ f[offset + 1][1] = "list"
  /\ SubSeq(f, offset + 1, offset + size) = ListCells(f[offset + 1][2])

HoldsData(f, offset, k) ==
  /\ kBaseOffset + offset + Size[k] <= Len(f)
  /\ \A i \in 1..Size[k] : f[kBaseOffset + offset + i] = DataCells(k)[i]

-----------------------------------------------------------------------------
(* Loading.                                                                *)

\* Load up to the fingerprints: the tests on the header and on the list.
LoadChecks(f) ==
  /\ HasHeader(f)
  /\ Version(f[1]) = kVersion
  /\ ~Stale(f[1])
  /\ ListOffset(f[1]) < Len(f)
  /\ ListSize(f[1]) = Len(f) - ListOffset(f[1])
  /\ VerifyBufferList(f, ListOffset(f[1]), ListSize(f[1]))

LoadedList(f) == f[ListOffset(f[1]) + 1][2]

\* The tests of Load's loop over the buffers.
BufferInMapping(f, entry) ==
  /\ Len(f) - kBaseOffset >= entry.off
  /\ Len(f) - kBaseOffset - entry.off > Size[entry.key]

\* emplace keeps the first of the entries of a key.
KeysOf(entries) ==
  [k \in {e.key : e \in ToSet(entries)} |->
     entries[Min({i \in DOMAIN entries : entries[i].key = k})].off]

MappedIn(handle, entries) ==
  [o \in {e.off : e \in ToSet(entries)} |->
     [in |-> "map", handle |-> handle, cell |-> kBaseOffset + o]]

OffsetsOf(entries) == {e.off : e \in ToSet(entries)}

\* insert and emplace of std::map: a key that is there keeps its value.
Insert(map, pairs) ==
  [x \in DOMAIN map \cup DOMAIN pairs |->
     IF x \in DOMAIN map THEN map[x] ELSE pairs[x]]

\* MMapWeightCacheProvider::Load when it returns before the loop.
NotLoaded(s) == [s EXCEPT !.keys = << >>, !.handles = << >>]

\* MMapWeightCacheProvider::Load. The map of offsets keeps what it had.
Load(s, f) ==
  LET list == LoadedList(f)
      bad == SelectInSeq(list, LAMBDA e : ~BufferInMapping(f, e))
      good == IF bad = 0 THEN list ELSE SubSeq(list, 1, bad - 1)
      ok == LoadChecks(f) /\ bad = 0
  IN  [ok |-> ok,
       s |-> IF ~LoadChecks(f) THEN NotLoaded(s)
             ELSE [s EXCEPT
                     !.keys = KeysOf(good),
                     !.addr = Insert(@, MappedIn(1, good)),
                     !.handles = IF ok THEN <<[off |-> 0, size |-> Len(f)]>> ELSE << >>,
                     !.minOffset = IF ok THEN 1 + Max({0} \cup OffsetsOf(list)) ELSE @]]

LoadLastBuildStepNotMapped(s, f, resized) ==   \* mutant: a resized mapping adds no address
  IF s.handles = << >> THEN Load(s, f)
  ELSE [ok |-> TRUE,
        s |-> IF resized THEN s
              ELSE [s EXCEPT
                      !.handles = Append(@, [off |-> s.segStart,
                                             size |-> Len(f) - s.segStart]),
                      !.addr = Insert(@, MappedIn(Len(s.handles) + 1,
                                                 LoadedList(f)))]]

\* LoadLastBuildStep: resized is whether mremap found room to grow in place.
LoadLastBuildStep(s, f, resized) ==
  LET last == Len(s.handles)
      grown == IF resized
               THEN [s.handles EXCEPT ![last].size = @ + s.segSize]
               ELSE Append(s.handles, [off |-> s.segStart, size |-> Len(f) - s.segStart])
  IN  IF s.handles = << >> THEN Load(s, f)
      ELSE IF s.segSize = 0 THEN [ok |-> TRUE, s |-> s]
      ELSE IF ~HasHeader(f) \/ ~VerifyBufferList(f, ListOffset(f[1]), ListSize(f[1]))
           THEN [ok |-> FALSE, s |-> [s EXCEPT !.handles = grown]]
      ELSE [ok |-> TRUE,
            s |-> [s EXCEPT !.handles = grown,
                            !.addr = Insert(@, MappedIn(Len(grown), LoadedList(f)))]]

-----------------------------------------------------------------------------
(* Processes.                                                              *)

Down ==
  [pc |-> "down", step |-> FALSE, runtime |-> FALSE, fd |-> FALSE,
   started |-> FALSE, building |-> FALSE, firstWrite |-> FALSE,
   pos |-> 0, segStart |-> 0, segSize |-> 0, schema |-> << >>,
   keys |-> << >>, addr |-> << >>, handles |-> << >>,
   minOffset |-> 0, misses |-> << >>, fails |-> 0]

Init ==
  /\ file = << >>
  /\ proc = [p \in Procs |-> Down]
  /\ astray = FALSE

\* LoadOrStartBuild on the path, or on an open descriptor of the file, up to
\* the truncation when nothing can be loaded: the file is empty, cannot be
\* mapped or is not accepted.
LoadOrStartBuild(p) ==
  /\ proc[p].pc = "down"
  /\ \E byFd \in BOOLEAN, fails \in 0..(IF MaxFails = 0 THEN 0 ELSE 1) :
       LET fresh == [Down EXCEPT !.pc = "up", !.fd = byFd, !.fails = fails]
           loaded == Load(fresh, file)
           mapped == file # << >> /\ fails = 0
       IN  IF mapped /\ loaded.ok
           THEN /\ proc' = [proc EXCEPT ![p] = loaded.s]
                /\ UNCHANGED file
           ELSE /\ proc' = [proc EXCEPT ![p] =
                     [(IF mapped THEN loaded.s ELSE fresh) EXCEPT
                        !.pc = "start", !.fd = TRUE, !.started = TRUE]]
                /\ file' = << >>

StartBuildStepOverwrites(s, f) ==   \* mutant: the cursor goes to the first buffer
  [s EXCEPT !.building = TRUE, !.pos = kBaseOffset, !.segStart = kBaseOffset,
            !.segSize = 0,
            !.schema = IF ListSize(f[1]) = 0 THEN @ ELSE LoadedList(f)]

\* WeightCacheBuilder::StartBuildStep once the header and the list are read:
\* new data goes over the list, which the header still names.
BeginSegment(s, f) ==
  [s EXCEPT !.building = TRUE,
            !.pos = ListOffset(f[1]),
            !.segStart = ListOffset(f[1]),
            !.segSize = 0,
            !.schema = IF ListSize(f[1]) = 0 THEN @ ELSE LoadedList(f)]

\* Start writes a header without a version and begins its own build step.
WriteInitialHeader(p) ==
  /\ proc[p].pc = "start"
  /\ file' = WriteAt(file, 0, <<Header(kInvalidHeader, kHeaderSize, 0, FALSE)>>)
  /\ proc' = [proc EXCEPT ![p] = [BeginSegment(@, file') EXCEPT !.pc = "list"]]

\* Start cannot truncate the file or write its header: the builder keeps fd_, so
\* the delegate uses it, without a base_offset (astray).
StartFails(p) ==
  /\ proc[p].pc = "start" /\ proc[p].fails < MaxFails
  /\ proc' = [proc EXCEPT ![p].pc = "up", ![p].fails = @ + 1]
  /\ UNCHANGED file

Readable ==
  /\ HasHeader(file)
  /\ ListSize(file[1]) > 0 =>
       VerifyBufferList(file, ListOffset(file[1]), ListSize(file[1]))

\* The provider's StartBuildStep: within a step it does nothing.
StartBuildStep(p) ==
  LET s == proc[p]
  IN  /\ s.pc = "up" /\ s.started /\ ~s.step
      /\ s.building \/ Readable
      /\ proc' = [proc EXCEPT ![p] = [(IF s.building THEN s ELSE BeginSegment(s, file))
                                      EXCEPT !.step = TRUE]]
      /\ UNCHANGED file

\* StartBuildStep cannot read back the header or the list: there is no step, but
\* is_build_step_ is set and the cursor is before or behind the header (astray).
ReadBackFails(p) ==
  LET s == proc[p]
  IN  /\ s.pc = "up" /\ s.started /\ ~s.step /\ ~s.building
      /\ Readable => s.fails < MaxFails
      /\ \E pos \in {0, kHeaderSize} :
           proc' = [proc EXCEPT ![p] = [s EXCEPT !.building = TRUE, !.pos = pos,
                                                !.fails = IF Readable THEN @ + 1 ELSE @]]
      /\ UNCHANGED file

\* The provider's StopBuildStep up to the list, or all of it when nothing was
\* written since StartBuildStep: is_build_step_ stays set. A provider that has
\* no mapping then loads the file, which can fail to be mapped.
StopBuildStep(p) ==
  LET s == proc[p]
      empty == s.pos = s.segStart /\ s.firstWrite
  IN  /\ s.pc = "up" /\ s.step /\ s.building
      /\ \/ /\ ~empty
            /\ proc' = [proc EXCEPT ![p].pc = "list"]
         \/ /\ empty
            /\ \E resized \in BOOLEAN :
                 LET r == LoadLastBuildStep(s, file, resized)
                 IN  proc' = [proc EXCEPT ![p] =
                                [r.s EXCEPT !.step = FALSE, !.runtime = @ \/ r.ok]]
         \/ /\ empty /\ s.handles = << >> /\ s.fails < MaxFails
            /\ proc' = [proc EXCEPT ![p] =
                          [NotLoaded(s) EXCEPT !.step = FALSE, !.fails = @ + 1]]
      /\ UNCHANGED file

WriteListSizeAfterSeek(p) ==   \* mutant: the segment is measured after the seek to the header
  LET s == proc[p]
      cells == ListCells(s.schema)
  IN  /\ s.pc = "list"
      /\ file' = WriteAt(file, Align(s.pos), cells)
      /\ proc' = [proc EXCEPT ![p] =
                    [s EXCEPT !.pc = "header", !.pos = Align(s.pos) + Len(cells),
                              !.segSize = 0 - s.segStart]]

\* StopBuildStep writes the list behind the data.
WriteList(p) ==
  LET s == proc[p]
      cells == ListCells(s.schema)
  IN  /\ s.pc = "list"
      /\ file' = WriteAt(file, Align(s.pos), cells)
      /\ proc' = [proc EXCEPT ![p] =
                    [s EXCEPT !.pc = "header",
                              !.pos = Align(s.pos) + Len(cells),
                              !.segSize = Align(s.pos) + Len(cells) - s.segStart]]

\* The write of the list fails after some cells. A step ends without a runtime
\* and Start ends with an active builder; both leave is_build_step_ set.
WriteListFails(p) ==
  LET s == proc[p]
      cells == ListCells(s.schema)
  IN  /\ s.pc = "list" /\ s.fails < MaxFails
      /\ \E n \in 0..(Len(cells) - 1) :
           /\ file' = WriteAt(file, Align(s.pos), SubSeq(cells, 1, n))
           /\ proc' = [proc EXCEPT ![p] =
                         [s EXCEPT !.pc = "up", !.step = FALSE, !.pos = Align(s.pos) + n,
                                   !.fails = @ + 1]]

WriteHeaderAtSegment(p) ==   \* mutant: the header names the start of the segment
  LET s == proc[p]
      written == [s EXCEPT !.pc = "up", !.step = FALSE, !.pos = kHeaderSize,
                           !.firstWrite = TRUE, !.building = FALSE]
  IN  /\ s.pc = "header"
      /\ file' = WriteAt(file, 0, <<Header(kVersion, s.segStart, s.segSize, FALSE)>>)
      /\ \E resized \in BOOLEAN :
           LET r == LoadLastBuildStep(written, file', resized)
           IN  proc' = [proc EXCEPT ![p] = IF s.step THEN [r.s EXCEPT !.runtime = @ \/ r.ok]
                                           ELSE written]

\* StopBuildStep writes the header last; the provider then maps what is new.
WriteHeader(p) ==
  LET s == proc[p]
      size == Len(ListCells(s.schema))
      written == [s EXCEPT !.pc = "up", !.step = FALSE, !.pos = kHeaderSize,
                           !.firstWrite = TRUE, !.building = FALSE]
  IN  /\ s.pc = "header"
      /\ file' = WriteAt(file, 0, <<Header(kVersion, s.pos - size, size, FALSE)>>)
      /\ \E resized \in BOOLEAN :
           LET r == LoadLastBuildStep(written, file', resized)
           IN  proc' = [proc EXCEPT ![p] = IF s.step THEN [r.s EXCEPT !.runtime = @ \/ r.ok]
                                           ELSE written]

\* The header cannot be written: is_build_step_ stays set, with the cursor at
\* the start of the file (astray).
WriteHeaderFails(p) ==
  LET s == proc[p]
  IN  /\ s.pc = "header" /\ s.fails < MaxFails
      /\ proc' = [proc EXCEPT ![p] = [s EXCEPT !.pc = "up", !.step = FALSE, !.pos = 0,
                                              !.fails = @ + 1]]
      /\ UNCHANGED file

\* The header is written and the step cannot be mapped. If it is the first one
\* Load gives up; a later one leaves an empty mapping, and the weights of the
\* step without an address (astray).
MappingFails(p, first) ==
  LET s == proc[p]
      size == Len(ListCells(s.schema))
      written == [s EXCEPT !.pc = "up", !.step = FALSE, !.pos = kHeaderSize,
                           !.firstWrite = TRUE, !.building = FALSE, !.fails = @ + 1]
  IN  /\ s.pc = "header" /\ s.step /\ s.fails < MaxFails
      /\ first <=> s.handles = << >>
      /\ file' = WriteAt(file, 0, <<Header(kVersion, s.pos - size, size, FALSE)>>)
      /\ proc' = [proc EXCEPT ![p] =
                    IF first THEN NotLoaded(written)
                    ELSE [written EXCEPT !.handles = Append(@, [off |-> 0, size |-> 0])]]

\* XNNPACK packs a weight only while it creates a runtime or has one.
Packs(p, k) ==
  /\ proc[p].pc = "up"
  /\ proc[p].step \/ proc[p].runtime \/ ~proc[p].started
  /\ LooksUpFirst => k \notin DOMAIN proc[p].keys

InsertInFileUnaligned(p, k) ==   \* mutant: the cursor is not moved to the aligned offset
  LET s == proc[p]
      at == Align(s.pos)
  IN  /\ Packs(p, k) /\ s.building /\ s.started /\ k \notin DOMAIN s.keys
      /\ file' = WriteAt(file, s.pos, DataCells(k))
      /\ proc' = [proc EXCEPT ![p] =
                    [s EXCEPT !.pos = @ + Size[k],
                              !.schema = Append(@, [key |-> k, off |-> at - kBaseOffset]),
                              !.keys = Insert(@, [j \in {k} |-> at - kBaseOffset])]]

\* ReserveSpace and LookUpOrInsert while is_build_step_ is set.
InsertInFile(p, k) ==
  LET s == proc[p]
      at == Align(s.pos)
  IN  /\ Packs(p, k) /\ s.building /\ s.started /\ k \notin DOMAIN s.keys
      /\ file' = WriteAt(file, at, DataCells(k))
      /\ proc' = [proc EXCEPT ![p] =
                    [s EXCEPT !.pos = at + Size[k],
                              !.schema = Append(@, [key |-> k, off |-> at - kBaseOffset]),
                              !.keys = Insert(@, [j \in {k} |-> at - kBaseOffset])]]

\* CacheMissHandler::Reserve: a buffer that was not used is replaced.
Reserve(s) ==
  LET buffer == [off |-> s.minOffset + Len(s.misses), key |-> << >>]
  IN  IF s.misses # << >> /\ Last(s.misses).key = << >>
      THEN [s.misses EXCEPT ![Len(s.misses)] = buffer]
      ELSE Append(s.misses, buffer)

\* ReserveSpace and LookUpOrInsert while it is not: a cache miss, or a buffer
\* that stays unused because the key is known.
InsertMiss(p, k) ==
  LET s == proc[p]
      reserved == Reserve(s)
      n == Len(reserved)
      off == reserved[n].off
  IN  /\ Packs(p, k) /\ ~s.building
      /\ n <= MaxMisses
      /\ proc' = [proc EXCEPT ![p] =
                    IF k \in DOMAIN s.keys THEN [s EXCEPT !.misses = reserved]
                    ELSE [s EXCEPT
                            !.misses = [reserved EXCEPT ![n].key = <<k>>],
                            !.keys = Insert(@, [j \in {k} |-> off]),
                            !.addr = Insert(@, [o \in {off} |->
                                                  [in |-> "heap", handle |-> 0, cell |-> n]])]]
      /\ UNCHANGED file

\* The application tells the provider that all is built (StopBuild). The
\* assignment of a new builder does not assign is_build_step_.
StopBuild(p) ==
  /\ proc[p].pc = "up" /\ proc[p].started /\ ~proc[p].step
  /\ proc' = [proc EXCEPT ![p].started = FALSE, ![p].firstWrite = FALSE, ![p].pos = 0,
                          ![p].segStart = 0, ![p].segSize = 0, ![p].schema = << >>]
  /\ UNCHANGED file

HasCacheMisses(s) == \E i \in DOMAIN s.misses : s.misses[i].key # << >>

\* The provider is destroyed: WriteCacheMissFlag marks the file as stale.
Destroy(p) ==
  LET s == proc[p]
      h == file[1]
      marked == Header(Version(h), ListOffset(h), ListSize(h), TRUE)
  IN  /\ s.pc = "up" /\ ~s.step
      /\ file' = IF HasCacheMisses(s) /\ s.fd /\ HasHeader(file)
                 THEN WriteAt(file, 0, <<marked>>) ELSE file
      /\ proc' = [proc EXCEPT ![p] = Down]

\* The process dies: killed, or by an abort because a buffer could not be
\* written or because is_build_step_ is set in a builder without a file.
Crash(p) ==
  /\ proc[p].pc # "down"
  /\ proc' = [proc EXCEPT ![p] = Down]
  /\ UNCHANGED file

\* The process dies inside a write of several cells.
CrashInWrite(p) ==
  LET s == proc[p]
      cells == IF s.pc = "list" THEN {ListCells(s.schema)}
               ELSE {DataCells(k) : k \in {j \in Keys : /\ Packs(p, j) /\ s.building
                                                       /\ s.started
                                                       /\ j \notin DOMAIN s.keys}}
  IN  /\ s.pc \in {"list", "up"}
      /\ \E c \in cells : \E n \in 1..(Len(c) - 1) :
           file' = WriteAt(file, Align(s.pos), SubSeq(c, 1, n))
      /\ proc' = [proc EXCEPT ![p] = Down]

Step(p) ==
  \/ LoadOrStartBuild(p)
  \/ WriteInitialHeader(p)
  \/ StartBuildStep(p)
  \/ StopBuildStep(p)
  \/ WriteList(p)
  \/ WriteListFails(p)
  \/ WriteHeader(p)
  \/ MappingFails(p, TRUE)
  \/ \E k \in Keys : InsertInFile(p, k) \/ InsertMiss(p, k)
  \/ StopBuild(p)
  \/ Destroy(p)
  \/ Crash(p)
  \/ CrashInWrite(p)

GoesAstray(p) ==
  \/ StartFails(p)
  \/ ReadBackFails(p)
  \/ WriteHeaderFails(p)
  \/ MappingFails(p, FALSE)

Next ==
  \/ \E p \in Procs : ~astray /\ Step(p) /\ UNCHANGED astray
  \/ \E p \in Procs : ~astray /\ GoesAstray(p) /\ astray' = TRUE
  \/ astray /\ UNCHANGED vars

Spec == Init /\ [][Next]_vars

-----------------------------------------------------------------------------
(* Properties.                                                             *)

\* The variables hold what the fields of the classes can hold; no position or
\* size wraps and no mapping is empty, as long as no failure led astray.
TypeOK ==
  /\ astray \in BOOLEAN
  /\ \A i \in DOMAIN file : file[i][1] \in {"header", "data", "list", "hole"}
  /\ ~astray =>
       \A p \in Procs :
         LET s == proc[p]
         IN  /\ s.pc \in {"down", "start", "list", "header", "up"}
             /\ s.pos \in Nat /\ s.segStart \in Nat /\ s.segSize \in Nat
             /\ s.minOffset \in Nat
             /\ DOMAIN s.keys \subseteq Keys
             /\ \A h \in ToSet(s.handles) : h.off \in Nat /\ h.size \in Nat \ {0}
             /\ \A o \in DOMAIN s.addr : s.addr[o].in \in {"map", "heap"}

\* What the address of an offset shows is the packed buffer of key k: the miss
\* buffer of k, or the cells of k inside of a mapping and of the file.
Shows(s, a, k) ==
  IF a.in = "heap" THEN s.misses[a.cell].key = <<k>>
  ELSE /\ a.handle \in DOMAIN s.handles
       /\ LET h == s.handles[a.handle]
          IN  h.off <= a.cell /\ a.cell + Size[k] <= h.off + h.size
       /\ HoldsData(file, a.cell - kBaseOffset, k)

WeightsShown ==
  \A p \in Procs : \A k \in DOMAIN proc[p].keys :
    LET s == proc[p]
    IN  s.keys[k] \in DOMAIN s.addr => Shows(s, s.addr[s.keys[k]], k)

\* A weight that LookUp finds and OffsetToAddr resolves is the packed buffer of
\* that weight, in a process that built the file, loaded it or missed it, in
\* the middle of a later build step, after any crash, a list that could not be
\* written or a file that could not be mapped at first. It is not once a failure
\* has led astray: Append then writes over what is mapped.
LookUpSound == ~astray => WeightsShown

\* Once no build step is open, OffsetToAddr aborts for no offset that LookUp
\* or LookUpOrInsert gave out. It does when a later step could not be mapped
\* (astray).
Addressable ==
  ~astray =>
    \A p \in Procs :
      LET s == proc[p]
      IN  s.pc = "up" /\ ~s.building => \A k \in DOMAIN s.keys : s.keys[k] \in DOMAIN s.addr

\* A file that Load accepts holds every buffer its list names, whole: neither a
\* crash nor a list that could not be written leaves a file that is taken for a
\* good one. A builder that is astray can write one: without base_offset, the
\* first buffer of a file that loads lies under its header.
LoadableIsSound ==
  ~astray /\ LoadChecks(file) =>
    \A e \in ToSet(LoadedList(file)) : BufferInMapping(file, e) /\ HoldsData(file, e.off, e.key)

\* Between two build steps the file can be loaded and holds every weight that
\* was packed in a step: dying there loses nothing, unless the builder went
\* astray.
CrashBetweenStepsKeepsAll ==
  ~astray =>
    \A p \in Procs :
      LET s == proc[p]
          missed == UNION {ToSet(b.key) : b \in ToSet(s.misses)}
      IN  s.pc = "up" /\ s.started /\ s.firstWrite /\ (s.building => s.pos = s.segStart)
            => /\ LoadChecks(file)
               /\ DOMAIN s.keys \subseteq missed \cup {e.key : e \in ToSet(LoadedList(file))}

\* weight_cache_test.cc:793, "InsertOutsideOfBuildStepIsReachable...": a weight
\* that a runtime packs outside of a build step has an address.
ReachableOutsideOfBuildStep ==
  \A p \in Procs :
    LET s == proc[p]
    IN  s.pc = "up" /\ ~s.step => \A k \in DOMAIN s.keys : s.keys[k] \in DOMAIN s.addr

\* README.md:178 of the delegate: "the file-backed cache can be shared between
\* processes [...] This is automatic, you don't need to do anything."
SharedBetweenProcesses == WeightsShown

=============================================================================
