------------------------ MODULE MiniBenchmark_proofs ------------------------
(***************************************************************************)
(* Proofs about the mini-benchmark for any number of applications, child   *)
(* processes, settings, starts and failures.                               *)
(***************************************************************************)
EXTENDS MiniBenchmark, Extrema, FiniteSetTheorems, SequenceTheorems

(***************************************************************************)
(* The inductive invariant: the properties say nothing of who holds a lock *)
(* or waits for whom, nor of what a thread has in mind but has not written *)
(* yet.                                                                    *)
(***************************************************************************)

Applications ==
  \A a \in Apps :
    /\ ~app[a].up => app[a].validator = "none"
    /\ ~app[a].triggered => app[a].pc = "none"
    /\ app[a].pc = "none" => app[a].todo = {}
    /\ app[a].triggered => app[a].validator = "ok"

\* The lock files: one thread has the parent's, one process the child's.
Locks ==
  /\ \A a, b \in Apps : HoldsParentLock(a) /\ HoldsParentLock(b) => a = b
  /\ \A c, d \in Children : HoldsChildLock(c) /\ HoldsChildLock(d) => c = d

\* A thread waits for one child, and that child has it as its parent and its
\* application as the reader of its output.
Parents ==
  /\ \A a \in Apps : HasChild(a) => app[a].child \in Children
  /\ \A a \in Apps, c \in Children : HasChild(a) /\ app[a].child = c <=> child[c].owner = a
  /\ \A c \in Children :
       /\ child[c].pc = "none" => child[c].owner = NoApp
       /\ child[c].owner # NoApp => child[c].stdout = child[c].owner

\* A child past the read of the storage.
Validating(c) == child[c].pc \in {"affinity", "validate", "hung", "end", "error"}

\* The request of child c is s, or it has lost it with its storage object.
Tests(c, s) ==
  \/ child[c].setting = s
  \/ child[c].setting = NoRequest /\ child[c].pc \in {"validate", "error"}

\* The START that a thread has written is the last one of the file until it
\* goes on, and what its child has read.
Requests ==
  ReadOk(log) =>
    /\ \A a \in Apps : app[a].pc = "run" \/ HasChild(a) => Request(log) = OneSetting(app[a].todo)
    /\ \A a \in Apps, c \in Children : Validating(c) /\ child[c].owner = a =>
         Tests(c, OneSetting(app[a].todo))

\* Every START of setting s in file f has a result after it.
Answered(f, s) ==
  \A i \in Starts(f, s) : \E j \in (i + 1)..Len(f) : IsResult(f[j]) /\ f[j].setting = s

SuccessAnswered ==
  ReadOk(log) =>
    \A a \in Apps, c \in Children :
      /\ child[c].owner = a /\ child[c].pc = "exited" /\ child[c].exit
      /\ child[c].setting # NoRequest
      => Answered(log, OneSetting(app[a].todo))

\* A thread in state t will write a START of s without another look at the
\* file.
Plans(t, s) ==
  /\ s \in t.todo
  /\ \/ t.pc \in {"lock", "start"}
     \/ /\ t.pc \in {"initError", "run", "pipe", "wait", "drain", "error"}
        /\ s # OneSetting(t.todo)

\* An application that read file f while it could be read will plan a START
\* of s from its contents, which no longer change.
Stale(t, f, s) ==
  ~ReadOk(f) /\ t.validator = "ok" /\ ~t.triggered /\ Missing(Contents(f), s)

MayStart(a, s) == Plans(app[a], s) \/ Stale(app[a], log, s)

MayStarters(s) == {a \in Apps : MayStart(a, s)}

Attempts ==
  \A s \in Settings :
    Cardinality(Starts(log, s)) + Cardinality(MayStarters(s))
      <= kMaxAttempts + Cardinality(Apps) - 1

\* Memo m is the best of some m.n successes of file f.
MemoOf(m, f) ==
  \E events \in SUBSET GetSuccessfulResults(f) :
    /\ Cardinality(events) = m.n
    /\ \E i \in events :
         IsMinLatency(f, events, i) /\ m.result = CreateAccelerationFromBenchmark(f[i])

Memoised ==
  /\ decision.some => MemoOf(decision, log)
  /\ \A a \in Apps : memo[a].some => MemoOf(memo[a], log)

IInv ==
  /\ TypeOK
  /\ Applications
  /\ Locks
  /\ Parents
  /\ Requests
  /\ SuccessAnswered
  /\ Attempts
  /\ Memoised

-----------------------------------------------------------------------------
(***************************************************************************)
(* Choices of a first or a last one.                                       *)
(***************************************************************************)

\* The thread's setting is one it has to do.
LEMMA OneSettingIsToDo ==
  ASSUME NEW todo \in SUBSET Settings, todo # {}
  PROVE  OneSetting(todo) \in todo
<1> DEFINE S == {i \in DOMAIN ForSettings : ForSettings[i] \in todo}
<1>1. DOMAIN ForSettings = 1..Len(ForSettings) /\ Len(ForSettings) \in Nat
  BY SettingsAssumption
<1>2. S # {} /\ S \in SUBSET Nat
  BY <1>1 DEF Settings, ToSet
<1>3. PICK i \in S : \A j \in S : i <= j
  <2> HIDE DEF S
  <2> QED BY <1>2, LeastExists
<1>4. \A j \in 1..(i - 1) : ForSettings[j] \notin todo
  <2> SUFFICES ASSUME NEW j \in 1..(i - 1), ForSettings[j] \in todo PROVE FALSE
    OBVIOUS
  <2>1. j \in S
    BY <1>1
  <2> QED BY <1>1, <1>3, <2>1
<1> QED BY <1>3, <1>4 DEF OneSetting

-----------------------------------------------------------------------------
(***************************************************************************)
(* The storage file.                                                       *)
(***************************************************************************)

\* How many records a Read of f keeps.
ContentsLen(f) ==
  IF ReadOk(f) THEN Len(f)
  ELSE IF f[FirstTorn(f)].torn = "accepted" THEN FirstTorn(f) ELSE FirstTorn(f) - 1

IsFirstTorn(f, i) == f[i].torn # "no" /\ \A j \in 1..(i - 1) : f[j].torn = "no"

\* A file that cannot be read has a first torn record, and only one.
LEMMA FirstTornExists ==
  ASSUME NEW f \in Seq(Events), ~ReadOk(f)
  PROVE  /\ FirstTorn(f) \in 1..Len(f) /\ IsFirstTorn(f, FirstTorn(f))
         /\ \A i \in 1..Len(f) : IsFirstTorn(f, i) => i = FirstTorn(f)
<1> DEFINE S == {i \in DOMAIN f : f[i].torn # "no"}
<1>1. DOMAIN f = 1..Len(f) /\ Len(f) \in Nat
  OBVIOUS
<1>2. S # {} /\ S \in SUBSET Nat
  BY <1>1 DEF ReadOk
<1>3. PICK i \in S : \A j \in S : i <= j
  <2> HIDE DEF S
  <2> QED BY <1>2, LeastExists
<1>4. \A j \in 1..(i - 1) : f[j].torn = "no"
  <2> SUFFICES ASSUME NEW j \in 1..(i - 1), f[j].torn # "no" PROVE FALSE
    OBVIOUS
  <2>1. j \in S
    BY <1>1
  <2> QED BY <1>1, <1>3, <2>1
<1>5. FirstTorn(f) \in DOMAIN f /\ IsFirstTorn(f, FirstTorn(f))
  BY <1>3, <1>4 DEF FirstTorn, IsFirstTorn
<1>6. ASSUME NEW k \in 1..Len(f), IsFirstTorn(f, k) PROVE k = FirstTorn(f)
  <2>1. ~ (k < FirstTorn(f))
    BY <1>1, <1>5, <1>6 DEF IsFirstTorn
  <2>2. ~ (FirstTorn(f) < k)
    BY <1>1, <1>5, <1>6 DEF IsFirstTorn
  <2> QED BY <1>1, <1>5, <2>1, <2>2
<1> QED BY <1>1, <1>5, <1>6

\* A Read keeps the first records of the file, all of them when it succeeds.
LEMMA ContentsArePrefix ==
  ASSUME NEW f \in Seq(Events)
  PROVE  /\ ContentsLen(f) \in 0..Len(f)
         /\ Contents(f) \in Seq(Events)
         /\ Contents(f) = SubSeq(f, 1, ContentsLen(f))
         /\ DOMAIN Contents(f) = 1..ContentsLen(f)
         /\ \A i \in 1..ContentsLen(f) : Contents(f)[i] = f[i]
         /\ ReadOk(f) => Contents(f) = f /\ ContentsLen(f) = Len(f)
<1>1. ContentsLen(f) \in 0..Len(f)
  BY FirstTornExists DEF ContentsLen
<1>2. Contents(f) = SubSeq(f, 1, ContentsLen(f))
  BY SubSeqFull DEF Contents, ContentsLen
<1>3. \A i \in 1..ContentsLen(f) : f[i] \in Events
  BY <1>1
<1>4. /\ SubSeq(f, 1, ContentsLen(f)) \in Seq(Events)
      /\ Len(SubSeq(f, 1, ContentsLen(f))) = ContentsLen(f)
      /\ \A i \in 1..ContentsLen(f) : SubSeq(f, 1, ContentsLen(f))[i] = f[i]
  BY <1>1, <1>3, SubSeqProperties
<1>5. DOMAIN Contents(f) = 1..ContentsLen(f)
  BY <1>2, <1>4
<1>6. ReadOk(f) => Contents(f) = f /\ ContentsLen(f) = Len(f)
  BY DEF Contents, ContentsLen
<1> QED BY <1>1, <1>2, <1>4, <1>5, <1>6

\* An append keeps the records, and a file that cannot be read stays so with
\* the same contents.
LEMMA AppendGrows ==
  ASSUME NEW f \in Seq(Events), NEW e \in Events
  PROVE  /\ Append(f, e) \in Seq(Events)
         /\ Len(Append(f, e)) = Len(f) + 1
         /\ DOMAIN Append(f, e) = 1..(Len(f) + 1)
         /\ \A i \in 1..Len(f) : Append(f, e)[i] = f[i]
         /\ Append(f, e)[Len(f) + 1] = e
         /\ ReadOk(Append(f, e)) <=> ReadOk(f) /\ e.torn = "no"
         /\ ContentsLen(f) <= ContentsLen(Append(f, e))
         /\ ~ReadOk(f) => Contents(Append(f, e)) = Contents(f)
<1> DEFINE g == Append(f, e)
<1>1. /\ g \in Seq(Events) /\ Len(g) = Len(f) + 1 /\ DOMAIN g = 1..(Len(f) + 1)
      /\ \A i \in 1..Len(f) : g[i] = f[i]
      /\ g[Len(f) + 1] = e
      /\ Len(f) \in Nat /\ DOMAIN f = 1..Len(f)
  BY AppendProperties
<1> HIDE DEF g
<1>2. ReadOk(g) <=> ReadOk(f) /\ e.torn = "no"
  BY <1>1 DEF ReadOk
<1>3. ASSUME ~ReadOk(f)
      PROVE  ContentsLen(g) = ContentsLen(f) /\ Contents(g) = Contents(f)
  <2>1. ~ReadOk(g)
    BY <1>2, <1>3
  <2>2. FirstTorn(f) \in 1..Len(f) /\ IsFirstTorn(f, FirstTorn(f))
    BY <1>3, FirstTornExists
  <2>3. IsFirstTorn(g, FirstTorn(f))
    BY <1>1, <2>2 DEF IsFirstTorn
  <2>4. FirstTorn(g) = FirstTorn(f)
    BY <1>1, <2>1, <2>2, <2>3, FirstTornExists
  <2>5. ContentsLen(g) = ContentsLen(f)
    BY <1>1, <1>3, <2>1, <2>2, <2>4 DEF ContentsLen
  <2>6. /\ Contents(f) \in Seq(Events) /\ Contents(g) \in Seq(Events)
        /\ DOMAIN Contents(f) = 1..ContentsLen(f) /\ DOMAIN Contents(g) = 1..ContentsLen(f)
        /\ ContentsLen(f) \in 0..Len(f)
        /\ \A i \in 1..ContentsLen(f) : Contents(f)[i] = f[i] /\ Contents(g)[i] = g[i]
    BY <1>1, <2>5, ContentsArePrefix
  <2>7. \A i \in 1..ContentsLen(f) : Contents(g)[i] = Contents(f)[i]
    BY <1>1, <2>6
  <2>8. Contents(g) = Contents(f)
    BY <2>6, <2>7, SeqEqual
  <2> QED BY <2>5, <2>8
<1>4. ASSUME ReadOk(f) PROVE ContentsLen(f) <= ContentsLen(g)
  <2>1. ContentsLen(f) = Len(f)
    BY <1>4 DEF ContentsLen
  <2>2. CASE ReadOk(g)
    BY <1>1, <2>1, <2>2 DEF ContentsLen
  <2>3. CASE ~ReadOk(g)
    <3>1. FirstTorn(g) \in 1..Len(g) /\ g[FirstTorn(g)].torn # "no"
      BY <1>1, <2>3, FirstTornExists DEF IsFirstTorn
    <3>2. FirstTorn(g) = Len(f) + 1
      BY <1>1, <1>4, <3>1 DEF ReadOk
    <3> QED BY <1>1, <2>1, <2>3, <3>2 DEF ContentsLen
  <2> QED BY <2>2, <2>3
<1>5. ContentsLen(f) \in Nat
  BY ContentsArePrefix
<1> QED BY <1>1, <1>2, <1>3, <1>4, <1>5 DEF g

\* What Append leaves is the file as it was, or with the record, whole or
\* torn; when it reports success the file can be read and has the record, and
\* the contents are all of it.
LEMMA AppendToResults ==
  ASSUME NEW f \in Seq(Events), NEW e \in Events, e.torn = "no", NEW r \in AppendTo(f, e)
  PROVE  /\ \/ ~r.ok /\ r.log = f
            \/ \E d \in Events : d.type = e.type /\ d.setting = e.setting /\ r.log = Append(f, d)
         /\ r.log \in Seq(Events)
         /\ r.ok \in BOOLEAN /\ r.fault \in {0, 1} /\ r.contents \in Seq(Events)
         /\ r.ok => ReadOk(r.log) /\ r.contents = r.log
         /\ ReadOk(r.log) => r.contents = r.log \/ r.contents = << >>
<1> DEFINE t(how) == [e EXCEPT !.torn = how]
<1>1. \A how \in {"accepted", "rejected"} :
        t(how) \in Events /\ t(how).type = e.type /\ t(how).setting = e.setting
  BY DEF Events
<1>2. << >> \in Seq(Events)
  OBVIOUS
<1> HIDE DEF t
<1>3. CASE r = [log |-> Append(f, e), ok |-> ReadOk(f), contents |-> Contents(Append(f, e)),
                fault |-> 0]
  <2>1. ReadOk(Append(f, e)) <=> ReadOk(f)
    BY AppendGrows
  <2>2. Append(f, e) \in Seq(Events)
    BY AppendGrows
  <2>3. Contents(Append(f, e)) \in Seq(Events)
    BY <2>2, ContentsArePrefix
  <2>4. ReadOk(Append(f, e)) => Contents(Append(f, e)) = Append(f, e)
    BY <2>2, ContentsArePrefix
  <2>5. ReadOk(f) \in BOOLEAN
    BY DEF ReadOk
  <2> QED BY <1>3, <2>1, <2>2, <2>3, <2>4, <2>5
<1>4. ASSUME NEW left \in {f, Append(f, e)} \union {Append(f, t(how)) : how \in {"accepted", "rejected"}},
             r = [log |-> left, ok |-> FALSE, contents |-> << >>, fault |-> 1]
      PROVE  /\ \/ ~r.ok /\ r.log = f
                \/ \E d \in Events : d.type = e.type /\ d.setting = e.setting /\ r.log = Append(f, d)
             /\ r.log \in Seq(Events)
             /\ r.ok \in BOOLEAN /\ r.fault \in {0, 1} /\ r.contents \in Seq(Events)
             /\ r.ok => ReadOk(r.log) /\ r.contents = r.log
             /\ ReadOk(r.log) => r.contents = r.log \/ r.contents = << >>
  <2>1. r.log = left /\ ~r.ok /\ r.ok \in BOOLEAN /\ r.contents = << >> /\ r.fault = 1
    BY <1>4
  <2>2. \/ left = f
        \/ \E d \in Events : d.type = e.type /\ d.setting = e.setting /\ left = Append(f, d)
    BY <1>1
  <2>3. left \in Seq(Events)
    BY <2>2, AppendGrows
  <2> QED BY <1>2, <2>1, <2>2, <2>3
<1>5. \/ r = [log |-> Append(f, e), ok |-> ReadOk(f), contents |-> Contents(Append(f, e)),
              fault |-> 0]
      \/ \E left \in {f, Append(f, e)}
                     \union {Append(f, t(how)) : how \in {"accepted", "rejected"}} :
           r = [log |-> left, ok |-> FALSE, contents |-> << >>, fault |-> 1]
  BY DEF AppendTo, t
<1> QED BY <1>3, <1>4, <1>5

\* A START adds one to the attempts of its setting, any other record none.
LEMMA AppendStarts ==
  ASSUME NEW f \in Seq(Events), NEW e \in Events, NEW s
  PROVE  /\ Starts(Append(f, e), s) =
              IF e.type = "START" /\ e.setting = s THEN Starts(f, s) \union {Len(f) + 1}
              ELSE Starts(f, s)
         /\ IsFiniteSet(Starts(f, s)) /\ Cardinality(Starts(f, s)) \in Nat
         /\ IsFiniteSet(Starts(Append(f, e), s))
         /\ Cardinality(Starts(Append(f, e), s)) =
              Cardinality(Starts(f, s)) + (IF e.type = "START" /\ e.setting = s THEN 1 ELSE 0)
<1>1. Starts(Append(f, e), s) =
        IF e.type = "START" /\ e.setting = s THEN Starts(f, s) \union {Len(f) + 1}
        ELSE Starts(f, s)
  <2> DEFINE g == Append(f, e)
  <2>1. /\ DOMAIN g = 1..(Len(f) + 1) /\ DOMAIN f = 1..Len(f) /\ Len(f) \in Nat
        /\ \A i \in 1..Len(f) : g[i] = f[i]
        /\ g[Len(f) + 1] = e
    BY AppendGrows
  <2> HIDE DEF g
  <2>2. Starts(g, s) = IF e.type = "START" /\ e.setting = s THEN Starts(f, s) \union {Len(f) + 1}
                       ELSE Starts(f, s)
    BY <2>1 DEF Starts
  <2> QED BY <2>2 DEF g
<1>2. Starts(f, s) \in SUBSET (1..Len(f)) /\ Len(f) \in Nat
  BY DEF Starts
<1>3. IsFiniteSet(1..Len(f))
  BY <1>2, FS_Interval
<1>4. IsFiniteSet(Starts(f, s))
  BY <1>2, <1>3, FS_Subset
<1>5. Cardinality(Starts(f, s)) \in Nat
  BY <1>4, FS_CardinalityType
<1>6. /\ IsFiniteSet(Starts(f, s) \union {Len(f) + 1})
      /\ Len(f) + 1 \notin Starts(f, s)
      /\ Cardinality(Starts(f, s) \union {Len(f) + 1}) = Cardinality(Starts(f, s)) + 1
  <2>1. Len(f) + 1 \notin Starts(f, s)
    BY <1>2
  <2> QED BY <1>4, <2>1, FS_AddElement
<1> QED BY <1>1, <1>4, <1>5, <1>6

\* The request of a file is the setting of one of its records, or none.
LEMMA RequestType ==
  ASSUME NEW f \in Seq(Events)
  PROVE  Request(f) \in Settings \union {NoRequest}
<1> DEFINE S == {i \in DOMAIN f : f[i].type = "START"}
<1>1. S \in SUBSET (0..Len(f)) /\ Len(f) \in Nat
  OBVIOUS
<1>2. CASE S = {}
  BY <1>2 DEF Request
<1>3. CASE S # {}
  <2>1. \E i \in S : \A j \in S : j <= i
    <3> HIDE DEF S
    <3> QED BY <1>1, <1>3, GreatestExists
  <2>2. PICK i \in S : Request(f) = f[i].setting
    BY <1>3, <2>1 DEF Request
  <2>3. f[i] \in Events
    BY <2>2
  <2> QED BY <2>2, <2>3 DEF Events
<1> QED BY <1>2, <1>3

\* A START makes its setting the request of the file; no other record changes
\* the request.
LEMMA AppendRequest ==
  ASSUME NEW f \in Seq(Events), NEW e \in Events
  PROVE  Request(Append(f, e)) = IF e.type = "START" THEN e.setting ELSE Request(f)
<1> DEFINE g == Append(f, e)
           S(h) == {i \in DOMAIN h : h[i].type = "START"}
           LastOf(h) == CHOOSE i \in S(h) : \A j \in S(h) : j <= i
<1>1. /\ DOMAIN g = 1..(Len(f) + 1) /\ DOMAIN f = 1..Len(f) /\ Len(f) \in Nat
      /\ \A i \in 1..Len(f) : g[i] = f[i]
      /\ g[Len(f) + 1] = e
  BY AppendGrows
<1>2. \A h : Request(h) = IF S(h) = {} THEN NoRequest ELSE h[LastOf(h)].setting
  BY DEF Request
<1> HIDE DEF g
<1>3. CASE e.type = "START"
  <2>1. Len(f) + 1 \in S(g) /\ \A j \in S(g) : j \in 1..(Len(f) + 1)
    BY <1>1, <1>3
  <2>2. \A j \in S(g) : j <= Len(f) + 1
    BY <1>1, <2>1
  <2>3. LastOf(g) \in S(g) /\ \A j \in S(g) : j <= LastOf(g)
    BY <2>1, <2>2
  <2>4. LastOf(g) = Len(f) + 1
    <3> HIDE DEF S, LastOf
    <3> QED BY <1>1, <2>1, <2>3
  <2>5. Request(g) = e.setting
    BY <1>1, <1>2, <2>1, <2>4
  <2> QED BY <1>3, <2>5 DEF g
<1>4. CASE e.type # "START"
  <2>1. S(g) = S(f)
    BY <1>1, <1>4
  <2>2. CASE S(f) = {}
    BY <1>2, <1>4, <2>1, <2>2 DEF g
  <2>3. CASE S(f) # {}
    <3>1. S(f) \in SUBSET (0..Len(f)) /\ S(f) \subseteq 1..Len(f)
      BY <1>1
    <3>2. \E i \in S(f) : \A j \in S(f) : j <= i
      <4> HIDE DEF S
      <4> QED BY <1>1, <2>3, <3>1, GreatestExists
    <3>3. LastOf(f) \in S(f)
      BY <3>2
    <3>4. LastOf(g) = LastOf(f)
      BY <2>1
    <3>5. g[LastOf(g)] = f[LastOf(f)]
      <4> HIDE DEF S, LastOf
      <4> QED BY <1>1, <3>1, <3>3, <3>4
    <3> HIDE DEF S, LastOf
    <3> QED BY <1>2, <1>4, <2>1, <2>3, <3>5 DEF g
  <2> QED BY <2>2, <2>3
<1> QED BY <1>3, <1>4

-----------------------------------------------------------------------------
(***************************************************************************)
(* The selector.                                                           *)
(***************************************************************************)

\* The successes of a file are records of it, finitely many.
LEMMA SuccessesOfFile ==
  ASSUME NEW f \in Seq(Events)
  PROVE  /\ GetSuccessfulResults(f) \in SUBSET (1..Len(f))
         /\ IsFiniteSet(GetSuccessfulResults(f))
         /\ \A i \in GetSuccessfulResults(f) : f[i] \in Events /\ Latency[f[i].setting] \in Nat
<1>1. ContentsLen(f) \in 0..Len(f) /\ DOMAIN Contents(f) = 1..ContentsLen(f)
  BY ContentsArePrefix
<1>2. GetSuccessfulResults(f) \in SUBSET (1..Len(f)) /\ Len(f) \in Nat
  BY <1>1 DEF GetSuccessfulResults
<1>3. IsFiniteSet(GetSuccessfulResults(f))
  <2>1. IsFiniteSet(1..Len(f))
    BY <1>2, FS_Interval
  <2> QED BY <1>2, <2>1, FS_Subset
<1>4. \A i \in 1..Len(f) : f[i] \in Events
  OBVIOUS
<1>5. \A e \in Events : Latency[e.setting] \in Nat
  BY LatencyAssumption DEF Events
<1> QED BY <1>2, <1>3, <1>4, <1>5

\* Successes stay successes.
LEMMA AppendSuccesses ==
  ASSUME NEW f \in Seq(Events), NEW e \in Events
  PROVE  GetSuccessfulResults(f) \subseteq GetSuccessfulResults(Append(f, e))
<1> DEFINE g == Append(f, e)
<1>1. /\ g \in Seq(Events) /\ ContentsLen(f) <= ContentsLen(g)
      /\ \A i \in 1..Len(f) : g[i] = f[i]
  BY AppendGrows
<1> HIDE DEF g
<1>2. /\ ContentsLen(f) \in 0..Len(f) /\ DOMAIN Contents(f) = 1..ContentsLen(f)
      /\ ContentsLen(g) \in 0..Len(g) /\ DOMAIN Contents(g) = 1..ContentsLen(g)
  BY <1>1, ContentsArePrefix
<1>3. Len(f) \in Nat /\ Len(g) \in Nat
  BY <1>1
<1>4. GetSuccessfulResults(f) \subseteq GetSuccessfulResults(g)
  BY <1>1, <1>2, <1>3 DEF GetSuccessfulResults
<1> QED BY <1>4 DEF g

\* A memo is not spoilt by a longer file.
LEMMA AppendKeepsMemo ==
  ASSUME NEW f \in Seq(Events), NEW e \in Events, NEW m, MemoOf(m, f)
  PROVE  MemoOf(m, Append(f, e))
<1> DEFINE g == Append(f, e)
<1>1. PICK events \in SUBSET GetSuccessfulResults(f) :
        /\ Cardinality(events) = m.n
        /\ \E i \in events :
             IsMinLatency(f, events, i) /\ m.result = CreateAccelerationFromBenchmark(f[i])
  BY DEF MemoOf
<1>2. PICK i \in events :
        IsMinLatency(f, events, i) /\ m.result = CreateAccelerationFromBenchmark(f[i])
  BY <1>1
<1>3. events \in SUBSET GetSuccessfulResults(g)
  BY <1>1, AppendSuccesses
<1>4. \A j \in events : g[j] = f[j]
  BY SuccessesOfFile, AppendGrows
<1> HIDE DEF g
<1>5. IsMinLatency(g, events, i)
  BY <1>2, <1>4 DEF IsMinLatency
<1>6. m.result = CreateAccelerationFromBenchmark(g[i])
  BY <1>2, <1>4
<1>7. MemoOf(m, g)
  BY <1>1, <1>3, <1>5, <1>6 DEF MemoOf
<1> QED BY <1>7 DEF g

\* Among successes there is just one first with the least latency.
LEMMA MinLatencyExists ==
  ASSUME NEW f \in Seq(Events), NEW events \in SUBSET GetSuccessfulResults(f), events # {}
  PROVE  /\ \E i \in events : IsMinLatency(f, events, i)
         /\ \A i, j \in events :
              IsMinLatency(f, events, i) /\ IsMinLatency(f, events, j) => i = j
<1> DEFINE L(i) == Latency[f[i].setting]
           lats == {L(i) : i \in events}
<1>1. events \in SUBSET Nat /\ \A i \in events : L(i) \in Nat
  BY SuccessesOfFile
<1>2. PICK l \in lats : \A k \in lats : l <= k
  <2>1. lats \in SUBSET Nat /\ lats # {}
    BY <1>1
  <2> HIDE DEF lats
  <2> QED BY <2>1, LeastExists
<1> DEFINE fastest == {i \in events : L(i) = l}
<1>3. \A j \in events : l <= L(j)
  BY <1>2
<1>4. PICK i \in fastest : \A j \in fastest : i <= j
  <2>1. fastest \in SUBSET Nat /\ fastest # {}
    BY <1>1, <1>2
  <2> HIDE DEF fastest
  <2> QED BY <2>1, LeastExists
<1>5. l \in Nat /\ i \in events /\ i \in Nat /\ L(i) = l
  BY <1>1, <1>2, <1>4
<1>6. ASSUME NEW j \in events PROVE L(i) <= L(j) /\ (j < i => L(i) < L(j))
  <2>1. L(i) <= L(j) /\ L(j) \in Nat /\ j \in Nat
    BY <1>1, <1>3, <1>5
  <2>2. L(j) = l => i <= j
    BY <1>4
  <2> HIDE DEF L
  <2> QED BY <1>5, <2>1, <2>2
<1>7. IsMinLatency(f, events, i)
  BY <1>6 DEF IsMinLatency
<1>8. ASSUME NEW j \in events, NEW k \in events,
             IsMinLatency(f, events, j), IsMinLatency(f, events, k)
      PROVE  j = k
  <2>1. /\ L(j) <= L(k) /\ L(k) <= L(j)
        /\ k < j => L(j) < L(k)
        /\ j < k => L(k) < L(j)
    BY <1>8 DEF IsMinLatency
  <2>2. L(j) \in Nat /\ L(k) \in Nat /\ j \in Nat /\ k \in Nat
    BY <1>1
  <2> HIDE DEF L
  <2> QED BY <2>1, <2>2
<1> QED BY <1>5, <1>7, <1>8

\* A memo has its type whatever the one before it says.
LEMMA BestMemoType ==
  ASSUME NEW f \in Seq(Events), NEW m \in Memos
  PROVE  BestAcceleration(m, f, GetSuccessfulResults(f)).memo \in Memos
<1> DEFINE events == GetSuccessfulResults(f)
           first == CHOOSE i \in events : IsMinLatency(f, events, i)
           new == Memoize(Cardinality(events), FindMinLatencyEvent(f, events))
<1>1. IsFiniteSet(events) /\ Cardinality(events) \in Nat
  BY SuccessesOfFile, FS_CardinalityType
<1>2. ASSUME events # {} PROVE new \in Memos
  <2>1. first \in events
    BY <1>2, MinLatencyExists
  <2>2. f[first] \in Events
    BY <2>1, SuccessesOfFile
  <2>3. FindMinLatencyEvent(f, events) = f[first]
    BY DEF FindMinLatencyEvent
  <2> HIDE DEF first
  <2> QED BY <1>1, <2>2, <2>3 DEF Memoize, Memos, CreateAccelerationFromBenchmark, Events
<1> HIDE DEF events
<1> QED BY <1>2 DEF BestAcceleration, events

\* GetBestAcceleration returns the best of the successes it is given, from a
\* sound memo or anew, and leaves a sound memo.
LEMMA BestAccelerationIsBest ==
  ASSUME NEW f \in Seq(Events), NEW m \in Memos, m.some => MemoOf(m, f)
  PROVE  LET events == GetSuccessfulResults(f)
             best == BestAcceleration(m, f, events)
         IN  /\ best.memo.some => MemoOf(best.memo, f)
             /\ events # {} =>
                  best.result = CreateAccelerationFromBenchmark(FindMinLatencyEvent(f, events))
<1> DEFINE events == GetSuccessfulResults(f)
           best == BestAcceleration(m, f, events)
           first == CHOOSE i \in events : IsMinLatency(f, events, i)
<1>1. IsFiniteSet(events) /\ Cardinality(events) \in Nat
  BY SuccessesOfFile, FS_CardinalityType
<1>2. CASE events = {}
  <2>1. best = [result |-> NoResult, memo |-> m]
    BY <1>2 DEF BestAcceleration
  <2> QED BY <1>2, <2>1
<1>3. CASE events # {}
  <2>1. /\ first \in events /\ IsMinLatency(f, events, first)
        /\ \A i \in events : IsMinLatency(f, events, i) => i = first
    BY <1>3, MinLatencyExists
  <2>2. FindMinLatencyEvent(f, events) = f[first]
    BY DEF FindMinLatencyEvent
  <2> HIDE DEF first
  <2>4. CASE MemoHit(m, events)
    <3>1. best = [result |-> m.result, memo |-> m]
      BY <1>3, <2>4 DEF BestAcceleration
    <3>2. m.some /\ m.n = Cardinality(events)
      BY <2>4 DEF MemoHit
    <3>3. PICK S \in SUBSET events :
            /\ Cardinality(S) = m.n
            /\ \E i \in S : IsMinLatency(f, S, i) /\ m.result = CreateAccelerationFromBenchmark(f[i])
      BY <3>2 DEF MemoOf
    <3>4. S = events
      <4> HIDE DEF events
      <4> QED BY <1>1, <3>2, <3>3, FS_Subset
    <3>5. m.result = CreateAccelerationFromBenchmark(f[first])
      <4> HIDE DEF events
      <4> QED BY <2>1, <3>3, <3>4
    <3> QED BY <2>2, <3>1, <3>2, <3>5
  <2>5. CASE ~MemoHit(m, events)
    <3> DEFINE new == Memoize(Cardinality(events), f[first])
    <3>1. best = [result |-> new.result, memo |-> new]
      BY <1>3, <2>2, <2>5 DEF BestAcceleration
    <3>2. /\ new.n = Cardinality(events) /\ new.some
          /\ new.result = CreateAccelerationFromBenchmark(f[first])
      BY DEF Memoize
    <3>4. MemoOf(new, f)
      <4> HIDE DEF new
      <4> QED BY <2>1, <3>2 DEF MemoOf
    <3> QED BY <2>2, <3>1, <3>2, <3>4
  <2> QED BY <2>4, <2>5
<1> QED BY <1>2, <1>3

-----------------------------------------------------------------------------
(***************************************************************************)
(* Types.                                                                  *)
(***************************************************************************)

\* What the thread makes of its state at the end of the loop's body.
LEMMA NextSettingType ==
  ASSUME NEW s \in AppStates, s.todo # {}
  PROVE  /\ NextSetting(s) \in AppStates
         /\ NextSetting(s).up = s.up /\ NextSetting(s).validator = s.validator
         /\ NextSetting(s).triggered = s.triggered
         /\ NextSetting(s).todo = s.todo \ {OneSetting(s.todo)}
         /\ NextSetting(s).pc = IF NextSetting(s).todo = {} THEN "done" ELSE "start"
         /\ NextSetting(s).child = 0
BY DEF NextSetting, AppStates

\* The validator that an application creates from what it reads of the file.
LEMMA CreateValidatorType ==
  ASSUME NEW s \in AppStates, NEW f
  PROVE  LET t == CreateValidatorIfNecessary(s, f)
         IN  /\ t \in AppStates
             /\ t = [s EXCEPT !.validator = t.validator]
             /\ t.up = s.up /\ t.triggered = s.triggered /\ t.pc = s.pc /\ t.todo = s.todo
             /\ t.child = s.child
             /\ s.validator # "none" => t.validator = s.validator
             /\ t.validator = "ok" => s.validator = "ok" \/ ReadOk(f)
BY DEF CreateValidatorIfNecessary, AppStates

\* A child that ends is gone unless somebody waits for it.
LEMMA ExitedType ==
  ASSUME TypeOK, NEW c \in Children, NEW ok \in BOOLEAN
  PROVE  /\ Exited(c, ok) \in ChildStates
         /\ Exited(c, ok).owner = child[c].owner
         /\ child[c].owner = NoApp => Exited(c, ok) = NoChild
         /\ child[c].owner # NoApp =>
              /\ Exited(c, ok).pc = "exited" /\ Exited(c, ok).exit = ok
              /\ Exited(c, ok).setting = child[c].setting /\ Exited(c, ok).stdout = child[c].stdout
<1>1. child[c] \in ChildStates
  BY DEF TypeOK
<1> QED BY <1>1 DEF Exited, ChildStates, NoChild

\* The threads that have a setting to do.
HasToDo(s) ==
  s.pc \in {"lock", "start", "initError", "run", "pipe", "wait", "drain", "error"} => s.todo # {}

\* Every action keeps the types.
LEMMA TypeStep ==
  ASSUME TypeOK, Next
  PROVE  TypeOK'
<1> DEFINE AppOK(s) == s \in AppStates /\ HasToDo(s)
           ChildOK(r) == r \in ChildStates /\ (r.pc = "exited" => r.owner # NoApp)
<1>1. /\ \A a \in Apps : AppOK(app[a])
      /\ \A c \in Children : ChildOK(child[c])
      /\ app = [a \in Apps |-> app[a]] /\ child = [c \in Children |-> child[c]]
  BY DEF TypeOK, HasToDo, HoldsParentLock, HasChild
<1>2. ASSUME log' \in Seq(Events),
             \A a \in Apps : AppOK(app'[a]), \A c \in Children : ChildOK(child'[c]),
             app' = [a \in Apps |-> app'[a]], child' = [c \in Children |-> child'[c]],
             memo' \in [Apps -> Memos], decision' \in Memos, launches' \in Nat, faults' \in Nat
      PROVE  TypeOK'
  BY <1>2 DEF TypeOK, HasToDo, HoldsParentLock, HasChild
<1>3. ASSUME NEW a \in Apps, NEW s, AppOK(s), app' = [app EXCEPT ![a] = s]
      PROVE  (\A b \in Apps : AppOK(app'[b])) /\ app' = [b \in Apps |-> app'[b]]
  BY <1>1, <1>3
<1>4. ASSUME NEW c \in Children, NEW r, ChildOK(r), child' = [child EXCEPT ![c] = r]
      PROVE  (\A d \in Children : ChildOK(child'[d])) /\ child' = [d \in Children |-> child'[d]]
  BY <1>1, <1>4
<1>5. ASSUME child' = child
      PROVE  (\A d \in Children : ChildOK(child'[d])) /\ child' = [d \in Children |-> child'[d]]
  BY <1>1, <1>5
<1>6. ASSUME app' = app
      PROVE  (\A b \in Apps : AppOK(app'[b])) /\ app' = [b \in Apps |-> app'[b]]
  BY <1>1, <1>6
<1>7. log \in Seq(Events) /\ memo \in [Apps -> Memos] /\ decision \in Memos /\ launches \in Nat
      /\ faults \in Nat /\ MaxIncidents \in Nat /\ Cpu \in Settings
  BY BoundsAssumption, CpuAssumption DEF TypeOK
<1>8. /\ ChildOK(NoChild) /\ NoMemo \in Memos
      /\ \A a \in Apps : AppOK(Down(app[a].buffer)) /\ AppOK([app[a] EXCEPT !.up = TRUE])
  <2>1. ChildOK(NoChild) /\ NoMemo \in Memos
    BY DEF NoChild, ChildStates, NoMemo, Memos
  <2>2. \A buffer \in BOOLEAN : AppOK(Down(buffer))
    BY DEF Down, AppStates, HasToDo
  <2>3. ASSUME NEW a \in Apps PROVE AppOK([app[a] EXCEPT !.up = TRUE]) /\ app[a].buffer \in BOOLEAN
    BY <1>1 DEF AppStates, HasToDo
  <2> QED BY <2>1, <2>2, <2>3
<1>9. \A n \in Nat : Fault(n) => faults' \in Nat
  BY <1>7 DEF Fault
<1>10. ASSUME NEW a \in Apps, app[a].todo # {}
       PROVE  OneSetting(app[a].todo) \in Settings
  BY <1>1, <1>10, OneSettingIsToDo DEF AppStates
<1>11. \A c \in Children, ok \in BOOLEAN : ChildOK(Exited(c, ok))
  <2> TAKE c \in Children, ok \in BOOLEAN
  <2> QED BY ExitedType, <1>1, <1>8
<1>12. ASSUME NEW a \in Apps, app[a].todo # {} PROVE AppOK(NextSetting(app[a]))
  BY <1>1, <1>12, NextSettingType DEF HasToDo
<1> HIDE DEF AppOK, ChildOK
<1>20. ASSUME NEW a \in Apps, Launch(a) PROVE TypeOK'
  <2>1. /\ app' = [app EXCEPT ![a] = [app[a] EXCEPT !.up = TRUE]] /\ child' = child /\ log' = log
        /\ memo' = [memo EXCEPT ![a] = decision] /\ decision' = decision
        /\ launches' = launches + 1 /\ faults' = faults
    BY <1>20, <1>1 DEF Launch
  <2>2. memo' \in [Apps -> Memos] /\ launches' \in Nat
    BY <1>7, <2>1
  <2> QED BY <1>2, <1>3, <1>5, <1>7, <1>8, <2>1, <2>2
<1>21. ASSUME NEW a \in Apps, Kill(a) PROVE TypeOK'
  <2>1. \A c \in Children : ChildOK(child'[c])
    <3> TAKE c \in Children
    <3>1. child[c] \in ChildStates /\ ChildOK(child[c])
      BY <1>1 DEF ChildOK
    <3>2. child[c].pc # "exited" => ChildOK([child[c] EXCEPT !.owner = NoApp, !.stdout = NoApp])
      BY <3>1 DEF ChildOK, ChildStates
    <3> QED BY <1>21, <1>8, <3>1, <3>2 DEF Kill
  <2>2. child' = [c \in Children |-> child'[c]]
    BY <1>21 DEF Kill
  <2> QED BY <1>21, <1>2, <1>3, <1>7, <1>8, <2>1, <2>2 DEF Kill
<1>22. ASSUME NEW a \in Apps, TriggerMiniBenchmark(a) PROVE TypeOK'
  <2> DEFINE s == CreateValidatorIfNecessary(app[a], log)
             todo == {one \in Settings : Missing(Contents(log), one)}
             t == IF s.validator # "ok" \/ s.triggered THEN s
                  ELSE [s EXCEPT !.triggered = TRUE, !.todo = todo,
                                 !.pc = IF todo = {} THEN "none" ELSE "lock"]
  <2>1. s \in AppStates /\ AppOK(s)
    BY <1>1, CreateValidatorType DEF AppOK, HasToDo
  <2>2. todo \in SUBSET Settings
    OBVIOUS
  <2>3. app' = [app EXCEPT ![a] = t] /\ child' = child /\ log' = log /\ memo' = memo
        /\ decision' = decision /\ launches' = launches /\ faults' = faults
    BY <1>22 DEF TriggerMiniBenchmark, selector
  <2> HIDE DEF s, todo
  <2>4. AppOK(t)
    BY <2>1, <2>2 DEF AppOK, HasToDo, AppStates
  <2> QED BY <1>2, <1>3, <1>5, <1>7, <2>3, <2>4
<1>23. ASSUME NEW a \in Apps, GetBestAcceleration(a) PROVE TypeOK'
  <2> DEFINE s == CreateValidatorIfNecessary(app[a], log)
             best == BestAcceleration(memo[a], log, GetSuccessfulResults(log))
  <2>1. AppOK(s)
    BY <1>1, CreateValidatorType DEF AppOK, HasToDo
  <2>2. /\ app' = [app EXCEPT ![a] = s] /\ child' = child /\ log' = log
        /\ memo' = IF s.validator = "ok" THEN [memo EXCEPT ![a] = best.memo] ELSE memo
        /\ decision' = IF memo'[a] # memo[a] THEN memo'[a] ELSE decision
        /\ launches' = launches /\ faults' = faults
    BY <1>23 DEF GetBestAcceleration
  <2>3. best.memo \in Memos
    BY <1>7, BestMemoType
  <2> HIDE DEF s, best
  <2>4. memo' \in [Apps -> Memos] /\ decision' \in Memos
    BY <1>7, <2>2, <2>3
  <2> QED BY <1>2, <1>3, <1>5, <1>7, <2>1, <2>2, <2>4
<1>24. ASSUME NEW a \in Apps, TryParentLock(a) PROVE TypeOK'
  <2> DEFINE t == [app[a] EXCEPT !.pc = IF \E b \in Apps : HoldsParentLock(b) THEN "done" ELSE "start"]
  <2>1. AppOK(t)
    BY <1>24, <1>1 DEF TryParentLock, AppOK, HasToDo, AppStates
  <2>2. app' = [app EXCEPT ![a] = t]
    BY <1>24, <1>1 DEF TryParentLock
  <2> QED BY <1>24, <1>2, <1>3, <1>5, <1>7, <2>1, <2>2 DEF TryParentLock, selector
<1>25. ASSUME NEW a \in Apps, InitFails(a) PROVE TypeOK'
  <2> DEFINE t == [app[a] EXCEPT !.pc = "initError"]
  <2>1. AppOK(t)
    BY <1>25, <1>1 DEF InitFails, AppOK, HasToDo, AppStates
  <2>2. app' = [app EXCEPT ![a] = t]
    BY <1>25, <1>1 DEF InitFails
  <2> QED BY <1>25, <1>2, <1>3, <1>5, <1>7, <1>9, <2>1, <2>2 DEF InitFails, selector
<1>26. ASSUME NEW a \in Apps, AppendStart(a) PROVE TypeOK'
  <2>1. app[a].todo # {} /\ AppOK(app[a])
    BY <1>26, <1>1 DEF AppendStart, AppOK, HasToDo
  <2> DEFINE e == Event("START", OneSetting(app[a].todo), FALSE)
  <2>2. PICK r \in AppendTo(log, e) :
          /\ Fault(r.fault) /\ log' = r.log
          /\ app' = [app EXCEPT ![a].pc = IF r.ok THEN "run" ELSE "initError"]
    BY <1>26 DEF AppendStart
  <2>3. OneSetting(app[a].todo) \in Settings
    BY <1>10, <2>1
  <2>7. e \in Events /\ e.torn = "no"
    BY <2>3 DEF Event, Events
  <2> HIDE DEF e
  <2>6. r.log \in Seq(Events) /\ r.fault \in {0, 1}
    BY <1>7, <2>7, AppendToResults
  <2> DEFINE t == [app[a] EXCEPT !.pc = IF r.ok THEN "run" ELSE "initError"]
  <2>4. AppOK(t)
    BY <2>1 DEF AppOK, HasToDo, AppStates
  <2>5. app' = [app EXCEPT ![a] = t]
    BY <1>1, <2>2
  <2> QED BY <1>26, <1>2, <1>3, <1>5, <1>7, <1>9, <2>2, <2>4, <2>5, <2>6 DEF AppendStart, selector
<1>27. ASSUME NEW a \in Apps, AppendError(a) PROVE TypeOK'
  <2>1. app[a].todo # {} /\ AppOK(app[a])
    BY <1>27, <1>1 DEF AppendError, AppOK, HasToDo
  <2> DEFINE e == Event("ERROR", OneSetting(app[a].todo), FALSE)
  <2>2. PICK r \in AppendTo(log, e) :
          Fault(r.fault) /\ log' = r.log
    BY <1>27 DEF AppendError
  <2>3. OneSetting(app[a].todo) \in Settings
    BY <1>10, <2>1
  <2>7. e \in Events /\ e.torn = "no"
    BY <2>3 DEF Event, Events
  <2> HIDE DEF e
  <2>6. r.log \in Seq(Events) /\ r.fault \in {0, 1}
    BY <1>7, <2>7, AppendToResults
  <2> QED BY <1>27, <1>2, <1>3, <1>5, <1>7, <1>9, <1>12, <2>1, <2>2, <2>6 DEF AppendError, selector
<1>28. ASSUME NEW a \in Apps, PopenFails(a) PROVE TypeOK'
  <2> DEFINE t == [app[a] EXCEPT !.pc = "error"]
  <2>1. AppOK(t)
    BY <1>28, <1>1 DEF PopenFails, AppOK, HasToDo, AppStates
  <2>2. app' = [app EXCEPT ![a] = t]
    BY <1>28, <1>1 DEF PopenFails
  <2> QED BY <1>28, <1>2, <1>3, <1>5, <1>7, <2>1, <2>2 DEF PopenFails, selector
<1>29. ASSUME NEW a \in Apps, Run(a) PROVE TypeOK'
  <2>1. PICK c \in Children :
          /\ child' = [child EXCEPT ![c] = [NoChild EXCEPT !.pc = "lock", !.owner = a, !.stdout = a,
                                                           !.model = ~app[a].buffer]]
          /\ app' = [app EXCEPT ![a].pc = IF app[a].buffer THEN "pipe" ELSE "wait", ![a].child = c]
    BY <1>29 DEF Run
  <2> DEFINE t == [app[a] EXCEPT !.pc = IF app[a].buffer THEN "pipe" ELSE "wait", !.child = c]
             r == [NoChild EXCEPT !.pc = "lock", !.owner = a, !.stdout = a, !.model = ~app[a].buffer]
  <2>2. AppOK(t)
    BY <1>29, <1>1, ZenonT(40) DEF Run, AppOK, HasToDo, AppStates
  <2>3. app' = [app EXCEPT ![a] = t]
    BY <1>1, <2>1
  <2>4. ChildOK(r)
    BY NoAppAssumption DEF ChildOK, ChildStates, NoChild
  <2>5. child' = [child EXCEPT ![c] = r]
    BY <2>1
  <2> HIDE DEF t, r
  <2> QED BY <1>29, <1>2, <1>3, <1>4, <1>7, <2>2, <2>3, <2>4, <2>5 DEF Run, selector
<1>30. ASSUME NEW a \in Apps, Reap(a) PROVE TypeOK'
  <2> DEFINE c == app[a].child
             t == IF child[c].exit THEN NextSetting(app[a])
                  ELSE [app[a] EXCEPT !.pc = "error", !.child = 0]
  <2>1. /\ app[a].pc \in {"wait", "drain"} /\ app' = [app EXCEPT ![a] = t]
        /\ child' = [child EXCEPT ![c] = NoChild] /\ log' = log
        /\ memo' = memo /\ decision' = decision /\ launches' = launches /\ faults' = faults
    BY <1>30 DEF Reap, selector
  <2>2. app[a].todo # {} /\ AppOK(app[a])
    BY <2>1, <1>1 DEF AppOK, HasToDo
  <2>3. AppOK([app[a] EXCEPT !.pc = "error", !.child = 0])
    BY <2>2 DEF AppOK, HasToDo, AppStates
  <2>4. AppOK(t)
    BY <1>12, <2>2, <2>3
  <2>5. (\A d \in Children : ChildOK(child'[d])) /\ child' = [d \in Children |-> child'[d]]
    <3>1. CASE c \in Children
      BY <1>4, <1>8, <2>1, <3>1
    <3>2. CASE c \notin Children
      BY <1>1, <2>1, <3>2
    <3> QED BY <3>1, <3>2
  <2> HIDE DEF t, c
  <2> QED BY <1>2, <1>3, <1>7, <2>1, <2>4, <2>5
<1>31. ASSUME NEW a \in Apps, KillProcessWhenTimedOut(a) PROVE TypeOK'
  <2> DEFINE c == app[a].child
  <2>1. /\ app' = app /\ child' = [child EXCEPT ![c] = Exited(c, FALSE)] /\ log' = log
        /\ memo' = memo /\ decision' = decision /\ launches' = launches /\ faults' = faults
    BY <1>31 DEF KillProcessWhenTimedOut, selector
  <2>2. (\A d \in Children : ChildOK(child'[d])) /\ child' = [d \in Children |-> child'[d]]
    <3>1. CASE c \in Children
      BY <1>4, <1>11, <2>1, <3>1
    <3>2. CASE c \notin Children
      BY <1>1, <2>1, <3>2
    <3> QED BY <3>1, <3>2
  <2> QED BY <1>2, <1>6, <1>7, <2>1, <2>2
<1>32. ASSUME NEW a \in Apps, PipeFails(a) PROVE TypeOK'
  <2> DEFINE c == app[a].child
             r == IF child[c].pc = "exited" THEN NoChild ELSE [child[c] EXCEPT !.owner = NoApp]
             t == [app[a] EXCEPT !.pc = "error", !.child = 0]
             n == IF child[c].pc = "exited" \/ (child[c].pc = "error" /\ child[c].setting # NoRequest)
                  THEN 0 ELSE 1
  <2>1. /\ app[a].pc = "pipe" /\ Fault(n) /\ n \in Nat
        /\ child' = [child EXCEPT ![c] = r] /\ app' = [app EXCEPT ![a].pc = "error", ![a].child = 0]
        /\ log' = log /\ memo' = memo /\ decision' = decision /\ launches' = launches
    BY <1>32 DEF PipeFails, selector
  <2>2. app' = [app EXCEPT ![a] = t]
    BY <1>1, <2>1
  <2>3. AppOK(t)
    BY <1>1, <2>1 DEF AppOK, HasToDo, AppStates
  <2>4. (\A d \in Children : ChildOK(child'[d])) /\ child' = [d \in Children |-> child'[d]]
    <3>1. CASE c \in Children
      <4>1. ChildOK(child[c])
        BY <1>1, <3>1
      <4>2. child[c].pc # "exited" => ChildOK([child[c] EXCEPT !.owner = NoApp])
        BY <4>1 DEF ChildOK, ChildStates
      <4>3. ChildOK(r)
        BY <1>8, <4>2
      <4> QED BY <1>4, <2>1, <3>1, <4>3
    <3>2. CASE c \notin Children
      BY <1>1, <2>1, <3>2
    <3> QED BY <3>1, <3>2
  <2>5. faults' \in Nat
    BY <1>9, <2>1
  <2> HIDE DEF t, r, n, c
  <2> QED BY <1>2, <1>3, <1>7, <2>1, <2>2, <2>3, <2>4, <2>5
<1>33. ASSUME NEW a \in Apps, TimerFails(a) PROVE TypeOK'
  <2> DEFINE t == [app[a] EXCEPT !.pc = "drain"]
  <2>1. AppOK(t)
    BY <1>33, <1>1 DEF TimerFails, AppOK, HasToDo, AppStates
  <2>2. app' = [app EXCEPT ![a] = t]
    BY <1>33, <1>1 DEF TimerFails
  <2> QED BY <1>33, <1>2, <1>3, <1>5, <1>7, <1>9, <2>1, <2>2 DEF TimerFails, selector
<1>40. ASSUME NEW c \in Children, NEW r, ChildOK(r), child' = [child EXCEPT ![c] = r],
              UNCHANGED <<log, app, selector, launches, faults>>
       PROVE  TypeOK'
  BY <1>40, <1>2, <1>4, <1>6, <1>7 DEF selector
<1>41. \A c \in Children : \A pc \in {"pid", "read", "affinity", "validate", "hung", "end", "error"} :
         ChildOK([child[c] EXCEPT !.pc = pc])
  BY <1>1 DEF ChildOK, ChildStates
<1>42. ASSUME NEW c \in Children, TryChildLock(c) PROVE TypeOK'
  BY <1>42, <1>11, <1>40, <1>41 DEF TryChildLock
<1>43. ASSUME NEW c \in Children, WritePid(c) PROVE TypeOK'
  BY <1>43, <1>8, <1>40, <1>41 DEF WritePid
<1>44. ASSUME NEW c \in Children, NEW s \in Settings \union {NoRequest},
              NEW pc \in {"affinity", "validate"}
       PROVE  ChildOK([child[c] EXCEPT !.pc = pc, !.setting = s])
  BY <1>1 DEF ChildOK, ChildStates
<1>45. ASSUME NEW c \in Children, ReadStorage(c) PROVE TypeOK'
  <2>1. Request(Contents(log)) \in Settings \union {NoRequest}
    BY <1>7, ContentsArePrefix, RequestType
  <2> DEFINE t == [child[c] EXCEPT !.pc = "affinity", !.setting = Request(Contents(log))]
  <2>2. ChildOK(t)
    BY <1>44, <2>1
  <2>3. \/ child' = [child EXCEPT ![c] = t]
        \/ child' = [child EXCEPT ![c] = Exited(c, FALSE)]
    BY <1>45, <1>1 DEF ReadStorage
  <2> HIDE DEF t
  <2> QED BY <1>45, <1>11, <1>40, <2>2, <2>3 DEF ReadStorage
<1>46. ASSUME NEW c \in Children, AffinityError(c) PROVE TypeOK'
  <2> DEFINE e == Event("RECOVERED_ERROR", Cpu, FALSE)
  <2>1. PICK r \in AppendTo(log, e) :
          /\ Fault(1) /\ log' = r.log
          /\ child' = [child EXCEPT ![c].pc = "validate", ![c].setting = Request(r.contents)]
    BY <1>46 DEF AffinityError
  <2>7. e \in Events /\ e.torn = "no"
    BY <1>7 DEF Event, Events
  <2> HIDE DEF e
  <2>2. r.log \in Seq(Events) /\ r.fault \in {0, 1} /\ r.contents \in Seq(Events)
    BY <1>7, <2>7, AppendToResults
  <2>3. Request(r.contents) \in Settings \union {NoRequest}
    BY <2>2, RequestType
  <2> DEFINE t == [child[c] EXCEPT !.pc = "validate", !.setting = Request(r.contents)]
  <2>4. ChildOK(t)
    BY <1>44, <2>3
  <2>5. child' = [child EXCEPT ![c] = t]
    BY <1>1, <2>1
  <2>6. faults' \in Nat
    BY <1>9, <2>1, <2>2
  <2> HIDE DEF t
  <2> QED BY <1>46, <1>2, <1>4, <1>6, <1>7, <2>1, <2>2, <2>4, <2>5, <2>6 DEF AffinityError, selector
<1>47. ASSUME NEW c \in Children, ReadModel(c) PROVE TypeOK'
  <2> DEFINE a == child[c].owner
             r == [child[c] EXCEPT !.model = TRUE]
             t == [app[a] EXCEPT !.pc = "wait"]
  <2>1. /\ app[a].pc = "pipe" /\ a # NoApp
        /\ child' = [child EXCEPT ![c].model = TRUE] /\ app' = [app EXCEPT ![a].pc = "wait"]
        /\ log' = log /\ memo' = memo /\ decision' = decision /\ launches' = launches
        /\ faults' = faults
    BY <1>47 DEF ReadModel, selector
  <2>2. a \in Apps
    BY <1>1, <2>1 DEF ChildOK, ChildStates
  <2>3. child' = [child EXCEPT ![c] = r] /\ app' = [app EXCEPT ![a] = t]
    BY <1>1, <2>1, <2>2
  <2>4. ChildOK(r)
    BY <1>1 DEF ChildOK, ChildStates
  <2>5. AppOK(t)
    BY <1>1, <2>1, <2>2 DEF AppOK, HasToDo, AppStates
  <2> HIDE DEF a, r, t
  <2> QED BY <1>2, <1>3, <1>4, <1>7, <2>1, <2>2, <2>3, <2>4, <2>5
<1>48. ASSUME NEW c \in Children, Validate(c) PROVE TypeOK'
  <2>1. PICK r : ChildOK(r) /\ child' = [child EXCEPT ![c] = r]
    BY <1>48, <1>1, <1>11, <1>41 DEF Validate
  <2> QED BY <1>48, <1>40, <2>1 DEF Validate
<1>49. ASSUME NEW c \in Children, AppendResult(c) PROVE TypeOK'
  <2> DEFINE type == IF child[c].pc = "end" THEN "END" ELSE "ERROR"
             setting == IF child[c].setting = NoRequest THEN Cpu ELSE child[c].setting
  <2>7. PICK ok \in BOOLEAN, late \in {0, 1} :
          \E r \in AppendTo(log, Event(type, setting, ok)) :
            /\ Fault(r.fault + late) /\ log' = r.log
            /\ child' = [child EXCEPT ![c] = Exited(c, r.ok /\ late = 0)]
    BY <1>49 DEF AppendResult
  <2>1. PICK r \in AppendTo(log, Event(type, setting, ok)) :
          /\ Fault(r.fault + late) /\ log' = r.log
          /\ child' = [child EXCEPT ![c] = Exited(c, r.ok /\ late = 0)]
    BY <2>7
  <2>2. setting \in Settings /\ type \in {"END", "ERROR"}
    BY <1>1, <1>7 DEF ChildOK, ChildStates
  <2> HIDE DEF type, setting
  <2>6. Event(type, setting, ok) \in Events /\ Event(type, setting, ok).torn = "no"
    BY <2>2 DEF Event, Events
  <2>3. r.log \in Seq(Events) /\ r.fault \in {0, 1} /\ r.ok \in BOOLEAN
    BY <1>7, <2>6, AppendToResults
  <2>4. faults' \in Nat
    BY <1>9, <2>1, <2>3
  <2>5. ChildOK(Exited(c, r.ok /\ late = 0))
    BY <1>11, <2>3
  <2> QED BY <1>49, <1>2, <1>4, <1>6, <1>7, <2>1, <2>3, <2>4, <2>5 DEF AppendResult, selector
<1> QED BY <1>20, <1>21, <1>22, <1>23, <1>24, <1>25, <1>26, <1>27, <1>28, <1>29, <1>30, <1>31,
        <1>32, <1>33, <1>42, <1>43, <1>45, <1>46, <1>47, <1>48, <1>49
        DEF Next, ThreadStep, ChildStep

-----------------------------------------------------------------------------
(***************************************************************************)
(* What each action does, field by field.                                  *)
(***************************************************************************)

\* The thread of a goes to pc with todo and kid; the other applications do
\* not change.
ThreadMoves(a, pc, todo, kid) ==
  /\ \A b \in Apps : b # a => app'[b] = app[b]
  /\ app'[a].up = app[a].up /\ app'[a].validator = app[a].validator
  /\ app'[a].triggered = app[a].triggered
  /\ app'[a].pc = pc /\ app'[a].todo = todo /\ app'[a].child = kid

\* Child c goes to pc with setting s; the other children do not change.
ChildMoves(c, pc, s) ==
  /\ \A d \in Children : d # c => child'[d] = child[d]
  /\ child'[c].pc = pc /\ child'[c].setting = s
  /\ child'[c].owner = child[c].owner /\ child'[c].exit = child[c].exit
  /\ child'[c].stdout = child[c].stdout

ChildExits(c, ok) ==
  /\ \A d \in Children : d # c => child'[d] = child[d]
  /\ child'[c].owner = child[c].owner
  /\ child'[c].pc = IF child[c].owner = NoApp THEN "none" ELSE "exited"
  /\ child[c].owner # NoApp =>
       child'[c].exit = ok /\ child'[c].setting = child[c].setting /\ child'[c].stdout = child[c].stdout

\* The file gets a record of that type and setting, whole or torn.
LogGets(type, s) ==
  \E e \in Events : e.type = type /\ e.setting = s /\ log' = Append(log, e)

\* The thread of a has put the START of its setting in the file.
StartWritten(a) ==
  /\ app[a].pc = "start" /\ LogGets("START", OneSetting(app[a].todo)) /\ child' = child
  /\ \E pc \in {"run", "initError"} : ThreadMoves(a, pc, app[a].todo, app[a].child)

\* An application starts with nothing created.
LEMMA LaunchEffect ==
  ASSUME TypeOK, Applications, NEW a \in Apps, Launch(a)
  PROVE  /\ ~app[a].up /\ \A b \in Apps : b # a => app'[b] = app[b]
         /\ app'[a].up /\ app'[a].validator = "none" /\ ~app'[a].triggered
         /\ app'[a].pc = "none" /\ app'[a].todo = {}
         /\ memo'[a] = decision /\ \A b \in Apps : b # a => memo'[b] = memo[b]
         /\ log' = log /\ child' = child /\ decision' = decision
<1>1. app' = [app EXCEPT ![a].up = TRUE] /\ ~app[a].up
  BY DEF Launch
<1>2. app[a] \in AppStates
  BY DEF TypeOK
<1>3. /\ \A b \in Apps : b # a => app'[b] = app[b]
      /\ app'[a].up /\ app'[a].validator = app[a].validator /\ app'[a].triggered = app[a].triggered
      /\ app'[a].pc = app[a].pc /\ app'[a].todo = app[a].todo
  BY <1>1, <1>2 DEF TypeOK, AppStates
<1>4. /\ app[a].validator = "none" /\ ~app[a].triggered /\ app[a].pc = "none" /\ app[a].todo = {}
  BY <1>1 DEF Applications
<1>5. /\ memo'[a] = decision /\ \A b \in Apps : b # a => memo'[b] = memo[b]
      /\ log' = log /\ child' = child /\ decision' = decision
  BY DEF Launch, TypeOK
<1> QED BY <1>1, <1>3, <1>4, <1>5

\* A killed application leaves its child behind as an orphan.
LEMMA KillEffect ==
  ASSUME TypeOK, Parents, NEW a \in Apps, Kill(a)
  PROVE  /\ \A b \in Apps : b # a => app'[b] = app[b]
         /\ ~app'[a].up /\ app'[a].validator = "none" /\ ~app'[a].triggered
         /\ app'[a].pc = "none" /\ app'[a].todo = {}
         /\ \A c \in Children : child[c].owner # a =>
              /\ child'[c].pc = child[c].pc /\ child'[c].owner = child[c].owner
              /\ child'[c].setting = child[c].setting /\ child'[c].exit = child[c].exit
              /\ child[c].owner # NoApp => child'[c].stdout = child[c].stdout
         /\ \A c \in Children : child[c].owner = a =>
              /\ child'[c].owner = NoApp
              /\ child'[c].pc = IF child[c].pc = "exited" THEN "none" ELSE child[c].pc
         /\ memo'[a] = NoMemo /\ \A b \in Apps : b # a => memo'[b] = memo[b]
         /\ log' = log /\ decision' = decision
<1>1. app' = [app EXCEPT ![a] = Down(app[a].buffer)]
  BY DEF Kill
<1>2. /\ \A b \in Apps : b # a => app'[b] = app[b]
      /\ ~app'[a].up /\ app'[a].validator = "none" /\ ~app'[a].triggered
      /\ app'[a].pc = "none" /\ app'[a].todo = {}
  BY <1>1 DEF TypeOK, Down
<1>3. ASSUME NEW c \in Children, child[c].owner # a
      PROVE  /\ child'[c].pc = child[c].pc /\ child'[c].owner = child[c].owner
             /\ child'[c].setting = child[c].setting /\ child'[c].exit = child[c].exit
             /\ child[c].owner # NoApp => child'[c].stdout = child[c].stdout
  <2>1. child[c] \in ChildStates /\ (child[c].pc = "exited" => child[c].owner # NoApp)
    BY DEF TypeOK
  <2>2. CASE child[c].stdout # a
    <3>1. child'[c] = child[c]
      BY <2>2 DEF Kill
    <3> QED BY <3>1
  <2>3. CASE child[c].stdout = a
    <3>1. child[c].owner = NoApp /\ child[c].pc # "exited"
      BY <1>3, <2>1, <2>3 DEF Parents
    <3>2. child'[c] = [child[c] EXCEPT !.owner = NoApp, !.stdout = NoApp]
      BY <2>3, <3>1 DEF Kill
    <3> QED BY <2>1, <3>1, <3>2 DEF ChildStates
  <2> QED BY <2>2, <2>3
<1>4. ASSUME NEW c \in Children, child[c].owner = a
      PROVE  /\ child'[c].owner = NoApp
             /\ child'[c].pc = IF child[c].pc = "exited" THEN "none" ELSE child[c].pc
  <2>1. child[c].stdout = a
    BY <1>4, NoAppAssumption DEF Parents
  <2>2. child'[c] = IF child[c].pc = "exited" THEN NoChild
                    ELSE [child[c] EXCEPT !.owner = NoApp, !.stdout = NoApp]
    BY <2>1 DEF Kill
  <2>3. child[c] \in ChildStates
    BY DEF TypeOK
  <2> QED BY <2>2, <2>3 DEF NoChild, ChildStates
<1>5. memo'[a] = NoMemo /\ \A b \in Apps : b # a => memo'[b] = memo[b]
  BY DEF Kill, TypeOK
<1>6. log' = log /\ decision' = decision
  BY DEF Kill
<1> QED BY <1>2, <1>3, <1>4, <1>5, <1>6

\* TriggerMiniBenchmark plans what the file, as the application read it, still misses.
LEMMA TriggerEffect ==
  ASSUME TypeOK, NEW a \in Apps, TriggerMiniBenchmark(a)
  PROVE  /\ app[a].up /\ app'[a].up /\ \A b \in Apps : b # a => app'[b] = app[b]
         /\ app[a].validator # "none" => app'[a].validator = app[a].validator
         /\ app'[a].validator = "ok" => app[a].validator = "ok" \/ ReadOk(log)
         /\ app'[a].child = app[a].child
         /\ \/ /\ app'[a].triggered = app[a].triggered
               /\ app'[a].pc = app[a].pc /\ app'[a].todo = app[a].todo
            \/ /\ ~app[a].triggered /\ app'[a].triggered /\ app'[a].validator = "ok"
               /\ app'[a].todo = {s \in Settings : Missing(Contents(log), s)}
               /\ app'[a].pc = IF app'[a].todo = {} THEN "none" ELSE "lock"
         /\ log' = log /\ child' = child /\ memo' = memo /\ decision' = decision
<1> DEFINE s == CreateValidatorIfNecessary(app[a], log)
           todo == {one \in Settings : Missing(Contents(log), one)}
           t == [s EXCEPT !.triggered = TRUE, !.todo = todo,
                          !.pc = IF todo = {} THEN "none" ELSE "lock"]
<1>1. /\ app[a].up /\ app' = [app EXCEPT ![a] = IF s.validator # "ok" \/ s.triggered THEN s ELSE t]
      /\ log' = log /\ child' = child /\ memo' = memo /\ decision' = decision
  BY DEF TriggerMiniBenchmark, selector
<1>2. app[a] \in AppStates
  BY DEF TypeOK
<1>3. /\ s \in AppStates
      /\ s.up = app[a].up /\ s.triggered = app[a].triggered /\ s.pc = app[a].pc
      /\ s.todo = app[a].todo /\ s.child = app[a].child
      /\ app[a].validator # "none" => s.validator = app[a].validator
      /\ s.validator = "ok" => app[a].validator = "ok" \/ ReadOk(log)
  BY <1>2, CreateValidatorType
<1> HIDE DEF s, todo
<1>4. /\ t.up = s.up /\ t.validator = s.validator /\ t.triggered /\ t.todo = todo
      /\ t.pc = IF todo = {} THEN "none" ELSE "lock"
      /\ t.child = s.child
  BY <1>3 DEF AppStates
<1> HIDE DEF t
<1>5. /\ app'[a] = IF s.validator # "ok" \/ s.triggered THEN s ELSE t
      /\ \A b \in Apps : b # a => app'[b] = app[b]
  BY <1>1 DEF TypeOK
<1> QED BY <1>1, <1>3, <1>4, <1>5, ZenonT(40) DEF todo

\* GetBestAcceleration changes no more than the memo and the stored decision.
LEMMA GetBestEffect ==
  ASSUME TypeOK, NEW a \in Apps, GetBestAcceleration(a)
  PROVE  /\ app[a].up /\ app'[a].up /\ \A b \in Apps : b # a => app'[b] = app[b]
         /\ app[a].validator # "none" => app'[a].validator = app[a].validator
         /\ app'[a].validator = "ok" => app[a].validator = "ok" \/ ReadOk(log)
         /\ app'[a].triggered = app[a].triggered
         /\ app'[a].pc = app[a].pc /\ app'[a].todo = app[a].todo
         /\ app'[a].child = app[a].child
         /\ log' = log /\ child' = child
<1> DEFINE s == CreateValidatorIfNecessary(app[a], log)
<1>1. app[a].up /\ app' = [app EXCEPT ![a] = s] /\ log' = log /\ child' = child
  BY DEF GetBestAcceleration
<1>2. app[a] \in AppStates
  BY DEF TypeOK
<1>3. /\ s.up = app[a].up /\ s.triggered = app[a].triggered /\ s.pc = app[a].pc
      /\ s.todo = app[a].todo /\ s.child = app[a].child
      /\ app[a].validator # "none" => s.validator = app[a].validator
      /\ s.validator = "ok" => app[a].validator = "ok" \/ ReadOk(log)
  BY <1>2, CreateValidatorType
<1> HIDE DEF s
<1>4. app'[a] = s /\ \A b \in Apps : b # a => app'[b] = app[b]
  BY <1>1 DEF TypeOK
<1> QED BY <1>1, <1>3, <1>4

\* A thread that finds the parent's lock taken is done.
LEMMA TryParentLockEffect ==
  ASSUME TypeOK, NEW a \in Apps, TryParentLock(a)
  PROVE  /\ app[a].pc = "lock"
         /\ \/ ThreadMoves(a, "done", app[a].todo, app[a].child)
            \/ /\ \A b \in Apps : ~HoldsParentLock(b)
               /\ ThreadMoves(a, "start", app[a].todo, app[a].child)
         /\ log' = log /\ child' = child /\ memo' = memo /\ decision' = decision
BY DEF TryParentLock, TypeOK, AppStates, ThreadMoves, selector

\* Nothing is written when the runner cannot be initialised.
LEMMA InitFailsEffect ==
  ASSUME TypeOK, NEW a \in Apps, InitFails(a)
  PROVE  /\ app[a].pc = "start" /\ ThreadMoves(a, "initError", app[a].todo, app[a].child)
         /\ log' = log /\ child' = child /\ memo' = memo /\ decision' = decision
BY DEF InitFails, TypeOK, AppStates, ThreadMoves, selector

\* Nothing is started when popen fails.
LEMMA PopenFailsEffect ==
  ASSUME TypeOK, NEW a \in Apps, PopenFails(a)
  PROVE  /\ app[a].pc = "run" /\ ThreadMoves(a, "error", app[a].todo, app[a].child)
         /\ log' = log /\ child' = child /\ memo' = memo /\ decision' = decision
BY DEF PopenFails, TypeOK, AppStates, ThreadMoves, selector

\* A thread starts a child, to write the model to it or to wait for it.
LEMMA RunEffect ==
  ASSUME TypeOK, NEW a \in Apps, Run(a)
  PROVE  /\ app[a].pc = "run"
         /\ \E c \in Children, pc \in {"pipe", "wait"} :
              /\ child[c].pc = "none" /\ ThreadMoves(a, pc, app[a].todo, c)
              /\ \A d \in Children : d # c => child'[d] = child[d]
              /\ child'[c].pc = "lock" /\ child'[c].owner = a /\ child'[c].stdout = a
         /\ log' = log /\ memo' = memo /\ decision' = decision
<1> DEFINE pc == IF app[a].buffer THEN "pipe" ELSE "wait"
<1>1. PICK c \in Children :
        /\ child[c].pc = "none"
        /\ child' = [child EXCEPT ![c] = [NoChild EXCEPT !.pc = "lock", !.owner = a, !.stdout = a,
                                                         !.model = ~app[a].buffer]]
        /\ app' = [app EXCEPT ![a].pc = pc, ![a].child = c]
  BY DEF Run
<1>2. pc \in {"pipe", "wait"}
  OBVIOUS
<1>3. /\ \A d \in Children : d # c => child'[d] = child[d]
      /\ child'[c].pc = "lock" /\ child'[c].owner = a /\ child'[c].stdout = a
  BY <1>1 DEF TypeOK, NoChild
<1> HIDE DEF pc
<1>4. ThreadMoves(a, pc, app[a].todo, c)
  BY <1>1 DEF TypeOK, AppStates, ThreadMoves
<1>5. app[a].pc = "run" /\ log' = log /\ memo' = memo /\ decision' = decision
  BY DEF Run, selector
<1> QED BY <1>1, <1>2, <1>3, <1>4, <1>5

\* A thread that cannot write the model leaves its child behind.
LEMMA PipeFailsEffect ==
  ASSUME TypeOK, Parents, NEW a \in Apps, PipeFails(a)
  PROVE  LET c == app[a].child
         IN  /\ app[a].pc = "pipe" /\ ThreadMoves(a, "error", app[a].todo, 0)
             /\ c \in Children /\ child[c].owner = a
             /\ \A d \in Children : d # c => child'[d] = child[d]
             /\ child'[c].owner = NoApp
             /\ child'[c].pc = IF child[c].pc = "exited" THEN "none" ELSE child[c].pc
             /\ log' = log /\ memo' = memo /\ decision' = decision
<1> DEFINE c == app[a].child
<1>1. /\ app[a].pc = "pipe" /\ app' = [app EXCEPT ![a].pc = "error", ![a].child = 0]
      /\ child' = [child EXCEPT ![c] = IF child[c].pc = "exited" THEN NoChild
                                       ELSE [child[c] EXCEPT !.owner = NoApp]]
      /\ log' = log /\ memo' = memo /\ decision' = decision
  BY DEF PipeFails, selector
<1>2. c \in Children /\ child[c].owner = a
  BY <1>1 DEF Parents, HasChild
<1>3. ThreadMoves(a, "error", app[a].todo, 0)
  BY <1>1 DEF TypeOK, AppStates, ThreadMoves
<1>4. child[c] \in ChildStates
  BY <1>2 DEF TypeOK
<1>5. \A d \in Children : d # c => child'[d] = child[d]
  BY <1>1 DEF TypeOK
<1>6. child'[c] = IF child[c].pc = "exited" THEN NoChild ELSE [child[c] EXCEPT !.owner = NoApp]
  BY <1>1, <1>2 DEF TypeOK
<1>7. /\ child'[c].owner = NoApp
      /\ child'[c].pc = IF child[c].pc = "exited" THEN "none" ELSE child[c].pc
  <2> HIDE DEF c
  <2> QED BY <1>4, <1>6 DEF ChildStates, NoChild
<1> QED BY <1>1, <1>2, <1>3, <1>5, <1>7

\* A thread without a timer waits on.
LEMMA TimerFailsEffect ==
  ASSUME TypeOK, NEW a \in Apps, TimerFails(a)
  PROVE  /\ app[a].pc = "wait" /\ ThreadMoves(a, "drain", app[a].todo, app[a].child)
         /\ log' = log /\ child' = child /\ memo' = memo /\ decision' = decision
BY DEF TimerFails, TypeOK, AppStates, ThreadMoves, selector

\* A thread waits for a child that has read the model.
LEMMA ReadModelEffect ==
  ASSUME TypeOK, NEW c \in Children, ReadModel(c)
  PROVE  LET a == child[c].owner
         IN  /\ a \in Apps /\ app[a].pc = "pipe"
             /\ ThreadMoves(a, "wait", app[a].todo, app[a].child)
             /\ Validating(c) /\ ChildMoves(c, child[c].pc, child[c].setting)
             /\ log' = log /\ memo' = memo /\ decision' = decision
<1> DEFINE a == child[c].owner
<1>1. /\ child[c].pc \in {"affinity", "validate"} /\ a # NoApp /\ app[a].pc = "pipe"
      /\ child' = [child EXCEPT ![c].model = TRUE] /\ app' = [app EXCEPT ![a].pc = "wait"]
      /\ log' = log /\ memo' = memo /\ decision' = decision
  BY DEF ReadModel, selector
<1>2. a \in Apps
  BY <1>1 DEF TypeOK, ChildStates
<1>3. ChildMoves(c, child[c].pc, child[c].setting)
  BY <1>1 DEF ChildMoves, TypeOK, ChildStates
<1>4. Validating(c)
  BY <1>1 DEF Validating
<1> HIDE DEF a
<1>5. ThreadMoves(a, "wait", app[a].todo, app[a].child)
  BY <1>1, <1>2 DEF TypeOK, AppStates, ThreadMoves
<1> QED BY <1>1, <1>2, <1>3, <1>4, <1>5 DEF a

\* The setting of a thread that has something to do, and the record it writes
\* of it.
LEMMA ThreadRecord ==
  ASSUME TypeOK, NEW a \in Apps, app[a].pc = "lock" \/ HoldsParentLock(a),
         NEW type \in {"START", "ERROR"}, NEW r,
         r \in AppendTo(log, Event(type, OneSetting(app[a].todo), FALSE))
  PROVE  \/ ~r.ok /\ r.log = log
         \/ \E e \in Events : /\ e.type = type /\ e.setting = OneSetting(app[a].todo)
                              /\ r.log = Append(log, e)
<1> DEFINE e == Event(type, OneSetting(app[a].todo), FALSE)
<1>1. app[a].todo \in SUBSET Settings /\ app[a].todo # {} /\ log \in Seq(Events)
  BY DEF TypeOK, AppStates
<1>2. OneSetting(app[a].todo) \in Settings
  BY <1>1, OneSettingIsToDo
<1>3. e \in Events /\ e.torn = "no" /\ e.type = type /\ e.setting = OneSetting(app[a].todo)
  BY <1>2 DEF Event, Events
<1> HIDE DEF e
<1>4. r \in AppendTo(log, e)
  BY DEF e
<1> QED BY <1>1, <1>3, <1>4, AppendToResults

\* The START of a setting is in the file before its child is started.
LEMMA AppendStartEffect ==
  ASSUME TypeOK, NEW a \in Apps, AppendStart(a)
  PROVE  /\ app[a].pc = "start"
         /\ \/ StartWritten(a)
            \/ log' = log /\ ThreadMoves(a, "initError", app[a].todo, app[a].child)
         /\ \E pc \in {"run", "initError"} : ThreadMoves(a, pc, app[a].todo, app[a].child)
         /\ child' = child /\ memo' = memo /\ decision' = decision
<1>1. PICK r \in AppendTo(log, Event("START", OneSetting(app[a].todo), FALSE)) :
        /\ log' = r.log
        /\ app' = [app EXCEPT ![a].pc = IF r.ok THEN "run" ELSE "initError"]
  BY DEF AppendStart
<1>2. app[a].pc = "start" /\ child' = child /\ memo' = memo /\ decision' = decision
  BY DEF AppendStart, selector
<1>3. LogGets("START", OneSetting(app[a].todo)) \/ (~r.ok /\ log' = log)
  BY <1>1, <1>2, ThreadRecord, ZenonT(40) DEF LogGets, HoldsParentLock
<1> DEFINE pc == IF r.ok THEN "run" ELSE "initError"
<1>4. pc \in {"run", "initError"} /\ (~r.ok => pc = "initError")
  OBVIOUS
<1>5. app' = [app EXCEPT ![a].pc = pc]
  BY <1>1
<1> HIDE DEF pc
<1>6. ThreadMoves(a, pc, app[a].todo, app[a].child)
  BY <1>5 DEF TypeOK, AppStates, ThreadMoves
<1> QED BY <1>2, <1>3, <1>4, <1>6 DEF StartWritten

\* A thread answers for a child that left no result, and goes on.
LEMMA AppendErrorEffect ==
  ASSUME TypeOK, NEW a \in Apps, AppendError(a)
  PROVE  LET rest == app[a].todo \ {OneSetting(app[a].todo)}
         IN  /\ app[a].pc \in {"initError", "error"} /\ app[a].todo # {}
             /\ log' = log \/ LogGets("ERROR", OneSetting(app[a].todo))
             /\ ThreadMoves(a, IF rest = {} THEN "done" ELSE "start", rest, 0)
             /\ child' = child /\ memo' = memo /\ decision' = decision
<1>1. PICK r \in AppendTo(log, Event("ERROR", OneSetting(app[a].todo), FALSE)) : log' = r.log
  BY DEF AppendError
<1>2. /\ app[a].pc \in {"initError", "error"} /\ child' = child /\ memo' = memo
      /\ decision' = decision /\ app' = [app EXCEPT ![a] = NextSetting(app[a])]
  BY DEF AppendError, selector
<1>3. log' = log \/ LogGets("ERROR", OneSetting(app[a].todo))
  BY <1>1, <1>2, ThreadRecord, ZenonT(40) DEF LogGets, HoldsParentLock
<1>4. app[a] \in AppStates /\ app[a].todo # {}
  BY <1>2 DEF TypeOK, HoldsParentLock
<1>5. app'[a] = NextSetting(app[a]) /\ \A b \in Apps : b # a => app'[b] = app[b]
  BY <1>2 DEF TypeOK
<1> QED BY <1>2, <1>3, <1>4, <1>5, NextSettingType DEF ThreadMoves

\* A thread goes on when its child has succeeded and has an error to write when not.
LEMMA ReapEffect ==
  ASSUME TypeOK, Parents, NEW a \in Apps, Reap(a)
  PROVE  LET c == app[a].child
             rest == app[a].todo \ {OneSetting(app[a].todo)}
         IN  /\ app[a].pc \in {"wait", "drain"} /\ app[a].todo # {}
             /\ c \in Children /\ child[c].pc = "exited" /\ child[c].owner = a
             /\ IF child[c].exit THEN ThreadMoves(a, IF rest = {} THEN "done" ELSE "start", rest, 0)
                ELSE ThreadMoves(a, "error", app[a].todo, 0)
             /\ \A d \in Children : d # c => child'[d] = child[d]
             /\ child'[c].pc = "none" /\ child'[c].owner = NoApp
             /\ log' = log /\ memo' = memo /\ decision' = decision
<1> DEFINE c == app[a].child
           t == IF child[c].exit THEN NextSetting(app[a])
                ELSE [app[a] EXCEPT !.pc = "error", !.child = 0]
<1>1. /\ app[a].pc \in {"wait", "drain"} /\ child[c].pc = "exited"
      /\ app' = [app EXCEPT ![a] = t]
      /\ child' = [child EXCEPT ![c] = NoChild]
      /\ log' = log /\ memo' = memo /\ decision' = decision
  BY DEF Reap, selector
<1>2. c \in Children /\ child[c].owner = a
  BY <1>1 DEF Parents, HasChild
<1>3. app[a] \in AppStates /\ app[a].todo # {}
  BY <1>1 DEF TypeOK, HoldsParentLock, HasChild
<1>4. app'[a] = t /\ \A b \in Apps : b # a => app'[b] = app[b]
  BY <1>1 DEF TypeOK
<1>5. /\ \A d \in Children : d # c => child'[d] = child[d]
      /\ child'[c].pc = "none" /\ child'[c].owner = NoApp
  BY <1>1, <1>2 DEF TypeOK, NoChild
<1>6. CASE child[c].exit
  BY <1>1, <1>2, <1>3, <1>4, <1>5, <1>6, NextSettingType DEF ThreadMoves
<1>7. CASE ~child[c].exit
  <2>1. app'[a] = [app[a] EXCEPT !.pc = "error", !.child = 0]
    BY <1>4, <1>7
  <2>2. ThreadMoves(a, "error", app[a].todo, 0)
    BY <1>3, <1>4, <2>1 DEF ThreadMoves, AppStates
  <2> QED BY <1>1, <1>2, <1>3, <1>5, <1>7, <2>2
<1> QED BY <1>6, <1>7

\* A child leaves its loop.
LEMMA ExitEffect ==
  ASSUME TypeOK, NEW c \in Children, NEW ok \in BOOLEAN,
         child' = [child EXCEPT ![c] = Exited(c, ok)]
  PROVE  ChildExits(c, ok)
<1>1. child'[c] = Exited(c, ok) /\ \A d \in Children : d # c => child'[d] = child[d]
  BY DEF TypeOK
<1> QED BY <1>1, ExitedType DEF ChildExits, NoChild

\* A child that runs out of time ends without success.
LEMMA TimedOutEffect ==
  ASSUME TypeOK, Parents, NEW a \in Apps, KillProcessWhenTimedOut(a)
  PROVE  /\ \E c \in Children : ChildExits(c, FALSE) /\ child[c].pc # "none"
         /\ log' = log /\ app' = app /\ memo' = memo /\ decision' = decision
<1>1. app[a].child \in Children
  BY DEF KillProcessWhenTimedOut, Parents, HasChild
<1>2. ChildExits(app[a].child, FALSE)
  BY <1>1, ExitEffect DEF KillProcessWhenTimedOut
<1> QED BY <1>1, <1>2 DEF KillProcessWhenTimedOut, selector

\* A child that finds the child's lock taken ends.
LEMMA TryChildLockEffect ==
  ASSUME TypeOK, NEW c \in Children, TryChildLock(c)
  PROVE  /\ child[c].pc = "lock"
         /\ \/ ChildExits(c, FALSE)
            \/ /\ \A d \in Children : ~HoldsChildLock(d)
               /\ ChildMoves(c, "pid", child[c].setting)
         /\ log' = log /\ app' = app /\ memo' = memo /\ decision' = decision
<1>1. /\ child[c].pc = "lock" /\ log' = log /\ app' = app /\ memo' = memo /\ decision' = decision
      /\ child' = [child EXCEPT ![c] = IF \E d \in Children : HoldsChildLock(d) THEN Exited(c, FALSE)
                                       ELSE [child[c] EXCEPT !.pc = "pid"]]
  BY DEF TryChildLock, selector
<1>2. CASE \E d \in Children : HoldsChildLock(d)
  <2>1. child' = [child EXCEPT ![c] = Exited(c, FALSE)]
    BY <1>1, <1>2
  <2> QED BY <1>1, <2>1, ExitEffect
<1>3. CASE ~ \E d \in Children : HoldsChildLock(d)
  <2>1. child' = [child EXCEPT ![c] = [child[c] EXCEPT !.pc = "pid"]]
    BY <1>1, <1>3
  <2>2. ChildMoves(c, "pid", child[c].setting)
    BY <2>1 DEF ChildMoves, TypeOK, ChildStates
  <2> QED BY <1>1, <1>3, <2>2
<1> QED BY <1>2, <1>3

\* The pid reaches whoever waits for it.
LEMMA WritePidEffect ==
  ASSUME TypeOK, Parents, NEW c \in Children, WritePid(c)
  PROVE  /\ child[c].pc = "pid"
         /\ \/ ChildExits(c, FALSE)
            \/ ChildMoves(c, "read", child[c].setting)
         /\ log' = log /\ app' = app /\ memo' = memo /\ decision' = decision
<1>1. /\ child[c].pc = "pid" /\ log' = log /\ app' = app /\ memo' = memo /\ decision' = decision
      /\ child' = [child EXCEPT ![c] = IF child[c].stdout = NoApp THEN NoChild
                                       ELSE [child[c] EXCEPT !.pc = "read"]]
  BY DEF WritePid, selector
<1>2. CASE child[c].stdout = NoApp
  <2>1. child' = [child EXCEPT ![c] = NoChild] /\ child[c].owner = NoApp
    BY <1>1, <1>2 DEF Parents
  <2>2. ChildExits(c, FALSE)
    BY <2>1 DEF ChildExits, TypeOK, NoChild
  <2> QED BY <1>1, <2>2
<1>3. CASE child[c].stdout # NoApp
  <2>1. child' = [child EXCEPT ![c] = [child[c] EXCEPT !.pc = "read"]]
    BY <1>1, <1>3
  <2>2. ChildMoves(c, "read", child[c].setting)
    BY <2>1 DEF ChildMoves, TypeOK, ChildStates
  <2> QED BY <1>1, <2>2
<1> QED BY <1>2, <1>3

\* A child takes the last START of a file it can read for its request.
LEMMA ReadStorageEffect ==
  ASSUME TypeOK, NEW c \in Children, ReadStorage(c)
  PROVE  /\ child[c].pc = "read"
         /\ \/ ChildExits(c, FALSE)
            \/ ReadOk(log) /\ ChildMoves(c, "affinity", Request(log))
         /\ log' = log /\ app' = app /\ memo' = memo /\ decision' = decision
<1>1. child[c].pc = "read" /\ log' = log /\ app' = app /\ memo' = memo /\ decision' = decision
  BY DEF ReadStorage, selector
<1>2. CASE child' = [child EXCEPT ![c] = Exited(c, FALSE)]
  BY <1>1, <1>2, ExitEffect
<1>3. CASE /\ ReadOk(log)
           /\ child' = [child EXCEPT ![c].pc = "affinity", ![c].setting = Request(Contents(log))]
  <2>1. Contents(log) = log
    BY <1>3 DEF Contents
  <2>2. child' = [child EXCEPT ![c].pc = "affinity", ![c].setting = Request(log)]
    BY <1>3, <2>1
  <2>3. ChildMoves(c, "affinity", Request(log))
    BY <2>2 DEF ChildMoves, TypeOK, ChildStates
  <2> QED BY <1>1, <1>3, <2>3
<1> QED BY <1>2, <1>3 DEF ReadStorage

\* A failed CPU affinity is recorded and the file read again.
LEMMA AffinityErrorEffect ==
  ASSUME TypeOK, NEW c \in Children, AffinityError(c)
  PROVE  /\ child[c].pc = "affinity" /\ (log' = log \/ LogGets("RECOVERED_ERROR", Cpu))
         /\ ChildMoves(c, "validate", child'[c].setting)
         /\ ReadOk(log') => child'[c].setting \in {Request(log'), NoRequest}
         /\ app' = app /\ memo' = memo /\ decision' = decision
<1> DEFINE e == Event("RECOVERED_ERROR", Cpu, FALSE)
<1>1. PICK r \in AppendTo(log, e) :
        /\ log' = r.log
        /\ child' = [child EXCEPT ![c].pc = "validate", ![c].setting = Request(r.contents)]
  BY DEF AffinityError
<1>2. child[c].pc = "affinity" /\ app' = app /\ memo' = memo /\ decision' = decision
  BY DEF AffinityError, selector
<1>3. e \in Events /\ e.torn = "no" /\ e.type = "RECOVERED_ERROR" /\ e.setting = Cpu
  BY CpuAssumption DEF Event, Events
<1> HIDE DEF e
<1>4. /\ \/ r.log = log
         \/ \E d \in Events : d.type = e.type /\ d.setting = e.setting /\ r.log = Append(log, d)
      /\ ReadOk(r.log) => r.contents = r.log \/ r.contents = << >>
  BY <1>3, AppendToResults DEF TypeOK
<1>5. log' = log \/ LogGets("RECOVERED_ERROR", Cpu)
  BY <1>1, <1>3, <1>4 DEF LogGets
<1>6. /\ ChildMoves(c, "validate", child'[c].setting)
      /\ child'[c].setting = Request(r.contents)
  BY <1>1 DEF ChildMoves, TypeOK, ChildStates
<1>7. Request(<< >>) = NoRequest
  BY DEF Request
<1>8. ReadOk(log') => child'[c].setting \in {Request(log'), NoRequest}
  BY <1>1, <1>4, <1>6, <1>7
<1> QED BY <1>2, <1>5, <1>6, <1>8

\* A validation ends with a result to write, in a crash, or not at all.
LEMMA ValidateEffect ==
  ASSUME TypeOK, NEW c \in Children, Validate(c)
  PROVE  /\ child[c].pc \in {"affinity", "validate"}
         /\ \/ ChildExits(c, FALSE)
            \/ \E pc \in {"error", "end", "hung"} :
                 ChildMoves(c, pc, child[c].setting) /\ (child[c].setting = NoRequest => pc = "error")
         /\ log' = log /\ app' = app /\ memo' = memo /\ decision' = decision
<1>1. /\ child[c].pc \in {"affinity", "validate"}
      /\ log' = log /\ app' = app /\ memo' = memo /\ decision' = decision
  BY DEF Validate, selector
<1>2. CASE \E pc \in {"error", "end", "hung"} :
             child' = [child EXCEPT ![c].pc = pc] /\ (child[c].setting = NoRequest => pc = "error")
  <2>1. PICK pc \in {"error", "end", "hung"} :
          child' = [child EXCEPT ![c].pc = pc] /\ (child[c].setting = NoRequest => pc = "error")
    BY <1>2
  <2>2. ChildMoves(c, pc, child[c].setting)
    BY <2>1 DEF ChildMoves, TypeOK, ChildStates
  <2> QED BY <1>1, <2>1, <2>2
<1>3. CASE child' = [child EXCEPT ![c] = Exited(c, FALSE)]
  BY <1>1, <1>3, ExitEffect
<1> QED BY <1>2, <1>3 DEF Validate

\* A child writes its result and ends.
LEMMA AppendResultEffect ==
  ASSUME TypeOK, NEW c \in Children, AppendResult(c)
  PROVE  LET s == IF child[c].setting = NoRequest THEN Cpu ELSE child[c].setting
         IN  /\ child[c].pc \in {"end", "error"}
             /\ \E ok \in BOOLEAN :
                  /\ ChildExits(c, ok)
                  /\ LogGets("END", s) \/ LogGets("ERROR", s) \/ (~ok /\ log' = log)
             /\ app' = app /\ memo' = memo /\ decision' = decision
<1> DEFINE type == IF child[c].pc = "end" THEN "END" ELSE "ERROR"
           s == IF child[c].setting = NoRequest THEN Cpu ELSE child[c].setting
<1>1. PICK ok \in BOOLEAN, late \in {0, 1} :
        \E r \in AppendTo(log, Event(type, s, ok)) :
          log' = r.log /\ child' = [child EXCEPT ![c] = Exited(c, r.ok /\ late = 0)]
  BY DEF AppendResult
<1>2. /\ child[c].pc \in {"end", "error"} /\ app' = app /\ memo' = memo /\ decision' = decision
      /\ type \in {"END", "ERROR"}
  BY DEF AppendResult, selector
<1>3. s \in Settings
  BY CpuAssumption DEF TypeOK, ChildStates
<1> DEFINE e == Event(type, s, ok)
<1> HIDE DEF type, s
<1>4. e \in Events /\ e.torn = "no" /\ e.type = type /\ e.setting = s
  BY <1>2, <1>3 DEF Event, Events
<1>5. PICK r \in AppendTo(log, e) :
        log' = r.log /\ child' = [child EXCEPT ![c] = Exited(c, r.ok /\ late = 0)]
  BY <1>1
<1> HIDE DEF e
<1>6. /\ \/ ~r.ok /\ r.log = log
         \/ \E d \in Events : d.type = type /\ d.setting = s /\ r.log = Append(log, d)
      /\ r.ok \in BOOLEAN
  BY <1>4, AppendToResults DEF TypeOK
<1> DEFINE done == r.ok /\ late = 0
<1>7. LogGets("END", s) \/ LogGets("ERROR", s) \/ (~done /\ log' = log)
  BY <1>2, <1>5, <1>6 DEF LogGets
<1>8. done \in BOOLEAN
  BY <1>6
<1>9. child' = [child EXCEPT ![c] = Exited(c, done)]
  BY <1>5
<1> HIDE DEF done
<1>10. ChildExits(c, done)
  BY <1>8, <1>9, ExitEffect
<1> QED BY <1>2, <1>7, <1>8, <1>10 DEF s

-----------------------------------------------------------------------------
(***************************************************************************)
(* Who runs, who holds a lock and who waits for whom.                      *)
(***************************************************************************)

\* An application that is down or not triggered has nothing to do.
LEMMA ApplicationsStep ==
  ASSUME TypeOK, Applications, Locks, Parents, Next
  PROVE  Applications'
<1>1. ASSUME NEW a \in Apps, Launch(a) PROVE Applications'
  BY <1>1, LaunchEffect DEF Applications
<1>2. ASSUME NEW a \in Apps, Kill(a) PROVE Applications'
  BY <1>2, KillEffect DEF Applications
<1>3. ASSUME NEW a \in Apps, TriggerMiniBenchmark(a) PROVE Applications'
  BY <1>3, TriggerEffect DEF Applications
<1>4. ASSUME NEW a \in Apps, GetBestAcceleration(a) PROVE Applications'
  BY <1>4, GetBestEffect DEF Applications
<1>5. ASSUME NEW a \in Apps, TryParentLock(a) PROVE Applications'
  BY <1>5, TryParentLockEffect DEF Applications, ThreadMoves
<1>6. ASSUME NEW a \in Apps, InitFails(a) PROVE Applications'
  BY <1>6, InitFailsEffect DEF Applications, ThreadMoves
<1>7. ASSUME NEW a \in Apps, AppendStart(a) PROVE Applications'
  BY <1>7, AppendStartEffect DEF Applications, ThreadMoves
<1>8. ASSUME NEW a \in Apps, AppendError(a) PROVE Applications'
  BY <1>8, AppendErrorEffect DEF Applications, ThreadMoves
<1>9. ASSUME NEW a \in Apps, PopenFails(a) PROVE Applications'
  BY <1>9, PopenFailsEffect DEF Applications, ThreadMoves
<1>10. ASSUME NEW a \in Apps, Run(a) PROVE Applications'
  BY <1>10, RunEffect DEF Applications, ThreadMoves
<1>11. ASSUME NEW a \in Apps, Reap(a) PROVE Applications'
  BY <1>11, ReapEffect DEF Applications, ThreadMoves
<1>12. ASSUME NEW a \in Apps, KillProcessWhenTimedOut(a) PROVE Applications'
  BY <1>12, TimedOutEffect DEF Applications
<1>13. ASSUME NEW c \in Children, TryChildLock(c) PROVE Applications'
  BY <1>13, TryChildLockEffect DEF Applications
<1>14. ASSUME NEW c \in Children, WritePid(c) PROVE Applications'
  BY <1>14, WritePidEffect DEF Applications
<1>15. ASSUME NEW c \in Children, ReadStorage(c) PROVE Applications'
  BY <1>15, ReadStorageEffect DEF Applications
<1>16. ASSUME NEW c \in Children, AffinityError(c) PROVE Applications'
  BY <1>16, AffinityErrorEffect DEF Applications
<1>17. ASSUME NEW c \in Children, Validate(c) PROVE Applications'
  BY <1>17, ValidateEffect DEF Applications
<1>18. ASSUME NEW c \in Children, AppendResult(c) PROVE Applications'
  BY <1>18, AppendResultEffect DEF Applications
<1>19. ASSUME NEW a \in Apps, PipeFails(a) PROVE Applications'
  BY <1>19, PipeFailsEffect DEF Applications, ThreadMoves
<1>20. ASSUME NEW a \in Apps, TimerFails(a) PROVE Applications'
  BY <1>20, TimerFailsEffect DEF Applications, ThreadMoves
<1>21. ASSUME NEW c \in Children, ReadModel(c) PROVE Applications'
  BY <1>21, ReadModelEffect DEF Applications, ThreadMoves, ChildMoves
<1> QED BY <1>1, <1>2, <1>3, <1>4, <1>5, <1>6, <1>7, <1>8, <1>9, <1>10, <1>11, <1>12,
           <1>13, <1>14, <1>15, <1>16, <1>17, <1>18, <1>19, <1>20, <1>21 DEF Next, ThreadStep, ChildStep

\* flock is exclusive: a thread or a child goes on past its lock only when nobody
\* holds it.
LEMMA LocksStep ==
  ASSUME TypeOK, Applications, Locks, Parents, Next
  PROVE  Locks'
<1>1. ASSUME NEW a \in Apps, Launch(a) PROVE Locks'
  BY <1>1, LaunchEffect DEF Locks, HoldsParentLock, HasChild, HoldsChildLock
<1>2. ASSUME NEW a \in Apps, Kill(a) PROVE Locks'
  BY <1>2, KillEffect DEF Locks, HoldsParentLock, HasChild, HoldsChildLock
<1>3. ASSUME NEW a \in Apps, TriggerMiniBenchmark(a) PROVE Locks'
  BY <1>3, TriggerEffect DEF Locks, HoldsParentLock, HasChild, HoldsChildLock
<1>4. ASSUME NEW a \in Apps, GetBestAcceleration(a) PROVE Locks'
  BY <1>4, GetBestEffect DEF Locks, HoldsParentLock, HasChild, HoldsChildLock
<1>5. ASSUME NEW a \in Apps, TryParentLock(a) PROVE Locks'
  BY <1>5, TryParentLockEffect DEF Locks, HoldsParentLock, HasChild, HoldsChildLock, ThreadMoves
<1>6. ASSUME NEW a \in Apps, InitFails(a) PROVE Locks'
  BY <1>6, InitFailsEffect DEF Locks, HoldsParentLock, HasChild, HoldsChildLock, ThreadMoves
<1>7. ASSUME NEW a \in Apps, AppendStart(a) PROVE Locks'
  BY <1>7, AppendStartEffect DEF Locks, HoldsParentLock, HasChild, HoldsChildLock, ThreadMoves
<1>8. ASSUME NEW a \in Apps, AppendError(a) PROVE Locks'
  BY <1>8, AppendErrorEffect DEF Locks, HoldsParentLock, HasChild, HoldsChildLock, ThreadMoves
<1>9. ASSUME NEW a \in Apps, PopenFails(a) PROVE Locks'
  BY <1>9, PopenFailsEffect DEF Locks, HoldsParentLock, HasChild, HoldsChildLock, ThreadMoves
<1>10. ASSUME NEW a \in Apps, Run(a) PROVE Locks'
  BY <1>10, RunEffect DEF Locks, HoldsParentLock, HasChild, HoldsChildLock, ThreadMoves
<1>11. ASSUME NEW a \in Apps, Reap(a) PROVE Locks'
  BY <1>11, ReapEffect DEF Locks, HoldsParentLock, HasChild, HoldsChildLock, ThreadMoves
<1>12. ASSUME NEW a \in Apps, KillProcessWhenTimedOut(a) PROVE Locks'
  BY <1>12, TimedOutEffect DEF Locks, HoldsParentLock, HasChild, HoldsChildLock, ChildMoves, ChildExits
<1>13. ASSUME NEW c \in Children, TryChildLock(c) PROVE Locks'
  BY <1>13, TryChildLockEffect, ZenonT(40) DEF Locks, HoldsParentLock, HasChild, HoldsChildLock, ChildMoves, ChildExits
<1>14. ASSUME NEW c \in Children, WritePid(c) PROVE Locks'
  BY <1>14, WritePidEffect, ZenonT(40) DEF Locks, HoldsParentLock, HasChild, HoldsChildLock, ChildMoves, ChildExits
<1>15. ASSUME NEW c \in Children, ReadStorage(c) PROVE Locks'
  BY <1>15, ReadStorageEffect, ZenonT(40) DEF Locks, HoldsParentLock, HasChild, HoldsChildLock, ChildMoves, ChildExits
<1>16. ASSUME NEW c \in Children, AffinityError(c) PROVE Locks'
  BY <1>16, AffinityErrorEffect DEF Locks, HoldsParentLock, HasChild, HoldsChildLock, ChildMoves, ChildExits
<1>17. ASSUME NEW c \in Children, Validate(c) PROVE Locks'
  BY <1>17, ValidateEffect, ZenonT(40) DEF Locks, HoldsParentLock, HasChild, HoldsChildLock, ChildMoves, ChildExits
<1>18. ASSUME NEW c \in Children, AppendResult(c) PROVE Locks'
  BY <1>18, AppendResultEffect DEF Locks, HoldsParentLock, HasChild, HoldsChildLock, ChildMoves, ChildExits
<1>19. ASSUME NEW a \in Apps, PipeFails(a) PROVE Locks'
  BY <1>19, PipeFailsEffect DEF Locks, HoldsParentLock, HasChild, HoldsChildLock, ThreadMoves
<1>20. ASSUME NEW a \in Apps, TimerFails(a) PROVE Locks'
  BY <1>20, TimerFailsEffect DEF Locks, HoldsParentLock, HasChild, HoldsChildLock, ThreadMoves
<1>21. ASSUME NEW c \in Children, ReadModel(c) PROVE Locks'
  BY <1>21, ReadModelEffect DEF Locks, HoldsParentLock, HasChild, HoldsChildLock, ThreadMoves, ChildMoves
<1> QED BY <1>1, <1>2, <1>3, <1>4, <1>5, <1>6, <1>7, <1>8, <1>9, <1>10, <1>11, <1>12,
           <1>13, <1>14, <1>15, <1>16, <1>17, <1>18, <1>19, <1>20, <1>21 DEF Next, ThreadStep, ChildStep

\* A thread and the child it waits for lose each other together.
LEMMA ParentsStep ==
  ASSUME TypeOK, Applications, Locks, Parents, Next
  PROVE  Parents'
<1>1. \A c \in Children : child[c].owner \in Apps \union {NoApp}
  BY DEF TypeOK, ChildStates
<1>2. ASSUME NEW a \in Apps, Launch(a) PROVE Parents'
  BY <1>2, NoAppAssumption, LaunchEffect DEF Parents, HasChild, Applications
<1>3. ASSUME NEW a \in Apps, Kill(a) PROVE Parents'
  BY <1>3, <1>1, NoAppAssumption, KillEffect DEF Parents, HasChild
<1>4. ASSUME NEW a \in Apps, TriggerMiniBenchmark(a) PROVE Parents'
  BY <1>4, NoAppAssumption, TriggerEffect DEF Parents, HasChild, Applications
<1>5. ASSUME NEW a \in Apps, GetBestAcceleration(a) PROVE Parents'
  BY <1>5, <1>1, NoAppAssumption, GetBestEffect DEF Parents, HasChild
<1>6. ASSUME NEW a \in Apps, TryParentLock(a) PROVE Parents'
  BY <1>6, <1>1, NoAppAssumption, TryParentLockEffect DEF Parents, HasChild, ThreadMoves
<1>7. ASSUME NEW a \in Apps, InitFails(a) PROVE Parents'
  BY <1>7, <1>1, NoAppAssumption, InitFailsEffect DEF Parents, HasChild, ThreadMoves
<1>8. ASSUME NEW a \in Apps, AppendStart(a) PROVE Parents'
  BY <1>8, <1>1, NoAppAssumption, AppendStartEffect DEF Parents, HasChild, ThreadMoves
<1>9. ASSUME NEW a \in Apps, AppendError(a) PROVE Parents'
  BY <1>9, <1>1, NoAppAssumption, AppendErrorEffect DEF Parents, HasChild, ThreadMoves
<1>10. ASSUME NEW a \in Apps, PopenFails(a) PROVE Parents'
  BY <1>10, <1>1, NoAppAssumption, PopenFailsEffect DEF Parents, HasChild, ThreadMoves
<1>11. ASSUME NEW a \in Apps, Run(a) PROVE Parents'
  BY <1>11, <1>1, NoAppAssumption, RunEffect DEF Parents, HasChild, ThreadMoves
<1>12. ASSUME NEW a \in Apps, Reap(a) PROVE Parents'
  BY <1>12, <1>1, NoAppAssumption, ReapEffect DEF Parents, HasChild, ThreadMoves
<1>13. ASSUME NEW c \in Children, NEW ok, ChildExits(c, ok), app' = app PROVE Parents'
  BY <1>13, <1>1, NoAppAssumption DEF Parents, HasChild, ChildExits
<1>14. ASSUME NEW c \in Children, NEW pc, NEW s, ChildMoves(c, pc, s), app' = app,
              child[c].pc # "none", pc # "none"
       PROVE  Parents'
  BY <1>14, <1>1, NoAppAssumption DEF Parents, HasChild, ChildMoves
<1>15. ASSUME NEW a \in Apps, KillProcessWhenTimedOut(a) PROVE Parents'
  BY <1>13, <1>15, TimedOutEffect
<1>16. ASSUME NEW c \in Children, TryChildLock(c) PROVE Parents'
  BY <1>13, <1>14, <1>16, TryChildLockEffect
<1>17. ASSUME NEW c \in Children, WritePid(c) PROVE Parents'
  BY <1>13, <1>14, <1>17, WritePidEffect
<1>18. ASSUME NEW c \in Children, ReadStorage(c) PROVE Parents'
  BY <1>13, <1>14, <1>18, ReadStorageEffect
<1>19. ASSUME NEW c \in Children, AffinityError(c) PROVE Parents'
  BY <1>14, <1>19, AffinityErrorEffect
<1>20. ASSUME NEW c \in Children, Validate(c) PROVE Parents'
  BY <1>13, <1>14, <1>20, ValidateEffect
<1>21. ASSUME NEW c \in Children, AppendResult(c) PROVE Parents'
  BY <1>13, <1>21, AppendResultEffect
<1>22. ASSUME NEW a \in Apps, PipeFails(a) PROVE Parents'
  BY <1>22, <1>1, NoAppAssumption, PipeFailsEffect DEF Parents, HasChild, ThreadMoves
<1>23. ASSUME NEW a \in Apps, TimerFails(a) PROVE Parents'
  BY <1>23, <1>1, NoAppAssumption, TimerFailsEffect DEF Parents, HasChild, ThreadMoves
<1>24. ASSUME NEW c \in Children, ReadModel(c) PROVE Parents'
  BY <1>24, <1>1, NoAppAssumption, ReadModelEffect
     DEF Parents, HasChild, ThreadMoves, ChildMoves, Validating
<1> QED BY <1>2, <1>3, <1>4, <1>5, <1>6, <1>7, <1>8, <1>9, <1>10, <1>11, <1>12, <1>15, <1>16,
           <1>17, <1>18, <1>19, <1>20, <1>21, <1>22, <1>23, <1>24 DEF Next, ThreadStep, ChildStep

-----------------------------------------------------------------------------
(***************************************************************************)
(* What an append leaves true of the file.                                 *)
(***************************************************************************)

\* No START is added.
LogKeepsStarts ==
  log' = log \/ \E e \in Events : e.type # "START" /\ log' = Append(log, e)

\* What is appended, unless it is a START, leaves requests and attempts as they are.
LEMMA KeptByLog ==
  ASSUME TypeOK, LogKeepsStarts
  PROVE  /\ ReadOk(log') => ReadOk(log)
         /\ Request(log') = Request(log)
         /\ \A s : Starts(log', s) = Starts(log, s)
         /\ \A s : Answered(log, s) => Answered(log', s)
<1>1. CASE log' = log
  BY <1>1
<1>2. ASSUME NEW e \in Events, e.type # "START", log' = Append(log, e)
      PROVE  /\ ReadOk(log') => ReadOk(log)
             /\ Request(log') = Request(log)
             /\ \A s : Starts(log', s) = Starts(log, s)
             /\ \A s : Answered(log, s) => Answered(log', s)
  <2>1. log \in Seq(Events) /\ Len(log) \in Nat
    BY DEF TypeOK
  <2>2. ReadOk(log') => ReadOk(log)
    BY <1>2, <2>1, AppendGrows
  <2>3. Request(log') = Request(log)
    BY <1>2, <2>1, AppendRequest
  <2>4. \A s : Starts(log', s) = Starts(log, s)
    BY <1>2, <2>1, AppendStarts
  <2>5. Len(log') = Len(log) + 1 /\ \A i \in 1..Len(log) : log'[i] = log[i]
    BY <1>2, <2>1, AppendGrows
  <2>6. ASSUME NEW s, Answered(log, s), NEW i \in Starts(log', s)
        PROVE  \E j \in (i + 1)..Len(log') : IsResult(log'[j]) /\ log'[j].setting = s
    <3>1. i \in Nat /\ i \in Starts(log, s)
      BY <2>1, <2>4, <2>6 DEF Starts
    <3>2. PICK j \in (i + 1)..Len(log) : IsResult(log[j]) /\ log[j].setting = s
      BY <2>6, <3>1 DEF Answered
    <3>3. j \in (i + 1)..Len(log') /\ log'[j] = log[j]
      BY <2>1, <2>5, <3>1, <3>2
    <3> QED BY <3>2, <3>3
  <2>7. \A s : Answered(log, s) => Answered(log', s)
    BY <2>6 DEF Answered
  <2> QED BY <2>2, <2>3, <2>4, <2>7
<1> QED BY <1>1, <1>2 DEF LogKeepsStarts

\* Only AppendStart adds a START.
LEMMA LogStep ==
  ASSUME TypeOK, Parents, Next
  PROVE  LogKeepsStarts \/ \E a \in Apps : StartWritten(a)
<1>1. ASSUME NEW type, type # "START", NEW s, LogGets(type, s) PROVE LogKeepsStarts
  BY <1>1 DEF LogGets, LogKeepsStarts
<1>2. ASSUME NEW a \in Apps,
             \/ Launch(a) \/ Kill(a) \/ TriggerMiniBenchmark(a) \/ GetBestAcceleration(a)
             \/ TryParentLock(a) \/ InitFails(a) \/ PopenFails(a) \/ Run(a) \/ PipeFails(a)
             \/ TimerFails(a) \/ Reap(a)
             \/ KillProcessWhenTimedOut(a)
      PROVE  LogKeepsStarts
  BY <1>2, KillEffect, TriggerEffect, GetBestEffect, TryParentLockEffect, InitFailsEffect,
     PopenFailsEffect, RunEffect, PipeFailsEffect, TimerFailsEffect, ReapEffect, TimedOutEffect
     DEF LogKeepsStarts, Launch
<1>3. ASSUME NEW a \in Apps, AppendError(a) PROVE LogKeepsStarts
  BY <1>1, <1>3, AppendErrorEffect DEF LogKeepsStarts
<1>4. ASSUME NEW c \in Children,
             TryChildLock(c) \/ WritePid(c) \/ ReadStorage(c) \/ ReadModel(c) \/ Validate(c)
      PROVE  LogKeepsStarts
  BY <1>4, TryChildLockEffect, WritePidEffect, ReadStorageEffect, ReadModelEffect,
     ValidateEffect
     DEF LogKeepsStarts
<1>5. ASSUME NEW c \in Children, AffinityError(c) PROVE LogKeepsStarts
  BY <1>1, <1>5, AffinityErrorEffect DEF LogKeepsStarts
<1>6. ASSUME NEW c \in Children, AppendResult(c) PROVE LogKeepsStarts
  BY <1>1, <1>6, AppendResultEffect DEF LogKeepsStarts
<1>7. ASSUME NEW a \in Apps, AppendStart(a) PROVE LogKeepsStarts \/ StartWritten(a)
  BY <1>7, AppendStartEffect DEF LogKeepsStarts
<1> QED BY <1>2, <1>3, <1>4, <1>5, <1>6, <1>7 DEF Next, ThreadStep, ChildStep

-----------------------------------------------------------------------------
(***************************************************************************)
(* The selector's memos.                                                   *)
(***************************************************************************)

\* A sound memo stays sound, and the new one of GetBestAcceleration is sound.
LEMMA MemoisedStep ==
  ASSUME TypeOK, Parents, Memoised, Next
  PROVE  Memoised'
<1>1. \A m : MemoOf(m, log) => MemoOf(m, log')
  <2>1. log' = log \/ \E e \in Events : log' = Append(log, e)
    BY LogStep DEF LogKeepsStarts, StartWritten, LogGets
  <2> QED BY <2>1, AppendKeepsMemo DEF TypeOK
<1>2. ASSUME UNCHANGED <<memo, decision>> PROVE Memoised'
  BY <1>1, <1>2 DEF Memoised
<1>3. ASSUME NEW a \in Apps, Launch(a) PROVE Memoised'
  <2>1. memo'[a] = decision /\ \A b \in Apps : b # a => memo'[b] = memo[b]
    BY <1>3 DEF Launch, TypeOK
  <2>2. decision' = decision
    BY <1>3 DEF Launch
  <2> QED BY <1>1, <2>1, <2>2 DEF Memoised
<1>4. ASSUME NEW a \in Apps, Kill(a) PROVE Memoised'
  BY <1>1, <1>4, KillEffect DEF Memoised, NoMemo
<1>5. ASSUME NEW a \in Apps, GetBestAcceleration(a) PROVE Memoised'
  <2> DEFINE best == BestAcceleration(memo[a], log, GetSuccessfulResults(log))
             s == CreateValidatorIfNecessary(app[a], log)
  <2>1. /\ memo' = IF s.validator = "ok" THEN [memo EXCEPT ![a] = best.memo] ELSE memo
        /\ decision' = IF memo'[a] # memo[a] THEN memo'[a] ELSE decision
        /\ log' = log
    BY <1>5 DEF GetBestAcceleration
  <2>2. best.memo.some => MemoOf(best.memo, log)
    BY BestAccelerationIsBest DEF TypeOK, Memoised
  <2> HIDE DEF best, s
  <2>3. memo'[a].some => MemoOf(memo'[a], log)
    BY <2>1, <2>2 DEF Memoised, TypeOK
  <2>4. \A b \in Apps : b # a => memo'[b] = memo[b]
    BY <2>1 DEF TypeOK
  <2> QED BY <2>1, <2>3, <2>4 DEF Memoised
<1>6. ASSUME NEW a \in Apps,
             TriggerMiniBenchmark(a) \/ ThreadStep(a) \/ KillProcessWhenTimedOut(a)
      PROVE  Memoised'
  BY <1>2, <1>6 DEF TriggerMiniBenchmark, ThreadStep, KillProcessWhenTimedOut, TryParentLock,
     InitFails, AppendStart, AppendError, PopenFails, Run, PipeFails, TimerFails, Reap, selector
<1>7. ASSUME NEW c \in Children, ChildStep(c) PROVE Memoised'
  BY <1>2, <1>7 DEF ChildStep, TryChildLock, WritePid, ReadStorage, AffinityError, ReadModel,
     Validate, AppendResult, selector
<1> QED BY <1>3, <1>4, <1>5, <1>6, <1>7 DEF Next

-----------------------------------------------------------------------------
(***************************************************************************)
(* The request a child reads, and the answer its parent finds.             *)
(***************************************************************************)

\* Nobody else has the parent's lock or a child while a writes its START.
LEMMA StartIsAlone ==
  ASSUME TypeOK, Locks, Parents, NEW a \in Apps, app[a].pc = "start"
  PROVE  /\ \A b \in Apps : b # a => ~HoldsParentLock(b)
         /\ \A c \in Children : child[c].owner = NoApp
<1>1. \A b \in Apps : b # a => ~HoldsParentLock(b)
  BY DEF Locks, HoldsParentLock
<1>2. ASSUME NEW c \in Children, child[c].owner # NoApp PROVE FALSE
  <2>1. child[c].owner \in Apps
    BY <1>2 DEF TypeOK, ChildStates
  <2>2. HasChild(child[c].owner)
    BY <2>1 DEF Parents
  <2> QED BY <1>1, <2>1, <2>2 DEF HoldsParentLock, HasChild
<1> QED BY <1>1, <1>2

\* The last START stays that of the thread that has a child, since only the
\* holder of the lock writes one.
LEMMA RequestsStep ==
  ASSUME TypeOK, Applications, Locks, Parents, Requests, Next
  PROVE  Requests'
<1> DEFINE Asked == \A a \in Apps : app'[a].pc = "run" \/ HasChild(a)' =>
                      Request(log') = OneSetting(app'[a].todo)
           Told == \A a \in Apps, c \in Children : Validating(c)' /\ child'[c].owner = a =>
                     Tests(c, OneSetting(app[a].todo))'
<1> SUFFICES ASSUME ReadOk(log') PROVE Asked /\ Told
  BY DEF Requests
<1>1. ASSUME NEW a \in Apps, StartWritten(a) PROVE Asked /\ Told
  <2>1. PICK e \in Events : /\ e.type = "START" /\ e.setting = OneSetting(app[a].todo)
                            /\ log' = Append(log, e)
    BY <1>1 DEF StartWritten, LogGets
  <2>2. Request(log') = OneSetting(app[a].todo)
    BY <2>1, AppendRequest DEF TypeOK
  <2>3. PICK pc \in {"run", "initError"} : ThreadMoves(a, pc, app[a].todo, app[a].child)
    BY <1>1 DEF StartWritten
  <2>4. app[a].pc = "start" /\ child' = child
    BY <1>1 DEF StartWritten
  <2>5. /\ \A b \in Apps : b # a => ~HoldsParentLock(b)
        /\ \A c \in Children : child[c].owner = NoApp
    BY <2>4, StartIsAlone
  <2>6. Asked
    BY <2>2, <2>3, <2>5 DEF ThreadMoves, HoldsParentLock, HasChild
  <2>7. Told
    BY <2>4, <2>5, NoAppAssumption
  <2> QED BY <2>6, <2>7
<1>2. CASE LogKeepsStarts
  <2> DEFINE AskedNow == \A a \in Apps : app[a].pc = "run" \/ HasChild(a) =>
                           Request(log') = OneSetting(app[a].todo)
             ToldNow == \A a \in Apps, c \in Children : Validating(c) /\ child[c].owner = a =>
                          Tests(c, OneSetting(app[a].todo))
  <2>1. AskedNow /\ ToldNow
    BY <1>2, KeptByLog DEF Requests
  <2>2. ASSUME NEW a \in Apps, Launch(a) PROVE Asked /\ Told
    BY <2>1, <2>2, LaunchEffect DEF Applications, Parents, HasChild, Validating, Tests
  <2>3. ASSUME NEW a \in Apps, Kill(a) PROVE Asked /\ Told
    BY <2>1, <2>3, KillEffect, NoAppAssumption DEF HasChild, Validating, Tests
  <2>4. ASSUME NEW a \in Apps, TriggerMiniBenchmark(a) PROVE Asked /\ Told
    BY <2>1, <2>4, TriggerEffect DEF Applications, Parents, HasChild, Validating, Tests
  <2>5. ASSUME NEW a \in Apps, GetBestAcceleration(a) PROVE Asked /\ Told
    BY <2>1, <2>5, GetBestEffect DEF HasChild, Validating, Tests
  <2>6. ASSUME NEW a \in Apps, NEW pc, NEW todo, NEW kid, ThreadMoves(a, pc, todo, kid),
               pc \in {"start", "initError", "error", "done"}, ~HasChild(a), child' = child
        PROVE  Asked /\ Told
    BY <2>1, <2>6 DEF ThreadMoves, Parents, HasChild, Validating, Tests
  <2>7. ASSUME NEW a \in Apps, TryParentLock(a) PROVE Asked /\ Told
    BY <2>6, <2>7, TryParentLockEffect DEF HasChild
  <2>8. ASSUME NEW a \in Apps, InitFails(a) PROVE Asked /\ Told
    BY <2>6, <2>8, InitFailsEffect DEF HasChild
  <2>9. ASSUME NEW a \in Apps, AppendStart(a) PROVE Asked /\ Told
    <3>1. CASE StartWritten(a)
      BY <1>1, <3>1
    <3>2. CASE ThreadMoves(a, "initError", app[a].todo, app[a].child)
      BY <2>6, <2>9, <3>2, AppendStartEffect DEF HasChild
    <3> HIDE DEF Asked, Told
    <3> QED BY <2>9, <3>1, <3>2, AppendStartEffect
  <2>10. ASSUME NEW a \in Apps, AppendError(a) PROVE Asked /\ Told
    <3>1. PICK pc \in {"done", "start"} : \E todo : ThreadMoves(a, pc, todo, 0)
      BY <2>10, AppendErrorEffect
    <3>2. ~HasChild(a) /\ child' = child
      BY <2>10, AppendErrorEffect DEF HasChild
    <3> QED BY <2>6, <3>1, <3>2
  <2>11. ASSUME NEW a \in Apps, PopenFails(a) PROVE Asked /\ Told
    BY <2>6, <2>11, PopenFailsEffect DEF HasChild
  <2>12. ASSUME NEW a \in Apps, Run(a) PROVE Asked /\ Told
    BY <2>1, <2>12, RunEffect DEF ThreadMoves, Parents, HasChild, Validating, Tests
  <2>13. ASSUME NEW a \in Apps, PipeFails(a) PROVE Asked /\ Told
    <3>1. Asked
      BY <2>1, <2>13, PipeFailsEffect DEF ThreadMoves, HasChild
    <3>2. Told
      BY <2>1, <2>13, PipeFailsEffect, NoAppAssumption DEF ThreadMoves, Validating, Tests
    <3> QED BY <3>1, <3>2
  <2>14. ASSUME NEW a \in Apps, TimerFails(a) PROVE Asked /\ Told
    BY <2>1, <2>14, TimerFailsEffect DEF ThreadMoves, HasChild, Validating, Tests
  <2>15. ASSUME NEW a \in Apps, Reap(a) PROVE Asked /\ Told
    <3>1. PICK pc \in {"done", "start", "error"} :
            \E todo : ThreadMoves(a, pc, todo, 0)
      BY <2>15, ReapEffect
    <3>2. Asked
      BY <2>1, <3>1 DEF ThreadMoves, HasChild
    <3>3. Told
      BY <2>1, <2>15, <3>1, ReapEffect, NoAppAssumption
         DEF ThreadMoves, Parents, Validating, Tests
    <3> QED BY <3>2, <3>3
  <2>16. ASSUME NEW c \in Children, NEW ok, ChildExits(c, ok), app' = app PROVE Asked /\ Told
    BY <2>1, <2>16 DEF ChildExits, HasChild, Validating, Tests
  <2>17. ASSUME NEW c \in Children, NEW pc, NEW s, ChildMoves(c, pc, s), app' = app,
                \/ pc \in {"pid", "read"}
                \/ s = Request(log')
                \/ s = NoRequest /\ pc \in {"validate", "error"}
                \/ Validating(c) /\ s = child[c].setting /\ s # NoRequest
         PROVE  Asked /\ Told
    BY <2>1, <2>17 DEF ChildMoves, Parents, HasChild, Validating, Tests
  <2>18. ASSUME NEW a \in Apps, KillProcessWhenTimedOut(a) PROVE Asked /\ Told
    BY <2>16, <2>18, TimedOutEffect
  <2>19. ASSUME NEW c \in Children, TryChildLock(c) PROVE Asked /\ Told
    BY <2>16, <2>17, <2>19, TryChildLockEffect
  <2>20. ASSUME NEW c \in Children, WritePid(c) PROVE Asked /\ Told
    BY <2>16, <2>17, <2>20, WritePidEffect
  <2>21. ASSUME NEW c \in Children, ReadStorage(c) PROVE Asked /\ Told
    BY <2>16, <2>17, <2>21, ReadStorageEffect
  <2>22. ASSUME NEW c \in Children, AffinityError(c) PROVE Asked /\ Told
    BY <2>17, <2>22, AffinityErrorEffect
  <2>23. ASSUME NEW c \in Children, ReadModel(c) PROVE Asked /\ Told
    <3>1. Asked
      BY <2>1, <2>23, ReadModelEffect DEF ThreadMoves, HasChild
    <3>2. Told
      BY <2>1, <2>23, ReadModelEffect DEF ThreadMoves, ChildMoves, Validating, Tests
    <3> QED BY <3>1, <3>2
  <2>24. ASSUME NEW c \in Children, Validate(c) PROVE Asked /\ Told
    BY <2>16, <2>17, <2>24, ValidateEffect DEF Validating
  <2>25. ASSUME NEW c \in Children, AppendResult(c) PROVE Asked /\ Told
    BY <2>16, <2>25, AppendResultEffect
  <2> HIDE DEF Asked, Told
  <2> QED BY <2>2, <2>3, <2>4, <2>5, <2>7, <2>8, <2>9, <2>10, <2>11, <2>12, <2>13, <2>14, <2>15,
             <2>18, <2>19, <2>20, <2>21, <2>22, <2>23, <2>24, <2>25 DEF Next, ThreadStep, ChildStep
<1> QED BY <1>1, <1>2, LogStep

\* A result answers every START of its setting.
LEMMA ResultAnswers ==
  ASSUME TypeOK, NEW type \in {"END", "ERROR"}, NEW s, LogGets(type, s)
  PROVE  Answered(log', s)
<1>1. PICK e \in Events : e.type = type /\ e.setting = s /\ log' = Append(log, e)
  BY DEF LogGets
<1>2. /\ log \in Seq(Events) /\ Len(log) \in Nat
      /\ Len(log') = Len(log) + 1 /\ log'[Len(log) + 1] = e
  BY <1>1, AppendGrows DEF TypeOK
<1>3. Starts(log', s) = Starts(log, s)
  BY <1>1, <1>2, AppendStarts
<1>4. ASSUME NEW i \in Starts(log', s)
      PROVE  \E j \in (i + 1)..Len(log') : IsResult(log'[j]) /\ log'[j].setting = s
  <2>1. i \in 1..Len(log)
    BY <1>2, <1>3, <1>4 DEF Starts
  <2>2. Len(log') \in (i + 1)..Len(log') /\ log'[Len(log')] = e
    BY <1>2, <2>1
  <2> QED BY <1>1, <2>2 DEF IsResult
<1> QED BY <1>4 DEF Answered

\* A child exits with success only when it has written the result of its
\* parent's setting.
LEMMA AnsweredStep ==
  ASSUME TypeOK, Applications, Locks, Parents, Requests, SuccessAnswered, Next
  PROVE  SuccessAnswered'
<1> DEFINE Succeeds(a, c) == /\ child[c].owner = a /\ child[c].pc = "exited" /\ child[c].exit
                             /\ child[c].setting # NoRequest
           Goal == \A a \in Apps, c \in Children :
                     Succeeds(a, c)' => Answered(log', OneSetting(app'[a].todo))
<1> SUFFICES ASSUME ReadOk(log') PROVE Goal
  BY DEF SuccessAnswered
<1>1. ASSUME NEW a \in Apps, StartWritten(a) PROVE Goal
  <2>1. app[a].pc = "start" /\ child' = child
    BY <1>1 DEF StartWritten
  <2> QED BY <2>1, StartIsAlone, NoAppAssumption
<1>2. CASE LogKeepsStarts
  <2>1. ReadOk(log)
    BY <1>2, KeptByLog
  <2>2. \A a \in Apps, c \in Children :
          Succeeds(a, c) => Answered(log', OneSetting(app[a].todo))
    BY <1>2, <2>1, KeptByLog DEF SuccessAnswered
  <2>3. ASSUME NEW a \in Apps, Launch(a) PROVE Goal
    BY <2>2, <2>3, LaunchEffect DEF Applications, Parents, HasChild
  <2>4. ASSUME NEW a \in Apps, Kill(a) PROVE Goal
    BY <2>2, <2>4, KillEffect, NoAppAssumption
  <2>5. ASSUME NEW a \in Apps, TriggerMiniBenchmark(a) PROVE Goal
    BY <2>2, <2>5, TriggerEffect DEF Applications, Parents, HasChild
  <2>6. ASSUME NEW a \in Apps, GetBestAcceleration(a) PROVE Goal
    BY <2>2, <2>6, GetBestEffect
  <2>7. ASSUME NEW a \in Apps, NEW pc, NEW todo, NEW kid, ThreadMoves(a, pc, todo, kid),
               ~HasChild(a) \/ todo = app[a].todo, child' = child
        PROVE  Goal
    BY <2>2, <2>7 DEF ThreadMoves, Parents
  <2>8. ASSUME NEW a \in Apps, TryParentLock(a) PROVE Goal
    BY <2>7, <2>8, TryParentLockEffect
  <2>9. ASSUME NEW a \in Apps, InitFails(a) PROVE Goal
    BY <2>7, <2>9, InitFailsEffect
  <2>10. ASSUME NEW a \in Apps, AppendStart(a) PROVE Goal
    BY <2>7, <2>10, AppendStartEffect
  <2>11. ASSUME NEW a \in Apps, AppendError(a) PROVE Goal
    <3>1. PICK pc \in {"done", "start"} : \E todo : ThreadMoves(a, pc, todo, 0)
      BY <2>11, AppendErrorEffect
    <3>2. ~HasChild(a) /\ child' = child
      BY <2>11, AppendErrorEffect DEF HasChild
    <3> QED BY <2>7, <3>1, <3>2
  <2>12. ASSUME NEW a \in Apps, PopenFails(a) PROVE Goal
    BY <2>7, <2>12, PopenFailsEffect
  <2>13. ASSUME NEW a \in Apps, Run(a) PROVE Goal
    BY <2>2, <2>13, RunEffect DEF ThreadMoves, Parents, HasChild
  <2>14. ASSUME NEW a \in Apps, PipeFails(a) PROVE Goal
    BY <2>2, <2>14, PipeFailsEffect, NoAppAssumption DEF ThreadMoves
  <2>15. ASSUME NEW a \in Apps, TimerFails(a) PROVE Goal
    BY <2>7, <2>15, TimerFailsEffect
  <2>16. ASSUME NEW a \in Apps, Reap(a) PROVE Goal
    <3>1. PICK pc \in {"done", "start", "error"} : \E todo : ThreadMoves(a, pc, todo, 0)
      BY <2>16, ReapEffect
    <3> QED BY <2>2, <2>16, <3>1, ReapEffect, NoAppAssumption DEF ThreadMoves, Parents
  <2>17. ASSUME NEW c \in Children, ChildExits(c, FALSE), app' = app PROVE Goal
    BY <2>2, <2>17 DEF ChildExits
  <2>18. ASSUME NEW c \in Children, NEW pc, NEW s, ChildMoves(c, pc, s), app' = app, pc # "exited"
         PROVE  Goal
    BY <2>2, <2>18 DEF ChildMoves
  <2>19. ASSUME NEW a \in Apps, KillProcessWhenTimedOut(a) PROVE Goal
    BY <2>17, <2>19, TimedOutEffect
  <2>20. ASSUME NEW c \in Children, TryChildLock(c) PROVE Goal
    BY <2>17, <2>18, <2>20, TryChildLockEffect
  <2>21. ASSUME NEW c \in Children, WritePid(c) PROVE Goal
    BY <2>17, <2>18, <2>21, WritePidEffect
  <2>22. ASSUME NEW c \in Children, ReadStorage(c) PROVE Goal
    BY <2>17, <2>18, <2>22, ReadStorageEffect
  <2>23. ASSUME NEW c \in Children, AffinityError(c) PROVE Goal
    BY <2>18, <2>23, AffinityErrorEffect
  <2>24. ASSUME NEW c \in Children, ReadModel(c) PROVE Goal
    BY <2>2, <2>24, ReadModelEffect DEF ThreadMoves, ChildMoves, Validating
  <2>25. ASSUME NEW c \in Children, Validate(c) PROVE Goal
    BY <2>17, <2>18, <2>25, ValidateEffect
  <2>26. ASSUME NEW c \in Children, AppendResult(c) PROVE Goal
    <3> DEFINE s == IF child[c].setting = NoRequest THEN Cpu ELSE child[c].setting
    <3>1. PICK ok \in BOOLEAN :
            /\ ChildExits(c, ok)
            /\ LogGets("END", s) \/ LogGets("ERROR", s) \/ (~ok /\ log' = log)
      BY <2>26, AppendResultEffect
    <3>2. /\ child[c].pc \in {"end", "error"} /\ app' = app
          /\ ok => Answered(log', s)
      BY <2>26, <3>1, AppendResultEffect, ResultAnswers
    <3>3. ASSUME NEW a \in Apps, child[c].owner = a, child[c].setting # NoRequest
          PROVE  s = OneSetting(app[a].todo)
      BY <2>1, <3>2, <3>3 DEF Requests, Validating, Tests
    <3> HIDE DEF s
    <3> QED BY <2>2, <3>1, <3>2, <3>3 DEF ChildExits
  <2> HIDE DEF Goal
  <2> QED BY <2>3, <2>4, <2>5, <2>6, <2>8, <2>9, <2>10, <2>11, <2>12, <2>13, <2>14, <2>15, <2>16,
             <2>19, <2>20, <2>21, <2>22, <2>23, <2>24, <2>25, <2>26 DEF Next, ThreadStep, ChildStep
<1> QED BY <1>1, <1>2, LogStep

-----------------------------------------------------------------------------
(***************************************************************************)
(* The attempts. Every START is in the plan of one application before it   *)
(* is in the file, so the sum of both does not grow with a START; it grows *)
(* when an application reads the file, which then has attempts left.       *)
(***************************************************************************)

LogGrows == log' = log \/ \E e \in Events : log' = Append(log, e)

\* What application b knows of the file does not become newer.
SeesNoMore(b) ==
  app'[b].validator = "ok" /\ ~app'[b].triggered /\ ~ReadOk(log) =>
    app[b].validator = "ok" /\ ~app[b].triggered

\* The contents of a file that has just been torn have all its STARTs but
\* the torn one.
LEMMA StaleKept ==
  ASSUME TypeOK, LogGrows, NEW b \in Apps, SeesNoMore(b), NEW s, Stale(app'[b], log', s)
  PROVE  Stale(app[b], log, s) \/ Cardinality(Starts(log, s)) < kMaxAttempts
<1>1. log \in Seq(Events)
  BY DEF TypeOK
<1>2. CASE ~ReadOk(log)
  <2>1. Contents(log') = Contents(log)
    BY <1>1, <1>2, AppendGrows DEF LogGrows
  <2> QED BY <1>2, <2>1 DEF Stale, SeesNoMore
<1>3. CASE ReadOk(log)
  <2>1. PICK e \in Events : log' = Append(log, e)
    BY <1>3 DEF LogGrows, Stale
  <2>2. /\ log' \in Seq(Events) /\ Len(log) \in Nat
        /\ \A i \in 1..Len(log) : log'[i] = log[i]
        /\ ContentsLen(log) <= ContentsLen(log')
    BY <1>1, <2>1, AppendGrows
  <2>3. /\ ContentsLen(log) = Len(log) /\ ContentsLen(log') \in Nat
        /\ Contents(log') \in Seq(Events) /\ DOMAIN Contents(log') = 1..ContentsLen(log')
        /\ \A i \in 1..ContentsLen(log') : Contents(log')[i] = log'[i]
    BY <1>1, <1>3, <2>2, ContentsArePrefix
  <2>4. DOMAIN log = 1..Len(log)
    BY <1>1
  <2>5. Starts(log, s) \in SUBSET Starts(Contents(log'), s)
    BY <2>2, <2>3, <2>4 DEF Starts
  <2>6. IsFiniteSet(Starts(Contents(log'), s))
    BY <2>1, <2>3, AppendStarts
  <2>7. Cardinality(Starts(log, s)) <= Cardinality(Starts(Contents(log'), s))
    BY <2>5, <2>6, FS_Subset
  <2>8. Cardinality(Starts(log, s)) \in Nat /\ Cardinality(Starts(Contents(log'), s)) \in Nat
    BY <1>1, <2>1, <2>3, AppendStarts
  <2>9. Cardinality(Starts(Contents(log'), s)) < kMaxAttempts
    BY DEF Stale, Missing
  <2> QED BY <2>7, <2>8, <2>9, BoundsAssumption
<1> QED BY <1>2, <1>3

\* The numbers that Attempts adds up.
LEMMA AttemptsTypes ==
  ASSUME TypeOK, NEW s
  PROVE  /\ Cardinality(Starts(log, s)) \in Nat
         /\ IsFiniteSet(MayStarters(s)) /\ Cardinality(MayStarters(s)) \in Nat
         /\ Cardinality(MayStarters(s)) <= Cardinality(Apps) /\ Cardinality(Apps) \in Nat
<1>1. Cardinality(Starts(log, s)) \in Nat
  <2>1. PICK e : e = Event("ERROR", Cpu, FALSE)
    OBVIOUS
  <2>2. e \in Events
    BY <2>1, CpuAssumption DEF Event, Events
  <2> QED BY <2>2, AppendStarts DEF TypeOK
<1>2. MayStarters(s) \in SUBSET Apps
  BY DEF MayStarters
<1>3. IsFiniteSet(MayStarters(s)) /\ Cardinality(MayStarters(s)) <= Cardinality(Apps)
  BY <1>2, AppsAssumption, FS_Subset
<1> QED BY <1>1, <1>3, AppsAssumption, FS_CardinalityType

\* Without a START in the file, and no new plan but for settings that have
\* attempts left, the bound stays.
LEMMA AttemptsKept ==
  ASSUME TypeOK, Attempts, NEW s \in Settings, Starts(log', s) = Starts(log, s),
         \A b \in Apps : MayStart(b, s)' =>
           MayStart(b, s) \/ Cardinality(Starts(log, s)) < kMaxAttempts
  PROVE  Cardinality(Starts(log', s)) + Cardinality(MayStarters(s)')
           <= kMaxAttempts + Cardinality(Apps) - 1
<1>1. /\ Cardinality(Starts(log, s)) \in Nat
      /\ IsFiniteSet(MayStarters(s)) /\ Cardinality(MayStarters(s)) \in Nat
      /\ Cardinality(Apps) \in Nat /\ kMaxAttempts \in Nat
  BY AttemptsTypes, BoundsAssumption
<1>2. Cardinality(MayStarters(s)') \in Nat /\ Cardinality(MayStarters(s)') <= Cardinality(Apps)
  <2>1. MayStarters(s)' \in SUBSET Apps
    BY DEF MayStarters
  <2> QED BY <2>1, AppsAssumption, FS_Subset, FS_CardinalityType
<1>3. CASE Cardinality(Starts(log, s)) < kMaxAttempts
  BY <1>1, <1>2, <1>3
<1>4. CASE \A b \in Apps : MayStart(b, s)' => MayStart(b, s)
  <2>1. MayStarters(s)' \in SUBSET MayStarters(s)
    BY <1>4 DEF MayStarters
  <2>2. Cardinality(MayStarters(s)') <= Cardinality(MayStarters(s))
    BY <1>1, <2>1, FS_Subset
  <2>3. Cardinality(Starts(log, s)) + Cardinality(MayStarters(s))
          <= kMaxAttempts + Cardinality(Apps) - 1
    BY DEF Attempts
  <2> QED BY <1>1, <1>2, <2>2, <2>3
<1> QED BY <1>3, <1>4

\* A START that is written goes from the plan of its application to the file.
LEMMA AttemptsOfStart ==
  ASSUME TypeOK, Applications, Attempts, NEW a \in Apps, StartWritten(a)
  PROVE  Attempts'
<1>1. PICK e \in Events : /\ e.type = "START" /\ e.setting = OneSetting(app[a].todo)
                          /\ log' = Append(log, e)
  BY DEF StartWritten, LogGets
<1>2. PICK pc \in {"run", "initError"} : ThreadMoves(a, pc, app[a].todo, app[a].child)
  BY DEF StartWritten
<1>3. app[a].pc = "start" /\ app[a].triggered
  BY DEF StartWritten, Applications
<1>4. \A b \in Apps : SeesNoMore(b)
  BY <1>2 DEF SeesNoMore, ThreadMoves
<1>5. LogGrows
  BY <1>1 DEF LogGrows
<1>6. ASSUME NEW b \in Apps, NEW s \in Settings, Stale(app'[b], log', s)
      PROVE  Stale(app[b], log, s) \/ Cardinality(Starts(log, s)) < kMaxAttempts
  BY <1>4, <1>5, <1>6, StaleKept
<1>7. ASSUME NEW b \in Apps, NEW s \in Settings, Plans(app'[b], s) PROVE Plans(app[b], s)
  BY <1>2, <1>3, <1>7 DEF Plans, ThreadMoves
<1>8. \A b \in Apps, s \in Settings : MayStart(b, s)' =>
        MayStart(b, s) \/ Cardinality(Starts(log, s)) < kMaxAttempts
  BY <1>6, <1>7 DEF MayStart
<1>9. OneSetting(app[a].todo) \in app[a].todo
  BY <1>3, OneSettingIsToDo DEF TypeOK, AppStates, HoldsParentLock
<1> SUFFICES ASSUME NEW s \in Settings
             PROVE  Cardinality(Starts(log', s)) + Cardinality(MayStarters(s)')
                      <= kMaxAttempts + Cardinality(Apps) - 1
  BY DEF Attempts
<1>10. CASE s # OneSetting(app[a].todo)
  <2>1. Starts(log', s) = Starts(log, s)
    BY <1>1, <1>10, AppendStarts DEF TypeOK
  <2> QED BY <1>8, <2>1, AttemptsKept
<1>11. CASE s = OneSetting(app[a].todo)
  <2>1. Cardinality(Starts(log', s)) = Cardinality(Starts(log, s)) + 1
    BY <1>1, <1>11, AppendStarts DEF TypeOK
  <2>2. MayStart(a, s) /\ ~MayStart(a, s)'
    BY <1>2, <1>3, <1>9, <1>11 DEF MayStart, Plans, Stale, ThreadMoves
  <2>3. /\ Cardinality(Starts(log, s)) \in Nat
        /\ IsFiniteSet(MayStarters(s)) /\ Cardinality(MayStarters(s)) \in Nat
        /\ Cardinality(Apps) \in Nat /\ kMaxAttempts \in Nat
    BY AttemptsTypes, BoundsAssumption
  <2>4. IsFiniteSet(Apps \ {a}) /\ Cardinality(Apps \ {a}) = Cardinality(Apps) - 1
    BY AppsAssumption, FS_RemoveElement
  <2>5. /\ IsFiniteSet(MayStarters(s) \ {a})
        /\ Cardinality(MayStarters(s) \ {a}) = Cardinality(MayStarters(s)) - 1
    <3>1. a \in MayStarters(s)
      BY <2>2 DEF MayStarters
    <3> QED BY <2>3, <3>1, FS_RemoveElement
  <2>6. MayStarters(s)' \in SUBSET (Apps \ {a})
    BY <2>2 DEF MayStarters
  <2>7. /\ Cardinality(MayStarters(s)') <= Cardinality(Apps) - 1
        /\ Cardinality(MayStarters(s)') \in Nat
    BY <2>4, <2>6, FS_Subset, FS_CardinalityType
  <2>8. CASE Cardinality(Starts(log, s)) < kMaxAttempts
    BY <2>1, <2>3, <2>7, <2>8
  <2>9. CASE \A b \in Apps : MayStart(b, s)' => MayStart(b, s)
    <3>1. MayStarters(s)' \in SUBSET (MayStarters(s) \ {a})
      BY <2>2, <2>9 DEF MayStarters
    <3>2. Cardinality(MayStarters(s)') <= Cardinality(MayStarters(s)) - 1
      BY <2>5, <3>1, FS_Subset
    <3>3. Cardinality(Starts(log, s)) + Cardinality(MayStarters(s))
            <= kMaxAttempts + Cardinality(Apps) - 1
      BY DEF Attempts
    <3> QED BY <2>1, <2>3, <2>7, <3>2, <3>3
  <2> QED BY <1>8, <2>8, <2>9
<1> QED BY <1>10, <1>11

\* No other step plans an attempt too many.
LEMMA AttemptsStep ==
  ASSUME TypeOK, Applications, Parents, Attempts, Next
  PROVE  Attempts'
<1> DEFINE NoNewPlan(b) == \A s \in Settings : Plans(app'[b], s) => Plans(app[b], s)
           FewAttempts(s) == Cardinality(Starts(log, s)) < kMaxAttempts
<1>1. ASSUME NEW a \in Apps, StartWritten(a) PROVE Attempts'
  BY <1>1, AttemptsOfStart
<1>2. ASSUME LogKeepsStarts, \A b \in Apps : SeesNoMore(b),
             \A b \in Apps, s \in Settings :
               Plans(app'[b], s) => MayStart(b, s) \/ FewAttempts(s)
      PROVE  Attempts'
  <2>1. LogGrows
    BY <1>2 DEF LogGrows, LogKeepsStarts
  <2>2. ASSUME NEW b \in Apps, NEW s \in Settings, MayStart(b, s)'
        PROVE  MayStart(b, s) \/ FewAttempts(s)
    BY <1>2, <2>1, <2>2, StaleKept DEF MayStart
  <2>3. ASSUME NEW s \in Settings
        PROVE  Cardinality(Starts(log', s)) + Cardinality(MayStarters(s)')
                 <= kMaxAttempts + Cardinality(Apps) - 1
    <3>1. Starts(log', s) = Starts(log, s)
      BY <1>2, KeptByLog
    <3> QED BY <2>2, <3>1, AttemptsKept
  <2> QED BY <2>3 DEF Attempts
<1>3. CASE LogKeepsStarts
  <2>2. ASSUME \A b \in Apps : SeesNoMore(b) /\ NoNewPlan(b) PROVE Attempts'
    BY <1>2, <1>3, <2>2 DEF MayStart
  <2>3. ASSUME app' = app PROVE Attempts'
    BY <2>2, <2>3 DEF SeesNoMore
  <2>4. ASSUME NEW a \in Apps, NEW pc, NEW todo, NEW kid, ThreadMoves(a, pc, todo, kid),
               NoNewPlan(a)
        PROVE  Attempts'
    <3>1. \A b \in Apps : SeesNoMore(b)
      BY <2>4 DEF ThreadMoves, SeesNoMore
    <3>2. \A b \in Apps : NoNewPlan(b)
      BY <2>4 DEF ThreadMoves, Plans
    <3> QED BY <2>2, <3>1, <3>2
  <2>5. ASSUME NEW a \in Apps, Launch(a) PROVE Attempts'
    BY <2>2, <2>5, LaunchEffect DEF SeesNoMore, Plans
  <2>6. ASSUME NEW a \in Apps, Kill(a) PROVE Attempts'
    BY <2>2, <2>6, KillEffect DEF SeesNoMore, Plans
  <2>7. ASSUME NEW a \in Apps, GetBestAcceleration(a) PROVE Attempts'
    BY <2>2, <2>7, GetBestEffect DEF SeesNoMore, Plans
  <2>8. ASSUME NEW a \in Apps, TriggerMiniBenchmark(a) PROVE Attempts'
    <3>1. \A b \in Apps : SeesNoMore(b)
      BY <2>8, TriggerEffect DEF SeesNoMore
    <3>2. ASSUME NEW s \in Settings, Plans(app'[a], s), ~Plans(app[a], s)
          PROVE  MayStart(a, s) \/ FewAttempts(s)
      <4>1. /\ ~app[a].triggered /\ app'[a].validator = "ok" /\ Missing(Contents(log), s)
            /\ app'[a].validator = "ok" => app[a].validator = "ok" \/ ReadOk(log)
        BY <2>8, <3>2, TriggerEffect DEF Plans
      <4>2. CASE ReadOk(log)
        <5>1. Contents(log) = log
          BY <4>2 DEF Contents
        <5> QED BY <4>1, <5>1 DEF Missing
      <4>3. CASE ~ReadOk(log)
        BY <4>1, <4>3 DEF MayStart, Stale
      <4> QED BY <4>2, <4>3
    <3>3. \A b \in Apps : b # a => app'[b] = app[b]
      BY <2>8, TriggerEffect
    <3>4. \A b \in Apps, s \in Settings : Plans(app'[b], s) => MayStart(b, s) \/ FewAttempts(s)
      BY <3>2, <3>3 DEF MayStart
    <3> QED BY <1>2, <1>3, <3>1, <3>4
  <2>9. ASSUME NEW a \in Apps, TryParentLock(a) PROVE Attempts'
    <3>1. PICK pc \in {"done", "start"} : ThreadMoves(a, pc, app[a].todo, app[a].child)
      BY <2>9, TryParentLockEffect
    <3>2. NoNewPlan(a)
      BY <2>9, <3>1, TryParentLockEffect DEF Plans, ThreadMoves
    <3> QED BY <2>4, <3>1, <3>2
  <2>10. ASSUME NEW a \in Apps, InitFails(a) PROVE Attempts'
    <3>1. NoNewPlan(a)
      BY <2>10, InitFailsEffect DEF Plans, ThreadMoves
    <3> QED BY <2>4, <2>10, <3>1, InitFailsEffect
  <2>11. ASSUME NEW a \in Apps, AppendError(a) PROVE Attempts'
    <3>1. PICK pc \in {"done", "start"} :
            ThreadMoves(a, pc, app[a].todo \ {OneSetting(app[a].todo)}, 0)
      BY <2>11, AppendErrorEffect
    <3>2. NoNewPlan(a)
      BY <2>11, <3>1, AppendErrorEffect DEF Plans, ThreadMoves
    <3> QED BY <2>4, <3>1, <3>2
  <2>12. ASSUME NEW a \in Apps, PopenFails(a) PROVE Attempts'
    <3>1. NoNewPlan(a)
      BY <2>12, PopenFailsEffect DEF Plans, ThreadMoves
    <3> QED BY <2>4, <2>12, <3>1, PopenFailsEffect
  <2>13. ASSUME NEW a \in Apps, Run(a) PROVE Attempts'
    <3>1. app[a].pc = "run" /\ \E c \in Children, pc \in {"pipe", "wait"} : ThreadMoves(a, pc, app[a].todo, c)
      BY <2>13, RunEffect
    <3>2. NoNewPlan(a)
      BY <3>1 DEF Plans, ThreadMoves
    <3> QED BY <2>4, <3>1, <3>2
  <2>14. ASSUME NEW a \in Apps, Reap(a) PROVE Attempts'
    <3> DEFINE rest == app[a].todo \ {OneSetting(app[a].todo)}
    <3>1. app[a].pc \in {"wait", "drain"}
      BY <2>14, ReapEffect
    <3>2. \/ \E pc \in {"done", "start"} : ThreadMoves(a, pc, rest, 0)
          \/ ThreadMoves(a, "error", app[a].todo, 0)
      BY <2>14, ReapEffect
    <3>3. NoNewPlan(a)
      BY <3>1, <3>2 DEF Plans, ThreadMoves
    <3> QED BY <2>4, <3>2, <3>3
  <2>15. ASSUME NEW a \in Apps, KillProcessWhenTimedOut(a) PROVE Attempts'
    BY <2>3, <2>15, TimedOutEffect
  <2>16. ASSUME NEW c \in Children, ChildStep(c), ~ReadModel(c) PROVE Attempts'
    BY <2>3, <2>16 DEF ChildStep, TryChildLock, WritePid, ReadStorage, AffinityError, Validate,
       AppendResult
  <2>17. ASSUME NEW c \in Children, ReadModel(c) PROVE Attempts'
    <3> DEFINE a == child[c].owner
    <3>1. a \in Apps /\ app[a].pc = "pipe" /\ ThreadMoves(a, "wait", app[a].todo, app[a].child)
      BY <2>17, ReadModelEffect
    <3> HIDE DEF a
    <3>2. NoNewPlan(a)
      BY <3>1 DEF Plans, ThreadMoves
    <3> QED BY <2>4, <3>1, <3>2
  <2>18. ASSUME NEW a \in Apps, PipeFails(a) PROVE Attempts'
    <3>1. NoNewPlan(a)
      BY <2>18, PipeFailsEffect DEF Plans, ThreadMoves
    <3> QED BY <2>4, <2>18, <3>1, PipeFailsEffect
  <2>19. ASSUME NEW a \in Apps, TimerFails(a) PROVE Attempts'
    <3>1. NoNewPlan(a)
      BY <2>19, TimerFailsEffect DEF Plans, ThreadMoves
    <3> QED BY <2>4, <2>19, <3>1, TimerFailsEffect
  <2>20. ASSUME NEW a \in Apps, AppendStart(a) PROVE Attempts'
    <3>1. PICK pc \in {"run", "initError"} : ThreadMoves(a, pc, app[a].todo, app[a].child)
      BY <2>20, AppendStartEffect
    <3>2. NoNewPlan(a)
      BY <2>20, <3>1, AppendStartEffect DEF Plans, ThreadMoves
    <3> QED BY <2>4, <3>1, <3>2
  <2> QED BY <2>5, <2>6, <2>7, <2>8, <2>9, <2>10, <2>11, <2>12, <2>13, <2>14, <2>15, <2>16, <2>17,
             <2>18, <2>19, <2>20
          DEF Next, ThreadStep
<1> QED BY <1>1, <1>3, LogStep

-----------------------------------------------------------------------------
(***************************************************************************)
(* The theorems.                                                           *)
(***************************************************************************)

\* Nothing runs and the file is empty.
LEMMA InitIInv ==
  ASSUME Init
  PROVE  IInv
<1>1. log = << >> /\ DOMAIN log = {} /\ Len(log) = 0
  BY DEF Init
<1>2. /\ \A a \in Apps : \E buffer \in BOOLEAN : app[a] = Down(buffer)
      /\ \A a \in Apps : app[a].pc = "none" /\ app[a].todo = {} /\ ~app[a].triggered
                          /\ app[a].validator = "none" /\ ~HasChild(a) /\ ~HoldsParentLock(a)
      /\ \A c \in Children : child[c] = NoChild
      /\ \A a \in Apps : memo[a] = NoMemo
      /\ decision = NoMemo
  <2>1. PICK buffer \in [Apps -> BOOLEAN] : app = [a \in Apps |-> Down(buffer[a])]
    BY DEF Init
  <2>2. \A a \in Apps : buffer[a] \in BOOLEAN /\ app[a] = Down(buffer[a])
    BY <2>1
  <2>3. \A b \in BOOLEAN : Down(b).pc = "none" /\ Down(b).todo = {} /\ ~Down(b).triggered
                           /\ Down(b).validator = "none"
    BY DEF Down
  <2> QED BY <2>2, <2>3 DEF Init, HasChild, HoldsParentLock
<1>3. TypeOK
  <2>1. (\A b \in BOOLEAN : Down(b) \in AppStates) /\ NoChild \in ChildStates /\ NoMemo \in Memos
    BY DEF Down, AppStates, NoChild, ChildStates, NoMemo, Memos
  <2>2. log \in Seq(Events) /\ app \in [Apps -> AppStates] /\ child \in [Children -> ChildStates]
        /\ memo \in [Apps -> Memos] /\ decision \in Memos /\ launches \in Nat /\ faults \in Nat
    BY <2>1 DEF Init
  <2> QED BY <1>2, <2>2 DEF TypeOK, NoChild
<1>4. Applications /\ Locks /\ Parents
  BY <1>2, NoAppAssumption
     DEF Applications, Locks, Parents, HoldsChildLock, NoChild
<1>5. Requests /\ SuccessAnswered
  BY <1>2 DEF Requests, SuccessAnswered, Validating, NoChild
<1>6. Memoised
  BY <1>2 DEF Memoised, NoMemo
<1>7. ASSUME NEW s \in Settings
      PROVE  Cardinality(Starts(log, s)) + Cardinality(MayStarters(s))
               <= kMaxAttempts + Cardinality(Apps) - 1
  <2>1. Starts(log, s) = {}
    BY <1>1 DEF Starts
  <2>2. Cardinality(Starts(log, s)) = 0
    BY <2>1, FS_EmptySet
  <2>3. Cardinality(MayStarters(s)) <= Cardinality(Apps) /\ Cardinality(MayStarters(s)) \in Nat
        /\ Cardinality(Apps) \in Nat
    BY <1>3, AttemptsTypes
  <2> QED BY <2>2, <2>3, BoundsAssumption
<1> QED BY <1>3, <1>4, <1>5, <1>6, <1>7 DEF IInv, Attempts

\* Every step keeps each part of the invariant.
LEMMA StepIInv ==
  ASSUME IInv, [Next]_vars
  PROVE  IInv'
<1>1. CASE Next
  <2>1. TypeOK /\ Applications /\ Locks /\ Parents /\ Requests /\ SuccessAnswered /\ Attempts
        /\ Memoised
    BY DEF IInv
  <2>2. TypeOK'
    BY <1>1, <2>1, TypeStep
  <2>3. Applications' /\ Locks' /\ Parents'
    BY <1>1, <2>1, ApplicationsStep, LocksStep, ParentsStep
  <2>4. Requests' /\ SuccessAnswered'
    BY <1>1, <2>1, RequestsStep, AnsweredStep
  <2>5. Attempts' /\ Memoised'
    BY <1>1, <2>1, AttemptsStep, MemoisedStep
  <2> QED BY <2>2, <2>3, <2>4, <2>5 DEF IInv
<1>2. CASE UNCHANGED vars
  BY <1>2 DEF vars, selector, IInv, TypeOK, Applications, Locks, Parents, Requests,
     SuccessAnswered, Attempts, Memoised, HoldsParentLock, HasChild, HoldsChildLock, Validating, Tests,
     MayStarters, MayStart
<1> QED BY <1>1, <1>2

\* The invariant holds in every state the applications, their threads and
\* their children reach (MiniBenchmark, ValidatorRunnerImpl, validation
\* entrypoint).
THEOREM Invariant == Spec => []IInv
BY InitIInv, StepIInv, PTL DEF Spec

\* The file, the applications and the children keep their types, a thread has
\* a setting to do while it holds the lock, and only a child that somebody
\* waits for stays after its exit.
THEOREM TypeCorrect == Spec => []TypeOK
<1>1. IInv => TypeOK
  BY DEF IInv
<1> QED BY <1>1, Invariant, PTL

\* However many applications, crashes and torn writes there are, a setting is
\* started at most kMaxAttempts times, and once more for every application
\* but one (TriggerMissingValidation).
THEOREM AttemptsAreBounded == Spec => []AttemptsBounded
<1>1. IInv => AttemptsBounded
  <2> SUFFICES ASSUME IInv, NEW s \in Settings
               PROVE  Cardinality(Starts(log, s)) <= kMaxAttempts + Cardinality(Apps) - 1
    BY DEF AttemptsBounded
  <2>1. Cardinality(Starts(log, s)) + Cardinality(MayStarters(s))
          <= kMaxAttempts + Cardinality(Apps) - 1
    BY DEF IInv, Attempts
  <2>2. Cardinality(Starts(log, s)) \in Nat /\ Cardinality(MayStarters(s)) \in Nat
        /\ Cardinality(Apps) \in Nat /\ kMaxAttempts \in Nat
    BY AttemptsTypes, BoundsAssumption DEF IInv
  <2> QED BY <2>1, <2>2
<1> QED BY <1>1, Invariant, PTL

\* One validation runs at a time, orphans included, and it tests the setting
\* that its parent has started (the two file locks, the last START), or none
\* when an append that failed has left it without a request.
THEOREM RequestsAreValidated == Spec => []ValidatesItsRequest
<1>1. IInv => ValidatesItsRequest
  <2> SUFFICES ASSUME IInv, NEW c \in Children,
                      child[c].pc \in {"affinity", "validate", "hung", "end", "error"}
               PROVE  /\ \A d \in Children \ {c} : ~HoldsChildLock(d)
                      /\ child[c].owner # NoApp /\ ReadOk(log) =>
                           Tests(c, OneSetting(app[child[c].owner].todo))
    BY DEF ValidatesItsRequest, Tests
  <2>1. \A d \in Children \ {c} : ~HoldsChildLock(d)
    BY DEF IInv, Locks, HoldsChildLock
  <2>2. child[c].owner # NoApp => child[c].owner \in Apps
    BY DEF IInv, TypeOK, ChildStates
  <2>3. child[c].owner # NoApp /\ ReadOk(log) =>
          Tests(c, OneSetting(app[child[c].owner].todo))
    BY <2>2 DEF IInv, Requests, Validating
  <2> QED BY <2>1, <2>3
<1> QED BY <1>1, Invariant, PTL

\* The memoised or stored decision never answers for an older file than the
\* one there is (MemoizedBestAccelerationSelector).
THEOREM BestIsAlwaysCurrent == Spec => []BestIsCurrent
<1>1. IInv => BestIsCurrent
  BY BestAccelerationIsBest DEF IInv, TypeOK, Memoised, BestIsCurrent
<1> QED BY <1>1, Invariant, PTL

\* A thread that goes on from a setting leaves a result after its last START,
\* from the child or of its own, unless its own append left nothing, the child
\* had no request, or the file is torn (TriggerValidationAsync).
THEOREM StartsAreAnswered == Spec => StartsAnswered
<1> DEFINE Goal(a) ==
      LET one == OneSetting(app[a].todo)
      IN  /\ app[a].todo # {}
          /\ app'[a].up /\ app'[a].todo = app[a].todo \ {one}
          /\ IF HasChild(a) THEN child[app[a].child].setting # NoRequest ELSE log' # log
          /\ ReadOk(log')
          => \A i \in Starts(log', one) : \E j \in (i + 1)..Len(log') :
               IsResult(log'[j]) /\ log'[j].setting = one
<1>1. ASSUME IInv, [Next]_vars, NEW a \in Apps PROVE Goal(a)
  <2> DEFINE one == OneSetting(app[a].todo)
  <2> SUFFICES ASSUME app[a].todo # {}, app'[a].up, app'[a].todo = app[a].todo \ {one},
                      IF HasChild(a) THEN child[app[a].child].setting # NoRequest ELSE log' # log,
                      ReadOk(log')
               PROVE  Answered(log', one)
    BY DEF Answered
  <2>1. TypeOK /\ Applications /\ Locks /\ Parents /\ SuccessAnswered
    BY <1>1 DEF IInv
  <2>2. app'[a].todo # app[a].todo
    <3>1. one \in app[a].todo
      BY <2>1, OneSettingIsToDo DEF TypeOK, AppStates
    <3> QED BY <3>1
  <2>3. app' # app /\ Next
    BY <1>1, <2>2 DEF vars
  <2>4. ASSUME NEW b \in Apps, \A x \in Apps : x # b => app'[x] = app[x] PROVE b = a
    BY <2>2, <2>4
  <2>5. CASE AppendError(a)
    BY <2>1, <2>5, AppendErrorEffect, ResultAnswers DEF HasChild
  <2>6. CASE Reap(a)
    <3>1. /\ app[a].child \in Children /\ child[app[a].child].owner = a
          /\ child[app[a].child].pc = "exited" /\ log' = log
      BY <2>1, <2>6, ReapEffect
    <3>2. child[app[a].child].exit
      BY <2>1, <2>2, <2>6, ReapEffect DEF ThreadMoves
    <3>3. child[app[a].child].setting # NoRequest
      BY <2>1, <2>6, ReapEffect DEF HasChild
    <3> QED BY <2>1, <3>1, <3>2, <3>3 DEF SuccessAnswered
  <2>7. ASSUME NEW b \in Apps, AppendError(b) \/ Reap(b) PROVE b = a
    BY <2>1, <2>4, <2>7, AppendErrorEffect, ReapEffect DEF ThreadMoves
  <2>8. ASSUME NEW b \in Apps, Launch(b) PROVE FALSE
    BY <2>1, <2>4, <2>8, LaunchEffect DEF Applications
  <2>9. ASSUME NEW b \in Apps, Kill(b) PROVE FALSE
    BY <2>1, <2>4, <2>9, KillEffect
  <2>10. ASSUME NEW b \in Apps, TriggerMiniBenchmark(b) PROVE FALSE
    BY <2>1, <2>2, <2>4, <2>10, TriggerEffect DEF Applications
  <2>11. ASSUME NEW b \in Apps, GetBestAcceleration(b) PROVE FALSE
    BY <2>1, <2>2, <2>4, <2>11, GetBestEffect
  <2>12. ASSUME NEW b \in Apps, \/ TryParentLock(b) \/ InitFails(b) \/ AppendStart(b) \/ PopenFails(b)
                \/ PipeFails(b) \/ TimerFails(b)
         PROVE  FALSE
    <3>1. \E pc, kid : ThreadMoves(b, pc, app[b].todo, kid)
      BY <2>1, <2>12, TryParentLockEffect, InitFailsEffect, AppendStartEffect,
         PopenFailsEffect, PipeFailsEffect, TimerFailsEffect
    <3> QED BY <2>2, <2>4, <3>1 DEF ThreadMoves
  <2>13. ASSUME NEW b \in Apps, Run(b) PROVE FALSE
    BY <2>1, <2>2, <2>4, <2>13, RunEffect DEF ThreadMoves
  <2>14. ASSUME NEW b \in Apps, KillProcessWhenTimedOut(b) PROVE FALSE
    BY <2>1, <2>3, <2>14, TimedOutEffect
  <2>15. ASSUME NEW c \in Children, ReadModel(c) PROVE FALSE
    BY <2>1, <2>2, <2>4, <2>15, ReadModelEffect DEF ThreadMoves
  <2>16. ASSUME NEW c \in Children, ChildStep(c), ~ReadModel(c) PROVE FALSE
    BY <2>3, <2>16 DEF ChildStep, TryChildLock, WritePid, ReadStorage, AffinityError, Validate,
       AppendResult
  <2> QED BY <2>3, <2>5, <2>6, <2>7, <2>8, <2>9, <2>10, <2>11, <2>12, <2>13, <2>14, <2>15,
             <2>16
          DEF Next, ThreadStep
<1>2. IInv /\ [Next]_vars => [\A a \in Apps : Goal(a)]_vars
  BY <1>1
<1> QED BY <1>2, Invariant, PTL DEF Spec, StartsAnswered

=============================================================================
