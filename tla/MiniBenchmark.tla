---------------------------- MODULE MiniBenchmark ----------------------------
(***************************************************************************)
(* tflite/experimental/acceleration/mini_benchmark: an application tries   *)
(* the acceleration settings of a model, one after the other, each in a    *)
(* child process that may crash or hang, and keeps what happened in a file *)
(* that outlives both. An application has one MiniBenchmark; its thread    *)
(* (ValidatorRunnerImpl::TriggerValidationAsync) starts the children.      *)
(*                                                                         *)
(* The storage file is the sequence of its records. Read and Append hold   *)
(* flock, so each is one step. An append that fails leaves the file as it  *)
(* is, or with the whole record when it was the fsync, the close or the    *)
(* Read that failed, or with a torn record: from then on every Read        *)
(* reports a corrupt file, with the records before the torn one as its     *)
(* contents - and with the torn one when the verifier, which runs past the *)
(* end of the buffer, accepts it.                                          *)
(* The two file locks are the pcs of those who hold them: flock is let go  *)
(* by the death of its process.                                            *)
(*                                                                         *)
(* The state of application a is memo[a], memoised_result_ with the number *)
(* of events behind it, and app[a]:                                        *)
(*   up          it runs                                                   *)
(*   validator   validator_: "none", "ok", or "failed" by its Init         *)
(*   triggered   triggered_                                                *)
(*   buffer      model_allocation_: the thread has the model in memory and *)
(*               writes it to a pipe, which is smaller than the model      *)
(*   pc, todo    the thread, and the settings it still has to do           *)
(*   child       the child it waits for                                    *)
(* The state of a child process c is child[c]:                             *)
(*   owner       the application whose thread waits for it, or NoApp       *)
(*   stdout      the application that has the other end of its output      *)
(*   pc          what it does                                              *)
(*   setting     the request it found                                      *)
(*   model       it has the model, or a path or descriptor of it           *)
(*   exit        it returned kMinibenchmarkSuccess                         *)
(***************************************************************************)
EXTENDS Integers, Sequences, FiniteSets, SequencesExt

CONSTANTS
  Apps,
  NoApp,
  ForSettings,      \* settings_to_test and the one without a delegate, in order
  Cpu,              \* the setting without a delegate
  Latency,          \* microseconds of an inference with each setting
  kMaxAttempts,
  PerTestTimeout,   \* per_test_timeout_ms > 0
  MaxChildren,      \* bound: child processes at a time
  MaxIncidents      \* bound: starts of applications and failures, together

Settings == ToSet(ForSettings)
Children == 1..MaxChildren

\* What a child has for its settings when it found no START.
NoRequest == "none"

ASSUME SettingsAssumption ==
  ForSettings \in Seq(Settings) /\ IsInjective(ForSettings)
ASSUME CpuAssumption == Cpu \in Settings
ASSUME LatencyAssumption == Latency \in [Settings -> Nat]
ASSUME AppsAssumption == IsFiniteSet(Apps)
ASSUME NoAppAssumption == NoApp \notin Apps
ASSUME NoRequestAssumption == NoRequest \notin Settings
ASSUME TimeoutAssumption == PerTestTimeout \in BOOLEAN
ASSUME BoundsAssumption ==
  /\ kMaxAttempts \in Nat \ {0}
  /\ MaxChildren \in Nat /\ MaxIncidents \in Nat

VARIABLES
  log,       \* the records of the storage file
  app,       \* the applications
  child,     \* the child processes
  memo,      \* what each application has memoised
  decision,  \* the last BestAccelerationDecision of the .extra.fb file
  launches,  \* counts the starts of applications, for the bound
  faults     \* counts the failures, for the bound

selector == <<memo, decision>>
vars == <<log, app, child, selector, launches, faults>>

-----------------------------------------------------------------------------
(* FlatbufferStorage.                                                      *)

Event(type, setting, ok) == [type |-> type, setting |-> setting, ok |-> ok, torn |-> "no"]

\* Read succeeds.
ReadOk(f) == \A i \in DOMAIN f : f[i].torn = "no"

FirstTorn(f) ==
  CHOOSE i \in DOMAIN f : f[i].torn # "no" /\ \A j \in 1..(i - 1) : f[j].torn = "no"

\* contents_ after Read.
Contents(f) ==
  IF ReadOk(f) THEN f
  ELSE SubSeq(f, 1, IF f[FirstTorn(f)].torn = "accepted" THEN FirstTorn(f) ELSE FirstTorn(f) - 1)

\* What Append can do to the file and to its storage object: write the record
\* and read everything back, or fail before, after or while it writes.
AppendTo(f, e) ==
  {[log |-> Append(f, e), ok |-> ReadOk(f), contents |-> Contents(Append(f, e)), fault |-> 0]}
  \union
  {[log |-> left, ok |-> FALSE, contents |-> << >>, fault |-> 1] :
     left \in {f, Append(f, e)}
               \union {Append(f, [e EXCEPT !.torn = how]) : how \in {"accepted", "rejected"}}}

\* A step in which n calls of the system fail, or come too late.
Fault(n) == launches + faults + n <= MaxIncidents /\ faults' = faults + n

IsResult(e) == e.type \in {"END", "ERROR"}

Starts(f, s) == {i \in DOMAIN f : f[i].type = "START" /\ f[i].setting = s}

-----------------------------------------------------------------------------
(* The results.                                                            *)

\* IsValidationSuccessEvent.
IsSuccess(e) == e.type = "END" /\ e.ok

\* The places of the events in the file.
GetSuccessfulResults(f) == {i \in DOMAIN Contents(f) : IsSuccess(f[i])}

\* Record i is the first of the events with the least latency.
IsMinLatency(f, events, i) ==
  \A j \in events :
    /\ Latency[f[i].setting] <= Latency[f[j].setting]
    /\ j < i => Latency[f[i].setting] < Latency[f[j].setting]

FindMinLatencyEvent(f, events) == f[CHOOSE i \in events : IsMinLatency(f, events, i)]

\* The ComputeSettings of the default constructor.
NoResult == "default"

CreateAccelerationFromBenchmark(e) == IF e.setting = Cpu THEN NoResult ELSE e.setting

NoMemo == [n |-> 0, result |-> NoResult, some |-> FALSE]
Memoize(n, e) == [n |-> n, result |-> CreateAccelerationFromBenchmark(e), some |-> TRUE]

MemoHitAnyCount(m, events) == m.some   \* mutant: the number of events is not compared

MemoHit(m, events) == m.some /\ Cardinality(events) = m.n

\* GetBestAcceleration of the selector: what it returns and memoises.
BestAcceleration(m, f, events) ==
  IF events = {} THEN [result |-> NoResult, memo |-> m]
  ELSE IF MemoHit(m, events) THEN [result |-> m.result, memo |-> m]
  ELSE LET new == Memoize(Cardinality(events), FindMinLatencyEvent(f, events))
       IN  [result |-> new.result, memo |-> new]

-----------------------------------------------------------------------------
(* The application.                                                        *)

Down(buffer) ==
  [up |-> FALSE, validator |-> "none", triggered |-> FALSE, buffer |-> buffer, pc |-> "none",
   todo |-> {}, child |-> 0]

NoChild ==
  [pc |-> "none", owner |-> NoApp, stdout |-> NoApp, setting |-> NoRequest, model |-> FALSE,
   exit |-> FALSE]

Init ==
  /\ log = << >>
  /\ \E buffer \in [Apps -> BOOLEAN] : app = [a \in Apps |-> Down(buffer[a])]
  /\ child = [c \in Children |-> NoChild]
  /\ memo = [a \in Apps |-> NoMemo]
  /\ decision = NoMemo
  /\ launches = 0
  /\ faults = 0

\* The constructors: the last decision is memoised again.
Launch(a) ==
  /\ ~app[a].up
  /\ launches + faults < MaxIncidents
  /\ launches' = launches + 1
  /\ app' = [app EXCEPT ![a].up = TRUE]
  /\ memo' = [memo EXCEPT ![a] = decision]
  /\ UNCHANGED <<log, child, decision, faults>>

KillKeepsExited(a) ==   \* mutant: a child that has exited stays
  /\ app[a].up
  /\ app' = [app EXCEPT ![a] = Down(app[a].buffer)]
  /\ memo' = [memo EXCEPT ![a] = NoMemo]
  /\ child' = [c \in Children |->
                 IF child[c].stdout # a THEN child[c]
                 ELSE [child[c] EXCEPT !.owner = NoApp, !.stdout = NoApp]]
  /\ UNCHANGED <<log, decision, launches, faults>>

\* The application dies with its thread. Its children lose the reader of
\* their output; one that has exited is gone.
Kill(a) ==
  /\ app[a].up
  /\ app' = [app EXCEPT ![a] = Down(app[a].buffer)]
  /\ memo' = [memo EXCEPT ![a] = NoMemo]
  /\ child' = [c \in Children |->
                 IF child[c].stdout # a THEN child[c]
                 ELSE IF child[c].pc = "exited" THEN NoChild
                 ELSE [child[c] EXCEPT !.owner = NoApp, !.stdout = NoApp]]
  /\ UNCHANGED <<log, decision, launches, faults>>

CreateValidatorIfNecessary(s, f) ==
  IF s.validator # "none" THEN s
  ELSE [s EXCEPT !.validator = IF ReadOk(f) THEN "ok" ELSE "failed"]

MissingWithoutEnd(f, s) ==   \* mutant: the attempts are not counted
  \A i \in DOMAIN f : ~(f[i].type = "END" /\ f[i].setting = s)

\* TriggerMissingValidation's filter: no result yet and attempts left.
Missing(f, s) ==
  /\ \A i \in DOMAIN f : ~(f[i].type = "END" /\ f[i].setting = s)
  /\ Cardinality(Starts(f, s)) < kMaxAttempts

TriggerMiniBenchmark(a) ==
  LET s == CreateValidatorIfNecessary(app[a], log)
      todo == {one \in Settings : Missing(Contents(log), one)}
  IN  /\ app[a].up
      /\ app' = [app EXCEPT ![a] =
                   IF s.validator # "ok" \/ s.triggered THEN s
                   ELSE [s EXCEPT !.triggered = TRUE, !.todo = todo,
                                  !.pc = IF todo = {} THEN "none" ELSE "lock"]]
      /\ UNCHANGED <<log, child, selector, launches, faults>>

\* A new decision is appended to the .extra.fb file.
GetBestAcceleration(a) ==
  LET s == CreateValidatorIfNecessary(app[a], log)
      best == BestAcceleration(memo[a], log, GetSuccessfulResults(log))
  IN  /\ app[a].up
      /\ app' = [app EXCEPT ![a] = s]
      /\ memo' = IF s.validator = "ok" THEN [memo EXCEPT ![a] = best.memo] ELSE memo
      /\ decision' = IF memo'[a] # memo[a] THEN memo'[a] ELSE decision
      /\ UNCHANGED <<log, child, launches, faults>>

-----------------------------------------------------------------------------
(* The thread of an application.                                           *)

\* Its child runs: it writes the model, waits until its time is up, or waits
\* without a limit.
HasChild(a) == app[a].pc \in {"pipe", "wait", "drain"}

HoldsParentLock(a) == app[a].pc \in {"start", "initError", "run", "error"} \/ HasChild(a)

\* one_setting: settings are done in the order of the list.
OneSetting(todo) ==
  ForSettings[CHOOSE i \in DOMAIN ForSettings :
                /\ ForSettings[i] \in todo
                /\ \A j \in 1..(i - 1) : ForSettings[j] \notin todo]

\* The end of the loop's body: the next setting, or the lock is let go.
NextSetting(s) ==
  LET rest == s.todo \ {OneSetting(s.todo)}
  IN  [s EXCEPT !.todo = rest, !.pc = IF rest = {} THEN "done" ELSE "start", !.child = 0]

TryParentLock(a) ==
  /\ app[a].pc = "lock"
  /\ app' = [app EXCEPT ![a].pc = IF \E b \in Apps : HoldsParentLock(b) THEN "done" ELSE "start"]
  /\ UNCHANGED <<log, child, selector, launches, faults>>

\* ProcessRunner::Init fails.
InitFails(a) ==
  /\ app[a].pc = "start"
  /\ Fault(1)
  /\ app' = [app EXCEPT ![a].pc = "initError"]
  /\ UNCHANGED <<log, child, selector, launches>>

AppendStart(a) ==
  /\ app[a].pc = "start"
  /\ \E r \in AppendTo(log, Event("START", OneSetting(app[a].todo), FALSE)) :
       /\ Fault(r.fault)
       /\ log' = r.log
       /\ app' = [app EXCEPT ![a].pc = IF r.ok THEN "run" ELSE "initError"]
  /\ UNCHANGED <<child, selector, launches>>

AppendError(a) ==
  /\ app[a].pc \in {"initError", "error"}
  /\ \E r \in AppendTo(log, Event("ERROR", OneSetting(app[a].todo), FALSE)) :
       Fault(r.fault) /\ log' = r.log
  /\ app' = [app EXCEPT ![a] = NextSetting(app[a])]
  /\ UNCHANGED <<child, selector, launches>>

\* pipe or popen fails.
PopenFails(a) ==
  /\ app[a].pc = "run"
  /\ app' = [app EXCEPT ![a].pc = "error"]
  /\ UNCHANGED <<log, child, selector, launches, faults>>

\* ProcessRunner::Run up to popen.
Run(a) ==
  /\ app[a].pc = "run"
  /\ \E c \in Children :
       /\ child[c].pc = "none"
       /\ \A d \in 1..(c - 1) : child[d].pc # "none"
       /\ child' = [child EXCEPT ![c] = [NoChild EXCEPT !.pc = "lock", !.owner = a, !.stdout = a,
                                                        !.model = ~app[a].buffer]]
       /\ app' = [app EXCEPT ![a].pc = IF app[a].buffer THEN "pipe" ELSE "wait", ![a].child = c]
  /\ UNCHANGED <<log, selector, launches, faults>>

\* The write of the model fails: the child is gone or has given the pipe up, or
\* the write is interrupted. Nobody calls pclose, and the child goes on.
PipeFails(a) ==
  LET c == child[app[a].child]
  IN  /\ app[a].pc = "pipe"
      /\ Fault(IF c.pc = "exited" \/ (c.pc = "error" /\ c.setting # NoRequest) THEN 0 ELSE 1)
      /\ child' = [child EXCEPT ![app[a].child] =
                     IF c.pc = "exited" THEN NoChild ELSE [c EXCEPT !.owner = NoApp]]
      /\ app' = [app EXCEPT ![a].pc = "error", ![a].child = 0]
      /\ UNCHANGED <<log, selector, launches>>

\* The read of the pid or poll fails: the thread reads on until the child ends.
TimerFails(a) ==
  /\ PerTestTimeout
  /\ app[a].pc = "wait"
  /\ Fault(1)
  /\ app' = [app EXCEPT ![a].pc = "drain"]
  /\ UNCHANGED <<log, child, selector, launches>>

ReapIgnoresExit(a) ==   \* mutant: every exit is a success
  /\ app[a].pc \in {"wait", "drain"} /\ child[app[a].child].pc = "exited"
  /\ child' = [child EXCEPT ![app[a].child] = NoChild]
  /\ app' = [app EXCEPT ![a] = NextSetting(app[a])]
  /\ UNCHANGED <<log, selector, launches, faults>>

\* pclose: an exit code other than kMinibenchmarkSuccess, or a signal, is an
\* error.
Reap(a) ==
  LET c == child[app[a].child]
  IN  /\ app[a].pc \in {"wait", "drain"} /\ c.pc = "exited"
      /\ child' = [child EXCEPT ![app[a].child] = NoChild]
      /\ app' = [app EXCEPT ![a] =
                   IF c.exit THEN NextSetting(app[a])
                   ELSE [app[a] EXCEPT !.pc = "error", !.child = 0]]
      /\ UNCHANGED <<log, selector, launches, faults>>

\* A child is gone when it exits without a thread that waits for it.
Exited(c, ok) ==
  IF child[c].owner = NoApp THEN NoChild
  ELSE [child[c] EXCEPT !.pc = "exited", !.exit = ok]

TimedOutWithoutKill(a) ==   \* mutant: the child is not killed
  /\ PerTestTimeout
  /\ app[a].pc = "wait"
  /\ UNCHANGED vars

\* Once the thread has the pid.
KillProcessWhenTimedOut(a) ==
  /\ PerTestTimeout
  /\ app[a].pc = "wait"
  /\ child[app[a].child].pc \in {"read", "affinity", "validate", "hung", "end", "error"}
  /\ child' = [child EXCEPT ![app[a].child] = Exited(app[a].child, FALSE)]
  /\ UNCHANGED <<log, app, selector, launches, faults>>

-----------------------------------------------------------------------------
(* The child: the validation entrypoint.                                   *)

HoldsChildLock(c) ==
  child[c].pc \in {"pid", "read", "affinity", "validate", "hung", "end", "error"}

TryChildLock(c) ==
  /\ child[c].pc = "lock"
  /\ child' = [child EXCEPT ![c] =
                 IF \E d \in Children : HoldsChildLock(d) THEN Exited(c, FALSE)
                 ELSE [child[c] EXCEPT !.pc = "pid"]]
  /\ UNCHANGED <<log, app, selector, launches, faults>>

\* Without a reader of its output it dies of SIGPIPE.
WritePid(c) ==
  /\ child[c].pc = "pid"
  /\ child' = [child EXCEPT ![c] =
                 IF child[c].stdout = NoApp THEN NoChild ELSE [child[c] EXCEPT !.pc = "read"]]
  /\ UNCHANGED <<log, app, selector, launches, faults>>

RequestFirst(contents) ==   \* mutant: the first START is the request
  LET starts == {i \in DOMAIN contents : contents[i].type = "START"}
  IN  IF starts = {} THEN NoRequest
      ELSE contents[CHOOSE i \in starts : \A j \in starts : i <= j].setting

\* The request is the last START of what was read.
Request(contents) ==
  LET starts == {i \in DOMAIN contents : contents[i].type = "START"}
  IN  IF starts = {} THEN NoRequest
      ELSE contents[CHOOSE i \in starts : \A j \in starts : j <= i].setting

\* Read may fail whatever the file is like.
ReadStorage(c) ==
  /\ child[c].pc = "read"
  /\ \/ /\ ReadOk(log)
        /\ child' = [child EXCEPT ![c].pc = "affinity", ![c].setting = Request(Contents(log))]
     \/ child' = [child EXCEPT ![c] = Exited(c, FALSE)]
  /\ UNCHANGED <<log, app, selector, launches, faults>>

\* SetBigCoresAffinity fails, or Validate comes next. Append reads the file
\* again; nobody asks for its status. The settings of the record are default
\* ones, as the CPU's are.
AffinityError(c) ==
  /\ child[c].pc = "affinity"
  /\ \E r \in AppendTo(log, Event("RECOVERED_ERROR", Cpu, FALSE)) :
       /\ Fault(1)
       /\ log' = r.log
       /\ child' = [child EXCEPT ![c].pc = "validate", ![c].setting = Request(r.contents)]
  /\ UNCHANGED <<app, selector, launches>>

\* The model loader of a child with a request reads what its parent writes, and
\* with the last byte the parent's write is done.
ReadModel(c) ==
  LET a == child[c].owner
  IN  /\ child[c].pc \in {"affinity", "validate"} /\ child[c].setting # NoRequest
      /\ ~child[c].model
      /\ a # NoApp /\ app[a].pc = "pipe"
      /\ child' = [child EXCEPT ![c].model = TRUE]
      /\ app' = [app EXCEPT ![a].pc = "wait"]
      /\ UNCHANGED <<log, selector, launches, faults>>

\* RunValidator succeeds, reports an error, kills the process, or does not
\* end, in a delegate's library even before it loads the model. Without a
\* request there is only the error.
Validate(c) ==
  /\ child[c].pc \in {"affinity", "validate"}
  /\ \/ child' = [child EXCEPT ![c].pc = "error"]
     \/ child[c].model /\ child[c].setting # NoRequest /\ child' = [child EXCEPT ![c].pc = "end"]
     \/ child[c].setting # NoRequest /\ child' = [child EXCEPT ![c].pc = "hung"]
     \/ child[c].setting # NoRequest /\ child' = [child EXCEPT ![c] = Exited(c, FALSE)]
  /\ UNCHANGED <<log, app, selector, launches, faults>>

\* END with the outcome of the accuracy check, or ERROR; Append's status is
\* the exit code, unless the time is up between the two.
AppendResult(c) ==
  LET type == IF child[c].pc = "end" THEN "END" ELSE "ERROR"
      setting == IF child[c].setting = NoRequest THEN Cpu ELSE child[c].setting
  IN  /\ child[c].pc \in {"end", "error"}
      /\ \E ok \in IF type = "END" THEN BOOLEAN ELSE {FALSE} :
         \E late \in IF PerTestTimeout /\ child[c].owner # NoApp /\ app[child[c].owner].pc = "wait"
                   THEN {0, 1} ELSE {0} :
         \E r \in AppendTo(log, Event(type, setting, ok)) :
           /\ Fault(r.fault + late)
           /\ log' = r.log
           /\ child' = [child EXCEPT ![c] = Exited(c, r.ok /\ late = 0)]
      /\ UNCHANGED <<app, selector, launches>>

-----------------------------------------------------------------------------

ThreadStep(a) ==
  \/ TryParentLock(a) \/ InitFails(a) \/ AppendStart(a) \/ AppendError(a)
  \/ PopenFails(a) \/ Run(a) \/ PipeFails(a) \/ TimerFails(a) \/ Reap(a)

ChildStep(c) ==
  \/ TryChildLock(c) \/ WritePid(c) \/ ReadStorage(c) \/ AffinityError(c)
  \/ ReadModel(c) \/ Validate(c) \/ AppendResult(c)

Next ==
  \/ \E a \in Apps :
       \/ Launch(a) \/ Kill(a) \/ TriggerMiniBenchmark(a) \/ GetBestAcceleration(a)
       \/ ThreadStep(a) \/ KillProcessWhenTimedOut(a)
  \/ \E c \in Children : ChildStep(c)

\* Threads and processes are scheduled, and poll returns when its time is up.
Fairness ==
  /\ \A a \in Apps : WF_vars(ThreadStep(a)) /\ WF_vars(KillProcessWhenTimedOut(a))
  /\ \A c \in Children : WF_vars(ChildStep(c))

Spec == Init /\ [][Next]_vars /\ Fairness

-----------------------------------------------------------------------------
(* Properties.                                                             *)

Events ==
  [type : {"START", "END", "ERROR", "RECOVERED_ERROR"}, setting : Settings, ok : BOOLEAN,
   torn : {"no", "accepted", "rejected"}]

Memos == [n : Nat, result : Settings \union {NoResult}, some : BOOLEAN]

AppStates ==
  [up : BOOLEAN, validator : {"none", "ok", "failed"}, triggered : BOOLEAN, buffer : BOOLEAN,
   pc : {"none", "lock", "start", "initError", "run", "pipe", "wait", "drain", "error", "done"},
   todo : SUBSET Settings, child : Children \union {0}]

ChildStates ==
  [pc : {"none", "lock", "pid", "read", "affinity", "validate", "hung", "end", "error", "exited"},
   owner : Apps \union {NoApp}, stdout : Apps \union {NoApp},
   setting : Settings \union {NoRequest}, model : BOOLEAN, exit : BOOLEAN]

\* The file, the applications and the children have their types, a thread
\* has the lock only while it has a setting to do, and a child that has
\* exited is kept for its parent only.
TypeOK ==
  /\ log \in Seq(Events)
  /\ app \in [Apps -> AppStates]
  /\ child \in [Children -> ChildStates]
  /\ memo \in [Apps -> Memos] /\ decision \in Memos
  /\ launches \in Nat /\ faults \in Nat
  /\ \A a \in Apps : app[a].pc = "lock" \/ HoldsParentLock(a) => app[a].todo # {}
  /\ \A c \in Children : child[c].pc = "exited" => child[c].owner # NoApp

\* A setting is tried at most kMaxAttempts times, however often applications
\* die and children crash, hang or go on without a parent. The filter reads
\* the file before the thread has the lock, so every further application may
\* add one attempt (TriggerMissingValidation).
AttemptsBounded ==
  \A s \in Settings :
    Cardinality(Starts(log, s)) <= kMaxAttempts + Cardinality(Apps) - 1

\* When a thread goes on from a setting, the file has a result for it after
\* its last START, whatever became of the child - unless the append of the
\* thread's own ERROR is the one that failed, or the child found no request and
\* has put its ERROR under the default settings, or the file is torn
\* (TriggerValidationAsync).
StartsAnswered ==
  [][\A a \in Apps :
       LET one == OneSetting(app[a].todo)
       IN  /\ app[a].todo # {}
           /\ app'[a].up /\ app'[a].todo = app[a].todo \ {one}
           /\ IF HasChild(a) THEN child[app[a].child].setting # NoRequest ELSE log' # log
           /\ ReadOk(log')
           => \A i \in Starts(log', one) : \E j \in (i + 1)..Len(log') :
                IsResult(log'[j]) /\ log'[j].setting = one]_vars

\* At most one validation runs at a time, orphans included, and one whose
\* parent waits for it tests the setting that parent has started (the two
\* file locks and the choice of the last START) - or nothing, after an append
\* that failed has left its storage object without contents.
ValidatesItsRequest ==
  \A c \in Children : child[c].pc \in {"affinity", "validate", "hung", "end", "error"} =>
    /\ \A d \in Children \ {c} : ~HoldsChildLock(d)
    /\ child[c].owner # NoApp /\ ReadOk(log) =>
         \/ child[c].setting = OneSetting(app[child[c].owner].todo)
         \/ child[c].setting = NoRequest /\ child[c].pc \in {"validate", "error"}

\* What GetBestAcceleration answers, from the memoised or the stored decision
\* or anew, is the fastest of the settings that passed so far.
BestIsCurrent ==
  \A a \in Apps : app[a].validator = "ok" =>
    LET events == GetSuccessfulResults(log)
    IN  events # {} =>
          BestAcceleration(memo[a], log, events).result =
            CreateAccelerationFromBenchmark(FindMinLatencyEvent(log, events))

\* A thread waits for ever for a child that hangs: it writes the model to a
\* child that does not read it, or its timer has failed.
Blocked(a) == app[a].pc \in {"pipe", "drain"} /\ child[app[a].child].pc = "hung"

\* The thread of an application ends, or the application does, unless it is
\* Blocked: a child that hangs after its model is written is killed when its
\* time is up, and no one waits for a lock (Run, KillProcessWhenTimedOut,
\* FileLock::TryLock).
RunnerEnds ==
  \A a \in Apps : app[a].pc = "lock" ~> app[a].pc \in {"none", "done"} \/ Blocked(a)

=============================================================================
