---------------------------- MODULE TaskGoProofs ----------------------------
(***************************************************************************)
(* The safety properties of TaskGo hold for every set of tasks and of      *)
(* stoppers.  What makes them inductive is IInv: before the stop nobody    *)
(* has touched doneCh, and a token in it means that nothing runs.          *)
(***************************************************************************)
EXTENDS TaskGo, FiniteSetTheorems, TLAPS

Untouched ==
  status = "open" => doneCh = 0 /\ \A s \in Stoppers : stopper[s] = "idle"

TokenMeansNone == doneCh # 0 => Running = {}

IInv ==
  /\ TypeOK /\ CountMatches /\ OneWinner /\ FinishedMeansNoneRunning
  /\ Untouched /\ TokenMeansNone

\* Registering a task adds it to Running and raises the count by one.
LEMMA RegisterCount ==
  ASSUME TypeOK, CountMatches, NEW t \in Tasks, Register(t)
  PROVE  Running' = Running \cup {t} /\ CountMatches'
<1>1. Running' = Running \cup {t} /\ t \notin Running
  BY DEF TypeOK, Register, Running
<1>2. IsFiniteSet(Running)
  BY TasksFinite, FS_Subset DEF Running
<1>3. Cardinality(Running') = Cardinality(Running) + 1
  BY <1>1, <1>2, FS_AddElement
<1> QED BY <1>1, <1>3 DEF CountMatches, Register

\* A task that finishes leaves Running and lowers the count by one.
LEMMA FinishCount ==
  ASSUME TypeOK, CountMatches, NEW t \in Tasks, NEW b, Finish(t, tasksNum - 1, b)
  PROVE  Running' = Running \ {t} /\ CountMatches'
<1>1. Running' = Running \ {t} /\ t \in Running
  BY DEF TypeOK, Finish, Running
<1>2. IsFiniteSet(Running)
  BY TasksFinite, FS_Subset DEF Running
<1>3. Cardinality(Running') = Cardinality(Running) - 1
  BY <1>1, <1>2, FS_RemoveElement
<1> QED BY <1>1, <1>3 DEF CountMatches, Finish

LEMMA InitInv == Init => IInv
<1> SUFFICES ASSUME Init PROVE IInv
  OBVIOUS
<1>1. Running = {}
  BY DEF Init, Running
<1>2. CountMatches
  BY <1>1, FS_EmptySet DEF Init, CountMatches
<1>3. TypeOK
  <2>1. stopper \in [Stoppers -> StopperState] /\ report \in [Stoppers -> SUBSET Tasks]
    BY DEF Init, StopperState
  <2>2. task \in [Tasks -> {"none", "running", "done"}]
    BY DEF Init
  <2>3. tasksNum \in Int /\ doneCh \in 0 .. 1
    BY DEF Init
  <2>4. status \in {"open", "stoped"} /\ cancelled \in BOOLEAN
    BY DEF Init
  <2> QED BY <2>1, <2>2, <2>3, <2>4 DEF TypeOK
<1> QED
  BY <1>1, <1>2, <1>3 DEF Init, IInv, OneWinner, Winner,
     FinishedMeansNoneRunning, Untouched, TokenMeansNone

\* Every step, of a task or of a stopper, preserves IInv.
LEMMA NextInv == IInv /\ [Next]_vars => IInv'
<1> SUFFICES ASSUME IInv, [Next]_vars PROVE IInv'
  OBVIOUS
<1> USE DEF IInv
<1>1. ASSUME NEW t \in Tasks, Go(t) PROVE IInv'
  <2>1. Running' = Running \cup {t} /\ CountMatches'
    BY <1>1, RegisterCount DEF Go
  <2>2. status = "open"
    BY <1>1 DEF Go, TypeOK
  <2>3. TypeOK'
    BY <1>1 DEF Go, Register, TypeOK
  <2> QED
    BY <1>1, <2>1, <2>2, <2>3 DEF Go, Register, Untouched, TokenMeansNone,
       OneWinner, Winner, FinishedMeansNoneRunning
<1>2. ASSUME NEW t \in Tasks, Done(t) PROVE IInv'
  <2> DEFINE last == status = "stoped" /\ tasksNum - 1 = 0
  <2>0. Finish(t, tasksNum - 1, last) /\ (last => doneCh < DoneChCap)
    BY <1>2 DEF Done
  <2>1. Running' = Running \ {t} /\ CountMatches'
    BY <2>0, FinishCount
  <2>2. t \in Running
    BY <2>0 DEF Finish, Running
  <2>3. doneCh = 0
    BY <2>2 DEF TokenMeansNone
  <2>4. TypeOK'
    BY <2>0, <2>3 DEF Finish, TypeOK
  <2>5. last => Running' = {}
    <3>1. last => tasksNum' = 0
      BY <2>0 DEF Finish
    <3>2. IsFiniteSet(Running')
      BY TasksFinite, FS_Subset DEF Running
    <3> QED BY <2>1, <3>1, <3>2, FS_EmptySet DEF CountMatches
  <2>6. Untouched' /\ TokenMeansNone'
    BY <2>0, <2>3, <2>5 DEF Finish, Untouched, TokenMeansNone
  <2>7. OneWinner' /\ FinishedMeansNoneRunning'
    BY <2>0, <2>1 DEF Finish, OneWinner, Winner, FinishedMeansNoneRunning
  <2> QED BY <2>1, <2>4, <2>6, <2>7
<1>3. ASSUME NEW s \in Stoppers, StopAndWait(s) PROVE IInv'
  <2>1. TypeOK' /\ Running' = Running
    BY <1>3 DEF StopAndWait, TypeOK, StopperState, Returned, Running
  <2>2. CountMatches' /\ TokenMeansNone'
    BY <1>3, <2>1 DEF StopAndWait, CountMatches, TokenMeansNone
  <2>3. OneWinner'
    BY <1>3 DEF StopAndWait, OneWinner, Winner, Untouched, TypeOK
  <2>4. FinishedMeansNoneRunning'
    BY <1>3, <2>1 DEF StopAndWait, FinishedMeansNoneRunning, TypeOK
  <2> QED BY <1>3, <2>1, <2>2, <2>3, <2>4 DEF StopAndWait, Untouched
<1>4. ASSUME NEW s \in Stoppers,
             Cancel(s) \/ StopFinished(s) \/ StopTimeout(s) \/ StopReport(s)
      PROVE  IInv'
  <2> USE DEF Cancel, StopFinished, StopTimeout, StopReport
  <2>1. Running' = Running /\ Running \in SUBSET Tasks
    BY <1>4 DEF Running
  <2>2. TypeOK'
    <3>1. stopper' \in [Stoppers -> StopperState] /\ doneCh' \in 0 .. 1
      BY <1>4 DEF TypeOK, StopperState, Returned
    <3>2. report' \in [Stoppers -> SUBSET Tasks]
      BY <1>4, <2>1 DEF TypeOK
    <3>3. cancelled' \in BOOLEAN
      BY <1>4 DEF TypeOK
    <3> QED BY <1>4, <3>1, <3>2, <3>3 DEF TypeOK
  <2>3. CountMatches' /\ TokenMeansNone'
    BY <1>4, <2>1 DEF CountMatches, TokenMeansNone, TypeOK
  <2>4. OneWinner'
    BY <1>4 DEF OneWinner, Winner, TypeOK
  <2>5. FinishedMeansNoneRunning'
    BY <1>4, <2>1 DEF FinishedMeansNoneRunning, TokenMeansNone, TypeOK
  <2>6. Untouched'
    BY <1>4 DEF Untouched, TypeOK
  <2> QED BY <2>2, <2>3, <2>4, <2>5, <2>6
<1>5. CASE UNCHANGED vars
  BY <1>5 DEF vars, TypeOK, CountMatches, Running, OneWinner, Winner,
     FinishedMeansNoneRunning, Untouched, TokenMeansNone
<1> QED BY <1>1, <1>2, <1>3, <1>4, <1>5 DEF Next

LEMMA SafetyInv == Safety => []IInv
BY InitInv, NextInv, PTL DEF Safety

\* Type correctness of the task manager, for every set of tasks and stoppers.
THEOREM TypeCorrect == Safety => []TypeOK
BY SafetyInv, PTL DEF IInv

\* tasksNum always equals the number of unfinished goroutines, whatever the
\* interleaving of Go, done and StopAndWait.
THEOREM CountCorrect == Safety => []CountMatches
BY SafetyInv, PTL DEF IInv

\* Only one of any number of concurrent StopAndWait calls does the cancelling.
THEOREM AtMostOneWinner == Safety => []OneWinner
BY SafetyInv, PTL DEF IInv

\* A nil result from doneCh means that no task runs, then and ever after.
THEOREM NilResultIsSound == Safety => []FinishedMeansNoneRunning
BY SafetyInv, PTL DEF IInv

\* done() never blocks on doneCh while it holds the mutex.
THEOREM LastTaskNeverBlocks == Safety => []DoneNeverBlocks
<1>1. IInv => DoneNeverBlocks
  <2> SUFFICES ASSUME IInv, tasksNum = 1 PROVE doneCh < DoneChCap
    BY DEF DoneNeverBlocks
  <2>1. Cardinality(Running) # Cardinality({})
    BY FS_EmptySet DEF IInv, CountMatches
  <2> QED BY <2>1 DEF IInv, TokenMeansNone, DoneChCap
<1> QED BY <1>1, SafetyInv, PTL
=============================================================================
