------------------------------- MODULE TaskGo -------------------------------
(***************************************************************************)
(* The task manager of pkg/taskgo: it starts named goroutines (Go), counts *)
(* the ones that have not finished (done), and stops them as a group       *)
(* (StopAndWait: refuse new tasks, cancel the context, wait for the last   *)
(* goroutine or for a deadline).  Every critical section of tg.Mutex is    *)
(* one step; what StopAndWait does outside the mutex is a step of its own. *)
(***************************************************************************)
EXTENDS Integers, FiniteSets

CONSTANTS Tasks,     \* task names handed to Go
          Stoppers   \* goroutines that call StopAndWait, once each

ASSUME TasksFinite == IsFiniteSet(Tasks)

VARIABLES
  task,       \* tg.tasks: "none" (no entry), "running" (DoneAt zero), "done"
  tasksNum,   \* tg.tasksNum
  status,     \* tg.status: "open" or "stoped"
  doneCh,     \* number of tokens buffered in tg.doneCh
  cancelled,  \* tg.cancel() has been called
  stopper,    \* where each StopAndWait call is, and what it returned
  report      \* the names in the error a timed-out StopAndWait returned

vars == <<task, tasksNum, status, doneCh, cancelled, stopper, report>>

\* "already": returned nil at once, another call had stopped the manager;
\* "finished": returned nil from doneCh;  "err": returned the timeout error.
Returned == {"already", "finished", "err"}
StopperState == {"idle", "cancel", "wait", "late"} \cup Returned

Init ==
  /\ task = [t \in Tasks |-> "none"]
  /\ tasksNum = 0
  /\ status = "open"
  /\ doneCh = 0
  /\ cancelled = FALSE
  /\ stopper = [s \in Stoppers |-> "idle"]
  /\ report = [s \in Stoppers |-> {}]

\* unCompleted: started and DoneAt still zero.  UnfinishedTasksName lists these.
Running == {t \in Tasks : task[t] = "running"}

\* The channel is made with room for one token.
DoneChCapUnbuffered == 0
DoneChCap == 1

-----------------------------------------------------------------------------
Register(t) ==
  /\ task[t] = "none"
  /\ task' = [task EXCEPT ![t] = "running"]
  /\ tasksNum' = tasksNum + 1
  /\ UNCHANGED <<status, doneCh, cancelled, stopper, report>>

\* Mutant: Go without the isStoped() check.
GoUnchecked(t) == Register(t)

\* Go: an error, and no change, once stopped or when the name has an entry
\* (finished or not); otherwise the goroutine is counted before it starts.
Go(t) ==
  /\ status # "stoped"
  /\ Register(t)

\* Task t is marked done, the counter becomes n, and the token is sent (with
\* the mutex held, so a full channel blocks) when signal holds.
Finish(t, n, signal) ==
  /\ task[t] = "running"
  /\ task' = [task EXCEPT ![t] = "done"]
  /\ tasksNum' = n
  /\ doneCh' = IF signal THEN doneCh + 1 ELSE doneCh
  /\ UNCHANGED <<status, cancelled, stopper, report>>

\* Mutant: done() leaves the counter alone.
DoneUncounted(t) == Finish(t, tasksNum, status = "stoped" /\ tasksNum = 1)

\* Mutant: done() signals whenever the counter reaches zero, stopped or not.
DoneAlwaysSignals(t) == Finish(t, tasksNum - 1, tasksNum = 1)

\* done, run by the deferred function of Go whether f returned or panicked.
Done(t) ==
  LET last == status = "stoped" /\ tasksNum - 1 = 0 IN
  /\ last => doneCh < DoneChCap
  /\ Finish(t, tasksNum - 1, last)

\* Mutant: the two-step "if IsStoped return; stop()" the comment in
\* StopAndWait rejects: the second caller no longer sees the first one's stop.
StopUnguarded(s) ==
  /\ stopper[s] = "idle"
  /\ status' = "stoped"
  /\ stopper' = [stopper EXCEPT ![s] = "cancel"]
  /\ UNCHANGED <<task, tasksNum, doneCh, cancelled, report>>

\* StopAndWait up to the Unlock: the first caller wins, later ones return nil.
StopAndWait(s) ==
  /\ stopper[s] = "idle"
  /\ status' = "stoped"
  /\ stopper' = [stopper EXCEPT
        ![s] = IF status = "stoped" THEN "already" ELSE "cancel"]
  /\ UNCHANGED <<task, tasksNum, doneCh, cancelled, report>>

\* tg.cancel(); the optional canceFunc is user code and must not block.
Cancel(s) ==
  /\ stopper[s] = "cancel"
  /\ cancelled' = TRUE
  /\ stopper' = [stopper EXCEPT ![s] = "wait"]
  /\ UNCHANGED <<task, tasksNum, status, doneCh, report>>

\* The select takes the token the last task left.
StopFinished(s) ==
  /\ stopper[s] = "wait"
  /\ doneCh > 0
  /\ doneCh' = doneCh - 1
  /\ stopper' = [stopper EXCEPT ![s] = "finished"]
  /\ UNCHANGED <<task, tasksNum, status, cancelled, report>>

\* Mutant: no time.After case in the select.
NoTimeout(s) == stopper[s] = "wait" /\ FALSE /\ UNCHANGED vars

\* The select takes the time.After case.
StopTimeout(s) ==
  /\ stopper[s] = "wait"
  /\ stopper' = [stopper EXCEPT ![s] = "late"]
  /\ UNCHANGED <<task, tasksNum, status, doneCh, cancelled, report>>

\* UnfinishedTasksName under the mutex, and the error made from it.
StopReport(s) ==
  /\ stopper[s] = "late"
  /\ report' = [report EXCEPT ![s] = Running]
  /\ stopper' = [stopper EXCEPT ![s] = "err"]
  /\ UNCHANGED <<task, tasksNum, status, doneCh, cancelled>>

Next ==
  \/ \E t \in Tasks : Go(t) \/ Done(t)
  \/ \E s \in Stoppers :
       \/ StopAndWait(s) \/ Cancel(s) \/ StopFinished(s)
       \/ StopTimeout(s) \/ StopReport(s)

\* A goroutine inside StopAndWait keeps being scheduled and its timer fires.
\* Nothing is assumed of the tasks: a task may run forever.
Fairness ==
  \A s \in Stoppers :
    /\ WF_vars(Cancel(s)) /\ WF_vars(StopReport(s))
    /\ WF_vars(StopFinished(s) \/ StopTimeout(s))

Safety == Init /\ [][Next]_vars
Spec == Safety /\ Fairness
-----------------------------------------------------------------------------
TypeOK ==
  /\ task \in [Tasks -> {"none", "running", "done"}]
  /\ tasksNum \in Int
  /\ status \in {"open", "stoped"}
  /\ doneCh \in 0 .. 1
  /\ cancelled \in BOOLEAN
  /\ stopper \in [Stoppers -> StopperState]
  /\ report \in [Stoppers -> SUBSET Tasks]

\* The calls that got past the status check and do the cancelling.
Winner(s) == stopper[s] \in {"cancel", "wait", "late", "finished", "err"}

\* tasksNum is exactly the number of goroutines that have not finished, so
\* "tasksNum < 0, never happend" (done) is indeed never reached.
CountMatches == tasksNum = Cardinality(Running)

\* Only one caller executes the cancellation part of StopAndWait (what its
\* comment promises of doing the test and the set in one critical section).
OneWinner ==
  \A s1, s2 \in Stoppers : Winner(s1) /\ Winner(s2) => s1 = s2

\* When StopAndWait returns nil from doneCh no task is running, and none ever
\* runs again: Go racing with the stop cannot slip a goroutine past the wait.
FinishedMeansNoneRunning ==
  (\E s \in Stoppers : stopper[s] = "finished") => Running = {}

\* The goroutine that finishes last never blocks on doneCh while it holds the
\* mutex, not even when StopAndWait gave up at its deadline long before.
DoneNeverBlocks ==
  (status = "stoped" /\ tasksNum = 1) => doneCh < DoneChCap

\* A StopAndWait call returns whatever the tasks do: a task that never ends,
\* or a manager whose tasks had all ended before the call.
StopReturns ==
  \A s \in Stoppers :
    (stopper[s] = "cancel") ~> (stopper[s] \in Returned)

\* What the comment in the timeout case of StopAndWait says: the deadline is
\* up and the goroutines have not all exited, so the error names one at least.
\* Asked only where it is not a race: some task did run, and none ended after
\* the stop as the last one (which would have left its token in doneCh).
TimeoutMeansUnfinished ==
  \A s \in Stoppers :
    stopper[s] = "err" /\ doneCh = 0 /\ (\E t \in Tasks : task[t] = "done")
      => report[s] # {}
=============================================================================
