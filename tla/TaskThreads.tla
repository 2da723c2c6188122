----------------------------- MODULE TaskThreads -----------------------------
(***************************************************************************)
(* The worker threads of task 9 (src/task9/module_main.c).  The module's   *)
(* init function makes a list of tasks, starts one kernel thread for each, *)
(* waits until every one has called complete(), frees all lists and fails  *)
(* on purpose, so that the module is unloaded again.  A thread prints its  *)
(* message every delay until its total time is used up.                    *)
(*                                                                         *)
(* The threads run while init is still starting others, and they read the  *)
(* descriptors init frees: the completions are all that orders the two.    *)
(***************************************************************************)
EXTENDS Integers, Sequences, FiniteSets, SequencesExt

CONSTANTS
  NTasks,          \* how many tasks test_module adds
  Delay, Total     \* delay_message and total_time of each

Task == 1 .. NTasks

ASSUME TaskThreadsAssumption ==
  /\ NTasks \in Nat
  /\ Delay \in [Task -> Nat \ {0}]
  /\ Total \in [Task -> Nat]

VARIABLES
  init,          \* where test_module is; "oops" when it died
  at,            \* the task or the list position that comes next there
  task_list, completitions_list, threads_list,  \* each with the tasks its entries belong to
  done,          \* the completions that have been completed and not yet waited for
  thread,        \* none, starting, running, finishing or returned; or failed
  remaining,     \* remaining_process of each thread
  printed        \* how often each thread has printed its message

vars == <<init, at, task_list, completitions_list, threads_list, done, thread, remaining, printed>>
lists == <<task_list, completitions_list, threads_list>>
workers == <<thread, remaining, printed>>

Init ==
  /\ init = "add" /\ at = 1
  /\ task_list = << >> /\ completitions_list = << >> /\ threads_list = << >>
  /\ done = {}
  /\ thread = [t \in Task |-> "none"]
  /\ remaining = [t \in Task |-> 0]
  /\ printed = [t \in Task |-> 0]

-----------------------------------------------------------------------------
(* test_module.                                                            *)

TaskLeft == at <= NTasks

\* add_task; without memory the task is dropped, but a missing completion is
\* written to, and loading dies.
AddTask ==
  /\ init = "add" /\ TaskLeft
  /\ \/ /\ task_list' = Append(task_list, at)
        /\ completitions_list' = Append(completitions_list, at)
        /\ UNCHANGED init
     \/ UNCHANGED <<init, lists>>
     \/ init' = "oops" /\ UNCHANGED lists
  /\ at' = at + 1
  /\ UNCHANGED <<threads_list, done, workers>>

AddingDone ==
  /\ init = "add" /\ ~TaskLeft
  /\ init' = "start" /\ at' = 1
  /\ UNCHANGED <<lists, done, workers>>

\* kthread_run gives a thread, or an error that nobody looks at.  The entry
\* that is to keep it is not looked at either: where there is none, loading
\* dies, and the thread runs all the same.
StartThread ==
  /\ init = "start" /\ at <= Len(task_list)
  /\ \E outcome \in {"starting", "failed"} :
       thread' = [thread EXCEPT ![task_list[at]] = outcome]
  /\ \/ threads_list' = Append(threads_list, task_list[at]) /\ UNCHANGED init
     \/ init' = "oops" /\ UNCHANGED threads_list
  /\ at' = at + 1
  /\ UNCHANGED <<task_list, completitions_list, done, remaining, printed>>

StartingDone ==
  /\ init = "start" /\ at > Len(task_list)
  /\ init' = "wait" /\ at' = 1
  /\ UNCHANGED <<lists, done, workers>>

CompletedUnasked(t) == TRUE              \* mutant: does not wait
Completed(t) == t \in done

\* wait_for_completion of every entry, in the order of the list.
WaitForCompletion ==
  /\ init = "wait" /\ at <= Len(completitions_list)
  /\ Completed(completitions_list[at])
  /\ done' = done \ {completitions_list[at]}
  /\ at' = at + 1
  /\ UNCHANGED <<init, lists, workers>>

WaitingDone ==
  /\ init = "wait" /\ at > Len(completitions_list)
  /\ init' = "cleanup_tasks"
  /\ UNCHANGED <<at, lists, done, workers>>

CleanupTasks ==
  /\ init = "cleanup_tasks"
  /\ task_list' = << >>
  /\ init' = "cleanup_completitions"
  /\ UNCHANGED <<at, completitions_list, threads_list, done, workers>>

CleanupCompletitions ==
  /\ init = "cleanup_completitions"
  /\ completitions_list' = << >>
  /\ init' = "cleanup_threads"
  /\ UNCHANGED <<at, task_list, threads_list, done, workers>>

CleanupThreads ==
  /\ init = "cleanup_threads"
  /\ threads_list' = << >>
  /\ init' = "returned"
  /\ UNCHANGED <<at, task_list, completitions_list, done, workers>>

-----------------------------------------------------------------------------
(* thread_func of thread t.                                                *)

Begin(t) ==
  /\ thread[t] = "starting"
  /\ thread' = [thread EXCEPT ![t] = "running"]
  /\ remaining' = [remaining EXCEPT ![t] = Total[t]]
  /\ UNCHANGED <<init, at, lists, done, printed>>

MoreToDoAtZero(t) == remaining[t] >= 0   \* mutant: >= for >
MoreToDo(t) == remaining[t] > 0

\* One round of the loop: sleep, print, count.
Report(t) ==
  /\ thread[t] = "running" /\ MoreToDo(t)
  /\ printed' = [printed EXCEPT ![t] = @ + 1]
  /\ remaining' = [remaining EXCEPT ![t] = @ - Delay[t]]
  /\ UNCHANGED <<init, at, lists, done, thread>>

CompleteNever(t) ==                      \* mutant: a return before complete()
  /\ thread[t] = "running" /\ ~MoreToDo(t)
  /\ thread' = [thread EXCEPT ![t] = "finishing"]
  /\ UNCHANGED <<init, at, lists, done, remaining, printed>>
\* complete(), the last thing a thread does with its data.
Complete(t) ==
  /\ thread[t] = "running" /\ ~MoreToDo(t)
  /\ done' = done \cup {t}
  /\ thread' = [thread EXCEPT ![t] = "finishing"]
  /\ UNCHANGED <<init, at, lists, remaining, printed>>

Return(t) ==
  /\ thread[t] = "finishing"
  /\ thread' = [thread EXCEPT ![t] = "returned"]
  /\ UNCHANGED <<init, at, lists, done, remaining, printed>>

Module ==
  \/ AddTask \/ AddingDone
  \/ StartThread \/ StartingDone
  \/ WaitForCompletion \/ WaitingDone
  \/ CleanupTasks \/ CleanupCompletitions \/ CleanupThreads

Worker(t) == Begin(t) \/ Report(t) \/ Complete(t) \/ Return(t)

Next == Module \/ \E t \in Task : Worker(t)

Spec == Init /\ [][Next]_vars

\* The kernel schedules the process that loads the module and every thread
\* that was created; msleep always ends.
Fairness == WF_vars(Module) /\ \A t \in Task : WF_vars(Worker(t))

FairSpec == Spec /\ Fairness

-----------------------------------------------------------------------------
(* Properties.                                                             *)

\* No thread that will still read its task descriptor, or complete its
\* completion, outlives them: init frees nothing while a thread needs it.
DataOutlivesThreads ==
  \A t \in Task : thread[t] \in {"starting", "running"} =>
    t \in Range(task_list) /\ t \in Range(completitions_list)

\* A thread prints exactly as often as its delay is begun within its total
\* time, also when the last delay goes beyond it (70, 100: twice).
PrintsOncePerDelay ==
  \A t \in Task : thread[t] \in {"finishing", "returned"} =>
    /\ printed[t] * Delay[t] >= Total[t]
    /\ printed[t] > 0 => (printed[t] - 1) * Delay[t] < Total[t]

\* Unless it dies for want of memory, loading ends, with every list emptied
\* and freed and every thread that was started past its use of them; but if
\* kthread_run failed for one, loading waits for ever for the completion that
\* nobody completes.  The threads end in any case.
LoadingEnds ==
  LET failed == \E t \in Task : thread[t] = "failed"
      left == task_list # << >> \/ completitions_list # << >> \/ threads_list # << >>
      unfinished == \E t \in Task : thread[t] \in {"starting", "running", "finishing"}
  IN /\ <>[]~unfinished
     /\ \/ <>[](init = "oops")
        \/ <>[](init = "wait" /\ failed)
        \/ <>[](init = "returned" /\ ~failed /\ ~left)
=============================================================================
