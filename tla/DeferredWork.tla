---------------------------- MODULE DeferredWork ----------------------------
(***************************************************************************)
(* Modules whose functions the kernel calls at some later time: the timers *)
(* of exercise 13 (mytimer.c, hrtimer.c) and of task 7                     *)
(* (random_timer_handler.c), the tasklet, the work queue and the shared    *)
(* interrupts of exercise 15 (mod_tasklet.c, mod_workqueue.c,              *)
(* lab1_interrupt.c, mod_ser.c).  Each has its way to stop them before its *)
(* text goes away.  One of them is loaded at a time.                       *)
(***************************************************************************)
EXTENDS Integers, FiniteSets

CONSTANTS
  Jobs           \* the works of the work queue, the handlers of mod_ser: 1 .. n

ASSUME DeferredWorkAssumption ==
  IsFiniteSet(Jobs) /\ Jobs = 1 .. Cardinality(Jobs) /\ Jobs # {}

Timers == {"mytimer", "random_timer"}
Interrupts == {"lab1_interrupt", "mod_ser"}
Modules == Timers \cup Interrupts \cup {"hrtimer", "mod_tasklet", "mod_workqueue"}

VARIABLES
  deferred,      \* the module, once one is chosen
  stage,         \* "absent", "loading", "loaded", "stopping", "gone", "failed", "oops"
  made,          \* how many of its jobs have been handed to the kernel
  pending,       \* the jobs the kernel will call
  in_job,        \* of each job: "none", "begun", "ending" (after the timer is set again)
  stopped_in     \* history: the jobs that were running when del_timer was called

workVars == <<deferred, stage, made, pending, in_job, stopped_in>>

JobsOf(module) == IF module \in {"mod_workqueue", "mod_ser"} THEN Jobs ELSE {1}
Running == {j \in Jobs : in_job[j] # "none"}

WorkInit ==
  /\ deferred = "none" /\ stage = "absent" /\ made = 0
  /\ pending = {} /\ in_job = [j \in Jobs |-> "none"] /\ stopped_in = {}

-----------------------------------------------------------------------------
(* Loading.                                                                *)

Choose(module) ==
  /\ deferred = "none" /\ deferred' = module
  /\ UNCHANGED <<stage, made, pending, in_job, stopped_in>>

\* Each job is handed over in its turn.  A work or a handler may be refused:
\* the module fails to load, and what was handed over stays there.
HandOver ==
  /\ deferred # "none" /\ stage \in {"absent", "loading"}
  /\ made < Cardinality(JobsOf(deferred))
  /\ \/ /\ pending' = pending \cup {made + 1} /\ made' = made + 1 /\ stage' = "loading"
     \/ /\ deferred \in Interrupts \cup {"mod_workqueue"}
        /\ stage' = "failed" /\ UNCHANGED <<pending, made>>
  /\ UNCHANGED <<deferred, in_job, stopped_in>>

\* init_module of mytimer.c starts the timer again with add_timer, which
\* stops the kernel if the timer is pending.
Loaded ==
  /\ stage = "loading" /\ made = Cardinality(JobsOf(deferred))
  /\ IF deferred = "mytimer" /\ pending # {}
     THEN stage' = "oops" /\ UNCHANGED pending
     ELSE /\ stage' = "loaded"
          /\ pending' = IF deferred = "mytimer" THEN {1} ELSE pending
  /\ UNCHANGED <<deferred, made, in_job, stopped_in>>

-----------------------------------------------------------------------------
(* Calls from the kernel: a job is pending no longer while it runs, but a  *)
(* handler stays requested.  One job does not run twice at a time.         *)

JobBegins(j) ==
  /\ j \in pending /\ in_job[j] = "none" /\ stage # "oops"
  /\ in_job' = [in_job EXCEPT ![j] = "begun"]
  /\ pending' = IF deferred \in Interrupts THEN pending ELSE pending \ {j}
  /\ UNCHANGED <<deferred, stage, made, stopped_in>>

\* timer_function and random_timer_callback set their timer again; so does
\* the kernel for hrtimer.c, whose callback returns HRTIMER_RESTART, unless
\* the timer is being cancelled.
JobSetsAgain(j) ==
  /\ in_job[j] = "begun"
  /\ pending' = IF deferred \in Timers \/ (deferred = "hrtimer" /\ stage # "stopping")
                THEN pending \cup {j} ELSE pending
  /\ in_job' = [in_job EXCEPT ![j] = "ending"]
  /\ UNCHANGED <<deferred, stage, made, stopped_in>>

JobEnds(j) ==
  /\ in_job[j] = "ending"
  /\ in_job' = [in_job EXCEPT ![j] = "none"]
  /\ UNCHANGED <<deferred, stage, made, pending, stopped_in>>

-----------------------------------------------------------------------------
(* Unloading.                                                              *)

\* del_timer; hrtimer_cancel, tasklet_kill, synchronize_irq and free_irq of
\* each handler, which begin to wait; flush_workqueue calls what is pending.
Stop ==
  /\ stage = "loaded" /\ stage' = "stopping"
  /\ pending' = IF deferred \in {"mod_workqueue", "mod_tasklet"} THEN pending ELSE {}
  /\ stopped_in' = Running
  /\ UNCHANGED <<deferred, made, in_job>>

DoesNotWait == Timers \cup {"mod_tasklet"}   \* mutant: tasklet_kill is missing
DelTimer == Timers

\* The text of the module goes when all that wait have returned.
Gone ==
  /\ stage = "stopping"
  /\ deferred \in DelTimer \/ (pending = {} /\ Running = {})
  /\ stage' = "gone"
  /\ UNCHANGED <<deferred, made, pending, in_job, stopped_in>>

WorkNext ==
  \/ \E module \in Modules : Choose(module)
  \/ HandOver \/ Loaded
  \/ \E j \in Jobs : JobBegins(j) \/ JobSetsAgain(j) \/ JobEnds(j)
  \/ Stop \/ Gone

WorkSpec == WorkInit /\ [][WorkNext]_workVars

-----------------------------------------------------------------------------
(* The property.                                                           *)

\* When a module is gone, the kernel neither runs nor will run its functions,
\* but for two kinds: a timer whose function was running when del_timer did
\* not wait for it, and the works and handlers a failed load has left.
\* The others stop whatever the moment.
NothingRunsUnloaded ==
  stage \in {"gone", "failed"} /\ (pending # {} \/ Running # {}) =>
    \/ deferred \in Timers /\ stopped_in # {}
    \/ deferred \in {"mod_workqueue", "mod_ser"} /\ stage = "failed" /\ made > 0
=============================================================================
