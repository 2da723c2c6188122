---------------------------- MODULE Application ----------------------------
(***************************************************************************)
(* The final task's program: the main loop (ap_application.cpp), the tick  *)
(* thread that drives LVGL's clock and the handler that runs its timers    *)
(* (gs_platform_layer.cpp), and the frames they flush to the display.      *)
(*                                                                         *)
(* The first pass of the loop starts the tick thread and detaches it; it   *)
(* reads a flag of the platform backend, whose destructor only clears the  *)
(* flag.  The loop's own flag is never given a value: it is what the       *)
(* memory held.  One tick is LvglNotificationTime; LVGL itself is external *)
(* and modelled by how the timers the code makes are run.                  *)
(*                                                                         *)
(* LVGL draws into the addresses of the two frame buffer vectors, not of   *)
(* their elements, and so over the members of the service behind them, the *)
(* flag of the backend among them; the others are not used again while the *)
(* loop runs.                                                              *)
(***************************************************************************)
EXTENDS Integers, Sequences, FiniteSets

\* LVGL's refresh timer and the two RemindersViewModel makes.
Timer == {"refresh", "scroll", "remind"}

CONSTANT Period      \* of each timer, in ticks

ASSUME ApplicationAssumption == Period \in [Timer -> Nat \ {0}]

VARIABLES
  stage,         \* of main: "start", "loop", "task", "timers", "flush", "sleep",
                 \*   "leave", "return", "done", or "terminated"
  m_applicationRuning,
  backend,       \* the platform backend exists
  m_isTickThreadRunning,
  tickThread,    \* the threads started, each at "test", "inc", "sleep" or "gone"
  elapsed,       \* of each timer: the ticks since it ran, until it is due
  todo,          \* the timers this pass of the handler has still to look at
  fileGuard,     \* the framebuffer device is open
  dirty          \* the view has drawn what is not flushed

ui == <<elapsed, todo, fileGuard, dirty>>
vars == <<stage, m_applicationRuning, backend, m_isTickThreadRunning, tickThread, ui>>

Init ==
  /\ stage = "start"
  /\ m_applicationRuning \in BOOLEAN
  /\ backend = FALSE /\ m_isTickThreadRunning = FALSE
  /\ tickThread = << >>
  /\ elapsed = [t \in Timer |-> 0]
  /\ todo = {}
  /\ fileGuard = FALSE /\ dirty = FALSE

Running == stage \notin {"done", "terminated"}

-----------------------------------------------------------------------------
(* The main thread.                                                        *)

\* Application(): the service, its backend, the display and the view.
Construct ==
  /\ stage = "start"
  /\ stage' = "loop"
  /\ backend' = TRUE /\ dirty' = TRUE
  /\ UNCHANGED <<m_applicationRuning, m_isTickThreadRunning, tickThread, elapsed, todo, fileGuard>>

GoesOn == m_applicationRuning

LoopTest ==
  /\ stage = "loop"
  /\ stage' = IF GoesOn THEN "task" ELSE "leave"
  /\ UNCHANGED <<m_applicationRuning, backend, m_isTickThreadRunning, tickThread, ui>>

NeedsThread == ~m_isTickThreadRunning
NewThreadLate == "gone"                 \* mutant: started before the flag is set
NewThread == "test"

\* executeLvTaskHandler up to lv_task_handler.  std::thread throws when there
\* is no thread to be had, and nobody catches that.
StartTicking ==
  /\ stage = "task"
  /\ \/ /\ NeedsThread
        /\ m_isTickThreadRunning' = TRUE
        /\ \/ tickThread' = Append(tickThread, NewThread) /\ stage' = "timers"
           \/ stage' = "terminated" /\ UNCHANGED tickThread
     \/ /\ ~NeedsThread
        /\ stage' = "timers"
        /\ UNCHANGED <<m_isTickThreadRunning, tickThread>>
  /\ todo' = Timer
  /\ UNCHANGED <<m_applicationRuning, backend, elapsed, fileGuard, dirty>>

\* What the flag may be once a frame is drawn over it: true, because the
\* first row there shows the background, which has no byte that is 0.
DrawnBlack == BOOLEAN                   \* mutant: a picture with black in that place
Drawn == {TRUE}

\* lv_task_handler looks at a timer: one that is due starts anew and runs.
\* The view's timers may change the picture, the refresh timer draws it.
Due(t) == elapsed[t] = Period[t]

RunTimer(t) ==
  /\ stage = "timers" /\ t \in todo /\ Due(t)
  /\ todo' = todo \ {t}
  /\ elapsed' = [elapsed EXCEPT ![t] = 0]
  /\ IF t = "refresh" /\ dirty
     THEN stage' = "flush" /\ m_isTickThreadRunning' \in Drawn
     ELSE UNCHANGED <<stage, m_isTickThreadRunning>>
  /\ dirty' \in IF t = "refresh" THEN {dirty} ELSE {dirty, TRUE}
  /\ UNCHANGED <<m_applicationRuning, backend, tickThread, fileGuard>>

SkipTimer(t) ==
  /\ stage = "timers" /\ t \in todo /\ ~Due(t)
  /\ todo' = todo \ {t}
  /\ UNCHANGED <<stage, m_applicationRuning, backend, m_isTickThreadRunning, tickThread,
                 elapsed, fileGuard, dirty>>

\* flush_cb.  The first call opens the device, and throws when it cannot;
\* no call looks at what write returns.
Flush ==
  /\ stage = "flush"
  /\ \/ stage' = "timers" /\ fileGuard' = TRUE /\ dirty' = FALSE
     \/ ~fileGuard /\ stage' = "terminated" /\ UNCHANGED <<fileGuard, dirty>>
  /\ UNCHANGED <<m_applicationRuning, backend, m_isTickThreadRunning, tickThread, elapsed, todo>>

HandlerDone ==
  /\ stage = "timers" /\ todo = {}
  /\ stage' = "sleep"
  /\ UNCHANGED <<m_applicationRuning, backend, m_isTickThreadRunning, tickThread, ui>>

Sleep ==
  /\ stage = "sleep"
  /\ stage' = "loop"
  /\ UNCHANGED <<m_applicationRuning, backend, m_isTickThreadRunning, tickThread, ui>>

\* ~Application, down to ~PlatformBackend.
Destroy ==
  /\ stage = "leave"
  /\ stage' = "return"
  /\ backend' = FALSE /\ m_isTickThreadRunning' = FALSE
  /\ UNCHANGED <<m_applicationRuning, tickThread, ui>>

\* main returns, and the process with all its threads is gone.
Return ==
  /\ stage = "return"
  /\ stage' = "done"
  /\ UNCHANGED <<m_applicationRuning, backend, m_isTickThreadRunning, tickThread, ui>>

Main ==
  \/ Construct \/ LoopTest \/ StartTicking
  \/ \E t \in Timer : RunTimer(t) \/ SkipTimer(t)
  \/ Flush \/ HandlerDone \/ Sleep \/ Destroy \/ Return

-----------------------------------------------------------------------------
(* A tick thread.                                                          *)

TickTest(i) ==
  /\ Running /\ tickThread[i] = "test"
  /\ tickThread' = [tickThread EXCEPT ![i] = IF m_isTickThreadRunning THEN "inc" ELSE "gone"]
  /\ UNCHANGED <<stage, m_applicationRuning, backend, m_isTickThreadRunning, ui>>

\* lv_tick_inc.
TickInc(i) ==
  /\ Running /\ tickThread[i] = "inc"
  /\ tickThread' = [tickThread EXCEPT ![i] = "sleep"]
  /\ elapsed' = [t \in Timer |-> IF Due(t) THEN elapsed[t] ELSE elapsed[t] + 1]
  /\ UNCHANGED <<stage, m_applicationRuning, backend, m_isTickThreadRunning, todo, fileGuard,
                 dirty>>

TickSleep(i) ==
  /\ Running /\ tickThread[i] = "sleep"
  /\ tickThread' = [tickThread EXCEPT ![i] = "test"]
  /\ UNCHANGED <<stage, m_applicationRuning, backend, m_isTickThreadRunning, ui>>

Ticker(i) == TickTest(i) \/ TickInc(i) \/ TickSleep(i)

Next == Main \/ \E i \in DOMAIN tickThread : Ticker(i)

Spec == Init /\ [][Next]_vars

\* The scheduler runs both threads, and sleeping ends.
Fairness == WF_vars(Main) /\ WF_vars(\E i \in DOMAIN tickThread : Ticker(i))

FairSpec == Spec /\ Fairness

-----------------------------------------------------------------------------
(* Properties.                                                             *)

\* LVGL's clock is not advanced twice: however often the loop passes, and
\* whatever is drawn over the flag, one tick thread is all it starts.  And that
\* detached thread never reads the flag of a destroyed backend, although the
\* destructor does not wait for it: the loop that starts the thread has no
\* end, and one that ends at once has started none.
OneTickThread ==
  /\ Len(tickThread) <= 1
  /\ Running => \A i \in DOMAIN tickThread : tickThread[i] = "gone" \/ backend

\* Once the loop runs, every timer is due again and again, and runs each
\* time: reminders are counted down and the display is refreshed for ever,
\* unless a thread or the device was not to be had at the start.
TimersKeepGoing ==
  m_applicationRuning =>
    \/ <>(stage = "terminated")
    \/ \A t \in Timer : []<>(elapsed[t] = Period[t]) /\ []<>(elapsed[t] = 0)
=============================================================================
