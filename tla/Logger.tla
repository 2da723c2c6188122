------------------------------- MODULE Logger -------------------------------
(***************************************************************************)
(* The logger of the final task (logger_service_impl.cpp).  logDebug and   *)
(* logDebugEndl spin on an atomic flag with the loop the other way round:  *)
(* they print while the flag was already set, and leave once they find it  *)
(* clear, setting it on the way out.  The first message ever is lost, and  *)
(* threads that log at the same time are not kept apart.                   *)
(*                                                                         *)
(* The program logs from LVGL's thread alone, through callbacks            *)
(* (gs_lvgl_service.cpp); the class is written for several threads, and is *)
(* modelled for several.  A message is the number of its call.             *)
(***************************************************************************)
EXTENDS Integers, Sequences, FiniteSets

CONSTANTS
  Thread,
  MaxCalls     \* bound: the messages logged

ASSUME LoggerAssumption == MaxCalls \in Nat /\ IsFiniteSet(Thread)

VARIABLES
  m_loggerReady,   \* the flag; clear in the static Instance()
  pc,              \* of each thread: "out", "test", "string", "caret" or "clear"
  message,         \* what it logs
  endl,            \* it is in logDebugEndl
  calls,           \* how many calls were made
  returned,        \* history: how many of them returned
  alone,           \* history: no two threads were ever in calls at once
  output           \* the messages printed, without their CaretReset

loggerVars == <<m_loggerReady, pc, message, endl, calls, returned, alone, output>>

LoggerInit ==
  /\ m_loggerReady = FALSE
  /\ pc = [t \in Thread |-> "out"]
  /\ message = [t \in Thread |-> 0]
  /\ endl = [t \in Thread |-> FALSE]
  /\ calls = 0 /\ returned = 0 /\ alone = TRUE
  /\ output = << >>

-----------------------------------------------------------------------------

Call(t, withCaret) ==
  /\ pc[t] = "out" /\ calls < MaxCalls
  /\ pc' = [pc EXCEPT ![t] = "test"]
  /\ calls' = calls + 1
  /\ message' = [message EXCEPT ![t] = calls + 1]
  /\ endl' = [endl EXCEPT ![t] = withCaret]
  /\ alone' = (alone /\ \A u \in Thread : pc[u] = "out")
  /\ UNCHANGED <<m_loggerReady, returned, output>>

\* test_and_set: round the loop when the flag was set before.
SetsFlagOnlyInside == m_loggerReady     \* mutant: leaves the flag as it was
SetsFlag == TRUE

WhenSetWaits == "test"                  \* mutant: while (test_and_set());
WhenSet == "string"

TestAndSet(t) ==
  /\ pc[t] = "test"
  /\ m_loggerReady' = SetsFlag
  /\ IF m_loggerReady
     THEN /\ pc' = [pc EXCEPT ![t] = WhenSet]
          /\ UNCHANGED returned
     ELSE /\ pc' = [pc EXCEPT ![t] = "out"]
          /\ returned' = returned + 1
  /\ UNCHANGED <<message, endl, calls, alone, output>>

WithCaret(t) == endl[t]

LogString(t) ==
  /\ pc[t] = "string"
  /\ output' = Append(output, message[t])
  /\ pc' = [pc EXCEPT ![t] = IF WithCaret(t) THEN "caret" ELSE "clear"]
  /\ UNCHANGED <<m_loggerReady, message, endl, calls, returned, alone>>

\* CaretReset is printed.
LogCaret(t) ==
  /\ pc[t] = "caret"
  /\ pc' = [pc EXCEPT ![t] = "clear"]
  /\ UNCHANGED <<m_loggerReady, message, endl, calls, returned, alone, output>>

Clear(t) ==
  /\ pc[t] = "clear"
  /\ m_loggerReady' = FALSE
  /\ pc' = [pc EXCEPT ![t] = "test"]
  /\ UNCHANGED <<message, endl, calls, returned, alone, output>>

InCall(t) == TestAndSet(t) \/ LogString(t) \/ LogCaret(t) \/ Clear(t)

LoggerNext == \E t \in Thread :
  \/ \E withCaret \in BOOLEAN : Call(t, withCaret)
  \/ InCall(t)

LoggerSpec == LoggerInit /\ [][LoggerNext]_loggerVars

\* The scheduler runs every thread; the flag makes nobody sleep.
LoggerFairSpec == LoggerSpec /\ \A t \in Thread : WF_loggerVars(InCall(t))

-----------------------------------------------------------------------------
(* Properties.                                                             *)

\* The calls that returned have printed as many messages, but for one: each
\* that left without printing let another thread print its own once more.
\* As long as no two threads log at once, as in the program, exactly the
\* first message is lost: the others are printed once each and in order.
OneMessageShort ==
  /\ returned <= Len(output) + 1
  /\ alone /\ (\A t \in Thread : pc[t] = "out") =>
       output = [i \in 1 .. calls - 1 |-> i + 1]

\* As long as a thread is in a call some call returns, so that a thread that
\* logs by itself gets through.  Which one returns is open: a thread goes round
\* for ever if others come in, set the flag and leave whenever it has cleared
\* it and not yet tested it again.
SomeCallReturns ==
  \A n \in 0 .. MaxCalls :
    returned = n /\ (\E t \in Thread : pc[t] # "out") ~> returned > n
=============================================================================
