-------------------------- MODULE FinalTask_proofs --------------------------
(***************************************************************************)
(* Proofs about the program of the final task around its screen: its main  *)
(* loop and tick thread, for any periods of its timers, and its logger,    *)
(* for any number of threads and messages.                                 *)
(***************************************************************************)
EXTENDS Application, Logger, SequenceTheorems, FiniteSetTheorems, TLAPS

(***************************************************************************)
(* The main loop.                                                          *)
(***************************************************************************)

AppShape ==
  /\ stage \in {"start", "loop", "task", "timers", "flush", "sleep",
                "leave", "return", "done", "terminated"}
  /\ m_applicationRuning \in BOOLEAN /\ m_isTickThreadRunning \in BOOLEAN
  /\ backend \in BOOLEAN
  /\ tickThread \in Seq({"test", "inc", "sleep", "gone"})

(* The flag of the backend has the value that goes with the thread: a      *)
(* thread is started in a loop without end alone, and there the flag stays *)
(* set from then on.                                                       *)
AppInv ==
  /\ AppShape
  /\ stage \in {"loop", "task", "timers", "flush", "sleep", "leave"} => backend
  /\ stage \in {"task", "timers", "flush", "sleep"} => m_applicationRuning
  /\ stage \in {"leave", "return", "done"} => ~m_applicationRuning
  /\ stage = "start" => tickThread = << >>
  /\ Len(tickThread) <= 1
  /\ tickThread # << >> => m_applicationRuning
  /\ Running /\ tickThread # << >> => m_isTickThreadRunning

LEMMA AppInitInv == Init => AppInv
<1> SUFFICES ASSUME Init PROVE AppInv
  OBVIOUS
<1>1. tickThread = << >> /\ tickThread \in Seq({"test", "inc", "sleep", "gone"})
      /\ Len(tickThread) <= 1
  BY EmptySeq DEF Init
<1>2. AppShape
  BY <1>1 DEF Init, AppShape
<1>3. QED
  BY <1>1, <1>2, Zenon DEF Init, AppInv, Running

LEMMA AppMainStep == ASSUME AppInv, Main PROVE AppInv'
<1> USE DEF AppInv, AppShape, Running
<1>0. Len(tickThread) \in Nat /\ (Len(tickThread) = 0 <=> tickThread = << >>)
  BY EmptySeq, LenProperties
<1>1. CASE Construct
  BY <1>1 DEF Construct
<1>2. CASE LoopTest
  BY <1>2 DEF LoopTest, GoesOn
<1>3. CASE HandlerDone \/ Sleep
  BY <1>3 DEF HandlerDone, Sleep
<1>4. CASE Destroy
  BY <1>4 DEF Destroy
<1>5. CASE Return
  BY <1>5 DEF Return
<1>6. CASE StartTicking
  <2>1. CASE NeedsThread /\ tickThread' = Append(tickThread, NewThread) /\ stage' = "timers"
    <3>1. tickThread = << >>
      BY <1>6, <2>1 DEF StartTicking, NeedsThread
    <3>2. /\ tickThread' \in Seq({"test", "inc", "sleep", "gone"})
          /\ Len(tickThread') <= 1
      BY <2>1, <3>1, EmptySeq, AppendProperties DEF NewThread
    <3>3. m_isTickThreadRunning' = TRUE /\ UNCHANGED <<m_applicationRuning, backend>>
      BY <1>6, <2>1 DEF StartTicking, NeedsThread
    <3>4. stage = "task" /\ m_applicationRuning /\ backend
      BY <1>6 DEF StartTicking
    <3>5. QED
      BY <2>1, <3>2, <3>3, <3>4
  <2>2. CASE ~(NeedsThread /\ tickThread' = Append(tickThread, NewThread) /\ stage' = "timers")
    BY <1>6, <2>2 DEF StartTicking, NeedsThread
  <2>3. QED
    BY <2>1, <2>2
<1>7. ASSUME NEW t \in Timer, RunTimer(t) \/ SkipTimer(t)
      PROVE  AppInv'
  BY <1>7 DEF RunTimer, SkipTimer, Drawn
<1>8. CASE Flush
  BY <1>8 DEF Flush
<1>9. QED
  BY <1>1, <1>2, <1>3, <1>4, <1>5, <1>6, <1>7, <1>8 DEF Main

LEMMA AppTickStep == ASSUME AppInv, NEW i \in DOMAIN tickThread, Ticker(i) PROVE AppInv'
<1> USE DEF AppInv, AppShape, Running
<1>1. i \in 1 .. Len(tickThread)
  BY LenProperties
<1>2. PICK p \in {"test", "inc", "sleep", "gone"} : tickThread' = [tickThread EXCEPT ![i] = p]
  BY DEF Ticker, TickTest, TickInc, TickSleep
<1>3. tickThread' \in Seq({"test", "inc", "sleep", "gone"}) /\ Len(tickThread') = Len(tickThread)
  BY <1>1, <1>2, ExceptSeq
<1>4. tickThread # << >>
  BY <1>1, EmptySeq
<1>5. UNCHANGED <<stage, m_applicationRuning, backend, m_isTickThreadRunning>>
  BY DEF Ticker, TickTest, TickInc, TickSleep, ui
<1>6. QED
  BY <1>3, <1>4, <1>5

LEMMA AppStep == AppInv /\ [Next]_vars => AppInv'
<1>1. AppInv /\ UNCHANGED vars => AppInv'
  BY DEF AppInv, AppShape, Running, vars
<1>2. QED
  BY <1>1, AppMainStep, AppTickStep DEF Next

(* LVGL's clock is never advanced by two threads, and the detached thread  *)
(* never reads the flag of a backend that is gone, although nothing joins  *)
(* it.                                                                     *)
THEOREM OnlyOneTickThread == Spec => []OneTickThread
<1>1. AppInv => OneTickThread
  BY LenProperties, EmptySeq DEF AppInv, AppShape, OneTickThread, Running
<1>2. QED
  BY <1>1, AppInitInv, AppStep, PTL DEF Spec

(***************************************************************************)
(* The logger.                                                             *)
(***************************************************************************)

LoggerShape ==
  /\ m_loggerReady \in BOOLEAN /\ alone \in BOOLEAN
  /\ pc \in [Thread -> {"out", "test", "string", "caret", "clear"}]
  /\ message \in [Thread -> Nat]
  /\ calls \in Nat /\ returned \in Nat
  /\ output \in Seq(Nat)

(* The threads that have printed and not yet cleared the flag.             *)
Printing == {t \in Thread : pc[t] \in {"caret", "clear"}}

(* Who leaves takes the clear flag with it, and who clears it has printed. *)
Accounts ==
  returned + (IF m_loggerReady THEN 0 ELSE 1) + Cardinality(Printing) <= Len(output) + 1

(* The messages of the first n calls are printed, but for the first.       *)
Printed(n) ==
  /\ Len(output) = IF n = 0 THEN 0 ELSE n - 1
  /\ \A i \in 1 .. Len(output) : output[i] = i + 1

(* What is printed when no two threads were ever in calls at once.         *)
InOrder ==
  alone =>
    /\ \A t, u \in Thread : pc[t] # "out" /\ pc[u] # "out" => t = u
    /\ (\A t \in Thread : pc[t] = "out") => Printed(calls) /\ (m_loggerReady <=> calls # 0)
    /\ \A t \in Thread :
         /\ pc[t] # "out" => message[t] = calls /\ calls # 0
         /\ pc[t] = "test" /\ ~m_loggerReady => Printed(calls)
         /\ pc[t] = "test" /\ m_loggerReady => Printed(calls - 1) /\ calls > 1
         /\ pc[t] = "string" => Printed(calls - 1) /\ calls > 1
         /\ pc[t] \in {"caret", "clear"} => Printed(calls)

LoggerInv == LoggerShape /\ Accounts /\ InOrder

LEMMA LoggerInitInv == LoggerInit => LoggerInv
<1> SUFFICES ASSUME LoggerInit PROVE LoggerInv
  OBVIOUS
<1>1. LoggerShape
  BY EmptySeq DEF LoggerInit, LoggerShape
<1>2. Printing = {} /\ Len(output) = 0
  BY EmptySeq DEF LoggerInit, Printing
<1>3. Accounts
  BY <1>2, FS_EmptySet DEF LoggerInit, Accounts
<1>4. InOrder
  BY <1>2 DEF LoggerInit, InOrder, Printed
<1>5. QED
  BY <1>1, <1>3, <1>4 DEF LoggerInv

LEMMA PrintingIsFinite == IsFiniteSet(Printing) /\ Cardinality(Printing) \in Nat
BY LoggerAssumption, FS_Subset, FS_CardinalityType DEF Printing

LEMMA LoggerShapeStep ==
  ASSUME LoggerShape, [LoggerNext]_loggerVars
  PROVE  LoggerShape'
<1> USE DEF LoggerShape
<1>1. ASSUME NEW t \in Thread, NEW withCaret \in BOOLEAN, Call(t, withCaret)
      PROVE  LoggerShape'
  BY <1>1 DEF Call
<1>2. ASSUME NEW t \in Thread, TestAndSet(t)
      PROVE  LoggerShape'
  BY <1>2 DEF TestAndSet, SetsFlag, WhenSet
<1>3. ASSUME NEW t \in Thread, LogString(t)
      PROVE  LoggerShape'
  <2>1. output' \in Seq(Nat)
    BY <1>3, AppendProperties DEF LogString
  <2>2. QED
    BY <1>3, <2>1 DEF LogString
<1>4. ASSUME NEW t \in Thread, LogCaret(t) \/ Clear(t)
      PROVE  LoggerShape'
  BY <1>4 DEF LogCaret, Clear
<1>5. CASE UNCHANGED loggerVars
  BY <1>5 DEF loggerVars
<1>6. QED
  BY <1>1, <1>2, <1>3, <1>4, <1>5 DEF LoggerNext, InCall

LEMMA AccountsStep ==
  ASSUME LoggerShape, Accounts, [LoggerNext]_loggerVars
  PROVE  Accounts'
<1> USE DEF LoggerShape, Accounts
<1>0. Len(output) \in Nat /\ Cardinality(Printing) \in Nat /\ IsFiniteSet(Printing)
  BY LenProperties, PrintingIsFinite
<1>1. ASSUME NEW t \in Thread, NEW withCaret \in BOOLEAN, Call(t, withCaret)
      PROVE  Accounts'
  <2>1. Printing' = Printing
    BY <1>1 DEF Call, Printing
  <2>2. QED
    BY <1>1, <2>1 DEF Call
<1>2. ASSUME NEW t \in Thread, TestAndSet(t)
      PROVE  Accounts'
  <2>1. Printing' = Printing
    BY <1>2 DEF TestAndSet, WhenSet, Printing
  <2>2. QED
    BY <1>0, <1>2, <2>1 DEF TestAndSet, SetsFlag
<1>3. ASSUME NEW t \in Thread, LogString(t)
      PROVE  Accounts'
  <2>1. Printing' = Printing \cup {t} /\ t \notin Printing
    BY <1>3 DEF LogString, Printing
  <2>2. Cardinality(Printing') = Cardinality(Printing) + 1
    BY <1>0, <2>1, FS_AddElement
  <2>3. Len(output') = Len(output) + 1 /\ UNCHANGED <<m_loggerReady, returned>>
    BY <1>3, AppendProperties DEF LogString
  <2>4. QED
    BY <1>0, <2>2, <2>3
<1>4. ASSUME NEW t \in Thread, LogCaret(t)
      PROVE  Accounts'
  <2>1. Printing' = Printing
    BY <1>4 DEF LogCaret, Printing
  <2>2. QED
    BY <1>4, <2>1 DEF LogCaret
<1>5. ASSUME NEW t \in Thread, Clear(t)
      PROVE  Accounts'
  <2>1. Printing' = Printing \ {t} /\ t \in Printing
    BY <1>5 DEF Clear, Printing
  <2>2. Cardinality(Printing') = Cardinality(Printing) - 1
    BY <1>0, <2>1, FS_RemoveElement
  <2>3. m_loggerReady' = FALSE /\ UNCHANGED <<returned, output>>
    BY <1>5 DEF Clear
  <2>4. QED
    BY <1>0, <2>2, <2>3
<1>6. CASE UNCHANGED loggerVars
  BY <1>6 DEF loggerVars, Printing
<1>7. QED
  BY <1>1, <1>2, <1>3, <1>4, <1>5, <1>6 DEF LoggerNext, InCall

LEMMA InOrderStep ==
  ASSUME LoggerShape, InOrder, [LoggerNext]_loggerVars
  PROVE  InOrder'
<1> USE DEF LoggerShape
<1>1. ASSUME NEW t \in Thread, NEW withCaret \in BOOLEAN, Call(t, withCaret)
      PROVE  InOrder'
  <2> SUFFICES ASSUME alone' PROVE InOrder'
    BY DEF InOrder
  <2>1. /\ alone /\ \A u \in Thread : pc[u] = "out"
        /\ pc' = [pc EXCEPT ![t] = "test"] /\ message' = [message EXCEPT ![t] = calls + 1]
        /\ calls' = calls + 1 /\ UNCHANGED <<m_loggerReady, output>>
    BY <1>1 DEF Call
  <2>2. Printed(calls) /\ (m_loggerReady <=> calls # 0)
    BY <2>1 DEF InOrder
  <2>3. /\ m_loggerReady => Printed(calls - 1)' /\ calls' > 1
        /\ ~m_loggerReady => Printed(calls)'
    BY <2>1, <2>2 DEF Printed
  <2>4. /\ pc'[t] = "test" /\ message'[t] = calls' /\ calls' # 0
        /\ \A u \in Thread : pc'[u] # "out" => u = t
    BY <2>1
  <2>5. QED
    BY <2>1, <2>3, <2>4 DEF InOrder
<1>2. ASSUME NEW t \in Thread, TestAndSet(t)
      PROVE  InOrder'
  BY <1>2 DEF TestAndSet, SetsFlag, WhenSet, InOrder, Printed
<1>3. ASSUME NEW t \in Thread, LogString(t)
      PROVE  InOrder'
  <2> SUFFICES ASSUME alone PROVE InOrder'
    BY <1>3 DEF InOrder, LogString
  <2>1. Printed(calls - 1) /\ calls > 1 /\ message[t] = calls
    BY <1>3 DEF InOrder, LogString
  <2>2. /\ Len(output) \in Nat
        /\ output' = Append(output, calls) /\ Len(output') = Len(output) + 1
        /\ \A i \in 1 .. Len(output) : output'[i] = output[i]
        /\ output'[Len(output) + 1] = calls
    BY <1>3, <2>1, AppendProperties, LenProperties DEF LogString
  <2>3. Printed(calls)'
    BY <1>3, <2>1, <2>2 DEF Printed, LogString
  <2>4. QED
    BY <1>3, <2>3 DEF InOrder, LogString
<1>4. ASSUME NEW t \in Thread, LogCaret(t) \/ Clear(t)
      PROVE  InOrder'
  BY <1>4 DEF LogCaret, Clear, InOrder, Printed
<1>5. CASE UNCHANGED loggerVars
  BY <1>5 DEF loggerVars, InOrder, Printed
<1>6. QED
  BY <1>1, <1>2, <1>3, <1>4, <1>5 DEF LoggerNext, InCall

LEMMA LoggerStep == LoggerInv /\ [LoggerNext]_loggerVars => LoggerInv'
BY LoggerShapeStep, AccountsStep, InOrderStep DEF LoggerInv

(* However many threads log and however their calls interleave, at most    *)
(* one call returns that printed nothing in return; and as long as one     *)
(* thread logs at a time, exactly the first message is lost and the others *)
(* are printed once each, in order.                                        *)
THEOREM AtMostOneMessageShort == LoggerSpec => []OneMessageShort
<1>1. LoggerInv => OneMessageShort
  <2> SUFFICES ASSUME LoggerInv PROVE OneMessageShort
    OBVIOUS
  <2>0. LoggerShape /\ Len(output) \in Nat /\ Cardinality(Printing) \in Nat
    BY LenProperties, PrintingIsFinite DEF LoggerInv, LoggerShape
  <2>1. returned <= Len(output) + 1
    BY <2>0 DEF LoggerInv, Accounts, LoggerShape
  <2>2. ASSUME alone, \A t \in Thread : pc[t] = "out"
        PROVE  output = [i \in 1 .. calls - 1 |-> i + 1]
    <3>1. Printed(calls) /\ calls \in Nat
      BY <2>0, <2>2 DEF LoggerInv, InOrder, LoggerShape
    <3>2. 1 .. Len(output) = 1 .. calls - 1
      BY <2>0, <3>1 DEF Printed
    <3>3. output = [i \in 1 .. Len(output) |-> output[i]]
      BY <2>0, LenProperties DEF LoggerShape
    <3>4. QED
      BY <3>1, <3>2, <3>3 DEF Printed
  <2>3. QED
    BY <2>1, <2>2 DEF OneMessageShort
<1>2. QED
  BY <1>1, LoggerInitInv, LoggerStep, PTL DEF LoggerSpec
=============================================================================
