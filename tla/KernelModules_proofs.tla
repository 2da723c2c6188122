------------------------ MODULE KernelModules_proofs ------------------------
(***************************************************************************)
(* Proofs about the kernel modules of the course, each by itself, for any  *)
(* processes, parameters and sizes.                                        *)
(***************************************************************************)
EXTENDS CharDevices, DeferredWork, Messenger, Currency, TimeTrack, ProcFiles,
        StringConverter, ClockDriver, TaskThreads, KernelReminders, SeqLemmas,
        FiniteSetTheorems, SequenceTheorems, TLAPS

(***************************************************************************)
(* The character devices.                                                  *)
(***************************************************************************)

FixShape ==
  /\ device_open \in Int
  /\ opener \in [Process -> [at : {"closed", "tested", "counting", "open", "leaving",
                                   "uncounting"}, count : Int]]

(* Unless two opens have met, the count is where the one process that has  *)
(* the device is, and one that will be stored is the right one.            *)
OneHolder ==
  ~raced =>
    /\ \A p, q \in Process : opener[p].at # "closed" /\ opener[q].at # "closed" => p = q
    /\ (\A p \in Process : opener[p].at = "closed") => device_open = 0
    /\ \A p \in Process :
         /\ opener[p].at \in {"tested", "counting"} => device_open = 0
         /\ opener[p].at \in {"open", "leaving", "uncounting"} => device_open = 1
         /\ opener[p].at = "counting" => opener[p].count = 1
         /\ opener[p].at = "uncounting" => opener[p].count = 0

(* The nodes are those the loop makes, the region is the one asked for.    *)
MinorsOf(first, last) == {first + i : i \in 0 .. last - 1}
NodesOf(first, last) == {first + i : i \in first .. last - 1}
NodesDriven ==
  /\ minors \in Nat \X Nat
  /\ dyn \in {"absent", "region", "loaded", "removing", "oops"}
  /\ dyn \in {"absent", "region", "removing"} => nodes = {}
  /\ dyn \in {"region", "loaded"} => region = MinorsOf(minors[1], minors[2])
  /\ dyn = "loaded" => nodes \subseteq NodesOf(minors[1], minors[2])
  /\ nodes \subseteq region

CharInv == FixShape /\ OneHolder /\ NodesDriven

LEMMA CharInitInv == CharInit => CharInv
<1> SUFFICES ASSUME CharInit PROVE CharInv
  OBVIOUS
<1>0. \A p \in Process : opener[p] = [at |-> "closed", count |-> 0]
  BY DEF CharInit, Closed
<1>1. FixShape /\ OneHolder
  <2>1. FixShape
    <3> DEFINE Opener == [at : {"closed", "tested", "counting", "open", "leaving",
                                "uncounting"}, count : Int]
    <3>1. Closed \in Opener
      BY DEF Closed
    <3> HIDE DEF Opener
    <3>2. opener \in [Process -> Opener]
      BY <3>1 DEF CharInit
    <3>3. QED
      BY <3>2 DEF CharInit, FixShape, Opener
  <2>2. OneHolder
    BY <1>0 DEF CharInit, OneHolder
  <2>3. QED
    BY <2>1, <2>2
<1>2. NodesDriven
  BY DEF CharInit, NodesDriven
<1>3. QED
  BY <1>1, <1>2 DEF CharInv

(* When nobody is between the test and the count, a count of zero says     *)
(* that nobody has the device.                                             *)
LEMMA AllClosed ==
  ASSUME FixShape, OneHolder, ~raced, device_open = 0, NEW q \in Process,
         opener[q].at \notin {"tested", "counting"}
  PROVE  opener[q].at = "closed"
<1>1. opener[q].at \in {"closed", "tested", "counting", "open", "leaving", "uncounting"}
  BY DEF FixShape
<1>2. opener[q].at \notin {"open", "leaving", "uncounting"}
  BY DEF OneHolder
<1>3. QED
  BY <1>1, <1>2

LEMMA FixStep ==
  ASSUME FixShape, OneHolder, NEW p \in Process,
         OpenDevice(p) \/ LoadCount(p) \/ StoreCount(p) \/ ReleaseDevice(p)
  PROVE  FixShape' /\ OneHolder'
<1> USE DEF FixShape, At
<1>1. CASE OpenDevice(p)
  <2>1. FixShape'
    BY <1>1 DEF OpenDevice, Busy
  <2>2. ASSUME ~raced'
        PROVE  OneHolder'
    <3>1. ~raced /\ (Busy \/ \A q \in Process : opener[q].at \notin {"tested", "counting"})
      BY <1>1, <2>2 DEF OpenDevice
    <3>2. CASE Busy
      BY <1>1, <3>1, <3>2 DEF OpenDevice, OneHolder
    <3>3. CASE ~Busy
      <4>1. \A q \in Process : opener[q].at = "closed"
        BY <3>1, <3>3, AllClosed DEF Busy
      <4>2. /\ opener' = [opener EXCEPT ![p] = [at |-> "tested", count |-> 0]]
            /\ device_open' = device_open /\ device_open = 0
        BY <1>1, <3>3 DEF OpenDevice, Busy
      <4>3. QED
        BY <4>1, <4>2 DEF OneHolder
    <3>4. QED
      BY <3>2, <3>3
  <2>3. QED
    BY <2>1, <2>2 DEF OneHolder
<1>2. CASE LoadCount(p)
  BY <1>2 DEF LoadCount, OneHolder
<1>3. CASE StoreCount(p)
  BY <1>3 DEF StoreCount, OneHolder
<1>4. CASE ReleaseDevice(p)
  BY <1>4 DEF ReleaseDevice, OneHolder
<1>5. QED
  BY <1>1, <1>2, <1>3, <1>4

LEMMA DynStep ==
  ASSUME NodesDriven, AddRegion \/ CreateNodes \/ DestroyNodes \/ DropRegion
  PROVE  NodesDriven'
<1> USE DEF NodesDriven
<1>1. CASE AddRegion
  BY <1>1, CharDevicesAssumption DEF AddRegion, MinorsOf
<1>2. CASE CreateNodes
  <2>1. \A first, last \in Nat : NodesOf(first, last) \subseteq MinorsOf(first, last)
    BY DEF NodesOf, MinorsOf
  <2>2. nodes' \subseteq NodesOf(minors[1], minors[2])
    BY <1>2 DEF CreateNodes, NodesOf
  <2>3. QED
    BY <1>2, <2>1, <2>2 DEF CreateNodes
<1>3. CASE DestroyNodes
  BY <1>3 DEF DestroyNodes, NodesOf
<1>4. CASE DropRegion
  BY <1>4 DEF DropRegion
<1>5. QED
  BY <1>1, <1>2, <1>3, <1>4

LEMMA CharStep == CharInv /\ [CharNext]_charVars => CharInv'
<1> SUFFICES ASSUME CharInv, [CharNext]_charVars PROVE CharInv'
  OBVIOUS
<1> USE DEF CharInv
<1>1. ASSUME UNCHANGED dynVars
      PROVE  NodesDriven'
  BY <1>1 DEF dynVars, NodesDriven
<1>2. ASSUME UNCHANGED fixVars
      PROVE  FixShape' /\ OneHolder'
  BY <1>2 DEF fixVars, FixShape, OneHolder
<1>3. UNCHANGED charVars => UNCHANGED dynVars /\ UNCHANGED fixVars
  BY DEF charVars, dynVars, fixVars
<1>4. QED
  BY <1>1, <1>2, <1>3, FixStep, DynStep DEF CharNext

(* Unless an open began between the test and the count of another, at most *)
(* one process has the exclusive device, and it is free when all have      *)
(* closed it; and every node under /dev has its driver, whatever range of  *)
(* minors the module is loaded with.                                       *)
THEOREM OneHolderNodesDriven == CharSpec => []OneHolderAndNodesDriven
<1>1. CharInv => OneHolderAndNodesDriven
  <2> SUFFICES ASSUME CharInv PROVE OneHolderAndNodesDriven
    OBVIOUS
  <2> DEFINE Holders == {p \in Process : opener[p].at # "closed"}
  <2>1. ASSUME ~raced
        PROVE  Cardinality(Holders) <= 1
    <3>1. Holders = {} \/ \E p \in Process : Holders = {p}
      BY <2>1 DEF CharInv, OneHolder
    <3>2. QED
      BY <3>1, FS_EmptySet, FS_Singleton
  <2>2. QED
    BY <2>1 DEF CharInv, OneHolder, NodesDriven, OneHolderAndNodesDriven
<1>2. QED
  BY <1>1, CharInitInv, CharStep, PTL DEF CharSpec

(***************************************************************************)
(* Deferred work.                                                          *)
(***************************************************************************)

WorkShape ==
  /\ made \in Nat
  /\ pending \subseteq Jobs
  /\ in_job \in [Jobs -> {"none", "begun", "ending"}]

Quiet == pending = {} /\ \A j \in Jobs : in_job[j] = "none"

(* A job runs or will run only if it was handed over and, once the module  *)
(* is stopped, only if its function was caught running by a del_timer that *)
(* does not wait, or one of several could not be handed over.              *)
StoppedIsQuiet ==
  /\ made = 0 => Quiet
  /\ stage = "absent" => made = 0
  /\ deferred = "none" => stage = "absent"
  /\ stage \in {"stopping", "gone"} /\ deferred \in Timers /\ stopped_in = {} => Quiet
  /\ stage = "gone" /\ deferred \notin Timers => Quiet
  /\ stage = "failed" => deferred \in Interrupts \cup {"mod_workqueue"}
  /\ stage = "failed" /\ deferred = "lab1_interrupt" => made = 0

WorkInv == WorkShape /\ StoppedIsQuiet

(* How many jobs a module has, and that one handed over is one of them.    *)
LEMMA JobCount ==
  ASSUME NEW module
  PROVE  \E n \in Nat \ {0} :
           /\ Jobs = 1 .. n
           /\ Cardinality(JobsOf(module)) =
                IF module \in {"mod_workqueue", "mod_ser"} THEN n ELSE 1
<1>1. Cardinality(Jobs) \in Nat \ {0} /\ Jobs = 1 .. Cardinality(Jobs)
  <2>1. Cardinality(Jobs) \in Nat
    BY DeferredWorkAssumption, FS_CardinalityType
  <2>2. QED
    BY <2>1, DeferredWorkAssumption
<1>2. Cardinality({1}) = 1
  BY FS_Singleton
<1>3. QED
  BY <1>1, <1>2 DEF JobsOf

LEMMA HandedOver ==
  ASSUME made \in Nat, made < Cardinality(JobsOf(deferred))
  PROVE  /\ made + 1 \in Jobs
         /\ deferred \notin {"mod_workqueue", "mod_ser"} => made = 0
BY JobCount

LEMMA WorkInitInv == WorkInit => WorkInv
BY DEF WorkInit, WorkInv, WorkShape, StoppedIsQuiet, Quiet

LEMMA LoadStep ==
  ASSUME WorkInv, (\E module \in Modules : Choose(module)) \/ HandOver \/ Loaded
  PROVE  WorkInv'
<1> USE DEF WorkInv, WorkShape, StoppedIsQuiet, Quiet
<1>1. ASSUME NEW module \in Modules, Choose(module)
      PROVE  WorkInv'
  BY <1>1 DEF Choose
<1>2. CASE HandOver
  <2>1. made + 1 \in Jobs /\ (deferred \notin {"mod_workqueue", "mod_ser"} => made = 0)
    BY <1>2, HandedOver DEF HandOver
  <2>2. CASE stage' = "loading"
    BY <1>2, <2>1, <2>2 DEF HandOver
  <2>3. CASE stage' = "failed"
    BY <1>2, <2>1, <2>3 DEF HandOver
  <2>4. QED
    BY <1>2, <2>2, <2>3 DEF HandOver
<1>3. CASE Loaded
  <2>1. 1 \in Jobs
    BY JobCount
  <2>2. made # 0
    BY <1>3, JobCount DEF Loaded
  <2>3. QED
    BY <1>3, <2>1, <2>2 DEF Loaded
<1>4. QED
  BY <1>1, <1>2, <1>3

LEMMA JobStep ==
  ASSUME WorkInv, NEW j \in Jobs, JobBegins(j) \/ JobSetsAgain(j) \/ JobEnds(j)
  PROVE  WorkInv'
<1> USE DEF WorkInv, WorkShape, StoppedIsQuiet, Quiet
<1>1. CASE JobBegins(j)
  BY <1>1 DEF JobBegins
<1>2. CASE JobSetsAgain(j)
  BY <1>2 DEF JobSetsAgain
<1>3. CASE JobEnds(j)
  BY <1>3 DEF JobEnds
<1>4. QED
  BY <1>1, <1>2, <1>3

LEMMA UnloadStep ==
  ASSUME WorkInv, Stop \/ Gone
  PROVE  WorkInv'
<1> USE DEF WorkInv, WorkShape, StoppedIsQuiet, Quiet
<1>1. CASE Stop
  BY <1>1 DEF Stop, Running, Timers
<1>2. CASE Gone
  BY <1>2 DEF Gone, Running, DelTimer
<1>3. QED
  BY <1>1, <1>2

LEMMA WorkStep == WorkInv /\ [WorkNext]_workVars => WorkInv'
<1> SUFFICES ASSUME WorkInv, [WorkNext]_workVars PROVE WorkInv'
  OBVIOUS
<1>1. CASE UNCHANGED workVars
  BY <1>1 DEF workVars, WorkInv, WorkShape, StoppedIsQuiet, Quiet
<1>2. CASE WorkNext
  BY <1>2, LoadStep, JobStep, UnloadStep DEF WorkNext
<1>3. QED
  BY <1>1, <1>2

(* Whatever the kernel calls and when, once one of these modules is gone   *)
(* none of its functions runs or will run, except for a timer that         *)
(* del_timer caught running and for what a failed load had handed over;    *)
(* for any number of works and handlers.                                   *)
THEOREM UnloadedModulesAreQuiet == WorkSpec => []NothingRunsUnloaded
<1>1. WorkInv => NothingRunsUnloaded
  <2> SUFFICES ASSUME WorkInv, stage \in {"gone", "failed"}, pending # {} \/ Running # {}
               PROVE  \/ deferred \in Timers /\ stopped_in # {}
                      \/ /\ deferred \in {"mod_workqueue", "mod_ser"}
                         /\ stage = "failed" /\ made > 0
    BY DEF NothingRunsUnloaded
  <2>1. ~Quiet
    BY DEF Quiet, Running
  <2>2. made > 0
    BY <2>1 DEF WorkInv, WorkShape, StoppedIsQuiet
  <2>3. CASE stage = "gone"
    BY <2>1, <2>3 DEF WorkInv, StoppedIsQuiet
  <2>4. CASE stage = "failed"
    BY <2>2, <2>4 DEF WorkInv, StoppedIsQuiet, Interrupts
  <2>5. QED
    BY <2>3, <2>4
<1>2. QED
  BY <1>1, WorkInitInv, WorkStep, PTL DEF WorkSpec

(***************************************************************************)
(* The messenger.                                                          *)
(***************************************************************************)

Letters == {"a", "b", "x", Nul}
Steps == {"none", "cut", "copy", "load", "store", "limit", "give", "empty", "wipe"}
Calls == [at : Steps, alone : BOOLEAN, letter : Letters, asked : Nat, length : Nat, count : Int]

MessengerShape ==
  /\ chardev_buffer_rw_holder \in Nat
  /\ device_memory_buffer \in [1 .. BufferBytes -> Letters] \cup {<< >>}
  /\ total_messages_count \in Int
  /\ in_call \in [Process -> Calls]
  /\ mailbox \in Seq(Letters \cup {"mixed"})

(* A call is by itself only if nobody else is in one.                      *)
AloneIsAlone ==
  \A p, q \in Process :
    in_call[p].at # "none" /\ in_call[p].alone /\ in_call[q].at # "none" => q = p

(* The device holds what the mailbox holds.                                *)
HoldsMailbox ==
  /\ chardev_buffer_rw_holder <= BufferBytes
  /\ Len(mailbox) = chardev_buffer_rw_holder
  /\ \A i \in 1 .. chardev_buffer_rw_holder : device_memory_buffer[i] = mailbox[i]

IdleHoldsMailbox ==
  (\A p \in Process : in_call[p].at = "none") /\ mailbox # Mixed => HoldsMailbox

(* What a call that is by itself has done so far.                          *)
AloneSoFar ==
  \A p \in Process : in_call[p].alone =>
    LET c == in_call[p]
        whole == chardev_buffer_rw_holder = Shorter(c.length, BufferBytes)
    IN /\ c.at = "cut" => whole \/ chardev_buffer_rw_holder = c.length
       /\ c.at \in {"copy", "load", "store"} => whole
       /\ c.at \in {"load", "store"} =>
            \A i \in 1 .. chardev_buffer_rw_holder : device_memory_buffer[i] = c.letter
       /\ c.at = "limit" /\ mailbox # Mixed =>
            HoldsMailbox /\ c.asked > chardev_buffer_rw_holder
       /\ c.at = "give" /\ mailbox # Mixed =>
            HoldsMailbox /\ c.length = Shorter(c.asked, chardev_buffer_rw_holder)
       /\ c.at = "wipe" => chardev_buffer_rw_holder = 0

(* A length that does not fit has been published by a write that has yet   *)
(* to cut it, and a read that has taken it met that write.                 *)
TooLongIsUncut ==
  /\ chardev_buffer_rw_holder > BufferBytes =>
       \E q \in Process : in_call[q].at = "cut" /\ in_call[q].length > BufferBytes
  /\ \A p \in Process :
       in_call[p].at = "give" /\ in_call[p].length > BufferBytes => ~in_call[p].alone

MessengerInv ==
  /\ MessengerShape /\ AloneIsAlone /\ IdleHoldsMailbox /\ AloneSoFar
  /\ TooLongIsUncut /\ MailboxWhenAlone

(* What an unloaded module has is gone.                                    *)
AbsentIsEmpty ==
  messenger = "absent" =>
    /\ chardev_buffer_rw_holder = 0
    /\ \A p \in Process : in_call[p].at = "none"

LEMMA ShorterIsNat ==
  ASSUME NEW a \in Nat, NEW b \in Nat
  PROVE  /\ Shorter(a, b) \in Nat
         /\ Shorter(a, b) <= a /\ Shorter(a, b) <= b
         /\ Shorter(a, b) \in {a, b}
BY DEF Shorter

LEMMA MixedIsSeq ==
  Mixed \in Seq(Letters \cup {"mixed"}) /\ << >> \in Seq(Letters \cup {"mixed"})
BY DEF Mixed

LEMMA CallSpoilt ==
  ASSUME NEW c \in Calls
  PROVE  /\ [c EXCEPT !.alone = FALSE].at = c.at
         /\ [c EXCEPT !.alone = FALSE].length = c.length
         /\ ~[c EXCEPT !.alone = FALSE].alone
BY DEF Calls

(* How the steps of a call change what the processes do.                   *)
LEMMA EnterFacts ==
  ASSUME MessengerShape, NEW p \in Process, NEW call \in Calls, Enter(p, call)
  PROVE  /\ in_call[p].at = "none"
         /\ in_call' \in [Process -> Calls]
         /\ in_call'[p] = [call EXCEPT !.alone = Others(p) = {}]
         /\ \A q \in Process \ {p} :
              /\ in_call[q].at = "none" => in_call'[q] = in_call[q]
              /\ in_call[q].at # "none" => in_call'[q] = [in_call[q] EXCEPT !.alone = FALSE]
<1>1. in_call \in [Process -> Calls]
  BY DEF MessengerShape
<1>2. [call EXCEPT !.alone = Others(p) = {}] \in Calls
  BY DEF Calls
<1>3. \A q \in Process : in_call[q] \in Calls /\ [in_call[q] EXCEPT !.alone = FALSE] \in Calls
  BY <1>1 DEF Calls
<1>4. QED
  BY <1>1, <1>2, <1>3 DEF Enter

LEMMA MessengerInitInv == MessengerInit => MessengerInv
<1> SUFFICES ASSUME MessengerInit PROVE MessengerInv
  OBVIOUS
<1>1. MessengerShape
  <2>1. Out \in Calls
    BY DEF Out, Doing, Calls, Letters, Steps
  <2>2. QED
    BY <2>1 DEF MessengerInit, MessengerShape, Letters
<1>2. \A p \in Process : in_call[p].at = "none"
  <2>1. in_call = [p \in Process |-> Out]
    BY Zenon DEF MessengerInit
  <2>2. QED
    BY <2>1 DEF Out, Doing
<1>3. AloneIsAlone /\ AloneSoFar
  BY <1>2 DEF AloneIsAlone, AloneSoFar
<1>4. IdleHoldsMailbox
  <2>1. chardev_buffer_rw_holder = 0 /\ Len(mailbox) = 0 /\ 0 <= BufferBytes
    BY MessengerAssumption DEF MessengerInit
  <2>2. QED
    BY <2>1 DEF IdleHoldsMailbox, HoldsMailbox
<1>5. TooLongIsUncut
  BY <1>2, MessengerAssumption DEF MessengerInit, TooLongIsUncut
<1>6. MailboxWhenAlone
  BY DEF MessengerInit, MailboxWhenAlone
<1>7. QED
  BY <1>1, <1>3, <1>4, <1>5, <1>6 DEF MessengerInv

LEMMA GoesFacts ==
  ASSUME MessengerShape, NEW p \in Process, NEW step \in Steps, Goes(p, step)
  PROVE  /\ in_call' \in [Process -> Calls]
         /\ in_call'[p] = [in_call[p] EXCEPT !.at = step]
         /\ \A q \in Process \ {p} : in_call'[q] = in_call[q]
BY DEF MessengerShape, Calls, Goes

LEMMA LeavesFacts ==
  ASSUME MessengerShape, NEW p \in Process, NEW left_behind, Leaves(p, left_behind)
  PROVE  /\ in_call' \in [Process -> Calls]
         /\ in_call'[p] = Out
         /\ \A q \in Process \ {p} : in_call'[q] = in_call[q]
<1>1. Out \in Calls
  BY DEF Out, Doing, Calls, Letters, Steps
<1>2. QED
  BY <1>1 DEF MessengerShape, Leaves

(* After a step that enters a call, whoever is in one is by itself only if *)
(* it is the one that entered and there was nobody else.                   *)
LEMMA EnterAlone ==
  ASSUME MessengerInv, NEW p \in Process, NEW call \in Calls, Enter(p, call),
         call.at # "none"
  PROVE  /\ AloneIsAlone'
         /\ ~(\A q \in Process : in_call[q].at = "none")'
         /\ \A q \in Process : in_call'[q].alone =>
              \/ in_call'[q].at = "none"
              \/ q = p /\ \A r \in Process : in_call[r].at = "none"
         /\ in_call'[p].at = call.at /\ in_call'[p].letter = call.letter
         /\ in_call'[p].length = call.length /\ in_call'[p].asked = call.asked
         /\ \A q \in Process \ {p} :
              in_call'[q].at = in_call[q].at /\ in_call'[q].length = in_call[q].length
<1>1. /\ in_call[p].at = "none"
      /\ in_call'[p] = [call EXCEPT !.alone = Others(p) = {}]
      /\ \A q \in Process \ {p} :
           /\ in_call[q].at = "none" => in_call'[q] = in_call[q]
           /\ in_call[q].at # "none" => in_call'[q] = [in_call[q] EXCEPT !.alone = FALSE]
  BY EnterFacts DEF MessengerInv
<1>2. /\ in_call'[p].at = call.at /\ in_call'[p].letter = call.letter
      /\ in_call'[p].length = call.length /\ in_call'[p].asked = call.asked
      /\ in_call'[p].alone = (Others(p) = {})
  BY <1>1 DEF Calls
<1>3. \A q \in Process \ {p} :
        /\ in_call'[q].at = in_call[q].at /\ in_call'[q].length = in_call[q].length
        /\ in_call[q].at # "none" => ~in_call'[q].alone
  <2> SUFFICES ASSUME NEW q \in Process \ {p}, in_call[q].at # "none"
               PROVE  /\ in_call'[q].at = in_call[q].at /\ in_call'[q].length = in_call[q].length
                      /\ ~in_call'[q].alone
    BY <1>1
  <2>1. in_call[q] \in Calls
    BY DEF MessengerInv, MessengerShape
  <2>2. QED
    BY <1>1, <2>1, CallSpoilt, Zenon
<1>4. Others(p) = {} => \A r \in Process : in_call[r].at = "none"
  BY <1>1 DEF Others
<1>5. \A q \in Process : in_call'[q].alone =>
        \/ in_call'[q].at = "none"
        \/ q = p /\ \A r \in Process : in_call[r].at = "none"
  BY <1>2, <1>3, <1>4
<1>6. AloneIsAlone'
  BY <1>3, <1>5 DEF AloneIsAlone
<1>7. QED
  BY <1>2, <1>3, <1>5, <1>6

LEMMA WriteStep ==
  ASSUME MessengerInv, NEW p \in Process, NEW letter \in {"a", "b"}, NEW length \in Lengths,
         Write(p, letter, length)
  PROVE  MessengerInv'
<1> DEFINE call == Doing("cut", letter, 0, length)
<1>1. /\ call \in Calls /\ call.at = "cut" /\ call.length = length
      /\ length \in Nat /\ BufferBytes \in Nat
  BY MessengerAssumption DEF Doing, Calls, Steps, Letters
<1>2. Enter(p, call)
  BY DEF Write
<1> HIDE DEF call
<1>3. /\ AloneIsAlone'
      /\ ~(\A q \in Process : in_call[q].at = "none")'
      /\ \A q \in Process : in_call'[q].alone =>
           \/ in_call'[q].at = "none"
           \/ q = p /\ \A r \in Process : in_call[r].at = "none"
      /\ in_call'[p].at = "cut" /\ in_call'[p].length = length
      /\ \A q \in Process \ {p} :
           in_call'[q].at = in_call[q].at /\ in_call'[q].length = in_call[q].length
  BY <1>1, <1>2, EnterAlone
<1>4. in_call' \in [Process -> Calls]
  BY <1>1, <1>2, EnterFacts DEF MessengerInv
<1>5. /\ chardev_buffer_rw_holder' \in {length, Shorter(length, BufferBytes)}
      /\ UNCHANGED <<device_memory_buffer, status, history>>
  BY DEF Write
<1>6. MessengerShape'
  BY <1>1, <1>4, <1>5, ShorterIsNat DEF MessengerInv, MessengerShape, status, history
<1>7. IdleHoldsMailbox'
  BY <1>3 DEF IdleHoldsMailbox
<1>8. AloneSoFar'
  BY <1>3, <1>5 DEF AloneSoFar
<1>9. TooLongIsUncut'
  BY <1>1, <1>3, <1>5, ShorterIsNat, SMTT(30) DEF TooLongIsUncut
<1>10. MailboxWhenAlone'
  BY <1>5 DEF history, MessengerInv, MailboxWhenAlone
<1>11. QED
  BY <1>3, <1>6, <1>7, <1>8, <1>9, <1>10 DEF MessengerInv

LEMMA ReadStep ==
  ASSUME MessengerInv, NEW p \in Process, NEW length \in Lengths, Read(p, length)
  PROVE  MessengerInv'
<1> DEFINE step == IF length > chardev_buffer_rw_holder THEN "limit" ELSE "give"
           call == Doing(step, Nul, length, length)
<1>1. /\ length \in Nat /\ BufferBytes \in Nat /\ chardev_buffer_rw_holder \in Nat
      /\ step \in {"limit", "give"}
      /\ step = "limit" => length > chardev_buffer_rw_holder
      /\ step = "give" => length <= chardev_buffer_rw_holder
  BY MessengerAssumption DEF MessengerInv, MessengerShape
<1>2. Enter(p, call) /\ UNCHANGED <<chardev_buffer_rw_holder, device_memory_buffer, status, history>>
  BY DEF Read
<1> HIDE DEF step
<1>3. call \in Calls /\ call.at = step /\ call.length = length /\ call.asked = length
  BY <1>1 DEF Doing, Calls, Steps, Letters
<1> HIDE DEF call
<1>4. /\ AloneIsAlone'
      /\ ~(\A q \in Process : in_call[q].at = "none")'
      /\ \A q \in Process : in_call'[q].alone =>
           \/ in_call'[q].at = "none"
           \/ q = p /\ \A r \in Process : in_call[r].at = "none"
      /\ in_call'[p].at = step /\ in_call'[p].length = length /\ in_call'[p].asked = length
      /\ \A q \in Process \ {p} :
           in_call'[q].at = in_call[q].at /\ in_call'[q].length = in_call[q].length
  BY <1>1, <1>2, <1>3, EnterAlone
<1>5. in_call' \in [Process -> Calls] /\ in_call[p].at = "none"
  BY <1>2, <1>3, EnterFacts DEF MessengerInv
<1>6. MessengerShape'
  BY <1>2, <1>5 DEF MessengerInv, MessengerShape, status, history
<1>7. IdleHoldsMailbox'
  BY <1>4 DEF IdleHoldsMailbox
<1>8. AloneSoFar'
  <2> SUFFICES ASSUME NEW q \in Process, in_call'[q].alone, in_call'[q].at # "none", mailbox' # Mixed
               PROVE  /\ in_call'[q].at \in {"limit", "give"} /\ HoldsMailbox'
                      /\ in_call'[q].at = "limit" => in_call'[q].asked > chardev_buffer_rw_holder'
                      /\ in_call'[q].at = "give" =>
                           in_call'[q].length = Shorter(in_call'[q].asked, chardev_buffer_rw_holder')
    BY <1>1, <1>4 DEF AloneSoFar
  <2>1. q = p /\ \A r \in Process : in_call[r].at = "none"
    BY <1>4
  <2>2. HoldsMailbox
    BY <1>2, <2>1 DEF MessengerInv, IdleHoldsMailbox, history
  <2>3. HoldsMailbox'
    BY <1>2, <2>2 DEF HoldsMailbox, history
  <2>4. step = "give" => length = Shorter(length, chardev_buffer_rw_holder)
    BY <1>1 DEF Shorter
  <2>5. QED
    BY <1>1, <1>2, <1>4, <2>1, <2>3, <2>4
<1>9. TooLongIsUncut'
  BY <1>1, <1>2, <1>4, <1>5 DEF MessengerInv, TooLongIsUncut
<1>10. MailboxWhenAlone'
  BY <1>2 DEF history, MessengerInv, MailboxWhenAlone
<1>11. QED
  BY <1>4, <1>6, <1>7, <1>8, <1>9, <1>10 DEF MessengerInv

LEMMA ClearStep ==
  ASSUME MessengerInv, NEW p \in Process, Clear(p)
  PROVE  MessengerInv'
<1> DEFINE call == Doing("wipe", Nul, 0, 0)
<1>1. call \in Calls /\ call.at = "wipe" /\ BufferBytes \in Nat
  BY MessengerAssumption DEF Doing, Calls, Steps, Letters
<1>2. Enter(p, call) /\ chardev_buffer_rw_holder' = 0 /\ UNCHANGED <<device_memory_buffer, status, history>>
  BY DEF Clear
<1> HIDE DEF call
<1>3. /\ AloneIsAlone'
      /\ ~(\A q \in Process : in_call[q].at = "none")'
      /\ \A q \in Process : in_call'[q].alone => in_call'[q].at = "none" \/ q = p
      /\ in_call'[p].at = "wipe"
      /\ \A q \in Process \ {p} :
           in_call'[q].at = in_call[q].at /\ in_call'[q].length = in_call[q].length
  BY <1>1, <1>2, EnterAlone
<1>4. in_call' \in [Process -> Calls]
  BY <1>1, <1>2, EnterFacts DEF MessengerInv
<1>5. MessengerShape'
  BY <1>2, <1>4 DEF MessengerInv, MessengerShape, status, history
<1>6. IdleHoldsMailbox' /\ AloneSoFar'
  BY <1>2, <1>3 DEF IdleHoldsMailbox, AloneSoFar
<1>7. TooLongIsUncut'
  BY <1>1, <1>2, <1>3 DEF TooLongIsUncut
<1>8. MailboxWhenAlone'
  BY <1>2 DEF history, MessengerInv, MailboxWhenAlone
<1>9. QED
  BY <1>3, <1>5, <1>6, <1>7, <1>8 DEF MessengerInv

(* After a step that leaves a call nobody is in a call by itself.          *)
LEMMA LeaveAlone ==
  ASSUME MessengerInv, NEW p \in Process, NEW left_behind, Leaves(p, left_behind),
         in_call[p].at # "none"
  PROVE  /\ in_call' \in [Process -> Calls]
         /\ AloneIsAlone' /\ AloneSoFar'
         /\ mailbox' = IF in_call[p].alone THEN left_behind ELSE Mixed
         /\ in_call[p].alone => \A q \in Process : in_call'[q].at = "none"
         /\ in_call[p].at # "cut" /\ chardev_buffer_rw_holder' <= chardev_buffer_rw_holder
            /\ chardev_buffer_rw_holder' \in Nat => TooLongIsUncut'
<1>1. /\ in_call' \in [Process -> Calls]
      /\ in_call'[p] = Out
      /\ \A q \in Process \ {p} : in_call'[q] = in_call[q]
  BY LeavesFacts DEF MessengerInv
<1>2. in_call'[p].at = "none"
  BY <1>1 DEF Out, Doing
<1>3. \A q \in Process : in_call'[q].alone => in_call'[q].at = "none"
  BY <1>1, <1>2 DEF MessengerInv, AloneIsAlone
<1>4. AloneIsAlone' /\ AloneSoFar'
  BY <1>3 DEF AloneIsAlone, AloneSoFar
<1>5. in_call[p].alone => \A q \in Process : in_call'[q].at = "none"
  BY <1>1, <1>2 DEF MessengerInv, AloneIsAlone
<1>6. ASSUME in_call[p].at # "cut", chardev_buffer_rw_holder' <= chardev_buffer_rw_holder,
             chardev_buffer_rw_holder' \in Nat
      PROVE  TooLongIsUncut'
  BY <1>1, <1>3, <1>6, MessengerAssumption DEF MessengerInv, MessengerShape, TooLongIsUncut
<1>7. QED
  BY <1>1, <1>4, <1>5, <1>6 DEF Leaves

(* After a step within a call, whoever is by itself still is.              *)
LEMMA StillAlone ==
  ASSUME MessengerInv, NEW p \in Process, in_call[p].at # "none", in_call'[p].at # "none",
         in_call'[p].alone = in_call[p].alone,
         \A q \in Process \ {p} : in_call'[q] = in_call[q]
  PROVE  /\ AloneIsAlone' /\ IdleHoldsMailbox'
         /\ \A q \in Process : in_call'[q].alone => in_call'[q].at = "none" \/ q = p
<1>1. \A q \in Process : in_call'[q].alone => in_call'[q].at = "none" \/ q = p
  BY DEF MessengerInv, AloneIsAlone
<1>2. AloneIsAlone'
  <2>1. \A q \in Process : in_call'[q].at # "none" => in_call[q].at # "none"
    OBVIOUS
  <2>2. \A q \in Process : in_call'[q].alone => in_call[q].alone
    OBVIOUS
  <2>3. QED
    BY <2>1, <2>2, Zenon DEF MessengerInv, AloneIsAlone
<1>3. IdleHoldsMailbox'
  BY DEF IdleHoldsMailbox
<1>4. QED
  BY <1>1, <1>2, <1>3

LEMMA GoAlone ==
  ASSUME MessengerInv, NEW p \in Process, NEW step \in Steps, Goes(p, step),
         in_call[p].at # "none", step # "none"
  PROVE  /\ in_call' \in [Process -> Calls]
         /\ AloneIsAlone' /\ IdleHoldsMailbox'
         /\ in_call'[p].at = step /\ in_call'[p].length = in_call[p].length
         /\ in_call'[p].letter = in_call[p].letter /\ in_call'[p].asked = in_call[p].asked
         /\ in_call'[p].alone = in_call[p].alone
         /\ \A q \in Process \ {p} : in_call'[q] = in_call[q]
         /\ \A q \in Process : in_call'[q].alone => in_call'[q].at = "none" \/ q = p
<1>1. /\ in_call' \in [Process -> Calls]
      /\ in_call'[p] = [in_call[p] EXCEPT !.at = step]
      /\ \A q \in Process \ {p} : in_call'[q] = in_call[q]
  BY GoesFacts DEF MessengerInv
<1>2. in_call[p] \in Calls
  BY DEF MessengerInv, MessengerShape
<1>3. /\ in_call'[p].at = step /\ in_call'[p].length = in_call[p].length
      /\ in_call'[p].letter = in_call[p].letter /\ in_call'[p].asked = in_call[p].asked
      /\ in_call'[p].alone = in_call[p].alone
  BY <1>1, <1>2 DEF Calls
<1>4. QED
  BY <1>1, <1>3, StillAlone

(* A read that was cut takes the length that is there now.                 *)
LEMMA ReadLimitStep ==
  ASSUME MessengerInv, NEW p \in Process, ReadLimit(p)
  PROVE  MessengerInv'
<1>1. /\ in_call[p].at = "limit"
      /\ in_call' = [in_call EXCEPT ![p].at = "give", ![p].length = chardev_buffer_rw_holder]
      /\ UNCHANGED <<chardev_buffer_rw_holder, device_memory_buffer, status, history>>
  BY DEF ReadLimit
<1>2. /\ in_call \in [Process -> Calls] /\ in_call[p] \in Calls
      /\ chardev_buffer_rw_holder \in Nat /\ BufferBytes \in Nat /\ in_call[p].asked \in Nat
  BY MessengerAssumption DEF MessengerInv, MessengerShape, Calls
<1>3. /\ in_call' \in [Process -> Calls]
      /\ \A q \in Process \ {p} : in_call'[q] = in_call[q]
  BY <1>1, <1>2 DEF Calls, Steps
<1>4. /\ in_call'[p].at = "give" /\ in_call'[p].length = chardev_buffer_rw_holder
      /\ in_call'[p].asked = in_call[p].asked /\ in_call'[p].alone = in_call[p].alone
  BY <1>1, <1>2 DEF Calls
<1>5. /\ AloneIsAlone' /\ IdleHoldsMailbox'
      /\ \A q \in Process : in_call'[q].alone => in_call'[q].at = "none" \/ q = p
  BY <1>1, <1>3, <1>4, StillAlone
<1>6. MessengerShape'
  BY <1>1, <1>3 DEF MessengerInv, MessengerShape, status, history
<1>7. AloneSoFar'
  <2>1. ASSUME in_call[p].alone, mailbox # Mixed
        PROVE  HoldsMailbox /\ in_call[p].asked > chardev_buffer_rw_holder
    BY <1>1, <2>1 DEF MessengerInv, AloneSoFar
  <2>2. ASSUME in_call[p].alone, mailbox # Mixed
        PROVE  /\ HoldsMailbox'
               /\ chardev_buffer_rw_holder = Shorter(in_call[p].asked, chardev_buffer_rw_holder)
    BY <1>1, <1>2, <2>1, <2>2 DEF HoldsMailbox, Shorter, history
  <2>3. QED
    BY <1>1, <1>4, <1>5, <2>2 DEF AloneSoFar, history
<1>8. TooLongIsUncut'
  <2>1. in_call[p].alone => ~(chardev_buffer_rw_holder > BufferBytes)
    <3>1. ASSUME chardev_buffer_rw_holder > BufferBytes
          PROVE  \E q \in Process : in_call[q].at = "cut"
      BY <3>1 DEF MessengerInv, TooLongIsUncut
    <3>2. QED
      BY <1>1, <3>1 DEF MessengerInv, AloneIsAlone
  <2>2. QED
    BY <1>1, <1>3, <1>4, <2>1 DEF MessengerInv, TooLongIsUncut
<1>9. MailboxWhenAlone'
  BY <1>1 DEF history, MessengerInv, MailboxWhenAlone
<1>10. QED
  BY <1>5, <1>6, <1>7, <1>8, <1>9 DEF MessengerInv

LEMMA WriteCutStep ==
  ASSUME MessengerInv, NEW p \in Process, WriteCut(p)
  PROVE  MessengerInv'
<1>1. /\ in_call[p].at = "cut" /\ Goes(p, "copy")
      /\ chardev_buffer_rw_holder' = Shorter(chardev_buffer_rw_holder, BufferBytes)
      /\ UNCHANGED <<device_memory_buffer, status, history>>
  BY DEF WriteCut, Cut
<1>2. "copy" \in Steps
  BY DEF Steps
<1>3. /\ in_call' \in [Process -> Calls]
      /\ AloneIsAlone' /\ IdleHoldsMailbox'
      /\ in_call'[p].at = "copy" /\ in_call'[p].length = in_call[p].length
      /\ in_call'[p].alone = in_call[p].alone
      /\ \A q \in Process \ {p} : in_call'[q] = in_call[q]
      /\ \A q \in Process : in_call'[q].alone => in_call'[q].at = "none" \/ q = p
  BY <1>1, <1>2, GoAlone
<1>4. /\ chardev_buffer_rw_holder \in Nat /\ BufferBytes \in Nat
      /\ in_call[p].length \in Nat
  BY MessengerAssumption DEF MessengerInv, MessengerShape, Calls
<1>5. chardev_buffer_rw_holder' \in Nat /\ chardev_buffer_rw_holder' <= BufferBytes
  BY <1>1, <1>4, ShorterIsNat
<1>6. MessengerShape'
  BY <1>1, <1>3, <1>5 DEF MessengerInv, MessengerShape, status, history
<1>7. AloneSoFar'
  <2>1. in_call[p].alone => \/ chardev_buffer_rw_holder = in_call[p].length
                            \/ chardev_buffer_rw_holder = Shorter(in_call[p].length, BufferBytes)
    BY <1>1 DEF MessengerInv, AloneSoFar
  <2>2. in_call[p].alone => chardev_buffer_rw_holder' = Shorter(in_call[p].length, BufferBytes)
    BY <1>1, <1>4, <2>1 DEF Shorter
  <2>3. QED
    BY <1>3, <2>2 DEF AloneSoFar
<1>8. TooLongIsUncut'
  BY <1>3, <1>4, <1>5 DEF MessengerInv, TooLongIsUncut
<1>9. MailboxWhenAlone'
  BY <1>1 DEF history, MessengerInv, MailboxWhenAlone
<1>10. QED
  BY <1>3, <1>6, <1>7, <1>8, <1>9 DEF MessengerInv

LEMMA WriteCopyStep ==
  ASSUME MessengerInv, NEW p \in Process, WriteCopy(p)
  PROVE  MessengerInv'
<1>1. /\ in_call[p].at = "copy"
      /\ UNCHANGED <<chardev_buffer_rw_holder, status, answer>>
  BY DEF WriteCopy
<1>2. PICK n \in 0 .. chardev_buffer_rw_holder :
        /\ device_memory_buffer' = [i \in DOMAIN device_memory_buffer |->
             IF i <= n THEN in_call[p].letter
             ELSE IF i <= chardev_buffer_rw_holder THEN Nul ELSE device_memory_buffer[i]]
        /\ IF n = chardev_buffer_rw_holder
           THEN Goes(p, "load") /\ UNCHANGED mailbox
           ELSE Leaves(p, Mixed)
  BY DEF WriteCopy
<1>3. /\ chardev_buffer_rw_holder \in Nat /\ BufferBytes \in Nat
      /\ in_call[p].length \in Nat /\ in_call[p].letter \in Letters
  BY MessengerAssumption DEF MessengerInv, MessengerShape, Calls
<1>4. /\ device_memory_buffer' \in [1 .. BufferBytes -> Letters] \cup {<< >>}
      /\ n = chardev_buffer_rw_holder /\ n <= BufferBytes =>
           \A i \in 1 .. n : device_memory_buffer'[i] = in_call[p].letter
  <2>1. CASE HasBuffer
    <3>1. device_memory_buffer \in [1 .. BufferBytes -> Letters]
      BY <2>1 DEF MessengerInv, MessengerShape, HasBuffer
    <3>2. Nul \in Letters
      BY DEF Letters
    <3>3. \A i \in 1 .. BufferBytes : device_memory_buffer[i] \in Letters
      BY <3>1
    <3>4. DOMAIN device_memory_buffer = 1 .. BufferBytes
      BY <3>1
    <3>5. QED
      BY <1>2, <1>3, <3>2, <3>3, <3>4
  <2>2. CASE ~HasBuffer
    <3>1. device_memory_buffer = << >> /\ chardev_buffer_rw_holder = 0
      BY <2>2 DEF WriteCopy, HasBuffer
    <3>2. DOMAIN device_memory_buffer = {}
      BY <3>1
    <3>3. device_memory_buffer' = << >>
      BY <1>2, <3>1, <3>2
    <3>4. QED
      BY <1>3, <3>1, <3>3
  <2>3. QED
    BY <2>1, <2>2
<1>5. MailboxWhenAlone'
  BY <1>1 DEF MessengerInv, MailboxWhenAlone
<1>6. CASE n = chardev_buffer_rw_holder
  <2>1. Goes(p, "load") /\ mailbox' = mailbox /\ "load" \in Steps
    BY <1>2, <1>6 DEF Steps
  <2>2. /\ in_call' \in [Process -> Calls]
        /\ AloneIsAlone' /\ IdleHoldsMailbox'
        /\ in_call'[p].at = "load" /\ in_call'[p].length = in_call[p].length
        /\ in_call'[p].letter = in_call[p].letter
        /\ in_call'[p].alone = in_call[p].alone
        /\ \A q \in Process \ {p} : in_call'[q] = in_call[q]
        /\ \A q \in Process : in_call'[q].alone => in_call'[q].at = "none" \/ q = p
    BY <1>1, <2>1, GoAlone
  <2>3. MessengerShape'
    BY <1>1, <1>4, <2>1, <2>2 DEF MessengerInv, MessengerShape, status
  <2>4. AloneSoFar'
    <3>1. in_call[p].alone => chardev_buffer_rw_holder = Shorter(in_call[p].length, BufferBytes)
      BY <1>1 DEF MessengerInv, AloneSoFar
    <3>2. ASSUME in_call[p].alone
          PROVE  \A i \in 1 .. chardev_buffer_rw_holder : device_memory_buffer'[i] = in_call[p].letter
      <4>1. chardev_buffer_rw_holder <= BufferBytes
        BY <1>3, <3>1, <3>2, ShorterIsNat
      <4>2. QED
        BY <1>4, <1>6, <4>1
    <3>3. QED
      BY <1>1, <2>2, <3>1, <3>2 DEF AloneSoFar
  <2>5. TooLongIsUncut'
    BY <1>1, <2>2 DEF MessengerInv, TooLongIsUncut
  <2>6. QED
    BY <1>5, <2>2, <2>3, <2>4, <2>5 DEF MessengerInv
<1>7. CASE n # chardev_buffer_rw_holder
  <2>1. Leaves(p, Mixed)
    BY <1>2, <1>7
  <2>2. /\ in_call' \in [Process -> Calls]
        /\ AloneIsAlone' /\ AloneSoFar' /\ mailbox' = Mixed /\ TooLongIsUncut'
    BY <1>1, <1>3, <2>1, LeaveAlone
  <2>3. MessengerShape'
    BY <1>1, <1>4, <2>2, MixedIsSeq DEF MessengerInv, MessengerShape, status
  <2>4. IdleHoldsMailbox'
    BY <2>2 DEF IdleHoldsMailbox, Mixed
  <2>5. QED
    BY <1>5, <2>2, <2>3, <2>4 DEF MessengerInv
<1>8. QED
  BY <1>6, <1>7

LEMMA WriteCountStep ==
  ASSUME MessengerInv, NEW p \in Process, WriteCount(p)
  PROVE  MessengerInv'
<1>1. /\ in_call[p].at = "load"
      /\ in_call' = [in_call EXCEPT ![p].at = "store", ![p].count = total_messages_count + 1]
      /\ UNCHANGED <<chardev_buffer_rw_holder, device_memory_buffer, total_messages_count, history>>
  BY DEF WriteCount
<1>2. in_call \in [Process -> Calls] /\ total_messages_count + 1 \in Int /\ in_call[p] \in Calls
  BY DEF MessengerInv, MessengerShape
<1>3. /\ in_call' \in [Process -> Calls]
      /\ \A q \in Process \ {p} : in_call'[q] = in_call[q]
  BY <1>1, <1>2 DEF Calls, Steps
<1>4. /\ in_call'[p].at = "store" /\ in_call'[p].length = in_call[p].length
      /\ in_call'[p].letter = in_call[p].letter /\ in_call'[p].alone = in_call[p].alone
  BY <1>1, <1>2 DEF Calls
<1>5. /\ AloneIsAlone' /\ IdleHoldsMailbox'
      /\ \A q \in Process : in_call'[q].alone => in_call'[q].at = "none" \/ q = p
  BY <1>1, <1>3, <1>4, StillAlone
<1>6. MessengerShape'
  BY <1>1, <1>3 DEF MessengerInv, MessengerShape, history
<1>7. AloneSoFar'
  <2>1. in_call[p].alone =>
          /\ chardev_buffer_rw_holder = Shorter(in_call[p].length, BufferBytes)
          /\ \A i \in 1 .. chardev_buffer_rw_holder : device_memory_buffer[i] = in_call[p].letter
    BY <1>1 DEF MessengerInv, AloneSoFar
  <2>2. QED
    BY <1>1, <1>4, <1>5, <2>1 DEF AloneSoFar
<1>8. TooLongIsUncut'
  BY <1>1, <1>3, <1>4 DEF MessengerInv, TooLongIsUncut
<1>9. MailboxWhenAlone'
  BY <1>1 DEF history, MessengerInv, MailboxWhenAlone
<1>10. QED
  BY <1>5, <1>6, <1>7, <1>8, <1>9 DEF MessengerInv

LEMMA WriteDoneStep ==
  ASSUME MessengerInv, NEW p \in Process, WriteDone(p)
  PROVE  MessengerInv'
<1> DEFINE left == [i \in 1 .. Shorter(in_call[p].length, BufferBytes) |-> in_call[p].letter]
<1>1. /\ in_call[p].at = "store" /\ Leaves(p, left)
      /\ total_messages_count' = in_call[p].count
      /\ UNCHANGED <<chardev_buffer_rw_holder, device_memory_buffer, answer>>
  BY DEF WriteDone
<1>2. /\ in_call[p].letter \in Letters /\ in_call[p].length \in Nat /\ in_call[p].count \in Int
      /\ BufferBytes \in Nat /\ chardev_buffer_rw_holder \in Nat
  BY MessengerAssumption DEF MessengerInv, MessengerShape, Calls
<1>3. Shorter(in_call[p].length, BufferBytes) \in Nat
  BY <1>2, ShorterIsNat
<1>4. left \in Seq(Letters) /\ Len(left) = Shorter(in_call[p].length, BufferBytes)
  BY <1>2, <1>3
<1>5. left \in Seq(Letters \cup {"mixed"})
  BY <1>2, <1>3
<1>6. in_call[p].alone =>
        /\ chardev_buffer_rw_holder = Shorter(in_call[p].length, BufferBytes)
        /\ \A i \in 1 .. chardev_buffer_rw_holder : device_memory_buffer[i] = in_call[p].letter
  BY <1>1 DEF MessengerInv, AloneSoFar
<1>7. in_call[p].alone => \A i \in 1 .. chardev_buffer_rw_holder : left[i] = in_call[p].letter
  BY <1>6
<1> HIDE DEF left
<1>8. /\ in_call' \in [Process -> Calls]
      /\ AloneIsAlone' /\ AloneSoFar' /\ TooLongIsUncut'
      /\ mailbox' = IF in_call[p].alone THEN left ELSE Mixed
  BY <1>1, <1>2, LeaveAlone
<1>9. MessengerShape'
  <2>1. mailbox' \in Seq(Letters \cup {"mixed"})
    BY <1>5, <1>8, MixedIsSeq
  <2>2. QED
    BY <1>1, <1>2, <1>8, <2>1 DEF MessengerInv, MessengerShape
<1>10. IdleHoldsMailbox'
  <2> SUFFICES ASSUME mailbox' # Mixed PROVE HoldsMailbox'
    BY DEF IdleHoldsMailbox, Mixed
  <2>1. in_call[p].alone /\ mailbox' = left
    BY <1>8
  <2>2. chardev_buffer_rw_holder <= BufferBytes
    BY <1>2, <1>6, <2>1, ShorterIsNat
  <2>3. QED
    BY <1>1, <1>4, <1>6, <1>7, <2>1, <2>2 DEF HoldsMailbox
<1>11. MailboxWhenAlone'
  BY <1>1 DEF MessengerInv, MailboxWhenAlone
<1>12. QED
  BY <1>8, <1>9, <1>10, <1>11 DEF MessengerInv

(* A call that is done with the mailbox empty.                             *)
LEMMA EmptiedStep ==
  ASSUME MessengerInv, NEW p \in Process, ReadDone(p) \/ ClearDone(p)
  PROVE  MessengerInv'
<1>1. /\ in_call[p].at \in {"empty", "wipe"} /\ Leaves(p, << >>)
      /\ UNCHANGED <<total_messages_count, answer>>
  BY DEF ReadDone, ClearDone
<1>2. chardev_buffer_rw_holder \in Nat /\ BufferBytes \in Nat
  BY MessengerAssumption DEF MessengerInv, MessengerShape
<1>3. /\ chardev_buffer_rw_holder' \in {0, chardev_buffer_rw_holder}
      /\ in_call[p].alone => chardev_buffer_rw_holder' = 0
      /\ device_memory_buffer' \in [1 .. BufferBytes -> Letters] \cup {<< >>}
  <2>1. CASE ReadDone(p)
    BY <2>1 DEF ReadDone, Emptied, MessengerInv, MessengerShape
  <2>2. CASE ClearDone(p)
    BY <2>2 DEF ClearDone, MessengerInv, MessengerShape, AloneSoFar, Letters
  <2>3. QED
    BY <2>1, <2>2
<1>4. chardev_buffer_rw_holder' \in Nat /\ chardev_buffer_rw_holder' <= chardev_buffer_rw_holder
  BY <1>2, <1>3
<1>5. /\ in_call' \in [Process -> Calls]
      /\ AloneIsAlone' /\ AloneSoFar' /\ TooLongIsUncut'
      /\ mailbox' = IF in_call[p].alone THEN << >> ELSE Mixed
  BY <1>1, <1>4, LeaveAlone
<1>6. MessengerShape'
  <2>1. mailbox' \in Seq(Letters \cup {"mixed"})
    BY <1>5, MixedIsSeq
  <2>2. QED
    BY <1>1, <1>3, <1>4, <1>5, <2>1 DEF MessengerInv, MessengerShape
<1>7. IdleHoldsMailbox'
  <2>1. mailbox' # Mixed => chardev_buffer_rw_holder' = 0 /\ Len(mailbox') = 0 /\ 0 <= BufferBytes
    BY <1>2, <1>3, <1>5
  <2>2. QED
    BY <2>1 DEF IdleHoldsMailbox, HoldsMailbox, Mixed
<1>8. MailboxWhenAlone'
  BY <1>1 DEF MessengerInv, MailboxWhenAlone
<1>9. QED
  BY <1>5, <1>6, <1>7, <1>8 DEF MessengerInv

LEMMA ReadCopyStep ==
  ASSUME MessengerInv, NEW p \in Process, ReadCopy(p)
  PROVE  MessengerInv'
<1> DEFINE n == in_call[p].length
           got == [i \in 1 .. n |-> IF i <= BufferBytes THEN device_memory_buffer[i] ELSE Nul]
           wanted == SubSeq(mailbox, 1, Shorter(in_call[p].asked, Len(mailbox)))
<1>1. /\ in_call[p].at = "give"
      /\ UNCHANGED <<chardev_buffer_rw_holder, device_memory_buffer, total_messages_count>>
      /\ \/ /\ answer' = IF in_call[p].alone /\ mailbox # Mixed
                          THEN [got |-> got, wanted |-> wanted] ELSE answer
            /\ Goes(p, "empty") /\ UNCHANGED mailbox
         \/ Leaves(p, mailbox) /\ UNCHANGED answer
  BY DEF ReadCopy, status
<1>2. /\ chardev_buffer_rw_holder \in Nat /\ BufferBytes \in Nat /\ n \in Nat
      /\ in_call[p].asked \in Nat /\ mailbox \in Seq(Letters \cup {"mixed"})
  BY MessengerAssumption DEF MessengerInv, MessengerShape, Calls
<1>3. ASSUME in_call[p].alone, mailbox # Mixed
      PROVE  HoldsMailbox /\ n = Shorter(in_call[p].asked, chardev_buffer_rw_holder)
  BY <1>1, <1>3 DEF MessengerInv, AloneSoFar
<1>4. ASSUME in_call[p].alone, mailbox # Mixed
      PROVE  got = wanted
  <2>1. /\ n <= chardev_buffer_rw_holder /\ chardev_buffer_rw_holder <= BufferBytes
        /\ Len(mailbox) = chardev_buffer_rw_holder
        /\ \A i \in 1 .. chardev_buffer_rw_holder : device_memory_buffer[i] = mailbox[i]
        /\ Shorter(in_call[p].asked, Len(mailbox)) = n
    BY <1>2, <1>3, <1>4, ShorterIsNat DEF HoldsMailbox
  <2>2. wanted = [i \in 1 .. n |-> mailbox[i]]
    BY <1>2, <2>1
  <2>3. \A i \in 1 .. n : i <= BufferBytes /\ device_memory_buffer[i] = mailbox[i]
    BY <1>2, <2>1
  <2> HIDE DEF n
  <2>4. QED
    BY <2>2, <2>3
<1> HIDE DEF n, got, wanted
<1>5. CASE /\ answer' = IF in_call[p].alone /\ mailbox # Mixed
                        THEN [got |-> got, wanted |-> wanted] ELSE answer
           /\ Goes(p, "empty") /\ UNCHANGED mailbox
  <2>1. "empty" \in Steps
    BY DEF Steps
  <2>2. /\ in_call' \in [Process -> Calls]
        /\ AloneIsAlone' /\ IdleHoldsMailbox'
        /\ in_call'[p].at = "empty"
        /\ in_call'[p].alone = in_call[p].alone
        /\ \A q \in Process \ {p} : in_call'[q] = in_call[q]
        /\ \A q \in Process : in_call'[q].alone => in_call'[q].at = "none" \/ q = p
    BY <1>1, <1>5, <2>1, GoAlone
  <2>3. MessengerShape'
    BY <1>1, <1>5, <2>2 DEF MessengerInv, MessengerShape
  <2>4. AloneSoFar'
    BY <2>2 DEF AloneSoFar
  <2>5. TooLongIsUncut'
    BY <1>1, <2>2 DEF MessengerInv, TooLongIsUncut
  <2>6. MailboxWhenAlone'
    BY <1>4, <1>5 DEF MessengerInv, MailboxWhenAlone
  <2>7. QED
    BY <2>2, <2>3, <2>4, <2>5, <2>6 DEF MessengerInv
<1>6. CASE Leaves(p, mailbox) /\ UNCHANGED answer
  <2>1. /\ in_call' \in [Process -> Calls]
        /\ AloneIsAlone' /\ AloneSoFar' /\ TooLongIsUncut'
        /\ mailbox' = IF in_call[p].alone THEN mailbox ELSE Mixed
    BY <1>1, <1>2, <1>6, LeaveAlone
  <2>2. MessengerShape'
    BY <1>1, <2>1, MixedIsSeq DEF MessengerInv, MessengerShape
  <2>3. IdleHoldsMailbox'
    <3> SUFFICES ASSUME mailbox' # Mixed PROVE HoldsMailbox'
      BY DEF IdleHoldsMailbox, Mixed
    <3>1. in_call[p].alone /\ mailbox' = mailbox /\ mailbox # Mixed
      BY <2>1
    <3>2. QED
      BY <1>1, <1>3, <3>1 DEF HoldsMailbox
  <2>4. MailboxWhenAlone'
    BY <1>6 DEF MessengerInv, MailboxWhenAlone
  <2>5. QED
    BY <2>1, <2>2, <2>3, <2>4 DEF MessengerInv
<1>7. QED
  BY <1>1, <1>5, <1>6

(* A call that dies on the missing buffer.                                 *)
LEMMA NullBufferStep ==
  ASSUME MessengerInv, NEW p \in Process, NullBuffer(p)
  PROVE  MessengerInv'
<1>1. /\ in_call[p].at \in {"copy", "give", "wipe"} /\ Leaves(p, Mixed)
      /\ UNCHANGED <<chardev_buffer_rw_holder, device_memory_buffer, status, answer>>
  BY DEF NullBuffer
<1>2. chardev_buffer_rw_holder \in Nat
  BY DEF MessengerInv, MessengerShape
<1>3. /\ in_call' \in [Process -> Calls]
      /\ AloneIsAlone' /\ AloneSoFar' /\ mailbox' = Mixed /\ TooLongIsUncut'
  BY <1>1, <1>2, LeaveAlone
<1>4. MessengerShape'
  BY <1>1, <1>3, MixedIsSeq DEF MessengerInv, MessengerShape, status
<1>5. IdleHoldsMailbox'
  BY <1>3 DEF IdleHoldsMailbox, Mixed
<1>6. MailboxWhenAlone'
  BY <1>1 DEF MessengerInv, MailboxWhenAlone
<1>7. QED
  BY <1>3, <1>4, <1>5, <1>6 DEF MessengerInv

LEMMA ModuleStep ==
  ASSUME MessengerInv, AbsentIsEmpty, LoadDevice \/ LoadStatus \/ Unload
  PROVE  MessengerInv'
<1>1. UNCHANGED <<in_call, answer>>
  BY DEF LoadDevice, LoadStatus, Unload, history
<1>2. /\ chardev_buffer_rw_holder' \in {0, chardev_buffer_rw_holder}
      /\ total_messages_count' \in {0, total_messages_count}
  BY DEF LoadDevice, LoadStatus, Unload, status
<1>3. /\ \/ UNCHANGED <<chardev_buffer_rw_holder, mailbox>>
         \/ /\ \A p \in Process : in_call[p].at = "none"
            /\ chardev_buffer_rw_holder' = 0 /\ mailbox' = << >>
      /\ \/ UNCHANGED device_memory_buffer
         \/ chardev_buffer_rw_holder' = 0 /\ \A p \in Process : in_call[p].at = "none"
  BY DEF AbsentIsEmpty, LoadDevice, LoadStatus, Unload, history
<1>4. MessengerShape'
  <2>1. chardev_buffer_rw_holder' \in Nat /\ total_messages_count' \in Int
    BY <1>2 DEF MessengerInv, MessengerShape
  <2>2. mailbox' \in Seq(Letters \cup {"mixed"})
    BY <1>3, MixedIsSeq DEF MessengerInv, MessengerShape
  <2>3. device_memory_buffer' \in [1 .. BufferBytes -> Letters] \cup {<< >>}
    <3>1. \/ device_memory_buffer' \in {device_memory_buffer, << >>}
          \/ \E c \in {Nul, "x"} : device_memory_buffer' = [i \in 1 .. BufferBytes |-> c]
      BY DEF LoadDevice, LoadStatus, Unload
    <3>2. Nul \in Letters /\ "x" \in Letters
      BY DEF Letters
    <3>3. QED
      BY <3>1, <3>2 DEF MessengerInv, MessengerShape
  <2>4. QED
    BY <1>1, <2>1, <2>2, <2>3 DEF MessengerInv, MessengerShape
<1>5. AloneIsAlone' /\ MailboxWhenAlone'
  BY <1>1 DEF MessengerInv, AloneIsAlone, MailboxWhenAlone
<1>6. CASE UNCHANGED <<chardev_buffer_rw_holder, mailbox, device_memory_buffer>>
  BY <1>1, <1>4, <1>5, <1>6
     DEF MessengerInv, IdleHoldsMailbox, HoldsMailbox, AloneSoFar, TooLongIsUncut
<1>7. CASE chardev_buffer_rw_holder' = 0 /\ \A p \in Process : in_call[p].at = "none"
  <2>1. BufferBytes \in Nat
    BY MessengerAssumption
  <2>2. mailbox' # Mixed => Len(mailbox') = 0
    BY <1>3, <1>7 DEF MessengerInv, IdleHoldsMailbox, HoldsMailbox
  <2>3. IdleHoldsMailbox'
    BY <1>7, <2>1, <2>2 DEF IdleHoldsMailbox, HoldsMailbox
  <2>4. AloneSoFar' /\ TooLongIsUncut'
    BY <1>1, <1>7, <2>1 DEF AloneSoFar, TooLongIsUncut
  <2>5. QED
    BY <1>4, <1>5, <2>3, <2>4 DEF MessengerInv
<1>8. QED
  BY <1>3, <1>6, <1>7

LEMMA AbsentStep ==
  ASSUME AbsentIsEmpty, MessengerNext
  PROVE  AbsentIsEmpty'
<1>1. CASE LoadDevice \/ LoadStatus \/ Unload
  BY <1>1 DEF LoadDevice, LoadStatus, Unload, AbsentIsEmpty
<1>2. ASSUME NEW p \in Process,
             \/ \E letter \in {"a", "b"}, length \in Lengths : Write(p, letter, length)
             \/ \E length \in Lengths : Read(p, length)
             \/ Clear(p)
      PROVE  AbsentIsEmpty'
  BY <1>2 DEF Write, Read, Clear, Enter, device, AbsentIsEmpty
<1>3. ASSUME NEW p \in Process,
             \/ WriteCut(p) \/ WriteCopy(p) \/ WriteCount(p) \/ WriteDone(p)
             \/ ReadLimit(p) \/ ReadCopy(p) \/ ReadDone(p) \/ ClearDone(p)
      PROVE  AbsentIsEmpty'
  BY <1>3 DEF WriteCut, WriteCopy, WriteCount, WriteDone, ReadLimit, ReadCopy, ReadDone,
     ClearDone, device, AbsentIsEmpty
<1>4. ASSUME NEW p \in Process, NullBuffer(p)
      PROVE  AbsentIsEmpty'
  BY <1>4 DEF NullBuffer, AbsentIsEmpty
<1>5. QED
  BY <1>1, <1>2, <1>3, <1>4 DEF MessengerNext

LEMMA MessengerStep ==
  MessengerInv /\ AbsentIsEmpty /\ [MessengerNext]_messengerVars =>
    MessengerInv' /\ AbsentIsEmpty'
<1> SUFFICES ASSUME MessengerInv, AbsentIsEmpty, [MessengerNext]_messengerVars
             PROVE  MessengerInv' /\ AbsentIsEmpty'
  OBVIOUS
<1>1. CASE UNCHANGED messengerVars
  BY <1>1 DEF messengerVars, MessengerInv, MessengerShape, AloneIsAlone, IdleHoldsMailbox,
     HoldsMailbox, AloneSoFar, TooLongIsUncut, MailboxWhenAlone, AbsentIsEmpty
<1>2. CASE MessengerNext
  <2>1. ASSUME NEW p \in Process,
               \/ \E letter \in {"a", "b"}, length \in Lengths : Write(p, letter, length)
               \/ WriteCut(p) \/ WriteCopy(p) \/ WriteCount(p) \/ WriteDone(p)
        PROVE  MessengerInv'
    BY <2>1, WriteStep, WriteCutStep, WriteCopyStep, WriteCountStep, WriteDoneStep
  <2>2. ASSUME NEW p \in Process,
               \/ \E length \in Lengths : Read(p, length)
               \/ NullBuffer(p) \/ ReadLimit(p) \/ ReadCopy(p) \/ ReadDone(p)
               \/ Clear(p) \/ ClearDone(p)
        PROVE  MessengerInv'
    BY <2>2, ReadStep, NullBufferStep, ReadLimitStep, ReadCopyStep, ClearStep, EmptiedStep
  <2>3. QED
    BY <1>2, <2>1, <2>2, ModuleStep, AbsentStep DEF MessengerNext
<1>3. QED
  BY <1>1, <1>2

LEMMA MessengerAlways == MessengerSpec => [](MessengerInv /\ AbsentIsEmpty)
<1>1. MessengerInit => AbsentIsEmpty
  BY DEF MessengerInit, AbsentIsEmpty, Out, Doing
<1>2. QED
  BY <1>1, MessengerInitInv, MessengerStep, PTL DEF MessengerSpec

(* Without a lock, and with failures anywhere: a read that meets no other  *)
(* call gets what a mailbox would hold after the last call that met none,  *)
(* for any number of processes, any size of the buffer and any lengths.    *)
THEOREM MessengerIsMailbox == MessengerSpec => []MailboxWhenAlone
<1>1. MessengerInv => MailboxWhenAlone
  BY DEF MessengerInv
<1>2. QED
  BY <1>1, MessengerAlways, PTL

(* And whatever calls meet, the buffer is left only because of a length    *)
(* another write has published and not yet cut.                            *)
THEOREM OnlyUncutLengthLeavesBuffer == MessengerSpec => []LeavesBufferOnlyByUncutLength
<1>1. MessengerInv => LeavesBufferOnlyByUncutLength
  BY DEF MessengerInv, TooLongIsUncut, LeavesBufferOnlyByUncutLength
<1>2. QED
  BY <1>1, MessengerAlways, PTL

(***************************************************************************)
(* The currency converter.                                                 *)
(***************************************************************************)

LEMMA NatDivision ==
  ASSUME NEW a \in Nat, NEW b \in Nat \ {0}
  PROVE  /\ a \div b \in Nat
         /\ b * (a \div b) <= a /\ a < b * ((a \div b) + 1)
OBVIOUS

LEMMA RoundsToZero ==
  ASSUME NEW a \in Int, NEW b \in Int, b # 0
  PROVE  /\ Quotient(a, b) \in Int
         /\ Abs(Quotient(a, b) * b) <= Abs(a)
         /\ Abs(a) < (Abs(Quotient(a, b)) + 1) * Abs(b)
         /\ Quotient(a, b) # 0 => (Quotient(a, b) * b < 0) = (a < 0)
<1> DEFINE q == Abs(a) \div Abs(b)
<1>1. Abs(a) \in Nat /\ Abs(b) \in Nat \ {0}
  BY DEF Abs
<1>2. q \in Nat /\ Abs(b) * q <= Abs(a) /\ Abs(a) < Abs(b) * (q + 1)
  BY <1>1, NatDivision
<1>3. Quotient(a, b) = IF (a < 0) = (b < 0) THEN q ELSE -q
  BY DEF Quotient
<1> HIDE DEF q
<1>4. Quotient(a, b) \in Int /\ Abs(Quotient(a, b)) = q
  BY <1>2, <1>3 DEF Abs
<1>5. Abs(a) < (Abs(Quotient(a, b)) + 1) * Abs(b)
  BY <1>1, <1>2, <1>4
<1>6. /\ Abs(b) * q \in Nat
      /\ q # 0 => Abs(b) * q > 0
      /\ Quotient(a, b) * b = IF a < 0 THEN -(Abs(b) * q) ELSE Abs(b) * q
  BY <1>2, <1>3 DEF Abs
<1>7. Abs(Quotient(a, b) * b) = Abs(b) * q
  BY <1>6 DEF Abs
<1>8. Abs(Quotient(a, b) * b) <= Abs(a)
  BY <1>2, <1>7
<1>9. Quotient(a, b) # 0 => (Quotient(a, b) * b < 0) = (a < 0)
  BY <1>2, <1>3, <1>6
<1>10. QED
  BY <1>4, <1>5, <1>8, <1>9

CallSteps == {"copy", "convert", "remember", "store"}

CallsTyped == calls \in [Process -> {NoCall} \cup [at : CallSteps, number : Int]]

CurrencyShape ==
  /\ conversion_factor \in Int /\ last_converted_value_request \in Int
  /\ CallsTyped

(* Where the module is loaded far enough for calls, and for results.       *)
CallsMeanLoaded ==
  /\ \A p \in Process :
       /\ calls[p].at # "none" => currency # "absent"
       /\ calls[p].at = "copy" =>
            currency \in {"file", "factor", "change", "result", "loaded", "unloading", "oops"}
       /\ calls[p].at \in {"convert", "remember"} =>
            currency \in {"loaded", "unloading", "oops"}
       /\ calls[p].at = "store" => currency \in {"change", "result", "loaded", "oops"}
  /\ currency_buffer.is = "result" => currency \in {"result", "loaded", "unloading", "oops"}
  /\ currency # "absent" => currency_buffer.is # "none"

IsConversionOf(number) ==
  conversion_factor # 0 /\ currency_buffer = Conversion(number, conversion_factor)

(* A call that has the module for itself leaves the conversion of its      *)
(* number; of two that are going on one has begun beside the other.        *)
CallsOverlap ==
  \A p, q \in Process : calls[p].at # "none" /\ calls[q].at # "none" => p = q \/ overlapped

AloneConverts ==
  currency # "oops" /\ ~overlapped /\ currency_buffer.is = "result" =>
    /\ (\A p \in Process : calls[p].at = "none") => IsConversionOf(last_converted_value_request)
    /\ \A p \in Process : calls[p].at = "remember" => IsConversionOf(calls[p].number)

CurrencyInv == CurrencyShape /\ CallsMeanLoaded /\ CallsOverlap /\ AloneConverts

LEMMA BufferKinds ==
  /\ None.is = "none" /\ Raw.is = "raw"
  /\ \A number, factor : Conversion(number, factor).is = "result"
  /\ NoCall.at = "none" /\ NoCall.number = 0
BY DEF None, Raw, Conversion, NoCall

LEMMA CurrencyInitInv == CurrencyInit => CurrencyInv
<1> SUFFICES ASSUME CurrencyInit PROVE CurrencyInv
  OBVIOUS
<1>1. currency_buffer.is = "none" /\ \A p \in Process : calls[p].at = "none"
  BY BufferKinds DEF CurrencyInit
<1>2. CurrencyShape
  BY DEF CurrencyInit, CurrencyShape, CallsTyped
<1>3. CallsMeanLoaded /\ CallsOverlap /\ AloneConverts
  BY <1>1 DEF CurrencyInit, CallsMeanLoaded, CallsOverlap, AloneConverts
<1>4. QED
  BY <1>2, <1>3 DEF CurrencyInv

LEMMA CurrencyLoads ==
  ASSUME CurrencyInv,
         LoadBuffer \/ LoadProcEntry \/ LoadFactorFile \/ LoadCallback \/ UnloadFactorFile
           \/ UnloadProcFile
  PROVE  CurrencyInv'
<1> USE CurrencyAssumption, BufferKinds DEF CurrencyInv, CurrencyShape, CallsTyped, CallsMeanLoaded
<1>1. UNCHANGED <<calls, overlapped>>
  BY DEF LoadBuffer, LoadProcEntry, LoadFactorFile, LoadCallback, UnloadFactorFile,
     UnloadProcFile
<1>2. CallsOverlap'
  BY <1>1 DEF CallsOverlap
<1>3. ASSUME NEW p \in Process PROVE calls[p].at \in CallSteps \cup {"none"}
  <2>1. calls[p] \in {NoCall} \cup [at : CallSteps, number : Int]
    OBVIOUS
  <2>2. QED
    BY <2>1
<1>4. CASE LoadBuffer
  BY <1>1, <1>2, <1>4 DEF LoadBuffer, AloneConverts
<1>5. CASE LoadProcEntry
  BY <1>1, <1>2, <1>5 DEF LoadProcEntry, values, AloneConverts
<1>6. CASE LoadFactorFile
  <2>1. CASE currency' \in {"factor", "oops"} /\ UNCHANGED currency_buffer
    BY <1>1, <1>2, <1>6, <2>1 DEF LoadFactorFile, AloneConverts
  <2>2. CASE ~Writing /\ currency' = "absent" /\ currency_buffer' = None
    <3>1. \A p \in Process : calls[p].at = "none"
      BY <1>3, <1>6, <2>2 DEF LoadFactorFile, Writing, CallSteps
    <3>2. QED
      BY <1>1, <1>2, <1>6, <2>2, <3>1 DEF LoadFactorFile, AloneConverts
  <2>3. QED
    BY <1>6, <2>1, <2>2 DEF LoadFactorFile
<1>7. CASE LoadCallback
  <2>1. /\ UNCHANGED values
        /\ \/ currency = "factor" /\ currency' = "change"
           \/ currency = "change" /\ currency' = "result"
           \/ currency = "result" /\ currency' = "loaded"
    BY <1>7 DEF LoadCallback
  <2>2. AloneConverts'
    BY <1>1, <2>1 DEF values, AloneConverts, IsConversionOf
  <2>3. CurrencyShape' /\ CallsMeanLoaded'
    BY <1>1, <2>1 DEF values
  <2>4. QED
    BY <1>2, <2>2, <2>3
<1>8. CASE UnloadFactorFile
  <2>1. \A p \in Process : calls[p].at # "store"
    BY <1>8 DEF UnloadFactorFile, Storing
  <2>2. AloneConverts'
    BY <1>1, <1>8 DEF UnloadFactorFile, values, AloneConverts, IsConversionOf
  <2>3. QED
    BY <1>1, <1>2, <1>8, <2>1, <2>2 DEF UnloadFactorFile, values
<1>9. CASE UnloadProcFile
  <2>1. \A p \in Process : calls[p].at = "none"
    BY <1>3, <1>9 DEF UnloadProcFile, Writing, CallSteps
  <2>2. QED
    BY <1>1, <1>2, <1>9, <2>1 DEF UnloadProcFile, AloneConverts
<1>10. QED
  BY <1>4, <1>5, <1>6, <1>7, <1>8, <1>9

(* A call begins: by itself, or beside another.                            *)
LEMMA BeginningOverlaps ==
  ASSUME CurrencyShape, CallsOverlap, NEW p \in Process, NEW step \in CallSteps, Begins(p, step)
  PROVE  /\ CallsTyped' /\ CallsOverlap'
         /\ calls'[p].at = step
         /\ \A q \in Process \ {p} : calls'[q] = calls[q]
<1> USE BufferKinds DEF CurrencyShape, CallsTyped
<1>1. calls' \in [Process -> {NoCall} \cup [at : CallSteps, number : Int]]
  BY DEF Begins, NoCall
<1>2. calls'[p].at = step /\ \A q \in Process \ {p} : calls'[q] = calls[q]
  BY DEF Begins, NoCall
<1>3. ASSUME NEW q \in Process \ {p}, calls[q].at # "none" PROVE overlapped'
  <2>1. \E r \in Process \ {p} : calls[r] # NoCall
    BY <1>3
  <2>2. overlapped' = \E r \in Process \ {p} : calls[r] # NoCall
    BY DEF Begins
  <2>3. QED
    BY <2>1, <2>2, Zenon
<1>4. ASSUME NEW q \in Process, NEW r \in Process, calls'[q].at # "none", calls'[r].at # "none",
             q # r
      PROVE  overlapped'
  <2>1. CASE q = p
    BY <1>2, <1>3, <1>4, <2>1
  <2>2. CASE r = p
    BY <1>2, <1>3, <1>4, <2>2
  <2>3. CASE q # p /\ r # p
    BY <1>2, <1>3, <1>4, <2>3
  <2>4. QED
    BY <2>1, <2>2, <2>3
<1>5. CallsOverlap'
  BY <1>4 DEF CallsOverlap
<1>6. QED
  BY <1>1, <1>2, <1>5

(* A call that goes on, or ends: the others are where they were.           *)
LEMMA GoingOnOverlapsNot ==
  ASSUME CurrencyShape, CallsOverlap, NEW p \in Process,
         NEW c \in {NoCall} \cup [at : CallSteps, number : Int],
         calls' = [calls EXCEPT ![p] = c], calls[p].at # "none", UNCHANGED overlapped
  PROVE  /\ CallsTyped' /\ CallsOverlap'
         /\ calls'[p] = c
         /\ \A q \in Process \ {p} : calls'[q] = calls[q]
<1> USE DEF CurrencyShape, CallsTyped
<1>1. /\ calls' \in [Process -> {NoCall} \cup [at : CallSteps, number : Int]]
      /\ calls'[p] = c
      /\ \A q \in Process \ {p} : calls'[q] = calls[q]
  OBVIOUS
<1>2. CallsOverlap'
  BY <1>1 DEF CallsOverlap
<1>3. QED
  BY <1>1, <1>2

(* While a call has the module for itself, the others are at rest.         *)
LEMMA OthersRest ==
  ASSUME CallsOverlap, ~overlapped, NEW p \in Process, calls[p].at # "none"
  PROVE  \A q \in Process \ {p} : calls[q].at = "none"
BY DEF CallsOverlap

LEMMA WriteCalls ==
  ASSUME CurrencyInv, NEW p \in Process,
         WriteNumber(p) \/ WriteArrives(p) \/ WriteConverts(p) \/ WriteRemembers(p)
  PROVE  CurrencyInv'
<1> USE CurrencyAssumption, BufferKinds DEF CurrencyInv
<1>1. CASE WriteNumber(p)
  <2>1. "copy" \in CallSteps /\ Begins(p, "copy")
    BY <1>1 DEF WriteNumber, CallSteps
  <2>2. /\ CallsTyped' /\ CallsOverlap'
        /\ calls'[p].at = "copy"
        /\ \A q \in Process \ {p} : calls'[q] = calls[q]
    BY <2>1, BeginningOverlaps
  <2>3. CurrencyShape' /\ CallsMeanLoaded'
    BY <1>1, <2>2 DEF WriteNumber, CurrencyShape, CallsTyped, CallsMeanLoaded
  <2>4. AloneConverts'
    BY <1>1 DEF WriteNumber, AloneConverts
  <2>5. QED
    BY <2>2, <2>3, <2>4
<1>2. CASE WriteArrives(p)
  <2>1. PICK c \in {NoCall} \cup [at : CallSteps, number : Int] :
          /\ calls' = [calls EXCEPT ![p] = c]
          /\ c.at = "convert" => currency \in {"loaded", "unloading"}
          /\ c.at \in {"none", "convert"}
    <3>1. CASE currency \in {"loaded", "unloading"}
      <4>1. PICK number \in Numbers \cup {0} :
              calls' = [calls EXCEPT ![p] = [at |-> "convert", number |-> number]]
        BY <1>2, <3>1 DEF WriteArrives
      <4> DEFINE d == [at |-> "convert", number |-> number]
      <4>2. d \in [at : CallSteps, number : Int] /\ d.at = "convert"
        BY DEF CallSteps
      <4>3. calls' = [calls EXCEPT ![p] = d]
        BY <4>1
      <4> HIDE DEF d
      <4>4. QED
        BY <3>1, <4>2, <4>3
    <3>2. CASE currency \notin {"loaded", "unloading"}
      BY <1>2, <3>2 DEF WriteArrives
    <3>3. QED
      BY <3>1, <3>2
  <2>2. calls[p].at # "none" /\ UNCHANGED overlapped
    BY <1>2 DEF WriteArrives
  <2>3. /\ CallsTyped' /\ CallsOverlap'
        /\ calls'[p] = c
        /\ \A q \in Process \ {p} : calls'[q] = calls[q]
    BY <2>1, <2>2, GoingOnOverlapsNot
  <2>4. CurrencyShape' /\ CallsMeanLoaded'
    BY <1>2, <2>1, <2>3 DEF WriteArrives, CurrencyShape, CallsTyped, CallsMeanLoaded
  <2>5. AloneConverts'
    BY <1>2 DEF WriteArrives, AloneConverts
  <2>6. QED
    BY <2>3, <2>4, <2>5
<1>3. CASE WriteConverts(p)
  <2> DEFINE c == [at |-> "remember", number |-> calls[p].number]
  <2>1. /\ calls[p] \in [at : CallSteps, number : Int]
        /\ calls[p].at = "convert" /\ UNCHANGED overlapped
    BY <1>3 DEF WriteConverts, CurrencyShape, CallsTyped
  <2>2. [calls[p] EXCEPT !.at = "remember"] = c
    BY <2>1
  <2>3. calls' = [calls EXCEPT ![p] = [calls[p] EXCEPT !.at = "remember"]]
    BY <1>3 DEF WriteConverts
  <2>4. /\ c \in {NoCall} \cup [at : CallSteps, number : Int]
        /\ calls' = [calls EXCEPT ![p] = c]
        /\ calls[p].at = "convert" /\ UNCHANGED overlapped
    BY <2>1, <2>2, <2>3 DEF CallSteps
  <2>5. c.at = "remember" /\ c.number = calls[p].number
    OBVIOUS
  <2> HIDE DEF c
  <2>6. /\ CallsTyped' /\ CallsOverlap'
        /\ calls'[p] = c
        /\ \A q \in Process \ {p} : calls'[q] = calls[q]
    BY <2>4, GoingOnOverlapsNot
  <2>7. currency \in {"loaded", "unloading"}
    BY <1>3, <2>4 DEF WriteConverts, Convert, CallsMeanLoaded
  <2>8. CurrencyShape' /\ CallsMeanLoaded'
    BY <1>3, <2>5, <2>6, <2>7 DEF WriteConverts, Convert, CurrencyShape, CallsTyped, CallsMeanLoaded
  <2>9. AloneConverts'
    <3> SUFFICES ASSUME currency' # "oops", ~overlapped'
                 PROVE  /\ ~ \A q \in Process : calls'[q].at = "none"
                        /\ \A q \in Process :
                             calls'[q].at = "remember" => IsConversionOf(calls[q].number)'
      BY DEF AloneConverts
    <3>1. \A q \in Process \ {p} : calls[q].at = "none"
      BY <2>4, OthersRest
    <3>2. /\ conversion_factor # 0 /\ UNCHANGED conversion_factor
          /\ currency_buffer' = Conversion(calls[p].number, conversion_factor)
      BY <1>3, <2>7 DEF WriteConverts, Convert
    <3>3. IsConversionOf(calls[p].number)'
      BY <2>5, <2>6, <3>2 DEF IsConversionOf
    <3>4. QED
      BY <2>5, <2>6, <3>1, <3>3
  <2>10. QED
    BY <2>6, <2>8, <2>9
<1>4. CASE WriteRemembers(p)
  <2>1. /\ NoCall \in {NoCall} \cup [at : CallSteps, number : Int]
        /\ calls' = [calls EXCEPT ![p] = NoCall]
        /\ calls[p].at = "remember" /\ UNCHANGED overlapped
    BY <1>4 DEF WriteRemembers
  <2>2. /\ CallsTyped' /\ CallsOverlap'
        /\ calls'[p] = NoCall
        /\ \A q \in Process \ {p} : calls'[q] = calls[q]
    BY <2>1, GoingOnOverlapsNot
  <2>3. /\ last_converted_value_request' = calls[p].number /\ calls[p].number \in Int
        /\ UNCHANGED <<currency, currency_buffer, conversion_factor>>
    BY <1>4 DEF WriteRemembers, Remembered, CurrencyShape, CallsTyped
  <2>4. CurrencyShape' /\ CallsMeanLoaded'
    BY <2>2, <2>3 DEF CurrencyShape, CallsTyped, CallsMeanLoaded
  <2>5. AloneConverts'
    <3> SUFFICES ASSUME currency' # "oops", ~overlapped', currency_buffer'.is = "result"
                 PROVE  /\ IsConversionOf(last_converted_value_request)'
                        /\ \A q \in Process : calls'[q].at # "remember"
      BY DEF AloneConverts
    <3>1. \A q \in Process \ {p} : calls[q].at = "none"
      BY <2>1, OthersRest
    <3>2. IsConversionOf(calls[p].number)
      BY <2>1, <2>3 DEF AloneConverts
    <3>3. QED
      BY <2>2, <2>3, <3>1, <3>2 DEF IsConversionOf
  <2>6. QED
    BY <2>2, <2>4, <2>5
<1>5. QED
  BY <1>1, <1>2, <1>3, <1>4

LEMMA StoreCalls ==
  ASSUME CurrencyInv, NEW p \in Process, StoreFactor(p) \/ StoreConverts(p)
  PROVE  CurrencyInv'
<1> USE CurrencyAssumption, BufferKinds DEF CurrencyInv
<1>1. CASE StoreFactor(p)
  <2>1. "store" \in CallSteps /\ Begins(p, "store")
    BY <1>1 DEF StoreFactor, CallSteps
  <2>2. /\ CallsTyped' /\ CallsOverlap'
        /\ calls'[p].at = "store"
        /\ \A q \in Process \ {p} : calls'[q] = calls[q]
    BY <2>1, BeginningOverlaps
  <2>3. CurrencyShape' /\ CallsMeanLoaded'
    BY <1>1, <2>2 DEF StoreFactor, CurrencyShape, CallsTyped, CallsMeanLoaded
  <2>4. AloneConverts'
    <3> SUFFICES ASSUME ~overlapped'
                 PROVE  /\ ~ \A q \in Process : calls'[q].at = "none"
                        /\ \A q \in Process : calls'[q].at # "remember"
      BY DEF AloneConverts
    <3>1. \A q \in Process : calls'[q].at # "none" => q = p
      BY <2>2 DEF CallsOverlap
    <3>2. QED
      BY <2>2, <3>1
  <2>5. QED
    BY <2>2, <2>3, <2>4
<1>2. CASE StoreConverts(p)
  <2>1. /\ NoCall \in {NoCall} \cup [at : CallSteps, number : Int]
        /\ calls' = [calls EXCEPT ![p] = NoCall]
        /\ calls[p].at = "store" /\ UNCHANGED overlapped
    BY <1>2 DEF StoreConverts
  <2>2. /\ CallsTyped' /\ CallsOverlap'
        /\ calls'[p] = NoCall
        /\ \A q \in Process \ {p} : calls'[q] = calls[q]
    BY <2>1, GoingOnOverlapsNot
  <2>3. CurrencyShape' /\ CallsMeanLoaded'
    BY <1>2, <2>2 DEF StoreConverts, Convert, CurrencyShape, CallsTyped, CallsMeanLoaded
  <2>4. AloneConverts'
    <3> SUFFICES ASSUME currency' # "oops", ~overlapped', currency_buffer'.is = "result"
                 PROVE  /\ IsConversionOf(last_converted_value_request)'
                        /\ \A q \in Process : calls'[q].at # "remember"
      BY DEF AloneConverts
    <3>1. \A q \in Process \ {p} : calls[q].at = "none"
      BY <2>1, OthersRest
    <3>2. /\ conversion_factor # 0
          /\ UNCHANGED <<currency, conversion_factor, last_converted_value_request>>
      BY <1>2 DEF StoreConverts, Convert
    <3>3. currency \in {"result", "loaded", "unloading"}
      BY <2>3, <3>2 DEF CallsMeanLoaded
    <3>4. currency_buffer' = Conversion(last_converted_value_request, conversion_factor)
      BY <1>2, <3>2, <3>3 DEF StoreConverts, Convert
    <3>5. QED
      BY <2>2, <3>1, <3>2, <3>4 DEF IsConversionOf
  <2>5. QED
    BY <2>2, <2>3, <2>4
<1>3. QED
  BY <1>1, <1>2

LEMMA CurrencyStep == CurrencyInv /\ [CurrencyNext]_currencyVars => CurrencyInv'
<1> SUFFICES ASSUME CurrencyInv, [CurrencyNext]_currencyVars PROVE CurrencyInv'
  OBVIOUS
<1>1. CASE UNCHANGED currencyVars
  BY <1>1 DEF currencyVars, CurrencyInv, CurrencyShape, CallsTyped, CallsMeanLoaded, CallsOverlap,
     AloneConverts, IsConversionOf
<1>2. CASE CurrencyNext
  BY <1>2, CurrencyLoads, WriteCalls, StoreCalls DEF CurrencyNext
<1>3. QED
  BY <1>1, <1>2

(* When no call is under way and the last ones did not overlap, what is in *)
(* the file is the quotient of the last number and the factor, rounded to  *)
(* zero: for any processes, numbers, factors and signs; and no call meets  *)
(* the buffer given back.                                                  *)
THEOREM ResultFollowsFactor == CurrencySpec => []ResultIsCurrent
<1>1. ASSUME CurrencyInv
      PROVE  ResultIsCurrent
  <2>1. Writing \/ Storing => currency_buffer # None
    BY <1>1, BufferKinds DEF CurrencyInv, CallsMeanLoaded, Writing, Storing
  <2>2. \A p \in Process : calls[p].at \in CallSteps \cup {"none"}
    BY <1>1, BufferKinds DEF CurrencyInv, CurrencyShape, CallsTyped
  <2> SUFFICES ASSUME currency # "oops", ~Writing, ~Storing, ~overlapped,
                      currency_buffer.is = "result"
               PROVE  LET shown == currency_buffer.full * Hundredths + currency_buffer.remainder
                          wanted == last_converted_value_request * Hundredths
                      IN /\ Abs(shown * conversion_factor) <= Abs(wanted)
                         /\ Abs(wanted) < (Abs(shown) + 1) * Abs(conversion_factor)
                         /\ shown # 0 => (shown * conversion_factor < 0) = (wanted < 0)
    BY <2>1 DEF ResultIsCurrent
  <2>3. ASSUME NEW p \in Process PROVE calls[p].at = "none"
    <3>1. calls[p].at \notin {"copy", "convert", "remember"} /\ calls[p].at # "store"
      BY DEF Writing, Storing
    <3>2. QED
      BY <2>2, <3>1 DEF CallSteps
  <2>4. IsConversionOf(last_converted_value_request)
    BY <1>1, <2>3 DEF CurrencyInv, AloneConverts
  <2> DEFINE wanted == last_converted_value_request * Hundredths
             hundredths == Quotient(wanted, conversion_factor)
             full == Quotient(hundredths, Hundredths)
  <2>5. /\ wanted \in Int /\ conversion_factor \in Int /\ conversion_factor # 0
        /\ Hundredths \in Int /\ Hundredths # 0
    BY <1>1, <2>4, CurrencyAssumption DEF CurrencyInv, CurrencyShape, IsConversionOf
  <2>6. currency_buffer = Conversion(last_converted_value_request, conversion_factor)
    BY <2>4 DEF IsConversionOf
  <2>7. hundredths \in Int /\ full \in Int
    BY <2>5, RoundsToZero
  <2>8. currency_buffer.full = full /\ currency_buffer.remainder = hundredths - Hundredths * full
    BY <2>6 DEF Conversion, Remainder
  <2> HIDE DEF full
  <2>9. currency_buffer.full * Hundredths + currency_buffer.remainder = hundredths
    BY <2>5, <2>7, <2>8
  <2>10. QED
    BY <2>5, <2>9, RoundsToZero
<1>2. QED
  BY <1>1, CurrencyInitInv, CurrencyStep, PTL DEF CurrencySpec

(***************************************************************************)
(* The time tracker.                                                       *)
(***************************************************************************)

(* Remainders.                                                             *)
LEMMA ModSmall ==
  ASSUME NEW a \in Nat, NEW s \in Nat, a < s
  PROVE  a % s = a
OBVIOUS

LEMMA RestOf ==
  ASSUME NEW a \in Int, NEW s \in Nat \ {0}
  PROVE  \E q \in Int : \E r \in 0 .. (s - 1) : a = (s * q) + r /\ r = a % s
<1>1. (a % s) \in 0 .. (s - 1) /\ (a \div s) \in Int /\ a = (s * (a \div s)) + (a % s)
  OBVIOUS
<1>2. QED
  BY <1>1

LEMMA SumOfMultiples ==
  ASSUME NEW s \in Int, NEW x \in Int, NEW y \in Int, NEW z \in Int
  PROVE  /\ s * ((x + y) - z) = ((s * x) + (s * y)) - (s * z)
         /\ s * x \in Int /\ s * y \in Int /\ s * z \in Int
OBVIOUS

LEMMA NoSmallMultiple ==
  ASSUME NEW s \in Nat \ {0}, NEW m \in Int, s * m < s, s * m > -s
  PROVE  m = 0
<1>1. (m >= 1 => s * m >= s) /\ (m <= -1 => s * m <= -s)
  OBVIOUS
<1>2. QED
  BY <1>1

(* A stamp of limited width is as good as the time it was taken at, for a  *)
(* difference of the same width.                                           *)
LEMMA ModOfDifference ==
  ASSUME NEW a \in Int, NEW b \in Int, NEW s \in Nat \ {0}
  PROVE  (a - (b % s)) % s = (a - b) % s
<1>1. PICK q \in Int, r \in 0 .. (s - 1) : b = (s * q) + r /\ r = b % s
  BY RestOf
<1>2. PICK q2 \in Int, r2 \in 0..(s-1) : a - r = (s * q2) + r2 /\ r2 = (a - r) % s
  <2>1. a - r \in Int
    OBVIOUS
  <2>2. QED
    BY <2>1, RestOf
<1>3. PICK q3 \in Int, r3 \in 0..(s-1) : a - b = (s * q3) + r3 /\ r3 = (a - b) % s
  <2>1. a - b \in Int
    OBVIOUS
  <2>2. QED
    BY <2>1, RestOf
<1> DEFINE A == s * q3  B == s * q  C == s * q2
<1>4. /\ A \in Int /\ B \in Int /\ C \in Int
      /\ s * ((q3 + q) - q2) = (A + B) - C
  BY SumOfMultiples
<1>5. b = B + r /\ a - r = C + r2 /\ a - b = A + r3
  BY <1>1, <1>2, <1>3
<1> HIDE DEF A, B, C
<1>6. r2 - r3 = (A + B) - C
  BY <1>4, <1>5
<1>7. (q3 + q) - q2 = 0
  <2>1. r2 - r3 < s /\ r2 - r3 > -s
    OBVIOUS
  <2>2. QED
    BY <1>4, <1>6, <2>1, NoSmallMultiple
<1>8. s * ((q3 + q) - q2) = 0
  BY <1>7
<1>9. r2 = r3
  BY <1>4, <1>6, <1>8
<1>10. QED
  BY <1>1, <1>2, <1>3, <1>9

Texts == {Nothing} \cup [mode : {"time", "full_time_display", "passed_seconds"}, value : Int]
Modes == {"none", "full_time_display", "passed_seconds"}
Visits == [file : {"none", Absolute, LastUsed}, asked : Nat, ended : BOOLEAN, whole : BOOLEAN,
           taken : Nat, text : Texts, elapsed : Int, mode : Modes]
(* The fields of visits.                                                   *)
LEMMA SpoiltFields ==
  ASSUME NEW v \in Visits
  PROVE  /\ Spoilt(v) \in Visits /\ Spoilt(v).file = v.file /\ ~Spoilt(v).whole
         /\ Spoilt(v).asked = v.asked
<1>1. v.file \in {"none", Absolute, LastUsed} /\ v.asked \in Nat /\ v.ended \in BOOLEAN
  BY DEF Visits
<1>2. QED
  BY <1>1 DEF Spoilt, Visit, Visits, Texts, Modes

(* A call that leaves a visit whole was its first one, or went on in the   *)
(* same text.                                                              *)
Continues(w, v, n, text, from, elapsed) ==
  /\ v.whole /\ w.taken = v.taken + n /\ w.ended = (n = 0)
  /\ \/ /\ v.taken = 0 /\ from = 0
        /\ w.text = text /\ w.elapsed = elapsed /\ w.mode = current_displaying_mode
     \/ /\ v.taken = from /\ from # 0
        /\ n = 0 \/ v.text = text
        /\ w.text = v.text /\ w.elapsed = v.elapsed /\ w.mode = v.mode

LEMMA VisitedFields ==
  ASSUME NEW v \in Visits, NEW n \in Nat, NEW text \in Texts, NEW from \in Nat, NEW elapsed \in Int,
         current_displaying_mode \in Modes
  PROVE  LET w == Visited(v, n, text, from, elapsed)
         IN /\ w \in Visits
            /\ w.file = v.file /\ w.asked = v.asked
            /\ w.whole => Continues(w, v, n, text, from, elapsed)
<1> DEFINE first == v.whole /\ v.taken = 0 /\ from = 0
           next == v.whole /\ v.taken = from /\ from # 0 /\ (n = 0 \/ v.text = text)
           w == Visited(v, n, text, from, elapsed)
<1>1. /\ v.file \in {"none", Absolute, LastUsed} /\ v.asked \in Nat /\ v.taken + n \in Nat
      /\ v.text \in Texts /\ v.elapsed \in Int /\ v.mode \in Modes
  BY DEF Visits
<1>2. PICK ended \in BOOLEAN : ended = (n = 0)
  OBVIOUS
<1>3. CASE first \/ next
  <2>1. w = [file |-> v.file, asked |-> v.asked, ended |-> ended, whole |-> TRUE,
             taken |-> v.taken + n, text |-> IF first THEN text ELSE v.text,
             elapsed |-> IF first THEN elapsed ELSE v.elapsed,
             mode |-> IF first THEN current_displaying_mode ELSE v.mode]
    BY <1>2, <1>3 DEF Visited
  <2> HIDE DEF w, first, next
  <2>2. /\ w \in Visits /\ w.file = v.file /\ w.asked = v.asked /\ w.whole
        /\ w.taken = v.taken + n /\ w.ended = ended
    BY <1>1, <2>1 DEF Visits
  <2>3. CASE first
    <3>1. w.text = text /\ w.elapsed = elapsed /\ w.mode = current_displaying_mode
      BY <2>1, <2>3
    <3>2. QED
      BY <1>2, <2>2, <2>3, <3>1 DEF first, w, Continues
  <2>4. CASE ~first
    <3>1. w.text = v.text /\ w.elapsed = v.elapsed /\ w.mode = v.mode
      BY <2>1, <2>4
    <3>2. next
      BY <1>3, <2>4
    <3>3. QED
      BY <1>2, <2>2, <3>1, <3>2 DEF next, w, Continues
  <2>5. QED
    BY <2>3, <2>4
<1>4. CASE ~(first \/ next)
  <2>1. w = Visit(v.file, v.asked, ended, FALSE)
    BY <1>2, <1>4 DEF Visited
  <2>2. w \in Visits /\ w.file = v.file /\ w.asked = v.asked /\ ~w.whole
    BY <1>1, <2>1 DEF Visit, Visits, Texts, Modes
  <2>3. QED
    BY <2>2
<1>5. QED
  BY <1>3, <1>4

TrackShape ==
  /\ jiffies \in Nat /\ used_at \in Nat /\ timestamp_measure_begin \in Nat
  /\ current_displaying_mode \in {"full_time_display", "passed_seconds"}
  /\ proc_buffer \in [{Absolute, LastUsed} -> Texts]
  /\ read_pos \in [{Absolute, LastUsed} -> Nat]
  /\ visit \in [Process -> Visits]
  /\ \A p \in Process : visit[p].file # "none" => visit[p].asked > 0

(* The stamp is that of the last call that began a text, there is no text  *)
(* before the callback for it, and one that is not used up has been begun. *)
Stamped ==
  /\ tracker \notin {"absent", "files"} => timestamp_measure_begin = used_at % Jiffies
  /\ tracker \notin {"use", "loaded"} => proc_buffer[LastUsed] = Nothing
  /\ ~ready_read => read_pos[LastUsed] > 0

Told(v) ==
  LET seconds == (v.elapsed % Jiffies) \div HZ
  IN /\ v.text.mode = v.mode
     /\ v.text.value = IF v.mode = "passed_seconds" THEN seconds ELSE seconds % Day

(* A visit that is whole has got nothing or the first characters of the    *)
(* text that is still there.                                               *)
WholeIsTold ==
  \A p \in Process :
    LET v == visit[p] IN
    v.file = LastUsed /\ v.whole =>
      /\ v.taken = 0 => v.text = Nothing
      /\ v.taken > 0 =>
           /\ Told(v) /\ proc_buffer[LastUsed] = v.text
           /\ v.taken <= TextLength(v.text)
           /\ v.ended => v.taken = TextLength(v.text)

TrackerInv == TrackShape /\ Stamped /\ WholeIsTold

(* What a call gives.                                                      *)
Count(p, text, from) == Shorter(visit[p].asked, (TextLength(text) - from) % SizeT)

LEMMA CountFacts ==
  ASSUME TrackShape, NEW p \in Process, visit[p].file # "none", NEW text, NEW from \in Nat
  PROVE  /\ Count(p, text, from) \in Nat
         /\ from <= TextLength(text) =>
              /\ from + Count(p, text, from) <= TextLength(text)
              /\ Count(p, text, from) = 0 => from = TextLength(text)
<1>1. TextLength(text) \in 0 .. 2
  BY DEF TextLength
<1>2. visit[p].asked \in Nat /\ visit[p].asked > 0
  BY DEF TrackShape, Visits
<1>3. SizeT \in Nat /\ SizeT > 4
  BY TimeTrackAssumption DEF FarAway
<1> DEFINE left == (TextLength(text) - from) % SizeT
<1>4. left \in Nat
  BY <1>1, <1>3
<1>5. ASSUME from <= TextLength(text)
      PROVE  left = TextLength(text) - from
  BY <1>1, <1>3, <1>5, ModSmall
<1> HIDE DEF left
<1>6. Count(p, text, from) \in {visit[p].asked, left} /\ Count(p, text, from) <= left
  BY <1>2, <1>4 DEF Count, Shorter, left
<1>7. QED
  BY <1>1, <1>2, <1>4, <1>5, <1>6

LEMMA GivenFacts ==
  ASSUME TrackShape, NEW p \in Process, NEW f \in {Absolute, LastUsed}, visit[p].file = f,
         NEW text \in Texts, NEW from \in Nat, NEW elapsed \in Int,
         Given(p, f, text, from, elapsed)
  PROVE  /\ visit' \in [Process -> Visits]
         /\ \A q \in Process : visit'[q].file = visit[q].file /\ visit'[q].asked = visit[q].asked
         /\ \A q \in Process \ {p} : visit'[q].whole => visit'[q].file = "none"
         /\ visit'[p].whole =>
              Continues(visit'[p], visit[p], Count(p, text, from), text, from, elapsed)
         /\ read_pos' \in [{Absolute, LastUsed} -> Nat]
         /\ IF f = LastUsed
            THEN /\ read_pos'[LastUsed] = from + Count(p, text, from)
                 /\ ~ready_read' => Count(p, text, from) # 0
            ELSE read_pos'[LastUsed] = read_pos[LastUsed] /\ ready_read' = ready_read
         /\ used_at' = IF UseIsCounted /\ (f = Absolute \/ from = 0) THEN jiffies ELSE used_at
<1> DEFINE n == Count(p, text, from)
           w == Visited(visit[p], n, text, from, elapsed)
<1>1. n \in Nat
  BY CountFacts DEF Absolute, LastUsed
<1>2. /\ read_pos' = [read_pos EXCEPT ![f] = IF n = 0 /\ f = Absolute THEN 0 ELSE from + n]
      /\ ready_read' = IF f = LastUsed THEN n = 0 ELSE ready_read
      /\ visit' = [q \in Process |->
           IF q = p THEN w
           ELSE IF visit[q].file = "none" THEN visit[q] ELSE Spoilt(visit[q])]
  BY DEF Given, Count
<1> HIDE DEF n
<1>3. visit[p] \in Visits /\ current_displaying_mode \in Modes
  BY DEF TrackShape, Modes
<1>4. /\ w \in Visits /\ w.file = visit[p].file /\ w.asked = visit[p].asked
      /\ w.whole => Continues(w, visit[p], n, text, from, elapsed)
  BY <1>1, <1>3, VisitedFields
<1> HIDE DEF w
<1>5. visit'[p] = w
  BY <1>2
<1>6. \A q \in Process \ {p} :
        /\ visit'[q] \in Visits /\ visit'[q].file = visit[q].file /\ visit'[q].asked = visit[q].asked
        /\ visit'[q].whole => visit'[q].file = "none"
  <2> SUFFICES ASSUME NEW q \in Process \ {p}
               PROVE  /\ visit'[q] \in Visits /\ visit'[q].file = visit[q].file
                      /\ visit'[q].asked = visit[q].asked
                      /\ visit'[q].whole => visit'[q].file = "none"
    OBVIOUS
  <2>1. visit[q] \in Visits
    BY DEF TrackShape
  <2>2. visit'[q] = IF visit[q].file = "none" THEN visit[q] ELSE Spoilt(visit[q])
    BY <1>2
  <2>3. QED
    BY <2>1, <2>2, SpoiltFields
<1>7. visit' \in [Process -> Visits]
  BY <1>2, <1>4, <1>5, <1>6
<1>8. /\ read_pos' \in [{Absolute, LastUsed} -> Nat]
      /\ f = LastUsed => read_pos'[LastUsed] = from + n
      /\ f # LastUsed => read_pos'[LastUsed] = read_pos[LastUsed]
  BY <1>1, <1>2 DEF TrackShape, Absolute, LastUsed
<1>9. /\ f = LastUsed => (~ready_read' => n # 0)
      /\ f # LastUsed => ready_read' = ready_read
  BY <1>2, Zenon
<1>10. used_at' = IF UseIsCounted /\ (f = Absolute \/ from = 0) THEN jiffies ELSE used_at
  BY DEF Given
<1>11. IF f = LastUsed
       THEN read_pos'[LastUsed] = from + n /\ (~ready_read' => n # 0)
       ELSE read_pos'[LastUsed] = read_pos[LastUsed] /\ ready_read' = ready_read
  BY <1>8, <1>9, Zenon
<1>12. QED
  BY <1>4, <1>5, <1>6, <1>7, <1>8, <1>10, <1>11, Zenon DEF n

LEMMA TrackerInitInv == TrackerInit => TrackerInv
<1> SUFFICES ASSUME TrackerInit PROVE TrackerInv
  OBVIOUS
<1>1. NoVisit \in Visits /\ NoVisit.file = "none"
  BY DEF NoVisit, Visit, Visits, Texts, Modes
<1>2. \A p \in Process : visit[p] = NoVisit
  <2>1. visit = [p \in Process |-> NoVisit]
    BY Zenon DEF TrackerInit
  <2>2. QED
    BY <2>1
<1>3. TrackShape
  BY <1>1, <1>2 DEF TrackerInit, TrackShape, Texts
<1>4. Stamped /\ WholeIsTold
  BY <1>1, <1>2 DEF TrackerInit, Stamped, WholeIsTold, LastUsed
<1>5. QED
  BY <1>3, <1>4 DEF TrackerInv

(* Steps that read no file.                                                *)
LEMMA TrackerQuiet ==
  ASSUME TrackerInv, LoadFiles \/ LoadTimer \/ SetCallback \/ UnloadTracker \/ Tick \/ ModeStore
  PROVE  TrackerInv'
<1> USE DEF TrackerInv
<1>1. CASE LoadFiles
  BY <1>1 DEF LoadFiles, clock, TrackShape, Stamped, WholeIsTold
<1>2. CASE LoadTimer
  <2>1. jiffies % Jiffies \in Nat
    BY TimeTrackAssumption DEF TrackShape
  <2>2. TrackShape'
    BY <1>2, <2>1 DEF LoadTimer, TrackShape
  <2>3. Stamped' /\ WholeIsTold'
    BY <1>2 DEF LoadTimer, Stamped, WholeIsTold
  <2>4. QED
    BY <2>2, <2>3
<1>3. CASE SetCallback
  <2>1. /\ tracker \in {"timer", "mode", "use"} /\ tracker' \in {"mode", "use", "loaded"}
        /\ tracker = "use" => tracker' = "loaded"
    BY <1>3 DEF SetCallback
  <2>2. UNCHANGED <<clock, current_displaying_mode, proc_buffer, read_pos, ready_read, visit>>
    BY <1>3 DEF SetCallback
  <2>3. QED
    BY <2>1, <2>2 DEF clock, TrackShape, Stamped, WholeIsTold
<1>4. CASE UnloadTracker
  <2>1. NoVisit \in Visits /\ NoVisit.file = "none"
    BY DEF NoVisit, Visit, Visits, Texts, Modes
  <2>2. \A p \in Process : visit'[p] = NoVisit
    BY <1>4 DEF UnloadTracker
  <2>3. TrackShape'
    BY <1>4, <2>1, <2>2 DEF UnloadTracker, TrackShape, Texts
  <2>4. Stamped' /\ WholeIsTold'
    BY <1>4, <2>1, <2>2 DEF UnloadTracker, Stamped, WholeIsTold, LastUsed
  <2>5. QED
    BY <2>3, <2>4
<1>5. CASE Tick
  BY <1>5 DEF Tick, TrackShape, Stamped, WholeIsTold
<1>6. CASE ModeStore
  <2>1. /\ current_displaying_mode' \in {"full_time_display", "passed_seconds"}
        /\ UNCHANGED <<tracker, clock, proc_buffer, read_pos, ready_read, visit>>
    BY <1>6 DEF ModeStore, TrackShape
  <2>2. QED
    BY <2>1 DEF clock, TrackShape, Stamped, WholeIsTold
<1>7. QED
  BY <1>1, <1>2, <1>3, <1>4, <1>5, <1>6

LEMMA OpenStep ==
  ASSUME TrackerInv, NEW p \in Process, CloseFile(p) \/
         \E f \in {Absolute, LastUsed}, asked \in AskedOfTracker : OpenFile(p, f, asked)
  PROVE  TrackerInv'
<1> USE DEF TrackerInv
<1> DEFINE New == {v \in Visits : /\ v.file # "none" => v.asked > 0
                                 /\ v.taken = 0 /\ v.text = Nothing}
<1>1. /\ UNCHANGED <<tracker, clock, current_displaying_mode, proc_buffer, read_pos, ready_read>>
      /\ \E v \in New : visit' = [visit EXCEPT ![p] = v]
  <2>1. CASE CloseFile(p)
    <3>1. NoVisit \in Visits /\ NoVisit.file = "none" /\ NoVisit.taken = 0 /\ NoVisit.text = Nothing
      BY DEF NoVisit, Visit, Visits, Texts, Modes
    <3>2. QED
      BY <2>1, <3>1 DEF CloseFile
  <2>2. ASSUME NEW f \in {Absolute, LastUsed}, NEW asked \in AskedOfTracker, OpenFile(p, f, asked)
        PROVE  /\ UNCHANGED <<tracker, clock, current_displaying_mode, proc_buffer, read_pos, ready_read>>
              /\ \E v \in New : visit' = [visit EXCEPT ![p] = v]
    <3>1. asked \in Nat /\ asked > 0
      BY TimeTrackAssumption
    <3>2. FALSE \in BOOLEAN /\ TRUE \in BOOLEAN
      OBVIOUS
    <3>3. LET v == Visit(f, asked, FALSE, TRUE)
          IN v \in Visits /\ v.asked > 0 /\ v.taken = 0 /\ v.text = Nothing
      BY <3>1, <3>2 DEF Visit, Visits, Texts, Modes
    <3>4. QED
      BY <2>2, <3>3 DEF OpenFile
  <2>3. QED
    BY <2>1, <2>2
<1>2. PICK v \in New : visit' = [visit EXCEPT ![p] = v]
  BY <1>1
<1>3. visit'[p] = v /\ \A q \in Process \ {p} : visit'[q] = visit[q]
  BY <1>2 DEF TrackShape
<1>4. TrackShape'
  BY <1>1, <1>2, <1>3 DEF TrackShape, clock
<1>5. Stamped'
  BY <1>1 DEF Stamped, clock
<1>6. WholeIsTold'
  BY <1>1, <1>2, <1>3 DEF WholeIsTold
<1>7. QED
  BY <1>4, <1>5, <1>6

LEMMA TextsAreTexts ==
  ASSUME TrackerInv
  PROVE  /\ NewTime \in Texts /\ NewUse \in Texts
         /\ SecondsSinceUse \in Int
<1>1. /\ jiffies \in Nat /\ timestamp_measure_begin \in Nat /\ HZ \in Nat \ {0} /\ Day \in Nat \ {0}
      /\ Jiffies \in Nat \ {0}
  BY TimeTrackAssumption DEF TrackerInv, TrackShape
<1>2. (jiffies - timestamp_measure_begin) % Jiffies \in Nat
  BY <1>1
<1>3. SecondsSinceUse \in Nat
  BY <1>1, <1>2 DEF SecondsSinceUse
<1>4. SecondsSinceUse % Day \in Nat
  BY <1>1, <1>3
<1>5. UseText \in Texts
  BY <1>3, <1>4 DEF UseText, Texts, TrackerInv, TrackShape
<1>6. (jiffies \div HZ) % Day \in Nat
  BY <1>1
<1>7. TimeText \in Texts
  BY <1>6 DEF TimeText, Texts
<1>8. QED
  BY <1>3, <1>5, <1>7 DEF NewTime, NewUse, TrackerInv, TrackShape, Absolute, LastUsed

(* A text that is written tells the time since the last one was begun.     *)
LEMMA UseTextTells ==
  ASSUME TrackerInv, tracker \in {"use", "loaded"}
  PROVE  /\ UseText.mode = current_displaying_mode
         /\ LET seconds == ((jiffies - used_at) % Jiffies) \div HZ
            IN UseText.value = IF current_displaying_mode = "passed_seconds" THEN seconds
                               ELSE seconds % Day
<1>1. timestamp_measure_begin = used_at % Jiffies
  BY DEF TrackerInv, Stamped
<1>2. (jiffies - (used_at % Jiffies)) % Jiffies = (jiffies - used_at) % Jiffies
  <2>1. jiffies \in Int /\ used_at \in Int /\ Jiffies \in Nat \ {0}
    BY TimeTrackAssumption DEF TrackerInv, TrackShape
  <2>2. QED
    BY <2>1, ModOfDifference
<1>3. SecondsSinceUse = ((jiffies - used_at) % Jiffies) \div HZ
  BY <1>1, <1>2 DEF SecondsSinceUse
<1>4. QED
  BY <1>3 DEF UseText

LEMMA UsedFacts ==
  ASSUME TrackerInv, EntryUsed, UNCHANGED <<tracker, jiffies>>,
         used_at' = IF UseIsCounted THEN jiffies ELSE used_at
  PROVE  /\ used_at' \in Nat /\ timestamp_measure_begin' \in Nat
         /\ tracker \notin {"absent", "files"} => timestamp_measure_begin' = used_at' % Jiffies
<1>1. jiffies % Jiffies \in Nat
  BY TimeTrackAssumption DEF TrackerInv, TrackShape
<1>2. QED
  BY <1>1 DEF EntryUsed, UseIsCounted, Stamp, TrackerInv, TrackShape, Stamped

LEMMA ReadAbsoluteStep ==
  ASSUME TrackerInv, NEW p \in Process, ReadAbsolute(p)
  PROVE  TrackerInv'
<1>1. /\ visit[p].file = Absolute
      /\ proc_buffer' = [proc_buffer EXCEPT ![Absolute] = NewTime, ![LastUsed] = NewUse]
      /\ Given(p, Absolute, proc_buffer'[Absolute], read_pos[Absolute], jiffies - used_at)
      /\ EntryUsed
      /\ UNCHANGED <<tracker, jiffies, current_displaying_mode>>
  BY DEF ReadAbsolute
<1>2. /\ proc_buffer' \in [{Absolute, LastUsed} -> Texts]
      /\ proc_buffer'[Absolute] = NewTime /\ proc_buffer'[LastUsed] = NewUse
      /\ NewTime \in Texts
  BY <1>1, TextsAreTexts DEF TrackerInv, TrackShape, Absolute, LastUsed
<1>3. read_pos[Absolute] \in Nat /\ jiffies - used_at \in Int
  BY DEF TrackerInv, TrackShape
<1>4. /\ visit' \in [Process -> Visits]
      /\ \A q \in Process : visit'[q].file = visit[q].file /\ visit'[q].asked = visit[q].asked
      /\ \A q \in Process \ {p} : visit'[q].whole => visit'[q].file = "none"
      /\ read_pos' \in [{Absolute, LastUsed} -> Nat]
      /\ read_pos'[LastUsed] = read_pos[LastUsed] /\ ready_read' = ready_read
      /\ used_at' = IF UseIsCounted THEN jiffies ELSE used_at
  <2>1. Absolute \in {Absolute, LastUsed} /\ Absolute # LastUsed
    BY DEF Absolute, LastUsed
  <2>2. QED
    BY <1>1, <1>2, <1>3, <2>1, GivenFacts DEF TrackerInv
<1>5. /\ used_at' \in Nat /\ timestamp_measure_begin' \in Nat
      /\ tracker \notin {"absent", "files"} => timestamp_measure_begin' = used_at' % Jiffies
  BY <1>1, <1>4, UsedFacts
<1>6. TrackShape'
  BY <1>1, <1>2, <1>4, <1>5 DEF TrackerInv, TrackShape
<1>7. Stamped'
  BY <1>1, <1>2, <1>4, <1>5 DEF TrackerInv, Stamped, NewUse
<1>8. WholeIsTold'
  <2>1. \A q \in Process : visit'[q].whole => visit'[q].file # LastUsed
    BY <1>1, <1>4 DEF Absolute, LastUsed
  <2>2. QED
    BY <2>1 DEF WholeIsTold
<1>9. QED
  BY <1>6, <1>7, <1>8 DEF TrackerInv

LEMMA NoCharacters ==
  /\ Nothing \in Texts /\ TextLength(Nothing) = 0
  /\ \A text \in Texts : TextLength(text) = 0 => text = Nothing
  /\ \A text : TextLength(text) \in Nat
BY DEF Texts, Nothing, TextLength

(* A call for a text that has been used up writes it anew.                 *)
LEMMA ReadAnewStep ==
  ASSUME TrackerInv, NEW p \in Process, ReadLastUsed(p), ready_read
  PROVE  TrackerInv'
<1>1. /\ visit[p].file = LastUsed
      /\ proc_buffer' = [proc_buffer EXCEPT ![LastUsed] = NewUse]
      /\ Given(p, LastUsed, proc_buffer'[LastUsed], 0, jiffies - used_at)
      /\ EntryUsed
      /\ UNCHANGED <<tracker, jiffies, current_displaying_mode>>
  BY DEF ReadLastUsed
<1>2. /\ proc_buffer' \in [{Absolute, LastUsed} -> Texts]
      /\ proc_buffer'[LastUsed] = NewUse /\ NewUse \in Texts
  BY <1>1, TextsAreTexts DEF TrackerInv, TrackShape, Absolute, LastUsed
<1>3. 0 \in Nat /\ jiffies - used_at \in Int
  BY DEF TrackerInv, TrackShape
<1> DEFINE n == Count(p, NewUse, 0)
<1>4. /\ visit' \in [Process -> Visits]
      /\ \A q \in Process : visit'[q].file = visit[q].file /\ visit'[q].asked = visit[q].asked
      /\ \A q \in Process \ {p} : visit'[q].whole => visit'[q].file = "none"
      /\ visit'[p].whole => Continues(visit'[p], visit[p], n, NewUse, 0, jiffies - used_at)
      /\ read_pos' \in [{Absolute, LastUsed} -> Nat]
      /\ read_pos'[LastUsed] = n
      /\ ~ready_read' => n # 0
      /\ used_at' = IF UseIsCounted THEN jiffies ELSE used_at
      /\ n \in Nat /\ n <= TextLength(NewUse)
      /\ n = 0 => TextLength(NewUse) = 0
  <2>1. visit[p].file # "none" /\ LastUsed \in {Absolute, LastUsed}
    BY <1>1 DEF LastUsed
  <2>2. n \in Nat /\ n <= TextLength(NewUse) /\ (n = 0 => TextLength(NewUse) = 0)
    BY <2>1, CountFacts, NoCharacters DEF TrackerInv
  <2>3. PICK from \in Nat : from = 0
    OBVIOUS
  <2>4. Given(p, LastUsed, NewUse, from, jiffies - used_at) /\ n = Count(p, NewUse, from)
    BY <1>1, <1>2, <2>3
  <2> HIDE DEF n
  <2>5. /\ visit' \in [Process -> Visits]
        /\ \A q \in Process : visit'[q].file = visit[q].file /\ visit'[q].asked = visit[q].asked
        /\ \A q \in Process \ {p} : visit'[q].whole => visit'[q].file = "none"
        /\ visit'[p].whole => Continues(visit'[p], visit[p], n, NewUse, from, jiffies - used_at)
        /\ read_pos' \in [{Absolute, LastUsed} -> Nat]
        /\ read_pos'[LastUsed] = from + n
        /\ ~ready_read' => n # 0
        /\ used_at' = IF UseIsCounted /\ (LastUsed = Absolute \/ from = 0) THEN jiffies ELSE used_at
    <3>1. TrackShape /\ visit[p].file = LastUsed /\ NewUse \in Texts /\ jiffies - used_at \in Int
      BY <1>1, <1>2, <1>3 DEF TrackerInv
    <3>2. QED
      BY <2>1, <2>3, <2>4, <3>1, GivenFacts
  <2>6. QED
    BY <2>2, <2>3, <2>5
<1> HIDE DEF n
<1>5. /\ used_at' \in Nat /\ timestamp_measure_begin' \in Nat
      /\ tracker \notin {"absent", "files"} => timestamp_measure_begin' = used_at' % Jiffies
  BY <1>1, <1>4, UsedFacts
<1>6. TrackShape'
  BY <1>1, <1>2, <1>4, <1>5 DEF TrackerInv, TrackShape
<1>7. Stamped'
  BY <1>1, <1>2, <1>4, <1>5 DEF TrackerInv, Stamped, NewUse
<1>8. WholeIsTold'
  <2>1. \A q \in Process \ {p} : visit'[q].whole => visit'[q].file # LastUsed
    BY <1>4 DEF LastUsed
  <2>2. ASSUME visit'[p].whole
        PROVE  /\ visit'[p].taken = n /\ visit'[p].text = NewUse
               /\ visit'[p].elapsed = jiffies - used_at /\ visit'[p].mode = current_displaying_mode
               /\ visit'[p].ended => n = 0
    <3>1. Continues(visit'[p], visit[p], n, NewUse, 0, jiffies - used_at)
      BY <1>4, <2>2
    <3>2. visit[p].taken = 0 /\ visit'[p].taken = visit[p].taken + n
      BY <3>1 DEF Continues
    <3>3. visit'[p].taken = n
      BY <1>4, <3>2
    <3>4. QED
      BY <3>1, <3>3, Zenon DEF Continues
  <2>3. n = 0 => NewUse = Nothing
    BY <1>2, <1>4, NoCharacters
  <2>4. ASSUME visit'[p].whole, n > 0
        PROVE  Told(visit'[p])
    <3>1. tracker \in {"use", "loaded"}
      BY <1>4, <2>4, NoCharacters DEF NewUse, TrackerInv, Stamped
    <3>2. NewUse = UseText
      BY <3>1 DEF NewUse
    <3>3. QED
      BY <2>2, <2>4, <3>1, <3>2, UseTextTells DEF Told
  <2>5. ASSUME visit'[p].whole
        PROVE  /\ visit'[p].taken = 0 => visit'[p].text = Nothing
               /\ visit'[p].taken > 0 =>
                    /\ Told(visit'[p]) /\ proc_buffer'[LastUsed] = visit'[p].text
                    /\ visit'[p].taken <= TextLength(visit'[p].text)
                    /\ ~visit'[p].ended
    BY <1>2, <1>4, <2>2, <2>3, <2>4, <2>5
  <2>6. QED
    BY <2>1, <2>5 DEF WholeIsTold, Told
<1>9. QED
  BY <1>6, <1>7, <1>8 DEF TrackerInv

(* A call that goes on in the text that is there.                          *)
LEMMA ReadOnStep ==
  ASSUME TrackerInv, NEW p \in Process, ReadLastUsed(p), ~ready_read
  PROVE  TrackerInv'
<1> DEFINE from == read_pos[LastUsed]
           text == proc_buffer[LastUsed]
<1>1. /\ visit[p].file = LastUsed
      /\ Given(p, LastUsed, text, from, jiffies - used_at)
      /\ UNCHANGED <<proc_buffer, timestamp_measure_begin>>
      /\ UNCHANGED <<tracker, jiffies, current_displaying_mode>>
  BY DEF ReadLastUsed
<1>2. /\ from \in Nat /\ from > 0 /\ text \in Texts /\ jiffies - used_at \in Int
  BY DEF TrackerInv, TrackShape, Stamped
<1> DEFINE n == Count(p, text, from)
<1> HIDE DEF from, text
<1>3. /\ visit' \in [Process -> Visits]
      /\ \A q \in Process : visit'[q].file = visit[q].file /\ visit'[q].asked = visit[q].asked
      /\ \A q \in Process \ {p} : visit'[q].whole => visit'[q].file = "none"
      /\ visit'[p].whole => Continues(visit'[p], visit[p], n, text, from, jiffies - used_at)
      /\ read_pos' \in [{Absolute, LastUsed} -> Nat]
      /\ read_pos'[LastUsed] = from + n
      /\ UNCHANGED used_at
      /\ n \in Nat
      /\ from <= TextLength(text) => /\ from + n <= TextLength(text)
                                     /\ n = 0 => from = TextLength(text)
  <2>1. visit[p].file # "none" /\ LastUsed \in {Absolute, LastUsed}
    BY <1>1 DEF LastUsed
  <2>2. /\ n \in Nat
        /\ from <= TextLength(text) => /\ from + n <= TextLength(text)
                                       /\ n = 0 => from = TextLength(text)
    BY <1>2, <2>1, CountFacts DEF TrackerInv
  <2>3. used_at' = IF UseIsCounted /\ (LastUsed = Absolute \/ from = 0) THEN jiffies ELSE used_at
    BY <1>1 DEF Given
  <2>4. UNCHANGED used_at
    BY <1>2, <2>3 DEF Absolute, LastUsed
  <2>5. QED
    BY <1>1, <1>2, <2>1, <2>2, <2>4, GivenFacts DEF TrackerInv
<1> HIDE DEF n
<1>4. TrackShape'
  BY <1>1, <1>3 DEF TrackerInv, TrackShape
<1>5. Stamped'
  BY <1>1, <1>2, <1>3 DEF TrackerInv, Stamped
<1>6. WholeIsTold'
  <2>1. \A q \in Process \ {p} : visit'[q].whole => visit'[q].file # LastUsed
    BY <1>3 DEF LastUsed
  <2>2. ASSUME visit'[p].whole
        PROVE  /\ visit'[p].taken > 0 /\ Told(visit'[p])
               /\ proc_buffer'[LastUsed] = visit'[p].text
               /\ visit'[p].taken <= TextLength(visit'[p].text)
               /\ visit'[p].ended => visit'[p].taken = TextLength(visit'[p].text)
    <3>1. /\ visit[p].whole /\ visit'[p].taken = visit[p].taken + n
          /\ visit'[p].ended => n = 0
          /\ visit[p].taken = from
          /\ visit'[p].text = visit[p].text /\ visit'[p].elapsed = visit[p].elapsed
          /\ visit'[p].mode = visit[p].mode
      <4>1. Continues(visit'[p], visit[p], n, text, from, jiffies - used_at) /\ from # 0
        BY <1>2, <1>3, <2>2
      <4>2. QED
        BY <4>1, Zenon DEF Continues
    <3>2. /\ Told(visit[p]) /\ text = visit[p].text /\ from <= TextLength(text)
      BY <1>1, <1>2, <3>1 DEF TrackerInv, WholeIsTold, text
    <3>3. Told(visit'[p])
      BY <3>1, <3>2 DEF Told
    <3>4. QED
      BY <1>1, <1>2, <1>3, <3>1, <3>2, <3>3 DEF text
  <2>3. QED
    BY <2>1, <2>2 DEF WholeIsTold, Told
<1>7. QED
  BY <1>4, <1>5, <1>6 DEF TrackerInv

LEMMA TrackerStep == TrackerInv /\ [TrackerNext]_trackerVars => TrackerInv'
<1> SUFFICES ASSUME TrackerInv, [TrackerNext]_trackerVars PROVE TrackerInv'
  OBVIOUS
<1>1. CASE UNCHANGED trackerVars
  BY <1>1 DEF trackerVars, TrackerInv, TrackShape, Stamped, WholeIsTold
<1>2. ASSUME NEW p \in Process, ReadLastUsed(p)
      PROVE  TrackerInv'
  BY <1>2, ReadAnewStep, ReadOnStep
<1>3. CASE TrackerNext
  BY <1>2, <1>3, TrackerQuiet, OpenStep, ReadAbsoluteStep DEF TrackerNext
<1>4. QED
  BY <1>1, <1>3

(* A visit of last_accessed that nobody disturbed got one text, all of it, *)
(* and it tells the time since the last call before it that gave the start *)
(* of a text, of either file: for any number of readers, any sizes they    *)
(* ask for, and however long ago that call was.                            *)
THEOREM UseIsTold == TrackerSpec => []LastUseIsTold
<1>1. TrackerInv => LastUseIsTold
  <2> SUFFICES ASSUME TrackerInv, NEW p \in Process,
                      visit[p].file = LastUsed, visit[p].ended, visit[p].whole,
                      visit[p].text # Nothing
               PROVE  visit[p].taken = TextLength(visit[p].text) /\ Told(visit[p])
    BY DEF LastUseIsTold, Told
  <2>1. visit[p].taken \in Nat
    BY DEF TrackerInv, TrackShape, Visits
  <2>2. visit[p].taken > 0
    BY <2>1 DEF TrackerInv, WholeIsTold
  <2>3. QED
    BY <2>2 DEF TrackerInv, WholeIsTold
<1>2. QED
  BY <1>1, TrackerInitInv, TrackerStep, PTL DEF TrackerSpec

(***************************************************************************)
(* The proc files.                                                         *)
(***************************************************************************)

Readers == [file : ProcFile \cup {"none"}, asked : Nat, got : Seq(Nat), ended : BOOLEAN,
            clean : BOOLEAN]

ProcShape ==
  /\ proc_msg_length \in [ProcFile -> 0 .. Longest]
  /\ proc_msg_read_pos \in [ProcFile -> Nat]
  /\ at_start \in [ProcFile -> BOOLEAN]
  /\ cat \in [Process -> Readers]
  /\ in_use \subseteq ProcFile
  /\ \A p \in Process :
       /\ cat[p].file # "none" => cat[p].file \in in_use /\ cat[p].asked > 0
       /\ cat[p].file = "none" => ~cat[p].ended

StartIsZero == \A f \in ProcFile : at_start[f] => proc_msg_read_pos[f] = 0

UpTo(k) == [i \in 1 .. k |-> i]

(* A reader has got the first characters, and the position is behind them. *)
HasGot(c, length, position) ==
  /\ c.got = UpTo(Len(c.got)) /\ Len(c.got) <= length
  /\ c.ended => Len(c.got) = length
  /\ ~c.ended => position = Len(c.got)
  /\ c.file = "remaining" => Len(c.got) \in {0, length}

CleanHasGot ==
  \A p \in Process :
    LET c == cat[p] IN
    c.file # "none" /\ c.clean
    /\ (c.file = "remaining" => c.asked >= proc_msg_length[c.file]) =>
      HasGot(c, proc_msg_length[c.file], proc_msg_read_pos[c.file])

ProcInv == ProcShape /\ StartIsZero /\ CleanHasGot

LEMMA UpToGrows ==
  ASSUME NEW k \in Nat, NEW n \in Nat
  PROVE  /\ UpTo(k) \o [i \in 1 .. n |-> k + i] = UpTo(k + n)
         /\ UpTo(k) \in Seq(Nat) /\ Len(UpTo(k)) = k
         /\ [i \in 1 .. n |-> k + i] \in Seq(Nat)
<1>1. UpTo(k) \in Seq(Nat) /\ Len(UpTo(k)) = k
  BY DEF UpTo
<1> DEFINE more == [i \in 1 .. n |-> k + i]
<1>2. more \in Seq(Nat) /\ Len(more) = n
  OBVIOUS
<1>3. UpTo(k + n) \in Seq(Nat) /\ Len(UpTo(k + n)) = k + n
  BY DEF UpTo
<1>4. /\ UpTo(k) \o more \in Seq(Nat) /\ Len(UpTo(k) \o more) = k + n
  BY <1>1, <1>2
<1>5. ASSUME NEW i \in 1 .. (k + n)
      PROVE  (UpTo(k) \o more)[i] = UpTo(k + n)[i]
  <2>1. UpTo(k + n)[i] = i
    BY DEF UpTo
  <2> HIDE DEF more
  <2>2. CASE i \in 1 .. k
    <3>1. UpTo(k)[i] = i
      BY <2>2 DEF UpTo
    <3>2. (UpTo(k) \o more)[i] = UpTo(k)[i]
      BY <1>1, <1>2, <2>2, ConcatProperties
    <3>3. QED
      BY <2>1, <3>1, <3>2
  <2>3. CASE i \in k + 1 .. k + n
    <3>1. i - k \in 1 .. n
      BY <2>3
    <3>2. more[i - k] = k + (i - k)
      BY <3>1 DEF more
    <3>3. /\ Len(UpTo(k)) = k /\ Len(more) = n /\ ~(i <= k)
          /\ UpTo(k) \in Seq(Nat) /\ more \in Seq(Nat)
      BY <1>1, <1>2, <2>3
    <3>5. (UpTo(k) \o more)[i] = more[i - k]
      BY <3>3
    <3>4. QED
      BY <2>1, <3>2, <3>5
  <2>4. i \in 1 .. k \/ i \in k + 1 .. k + n
    OBVIOUS
  <2>5. QED
    BY <2>2, <2>3, <2>4
<1> HIDE DEF more
<1>6. UpTo(k) \o more = UpTo(k + n)
  BY <1>3, <1>4, <1>5, SeqEqual
<1>7. QED
  BY <1>1, <1>2, <1>6 DEF more

LEMMA ReaderFields ==
  ASSUME NEW file \in ProcFile \cup {"none"}, NEW asked \in Nat, NEW got \in Seq(Nat),
         NEW ended \in BOOLEAN, NEW clean \in BOOLEAN
  PROVE  LET c == Reader(file, asked, got, ended, clean)
         IN /\ c \in Readers /\ c.file = file /\ c.asked = asked /\ c.got = got
            /\ c.ended = ended /\ c.clean = clean
BY DEF Reader, Readers

LEMMA UncleanFields ==
  ASSUME NEW c \in Readers
  PROVE  LET d == [c EXCEPT !.clean = FALSE]
         IN d \in Readers /\ d.file = c.file /\ d.asked = c.asked /\ d.ended = c.ended /\ ~d.clean
BY DEF Readers

(* Those whose file is touched are not clean, the others are as they were. *)
LEMMA DisturbedFacts ==
  ASSUME ProcShape, NEW files, NEW readers
  PROVE  \A q \in Process :
           LET d == Disturbed(files, readers)[q]
           IN /\ d \in Readers /\ d.file = cat[q].file /\ d.asked = cat[q].asked
              /\ d.ended = cat[q].ended
              /\ q \in readers /\ cat[q].file \in files => ~d.clean
              /\ ~(q \in readers /\ cat[q].file \in files) => d = cat[q]
<1> SUFFICES ASSUME NEW q \in Process
             PROVE  LET d == Disturbed(files, readers)[q]
                    IN /\ d \in Readers /\ d.file = cat[q].file /\ d.asked = cat[q].asked
                       /\ d.ended = cat[q].ended
                       /\ q \in readers /\ cat[q].file \in files => ~d.clean
                       /\ ~(q \in readers /\ cat[q].file \in files) => d = cat[q]
  OBVIOUS
<1>1. cat[q] \in Readers
  BY DEF ProcShape
<1>2. CASE q \in readers /\ cat[q].file \in files
  BY <1>1, <1>2, UncleanFields DEF Disturbed
<1>3. CASE ~(q \in readers /\ cat[q].file \in files)
  BY <1>1, <1>3 DEF Disturbed
<1>4. QED
  BY <1>2, <1>3

LEMMA ProcInitInv == ProcInit => ProcInv
<1> SUFFICES ASSUME ProcInit PROVE ProcInv
  OBVIOUS
<1>1. /\ NotReading \in Readers /\ NotReading.file = "none" /\ ~NotReading.ended
  BY DEF NotReading, Reader, Readers
<1>2. \A p \in Process : cat[p] = NotReading
  BY DEF ProcInit
<1>3. ProcShape
  BY <1>1, <1>2, ProcFilesAssumption DEF ProcInit, ProcShape
<1>4. StartIsZero /\ CleanHasGot
  BY <1>1, <1>2 DEF ProcInit, StartIsZero, CleanHasGot
<1>5. QED
  BY <1>3, <1>4 DEF ProcInv

(* Loading, unloading and the steps of readers that read nothing.          *)
LEMMA ProcQuiet ==
  ASSUME ProcInv,
         \/ LoadStatusFiles \/ LoadExample \/ LoadStrings \/ LoadValue
         \/ UnloadStatusFiles \/ UnloadExample \/ UnloadStrings \/ UnloadValue
  PROVE  ProcInv'
<1> USE DEF ProcInv
<1>1. /\ NotReading \in Readers /\ NotReading.file = "none" /\ ~NotReading.ended
  BY DEF NotReading, Reader, Readers
<1>2. CASE LoadStatusFiles
  <2>1. \A p \in Process : cat[p].file = "none"
    BY <1>2 DEF LoadStatusFiles, ProcShape
  <2>2. /\ proc_msg_length' \in [ProcFile -> 0 .. Longest]
        /\ in_use' \subseteq ProcFile
        /\ UNCHANGED <<proc_msg_read_pos, cat, at_start>>
    BY <1>2, ProcFilesAssumption DEF LoadStatusFiles, ProcFile, Status, Written
  <2>3. QED
    BY <2>1, <2>2 DEF ProcShape, StartIsZero, CleanHasGot
<1>3. ASSUME NEW f \in Written, CreateFileOf(f)
      PROVE  ProcInv'
  BY <1>3 DEF CreateFileOf, ProcFile, ProcShape, StartIsZero, CleanHasGot
<1>4. CASE RemoveFiles
  <2>1. \A p \in Process : cat'[p] = NotReading
    BY <1>4 DEF RemoveFiles
  <2>2. ProcShape'
    BY <1>1, <1>4, <2>1, ProcFilesAssumption DEF RemoveFiles, ProcShape
  <2>3. StartIsZero' /\ CleanHasGot'
    BY <1>1, <1>4, <2>1 DEF RemoveFiles, StartIsZero, CleanHasGot
  <2>4. QED
    BY <2>2, <2>3
<1>5. {"example", "strings", "value"} = Written
  BY DEF Written
<1>6. QED
  BY <1>2, <1>3, <1>4, <1>5
     DEF LoadExample, LoadStrings, LoadValue, UnloadStatusFiles, UnloadExample, UnloadStrings,
         UnloadValue

LEMMA CatStep ==
  ASSUME ProcInv, NEW p \in Process,
         Close(p) \/ \E f \in in_use, asked \in Asked : Open(p, f, asked)
  PROVE  ProcInv'
<1> USE DEF ProcInv
<1>1. CASE Close(p)
  <2>1. /\ NotReading \in Readers /\ NotReading.file = "none" /\ ~NotReading.ended
    BY DEF NotReading, Reader, Readers
  <2>2. /\ cat' \in [Process -> Readers] /\ cat'[p] = NotReading
        /\ \A q \in Process \ {p} : cat'[q] = cat[q]
        /\ UNCHANGED <<proc_msg_length, proc_msg_read_pos, at_start, in_use>>
    BY <1>1, <2>1 DEF Close, ProcShape
  <2>3. QED
    BY <2>1, <2>2 DEF ProcShape, StartIsZero, CleanHasGot
<1>2. ASSUME NEW f \in in_use, NEW asked \in Asked, Open(p, f, asked)
      PROVE  ProcInv'
  <2> DEFINE c == Reader(f, asked, << >>, FALSE, at_start[f])
  <2>1. /\ asked \in Nat /\ asked > 0 /\ f \in ProcFile /\ at_start[f] \in BOOLEAN
    BY ProcFilesAssumption DEF ProcShape
  <2>2. /\ c \in Readers /\ c.file = f /\ c.asked = asked /\ c.got = << >> /\ ~c.ended
        /\ c.clean = at_start[f]
    BY <2>1 DEF Reader, Readers
  <2>3. /\ cat' = [cat EXCEPT ![p] = c]
        /\ UNCHANGED <<proc_msg_length, proc_msg_read_pos, at_start, in_use>>
    BY <1>2 DEF Open
  <2> HIDE DEF c
  <2>4. /\ cat' \in [Process -> Readers] /\ cat'[p] = c
        /\ \A q \in Process \ {p} : cat'[q] = cat[q]
    BY <2>2, <2>3 DEF ProcShape
  <2>5. f # "none"
    BY <2>1 DEF ProcFile, Status, Written
  <2>6. ProcShape' /\ StartIsZero'
    BY <2>1, <2>2, <2>3, <2>4, <2>5 DEF ProcShape, StartIsZero
  <2>7. c.clean => HasGot(c, proc_msg_length[f], proc_msg_read_pos[f])
    <3> SUFFICES ASSUME c.clean PROVE HasGot(c, proc_msg_length[f], proc_msg_read_pos[f])
      OBVIOUS
    <3>1. proc_msg_read_pos[f] = 0
      BY <2>1, <2>2 DEF StartIsZero
    <3>2. proc_msg_length[f] \in Nat
      BY <2>1, ProcFilesAssumption DEF ProcShape
    <3>3. Len(c.got) = 0 /\ c.got = UpTo(0)
      BY <2>2 DEF UpTo
    <3>4. QED
      BY <2>2, <3>1, <3>2, <3>3 DEF HasGot
  <2>8. CleanHasGot'
    BY <2>2, <2>3, <2>4, <2>7 DEF CleanHasGot
  <2>9. QED
    BY <2>6, <2>8
<1>3. QED
  BY <1>1, <1>2

(* A call that nobody disturbs goes on where the reader is.                *)
GoesOn(p, f, from, n) ==
  LET more == [i \in 1 .. n |-> proc_msg_read_pos[from] + i]
      k == Len(cat[p].got)
  IN /\ k \in Nat /\ cat[p].got \o more = UpTo(k + n) /\ k + n <= proc_msg_length[f]
     /\ n = 0 => k + n = proc_msg_length[f]
     /\ proc_msg_read_pos[f] = k
     /\ f = "remaining" => k + n \in {0, proc_msg_length[f]}

LEMMA ReadGoesOn ==
  ASSUME ProcInv, NEW p \in Process, NEW f \in ProcFile, NEW from \in ProcFile,
         (from = f /\ f # "remaining") \/ (f = "remaining" /\ from = "total"),
         cat[p].file = f, ~cat[p].ended, cat[p].clean,
         f = "remaining" => cat[p].asked >= proc_msg_length[f],
         from # f => at_start[from],
         NEW n \in Nat, n = Served(f, cat[p].asked)
  PROVE  GoesOn(p, f, from, n)
<1> USE DEF ProcInv
<1> DEFINE k == Len(cat[p].got)
           asked == cat[p].asked
           length == proc_msg_length[f]
           start == proc_msg_read_pos[from]
<1>1. /\ cat[p] \in Readers /\ asked \in Nat /\ cat[p].got \in Seq(Nat)
      /\ length \in Nat /\ length <= Longest /\ start \in Nat /\ f # "none"
  BY ProcFilesAssumption, SMTT(30) DEF ProcShape, Readers, ProcFile, Status, Written
<1>2. asked > 0
  BY <1>1 DEF ProcShape
<1>3. HasGot(cat[p], length, proc_msg_read_pos[f])
  BY <1>1 DEF CleanHasGot
<1>4. /\ k \in Nat /\ cat[p].got = UpTo(k) /\ k <= length /\ proc_msg_read_pos[f] = k
      /\ f = "remaining" => k \in {0, length}
  BY <1>1, <1>3 DEF HasGot
<1>5. (length - k) % SizeT = length - k
  <2>1. length - k \in Nat /\ SizeT \in Nat /\ length - k < SizeT
    BY <1>1, <1>4, ProcFilesAssumption DEF FarPast
  <2>2. QED
    BY <2>1, ModSmall
<1>6. n = IF asked > length - k THEN length - k ELSE asked
  BY <1>4, <1>5 DEF Served
<1>7. start = k \/ n = 0
  <2>1. CASE from = f
    BY <1>4, <2>1
  <2>2. CASE from # f
    <3>1. start = 0
      BY <2>2 DEF StartIsZero
    <3>2. f = "remaining"
      BY <2>2
    <3>3. QED
      BY <1>1, <1>2, <1>4, <1>6, <3>1, <3>2
  <2>3. QED
    BY <2>1, <2>2
<1>8. f = "remaining" => asked >= length
  OBVIOUS
<1> HIDE DEF k, asked, length, start
<1>9. [i \in 1 .. n |-> start + i] = [i \in 1 .. n |-> k + i]
  <2>1. CASE start = k
    BY <2>1
  <2>2. CASE n = 0
    BY <2>2
  <2>3. QED
    BY <1>7, <2>1, <2>2
<1>10. UpTo(k) \o [i \in 1 .. n |-> start + i] = UpTo(k + n)
  <2>1. UpTo(k) \o [i \in 1 .. n |-> k + i] = UpTo(k + n)
    BY <1>4, UpToGrows
  <2>2. QED
    BY <1>9, <2>1, Zenon
<1>11. k + n <= length /\ (n = 0 => k + n = length)
  BY <1>1, <1>2, <1>4, <1>6
<1>12. f = "remaining" => k + n \in {0, length}
  BY <1>1, <1>2, <1>4, <1>6, <1>8
<1>13. QED
  BY <1>4, <1>10, <1>11, <1>12 DEF k, asked, length, start, GoesOn

LEMMA ProcReadStep ==
  ASSUME ProcInv, NEW p \in Process, NEW f \in ProcFile, NEW from \in ProcFile,
         (from = f /\ f # "remaining") \/ (f = "remaining" /\ from = "total"),
         ReadCall(p, f, from)
  PROVE  ProcInv'
<1> USE DEF ProcInv
<1> DEFINE c == cat[p]
           More(n) == [i \in 1 .. n |-> proc_msg_read_pos[from] + i]
           Clean(n) == c.clean /\ ~(n # Served(f, c.asked)) /\ (from # f => at_start[from])
           New(n) == Reader(f, c.asked, c.got \o More(n), n = 0, Clean(n))
           others == Disturbed({f}, Process \ {p})
<1>1. /\ c \in Readers /\ c.file = f /\ ~c.ended /\ c.asked \in Nat /\ c.got \in Seq(Nat)
      /\ c.clean \in BOOLEAN
      /\ proc_msg_length[f] \in Nat /\ proc_msg_read_pos[f] \in Nat
      /\ proc_msg_read_pos[from] \in Nat /\ f # "none"
  <2>1. f # "none"
    BY DEF ProcFile, Status, Written
  <2>2. c.file = f /\ ~c.ended
    BY DEF ReadCall
  <2>3. QED
    BY <2>1, <2>2, ProcFilesAssumption DEF ProcShape, Readers
<1>2. f \in in_use /\ c.asked > 0
  BY <1>1 DEF ProcShape
<1>3. PICK n \in 0 .. Served(f, c.asked) :
        /\ proc_msg_read_pos' =
             [proc_msg_read_pos EXCEPT ![f] = Rewound(f, proc_msg_read_pos[f] + n, n)]
        /\ at_start' = [at_start EXCEPT ![f] = n = 0 /\ f \in Status]
        /\ cat' = [others EXCEPT ![p] = New(n)]
  BY DEF ReadCall
<1>4. UNCHANGED <<proc_msg_length, in_use>>
  BY DEF ReadCall
<1>5. n \in Nat
  BY <1>3
<1>6. /\ New(n) \in Readers /\ New(n).file = f /\ New(n).asked = c.asked
      /\ New(n).got = c.got \o More(n) /\ New(n).ended = (n = 0)
      /\ New(n).clean = Clean(n)
  <2>1. More(n) \in Seq(Nat)
    BY <1>1, <1>5
  <2> HIDE DEF More
  <2>2. c.got \o More(n) \in Seq(Nat)
    BY <1>1, <2>1
  <2>3. Clean(n) \in BOOLEAN /\ (n = 0) \in BOOLEAN
    OBVIOUS
  <2> DEFINE got == c.got \o More(n)
             ended == n = 0
             clean == Clean(n)
  <2> HIDE DEF c, Clean, got, ended, clean
  <2>4. got \in Seq(Nat) /\ ended \in BOOLEAN /\ clean \in BOOLEAN /\ c.asked \in Nat
    BY <1>1, <2>2, <2>3 DEF got, ended, clean
  <2>5. LET r == Reader(f, c.asked, got, ended, clean)
        IN /\ r \in Readers /\ r.file = f /\ r.asked = c.asked /\ r.got = got
           /\ r.ended = ended /\ r.clean = clean
    BY <2>4 DEF Reader, Readers
  <2>6. QED
    BY <2>5 DEF got, ended, clean
<1>7. /\ cat' \in [Process -> Readers] /\ cat'[p] = New(n)
      /\ \A q \in Process \ {p} :
           /\ cat'[q] \in Readers /\ cat'[q].file = cat[q].file
           /\ cat'[q].asked = cat[q].asked /\ cat'[q].ended = cat[q].ended
           /\ cat[q].file = f => ~cat'[q].clean
           /\ cat[q].file # f => cat'[q] = cat[q]
  <2>1. \A q \in Process :
           /\ others[q] \in Readers /\ others[q].file = cat[q].file
           /\ others[q].asked = cat[q].asked /\ others[q].ended = cat[q].ended
           /\ q # p /\ cat[q].file = f => ~others[q].clean
           /\ cat[q].file # f => others[q] = cat[q]
    BY DisturbedFacts
  <2>2. DOMAIN others = Process /\ others = [q \in Process |-> others[q]]
    BY DEF Disturbed
  <2> HIDE DEF others, New
  <2>3. others \in [Process -> Readers]
    BY <2>1, <2>2
  <2>4. cat' = [others EXCEPT ![p] = New(n)]
    BY <1>3
  <2>5. /\ cat' \in [Process -> Readers] /\ cat'[p] = New(n)
        /\ \A q \in Process \ {p} : cat'[q] = others[q]
    BY <1>6, <2>3, <2>4
  <2>6. QED
    BY <2>1, <2>5
<1> HIDE DEF others, New
<1>8. /\ proc_msg_read_pos' \in [ProcFile -> Nat]
      /\ proc_msg_read_pos'[f] = Rewound(f, proc_msg_read_pos[f] + n, n)
      /\ \A g \in ProcFile \ {f} : proc_msg_read_pos'[g] = proc_msg_read_pos[g]
  <2>1. Rewound(f, proc_msg_read_pos[f] + n, n) \in Nat
    BY <1>1, <1>5 DEF Rewound
  <2>2. proc_msg_read_pos \in [ProcFile -> Nat]
    BY DEF ProcShape
  <2>3. QED
    BY <1>3, <2>1, <2>2
<1>9. /\ at_start' \in [ProcFile -> BOOLEAN]
      /\ at_start'[f] = (n = 0 /\ f \in Status)
      /\ \A g \in ProcFile \ {f} : at_start'[g] = at_start[g]
  <2>1. at_start \in [ProcFile -> BOOLEAN] /\ (n = 0 /\ f \in Status) \in BOOLEAN
    BY DEF ProcShape
  <2>2. QED
    BY <1>3, <2>1, Zenon
<1>10. ProcShape'
  <2>1. /\ proc_msg_length' \in [ProcFile -> 0 .. Longest] /\ in_use' \subseteq ProcFile
    BY <1>4 DEF ProcShape
  <2>2. ASSUME NEW q \in Process
        PROVE  /\ cat'[q].file # "none" => cat'[q].file \in in_use' /\ cat'[q].asked > 0
               /\ cat'[q].file = "none" => ~cat'[q].ended
    <3>1. CASE q = p
      BY <1>1, <1>2, <1>4, <1>6, <1>7, <3>1
    <3>2. CASE q # p
      BY <1>4, <1>7, <3>2 DEF ProcShape
    <3>3. QED
      BY <3>1, <3>2
  <2>3. QED
    BY <1>7, <1>8, <1>9, <2>1, <2>2 DEF ProcShape
<1>11. StartIsZero'
  <2>1. n = 0 /\ f \in Status => proc_msg_read_pos'[f] = 0
    BY <1>8 DEF Rewound
  <2>2. QED
    BY <1>8, <1>9, <2>1 DEF StartIsZero
<1>12. ASSUME c.clean, n = Served(f, c.asked), from # f => at_start[from],
              f = "remaining" => c.asked >= proc_msg_length[f]
       PROVE  HasGot(New(n), proc_msg_length[f], proc_msg_read_pos'[f])
  <2> DEFINE k == Len(c.got)
             length == proc_msg_length[f]
  <2>1. /\ k \in Nat /\ c.got \o More(n) = UpTo(k + n) /\ k + n <= length
        /\ n = 0 => k + n = length
        /\ proc_msg_read_pos[f] = k
        /\ f = "remaining" => k + n \in {0, length}
    <3>1. GoesOn(p, f, from, n)
      BY <1>1, <1>5, <1>12, ReadGoesOn
    <3>2. QED
      BY <3>1 DEF GoesOn
  <2>2. n # 0 => proc_msg_read_pos'[f] = k + n
    BY <1>8, <2>1 DEF Rewound
  <2>3. New(n).got = UpTo(k + n) /\ New(n).file = f
    BY <1>6, <2>1
  <2>4. New(n).ended <=> n = 0
    BY <1>6
  <2> HIDE DEF k, length, More, c
  <2>5. Len(UpTo(k + n)) = k + n
    BY <1>5, <2>1 DEF UpTo
  <2>6. QED
    BY <2>1, <2>2, <2>3, <2>4, <2>5 DEF HasGot, length
<1>13. CleanHasGot'
  <2> SUFFICES ASSUME NEW q \in Process, cat'[q].file # "none", cat'[q].clean,
                      cat'[q].file = "remaining" =>
                        cat'[q].asked >= proc_msg_length'[cat'[q].file]
               PROVE  HasGot(cat'[q], proc_msg_length'[cat'[q].file],
                             proc_msg_read_pos'[cat'[q].file])
    BY DEF CleanHasGot
  <2>1. CASE q = p
    <3>1. cat'[q] = New(n) /\ cat'[q].file = f
      BY <1>6, <1>7, <2>1
    <3>2. Clean(n)
      BY <1>6, <3>1
    <3>3. HasGot(New(n), proc_msg_length[f], proc_msg_read_pos'[f])
      BY <1>4, <1>6, <1>12, <3>1, <3>2
    <3>4. QED
      BY <1>4, <3>1, <3>3
  <2>2. CASE q # p
    <3>1. cat'[q] = cat[q] /\ cat[q].file # f
      BY <1>7, <2>2
    <3>2. cat[q].file \in ProcFile \ {f}
      BY <3>1 DEF ProcShape
    <3>3. QED
      BY <1>4, <1>8, <3>1, <3>2 DEF CleanHasGot
  <2>3. QED
    BY <2>1, <2>2
<1>14. QED
  BY <1>10, <1>11, <1>13

LEMMA ProcWriteStep ==
  ASSUME ProcInv,
         UpdateStatus \/ WriteExample \/ WriteStrings \/ WriteValue \/ ConvertAgain
  PROVE  ProcInv'
<1> USE DEF ProcInv
<1>1. ASSUME NEW f \in ProcFile, f \in in_use, NEW length \in 0 .. Longest,
             proc_msg_length' = [proc_msg_length EXCEPT ![f] = length],
             cat' = Disturbed({f}, Process), in_use' = in_use,
             proc_msg_read_pos' \in [ProcFile -> Nat], at_start' \in [ProcFile -> BOOLEAN],
             \A g \in ProcFile \ {f} : proc_msg_read_pos'[g] = proc_msg_read_pos[g],
             StartIsZero'
      PROVE  ProcInv'
  <2>1. \A q \in Process :
           /\ cat'[q] \in Readers /\ cat'[q].file = cat[q].file
           /\ cat'[q].asked = cat[q].asked /\ cat'[q].ended = cat[q].ended
           /\ cat[q].file = f => ~cat'[q].clean
           /\ cat[q].file # f => cat'[q] = cat[q]
    BY <1>1, DisturbedFacts
  <2>2. cat' \in [Process -> Readers]
    <3>1. cat' = [q \in Process |-> cat'[q]]
      BY <1>1 DEF Disturbed
    <3>2. QED
      BY <2>1, <3>1
  <2>3. /\ proc_msg_length' \in [ProcFile -> 0 .. Longest]
        /\ \A g \in ProcFile \ {f} : proc_msg_length'[g] = proc_msg_length[g]
    BY <1>1 DEF ProcShape
  <2>4. ProcShape'
    BY <1>1, <2>1, <2>2, <2>3 DEF ProcShape
  <2>5. CleanHasGot'
    <3> SUFFICES ASSUME NEW q \in Process, cat'[q].file # "none", cat'[q].clean,
                        cat'[q].file = "remaining" =>
                          cat'[q].asked >= proc_msg_length'[cat'[q].file]
                 PROVE  HasGot(cat'[q], proc_msg_length'[cat'[q].file],
                               proc_msg_read_pos'[cat'[q].file])
      BY DEF CleanHasGot
    <3>1. cat'[q] = cat[q] /\ cat[q].file # f
      BY <2>1
    <3>2. cat[q].file \in ProcFile \ {f}
      BY <3>1 DEF ProcShape
    <3>3. QED
      BY <1>1, <2>3, <3>1, <3>2 DEF CleanHasGot
  <2>6. QED
    BY <1>1, <2>4, <2>5
<1>2. CASE UpdateStatus
  <2>1. PICK f \in {"remaining", "count"} \cap in_use, length \in 1 .. Longest :
          /\ proc_msg_length' = [proc_msg_length EXCEPT ![f] = length]
          /\ cat' = Disturbed({f}, Process)
          /\ UNCHANGED <<proc_msg_read_pos, at_start, in_use>>
    BY <1>2 DEF UpdateStatus
  <2>2. f \in ProcFile /\ f \in in_use /\ length \in 0 .. Longest
    BY ProcFilesAssumption DEF ProcFile, Status, Written
  <2>3. StartIsZero'
    BY <2>1 DEF StartIsZero
  <2>4. QED
    BY <1>1, <2>1, <2>2, <2>3 DEF ProcShape
<1>3. ASSUME NEW f \in Written, WriteText(f)
      PROVE  ProcInv'
  <2>1. PICK n \in 0 .. Longest : proc_msg_length' = [proc_msg_length EXCEPT ![f] = n]
    BY <1>3 DEF WriteText
  <2>2. /\ f \in ProcFile /\ f \in in_use /\ in_use' = in_use
        /\ proc_msg_read_pos' = [proc_msg_read_pos EXCEPT ![f] = 0]
        /\ at_start' = [at_start EXCEPT ![f] = TRUE]
        /\ cat' = Disturbed({f}, Process)
    BY <1>3 DEF WriteText, ProcFile
  <2>3. /\ proc_msg_read_pos' \in [ProcFile -> Nat] /\ at_start' \in [ProcFile -> BOOLEAN]
        /\ proc_msg_read_pos'[f] = 0
        /\ \A g \in ProcFile \ {f} :
             /\ proc_msg_read_pos'[g] = proc_msg_read_pos[g] /\ at_start'[g] = at_start[g]
    BY <2>2 DEF ProcShape
  <2>4. StartIsZero'
    BY <2>3 DEF StartIsZero
  <2>5. QED
    BY <1>1, <2>1, <2>2, <2>3, <2>4
<1>4. CASE ConvertAgain
  <2>1. /\ "value" \in ProcFile /\ "value" \in in_use /\ cat' = Disturbed({"value"}, Process)
        /\ UNCHANGED <<proc_msg_length, proc_msg_read_pos, at_start, in_use>>
    BY <1>4 DEF ConvertAgain, ProcFile, Written
  <2>2. /\ proc_msg_length["value"] \in 0 .. Longest
        /\ proc_msg_length' = [proc_msg_length EXCEPT !["value"] = proc_msg_length["value"]]
    BY <2>1 DEF ProcShape
  <2>3. StartIsZero'
    BY <2>1 DEF StartIsZero
  <2>4. QED
    BY <1>1, <2>1, <2>2, <2>3 DEF ProcShape
<1>5. {"example", "strings", "value"} = Written
  BY DEF Written
<1>6. QED
  BY <1>2, <1>3, <1>4, <1>5 DEF WriteExample, WriteStrings, WriteValue

LEMMA ProcStep == ProcInv /\ [ProcNext]_procVars => ProcInv'
<1> SUFFICES ASSUME ProcInv, [ProcNext]_procVars PROVE ProcInv'
  OBVIOUS
<1>1. CASE \/ LoadStatusFiles \/ LoadExample \/ LoadStrings \/ LoadValue
           \/ UnloadStatusFiles \/ UnloadExample \/ UnloadStrings \/ UnloadValue
  BY <1>1, ProcQuiet
<1>2. ASSUME NEW p \in Process,
             Close(p) \/ \E f \in in_use, asked \in Asked : Open(p, f, asked)
      PROVE  ProcInv'
  BY <1>2, CatStep
<1>3. ASSUME NEW p \in Process,
             \/ ReadTotal(p) \/ ReadRemaining(p) \/ ReadCount(p)
             \/ ReadExample(p) \/ ReadStrings(p) \/ ReadValue(p)
      PROVE  ProcInv'
  <2>1. {"total", "remaining", "count", "example", "strings", "value"} \subseteq ProcFile
    BY DEF ProcFile, Status, Written
  <2>2. CASE ReadTotal(p)
    BY <2>1, <2>2, ProcReadStep DEF ReadTotal
  <2>3. CASE ReadRemaining(p)
    BY <2>1, <2>3, ProcReadStep DEF ReadRemaining
  <2>4. CASE ReadCount(p)
    BY <2>1, <2>4, ProcReadStep DEF ReadCount
  <2>5. CASE ReadExample(p)
    BY <2>1, <2>5, ProcReadStep DEF ReadExample
  <2>6. CASE ReadStrings(p)
    BY <2>1, <2>6, ProcReadStep DEF ReadStrings
  <2>7. CASE ReadValue(p)
    BY <2>1, <2>7, ProcReadStep DEF ReadValue
  <2>8. QED
    BY <1>3, <2>2, <2>3, <2>4, <2>5, <2>6, <2>7
<1>4. CASE UpdateStatus \/ WriteExample \/ WriteStrings \/ WriteValue \/ ConvertAgain
  BY <1>4, ProcWriteStep
<1>5. CASE UNCHANGED procVars
  BY <1>5 DEF procVars, ProcInv, ProcShape, StartIsZero, CleanHasGot
<1>6. QED
  BY <1>1, <1>2, <1>3, <1>4, <1>5 DEF ProcNext

(* A reader that begins at the start and is not disturbed gets the whole   *)
(* text in order, whatever it asks for in one call and however long the    *)
(* text is: the status files of task 6, and the texts a process wrote to   *)
(* the example file, the string converter or the currency converter.       *)
THEOREM WholeTextIsRead == ProcSpec => []ReaderGetsText
<1>1. ProcInv => ReaderGetsText
  <2> SUFFICES ASSUME ProcInv, NEW p \in Process, cat[p].ended, cat[p].clean,
                      cat[p].file = "remaining" => cat[p].asked >= proc_msg_length[cat[p].file]
               PROVE  cat[p].got = [i \in 1 .. proc_msg_length[cat[p].file] |-> i]
    BY DEF ReaderGetsText
  <2>1. cat[p].file # "none"
    BY DEF ProcInv, ProcShape
  <2>2. HasGot(cat[p], proc_msg_length[cat[p].file], proc_msg_read_pos[cat[p].file])
    BY <2>1 DEF ProcInv, CleanHasGot
  <2>3. QED
    BY <2>2 DEF HasGot, UpTo
<1>2. QED
  BY ProcInitInv, ProcStep, <1>1, PTL DEF ProcSpec

(***************************************************************************)
(* The string converter.                                                   *)
(***************************************************************************)

(* The string in a buffer ends before its first NUL, or with the buffer.    *)
LEMMA CStringEnds ==
  ASSUME NEW S, NEW buffer \in [Buffer -> S]
  PROVE  /\ CString(buffer) \in Seq(S) /\ Len(CString(buffer)) \in 0 .. BUFFER_SIZE
         /\ \A i \in 1 .. Len(CString(buffer)) : CString(buffer)[i] = buffer[i] /\ buffer[i] # Nul
         /\ Len(CString(buffer)) < BUFFER_SIZE => buffer[Len(CString(buffer)) + 1] = Nul
<1> DEFINE nul == {i \in Buffer : buffer[i] = Nul}
           first == CHOOSE i \in nul : \A j \in nul : i <= j
           end == IF nul = {} THEN BUFFER_SIZE ELSE first - 1
<1>1. BUFFER_SIZE \in Nat \ {0} /\ Buffer = 1 .. BUFFER_SIZE
  BY StringConverterAssumption DEF Buffer
<1>2. nul # {} => first \in nul /\ \A j \in nul : first <= j
  <2>1. nul \subseteq Nat
    BY <1>1
  <2>2. nul # {} => \E i \in nul : \A j \in nul : i <= j
    BY <2>1, Least
  <2> HIDE DEF nul
  <2>3. QED
    BY <2>2
<1>3. /\ end \in 0 .. BUFFER_SIZE
      /\ \A i \in 1 .. end : buffer[i] # Nul
      /\ end < BUFFER_SIZE => buffer[end + 1] = Nul
  <2>1. CASE nul = {}
    BY <1>1, <2>1
  <2>2. CASE nul # {}
    <3>1. first \in 1 .. BUFFER_SIZE /\ buffer[first] = Nul
      BY <1>1, <1>2, <2>2
    <3>2. \A i \in 1 .. first - 1 : i \in Buffer /\ i \notin nul
      <4>1. \A j \in nul : first <= j
        BY <1>2, <2>2
      <4> HIDE DEF first, nul
      <4>2. QED
        BY <1>1, <3>1, <4>1
    <3>3. \A i \in 1 .. first - 1 : buffer[i] # Nul
      BY <3>2
    <3> HIDE DEF first, nul
    <3>4. QED
      BY <1>1, <2>2, <3>1, <3>3
  <2>3. QED
    BY <2>1, <2>2
<1>4. CString(buffer) = SubSeq(buffer, 1, end)
  BY DEF CString
<1> HIDE DEF end
<1>5. /\ SubSeq(buffer, 1, end) \in Seq(S)
      /\ Len(SubSeq(buffer, 1, end)) = end
      /\ \A i \in 1 .. end : SubSeq(buffer, 1, end)[i] = buffer[i]
  <2>1. \A i \in 1 .. end : buffer[i] \in S
    BY <1>1, <1>3
  <2>2. /\ SubSeq(buffer, 1, end) \in Seq(S)
        /\ Len(SubSeq(buffer, 1, end)) = IF 1 <= end THEN end - 1 + 1 ELSE 0
        /\ \A i \in 1 .. end - 1 + 1 : SubSeq(buffer, 1, end)[i] = buffer[1 + i - 1]
    BY <1>1, <1>3, <2>1, SubSeqProperties
  <2>3. QED
    BY <1>1, <1>3, <2>2
<1>6. QED
  BY <1>1, <1>3, <1>4, <1>5

(* The buffers of the module, and a message at the start of one.           *)
Characters(buffer) == {buffer[i] : i \in Buffer}
IsBuffer(buffer) == buffer = [i \in Buffer |-> buffer[i]]
Posed(buffer, text) ==
  /\ Len(text) \in 0 .. BUFFER_SIZE /\ text = [i \in 1 .. Len(text) |-> text[i]]
  /\ \A i \in 1 .. Len(text) : text[i] # Nul /\ buffer[i] = text[i]

(* The string in the buffer starts with the message.                       *)
LEMMA StringStartsWithMessage ==
  ASSUME NEW buffer, IsBuffer(buffer), NEW t, Posed(buffer, t), NEW s, s = CString(buffer)
  PROVE  /\ t \in Seq(Characters(buffer)) /\ s \in Seq(Characters(buffer))
         /\ Len(s) \in Len(t) .. BUFFER_SIZE
         /\ \A i \in 1 .. Len(t) : s[i] = t[i]
<1>1. /\ BUFFER_SIZE \in Nat /\ Buffer = 1 .. BUFFER_SIZE
      /\ buffer \in [Buffer -> Characters(buffer)]
  BY StringConverterAssumption DEF Buffer, IsBuffer, Characters
<1>2. /\ s \in Seq(Characters(buffer)) /\ Len(s) \in 0 .. BUFFER_SIZE
      /\ \A i \in 1 .. Len(s) : s[i] = buffer[i]
      /\ Len(s) < BUFFER_SIZE => buffer[Len(s) + 1] = Nul
  BY <1>1, CStringEnds
<1>3. /\ Len(t) \in 0 .. BUFFER_SIZE
      /\ \A i \in 1 .. Len(t) : t[i] # Nul /\ buffer[i] = t[i]
  BY DEF Posed
<1>4. Len(t) <= Len(s)
  <2>1. SUFFICES ASSUME Len(s) < Len(t) PROVE FALSE
    BY <1>1, <1>2, <1>3
  <2>2. Len(s) + 1 \in 1 .. Len(t) /\ Len(s) < BUFFER_SIZE
    BY <1>1, <1>2, <1>3, <2>1
  <2>3. QED
    BY <1>2, <1>3, <2>2
<1>5. t \in Seq(Characters(buffer))
  <2>1. \A i \in 1 .. Len(t) : t[i] \in Characters(buffer)
    BY <1>1, <1>3
  <2>2. Len(t) \in Nat
    BY <1>1, <1>3
  <2>3. [i \in 1 .. Len(t) |-> t[i]] \in Seq(Characters(buffer))
    BY <2>1, <2>2, IsASeq
  <2>4. t = [i \in 1 .. Len(t) |-> t[i]]
    BY DEF Posed
  <2>5. QED
    BY <2>3, <2>4
<1>6. QED
  BY <1>1, <1>2, <1>3, <1>4, <1>5

(* A string that is copied, with its end, is the string in the copy.       *)
LEMMA CStringOfCopy ==
  ASSUME NEW buffer, IsBuffer(buffer), NEW s, s = CString(buffer), Len(s) + 1 <= BUFFER_SIZE,
         NEW old, NEW copy, copy = CopiedInto(old, s, Nul)
  PROVE  CString(copy) = s
<1> DEFINE t == CString(copy)
<1>1. /\ BUFFER_SIZE \in Nat /\ Buffer = 1 .. BUFFER_SIZE
      /\ buffer \in [Buffer -> Characters(buffer)] /\ copy \in [Buffer -> Characters(copy)]
  BY StringConverterAssumption DEF Buffer, IsBuffer, Characters, CopiedInto
<1>2. /\ s \in Seq(Characters(buffer)) /\ Len(s) \in 0 .. BUFFER_SIZE
      /\ \A i \in 1 .. Len(s) : s[i] = buffer[i] /\ buffer[i] # Nul
  BY <1>1, CStringEnds
<1>3. /\ t \in Seq(Characters(copy)) /\ Len(t) \in 0 .. BUFFER_SIZE
      /\ \A i \in 1 .. Len(t) : t[i] = copy[i] /\ copy[i] # Nul
      /\ Len(t) < BUFFER_SIZE => copy[Len(t) + 1] = Nul
  BY <1>1, CStringEnds
<1> HIDE DEF t
<1>4. /\ \A i \in 1 .. Len(s) : copy[i] = s[i] /\ s[i] # Nul
      /\ copy[Len(s) + 1] = Nul
  BY <1>1, <1>2 DEF CopiedInto
<1>5. Len(t) = Len(s)
  <2>1. Len(s) \in Nat /\ Len(t) \in Nat
    BY <1>1, <1>2, <1>3
  <2>2. ~(Len(t) < Len(s))
    <3>1. SUFFICES ASSUME Len(t) < Len(s) PROVE FALSE
      OBVIOUS
    <3>2. Len(t) + 1 \in 1 .. Len(s) /\ Len(t) < BUFFER_SIZE
      BY <1>1, <2>1, <3>1
    <3>3. QED
      BY <1>3, <1>4, <3>2
  <2>3. ~(Len(s) < Len(t))
    <3>1. SUFFICES ASSUME Len(s) < Len(t) PROVE FALSE
      OBVIOUS
    <3>2. Len(s) + 1 \in 1 .. Len(t)
      BY <1>1, <2>1, <3>1
    <3>3. QED
      BY <1>3, <1>4, <3>2
  <2>4. QED
    BY <2>1, <2>2, <2>3
<1>6. \A i \in 1 .. Len(s) : t[i] = s[i]
  BY <1>3, <1>4, <1>5
<1>7. t = [i \in 1 .. Len(s) |-> t[i]] /\ s = [i \in 1 .. Len(s) |-> s[i]]
  BY <1>2, <1>3, <1>5, LenProperties
<1>8. t = s
  BY <1>6, <1>7
<1>9. QED
  BY <1>8 DEF t

(* Every character that is no blank is in a word.                          *)
LEMMA WordsAreThere ==
  ASSUME NEW S, NEW s \in Seq(S), NEW i \in 1 .. Len(s), s[i] # Blank
  PROVE  WordBegins(s, i) # {} /\ WordEnds(s, i) # {}
<1>1. Len(s) \in Nat
  BY LenProperties
<1>2. WordBegins(s, i) # {}
  <2> DEFINE T == {a \in 1 .. i : \A j \in a .. i : s[j] # Blank}
  <2>1. T \subseteq Nat /\ i \in T
    BY <1>1
  <2>2. PICK a \in T : \A x \in T : a <= x
    BY <2>1, Least
  <2>3. ASSUME a # 1 PROVE s[a - 1] = Blank
    <3>1. SUFFICES ASSUME s[a - 1] # Blank PROVE FALSE
      OBVIOUS
    <3>2. a - 1 \in 1 .. i /\ \A j \in a - 1 .. i : j = a - 1 \/ j \in a .. i
      BY <1>1, <2>3
    <3>3. a - 1 \in T
      BY <3>1, <3>2
    <3>4. a <= a - 1
      BY <2>2, <3>3
    <3>5. QED
      BY <2>1, <2>2, <3>4
  <2>4. QED
    BY <2>2, <2>3 DEF WordBegins
<1>3. WordEnds(s, i) # {}
  <2> DEFINE T == {b \in i .. Len(s) : b = Len(s) \/ s[b + 1] = Blank}
  <2>1. T \subseteq Nat /\ Len(s) \in T
    BY <1>1
  <2>2. PICK b \in T : \A x \in T : b <= x
    BY <2>1, Least
  <2>3. ASSUME NEW j \in i .. b PROVE s[j] # Blank
    <3>1. SUFFICES ASSUME s[j] = Blank PROVE FALSE
      OBVIOUS
    <3>2. j # i /\ j \in Int /\ i \in Int /\ b \in Int
      BY <1>1, <2>1, <2>2, <3>1
    <3>3. j - 1 \in i .. Len(s) /\ (j - 1) + 1 = j /\ j - 1 < b
      BY <1>1, <3>2
    <3>4. j - 1 \in T
      BY <3>1, <3>3
    <3>5. b <= j - 1
      BY <2>2, <3>4
    <3>6. QED
      BY <3>2, <3>3, <3>5
  <2>4. QED
    BY <2>2, <2>3 DEF WordEnds
<1>4. QED
  BY <1>2, <1>3

(* A word that the message ends, or that goes on in the buffer no further, *)
(* is the word of the message.                                             *)
LEMMA MirrorOfMessage ==
  ASSUME NEW S, NEW s \in Seq(S), NEW t \in Seq(S), Len(t) <= Len(s),
         \A j \in 1 .. Len(t) : s[j] = t[j], NEW i \in 1 .. Len(t),
         ~ /\ \A j \in i .. Len(t) : t[j] # Blank
           /\ Len(s) > Len(t) /\ s[Len(t) + 1] # Blank
  PROVE  Mirror(s, i) = Mirror(t, i) /\ Mirror(t, i) \in 1 .. Len(t)
<1>1. Len(s) \in Nat /\ Len(t) \in Nat /\ s[i] = t[i]
  BY LenProperties
<1>2. CASE t[i] = Blank
  BY <1>1, <1>2 DEF Mirror
<1>3. CASE t[i] # Blank
  <2>1. WordBegins(s, i) = WordBegins(t, i)
    <3>1. \A a \in 1 .. i : (\A j \in a .. i : s[j] = t[j]) /\ (a # 1 => s[a - 1] = t[a - 1])
      BY <1>1
    <3>2. QED
      BY <3>1 DEF WordBegins
  <2>2. ASSUME NEW b, b \in WordEnds(s, i) PROVE b \in WordEnds(t, i)
    <3>1. b \in i .. Len(s) /\ (\A j \in i .. b : s[j] # Blank)
          /\ (b = Len(s) \/ s[b + 1] = Blank)
      BY <2>2 DEF WordEnds
    <3>2. b <= Len(t)
      <4>1. SUFFICES ASSUME b >= Len(t) + 1 PROVE FALSE
        BY <1>1, <3>1
      <4>2. \A j \in i .. Len(t) : j \in 1 .. Len(t) /\ j \in i .. b
        BY <1>1, <3>1, <4>1
      <4>3. \A j \in i .. Len(t) : t[j] # Blank
        BY <3>1, <4>2
      <4>4. Len(s) > Len(t) /\ s[Len(t) + 1] # Blank
        BY <1>1, <3>1, <4>1
      <4>5. QED
        BY <4>3, <4>4
    <3>3. \A j \in i .. b : j \in 1 .. Len(t)
      BY <1>1, <3>1, <3>2
    <3>4. \A j \in i .. b : t[j] # Blank
      BY <3>1, <3>3
    <3>5. b = Len(t) \/ t[b + 1] = Blank
      BY <1>1, <3>1, <3>2
    <3>6. QED
      BY <1>1, <3>1, <3>2, <3>4, <3>5 DEF WordEnds
  <2>3. ASSUME NEW b, b \in WordEnds(t, i) PROVE b \in WordEnds(s, i)
    <3>1. b \in i .. Len(t) /\ (\A j \in i .. b : t[j] # Blank)
          /\ (b = Len(t) \/ t[b + 1] = Blank)
      BY <2>3 DEF WordEnds
    <3>2. \A j \in i .. b : s[j] # Blank
      <4>1. \A j \in i .. b : j \in 1 .. Len(t)
        BY <1>1, <3>1
      <4>2. QED
        BY <3>1, <4>1
    <3>3. b = Len(s) \/ s[b + 1] = Blank
      <4>1. CASE b = Len(t)
        <5>1. Len(s) = Len(t) \/ s[Len(t) + 1] = Blank
          BY <1>1, <3>1, <4>1
        <5>2. QED
          BY <4>1, <5>1
      <4>2. CASE b # Len(t)
        BY <1>1, <3>1, <4>2
      <4>3. QED
        BY <4>1, <4>2
    <3>4. QED
      BY <1>1, <3>1, <3>2, <3>3 DEF WordEnds
  <2>4. WordEnds(s, i) = WordEnds(t, i)
    BY <2>2, <2>3
  <2>5. Mirror(s, i) = Mirror(t, i)
    BY <1>1, <2>1, <2>4 DEF Mirror
  <2> DEFINE a == CHOOSE x \in WordBegins(t, i) : TRUE
             b == CHOOSE x \in WordEnds(t, i) : TRUE
  <2>6. a \in WordBegins(t, i) /\ b \in WordEnds(t, i)
    BY <1>3, WordsAreThere
  <2>7. Mirror(t, i) = a + b - i
    BY <1>3 DEF Mirror
  <2> HIDE DEF a, b
  <2>8. a \in 1 .. i /\ b \in i .. Len(t)
    BY <2>6 DEF WordBegins, WordEnds
  <2>9. QED
    BY <1>1, <2>5, <2>7, <2>8
<1>4. QED
  BY <1>2, <1>3

(* An output that has the conversion of the string in the input shows the  *)
(* conversion of the message; what comes behind the message is not of it.  *)
LEMMA ConversionShows ==
  ASSUME NEW buffer, IsBuffer(buffer), NEW t, Posed(buffer, t), NEW s, s = CString(buffer),
         NEW output, NEW mode,
         \A i \in 1 .. Len(t) : output[i] = Converted(s, mode)[i]
  PROVE  OutputShows(output, t, mode, s)
<1>1. /\ BUFFER_SIZE \in Nat
      /\ t \in Seq(Characters(buffer)) /\ s \in Seq(Characters(buffer))
      /\ Len(s) \in Len(t) .. BUFFER_SIZE
      /\ \A i \in 1 .. Len(t) : s[i] = t[i]
  BY StringStartsWithMessage, StringConverterAssumption
<1>2. Len(t) \in Nat /\ Len(s) \in Nat /\ Len(t) <= Len(s)
  BY <1>1, LenProperties
<1>3. ASSUME NEW i \in 1 .. Len(t),
             ~ /\ mode = "Flip"
               /\ \A j \in i .. Len(t) : t[j] # Blank
               /\ Len(s) > Len(t) /\ s[Len(t) + 1] # Blank
      PROVE  output[i] = CASE mode = "Uppercase" -> Upper(t[i])
                           [] mode = "Flip" -> t[Mirror(t, i)]
                           [] OTHER -> t[i]
  <2>1. i \in 1 .. Len(s) /\ s[i] = t[i]
    BY <1>1, <1>2
  <2>2. output[i] = Converted(s, mode)[i]
    OBVIOUS
  <2>3. CASE mode = "Flip"
    <3>1. Mirror(s, i) = Mirror(t, i) /\ Mirror(t, i) \in 1 .. Len(t)
      BY <1>1, <1>2, <1>3, <2>3, MirrorOfMessage
    <3>2. Converted(s, mode)[i] = s[Mirror(s, i)]
      BY <2>1, <2>3 DEF Converted, Flipped
    <3>3. QED
      BY <1>1, <2>2, <2>3, <3>1, <3>2
  <2>4. CASE mode = "Uppercase"
    <3>1. Converted(s, mode)[i] = Upper(s[i])
      BY <2>1, <2>4 DEF Converted
    <3>2. QED
      BY <2>1, <2>2, <2>4, <3>1
  <2>5. CASE mode \notin {"Flip", "Uppercase"}
    <3>1. Converted(s, mode)[i] = s[i]
      BY <2>5 DEF Converted
    <3>2. QED
      BY <2>1, <2>2, <2>5, <3>1
  <2>6. QED
    BY <2>3, <2>4, <2>5
<1>4. QED
  BY <1>3 DEF OutputShows

LEMMA OutputShowsStill ==
  ASSUME NEW output, NEW output2, NEW t, NEW mode, NEW s, OutputShows(output, t, mode, s),
         \A i \in 1 .. Len(t) : output2[i] = output[i]
  PROVE  OutputShows(output2, t, mode, s)
BY DEF OutputShows

Conversions == {"NoneConversion", "Flip", "Uppercase"}
WriterStates ==
  [at : {"none", "measure", "store", "convert", "end"}, mode : Conversions \cup {"none"},
   length : Nat]

WritersTyped == writers \in [Process -> WriterStates]

ConverterShape ==
  /\ conversion_mode \in Conversions
  /\ WritersTyped
  /\ wrote = [text |-> wrote.text, mode |-> wrote.mode, input |-> wrote.input]
  /\ converter # "absent" => IsBuffer(proc_buffer_in)
  /\ converter \in {"absent", "buffers"} =>
       /\ wrote.mode = "none"
       /\ \A p \in Process : writers[p].at = "none"

(* Of two writes that are going on one has begun beside the other; while   *)
(* one is going on nothing is recorded.                                    *)
WritesMeet ==
  \A p, q \in Process : writers[p].at # "none" /\ writers[q].at # "none" => p = q \/ met
NothingRecorded == \A p \in Process : writers[p].at # "none" => wrote.mode = "none"

(* The copy of a Flip is made after its buffer was.                        *)
FlipsWhenLoaded ==
  /\ \A p \in Process : writers[p].at = "none" => writers[p].mode = "none"
  /\ converter \in {"absent", "buffers", "file"} =>
       conversion_mode = "NoneConversion" /\ \A p \in Process : writers[p].mode # "Flip"

(* How far a write that met no other has come.                             *)
Progress(p) ==
  /\ writers[p].at # "none" => Posed(proc_buffer_in, wrote.text)
  /\ writers[p].at = "store" =>
       writers[p].mode = "Flip" /\ Len(CString(proc_buffer_in)) + 1 <= BUFFER_SIZE
  /\ writers[p].at = "convert" =>
       /\ writers[p].mode = "Flip" => CString(string_processing_buffer) = CString(proc_buffer_in)
       /\ writers[p].mode = "Uppercase" => writers[p].length = Len(CString(proc_buffer_in))
  /\ writers[p].at = "end" =>
       /\ writers[p].mode # "Flip" => writers[p].length = Len(CString(proc_buffer_in))
       /\ OutputShows(proc_buffer_out, wrote.text, writers[p].mode, CString(proc_buffer_in))

ConverterInv ==
  /\ ConverterShape /\ WritesMeet /\ NothingRecorded /\ FlipsWhenLoaded
  /\ ~met => \A p \in Process : Progress(p)
  /\ MessageIsConverted

LEMMA InitConverterInv == ConverterInit => ConverterInv
<1> SUFFICES ASSUME ConverterInit PROVE ConverterInv
  OBVIOUS
<1>1. /\ NotWriting \in WriterStates /\ NotWriting.at = "none"
      /\ wrote.mode = "none" /\ converter = "absent"
      /\ wrote = [text |-> wrote.text, mode |-> wrote.mode, input |-> wrote.input]
  BY DEF ConverterInit, NotWriting, NotWritten, WriterStates
<1>2. WritersTyped /\ \A p \in Process : writers[p].at = "none"
  BY <1>1 DEF ConverterInit, WritersTyped
<1>3. ConverterShape
  BY <1>1, <1>2 DEF ConverterInit, ConverterShape, Conversions
<1>4. WritesMeet /\ NothingRecorded /\ \A p \in Process : Progress(p)
  BY <1>2 DEF WritesMeet, NothingRecorded, Progress
<1>5. FlipsWhenLoaded
  BY DEF ConverterInit, FlipsWhenLoaded, NotWriting
<1>6. MessageIsConverted
  BY <1>1 DEF MessageIsConverted
<1>7. QED
  BY <1>3, <1>4, <1>5, <1>6 DEF ConverterInv

(* Loading, unloading and the mode.                                        *)
LEMMA ConverterLoads ==
  ASSUME ConverterInv,
         CreateBuffers \/ CreateFile \/ CreateConverter \/ StoreMode \/ UnloadConverter
  PROVE  ConverterInv'
<1>1. UNCHANGED <<writers, met>> /\ converter # "overrun" /\ converter' # "overrun"
  BY DEF CreateBuffers, CreateFile, CreateConverter, StoreMode, UnloadConverter
<1>2. WritersTyped' /\ WritesMeet'
  BY <1>1 DEF ConverterInv, ConverterShape, WritersTyped, WritesMeet
<1>3. FlipsWhenLoaded'
  <2>1. CASE UnloadConverter
    <3>1. \A p \in Process : writers[p].at = "none"
      BY <2>1 DEF UnloadConverter
    <3>2. FlipsWhenLoaded
      BY DEF ConverterInv
    <3>3. \A p \in Process : writers[p].mode = "none"
      BY <3>1, <3>2, Zenon DEF FlipsWhenLoaded
    <3>4. /\ \A p \in Process : writers'[p].mode = "none" /\ writers'[p].mode # "Flip"
          /\ conversion_mode' = "NoneConversion"
      BY <1>1, <2>1, <3>3 DEF UnloadConverter
    <3>5. QED
      BY <3>4 DEF FlipsWhenLoaded
  <2>2. CASE CreateBuffers \/ CreateFile \/ CreateConverter \/ StoreMode
    BY <1>1, <2>2 DEF CreateBuffers, CreateFile, CreateConverter, StoreMode, ConverterInv,
       FlipsWhenLoaded
  <2>3. QED
    BY <2>1, <2>2
<1>4. CASE CreateBuffers
  <2>1. /\ \A p \in Process : writers'[p].at = "none"
        /\ wrote'.mode = "none" /\ UNCHANGED <<conversion_mode, wrote>>
    BY <1>1, <1>4 DEF CreateBuffers, ConverterInv, ConverterShape
  <2>2. IsBuffer(proc_buffer_in)' /\ converter' = "buffers"
    BY <1>4 DEF CreateBuffers, Fresh, Page, IsBuffer
  <2>3. ConverterShape'
    BY <1>2, <2>1, <2>2 DEF ConverterInv, ConverterShape
  <2>4. QED
    BY <1>1, <1>2, <1>3, <2>1, <2>3
    DEF ConverterInv, NothingRecorded, Progress, MessageIsConverted
<1>5. CASE CreateFile
  <2>1. /\ \A p \in Process : writers'[p].at = "none"
        /\ wrote'.mode = "none" /\ UNCHANGED <<conversion_mode, wrote>>
    BY <1>1, <1>5 DEF CreateFile, ConverterInv, ConverterShape
  <2>2. converter' # "absent" => IsBuffer(proc_buffer_in)'
    BY <1>5 DEF CreateFile, ConverterInv, ConverterShape, IsBuffer
  <2>3. ConverterShape'
    BY <1>2, <2>1, <2>2 DEF ConverterInv, ConverterShape
  <2>4. QED
    BY <1>1, <1>2, <1>3, <2>1, <2>3
    DEF ConverterInv, NothingRecorded, Progress, MessageIsConverted
<1>6. CASE CreateConverter
  <2>1. UNCHANGED <<conversion_mode, proc_buffer_in, proc_buffer_out, wrote>>
    BY <1>6 DEF CreateConverter
  <2>2. converter = "file" /\ converter' \in {"loaded", "oops"}
    BY <1>6 DEF CreateConverter
  <2>3. ConverterShape'
    BY <1>2, <2>1, <2>2 DEF ConverterInv, ConverterShape, IsBuffer
  <2>4. ~met => \A p \in Process : Progress(p)'
    BY <1>1, <2>1, <2>2 DEF ConverterInv, FlipsWhenLoaded, Progress, Posed
  <2>5. QED
    BY <1>1, <1>2, <1>3, <2>1, <2>3, <2>4 DEF ConverterInv, NothingRecorded, MessageIsConverted
<1>7. CASE StoreMode
  <2>1. UNCHANGED <<converter, proc_buffer_in, proc_buffer_out, string_processing_buffer, wrote>>
    BY <1>7 DEF StoreMode, buffers
  <2>2. conversion_mode' \in Conversions
    BY <1>7 DEF StoreMode, ModeAfter, Conversions
  <2>3. ConverterShape'
    BY <1>2, <1>1, <2>1, <2>2 DEF ConverterInv, ConverterShape, IsBuffer
  <2>4. ~met => \A p \in Process : Progress(p)'
    BY <1>1, <2>1 DEF ConverterInv, Progress, Posed
  <2>5. QED
    BY <1>1, <1>2, <1>3, <2>1, <2>3, <2>4 DEF ConverterInv, NothingRecorded, MessageIsConverted
<1>8. CASE UnloadConverter
  <2>1. /\ \A p \in Process : writers'[p].at = "none"
        /\ wrote' = NotWritten /\ wrote'.mode = "none" /\ converter' = "absent"
        /\ conversion_mode' = "NoneConversion"
    BY <1>1, <1>8 DEF UnloadConverter, NotWritten
  <2>2. ConverterShape'
    BY <1>2, <2>1 DEF ConverterShape, NotWritten, Conversions
  <2>3. QED
    BY <1>1, <1>2, <1>3, <2>1, <2>2
    DEF ConverterInv, NothingRecorded, Progress, MessageIsConverted
<1>9. QED
  BY <1>4, <1>5, <1>6, <1>7, <1>8

(* A write goes on, or ends: the others are where they were, and at rest   *)
(* if it met none.                                                         *)
LEMMA WriterGoes ==
  ASSUME WritersTyped, WritesMeet, NEW p \in Process, writers[p].at # "none",
         NEW w \in WriterStates, writers' = [writers EXCEPT ![p] = w], UNCHANGED met
  PROVE  /\ WritersTyped' /\ WritesMeet' /\ writers'[p] = w
         /\ \A q \in Process \ {p} : writers'[q] = writers[q]
         /\ ~met => \A q \in Process \ {p} : writers[q].at = "none"
<1>1. /\ WritersTyped' /\ writers'[p] = w
      /\ \A q \in Process \ {p} : writers'[q] = writers[q]
  BY DEF WritersTyped
<1>2. WritesMeet'
  BY <1>1 DEF WritesMeet
<1>3. ~met => \A q \in Process \ {p} : writers[q].at = "none"
  BY DEF WritesMeet
<1>4. QED
  BY <1>1, <1>2, <1>3

(* What a write in its middle must show for the whole.                     *)
LEMMA InMiddle ==
  ASSUME ConverterInv, NEW p \in Process, NEW step, Reaches(p, step), step # "none",
         NEW w \in WriterStates, writers' = [writers EXCEPT ![p] = w],
         UNCHANGED <<conversion_mode, proc_buffer_in, met, wrote>>,
         converter' \in {converter, "overrun"},
         w.at = "none" => w.mode = "none",
         w.mode = "Flip" => writers[p].mode = "Flip" \/ conversion_mode = "Flip",
         ~met => converter' = converter /\ (w.at # "none" => Progress(p)')
  PROVE  ConverterInv'
<1>1. /\ writers[p].at # "none" /\ converter \in {"file", "loaded"}
      /\ ConverterShape /\ WritersTyped /\ WritesMeet /\ NothingRecorded
      /\ IsBuffer(proc_buffer_in)
  BY DEF Reaches, ConverterInv, ConverterShape
<1>2. /\ WritersTyped' /\ WritesMeet' /\ writers'[p] = w
      /\ \A q \in Process \ {p} : writers'[q] = writers[q]
      /\ ~met => \A q \in Process \ {p} : writers[q].at = "none"
  BY <1>1, WriterGoes
<1>3. ConverterShape'
  BY <1>1, <1>2 DEF ConverterShape, IsBuffer
<1>4. NothingRecorded' /\ wrote'.mode = "none"
  BY <1>1, <1>2 DEF NothingRecorded
<1>5. ASSUME ~met, NEW q \in Process PROVE Progress(q)'
  <2>1. CASE q = p
    <3>1. w.at = "none" => Progress(p)'
      BY <1>2 DEF Progress
    <3>2. QED
      BY <1>5, <2>1, <3>1
  <2>2. CASE q # p
    BY <1>2, <1>5, <2>2 DEF Progress
  <2>3. QED
    BY <2>1, <2>2
<1>6. FlipsWhenLoaded'
  <2>1. FlipsWhenLoaded
    BY DEF ConverterInv
  <2>2. converter' = "file" => converter = "file"
    OBVIOUS
  <2>3. QED
    BY <1>1, <1>2, <2>1, <2>2 DEF FlipsWhenLoaded
<1>7. MessageIsConverted'
  BY <1>1, <1>4 DEF MessageIsConverted
<1>8. QED
  BY <1>2, <1>3, <1>4, <1>5, <1>6, <1>7 DEF ConverterInv

LEMMA CopyConverterInv ==
  ASSUME ConverterInv, NEW p \in Process, CopyMessage(p) PROVE ConverterInv'
<1>0. BUFFER_SIZE \in Nat /\ Buffer = 1 .. BUFFER_SIZE
  BY StringConverterAssumption DEF Buffer
<1>1. PICK text \in Messages : \E copied \in 0 .. Shorter(Len(text), BUFFER_SIZE) :
        /\ proc_buffer_in' = [i \in Buffer |-> IF i <= copied THEN text[i]
                                            ELSE IF i <= Shorter(Len(text), BUFFER_SIZE) THEN Nul
                                            ELSE proc_buffer_in[i]]
        /\ wrote' = IF met' THEN NotWritten ELSE [NotWritten EXCEPT !.text = SubSeq(text, 1, copied)]
        /\ GoesTo(p, "measure")
  BY DEF CopyMessage
<1>2. PICK copied \in 0 .. Shorter(Len(text), BUFFER_SIZE) :
        /\ proc_buffer_in' = [i \in Buffer |-> IF i <= copied THEN text[i]
                                            ELSE IF i <= Shorter(Len(text), BUFFER_SIZE) THEN Nul
                                            ELSE proc_buffer_in[i]]
        /\ wrote' = IF met' THEN NotWritten ELSE [NotWritten EXCEPT !.text = SubSeq(text, 1, copied)]
        /\ GoesTo(p, "measure")
  BY <1>1
<1>3. /\ text \in Seq(Range(text)) /\ Nul \notin Range(text) /\ Len(text) \in Nat
      /\ copied \in Nat /\ copied <= Len(text) /\ copied <= BUFFER_SIZE
  <2>1. text \in Seq(Range(text)) /\ Nul \notin Range(text) /\ Len(text) \in Nat
    BY StringConverterAssumption, LenProperties
  <2>2. QED
    BY <1>0, <2>1 DEF Shorter
<1> DEFINE t == SubSeq(text, 1, copied)
<1>4. /\ Len(t) = copied /\ t = [i \in 1 .. Len(t) |-> t[i]]
      /\ \A i \in 1 .. copied : t[i] = text[i] /\ t[i] # Nul
  <2>1. \A i \in 1 .. copied : text[i] \in Range(text)
    BY <1>3, ElementOfSeq
  <2>2. /\ t \in Seq(Range(text))
        /\ Len(t) = IF 1 <= copied THEN copied - 1 + 1 ELSE 0
        /\ \A i \in 1 .. copied - 1 + 1 : t[i] = text[1 + i - 1]
    BY <1>3, <2>1, SubSeqProperties
  <2> HIDE DEF t
  <2>3. t = [i \in 1 .. Len(t) |-> t[i]]
    BY <2>2, LenProperties
  <2>4. Len(t) = copied /\ \A i \in 1 .. copied : t[i] = text[i]
    BY <1>3, <2>2
  <2>5. QED
    BY <1>3, <2>1, <2>3, <2>4
<1> HIDE DEF t
<1>5. IsBuffer(proc_buffer_in)' /\ \A i \in 1 .. copied : proc_buffer_in'[i] = text[i]
  <2>1. IsBuffer(proc_buffer_in)'
    BY <1>2 DEF IsBuffer
  <2>2. \A i \in 1 .. copied : i \in Buffer /\ i <= copied
    BY <1>0, <1>3
  <2>3. QED
    BY <1>2, <2>1, <2>2
<1>6. Posed(proc_buffer_in', t)
  BY <1>0, <1>3, <1>4, <1>5 DEF Posed
<1>7. /\ writers[p].at = "none" /\ converter \in {"file", "loaded"}
      /\ UNCHANGED <<converter, conversion_mode>>
      /\ ConverterShape /\ WritersTyped /\ WritesMeet
  BY DEF CopyMessage, Reaches, ConverterInv, ConverterShape
<1>8. /\ WritersTyped' /\ writers'[p].at = "measure" /\ writers'[p].mode = writers[p].mode
      /\ \A q \in Process \ {p} : writers'[q] = writers[q]
  <2> DEFINE w == [writers[p] EXCEPT !.at = "measure"]
  <2>1. w \in WriterStates /\ w.at = "measure" /\ w.mode = writers[p].mode
    BY <1>7 DEF WritersTyped, WriterStates
  <2>2. writers' = [writers EXCEPT ![p] = w]
    BY <1>2 DEF GoesTo
  <2> HIDE DEF w
  <2>3. QED
    BY <1>7, <2>1, <2>2 DEF WritersTyped
<1>9. ASSUME NEW q \in Process \ {p}, writers[q].at # "none" PROVE met'
  <2>1. \E r \in Process \ {p} : writers[r].at # "none"
    BY <1>9
  <2>2. met' = \E r \in Process \ {p} : writers[r].at # "none"
    BY DEF CopyMessage
  <2>3. QED
    BY <2>1, <2>2, Zenon
<1>10. WritesMeet'
  <2> SUFFICES ASSUME NEW q \in Process, NEW r \in Process,
                      writers'[q].at # "none", writers'[r].at # "none", q # r
               PROVE  met'
    BY DEF WritesMeet
  <2>1. CASE q = p
    BY <1>8, <1>9, <2>1
  <2>2. CASE q # p
    BY <1>8, <1>9, <2>2
  <2>3. QED
    BY <2>1, <2>2
<1>11. /\ wrote'.mode = "none"
       /\ wrote' = [text |-> wrote'.text, mode |-> wrote'.mode, input |-> wrote'.input]
       /\ ~met' => wrote'.text = t
  <2>1. CASE met'
    BY <1>2, <2>1 DEF NotWritten
  <2>2. CASE ~met'
    <3>1. wrote' = [NotWritten EXCEPT !.text = t]
      BY <1>2, <2>2 DEF t
    <3>2. QED
      BY <2>2, <3>1 DEF NotWritten
  <2>3. QED
    BY <2>1, <2>2
<1>12. ConverterShape'
  BY <1>5, <1>7, <1>8, <1>11 DEF ConverterShape
<1>13. NothingRecorded' /\ MessageIsConverted'
  BY <1>7, <1>11 DEF NothingRecorded, MessageIsConverted
<1>14. ASSUME ~met', NEW q \in Process PROVE Progress(q)'
  <2>1. CASE q = p
    BY <1>6, <1>8, <1>11, <1>14, <2>1 DEF Progress
  <2>2. CASE q # p
    BY <1>8, <1>9, <1>14, <2>2 DEF Progress
  <2>3. QED
    BY <2>1, <2>2
<1>15. FlipsWhenLoaded'
  BY <1>7, <1>8 DEF ConverterInv, FlipsWhenLoaded
<1>16. QED
  BY <1>10, <1>12, <1>13, <1>14, <1>15 DEF ConverterInv

LEMMA MeasureConverterInv ==
  ASSUME ConverterInv, NEW p \in Process, MeasureMessage(p) PROVE ConverterInv'
<1> DEFINE s == CString(proc_buffer_in)
           mode == conversion_mode
           go == [at |-> IF mode = "Flip" THEN "store" ELSE "convert", mode |-> mode,
                  length |-> IF mode = "Uppercase" THEN Len(s) ELSE 0]
           w == IF Skipped(s, mode) THEN NotWriting ELSE go
<1>1. /\ Reaches(p, "measure") /\ writers[p].at = "measure"
      /\ UNCHANGED <<converter, conversion_mode, proc_buffer_in, proc_buffer_out,
                     string_processing_buffer, met, wrote>>
  BY DEF MeasureMessage, Reaches, buffers
<1>2. mode \in Conversions /\ IsBuffer(proc_buffer_in)
  BY DEF MeasureMessage, Reaches, ConverterInv, ConverterShape
<1>3. Len(s) \in Nat /\ BUFFER_SIZE \in Nat
  <2>1. proc_buffer_in \in [Buffer -> Characters(proc_buffer_in)]
    BY <1>2 DEF IsBuffer, Characters
  <2>2. QED
    BY <2>1, CStringEnds, StringConverterAssumption
<1>4. writers' = [writers EXCEPT ![p] = w]
  BY DEF MeasureMessage, Finishes
<1>5. w \in WriterStates
  BY <1>2, <1>3 DEF WriterStates, NotWriting, Conversions
<1>6. /\ w.at = "none" => w.mode = "none"
      /\ w.mode = "Flip" => conversion_mode = "Flip"
      /\ w.at # "none" =>
        /\ ~Skipped(s, mode) /\ w.mode = mode
        /\ w.at = IF mode = "Flip" THEN "store" ELSE "convert"
        /\ mode = "Uppercase" => w.length = Len(s)
  BY DEF NotWriting
<1>7. ASSUME ~met, w.at # "none" PROVE Progress(p)'
  <2>1. Posed(proc_buffer_in, wrote.text)
    BY <1>1, <1>7 DEF ConverterInv, Progress
  <2>2. writers'[p] = w
    BY <1>4 DEF ConverterInv, ConverterShape, WritersTyped
  <2>3. mode = "Flip" => Len(s) + 1 <= BUFFER_SIZE
    BY <1>3, <1>6, <1>7 DEF Skipped
  <2> HIDE DEF w, mode
  <2>4. Posed(proc_buffer_in, wrote.text)'
    BY <1>1, <2>1 DEF Posed
  <2>5. QED
    BY <1>1, <1>6, <1>7, <2>2, <2>3, <2>4 DEF Progress
<1> HIDE DEF w
<1>8. QED
  BY <1>1, <1>4, <1>5, <1>6, <1>7, InMiddle

LEMMA StoreConverterInv ==
  ASSUME ConverterInv, NEW p \in Process, StoreWords(p) PROVE ConverterInv'
<1> DEFINE s == CString(proc_buffer_in)
           w == [writers[p] EXCEPT !.at = "convert"]
<1>1. /\ Reaches(p, "store") /\ writers[p].at = "store" /\ writers[p] \in WriterStates
      /\ UNCHANGED <<conversion_mode, proc_buffer_in, proc_buffer_out, met, wrote>>
      /\ string_processing_buffer' = CopiedInto(string_processing_buffer, s, Nul)
      /\ converter' = IF Len(s) + 1 > BUFFER_SIZE THEN "overrun" ELSE converter
  BY DEF StoreWords, Reaches, ConverterInv, ConverterShape, WritersTyped
<1>2. IsBuffer(proc_buffer_in)
  BY DEF StoreWords, Reaches, ConverterInv, ConverterShape
<1>3. writers' = [writers EXCEPT ![p] = w]
  BY DEF StoreWords, GoesTo
<1>4. w \in WriterStates /\ w.at = "convert" /\ w.mode = writers[p].mode
  BY <1>1 DEF WriterStates
<1>5. Len(s) \in Nat /\ BUFFER_SIZE \in Nat
  <2>1. proc_buffer_in \in [Buffer -> Characters(proc_buffer_in)]
    BY <1>2 DEF IsBuffer, Characters
  <2>2. QED
    BY <2>1, CStringEnds, StringConverterAssumption
<1> HIDE DEF w
<1>6. ASSUME ~met PROVE converter' = converter /\ Progress(p)'
  <2>1. /\ Posed(proc_buffer_in, wrote.text)
        /\ writers[p].mode = "Flip" /\ Len(s) + 1 <= BUFFER_SIZE
    BY <1>1, <1>6 DEF ConverterInv, Progress
  <2>2. CString(string_processing_buffer') = s
    BY <1>1, <1>2, <2>1, CStringOfCopy
  <2>3. writers'[p] = w
    BY <1>3 DEF ConverterInv, ConverterShape, WritersTyped
  <2>4. Posed(proc_buffer_in, wrote.text)'
    BY <1>1, <2>1 DEF Posed
  <2>5. converter' = converter
    BY <1>1, <1>5, <2>1
  <2>6. QED
    BY <1>1, <1>4, <2>1, <2>2, <2>3, <2>4, <2>5 DEF Progress
<1>7. QED
  BY <1>1, <1>3, <1>4, <1>6, InMiddle

(* A conversion that is not the last step.                                 *)
LEMMA ConversionGoesOn ==
  ASSUME ConverterInv, NEW p \in Process, Reaches(p, "convert"), GoesTo(p, "end"),
         UNCHANGED <<converter, conversion_mode, proc_buffer_in, met, wrote>>,
         writers[p].mode \in {"Flip", "Uppercase"},
         ~met => \A i \in 1 .. Len(wrote.text) :
                   proc_buffer_out'[i] = Converted(CString(proc_buffer_in), writers[p].mode)[i]
  PROVE  ConverterInv'
<1> DEFINE w == [writers[p] EXCEPT !.at = "end"]
<1>1. writers[p].at = "convert" /\ writers[p] \in WriterStates /\ IsBuffer(proc_buffer_in)
  BY DEF Reaches, ConverterInv, ConverterShape, WritersTyped
<1>2. writers' = [writers EXCEPT ![p] = w]
  BY DEF GoesTo
<1>3. /\ w \in WriterStates /\ w.at = "end"
      /\ w.mode = writers[p].mode /\ w.length = writers[p].length
  BY <1>1 DEF WriterStates
<1> HIDE DEF w
<1>4. ASSUME ~met PROVE Progress(p)'
  <2>1. /\ Posed(proc_buffer_in, wrote.text)
        /\ writers[p].mode = "Uppercase" => writers[p].length = Len(CString(proc_buffer_in))
    BY <1>1, <1>4 DEF ConverterInv, Progress
  <2>2. OutputShows(proc_buffer_out', wrote.text, writers[p].mode, CString(proc_buffer_in))
    <3>1. \A i \in 1 .. Len(wrote.text) :
            proc_buffer_out'[i] = Converted(CString(proc_buffer_in), writers[p].mode)[i]
      BY <1>4
    <3>2. QED
      BY <1>1, <2>1, <3>1, ConversionShows
  <2>3. writers'[p] = w
    BY <1>2 DEF ConverterInv, ConverterShape, WritersTyped
  <2>4. Posed(proc_buffer_in, wrote.text)'
    BY <2>1 DEF Posed
  <2>5. OutputShows(proc_buffer_out, wrote.text, writers[p].mode, CString(proc_buffer_in))'
    BY <1>3, <2>2, <2>3
  <2>6. QED
    BY <1>3, <2>1, <2>3, <2>4, <2>5 DEF Progress
<1>5. QED
  BY <1>2, <1>3, <1>4, InMiddle

(* A message of a write that met no other is no longer than the string.    *)
LEMMA MessageFits ==
  ASSUME ConverterInv, NEW p \in Process, NEW step, Reaches(p, step), step # "none", ~met
  PROVE  /\ Posed(proc_buffer_in, wrote.text) /\ IsBuffer(proc_buffer_in)
         /\ BUFFER_SIZE \in Nat /\ Buffer = 1 .. BUFFER_SIZE
         /\ Len(wrote.text) \in Nat /\ Len(CString(proc_buffer_in)) \in Nat
         /\ Len(wrote.text) <= Len(CString(proc_buffer_in))
         /\ Len(CString(proc_buffer_in)) <= BUFFER_SIZE
<1>1. Posed(proc_buffer_in, wrote.text) /\ IsBuffer(proc_buffer_in)
  BY DEF Reaches, ConverterInv, ConverterShape, Progress
<1>2. BUFFER_SIZE \in Nat /\ Buffer = 1 .. BUFFER_SIZE /\ Len(wrote.text) \in Nat
  BY <1>1, StringConverterAssumption DEF Posed, Buffer
<1>3. Len(CString(proc_buffer_in)) \in Len(wrote.text) .. BUFFER_SIZE
  BY <1>1, StringStartsWithMessage
<1>4. QED
  BY <1>1, <1>2, <1>3

LEMMA FlipConverterInv ==
  ASSUME ConverterInv, NEW p \in Process, FlipConverts(p) PROVE ConverterInv'
<1> DEFINE s == CString(string_processing_buffer)
<1>1. /\ Reaches(p, "convert") /\ GoesTo(p, "end") /\ writers[p].mode = "Flip"
      /\ UNCHANGED <<converter, conversion_mode, proc_buffer_in, met, wrote>>
      /\ proc_buffer_out' = CopiedInto(proc_buffer_out, Converted(s, "Flip"), Blank)
  BY DEF FlipConverts
<1>2. ASSUME ~met, NEW i \in 1 .. Len(wrote.text)
      PROVE  proc_buffer_out'[i] = Converted(CString(proc_buffer_in), writers[p].mode)[i]
  <2>1. s = CString(proc_buffer_in)
    BY <1>1, <1>2 DEF ConverterInv, Progress, Reaches
  <2>2. /\ Buffer = 1 .. BUFFER_SIZE /\ BUFFER_SIZE \in Nat
        /\ Len(wrote.text) \in Nat /\ Len(s) \in Nat
        /\ Len(wrote.text) <= Len(s) /\ Len(s) <= BUFFER_SIZE
    BY <1>1, <1>2, <2>1, MessageFits
  <2> HIDE DEF s
  <2>3. Len(Converted(s, "Flip")) = Len(s)
    BY <2>2 DEF Converted, Flipped
  <2>4. i \in Buffer /\ i <= Len(Converted(s, "Flip"))
    BY <2>2, <2>3
  <2>5. QED
    BY <1>1, <2>1, <2>4 DEF CopiedInto
<1>3. QED
  BY <1>1, <1>2, ConversionGoesOn

LEMMA UpperConverterInv ==
  ASSUME ConverterInv, NEW p \in Process, UpperConverts(p) PROVE ConverterInv'
<1> DEFINE s == SubSeq(proc_buffer_in, 1, writers[p].length)
<1>1. /\ Reaches(p, "convert") /\ GoesTo(p, "end") /\ writers[p].mode = "Uppercase"
      /\ UNCHANGED <<converter, conversion_mode, proc_buffer_in, met, wrote>>
      /\ proc_buffer_out' = [i \in Buffer |-> IF i <= Len(s) THEN Converted(s, "Uppercase")[i]
                                            ELSE proc_buffer_out[i]]
  BY DEF UpperConverts
<1>2. ASSUME ~met, NEW i \in 1 .. Len(wrote.text)
      PROVE  proc_buffer_out'[i] = Converted(CString(proc_buffer_in), writers[p].mode)[i]
  <2> DEFINE c == CString(proc_buffer_in)
  <2>1. writers[p].length = Len(c)
    BY <1>1, <1>2 DEF ConverterInv, Progress, Reaches
  <2>2. /\ IsBuffer(proc_buffer_in) /\ Buffer = 1 .. BUFFER_SIZE /\ BUFFER_SIZE \in Nat
        /\ Len(wrote.text) \in Nat /\ Len(c) \in Nat
        /\ Len(wrote.text) <= Len(c) /\ Len(c) <= BUFFER_SIZE
    BY <1>1, <1>2, MessageFits
  <2>3. /\ proc_buffer_in \in [Buffer -> Characters(proc_buffer_in)]
        /\ \A j \in 1 .. Len(c) : c[j] = proc_buffer_in[j]
    <3>1. proc_buffer_in \in [Buffer -> Characters(proc_buffer_in)]
      BY <2>2 DEF IsBuffer, Characters
    <3>2. QED
      BY <3>1, CStringEnds
  <2> HIDE DEF c
  <2>4. Len(s) = Len(c) /\ \A j \in 1 .. Len(c) : s[j] = proc_buffer_in[j]
    <3>1. \A j \in 1 .. Len(c) : proc_buffer_in[j] \in Characters(proc_buffer_in)
      BY <2>2, <2>3
    <3>2. /\ Len(SubSeq(proc_buffer_in, 1, Len(c))) = IF 1 <= Len(c) THEN Len(c) - 1 + 1 ELSE 0
          /\ \A j \in 1 .. Len(c) - 1 + 1 :
               SubSeq(proc_buffer_in, 1, Len(c))[j] = proc_buffer_in[1 + j - 1]
      BY <2>2, <3>1, SubSeqProperties
    <3>3. QED
      BY <2>1, <2>2, <3>2
  <2> HIDE DEF s
  <2>5. i \in Buffer /\ i \in 1 .. Len(s) /\ i \in 1 .. Len(c) /\ i <= Len(s) /\ s[i] = c[i]
    BY <2>2, <2>3, <2>4
  <2>6. Converted(s, "Uppercase")[i] = Upper(c[i]) /\ Converted(c, "Uppercase")[i] = Upper(c[i])
    BY <2>5 DEF Converted
  <2>7. proc_buffer_out'[i] = Converted(s, "Uppercase")[i]
    BY <1>1, <2>5
  <2>8. QED
    BY <1>1, <2>6, <2>7 DEF c
<1>3. QED
  BY <1>1, <1>2, ConversionGoesOn

(* A write returns: if it met no other, its conversion is there to show.   *)
LEMMA ReturnConverterInv ==
  ASSUME ConverterInv, NEW p \in Process, NEW step, Reaches(p, step), step # "none", Returns(p),
         UNCHANGED <<conversion_mode, proc_buffer_in, met>>,
         converter' \in {converter, "overrun"},
         ~met => /\ OutputShows(proc_buffer_out', wrote.text, writers[p].mode,
                                CString(proc_buffer_in))
                 /\ converter' = "overrun" => Len(CString(proc_buffer_in)) + 2 > BUFFER_SIZE
  PROVE  ConverterInv'
<1>1. /\ writers[p].at # "none" /\ converter \in {"file", "loaded"}
      /\ ConverterShape /\ WritersTyped /\ WritesMeet /\ NothingRecorded
      /\ IsBuffer(proc_buffer_in)
  BY DEF Reaches, ConverterInv, ConverterShape
<1>2. NotWriting \in WriterStates /\ NotWriting.at = "none"
  BY DEF NotWriting, WriterStates
<1>3. writers' = [writers EXCEPT ![p] = NotWriting]
  BY DEF Returns, Finishes
<1>4. /\ WritersTyped' /\ WritesMeet' /\ writers'[p] = NotWriting
      /\ \A q \in Process \ {p} : writers'[q] = writers[q]
      /\ ~met => \A q \in Process \ {p} : writers[q].at = "none"
  BY <1>1, <1>2, <1>3, WriterGoes
<1>5. wrote' = IF met THEN wrote
               ELSE [wrote EXCEPT !.mode = writers[p].mode, !.input = CString(proc_buffer_in)]
  BY DEF Returns
<1>6. /\ wrote' = [text |-> wrote'.text, mode |-> wrote'.mode, input |-> wrote'.input]
      /\ met => wrote'.mode = "none"
      /\ ~met => /\ wrote'.text = wrote.text /\ wrote'.mode = writers[p].mode
                 /\ wrote'.input = CString(proc_buffer_in)
  <2>1. CASE met
    BY <1>1, <1>5, <2>1 DEF ConverterShape, NothingRecorded
  <2>2. CASE ~met
    <3>1. wrote = [text |-> wrote.text, mode |-> wrote.mode, input |-> wrote.input]
      BY <1>1 DEF ConverterShape
    <3>2. wrote' = [text |-> wrote.text, mode |-> writers[p].mode, input |-> CString(proc_buffer_in)]
      BY <1>5, <2>2, <3>1
    <3>3. QED
      BY <2>2, <3>2
  <2>3. QED
    BY <2>1, <2>2
<1>7. ConverterShape'
  BY <1>1, <1>4, <1>6 DEF ConverterShape, IsBuffer
<1>8. NothingRecorded'
  <2>1. CASE met
    BY <1>6, <2>1 DEF NothingRecorded
  <2>2. CASE ~met
    BY <1>2, <1>4, <2>2 DEF NothingRecorded
  <2>3. QED
    BY <2>1, <2>2
<1>9. ~met => \A q \in Process : Progress(q)'
  BY <1>2, <1>4 DEF Progress
<1>10. FlipsWhenLoaded'
  <2>1. NotWriting.mode = "none" /\ FlipsWhenLoaded
    BY DEF NotWriting, ConverterInv
  <2>2. QED
    BY <1>1, <1>4, <2>1 DEF FlipsWhenLoaded
<1>11. MessageIsConverted'
  <2>1. CASE met
    BY <1>6, <2>1 DEF MessageIsConverted
  <2>2. CASE ~met
    BY <1>6, <2>2 DEF MessageIsConverted
  <2>3. QED
    BY <2>1, <2>2
<1>12. QED
  BY <1>4, <1>7, <1>8, <1>9, <1>10, <1>11 DEF ConverterInv

LEMMA CopyReturnsInv ==
  ASSUME ConverterInv, NEW p \in Process, CopyConverts(p) PROVE ConverterInv'
<1> DEFINE s == CString(proc_buffer_in)
<1>1. /\ Reaches(p, "convert") /\ Returns(p) /\ writers[p].mode = "NoneConversion"
      /\ UNCHANGED <<conversion_mode, proc_buffer_in, met>>
      /\ proc_buffer_out' = CopiedInto(proc_buffer_out, Converted(s, "NoneConversion"), Nul)
      /\ converter' = IF Len(s) + 1 > BUFFER_SIZE THEN "overrun" ELSE converter
      /\ converter \in {"file", "loaded"}
  BY DEF CopyConverts, Reaches
<1>2. ASSUME ~met
      PROVE  /\ OutputShows(proc_buffer_out', wrote.text, writers[p].mode, s)
             /\ converter' = "overrun" => Len(s) + 2 > BUFFER_SIZE
  <2>1. /\ Posed(proc_buffer_in, wrote.text) /\ IsBuffer(proc_buffer_in)
        /\ Buffer = 1 .. BUFFER_SIZE /\ BUFFER_SIZE \in Nat
        /\ Len(wrote.text) \in Nat /\ Len(s) \in Nat
        /\ Len(wrote.text) <= Len(s) /\ Len(s) <= BUFFER_SIZE
    BY <1>1, <1>2, MessageFits
  <2>2. Converted(s, "NoneConversion") = s
    BY DEF Converted
  <2>3. \A i \in 1 .. Len(wrote.text) : proc_buffer_out'[i] = Converted(s, writers[p].mode)[i]
    <3> HIDE DEF s
    <3>1. \A i \in 1 .. Len(wrote.text) : i \in Buffer /\ i <= Len(s)
      BY <2>1
    <3>2. QED
      BY <1>1, <2>2, <3>1 DEF CopiedInto
  <2>4. OutputShows(proc_buffer_out', wrote.text, writers[p].mode, s)
    BY <2>1, <2>3, ConversionShows
  <2>5. converter' = "overrun" => Len(s) + 2 > BUFFER_SIZE
    BY <1>1, <2>1
  <2>6. QED
    BY <2>4, <2>5
<1>3. converter' \in {converter, "overrun"}
  BY <1>1
<1>4. QED
  BY <1>1, <1>2, <1>3, ReturnConverterInv

LEMMA EndReturnsInv ==
  ASSUME ConverterInv, NEW p \in Process, EndMessage(p) PROVE ConverterInv'
<1> DEFINE s == CString(proc_buffer_in)
           n == IF writers[p].mode = "Flip" THEN Len(s) ELSE writers[p].length
<1>1. /\ Reaches(p, "end") /\ Returns(p) /\ writers[p].at = "end"
      /\ UNCHANGED <<conversion_mode, proc_buffer_in, met>>
      /\ proc_buffer_out' = [i \in Buffer |-> IF i = n + 2 THEN Nul ELSE proc_buffer_out[i]]
      /\ converter' = IF n + 2 > BUFFER_SIZE THEN "overrun" ELSE converter
      /\ converter \in {"file", "loaded"}
  BY DEF EndMessage, Reaches
<1>2. ASSUME ~met
      PROVE  /\ OutputShows(proc_buffer_out', wrote.text, writers[p].mode, s)
             /\ converter' = "overrun" => Len(s) + 2 > BUFFER_SIZE
  <2>1. /\ Buffer = 1 .. BUFFER_SIZE /\ BUFFER_SIZE \in Nat
        /\ Len(wrote.text) \in Nat /\ Len(s) \in Nat
        /\ Len(wrote.text) <= Len(s) /\ Len(s) <= BUFFER_SIZE
    BY <1>1, <1>2, MessageFits
  <2>2. n = Len(s) /\ OutputShows(proc_buffer_out, wrote.text, writers[p].mode, s)
    BY <1>1, <1>2 DEF ConverterInv, Progress
  <2> HIDE DEF n, s
  <2>3. \A i \in 1 .. Len(wrote.text) : i \in Buffer /\ i # n + 2
    BY <2>1, <2>2
  <2>4. \A i \in 1 .. Len(wrote.text) : proc_buffer_out'[i] = proc_buffer_out[i]
    BY <1>1, <2>3
  <2>5. OutputShows(proc_buffer_out', wrote.text, writers[p].mode, s)
    BY <2>2, <2>4, OutputShowsStill
  <2>6. converter' = "overrun" => Len(s) + 2 > BUFFER_SIZE
    BY <1>1, <2>1, <2>2
  <2>7. QED
    BY <2>5, <2>6
<1>3. converter' \in {converter, "overrun"}
  BY <1>1
<1>4. QED
  BY <1>1, <1>2, <1>3, ReturnConverterInv

(* When a write that met no other has returned, what readers get of its    *)
(* message is the conversion, for any messages, sizes of the buffers and   *)
(* number of processes, and whatever writes that met have left in them;    *)
(* it goes past the buffers only when the string fills them                *)
(* (procfs_write_callback and strings_processor.c).                        *)
THEOREM MessagesAreConverted == ConverterSpec => []MessageIsConverted
<1>1. ConverterInv /\ [ConverterNext]_converterVars => ConverterInv'
  <2> SUFFICES ASSUME ConverterInv, [ConverterNext]_converterVars PROVE ConverterInv'
    OBVIOUS
  <2>1. CASE CreateBuffers \/ CreateFile \/ CreateConverter \/ StoreMode \/ UnloadConverter
    BY <2>1, ConverterLoads
  <2>2. ASSUME NEW p \in Process,
               \/ CopyMessage(p) \/ MeasureMessage(p) \/ StoreWords(p)
               \/ CopyConverts(p) \/ FlipConverts(p) \/ UpperConverts(p) \/ EndMessage(p)
        PROVE  ConverterInv'
    BY <2>2, CopyConverterInv, MeasureConverterInv, StoreConverterInv, CopyReturnsInv,
       FlipConverterInv, UpperConverterInv, EndReturnsInv
  <2>3. CASE UNCHANGED converterVars
    BY <2>3 DEF converterVars, ConverterInv, ConverterShape, WritersTyped, WritesMeet,
       NothingRecorded, FlipsWhenLoaded, Progress, Posed, IsBuffer, MessageIsConverted
  <2>4. QED
    BY <2>1, <2>2, <2>3 DEF ConverterNext
<1>2. QED
  BY <1>1, InitConverterInv, PTL DEF ConverterSpec, ConverterInv

(***************************************************************************)
(* The clock driver.                                                       *)
(***************************************************************************)

LEMMA DivisionIs ==
  ASSUME NEW t \in Nat, NEW d \in Nat \ {0}
  PROVE  /\ t \div d \in Nat /\ t % d \in Nat
         /\ t % d < d /\ t = d * (t \div d) + (t % d)
OBVIOUS

LEMMA ProductsGrow ==
  ASSUME NEW d \in Nat, NEW a \in Int, NEW b \in Int, a <= b
  PROVE  d * a <= d * b
<1>1. d * (b - a) >= 0 /\ d * (b - a) = d * b - d * a
  OBVIOUS
<1>2. d * a \in Int /\ d * b \in Int
  OBVIOUS
<1> DEFINE low == d * a
           high == d * b
           more == d * (b - a)
<1> HIDE DEF low, high, more
<1>3. more >= 0 /\ more = high - low /\ low \in Int /\ high \in Int
  BY <1>1, <1>2 DEF low, high, more
<1>4. low <= high
  BY <1>3
<1>5. QED
  BY <1>4 DEF low, high

(* There is one quotient and one remainder.                                *)
LEMMA QuotientIs ==
  ASSUME NEW t \in Nat, NEW d \in Nat \ {0}, NEW q \in Int, d * q <= t, t < d * q + d
  PROVE  t \div d = q
<1> DEFINE p == t \div d
<1>1. p \in Nat /\ d * p <= t /\ t < d * p + d
  BY DivisionIs
<1> HIDE DEF p
<1>2. d * p \in Int /\ d * q \in Int /\ d * (p + 1) = d * p + d /\ d * (q + 1) = d * q + d
  BY <1>1
<1>3. ~(p + 1 <= q)
  <2>1. SUFFICES ASSUME p + 1 <= q PROVE FALSE
    OBVIOUS
  <2>2. d * (p + 1) <= d * q
    BY <1>1, <2>1, ProductsGrow
  <2>3. QED
    BY <1>1, <1>2, <2>2
<1>4. ~(q + 1 <= p)
  <2>1. SUFFICES ASSUME q + 1 <= p PROVE FALSE
    OBVIOUS
  <2>2. d * (q + 1) <= d * p
    BY <1>1, <2>1, ProductsGrow
  <2>3. QED
    BY <1>1, <1>2, <2>2
<1>5. QED
  BY <1>1, <1>3, <1>4 DEF p

LEMMA QuotientsGrow ==
  ASSUME NEW d \in Nat \ {0}, NEW s \in Nat, NEW t \in Nat, s <= t
  PROVE  s \div d <= t \div d
<1> DEFINE p == s \div d
           q == t \div d
<1>1. p \in Nat /\ q \in Nat /\ d * p <= s /\ t < d * q + d
  BY DivisionIs
<1> HIDE DEF p, q
<1>2. ~(q + 1 <= p)
  <2>1. SUFFICES ASSUME q + 1 <= p PROVE FALSE
    OBVIOUS
  <2>2. d * (q + 1) <= d * p
    BY <1>1, <2>1, ProductsGrow
  <2>3. d * (q + 1) = d * q + d /\ d * q \in Int /\ d * p \in Int
    BY <1>1
  <2>4. QED
    BY <1>1, <2>2, <2>3
<1>3. QED
  BY <1>1, <1>2 DEF p, q

(* The chip's registers put a time together: seconds and minutes are less  *)
(* than an hour, hours are what is left.                                   *)
Seconds(t) == t % Base
Minutes(t) == (t \div Base) % Base
Hours(t) == t \div (Base * Base)

LEMMA TimeInRegisters ==
  ASSUME NEW t \in Nat
  PROVE  /\ Seconds(t) \in 0 .. Base - 1 /\ Minutes(t) \in Nat /\ Hours(t) \in Nat
         /\ t \div Base \in Nat
         /\ t = Base * (t \div Base) + Seconds(t)
         /\ Base * (t \div Base) = Base * Base * Hours(t) + Base * Minutes(t)
         /\ Base * Minutes(t) \in 0 .. Base * Base - Base
<1> DEFINE b == Base
           q == t \div b
           h == q \div b
           m == q % b
<1>0. b \in Nat \ {0}
  BY ClockAssumption
<1>1. q \in Nat /\ Seconds(t) \in 0 .. b - 1 /\ t = b * q + Seconds(t)
  BY <1>0, DivisionIs DEF Seconds
<1>2. h \in Nat /\ m \in 0 .. b - 1 /\ q = b * h + m
  <2>1. q \in Nat
    BY <1>1
  <2> HIDE DEF q
  <2>2. QED
    BY <1>0, <2>1, DivisionIs
<1>3. m = Minutes(t)
  BY DEF Minutes
<1> HIDE DEF b, q, h, m
<1>4. b * q = b * b * h + b * m
  <2>1. b * (b * h + m) = b * b * h + b * m
    BY <1>0, <1>2
  <2>2. QED
    BY <1>2, <2>1
<1>5. b * m <= b * (b - 1) /\ b * (b - 1) = b * b - b /\ b * m \in Nat
  <2>1. m <= b - 1 /\ m \in Nat /\ b - 1 \in Nat
    BY <1>0, <1>2
  <2>2. QED
    BY <1>0, <2>1, ProductsGrow
<1>6. h = Hours(t)
  <2> DEFINE d == b * b
  <2>1. d \in Nat \ {0} /\ d * h = b * b * h /\ b * q \in Nat /\ d * h \in Nat
    BY <1>0, <1>1, <1>2
  <2>2. b * b - b + (b - 1) < d /\ d \in Nat
    BY <1>0, <2>1
  <2>3. d * h <= t
    <3> DEFINE u == d * h
               v == b * m
               w == b * q
    <3>1. u \in Nat /\ v \in Nat /\ w = u + v /\ t = w + Seconds(t) /\ Seconds(t) >= 0
          /\ Seconds(t) \in Int
      BY <1>0, <1>1, <1>4, <1>5, <2>1
    <3> HIDE DEF u, v, w
    <3>2. u <= t
      BY <3>1
    <3>3. QED
      BY <3>2 DEF u
  <2>4. t < d * h + d
    <3> DEFINE u == d * h
               v == b * m
               w == b * q
    <3>1. u \in Nat /\ v \in Nat /\ w = u + v /\ t = w + Seconds(t) /\ Seconds(t) <= b - 1
          /\ Seconds(t) \in Int /\ v <= d - b
      BY <1>0, <1>1, <1>4, <1>5, <2>1
    <3> HIDE DEF u, v, w, d
    <3>2. t < u + d
      BY <1>0, <2>1, <3>1
    <3>3. QED
      BY <3>2 DEF u
  <2>5. t \div d = h
    <3> HIDE DEF d
    <3>1. QED
      BY <1>2, <2>1, <2>3, <2>4, QuotientIs
  <2>6. QED
    BY <2>5 DEF Hours, b
<1>7. QED
  BY <1>0, <1>1, <1>2, <1>3, <1>4, <1>5, <1>6 DEF b, q

(* When the minute and the hour of a time began, and what is between them. *)
MinuteStart(t) == Base * (t \div Base)
HourStart(t) == Base * Base * Hours(t)
MinutesPast(t) == Base * Minutes(t)

LEMMA TimeInParts ==
  ASSUME NEW t \in Nat
  PROVE  /\ Seconds(t) \in 0 .. Base - 1
         /\ MinuteStart(t) \in Nat /\ HourStart(t) \in Nat /\ MinutesPast(t) \in Nat
         /\ t = MinuteStart(t) + Seconds(t) /\ MinuteStart(t) = HourStart(t) + MinutesPast(t)
         /\ MinutesPast(t) <= Base * Base - Base
<1>1. Base \in Nat \ {0} /\ Minutes(t) \in Nat /\ Hours(t) \in Nat /\ t \div Base \in Nat
  BY TimeInRegisters, ClockAssumption
<1>2. MinuteStart(t) \in Nat /\ HourStart(t) \in Nat /\ MinutesPast(t) \in Nat
  BY <1>1 DEF MinuteStart, HourStart, MinutesPast
<1>3. Seconds(t) \in 0 .. Base - 1
  BY TimeInRegisters
<1>4. t = MinuteStart(t) + Seconds(t)
  BY TimeInRegisters, Zenon DEF MinuteStart
<1>5. MinuteStart(t) = HourStart(t) + MinutesPast(t)
  BY TimeInRegisters, Zenon DEF MinuteStart, HourStart, MinutesPast
<1>6. MinutesPast(t) \in 0 .. Base * Base - Base
  BY TimeInRegisters, Zenon DEF MinutesPast
<1>7. MinutesPast(t) <= Base * Base - Base
  <2> DEFINE d == Base * Base
  <2>1. d \in Nat /\ MinutesPast(t) \in 0 .. d - Base
    BY <1>1, <1>6
  <2> HIDE DEF d
  <2>2. MinutesPast(t) <= d - Base
    BY <1>1, <2>1
  <2>3. QED
    BY <2>2 DEF d
<1>8. QED
  BY <1>2, <1>3, <1>4, <1>5, <1>7, Zenon

LEMMA PartsGrow ==
  ASSUME NEW s \in Nat, NEW t \in Nat, s <= t
  PROVE  /\ MinuteStart(s) <= MinuteStart(t) /\ HourStart(s) <= HourStart(t)
         /\ s \div Base = t \div Base =>
              MinuteStart(s) = MinuteStart(t) /\ MinutesPast(s) = MinutesPast(t)
<1>1. Base \in Nat \ {0} /\ Base * Base \in Nat \ {0}
  BY ClockAssumption
<1>2. s \div Base <= t \div Base /\ Hours(s) <= Hours(t)
  BY <1>1, QuotientsGrow DEF Hours
<1>3. s \div Base \in Int /\ t \div Base \in Int /\ Hours(s) \in Int /\ Hours(t) \in Int
  BY TimeInRegisters
<1>4. MinuteStart(s) <= MinuteStart(t)
  BY <1>1, <1>2, <1>3, ProductsGrow DEF MinuteStart
<1>5. HourStart(s) <= HourStart(t)
  BY <1>1, <1>2, <1>3, ProductsGrow DEF HourStart
<1>6. QED
  BY <1>4, <1>5, Zenon DEF MinuteStart, MinutesPast, Minutes

(* A time read in pieces, the seconds at t1, the minutes at t2 and the     *)
(* hours at t3, is not before t1 and less than an hour after t3.           *)
TornTime(t1, t2, t3) == Seconds(t1) + MinutesPast(t2) + HourStart(t3)

LEMMA TornTimeIs ==
  ASSUME NEW t1 \in Nat, NEW t2 \in Nat, NEW t3 \in Nat, t1 <= t2, t2 <= t3
  PROVE  /\ TornTime(t1, t2, t3) \in Nat
         /\ t1 <= TornTime(t1, t2, t3) /\ TornTime(t1, t2, t3) < t3 + Base * Base
         /\ t1 \div Base = t3 \div Base => TornTime(t1, t2, t3) = t1
<1> DEFINE d == Base * Base
<1>1. Base \in Nat \ {0} /\ d \in Nat
  BY ClockAssumption
<1>2. /\ Seconds(t1) \in 0 .. Base - 1 /\ t1 = MinuteStart(t1) + Seconds(t1)
      /\ MinuteStart(t1) \in Nat
  BY TimeInParts
<1>3. /\ MinuteStart(t2) \in Nat /\ HourStart(t2) \in Nat /\ MinutesPast(t2) \in Nat
      /\ MinuteStart(t2) = HourStart(t2) + MinutesPast(t2) /\ MinutesPast(t2) <= d - Base
  BY TimeInParts
<1>4. /\ HourStart(t3) \in Nat /\ HourStart(t3) <= MinuteStart(t3) /\ MinuteStart(t3) <= t3
      /\ MinuteStart(t3) = HourStart(t3) + MinutesPast(t3)
      /\ MinuteStart(t3) \in Nat /\ MinutesPast(t3) \in Nat
  <2>1. /\ Seconds(t3) \in 0 .. Base - 1 /\ t3 = MinuteStart(t3) + Seconds(t3)
        /\ HourStart(t3) \in Nat /\ MinuteStart(t3) \in Nat /\ MinutesPast(t3) \in Nat
        /\ MinuteStart(t3) = HourStart(t3) + MinutesPast(t3)
    BY TimeInParts
  <2>2. QED
    BY <1>1, <2>1
<1>5. MinuteStart(t1) <= MinuteStart(t2) /\ HourStart(t2) <= HourStart(t3)
  BY PartsGrow
<1> HIDE DEF d
<1>6. TornTime(t1, t2, t3) \in Nat /\ t1 <= TornTime(t1, t2, t3)
      /\ TornTime(t1, t2, t3) < t3 + d
  BY <1>1, <1>2, <1>3, <1>4, <1>5 DEF TornTime
<1>7. ASSUME t1 \div Base = t3 \div Base PROVE TornTime(t1, t2, t3) = t1
  <2>1. t2 \div Base = t1 \div Base /\ t2 \div Base = t3 \div Base
    <3>1. t1 \div Base <= t2 \div Base /\ t2 \div Base <= t3 \div Base
      BY <1>1, QuotientsGrow
    <3>2. t1 \div Base \in Int /\ t2 \div Base \in Int /\ t3 \div Base \in Int
      BY TimeInRegisters
    <3>3. QED
      BY <1>7, <3>1, <3>2
  <2>2. MinuteStart(t1) = MinuteStart(t2)
        /\ MinuteStart(t2) = MinuteStart(t3) /\ MinutesPast(t2) = MinutesPast(t3)
    BY <2>1, PartsGrow
  <2>3. QED
    BY <1>2, <1>3, <1>4, <2>2 DEF TornTime
<1>8. QED
  BY <1>6, <1>7 DEF d

(* Leaving out the day makes a time that is not negative no larger.        *)
LEMMA WithoutDays ==
  ASSUME NEW d \in Nat \ {0}, NEW x \in Nat, NEW k \in Nat
  PROVE  (x - d * k) % d <= x
<1> DEFINE y == x - d * k
           q == y \div d
           r == y % d
<1>1. y \in Int
  OBVIOUS
<1>2. q \in Int /\ r \in 0 .. d - 1 /\ y = d * q + r
  <2> HIDE DEF y
  <2>1. QED
    BY <1>1
<1>3. d * (q + k) = d * q + d * k /\ d * q \in Int /\ d * k \in Int /\ d * (q + k) \in Int
  BY <1>2
<1>4. x = d * (q + k) + r
  <2> DEFINE a == d * q
             c == d * k
  <2>1. a \in Int /\ c \in Int /\ x - c = a + r /\ d * (q + k) = a + c
    BY <1>2, <1>3
  <2> HIDE DEF a, c, r, q
  <2>2. QED
    BY <1>2, <2>1
<1> HIDE DEF y, q, r
<1>5. q + k >= 0
  <2>1. SUFFICES ASSUME q + k <= -1 PROVE FALSE
    BY <1>2
  <2>2. d * (q + k) <= d * (-1)
    BY <1>2, <2>1, ProductsGrow
  <2>3. d * (-1) = -d
    OBVIOUS
  <2>4. QED
    BY <1>2, <1>3, <1>4, <2>2, <2>3
<1>6. d * (q + k) >= 0
  <2>1. d * 0 <= d * (q + k)
    BY <1>2, <1>5, ProductsGrow
  <2>2. QED
    BY <2>1
<1>7. r <= x
  BY <1>2, <1>3, <1>4, <1>6
<1>8. QED
  BY <1>7 DEF y, r

(* The registers of three moments, as the driver puts them together.       *)
LEMMA TornTimeShown ==
  ASSUME NEW from \in Nat, NEW t1 \in Nat, NEW t2 \in Nat, NEW t3 \in Nat, NEW now \in Nat,
         from <= t1, t1 <= t2, t2 <= t3, t3 <= now, NEW data,
         data.sec = Seconds(t1), data.min = Minutes(t2), data.hour = Hours(t3) % Base
  PROVE  LET ahead == (TimeOf(data) - from) % DayLength
         IN /\ ahead < (now - from) + Base * Base
            /\ from \div Base = now \div Base => ahead <= now - from
<1> DEFINE torn == TornTime(t1, t2, t3)
           k == Hours(t3) \div Base
           ahead == (TimeOf(data) - from) % DayLength
           d == Base * Base
<1>1. Base \in Nat \ {0} /\ d \in Nat /\ DayLength \in Nat \ {0}
  BY ClockAssumption DEF DayLength
<1>2. Hours(t3) \in Nat /\ k \in Nat /\ Hours(t3) % Base \in Nat
      /\ Hours(t3) = Base * k + (Hours(t3) % Base)
  BY <1>1, TimeInRegisters, DivisionIs
<1>3. HourStart(t3) = DayLength * k + Base * Base * data.hour
  <2> DEFINE r == Hours(t3) % Base
  <2>1. r \in Nat /\ k \in Nat /\ Hours(t3) = Base * k + r
    BY <1>2
  <2> HIDE DEF r, k
  <2>2. Base * Base * (Base * k + r) = Base * Base * Base * k + Base * Base * r
    BY <1>1, <2>1
  <2>3. HourStart(t3) = Base * Base * Base * k + Base * Base * r
    BY <2>1, <2>2 DEF HourStart
  <2>4. data.hour = r
    BY DEF r
  <2>5. QED
    BY <2>3, <2>4, Zenon DEF DayLength
<1>4. TimeOf(data) = torn - DayLength * k
  <2> DEFINE a == Seconds(t1)
             b == MinutesPast(t2)
             h == HourStart(t3)
             c == Base * Base * data.hour
             e == DayLength * k
  <2>1. a \in Int /\ b \in Int /\ h \in Int
    <3>1. Seconds(t1) \in 0 .. Base - 1 /\ MinutesPast(t2) \in Nat /\ HourStart(t3) \in Nat
      BY TimeInParts, Zenon
    <3>2. QED
      BY <1>1, <3>1
  <2>2. e \in Int /\ c \in Int
    BY <1>1, <1>2, SMTT(30)
  <2>3. TimeOf(data) = a + b + c
    BY Zenon DEF TimeOf, MinutesPast
  <2>4. torn = a + b + h
    BY DEF TornTime
  <2>5. h = e + c
    BY <1>3
  <2> HIDE DEF a, b, c, e, h, torn
  <2>6. TimeOf(data) = torn - e
    BY <2>1, <2>2, <2>3, <2>4, <2>5
  <2>7. QED
    BY <2>6, Zenon DEF e
<1>5. torn \in Nat /\ t1 <= torn /\ torn < t3 + d
      /\ (t1 \div Base = t3 \div Base => torn = t1)
  BY TornTimeIs
<1> HIDE DEF torn
<1>6. torn - from \in Nat
  BY <1>5
<1>7. ahead <= torn - from
  <2> DEFINE x == torn - from
             e == DayLength * k
  <2>1. (x - e) % DayLength <= x
    BY <1>1, <1>2, <1>6, WithoutDays
  <2>2. TimeOf(data) - from = x - e
    <3>1. e \in Int
      BY <1>1, <1>2
    <3> HIDE DEF e
    <3>2. TimeOf(data) = torn - e
      BY <1>4 DEF e
    <3>3. QED
      BY <1>5, <3>1, <3>2
  <2>3. QED
    BY <2>1, <2>2, Zenon
<1>8. ahead \in Int
  <2>1. TimeOf(data) - from \in Int
    <3>1. DayLength * k \in Int
      BY <1>1, <1>2
    <3> DEFINE e == DayLength * k
    <3> HIDE DEF e
    <3>2. TimeOf(data) = torn - e /\ e \in Int
      BY <1>4, <3>1 DEF e
    <3>3. QED
      BY <1>5, <3>2
  <2>2. QED
    BY <1>1, <2>1
<1> HIDE DEF ahead, d
<1>9. ahead < (now - from) + d
  BY <1>1, <1>5, <1>7, <1>8
<1>10. ASSUME from \div Base = now \div Base PROVE ahead <= now - from
  <2>1. t1 \div Base = t3 \div Base
    <3>1. from \div Base <= t1 \div Base /\ t1 \div Base <= t3 \div Base
          /\ t3 \div Base <= now \div Base
      BY <1>1, QuotientsGrow
    <3>2. from \div Base \in Int /\ t1 \div Base \in Int /\ t3 \div Base \in Int
          /\ now \div Base \in Int
      BY TimeInRegisters
    <3>3. QED
      BY <1>10, <3>1, <3>2
  <2>2. torn = t1
    BY <1>5, <2>1
  <2>3. QED
    BY <1>5, <1>7, <1>8, <2>2
<1>11. QED
  BY <1>9, <1>10 DEF ahead, d

Reads == {<< >>, <<"hour">>, <<"min", "hour">>, Order}
Shows == [reads : Reads, on : BOOLEAN, since : Nat, alone : BOOLEAN]

ClockShape ==
  /\ chip \in Nat /\ show \in [Process -> Shows]
  /\ ds_data \in [{"sec", "min", "hour"} -> Int]
  /\ \A p \in Process : show[p].on => ds3231 = "loaded"
  /\ \A p \in Process : ~show[p].on => show[p].reads = << >>

(* What a show that nobody disturbed has read, each register at a moment   *)
(* since it began, one after the other.                                    *)
ReadSeconds(from) == \E t1 \in from .. chip : ds_data["sec"] = Seconds(t1)
ReadMinutes(from) ==
  \E t1 \in from .. chip : \E t2 \in t1 .. chip :
    ds_data["sec"] = Seconds(t1) /\ ds_data["min"] = Minutes(t2)
ReadHours(from) ==
  \E t1 \in from .. chip : \E t2 \in t1 .. chip : \E t3 \in t2 .. chip :
    /\ ds_data["sec"] = Seconds(t1) /\ ds_data["min"] = Minutes(t2)
    /\ ds_data["hour"] = Hours(t3) % Base
Alone(p) ==
  /\ show[p].since <= chip
  /\ \A q \in Process \ {p} : ~show[q].on
  /\ show[p].reads = <<"min", "hour">> => ReadSeconds(show[p].since)
  /\ show[p].reads = <<"hour">> => ReadMinutes(show[p].since)
  /\ show[p].reads = << >> => ReadHours(show[p].since)

(* The inductive invariant.                                                *)
ClockInv ==
  /\ ClockShape
  /\ \A p \in Process : show[p].on /\ show[p].alone => Alone(p)

LEMMA ReadsDiffer ==
  /\ << >> # <<"hour">> /\ << >> # <<"min", "hour">> /\ << >> # Order
  /\ <<"hour">> # <<"min", "hour">> /\ <<"hour">> # Order /\ <<"min", "hour">> # Order
  /\ Head(Order) = "sec" /\ Tail(Order) = <<"min", "hour">>
  /\ Head(<<"min", "hour">>) = "min" /\ Tail(<<"min", "hour">>) = <<"hour">>
  /\ Head(<<"hour">>) = "hour" /\ Tail(<<"hour">>) = << >>
BY DEF Order

LEMMA MetIs ==
  ASSUME NEW s \in Shows
  PROVE  /\ Met(s) \in Shows /\ Met(s).on = s.on /\ Met(s).reads = s.reads
         /\ ~(Met(s).on /\ Met(s).alone)
BY DEF Met, Shows

LEMMA NoShowIs ==
  NoShow \in Shows /\ NoShow.on = FALSE /\ NoShow.reads = << >>
BY DEF NoShow, Shows, Reads

LEMMA ClockInitInv == ClockInit => ClockInv
<1> SUFFICES ASSUME ClockInit PROVE ClockInv
  OBVIOUS
<1>1. \A p \in Process : show[p] = NoShow
  BY DEF ClockInit
<1>2. show \in [Process -> Shows]
  BY NoShowIs DEF ClockInit
<1>3. chip \in Nat /\ ds_data \in [{"sec", "min", "hour"} -> Int]
  BY DEF ClockInit
<1>4. QED
  BY <1>1, <1>2, <1>3, NoShowIs DEF ClockInv, ClockShape

(* Steps that read nothing, while the shows that are left alone go on or   *)
(* begin.                                                                  *)
LEMMA CountKeeps == ClockInv /\ ChipCounts => ClockInv'
<1> SUFFICES ASSUME ClockInv, ChipCounts PROVE ClockInv'
  OBVIOUS
<1>1. chip \in Nat /\ chip' = chip + 1 /\ UNCHANGED <<ds3231, drv_client, ds_data, show>>
  BY DEF ChipCounts, ClockInv, ClockShape
<1>2. ClockShape'
  BY <1>1 DEF ClockInv, ClockShape
<1>3. ASSUME NEW from \in Nat PROVE from .. chip \subseteq from .. chip'
  BY <1>1
<1>4. ASSUME NEW p \in Process, show[p].on, show[p].alone PROVE Alone(p)'
  <2> DEFINE from == show[p].since
  <2>1. Alone(p)
    BY <1>4 DEF ClockInv
  <2>2. from \in Nat /\ from <= chip
    BY <2>1 DEF Alone, ClockInv, ClockShape, Shows
  <2>3. from <= chip' /\ from' = from
    BY <1>1, <2>2
  <2>4. \A t \in from .. chip : t \in Nat /\ t \in from .. chip'
    BY <1>1, <2>2
  <2>5. \A t \in Nat : \A u \in t .. chip : u \in Nat /\ u \in t .. chip'
    BY <1>1
  <2> HIDE DEF from
  <2>6. ReadSeconds(from) => \E t1 \in from .. chip' : ds_data["sec"] = Seconds(t1)
    BY <2>4, Zenon DEF ReadSeconds
  <2>7. ReadMinutes(from) =>
          \E t1 \in from .. chip' : \E t2 \in t1 .. chip' :
            ds_data["sec"] = Seconds(t1) /\ ds_data["min"] = Minutes(t2)
    BY <2>4, <2>5, Zenon DEF ReadMinutes
  <2>8. ReadHours(from) =>
          \E t1 \in from .. chip' : \E t2 \in t1 .. chip' : \E t3 \in t2 .. chip' :
            /\ ds_data["sec"] = Seconds(t1) /\ ds_data["min"] = Minutes(t2)
            /\ ds_data["hour"] = Hours(t3) % Base
    BY <2>4, <2>5, Zenon DEF ReadHours
  <2>9. /\ ReadSeconds(from) => ReadSeconds(from)'
        /\ ReadMinutes(from) => ReadMinutes(from)'
        /\ ReadHours(from) => ReadHours(from)'
    BY <1>1, <2>3, <2>6, <2>7, <2>8 DEF ReadSeconds, ReadMinutes, ReadHours, Seconds,
       Minutes, Hours
  <2>10. QED
    BY <1>1, <2>1, <2>3, <2>9, Zenon DEF Alone, from
<1>5. QED
  BY <1>1, <1>2, <1>4 DEF ClockInv

LEMMA NoneIsOn ==
  ASSUME ClockShape', \A p \in Process : ~(show'[p].on /\ show'[p].alone)
  PROVE  ClockInv'
BY DEF ClockInv

LEMMA ReadStays ==
  ASSUME NEW p \in Process, Alone(p), UNCHANGED <<chip, ds_data>>,
         show'[p] = show[p], \A q \in Process \ {p} : ~show'[q].on
  PROVE  Alone(p)'
BY Zenon DEF Alone, ReadSeconds, ReadMinutes, ReadHours, Seconds, Minutes, Hours

LEMMA OthersKeepClock ==
  ASSUME ClockInv,
         \/ AddDriver \/ CreateAttributes \/ Probe \/ RemoveClient \/ UnloadDriver
         \/ UNCHANGED clockVars
  PROVE  ClockInv'
<1>1. /\ chip \in Nat /\ show \in [Process -> Shows]
      /\ ds_data \in [{"sec", "min", "hour"} -> Int]
      /\ \A p \in Process : show[p].on => ds3231 = "loaded"
      /\ \A p \in Process : ~show[p].on => show[p].reads = << >>
      /\ \A p \in Process : show[p].on /\ show[p].alone => Alone(p)
  BY DEF ClockInv, ClockShape
<1>2. Base * Base - 2 \in Nat /\ DayLength - 2 \in Nat
  <2>1. Base \in Nat /\ Base >= 2
    BY ClockAssumption
  <2>2. Base * 2 <= Base * Base
    BY <2>1, ProductsGrow
  <2>3. Base * Base \in Nat /\ Base * Base >= 4
    BY <2>1, <2>2
  <2>4. DayLength \in Nat /\ DayLength >= 4
    <3> DEFINE d == Base * Base
    <3>1. d \in Nat /\ d >= 4
      BY <2>3
    <3> HIDE DEF d
    <3>2. d * 2 <= d * Base
      BY <2>1, <3>1, ProductsGrow
    <3>3. d * Base \in Nat
      BY <2>1, <3>1
    <3>4. d * Base >= 4
      BY <3>1, <3>2, <3>3
    <3>5. QED
      BY <3>3, <3>4 DEF d, DayLength
  <2>5. QED
    BY <2>3, <2>4
<1>3. CASE AddDriver
  <2>1. ds3231 = "absent" /\ chip' \in Nat /\ UNCHANGED <<ds_data, show>>
    BY <1>2, <1>3 DEF AddDriver
  <2>2. \A p \in Process : ~show[p].on
    BY <1>1, <2>1
  <2>3. ClockShape'
    BY <1>1, <2>1, <2>2 DEF ClockShape
  <2>4. QED
    BY <2>1, <2>2, <2>3, NoneIsOn
<1>4. CASE CreateAttributes
  <2>1. ds3231 = "driver" /\ UNCHANGED <<chip, ds_data, show>>
    BY <1>4 DEF CreateAttributes
  <2>2. \A p \in Process : ~show[p].on
    BY <1>1, <2>1
  <2>3. ClockShape'
    BY <1>1, <2>1, <2>2 DEF ClockShape
  <2>4. QED
    BY <2>1, <2>2, <2>3, NoneIsOn
<1>5. CASE Probe
  <2>1. /\ UNCHANGED <<ds3231, chip>> /\ show' = [p \in Process |-> Met(show[p])]
        /\ ds_data' = [r \in {"sec", "min", "hour"} |-> Register(r, chip)]
    BY <1>5 DEF Probe
  <2>2. \A r \in {"sec", "min", "hour"} : Register(r, chip) \in Int
    <3>1. Seconds(chip) \in Nat /\ Minutes(chip) \in Nat /\ Hours(chip) % Base \in Nat
      <4>1. Base \in Nat \ {0}
        BY ClockAssumption
      <4>2. Seconds(chip) \in 0 .. Base - 1 /\ Minutes(chip) \in Nat /\ Hours(chip) \in Nat
        BY <1>1, TimeInRegisters
      <4>3. Hours(chip) % Base \in Nat
        BY <4>1, <4>2, DivisionIs
      <4>4. QED
        BY <4>1, <4>2, <4>3
    <3>2. QED
      BY <3>1 DEF Register, Seconds, Minutes, Hours
  <2>3. \A p \in Process :
          /\ show'[p] \in Shows /\ show'[p].on = show[p].on /\ show'[p].reads = show[p].reads
          /\ ~(show'[p].on /\ show'[p].alone)
    BY <1>1, <2>1, MetIs
  <2>4. show' \in [Process -> Shows]
    BY <2>1, <2>3
  <2>5. ds_data' \in [{"sec", "min", "hour"} -> Int]
    BY <2>1, <2>2
  <2>6. ClockShape'
    BY <1>1, <2>1, <2>3, <2>4, <2>5 DEF ClockShape
  <2>7. QED
    BY <2>3, <2>6, NoneIsOn
<1>6. CASE RemoveClient \/ UNCHANGED clockVars
  <2>1. UNCHANGED <<ds3231, chip, ds_data, show>>
    BY <1>6 DEF RemoveClient, clockVars
  <2>2. ClockShape'
    BY <1>1, <2>1 DEF ClockShape
  <2>3. ASSUME NEW p \in Process, show'[p].on, show'[p].alone PROVE Alone(p)'
    <3>1. Alone(p)
      BY <1>1, <2>1, <2>3
    <3>2. \A q \in Process \ {p} : ~show'[q].on
      BY <2>1, <3>1 DEF Alone
    <3>3. QED
      BY <2>1, <3>1, <3>2, ReadStays
  <2>4. QED
    BY <2>2, <2>3 DEF ClockInv
<1>7. CASE UnloadDriver
  <2>1. /\ \A p \in Process : ~show[p].on
        /\ ds_data' = [sec |-> 0, min |-> 0, hour |-> 0] /\ UNCHANGED <<chip, show>>
    BY <1>7 DEF UnloadDriver
  <2>2. ds_data' \in [{"sec", "min", "hour"} -> Int]
    BY <2>1
  <2>3. ClockShape'
    BY <1>1, <2>1, <2>2 DEF ClockShape
  <2>4. QED
    BY <2>1, <2>3, NoneIsOn
<1>8. QED
  BY <1>3, <1>4, <1>5, <1>6, <1>7

LEMMA BeginKeepsClock ==
  ASSUME ClockInv, NEW p \in Process, BeginShow(p)
  PROVE  ClockInv'
<1> DEFINE company == {q \in Process : show[q].on}
           new == [reads |-> IF drv_client THEN Order ELSE << >>, on |-> TRUE,
                   since |-> chip, alone |-> TRUE]
<1>1. /\ chip \in Nat /\ show \in [Process -> Shows]
      /\ ds_data \in [{"sec", "min", "hour"} -> Int]
      /\ \A q \in Process : ~show[q].on => show[q].reads = << >>
  BY DEF ClockInv, ClockShape
<1>2. /\ ds3231 = "loaded" /\ UNCHANGED <<ds3231, drv_client, chip, ds_data>>
      /\ show' = [q \in Process |-> IF q # p THEN Met(show[q])
                  ELSE IF drv_client /\ company = {} THEN new ELSE Met(new)]
  BY DEF BeginShow
<1>3. new \in Shows /\ new.on = TRUE /\ new.since = chip
      /\ (drv_client => new.reads = Order)
  BY <1>1 DEF Shows, Reads
<1> HIDE DEF new
<1>4. \A q \in Process \ {p} :
        /\ show'[q] \in Shows /\ show'[q].on = show[q].on /\ show'[q].reads = show[q].reads
        /\ ~(show'[q].on /\ show'[q].alone)
  BY <1>1, <1>2, MetIs
<1>5. /\ show'[p] \in Shows /\ show'[p].on = TRUE
      /\ show'[p].alone => drv_client /\ company = {} /\ show'[p] = new
  <2>1. show'[p] = IF drv_client /\ company = {} THEN new ELSE Met(new)
    BY <1>2
  <2>2. CASE drv_client /\ company = {}
    BY <1>3, <2>1, <2>2
  <2>3. CASE ~(drv_client /\ company = {})
    <3>1. show'[p] = Met(new)
      BY <2>1, <2>3
    <3>2. QED
      BY <1>3, <3>1, MetIs
  <2>4. QED
    BY <2>2, <2>3
<1>6. show' \in [Process -> Shows]
  BY <1>2, <1>4, <1>5
<1>7. ClockShape'
  BY <1>1, <1>2, <1>4, <1>5, <1>6 DEF ClockShape
<1>8. ASSUME NEW q \in Process, show'[q].on, show'[q].alone PROVE Alone(q)'
  <2>1. q = p
    BY <1>4, <1>8
  <2>2. drv_client /\ company = {} /\ show'[p] = new
    BY <1>5, <1>8, <2>1
  <2>3. \A r \in Process \ {p} : ~show'[r].on
    BY <1>4, <2>2
  <2>4. show'[p].reads = Order /\ show'[p].since = chip
    BY <1>3, <2>2
  <2>5. show'[p].since <= chip'
    BY <1>1, <1>2, <2>4
  <2>6. QED
    BY <2>1, <2>3, <2>4, <2>5, ReadsDiffer, Zenon DEF Alone
<1>9. QED
  BY <1>7, <1>8 DEF ClockInv

(* A register joins those that were read before, in the order in which     *)
(* they are read.                                                          *)
LEMMA OneMoreRegister ==
  ASSUME ClockInv, NEW p \in Process, show[p].on, show[p].alone, show[p].reads # << >>,
         UNCHANGED chip,
         ds_data' = [ds_data EXCEPT ![Head(show[p].reads)] = Register(Head(show[p].reads), chip)],
         show'[p].since = show[p].since, show'[p].reads = Tail(show[p].reads),
         \A q \in Process \ {p} : show'[q] = show[q]
  PROVE  Alone(p)'
<1> DEFINE from == show[p].since
           reads == show[p].reads
<1>1. /\ chip \in Nat /\ from \in Nat /\ from <= chip /\ reads \in Reads
      /\ ds_data \in [{"sec", "min", "hour"} -> Int]
      /\ \A q \in Process \ {p} : ~show'[q].on
  <2>1. Alone(p)
    BY DEF ClockInv
  <2>2. chip \in Nat /\ show[p] \in Shows /\ ds_data \in [{"sec", "min", "hour"} -> Int]
    BY DEF ClockInv, ClockShape
  <2>3. QED
    BY <2>1, <2>2 DEF Alone, Shows
<1>2. chip \in from .. chip /\ \A t \in from .. chip : chip \in t .. chip
  BY <1>1
<1>3. show'[p].since <= chip' /\ show'[p].since = from
  BY <1>1
<1> HIDE DEF from
<1>4. CASE reads = Order
  <2>1. ds_data' = [ds_data EXCEPT !["sec"] = Seconds(chip)] /\ show'[p].reads = <<"min", "hour">>
    BY <1>4, ReadsDiffer DEF Register, Seconds
  <2>2. ds_data'["sec"] = Seconds(chip)
    BY <1>1, <2>1
  <2>3. \E t1 \in from .. chip : ds_data'["sec"] = Seconds(t1)
    BY <1>2, <2>2
  <2>4. ReadSeconds(show[p].since)'
    BY <1>3, <2>3 DEF ReadSeconds, Seconds, from
  <2>5. QED
    BY <1>1, <1>3, <2>1, <2>4, ReadsDiffer, Zenon DEF Alone, from
<1>5. CASE reads = <<"min", "hour">>
  <2>1. ds_data' = [ds_data EXCEPT !["min"] = Minutes(chip)] /\ show'[p].reads = <<"hour">>
    BY <1>5, ReadsDiffer DEF Register, Minutes
  <2>2. ds_data'["sec"] = ds_data["sec"] /\ ds_data'["min"] = Minutes(chip)
    BY <1>1, <2>1
  <2>3. PICK t1 \in from .. chip : ds_data["sec"] = Seconds(t1)
    BY <1>5, Zenon DEF ClockInv, Alone, ReadSeconds, from
  <2>4. \E t2 \in t1 .. chip : ds_data'["sec"] = Seconds(t1) /\ ds_data'["min"] = Minutes(t2)
    BY <1>2, <2>2, <2>3, Zenon
  <2>5. ReadMinutes(show[p].since)'
    BY <1>3, <2>4 DEF ReadMinutes, Seconds, Minutes, from
  <2>6. QED
    BY <1>1, <1>3, <2>1, <2>5, ReadsDiffer, Zenon DEF Alone, from
<1>6. CASE reads = <<"hour">>
  <2>1. ds_data' = [ds_data EXCEPT !["hour"] = Hours(chip) % Base] /\ show'[p].reads = << >>
    BY <1>6, ReadsDiffer DEF Register, Hours
  <2>2. ds_data'["sec"] = ds_data["sec"] /\ ds_data'["min"] = ds_data["min"]
        /\ ds_data'["hour"] = Hours(chip) % Base
    BY <1>1, <2>1
  <2>3. PICK t1 \in from .. chip : \E t2 \in t1 .. chip :
          ds_data["sec"] = Seconds(t1) /\ ds_data["min"] = Minutes(t2)
    BY <1>6, Zenon DEF ClockInv, Alone, ReadMinutes, from
  <2>4. PICK t2 \in t1 .. chip : ds_data["sec"] = Seconds(t1) /\ ds_data["min"] = Minutes(t2)
    BY <2>3
  <2>5. chip \in t2 .. chip
    BY <1>1, <2>3, <2>4
  <2>6. \E t3 \in t2 .. chip :
          /\ ds_data'["sec"] = Seconds(t1) /\ ds_data'["min"] = Minutes(t2)
          /\ ds_data'["hour"] = Hours(t3) % Base
    BY <2>2, <2>4, <2>5, Zenon
  <2>7. ReadHours(show[p].since)'
    BY <1>3, <2>6 DEF ReadHours, Seconds, Minutes, Hours, from
  <2>8. QED
    BY <1>1, <1>3, <2>1, <2>7, ReadsDiffer, Zenon DEF Alone, from
<1>7. QED
  BY <1>1, <1>4, <1>5, <1>6 DEF Reads

LEMMA RegisterIsInt ==
  ASSUME chip \in Nat, NEW r
  PROVE  Register(r, chip) \in Int
<1>1. Base \in Nat \ {0}
  BY ClockAssumption
<1>2. Seconds(chip) \in 0 .. Base - 1 /\ Minutes(chip) \in Nat /\ Hours(chip) \in Nat
  BY TimeInRegisters
<1>3. Hours(chip) % Base \in Nat
  BY <1>1, <1>2, DivisionIs
<1>4. QED
  BY <1>1, <1>2, <1>3 DEF Register, Seconds, Minutes, Hours

LEMMA ReadKeepsClock ==
  ASSUME ClockInv, NEW p \in Process, ReadRegister(p)
  PROVE  ClockInv'
<1> DEFINE reads == show[p].reads
           r == Head(reads)
<1>1. /\ chip \in Nat /\ show \in [Process -> Shows]
      /\ ds_data \in [{"sec", "min", "hour"} -> Int]
      /\ \A q \in Process : show[q].on => ds3231 = "loaded"
      /\ \A q \in Process : ~show[q].on => show[q].reads = << >>
      /\ \A q \in Process : show[q].on /\ show[q].alone => Alone(q)
  BY DEF ClockInv, ClockShape
<1>2. reads # << >> /\ show[p].on /\ show[p] \in Shows
      /\ UNCHANGED <<ds3231, drv_client, chip>>
  BY <1>1 DEF ReadRegister
<1>3. reads \in Reads /\ Tail(reads) \in Reads
  BY <1>2, ReadsDiffer DEF Reads, Shows
<1>4. \A q \in Process \ {p} : show[q].on => ~show[p].alone /\ ~show[q].alone
  BY <1>1, <1>2 DEF Alone
<1>5. CASE /\ ds_data' = [ds_data EXCEPT ![r] = Register(r, chip)]
           /\ show' = [show EXCEPT ![p].reads = Tail(@)]
  <2>1. /\ show'[p] = [show[p] EXCEPT !.reads = Tail(reads)]
        /\ \A q \in Process \ {p} : show'[q] = show[q]
    BY <1>1, <1>5
  <2>2. /\ show'[p] \in Shows /\ show'[p].on = TRUE /\ show'[p].alone = show[p].alone
        /\ show'[p].since = show[p].since /\ show'[p].reads = Tail(reads)
    BY <1>2, <1>3, <2>1 DEF Shows
  <2>3. show' \in [Process -> Shows]
    BY <1>1, <1>5, <2>1, <2>2
  <2>4. ds_data' \in [{"sec", "min", "hour"} -> Int]
    BY <1>1, <1>5, RegisterIsInt
  <2>5. ClockShape'
    BY <1>1, <1>2, <2>1, <2>2, <2>3, <2>4 DEF ClockShape
  <2>6. ASSUME NEW q \in Process, show'[q].on, show'[q].alone PROVE Alone(q)'
    <3>1. q = p
      BY <1>4, <2>1, <2>6
    <3>2. show[p].alone
      BY <2>2, <2>6, <3>1
    <3>3. QED
      BY <1>2, <1>5, <2>1, <2>2, <3>1, <3>2, OneMoreRegister
  <2>7. QED
    BY <2>5, <2>6 DEF ClockInv
<1>6. CASE /\ ds_data' = [ds_data EXCEPT ![r] = Base]
           /\ show' = [show EXCEPT ![p] = [Met(show[p]) EXCEPT !.reads = Tail(show[p].reads)]]
  <2> DEFINE after == Met(show[p])
  <2>1. after \in Shows /\ after.on = TRUE /\ after.reads = reads /\ ~after.alone
    BY <1>2, MetIs
  <2> HIDE DEF after
  <2>2. /\ show'[p] = [after EXCEPT !.reads = Tail(reads)]
        /\ \A q \in Process \ {p} : show'[q] = show[q]
    <3>1. show'[p] = [after EXCEPT !.reads = Tail(reads)]
      BY <1>1, <1>6 DEF after
    <3>2. \A q \in Process \ {p} : show'[q] = show[q]
      BY <1>1, <1>6
    <3>3. QED
      BY <2>1, <3>1, <3>2
  <2>3. show'[p] \in Shows /\ show'[p].on = TRUE /\ ~show'[p].alone
    BY <1>3, <2>1, <2>2 DEF Shows
  <2>4. show' \in [Process -> Shows]
    BY <1>1, <1>6, <2>2, <2>3
  <2>5. ds_data' \in [{"sec", "min", "hour"} -> Int]
    <3>1. Base \in Int
      BY ClockAssumption
    <3>2. QED
      BY <1>1, <1>6, <3>1
  <2>6. ClockShape'
    BY <1>1, <1>2, <2>2, <2>3, <2>4, <2>5 DEF ClockShape
  <2>7. \A q \in Process : ~(show'[q].on /\ show'[q].alone)
    BY <1>4, <2>2, <2>3
  <2>8. QED
    BY <2>6, <2>7, NoneIsOn
<1>7. QED
  BY <1>5, <1>6 DEF ReadRegister

LEMMA EndKeepsClock ==
  ASSUME ClockInv, NEW p \in Process, EndShow(p)
  PROVE  ClockInv'
<1>1. /\ chip \in Nat /\ show \in [Process -> Shows]
      /\ \A q \in Process : show[q].on => ds3231 = "loaded"
      /\ \A q \in Process : ~show[q].on => show[q].reads = << >>
      /\ \A q \in Process : show[q].on /\ show[q].alone => Alone(q)
  BY DEF ClockInv, ClockShape
<1>2. /\ show[p].on /\ show' = [show EXCEPT ![p] = NoShow]
      /\ UNCHANGED <<ds3231, drv_client, chip, ds_data>>
  BY DEF EndShow
<1>3. show'[p] = NoShow /\ \A q \in Process \ {p} : show'[q] = show[q]
  BY <1>1, <1>2
<1>4. show' \in [Process -> Shows]
  BY <1>1, <1>2, NoShowIs
<1>5. ClockShape'
  BY <1>1, <1>2, <1>3, <1>4, NoShowIs DEF ClockInv, ClockShape
<1>6. \A q \in Process : ~(show'[q].on /\ show'[q].alone)
  BY <1>1, <1>2, <1>3, NoShowIs DEF Alone
<1>7. QED
  BY <1>5, <1>6, NoneIsOn

LEMMA ClockStep == ClockInv /\ [ClockNext]_clockVars => ClockInv'
BY CountKeeps, OthersKeepClock, BeginKeepsClock, ReadKeepsClock, EndKeepsClock DEF ClockNext

(* A show that nobody disturbs may print a time the chip never had, but    *)
(* none before it began, whatever the chip counts to.                      *)
THEOREM TornTimeIsNotBehind == ClockSpec => []ShownTimeIsNotBehind
<1>1. ClockInv => ShownTimeIsNotBehind
  <2> SUFFICES ASSUME ClockInv, NEW p \in Process,
                      show[p].on, show[p].reads = << >>, show[p].alone
               PROVE  LET from == show[p].since
                          ahead == (TimeOf(ds_data) - from) % DayLength
                      IN /\ ahead < (chip - from) + Base * Base
                         /\ from \div Base = chip \div Base => ahead <= chip - from
    BY DEF ShownTimeIsNotBehind
  <2> DEFINE from == show[p].since
  <2>1. ReadHours(from)
    BY DEF ClockInv, Alone
  <2>2. chip \in Nat /\ from \in Nat
    BY DEF ClockInv, ClockShape, Shows
  <2>3. PICK t1 \in from .. chip : \E t2 \in t1 .. chip : \E t3 \in t2 .. chip :
          /\ ds_data["sec"] = Seconds(t1) /\ ds_data["min"] = Minutes(t2)
          /\ ds_data["hour"] = Hours(t3) % Base
    BY <2>1, Zenon DEF ReadHours
  <2>4. PICK t2 \in t1 .. chip : \E t3 \in t2 .. chip :
          /\ ds_data["sec"] = Seconds(t1) /\ ds_data["min"] = Minutes(t2)
          /\ ds_data["hour"] = Hours(t3) % Base
    BY <2>3
  <2>5. PICK t3 \in t2 .. chip :
          /\ ds_data["sec"] = Seconds(t1) /\ ds_data["min"] = Minutes(t2)
          /\ ds_data["hour"] = Hours(t3) % Base
    BY <2>4
  <2>6. /\ t1 \in Nat /\ t2 \in Nat /\ t3 \in Nat
        /\ from <= t1 /\ t1 <= t2 /\ t2 <= t3 /\ t3 <= chip
    BY <2>2, <2>3, <2>4, <2>5
  <2>7. /\ ds_data.sec = Seconds(t1) /\ ds_data.min = Minutes(t2)
        /\ ds_data.hour = Hours(t3) % Base
    BY <2>5, Zenon
  <2> HIDE DEF from
  <2>8. QED
    BY <2>2, <2>6, <2>7, TornTimeShown DEF from
<1>2. QED
  BY ClockInitInv, ClockStep, <1>1, PTL DEF ClockSpec

(***************************************************************************)
(* The worker threads: what they read outlives them, and each prints as    *)
(* often as it should, for any number of tasks with any delays and totals. *)
(***************************************************************************)

Alive == {"starting", "running"}
Past == {"finishing", "returned"}

TypeInv ==
  /\ init \in {"add", "start", "wait", "cleanup_tasks", "cleanup_completitions",
               "cleanup_threads", "returned", "oops"}
  /\ at \in Nat \ {0}
  /\ task_list \in Seq(Task) /\ completitions_list \in Seq(Task)
  /\ done \subseteq Task
  /\ thread \in [Task -> {"none", "starting", "running", "finishing", "returned", "failed"}]

(* While the lists grow, they hold the tasks in rising order, each with    *)
(* its completion; that no task is in them twice is what lets no thread be *)
(* started twice.                                                          *)
Rising ==
  init \in {"add", "start", "wait", "oops"} =>
    /\ completitions_list = task_list
    /\ \A i, j \in 1 .. Len(task_list) : i < j => task_list[i] < task_list[j]
    /\ init = "add" => \A i \in 1 .. Len(task_list) : task_list[i] < at

(* Who has a thread is in the list, before the place where init stands.    *)
Started ==
  /\ init = "add" => \A t \in Task : thread[t] = "none"
  /\ init = "start" => \A i \in 1 .. Len(task_list) : i >= at => thread[task_list[i]] = "none"
  /\ init \in {"start", "wait", "oops"} =>
       \A t \in Task : thread[t] # "none" => \E i \in 1 .. Len(task_list) : task_list[i] = t

(* A completion is completed by a thread that is past the use of its data, *)
(* and init has waited for all of them before it frees anything.           *)
Waited ==
  /\ \A t \in done : thread[t] \in Past
  /\ init = "wait" => \A i \in 1 .. Len(task_list) : i < at => thread[task_list[i]] \in Past
  /\ init \in {"cleanup_tasks", "cleanup_completitions", "cleanup_threads", "returned"} =>
       \A t \in Task : thread[t] \notin Alive

ThreadInv == TypeInv /\ Rising /\ Started /\ Waited

(* The first states.                                                       *)
LEMMA InitThreadInv == Init => ThreadInv
<1> SUFFICES ASSUME Init PROVE ThreadInv
  OBVIOUS
<1>1. Len(<< >>) = 0 /\ << >> \in Seq(Task)
  OBVIOUS
<1> QED
  BY <1>1 DEF Init, ThreadInv, TypeInv, Rising, Started, Waited, Alive, Past

(* The steps of test_module.                                               *)
LEMMA AddTaskThreadInv == ThreadInv /\ AddTask => ThreadInv'
<1> SUFFICES ASSUME ThreadInv, AddTask PROVE ThreadInv'
  OBVIOUS
<1>1. at \in Task
  BY TaskThreadsAssumption DEF ThreadInv, TypeInv, AddTask, TaskLeft, Task
<1>2. UNCHANGED <<done, thread>> /\ init = "add" /\ at' = at + 1
  BY DEF AddTask, workers
<1>3. CASE task_list' = Append(task_list, at) /\ completitions_list' = Append(completitions_list, at)
           /\ init' = init
  <2>1. /\ Len(task_list') = Len(task_list) + 1
        /\ \A i \in 1 .. Len(task_list) : task_list'[i] = task_list[i]
        /\ task_list'[Len(task_list) + 1] = at
        /\ task_list' \in Seq(Task)
    BY <1>1, <1>3 DEF ThreadInv, TypeInv
  <2>2. TypeInv'
    BY <1>1, <1>2, <1>3, <2>1 DEF ThreadInv, TypeInv
  <2>3. Rising'
    <3> DEFINE n == Len(task_list)
    <3>1. /\ n \in Nat /\ at \in Nat /\ completitions_list = task_list
          /\ \A i \in 1 .. n : task_list[i] \in Task /\ task_list[i] < at
          /\ \A i, j \in 1 .. n : i < j => task_list[i] < task_list[j]
      BY <1>2 DEF ThreadInv, TypeInv, Rising
    <3>2. \A i \in 1 .. n : task_list[i] \in Int
      BY <3>1, TaskThreadsAssumption DEF Task
    <3>3. \A i \in 1 .. n + 1 : task_list'[i] = IF i = n + 1 THEN at ELSE task_list[i]
      BY <2>1, <3>1
    <3> HIDE DEF n
    <3>4. \A i, j \in 1 .. n + 1 : i < j => task_list'[i] < task_list'[j]
      BY <3>1, <3>2, <3>3
    <3>5. \A i \in 1 .. n + 1 : task_list'[i] < at'
      BY <1>2, <3>1, <3>2, <3>3
    <3>6. Len(task_list') = n + 1 /\ completitions_list' = task_list'
      BY <1>3, <2>1, <3>1 DEF n
    <3> QED
      BY <3>4, <3>5, <3>6 DEF Rising
  <2>4. Started' /\ Waited'
    BY <1>2, <1>3 DEF ThreadInv, Started, Waited
  <2> QED
    BY <2>2, <2>3, <2>4 DEF ThreadInv
<1>4. CASE init' \in {"add", "oops"} /\ UNCHANGED lists
  BY <1>1, <1>2, <1>4, SMTT(30) DEF lists, ThreadInv, TypeInv, Rising, Started, Waited, Task
<1> QED
  BY <1>2, <1>3, <1>4 DEF AddTask, lists

LEMMA AddingDoneThreadInv == ThreadInv /\ AddingDone => ThreadInv'
BY DEF AddingDone, workers, lists, ThreadInv, TypeInv, Rising, Started, Waited

LEMMA StartThreadThreadInv == ThreadInv /\ StartThread => ThreadInv'
<1> SUFFICES ASSUME ThreadInv, StartThread PROVE ThreadInv'
  OBVIOUS
<1> DEFINE new == task_list[at]
<1>1. /\ at \in 1 .. Len(task_list) /\ new \in Task /\ Len(task_list) \in Nat
      /\ \A i \in 1 .. Len(task_list) : task_list[i] \in Task
  BY DEF ThreadInv, TypeInv, StartThread
<1>2. PICK outcome \in {"starting", "failed"} : thread' = [thread EXCEPT ![new] = outcome]
  BY DEF StartThread
<1>3. /\ init = "start" /\ init' \in {"start", "oops"} /\ at' = at + 1
      /\ UNCHANGED <<task_list, completitions_list, done>>
  BY DEF StartThread
<1>4. thread[new] = "none" /\ new \notin done
  BY <1>1, <1>3 DEF ThreadInv, Started, Waited, Past
<1>5. thread'[new] = outcome /\ \A t \in Task \ {new} : thread'[t] = thread[t]
  BY <1>1, <1>2 DEF ThreadInv, TypeInv
<1>6. \A i \in 1 .. Len(task_list) : i > at => task_list[i] # new
  BY <1>1, <1>3 DEF ThreadInv, Rising, Task
<1>7. TypeInv'
  BY <1>1, <1>2, <1>3 DEF ThreadInv, TypeInv
<1>8. Rising'
  BY <1>3 DEF ThreadInv, Rising
<1>9. Started'
  <2>1. \A i \in 1 .. Len(task_list) : i >= at + 1 => thread'[task_list[i]] = "none"
    BY <1>1, <1>3, <1>5, <1>6 DEF ThreadInv, TypeInv, Started
  <2>2. \A t \in Task : thread'[t] # "none" => \E i \in 1 .. Len(task_list) : task_list[i] = t
    BY <1>1, <1>3, <1>5 DEF ThreadInv, Started
  <2> QED
    BY <1>3, <2>1, <2>2 DEF Started
<1>10. Waited'
  BY <1>3, <1>4, <1>5 DEF ThreadInv, TypeInv, Waited
<1> QED
  BY <1>7, <1>8, <1>9, <1>10 DEF ThreadInv

LEMMA StartingDoneThreadInv == ThreadInv /\ StartingDone => ThreadInv'
BY DEF StartingDone, workers, lists, ThreadInv, TypeInv, Rising, Started, Waited

LEMMA WaitForCompletionThreadInv == ThreadInv /\ WaitForCompletion => ThreadInv'
<1> SUFFICES ASSUME ThreadInv, WaitForCompletion PROVE ThreadInv'
  OBVIOUS
<1>1. /\ init = "wait" /\ at' = at + 1 /\ done' \subseteq done
      /\ UNCHANGED <<init, task_list, completitions_list, thread>>
  BY DEF WaitForCompletion, lists, workers
<1>2. thread[task_list[at]] \in Past
  BY <1>1 DEF ThreadInv, Rising, Waited, WaitForCompletion, Completed
<1> QED
  BY <1>1, <1>2 DEF ThreadInv, TypeInv, Rising, Started, Waited

LEMMA WaitingDoneThreadInv == ThreadInv /\ WaitingDone => ThreadInv'
<1> SUFFICES ASSUME ThreadInv, WaitingDone PROVE ThreadInv'
  OBVIOUS
<1>1. /\ init = "wait" /\ init' = "cleanup_tasks" /\ at > Len(task_list)
      /\ UNCHANGED <<at, task_list, completitions_list, done, thread>>
  BY DEF WaitingDone, lists, workers, ThreadInv, Rising
<1>2. \A t \in Task : thread[t] \notin Alive
  <2> TAKE t \in Task
  <2>1. CASE thread[t] = "none"
    BY <2>1 DEF Alive
  <2>2. CASE thread[t] # "none"
    <3>1. PICK i \in 1 .. Len(task_list) : task_list[i] = t
      BY <1>1, <2>2 DEF ThreadInv, Started
    <3>2. i < at
      BY <1>1 DEF ThreadInv, TypeInv
    <3> QED
      BY <1>1, <3>1, <3>2 DEF ThreadInv, Waited, Alive, Past
  <2> QED
    BY <2>1, <2>2
<1> QED
  BY <1>1, <1>2 DEF ThreadInv, TypeInv, Rising, Started, Waited

LEMMA CleanupThreadInv ==
  ThreadInv /\ (CleanupTasks \/ CleanupCompletitions \/ CleanupThreads) => ThreadInv'
<1> SUFFICES ASSUME ThreadInv, CleanupTasks \/ CleanupCompletitions \/ CleanupThreads
             PROVE  ThreadInv'
  OBVIOUS
<1>1. /\ init \in {"cleanup_tasks", "cleanup_completitions", "cleanup_threads"}
      /\ init' \in {"cleanup_completitions", "cleanup_threads", "returned"}
      /\ UNCHANGED <<at, done, thread>>
      /\ task_list' \in {task_list, << >>}
      /\ completitions_list' \in {completitions_list, << >>}
  BY DEF CleanupTasks, CleanupCompletitions, CleanupThreads, lists, workers
<1>2. << >> \in Seq(Task)
  OBVIOUS
<1>3. TypeInv'
  BY <1>1, <1>2 DEF ThreadInv, TypeInv
<1>4. Rising' /\ Started' /\ Waited'
  BY <1>1 DEF ThreadInv, Rising, Started, Waited
<1> QED
  BY <1>3, <1>4 DEF ThreadInv

(* The steps of a thread.                                                  *)
LEMMA WorkerThreadInv ==
  ASSUME NEW t \in Task, ThreadInv, Worker(t)
  PROVE  ThreadInv'
<1>1. /\ UNCHANGED <<init, at, task_list, completitions_list>>
      /\ thread[t] \notin {"none", "failed"}
      /\ thread'[t] \notin {"none", "failed"}
      /\ thread[t] \in Past => thread'[t] \in Past
      /\ thread'[t] \in Alive => thread[t] \in Alive
      /\ done' = done \/ (done' = done \cup {t} /\ thread'[t] \in Past)
      /\ thread' \in [Task -> {"none", "starting", "running", "finishing", "returned", "failed"}]
      /\ \A u \in Task \ {t} : thread'[u] = thread[u]
  BY DEF Worker, Begin, Report, Complete, Return, lists, ThreadInv, TypeInv, Alive, Past
<1>2. TypeInv' /\ Rising'
  BY <1>1 DEF ThreadInv, TypeInv, Rising
<1>3. Started'
  BY <1>1 DEF ThreadInv, TypeInv, Started
<1>4. Waited'
  BY <1>1 DEF ThreadInv, TypeInv, Waited
<1> QED
  BY <1>2, <1>3, <1>4 DEF ThreadInv

(* The inductive invariant.                                                *)
THEOREM ThreadInvariant == Spec => []ThreadInv
<1>1. Init => ThreadInv
  BY InitThreadInv
<1>2. ThreadInv /\ [Next]_vars => ThreadInv'
  <2> SUFFICES ASSUME ThreadInv, [Next]_vars PROVE ThreadInv'
    OBVIOUS
  <2>1. CASE Module
    BY <2>1, AddTaskThreadInv, AddingDoneThreadInv, StartThreadThreadInv,
       StartingDoneThreadInv, WaitForCompletionThreadInv, WaitingDoneThreadInv,
       CleanupThreadInv DEF Module
  <2>2. CASE \E t \in Task : Worker(t)
    BY <2>2, WorkerThreadInv
  <2>3. CASE UNCHANGED vars
    BY <2>3 DEF vars, ThreadInv, TypeInv, Rising, Started, Waited
  <2> QED
    BY <2>1, <2>2, <2>3 DEF Next
<1> QED
  BY <1>1, <1>2, PTL DEF Spec

(* No thread that will still read its task descriptor, or complete its     *)
(* completion, outlives them.                                              *)
THEOREM DataOutlives == Spec => []DataOutlivesThreads
<1>1. ThreadInv => DataOutlivesThreads
  <2> SUFFICES ASSUME ThreadInv, NEW t \in Task, thread[t] \in {"starting", "running"}
               PROVE  t \in Range(task_list) /\ t \in Range(completitions_list)
    BY DEF DataOutlivesThreads
  <2>1. init \in {"start", "wait", "oops"}
    BY DEF ThreadInv, TypeInv, Started, Waited, Alive
  <2>2. completitions_list = task_list /\ \E i \in 1 .. Len(task_list) : task_list[i] = t
    BY <2>1 DEF ThreadInv, Rising, Started
  <2> QED
    BY <2>2 DEF Range, ThreadInv, TypeInv
<1> QED
  BY <1>1, ThreadInvariant, PTL

-----------------------------------------------------------------------------

(* The loop's count: what is left is the total less what was printed, and  *)
(* before the last round something was.                                    *)
Counted ==
  /\ thread \in [Task -> {"none", "starting", "running", "finishing", "returned", "failed"}]
  /\ remaining \in [Task -> Int]
  /\ printed \in [Task -> Nat]
  /\ \A t \in Task :
       /\ thread[t] \in {"none", "starting", "failed"} => printed[t] = 0
       /\ thread[t] \in {"running", "finishing", "returned"} =>
            /\ remaining[t] = Total[t] - printed[t] * Delay[t]
            /\ printed[t] > 0 => remaining[t] + Delay[t] > 0
       /\ thread[t] \in Past => remaining[t] <= 0

LEMMA OneMoreRound ==
  ASSUME NEW n \in Nat, NEW d \in Nat
  PROVE  (n + 1) * d = n * d + d /\ n * d \in Nat
OBVIOUS

LEMMA RoundBefore ==
  ASSUME NEW n \in Nat, n > 0, NEW d \in Nat
  PROVE  (n - 1) * d = n * d - d
OBVIOUS

(* A step of a thread, and those of init that start it or leave it alone.  *)
LEMMA WorkerCounted ==
  ASSUME NEW t \in Task, Counted, Worker(t)
  PROVE  Counted'
<1>1. Total[t] \in Nat /\ Delay[t] \in Nat /\ Delay[t] > 0
  BY TaskThreadsAssumption
<1>2. CASE Begin(t)
  BY <1>1, <1>2, TaskThreadsAssumption DEF Begin, Counted, Past
<1>3. CASE Report(t)
  <2>1. /\ printed' = [printed EXCEPT ![t] = printed[t] + 1]
        /\ remaining' = [remaining EXCEPT ![t] = remaining[t] - Delay[t]]
        /\ thread' = thread /\ thread[t] = "running" /\ remaining[t] > 0
    BY <1>3 DEF Report, MoreToDo
  <2>2. (printed[t] + 1) * Delay[t] = printed[t] * Delay[t] + Delay[t]
        /\ printed[t] * Delay[t] \in Nat
    BY <1>1, OneMoreRound DEF Counted
  <2>3. remaining[t] = Total[t] - printed[t] * Delay[t] /\ remaining[t] \in Int
    BY <2>1 DEF Counted
  <2>4. remaining[t] - Delay[t] = Total[t] - (printed[t] + 1) * Delay[t]
    BY <1>1, <2>2, <2>3
  <2> QED
    BY <1>1, <2>1, <2>3, <2>4 DEF Counted, Past
<1>4. CASE Complete(t) \/ Return(t)
  BY <1>4 DEF Complete, Return, MoreToDo, Counted, Past
<1> QED
  BY <1>2, <1>3, <1>4 DEF Worker

(* A thread prints exactly as often as its delay is begun within its total *)
(* time.                                                                   *)
THEOREM PrintsAsOften == Spec => []PrintsOncePerDelay
<1>1. Init => Counted
  BY DEF Init, Counted, Past
<1>2. ThreadInv /\ Counted /\ [Next]_vars => Counted'
  <2> SUFFICES ASSUME ThreadInv, Counted, [Next]_vars PROVE Counted'
    OBVIOUS
  <2>1. CASE StartThread
    <3>1. task_list[at] \in Task /\ thread[task_list[at]] = "none"
      BY <2>1 DEF StartThread, ThreadInv, TypeInv, Started
    <3> QED
      BY <2>1, <3>1 DEF StartThread, Counted, Past
  <2>2. CASE Module /\ ~StartThread
    BY <2>2 DEF Module, AddTask, AddingDone, StartingDone, WaitForCompletion, WaitingDone,
                CleanupTasks, CleanupCompletitions, CleanupThreads, workers, Counted
  <2>3. CASE \E t \in Task : Worker(t)
    BY <2>3, WorkerCounted
  <2>4. CASE UNCHANGED vars
    BY <2>4 DEF vars, Counted
  <2> QED
    BY <2>1, <2>2, <2>3, <2>4 DEF Next
<1>3. Counted => PrintsOncePerDelay
  <2> SUFFICES ASSUME Counted, NEW t \in Task, thread[t] \in {"finishing", "returned"}
               PROVE  /\ printed[t] * Delay[t] >= Total[t]
                      /\ printed[t] > 0 => (printed[t] - 1) * Delay[t] < Total[t]
    BY DEF PrintsOncePerDelay
  <2>1. /\ Total[t] \in Nat /\ Delay[t] \in Nat /\ printed[t] \in Nat
        /\ remaining[t] \in Int /\ remaining[t] <= 0
        /\ remaining[t] = Total[t] - printed[t] * Delay[t]
        /\ printed[t] > 0 => remaining[t] + Delay[t] > 0
    BY TaskThreadsAssumption DEF Counted, Past
  <2>2. printed[t] * Delay[t] \in Nat
    BY <2>1, OneMoreRound
  <2>3. printed[t] > 0 => (printed[t] - 1) * Delay[t] = printed[t] * Delay[t] - Delay[t]
    BY <2>1, RoundBefore
  <2> QED
    BY <2>1, <2>2, <2>3
<1> QED
  BY <1>1, <1>2, <1>3, ThreadInvariant, PTL DEF Spec

(***************************************************************************)
(* The reminders in memory.                                                *)
(*                                                                         *)
(* What the list functions do to rings of list_heads is known, for any     *)
(* memory in which each pointer is set (RingLemmas).  This heap is such a  *)
(* memory once the fields of freed blocks are taken for pointers to        *)
(* nowhere: see Seen, below.  So the lists of the module are rings, and    *)
(* what is left to follow is what each call does to them.                  *)
(***************************************************************************)

(***************************************************************************)
(* The list_heads: lists, and entries.                                     *)
(***************************************************************************)
Heads == {users_list, reminders_list} \cup {NotificationsList(u) : u \in UserBlocks}
Embedded == {ListOfUsers(u) : u \in UserBlocks} \cup {Queued(r) : r \in ReminderBlocks}
              \cup {UserNotify(r) : r \in ReminderBlocks}
Rings == INSTANCE RingLemmas WITH Anchor <- Heads, Entry <- Embedded

LEMMA BlocksAre ==
  /\ UserBlocks \cap ReminderBlocks = {} /\ 0 \notin UserBlocks \cup ReminderBlocks
  /\ UserBlocks \subseteq Int /\ ReminderBlocks \subseteq Int
BY KernelRemindersAssumption

(* No two fields are the same, and each has its block.                     *)
LEMMA FieldsAre ==
  /\ \A u \in UserBlocks : /\ BlockOf(ListOfUsers(u)) = u /\ BlockOf(NotificationsList(u)) = u
                           /\ ListOfUsers(u) # NotificationsList(u)
  /\ \A r \in ReminderBlocks : /\ BlockOf(Queued(r)) = r /\ BlockOf(UserNotify(r)) = r
                               /\ Queued(r) # UserNotify(r)
  /\ BlockOf(users_list) = 0 /\ BlockOf(reminders_list) = 0 /\ BlockOf(InFreedMemory) = 0
  /\ users_list # reminders_list /\ users_list # InFreedMemory /\ reminders_list # InFreedMemory
BY DEF BlockOf, ListOfUsers, NotificationsList, Queued, UserNotify, users_list, reminders_list,
       InFreedMemory

LEMMA NodesAre == Nodes = Heads \cup Embedded \cup {InFreedMemory}
<1>1. Fields = {ListOfUsers(u) : u \in UserBlocks} \cup {NotificationsList(u) : u \in UserBlocks}
                 \cup {Queued(r) : r \in ReminderBlocks} \cup {UserNotify(r) : r \in ReminderBlocks}
  <2>1. ASSUME NEW x
        PROVE  x \in Fields <=> \/ \E u \in UserBlocks : x = ListOfUsers(u) \/ x = NotificationsList(u)
                                \/ \E r \in ReminderBlocks : x = Queued(r) \/ x = UserNotify(r)
    <3>1. x \in Fields <=> \E b \in UserBlocks \cup ReminderBlocks : x \in FieldsOf(b)
      BY DEF Fields
    <3>2. \A b \in UserBlocks : FieldsOf(b) = {ListOfUsers(b), NotificationsList(b)}
      BY DEF FieldsOf
    <3>3. \A b \in ReminderBlocks : FieldsOf(b) = {Queued(b), UserNotify(b)}
      BY BlocksAre DEF FieldsOf
    <3>4. QED
      BY <3>1, <3>2, <3>3
  <2>2. QED
    BY <2>1
<1>2. QED
  BY <1>1 DEF Nodes, Heads, Embedded

LEMMA HeadsAndEntries ==
  /\ InFreedMemory \notin Heads \cup Embedded
  /\ Heads \cap Embedded = {} /\ Nowhere \notin Heads \cup Embedded
  /\ NoWalk \notin Nodes
<1>1. InFreedMemory \notin Heads \cup Embedded
  BY FieldsAre, BlocksAre DEF Heads, Embedded
<1>2. \A u \in UserBlocks, v \in UserBlocks : ListOfUsers(v) # NotificationsList(u)
  BY FieldsAre
<1>3. \A u \in UserBlocks, r \in ReminderBlocks :
        Queued(r) # NotificationsList(u) /\ UserNotify(r) # NotificationsList(u)
  BY FieldsAre, BlocksAre
<1>4. users_list \notin Embedded /\ reminders_list \notin Embedded
  BY FieldsAre, BlocksAre DEF Embedded
<1>5. Heads \cap Embedded = {}
  BY <1>2, <1>3, <1>4 DEF Heads, Embedded
<1>6. Nowhere \notin Heads \cup Embedded
  BY NodesAre, NowhereIsNoNode
<1>7. NoWalk \notin Nodes
  <2>1. BlockOf(NoWalk) = 0 /\ NoWalk # users_list /\ NoWalk # reminders_list /\ NoWalk # InFreedMemory
    BY DEF BlockOf, NoWalk, users_list, reminders_list, InFreedMemory
  <2>2. NoWalk \notin Heads \cup Embedded
    BY <2>1, FieldsAre, BlocksAre DEF Heads, Embedded
  <2>3. QED
    BY <2>1, <2>2, NodesAre
<1>8. QED
  BY <1>1, <1>5, <1>6, <1>7

(* What the lemmas about rings assume.                                     *)
LEMMA HeadsAreNoEntries == Heads \cap Embedded = {} /\ Nowhere \notin Heads \cup Embedded
BY HeadsAndEntries

LEMMA SameOperations ==
  ASSUME NEW m, NEW x, NEW y, NEW z
  PROVE  /\ Rings!SetNext(m, x, y) = SetNext(m, x, y) /\ Rings!SetPrev(m, x, y) = SetPrev(m, x, y)
         /\ Rings!INIT_LIST_HEAD(m, x) = INIT_LIST_HEAD(m, x)
         /\ Rings!AddBetween(m, x, y, z) = AddBetween(m, x, y, z)
         /\ Rings!Unlink(m, x) = Unlink(m, x)
<1>1. \A n, a, b : Rings!SetNext(n, a, b) = SetNext(n, a, b) /\ Rings!SetPrev(n, a, b) = SetPrev(n, a, b)
  BY DEF Rings!SetNext, SetNext, Rings!SetPrev, SetPrev
<1>2. Rings!INIT_LIST_HEAD(m, x) = INIT_LIST_HEAD(m, x)
  BY <1>1 DEF Rings!INIT_LIST_HEAD, INIT_LIST_HEAD
<1>3. Rings!AddBetween(m, x, y, z) = AddBetween(m, x, y, z)
  BY <1>1 DEF Rings!AddBetween, AddBetween
<1>4. Rings!Unlink(m, x) = Unlink(m, x)
  BY <1>1 DEF Rings!Unlink, Unlink, Rings!Join, Join
<1>5. QED
  BY <1>1, <1>2, <1>3, <1>4

LEMMA SameFunctions ==
  ASSUME NEW f
  PROVE  Rings!Range(f) = Range(f) /\ (Rings!IsInjective(f) <=> IsInjective(f))
BY DEF Rings!Range, Range, Rings!IsInjective, IsInjective

(***************************************************************************)
(* A walk along next, and the entries it finds.                            *)
(***************************************************************************)
(* A function defined by where to start and how to go on.                  *)
Leads(f, next, head, c) == f = [k \in 0 .. c |-> IF k = 0 THEN head ELSE next[f[k - 1]]]

LEMMA StepsExist ==
  ASSUME NEW next, NEW head, NEW c \in Nat
  PROVE  \E f : Leads(f, next, head, c)
<1> USE DEF Leads
<1> DEFINE StepsTo(n) == \E f : Leads(f, next, head, n)
           T == {n \in Nat : ~StepsTo(n)}
<1> SUFFICES ASSUME T # {} PROVE FALSE
  OBVIOUS
<1>1. T \subseteq Nat
  OBVIOUS
<1> HIDE DEF T
<1>2. PICK n \in T : \A i \in T : n <= i
  BY <1>1, Least
<1>3. n \in Nat /\ ~StepsTo(n)
  BY <1>2 DEF T
<1>4. CASE n = 0
  <2> DEFINE f == [k \in 0 .. n |-> head]
  <2>1. f = [k \in 0 .. n |-> IF k = 0 THEN head ELSE next[f[k - 1]]]
    BY <1>4
  <2> HIDE DEF f
  <2>2. QED
    BY <1>3, <2>1
<1>5. CASE n # 0
  <2>1. n - 1 \in Nat /\ n - 1 \notin T
    BY <1>2, <1>3, <1>5
  <2>2. StepsTo(n - 1)
    BY <2>1 DEF T
  <2>3. PICK f : f = [k \in 0 .. n - 1 |-> IF k = 0 THEN head ELSE next[f[k - 1]]]
    BY <2>2
  <2> DEFINE g == [k \in 0 .. n |-> IF k = n THEN next[f[n - 1]] ELSE f[k]]
             G == [k \in 0 .. n |-> IF k = 0 THEN head ELSE next[g[k - 1]]]
  <2>4. ASSUME NEW k \in 0 .. n PROVE g[k] = IF k = 0 THEN head ELSE next[g[k - 1]]
    <3>1. CASE k = n
      BY <1>3, <1>5, <3>1
    <3>2. CASE k # n
      <4>1. k \in 0 .. n - 1 /\ (k # 0 => k - 1 \in 0 .. n /\ k - 1 # n)
        BY <1>3, <3>2
      <4>2. f[k] = IF k = 0 THEN head ELSE next[f[k - 1]]
        BY <2>3, <4>1
      <4>3. QED
        BY <3>2, <4>1, <4>2
    <3>3. QED
      BY <3>1, <3>2
  <2>5. g = G
    BY <2>4
  <2> HIDE DEF g
  <2>6. QED
    BY <1>3, <2>5
<1>6. QED
  BY <1>4, <1>5

LEMMA StandsIs ==
  ASSUME NEW h, NEW head
  PROVE  /\ Cardinality(Nodes) \in Nat => Stands(h, head)[0] = head
         /\ Cardinality(Nodes) \in Nat =>
              \A k \in 1 .. Cardinality(Nodes) : Stands(h, head)[k] = h.next[Stands(h, head)[k - 1]]
<1> DEFINE c == Cardinality(Nodes)
           nx == h.next
           S == Stands(h, head)
<1> SUFFICES ASSUME c \in Nat
             PROVE S[0] = head /\ \A k \in 1 .. c : S[k] = nx[S[k - 1]]
  OBVIOUS
<1>1. S = CHOOSE f : Leads(f, nx, head, c)
  BY DEF Stands, Leads
<1> HIDE DEF c, nx, S
<1>2. \E f : Leads(f, nx, head, c)
  BY StepsExist
<1>3. S = [k \in 0 .. c |-> IF k = 0 THEN head ELSE nx[S[k - 1]]]
  <2>1. Leads(S, nx, head, c)
    BY <1>1, <1>2, Zenon
  <2>2. QED
    BY <2>1 DEF Leads
<1>4. 0 \in 0 .. c /\ \A k \in 1 .. c : k \in 0 .. c /\ k # 0
  OBVIOUS
<1>5. QED
  BY <1>3, <1>4

(* A walk from head to the entries of l and back finds just these.         *)
Finds(h, head, l, n) ==
  /\ l = [k \in 1 .. n |-> l[k]]
  /\ \A k \in 1 .. n : l[k] \notin {head, InFreedMemory, Nowhere}
  /\ \A k \in 1 .. n : h.next[IF k = 1 THEN head ELSE l[k - 1]] = l[k]
  /\ h.next[IF n = 0 THEN head ELSE l[n]] = head

LEMMA EntriesFound ==
  ASSUME NEW h, NEW head, NEW l, NEW n \in Nat, n + 1 <= Cardinality(Nodes),
         Cardinality(Nodes) \in Nat, Finds(h, head, l, n)
  PROVE  Entries(h, head) = l /\ Comes(h, head)
<1> USE DEF Finds
<1> DEFINE c == Cardinality(Nodes)
           S == Stands(h, head)
           Lost == {head, InFreedMemory, Nowhere}
<1>1. S[0] = head /\ \A k \in 1 .. c : S[k] = h.next[S[k - 1]]
  BY StandsIs
<1> HIDE DEF S
<1>2. ASSUME NEW k \in 1 .. n PROVE S[k] = l[k]
  <2> DEFINE T == {i \in 1 .. n : S[i] # l[i]}
  <2> SUFFICES ASSUME T # {} PROVE FALSE
    OBVIOUS
  <2>1. T \subseteq Nat
    OBVIOUS
  <2> HIDE DEF T
  <2>2. PICK i \in T : \A j \in T : i <= j
    BY <2>1, Least
  <2>3. i \in 1 .. n /\ S[i] # l[i] /\ i \in 1 .. c
    BY <2>2 DEF T
  <2>4. S[i] = h.next[S[i - 1]] /\ h.next[IF i = 1 THEN head ELSE l[i - 1]] = l[i]
    BY <1>1, <2>3
  <2>5. CASE i = 1
    BY <1>1, <2>3, <2>4, <2>5
  <2>6. CASE i # 1
    <3>1. i - 1 \in 1 .. n /\ i - 1 \notin T
      BY <2>2, <2>3, <2>6
    <3>2. S[i - 1] = l[i - 1]
      BY <3>1 DEF T
    <3>3. QED
      BY <2>3, <2>4, <2>6, <3>2
  <2>7. QED
    BY <2>5, <2>6
<1>3. n + 1 \in 1 .. c /\ S[n + 1] = head
  <2>1. n + 1 \in 1 .. c /\ n + 1 - 1 = n
    OBVIOUS
  <2>2. S[n + 1] = h.next[S[n]]
    BY <1>1, <2>1
  <2>3. S[n] = IF n = 0 THEN head ELSE l[n]
    BY <1>1, <1>2
  <2>4. QED
    BY <2>1, <2>2, <2>3
<1> DEFINE P(k) == S[k] \in Lost /\ \A j \in 1 .. k - 1 : S[j] \notin Lost
<1>4. P(n + 1)
  <2>1. \A j \in 1 .. n + 1 - 1 : j \in 1 .. n
    OBVIOUS
  <2>2. QED
    BY <1>2, <1>3, <2>1
<1>5. ASSUME NEW k \in 1 .. c, P(k) PROVE k = n + 1
  <2>1. CASE k < n + 1
    <3>1. k \in 1 .. n
      BY <2>1
    <3>2. QED
      BY <1>2, <1>5, <3>1
  <2>2. CASE k > n + 1
    <3>1. n + 1 \in 1 .. k - 1
      BY <2>2
    <3>2. QED
      BY <1>3, <1>5, <3>1
  <2>3. QED
    BY <2>1, <2>2
<1>6. Ends(h, head) = CHOOSE k \in 1 .. c : P(k)
  BY DEF Ends, S
<1> HIDE DEF P, c
<1>7. Ends(h, head) = n + 1
  BY <1>3, <1>4, <1>5, <1>6
<1>8. Comes(h, head)
  BY <1>3, <1>7 DEF Comes, S
<1>9. Entries(h, head) = l
  <2>1. Entries(h, head) = [k \in 1 .. n |-> S[k]]
    BY <1>7 DEF Entries, S
  <2>2. QED
    BY <1>2, <2>1
<1>10. QED
  BY <1>8, <1>9

(* A walk along a ring finds the list it stands for.                       *)
LEMMA NodesAreFinite == IsFiniteSet(Nodes) /\ Cardinality(Nodes) \in Nat
<1> DEFINE B == UserBlocks \cup ReminderBlocks
           f == [b \in B |-> FieldsOf(b)]
           F == {FieldsOf(b) : b \in B}
<1>1. IsFiniteSet(B)
  BY KernelRemindersAssumption, FS_Union
<1>2. IsFiniteSet(F)
  <2>1. f \in Surjection(B, F)
    BY DEF Surjection
  <2> HIDE DEF f, F, B
  <2>2. QED
    BY <1>1, <2>1, FS_Surjection
<1>3. \A T \in F : IsFiniteSet(T)
  <2> SUFFICES ASSUME NEW b \in B PROVE IsFiniteSet(FieldsOf(b))
    OBVIOUS
  <2>1. \A x, y : IsFiniteSet({x, y})
    <3> TAKE x, y
    <3>1. IsFiniteSet({}) /\ {x, y} = ({} \cup {x}) \cup {y}
      BY FS_EmptySet
    <3>2. QED
      BY <3>1, FS_AddElement, ZenonT(30)
  <2>2. QED
    BY <2>1 DEF FieldsOf
<1>4. IsFiniteSet(UNION F)
  <2> HIDE DEF F
  <2>1. QED
    BY <1>2, <1>3, FS_UNION
<1>5. IsFiniteSet({users_list, reminders_list, InFreedMemory})
  <2>1. IsFiniteSet({}) /\ {users_list, reminders_list, InFreedMemory}
          = (({} \cup {users_list}) \cup {reminders_list}) \cup {InFreedMemory}
    BY FS_EmptySet
  <2>2. IsFiniteSet({} \cup {users_list})
    BY <2>1, FS_AddElement
  <2>3. IsFiniteSet(({} \cup {users_list}) \cup {reminders_list})
    BY <2>2, FS_AddElement
  <2>4. QED
    BY <2>1, <2>3, FS_AddElement
<1>6. IsFiniteSet(Nodes)
  <2>1. Nodes = {users_list, reminders_list, InFreedMemory} \cup UNION F
    BY DEF Nodes, Fields
  <2> HIDE DEF F
  <2>2. QED
    BY <1>4, <1>5, <2>1, FS_Union
<1>7. QED
  BY <1>6, FS_CardinalityType

LEMMA ListIsShort ==
  ASSUME NEW head \in Heads, NEW l \in Seq(Embedded),
         \A i, j \in 1 .. Len(l) : l[i] = l[j] => i = j
  PROVE  Len(l) + 1 <= Cardinality(Nodes)
<1> DEFINE n == Len(l)
           D == 1 .. n + 1
           f == [k \in D |-> IF k = n + 1 THEN head ELSE l[k]]
<1>1. n \in Nat /\ \A k \in 1 .. n : l[k] \in Embedded
  BY LenProperties, ElementOfSeq
<1>2. \A k \in D : k = n + 1 \/ k \in 1 .. n
  BY <1>1
<1>3. head \notin Embedded /\ head \in Nodes /\ Embedded \subseteq Nodes
  BY HeadsAreNoEntries, NodesAre
<1>4. ASSUME NEW k \in D PROVE f[k] \in Nodes
  BY <1>1, <1>2, <1>3
<1>5. ASSUME NEW i \in D, NEW j \in D, f[i] = f[j] PROVE i = j
  <2>1. CASE i = n + 1
    BY <1>1, <1>2, <1>3, <1>5, <2>1
  <2>2. CASE j = n + 1
    BY <1>1, <1>2, <1>3, <1>5, <2>2
  <2>3. CASE i # n + 1 /\ j # n + 1
    <3>1. i \in 1 .. n /\ j \in 1 .. n /\ l[i] = l[j]
      BY <1>2, <1>5, <2>3
    <3>2. QED
      BY <3>1
  <2>4. QED
    BY <2>1, <2>2, <2>3
<1>6. f \in Injection(D, Nodes)
  <2>1. f \in [D -> Nodes]
    BY <1>4
  <2> HIDE DEF f
  <2>2. QED
    BY <1>5, <2>1 DEF Injection, IsInjective
<1>7. Cardinality(D) <= Cardinality(Nodes)
  <2> HIDE DEF f, D
  <2>1. QED
    BY <1>6, NodesAreFinite, FS_Injection
<1>8. Cardinality(D) = n + 1
  BY <1>1, FS_Interval
<1>9. QED
  BY <1>7, <1>8

(***************************************************************************)
(* The heap as rings.  What is freed is put aside: a freed head is seen as *)
(* an empty list, a freed entry as one that is in no list.                 *)
(***************************************************************************)
Aside(h, x) == IF x \in Heads THEN x ELSE Nowhere
Seen(h) ==
  [next |-> [x \in Heads \cup Embedded |-> IF IsFreed(h, x) THEN Aside(h, x) ELSE h.next[x]],
   prev |-> [x \in Heads \cup Embedded |-> IF IsFreed(h, x) THEN Aside(h, x) ELSE h.prev[x]]]

(* The form of a heap, in which nothing writes to what is freed.           *)
Kept(h) == \A x \in Nodes : IsFreed(h, x) => h.next[x] = InFreedMemory /\ h.prev[x] = InFreedMemory
HeapForm(h) ==
  /\ h = [next |-> h.next, prev |-> h.prev, block |-> h.block]
  /\ h.next = [x \in Nodes |-> h.next[x]] /\ h.prev = [x \in Nodes |-> h.prev[x]]
  /\ h.block = [b \in DOMAIN h.block |-> h.block[b]]
  /\ DOMAIN h.block \subseteq UserBlocks \cup ReminderBlocks
  /\ Kept(h)

(* The lists are rings, of live entries under live heads.                  *)
Live(h, x) == x \in Heads \cup Embedded /\ ~IsFreed(h, x)
HasRings(h, L) ==
  /\ HeapForm(h)
  /\ Rings!RingsInv(Seen(h), L)
  /\ \A g \in Heads : \A x \in Range(L[g]) : Live(h, g) /\ Live(h, x)

LEMMA RingIsWalked ==
  ASSUME NEW h, NEW L, HasRings(h, L), NEW g \in Heads, Live(h, g)
  PROVE  Entries(h, g) = L[g] /\ Comes(h, g)
<1> DEFINE l == L[g]
           n == Len(l)
           m == Seen(h)
<1>1. /\ Rings!RingsInv(m, L) /\ l \in Seq(Embedded)
      /\ \A x \in Range(l) : Live(h, x)
  BY DEF HasRings, Rings!RingsInv
<1>2. /\ n \in Nat /\ DOMAIN l = 1 .. n /\ l = [k \in 1 .. n |-> l[k]]
      /\ \A k \in 1 .. n : l[k] \in Embedded
  BY <1>1, LenProperties, ElementOfSeq
<1>3. IsInjective(l) /\ Rings!Segment(m, l)
  <2>1. Rings!IsInjective(l) /\ Rings!Segment(m, l)
    BY <1>1, HeadsAreNoEntries, Rings!ListIsSegment
  <2>2. QED
    BY <2>1, SameFunctions
<1>4. /\ m.next[g] = IF l = << >> THEN g ELSE l[1]
      /\ m.prev[g] = IF l = << >> THEN g ELSE l[n]
  BY <1>1, HeadsAreNoEntries, Rings!EndsOfList DEF Rings!FirstOf, Rings!LastOf
<1>5. n + 1 <= Cardinality(Nodes)
  <2> HIDE DEF l
  <2>1. \A i, j \in 1 .. Len(l) : l[i] = l[j] => i = j
    BY <1>2, <1>3 DEF IsInjective
  <2>2. QED
    BY <1>1, <2>1, ListIsShort
<1>6. \A x \in Heads \cup Embedded : Live(h, x) => m.next[x] = h.next[x]
  BY DEF Seen, Live
<1>7. l = << >> <=> n = 0
  BY <1>1, EmptySeq
<1>8. ASSUME NEW k \in 1 .. n PROVE h.next[IF k = 1 THEN g ELSE l[k - 1]] = l[k]
  <2>1. CASE k = 1
    BY <1>4, <1>6, <1>7, <2>1
  <2>2. CASE k # 1
    <3>1. k - 1 \in 1 .. n /\ k - 1 \in 1 .. Len(l) - 1 /\ k - 1 + 1 = k
      BY <1>2, <2>2
    <3>2. m.next[l[k - 1]] = l[k]
      <4>1. Rings!Link(m, l[k - 1], l[k - 1 + 1])
        BY <1>3, <3>1 DEF Rings!Segment
      <4>2. QED
        BY <3>1, <4>1 DEF Rings!Link, Rings!NextOf
    <3>3. Live(h, l[k - 1]) /\ l[k - 1] \in Heads \cup Embedded
      BY <1>1, <1>2, <3>1 DEF Range
    <3>4. QED
      BY <1>6, <2>2, <3>2, <3>3
  <2>3. QED
    BY <2>1, <2>2
<1>9. h.next[IF n = 0 THEN g ELSE l[n]] = g
  <2>1. CASE n = 0
    BY <1>4, <1>6, <1>7, <2>1
  <2>2. CASE n # 0
    <3> DEFINE s == SubSeq(l, 1, n - 1)
               e == << >>
    <3>1. n \in DOMAIN l /\ n \in 1 .. n /\ l[n] \in Embedded /\ Live(h, l[n])
      BY <1>1, <1>2, <2>2 DEF Range
    <3>2. Rings!Link(m, Rings!LastOf(Rings!Rest(g, l, e)), Rings!FirstOf(Rings!Rest(g, l, e)))
      <4>1. l \o e = l /\ e \in Seq(Embedded)
        BY <1>1, ConcatEmptySeq
      <4> HIDE DEF e
      <4>2. L[g] = l \o e
        BY <4>1
      <4>3. QED
        BY <1>1, <4>1, <4>2, HeadsAreNoEntries, Rings!NeighboursAre
    <3>3. /\ Rings!FirstOf(Rings!Rest(g, l, e)) = g
          /\ Rings!LastOf(Rings!Rest(g, l, e)) = l[n]
      <4>1. e \in Seq(Embedded) /\ e = << >> /\ l # << >>
        BY <1>7, <2>2
      <4> HIDE DEF e, l
      <4>2. QED
        BY <1>1, <4>1, HeadsAreNoEntries, Rings!EndsOfRest DEF Rings!LastOf
    <3>4. m.next[l[n]] = g
      BY <3>2, <3>3 DEF Rings!Link, Rings!NextOf
    <3>5. QED
      BY <1>6, <2>2, <3>1, <3>4
  <2>3. QED
    BY <2>1, <2>2
<1>10. \A k \in 1 .. n : l[k] \notin {g, InFreedMemory, Nowhere}
  BY <1>2, HeadsAndEntries
<1> HIDE DEF l, n
<1>11. Entries(h, g) = l /\ Comes(h, g)
  <2>1. Finds(h, g, l, n)
    BY <1>2, <1>8, <1>9, <1>10 DEF Finds
  <2>2. QED
    BY <1>2, <1>5, <2>1, NodesAreFinite, EntriesFound
<1>12. QED
  BY <1>11 DEF l

(***************************************************************************)
(* The operations of the list on a heap do to the rings what they do to    *)
(* the sequences, as long as they are called for what is live.             *)
(***************************************************************************)
LEMMA LiveAlike ==
  ASSUME NEW h, NEW h2, h2.block = h.block
  PROVE  \A x : (IsFreed(h2, x) <=> IsFreed(h, x)) /\ (Live(h2, x) <=> Live(h, x))
BY DEF IsFreed, Live

Rewritten(f, x, y) == [z \in DOMAIN f |-> IF z = x THEN y ELSE f[z]]

LEMMA MemorySet ==
  ASSUME NEW D, NEW n, NEW p, NEW x, NEW y, n = [z \in D |-> n[z]], p = [z \in D |-> p[z]],
         NEW m, m = [next |-> n, prev |-> p]
  PROVE  /\ SetNext(m, x, y) = [next |-> Rewritten(n, x, y), prev |-> p]
         /\ SetPrev(m, x, y) = [next |-> n, prev |-> Rewritten(p, x, y)]
<1>1. [n EXCEPT ![x] = y] = Rewritten(n, x, y)
  BY DEF Rewritten
<1>2. [p EXCEPT ![x] = y] = Rewritten(p, x, y)
  BY DEF Rewritten
<1>3. SetNext(m, x, y) = [next |-> [n EXCEPT ![x] = y], prev |-> p]
  BY DEF SetNext
<1>4. SetPrev(m, x, y) = [next |-> n, prev |-> [p EXCEPT ![x] = y]]
  BY DEF SetPrev
<1>5. QED
  BY <1>1, <1>2, <1>3, <1>4

(* One statement of them.                                                  *)
WrittenAs(h, h2, m2) == HeapForm(h2) /\ h2.block = h.block /\ Seen(h2) = m2

LEMMA PairWritten ==
  ASSUME NEW h, HeapForm(h), NEW x, Live(h, x), NEW y
  PROVE  /\ WrittenAs(h, SetNext(h, x, y), SetNext(Seen(h), x, y))
         /\ WrittenAs(h, SetPrev(h, x, y), SetPrev(Seen(h), x, y))
<1> DEFINE a == SetNext(h, x, y)
           b == SetPrev(h, x, y)
<1>1. x \in Nodes /\ ~IsFreed(h, x) /\ x \in Heads \cup Embedded
  BY NodesAre DEF Live
<1>0. /\ h = [next |-> h.next, prev |-> h.prev, block |-> h.block]
      /\ h.next = [z \in Nodes |-> h.next[z]] /\ h.prev = [z \in Nodes |-> h.prev[z]]
      /\ DOMAIN h.next = Nodes /\ DOMAIN h.prev = Nodes
  BY DEF HeapForm
<1>2. /\ a.next = [z \in Nodes |-> IF z = x THEN y ELSE h.next[z]]
      /\ a.prev = h.prev /\ a.block = h.block
      /\ a = [next |-> a.next, prev |-> a.prev, block |-> a.block]
  <2> DEFINE n == h.next
             p == h.prev
             b0 == h.block
  <2>1. n = [z \in Nodes |-> n[z]] /\ p = [z \in Nodes |-> p[z]] /\ h = [next |-> n, prev |-> p, block |-> b0]
    BY <1>0
  <2>2. DOMAIN n = Nodes /\ DOMAIN p = Nodes
    BY <1>0
  <2> HIDE DEF n, p, b0
  <2>3. a = [next |-> Rewritten(n, x, y), prev |-> p, block |-> b0]
    BY <2>1, <2>2 DEF SetNext, Rewritten
  <2>4. QED
    BY <2>2, <2>3 DEF Rewritten, n, p, b0
<1>3. /\ b.prev = [z \in Nodes |-> IF z = x THEN y ELSE h.prev[z]]
      /\ b.next = h.next /\ b.block = h.block
      /\ b = [next |-> b.next, prev |-> b.prev, block |-> b.block]
  <2> DEFINE n == h.next
             p == h.prev
             b0 == h.block
  <2>1. n = [z \in Nodes |-> n[z]] /\ p = [z \in Nodes |-> p[z]] /\ h = [next |-> n, prev |-> p, block |-> b0]
    BY <1>0
  <2>2. DOMAIN n = Nodes /\ DOMAIN p = Nodes
    BY <1>0
  <2> HIDE DEF n, p, b0
  <2>3. b = [next |-> n, prev |-> Rewritten(p, x, y), block |-> b0]
    BY <2>1, <2>2 DEF SetPrev, Rewritten
  <2>4. QED
    BY <2>2, <2>3 DEF Rewritten, n, p, b0, b
<1> HIDE DEF a, b
<1>4. \A z : (IsFreed(a, z) <=> IsFreed(h, z)) /\ (IsFreed(b, z) <=> IsFreed(h, z))
  BY <1>2, <1>3 DEF IsFreed
<1>5. HeapForm(a)
  <2>1. Kept(a)
    BY <1>1, <1>2, <1>4 DEF HeapForm, Kept
  <2>2. QED
    BY <1>2, <2>1 DEF HeapForm
<1>6. HeapForm(b)
  <2>1. Kept(b)
    BY <1>1, <1>3, <1>4 DEF HeapForm, Kept
  <2>2. QED
    BY <1>3, <2>1 DEF HeapForm
<1>7. Seen(a) = SetNext(Seen(h), x, y)
  <2>1. \A z \in Heads \cup Embedded :
          (IF IsFreed(a, z) THEN Aside(a, z) ELSE a.next[z])
            = IF z = x THEN y ELSE IF IsFreed(h, z) THEN Aside(h, z) ELSE h.next[z]
    BY <1>1, <1>2, <1>4, NodesAre DEF Aside
  <2>2. \A z \in Heads \cup Embedded :
          (IF IsFreed(a, z) THEN Aside(a, z) ELSE a.prev[z])
            = IF IsFreed(h, z) THEN Aside(h, z) ELSE h.prev[z]
    BY <1>2, <1>4 DEF Aside
  <2>3. QED
    <3> DEFINE Z == Heads \cup Embedded
               n == [z \in Z |-> IF IsFreed(h, z) THEN Aside(h, z) ELSE h.next[z]]
               o == [z \in Z |-> IF IsFreed(h, z) THEN Aside(h, z) ELSE h.prev[z]]
    <3>1. Seen(a) = [next |-> Rewritten(n, x, y), prev |-> o]
      BY <2>1, <2>2 DEF Seen, Rewritten
    <3>2. n = [z \in Z |-> n[z]] /\ o = [z \in Z |-> o[z]] /\ Seen(h) = [next |-> n, prev |-> o]
      BY DEF Seen
    <3> HIDE DEF n, o, Z
    <3>3. QED
      BY <3>1, <3>2, MemorySet, SMTT(30)
<1>8. Seen(b) = SetPrev(Seen(h), x, y)
  <2>1. \A z \in Heads \cup Embedded :
          (IF IsFreed(b, z) THEN Aside(b, z) ELSE b.prev[z])
            = IF z = x THEN y ELSE IF IsFreed(h, z) THEN Aside(h, z) ELSE h.prev[z]
    BY <1>1, <1>3, <1>4, NodesAre DEF Aside
  <2>2. \A z \in Heads \cup Embedded :
          (IF IsFreed(b, z) THEN Aside(b, z) ELSE b.next[z])
            = IF IsFreed(h, z) THEN Aside(h, z) ELSE h.next[z]
    BY <1>3, <1>4 DEF Aside
  <2>3. QED
    <3> DEFINE Z == Heads \cup Embedded
               n == [z \in Z |-> IF IsFreed(h, z) THEN Aside(h, z) ELSE h.next[z]]
               o == [z \in Z |-> IF IsFreed(h, z) THEN Aside(h, z) ELSE h.prev[z]]
    <3>1. Seen(b) = [next |-> n, prev |-> Rewritten(o, x, y)]
      BY <2>1, <2>2 DEF Seen, Rewritten
    <3>2. n = [z \in Z |-> n[z]] /\ o = [z \in Z |-> o[z]] /\ Seen(h) = [next |-> n, prev |-> o]
      BY DEF Seen
    <3> HIDE DEF n, o, Z
    <3>3. QED
      <4>1. SetPrev(Seen(h), x, y) = [next |-> n, prev |-> Rewritten(o, x, y)]
        BY <3>2, MemorySet, SMTT(30)
      <4>2. QED
        BY <3>1, <4>1
<1>9. QED
  BY <1>2, <1>3, <1>5, <1>6, <1>7, <1>8 DEF WrittenAs, a, b

(* A statement after others.                                               *)
LEMMA WrittenNext ==
  ASSUME NEW h, NEW h2, NEW m2, WrittenAs(h, h2, m2), NEW x, Live(h, x), NEW y
  PROVE  /\ WrittenAs(h, SetNext(h2, x, y), SetNext(m2, x, y))
         /\ WrittenAs(h, SetPrev(h2, x, y), SetPrev(m2, x, y))
<1>1. HeapForm(h2) /\ h2.block = h.block /\ m2 = Seen(h2)
  BY DEF WrittenAs
<1>2. Live(h2, x)
  BY <1>1, LiveAlike
<1>3. QED
  BY <1>1, <1>2, PairWritten DEF WrittenAs

LEMMA NothingWritten == ASSUME NEW h, HeapForm(h) PROVE WrittenAs(h, h, Seen(h))
BY DEF WrittenAs

LEMMA HeadInitialised ==
  ASSUME NEW h, NEW h2, NEW m2, WrittenAs(h, h2, m2), NEW x, Live(h, x)
  PROVE  WrittenAs(h, INIT_LIST_HEAD(h2, x), INIT_LIST_HEAD(m2, x))
<1>1. WrittenAs(h, SetNext(h2, x, x), SetNext(m2, x, x))
  BY WrittenNext
<1>2. QED
  BY <1>1, WrittenNext DEF INIT_LIST_HEAD

LEMMA BetweenAdded ==
  ASSUME NEW h, HeapForm(h), NEW x, Live(h, x), NEW p, Live(h, p), NEW q, Live(h, q)
  PROVE  WrittenAs(h, AddBetween(h, x, p, q), AddBetween(Seen(h), x, p, q))
<1> DEFINE a(m) == SetPrev(m, q, x)
           b(m) == SetNext(a(m), x, q)
           c(m) == SetPrev(b(m), x, p)
<1>1. WrittenAs(h, a(h), a(Seen(h)))
  BY NothingWritten, WrittenNext
<1> HIDE DEF a
<1>2. WrittenAs(h, b(h), b(Seen(h)))
  BY <1>1, WrittenNext
<1> HIDE DEF b
<1>3. WrittenAs(h, c(h), c(Seen(h)))
  BY <1>2, WrittenNext
<1> HIDE DEF c
<1>4. WrittenAs(h, SetNext(c(h), p, x), SetNext(c(Seen(h)), p, x))
  BY <1>3, WrittenNext
<1>5. QED
  BY <1>4 DEF AddBetween, c, b, a

(* What is linked to and from under a live head.                           *)
LEMMA NeighboursLive ==
  ASSUME NEW h, NEW L, HasRings(h, L), NEW g \in Heads, Live(h, g),
         NEW s \in Seq(Embedded), NEW t \in Seq(Embedded), L[g] = s \o t,
         NEW p, p = (IF s = << >> THEN g ELSE s[Len(s)]),
         NEW q, q = (IF t = << >> THEN g ELSE t[1])
  PROVE  /\ Live(h, p) /\ Live(h, q)
         /\ h.next[p] = q /\ h.prev[q] = p
         /\ p = Rings!LastOf(Rings!Rest(g, s, t)) /\ q = Rings!FirstOf(Rings!Rest(g, s, t))
<1> DEFINE m == Seen(h)
<1>1. p = Rings!LastOf(Rings!Rest(g, s, t)) /\ q = Rings!FirstOf(Rings!Rest(g, s, t))
  BY HeadsAreNoEntries, Rings!EndsOfRest DEF Rings!LastOf, Rings!FirstOf
<1>2. Rings!Link(m, Rings!LastOf(Rings!Rest(g, s, t)), Rings!FirstOf(Rings!Rest(g, s, t)))
  BY HeadsAreNoEntries, Rings!NeighboursAre DEF HasRings
<1>3. m.next[p] = q /\ m.prev[q] = p
  BY <1>1, <1>2 DEF Rings!Link, Rings!NextOf, Rings!PrevOf
<1>4. \A x \in Range(s) \cup Range(t) : Live(h, x)
  <2>1. Rings!Range(s \o t) = Rings!Range(s) \cup Rings!Range(t)
    BY HeadsAreNoEntries, Rings!CatIs
  <2>2. Range(L[g]) = Range(s) \cup Range(t)
    BY <2>1, SameFunctions
  <2>3. QED
    BY <2>2 DEF HasRings
<1>5. Live(h, p)
  <2>1. CASE s = << >>
    BY <2>1
  <2>2. CASE s # << >>
    <3>1. Len(s) \in DOMAIN s
      BY <2>2, LenProperties, EmptySeq
    <3>2. QED
      BY <1>4, <2>2, <3>1 DEF Range
  <2>3. QED
    BY <2>1, <2>2
<1>6. Live(h, q)
  <2>1. CASE t = << >>
    BY <2>1
  <2>2. CASE t # << >>
    <3>1. 1 \in DOMAIN t
      BY <2>2, LenProperties, EmptySeq
    <3>2. QED
      BY <1>4, <2>2, <3>1 DEF Range
  <2>3. QED
    BY <2>1, <2>2
<1>7. h.next[p] = q /\ h.prev[q] = p
  BY <1>3, <1>5, <1>6 DEF Seen, Live
<1>8. QED
  BY <1>1, <1>5, <1>6, <1>7

First(l, g) == IF l = << >> THEN g ELSE l[1]

Put(h, h2, L, L2, g, x) ==
  /\ HasRings(h2, L2) /\ h2.block = h.block
  /\ \A f \in Heads : \A y : y \in Range(L2[f]) <=> y \in Range(L[f]) \/ (f = g /\ y = x)
TakenOut(h, h2, L, L2, g, x) ==
  /\ HasRings(h2, L2) /\ h2.block = h.block /\ Rings!InNone(L2, x)
  /\ \A f \in Heads \ {g} : L2[f] = L[f]
  /\ \A f \in Heads : \A y : y \in Range(L2[f]) <=> y \in Range(L[f]) /\ y # x

LEMMA Inserted ==
  ASSUME NEW h, NEW L, HasRings(h, L), NEW g \in Heads, Live(h, g),
         NEW s \in Seq(Embedded), NEW t \in Seq(Embedded), L[g] = s \o t,
         NEW x \in Embedded, Live(h, x), Rings!InNone(L, x),
         NEW q, q = First(t, g), NEW h2, h2 = AddTail(h, x, q)
  PROVE  \E L2 : Put(h, h2, L, L2, g, x)
<1> DEFINE p == IF s = << >> THEN g ELSE s[Len(s)]
           w == Rings!With(s, x, t)
           L2 == [L EXCEPT ![g] = w]
<1>0. p = (IF s = << >> THEN g ELSE s[Len(s)]) /\ q = (IF t = << >> THEN g ELSE t[1])
  BY DEF First
<1> HIDE DEF p
<1>1. /\ Live(h, p) /\ Live(h, q) /\ h.prev[q] = p
      /\ p = Rings!LastOf(Rings!Rest(g, s, t)) /\ q = Rings!FirstOf(Rings!Rest(g, s, t))
  BY <1>0, NeighboursLive
<1>2. HeapForm(h) /\ Rings!RingsInv(Seen(h), L) /\ L \in [Heads -> Seq(Embedded)]
  BY DEF HasRings, Rings!RingsInv
<1>3. h2 = AddBetween(h, x, p, q)
  BY <1>1 DEF AddTail
<1>4. WrittenAs(h, h2, AddBetween(Seen(h), x, p, q))
  BY <1>1, <1>2, <1>3, BetweenAdded
<1>5. Rings!RingsInv(AddBetween(Seen(h), x, p, q), L2)
  <2>1. Rings!RingsInv(Rings!AddBetween(Seen(h), x, Rings!LastOf(Rings!Rest(g, s, t)),
                                        Rings!FirstOf(Rings!Rest(g, s, t))), L2)
    BY <1>2, HeadsAreNoEntries, Rings!EntryIsAdded
  <2>2. QED
    BY <1>1, <2>1, SameOperations
<1>6. Range(w) = Range(L[g]) \cup {x}
  <2>1. Rings!Range(w) = {x} \cup Rings!Range(s \o t)
    BY HeadsAreNoEntries, Rings!ListWithEntry
  <2>2. QED
    BY <2>1, SameFunctions
<1>7. ASSUME NEW f \in Heads, NEW z \in Range(L2[f]) PROVE Live(h2, f) /\ Live(h2, z)
  <2>1. Live(h, f) /\ Live(h, z)
    <3>1. CASE f = g
      <4>1. z \in Range(L[g]) \cup {x}
        BY <1>2, <1>6, <1>7, <3>1
      <4>2. QED
        BY <3>1, <4>1 DEF HasRings
    <3>2. CASE f # g
      <4>1. z \in Range(L[f])
        BY <1>2, <1>7, <3>2
      <4>2. QED
        BY <4>1 DEF HasRings
    <3>3. QED
      BY <3>1, <3>2
  <2>2. h2.block = h.block
    BY <1>4 DEF WrittenAs
  <2>3. QED
    BY <2>1, <2>2, LiveAlike
<1>8. HasRings(h2, L2) /\ h2.block = h.block
  BY <1>4, <1>5, <1>7 DEF HasRings, WrittenAs
<1>9. \A f \in Heads : L2[f] = IF f = g THEN w ELSE L[f]
  BY <1>2
<1> HIDE DEF L2, w
<1>10. Put(h, h2, L, L2, g, x)
  BY <1>6, <1>8, <1>9 DEF Put
<1>11. QED
  BY <1>10

LEMMA TakenFrom ==
  ASSUME NEW h, NEW L, HasRings(h, L), NEW g \in Heads, NEW x \in Embedded,
         NEW s \in Seq(Embedded), NEW t \in Seq(Embedded), L[g] = Rings!With(s, x, t),
         NEW h2, h2 = Del(h, x)
  PROVE  /\ \E L2 : TakenOut(h, h2, L, L2, g, x) /\ L2[g] = s \o t
         /\ Live(h, x) /\ Live(h, g) /\ h.next[x] = First(t, g)
<1> DEFINE u == <<x>> \o t
           v == s \o <<x>>
           p == IF s = << >> THEN g ELSE s[Len(s)]
           q == IF t = << >> THEN g ELSE t[1]
           L2 == [L EXCEPT ![g] = s \o t]
           m == Seen(h)
<1>1. HeapForm(h) /\ Rings!RingsInv(m, L) /\ L \in [Heads -> Seq(Embedded)]
  BY DEF HasRings, Rings!RingsInv
<1>2. /\ u \in Seq(Embedded) /\ u # << >> /\ u[1] = x
      /\ v \in Seq(Embedded) /\ v # << >> /\ v[Len(v)] = x
      /\ L[g] = s \o u /\ L[g] = v \o t
  <2> DEFINE o == <<x>>
  <2>1. o \in Seq(Embedded) /\ Len(o) = 1 /\ o[1] = x /\ o # << >>
    OBVIOUS
  <2> HIDE DEF o
  <2>2. (s \o o) \o t = s \o (o \o t)
    BY <2>1, ConcatAssociative
  <2>3. o \o t \in Seq(Embedded) /\ o \o t # << >> /\ (o \o t)[1] = x
    BY <2>1, HeadsAreNoEntries, Rings!CatIs, Rings!EndsOfCat DEF Rings!FirstOf
  <2>4. s \o o \in Seq(Embedded) /\ s \o o # << >> /\ (s \o o)[Len(s \o o)] = x
    BY <2>1, HeadsAreNoEntries, Rings!CatIs, Rings!EndsOfCat DEF Rings!LastOf
  <2>5. QED
    BY <2>2, <2>3, <2>4 DEF o, Rings!With
<1>3. Rings!Range(L[g]) = {x} \cup Rings!Range(s \o t) /\ Range(L[g]) = {x} \cup Range(s \o t)
  <2>1. Rings!Range(L[g]) = {x} \cup Rings!Range(s \o t)
    BY HeadsAreNoEntries, Rings!ListWithEntry
  <2>2. QED
    BY <2>1, SameFunctions
<1>4. Live(h, x) /\ Live(h, g)
  BY <1>3 DEF HasRings
<1>5. h.prev[x] = p /\ Live(h, p)
  <2> DEFINE y == IF u = << >> THEN g ELSE u[1]
  <2>1. y = x
    BY <1>2
  <2>2. y = (IF u = << >> THEN g ELSE u[1]) /\ p = (IF s = << >> THEN g ELSE s[Len(s)])
    OBVIOUS
  <2> HIDE DEF u, y, p
  <2>3. Live(h, p) /\ h.prev[y] = p
    <3>1. u \in Seq(Embedded) /\ L[g] = s \o u
      BY <1>2
    <3>2. QED
      BY <1>4, <2>2, <3>1, NeighboursLive, SMTT(30)
  <2>4. QED
    BY <2>1, <2>3
<1>6. h.next[x] = q /\ Live(h, q)
  <2> DEFINE y == IF v = << >> THEN g ELSE v[Len(v)]
  <2>1. y = x
    BY <1>2
  <2>2. y = (IF v = << >> THEN g ELSE v[Len(v)]) /\ q = (IF t = << >> THEN g ELSE t[1])
    OBVIOUS
  <2> HIDE DEF v, y, q
  <2>3. Live(h, q) /\ h.next[y] = q
    <3>1. v \in Seq(Embedded) /\ L[g] = v \o t
      BY <1>2
    <3>2. QED
      BY <1>4, <2>2, <3>1, NeighboursLive, SMTT(30)
  <2>4. QED
    BY <2>1, <2>3
<1>7. m.prev[x] = p /\ m.next[x] = q
  BY <1>4, <1>5, <1>6 DEF Seen, Live
<1>8. h2 = SetPrev(SetNext(SetNext(SetPrev(h, q, p), p, q), x, Nowhere), x, Nowhere)
  BY <1>5, <1>6 DEF Del, Unlink, Join
<1>9. Unlink(m, x) = SetNext(SetPrev(m, q, p), p, q)
  BY <1>7 DEF Unlink, Join
<1>10. WrittenAs(h, h2, SetPrev(SetNext(Unlink(m, x), x, Nowhere), x, Nowhere))
  <2> HIDE DEF p, q, m
  <2>1. WrittenAs(h, SetPrev(h, q, p), SetPrev(m, q, p))
    BY <1>1, <1>6, NothingWritten, WrittenNext DEF m
  <2>2. WrittenAs(h, SetNext(SetPrev(h, q, p), p, q), SetNext(SetPrev(m, q, p), p, q))
    BY <1>5, <2>1, WrittenNext
  <2>3. WrittenAs(h, SetNext(SetNext(SetPrev(h, q, p), p, q), x, Nowhere),
                     SetNext(Unlink(m, x), x, Nowhere))
    BY <1>4, <1>9, <2>2, WrittenNext
  <2>4. QED
    BY <1>4, <1>8, <2>3, WrittenNext
<1>11. Rings!RingsInv(Unlink(m, x), L2) /\ Rings!InNone(L2, x)
  <2>1. Rings!RingsInv(Rings!Unlink(m, x), L2) /\ Rings!InNone(L2, x)
    BY <1>1, HeadsAreNoEntries, Rings!EntryIsUnlinked
  <2>2. QED
    BY <2>1, SameOperations
<1>12. Rings!RingsInv(SetPrev(SetNext(Unlink(m, x), x, Nowhere), x, Nowhere), L2)
  <2>1. Nowhere \in Rings!Target
    BY DEF Rings!Target
  <2> HIDE DEF L2
  <2>2. Rings!RingsInv(Rings!SetPrev(Rings!SetNext(Unlink(m, x), x, Nowhere), x, Nowhere), L2)
    BY <1>11, <2>1, HeadsAreNoEntries, Rings!FreeEntryIsInit
  <2>3. QED
    BY <2>2, SameOperations
<1>13. ASSUME NEW f \in Heads, NEW z \in Range(L2[f]) PROVE Live(h2, f) /\ Live(h2, z)
  <2>1. Live(h, f) /\ Live(h, z)
    <3>1. CASE f = g
      <4>1. z \in Range(L[g])
        BY <1>1, <1>3, <1>13, <3>1
      <4>2. QED
        BY <3>1, <4>1 DEF HasRings
    <3>2. CASE f # g
      <4>1. z \in Range(L[f])
        BY <1>1, <1>13, <3>2
      <4>2. QED
        BY <4>1 DEF HasRings
    <3>3. QED
      BY <3>1, <3>2
  <2>2. h2.block = h.block
    BY <1>10 DEF WrittenAs
  <2>3. QED
    BY <2>1, <2>2, LiveAlike
<1>14. HasRings(h2, L2) /\ h2.block = h.block
  <2> HIDE DEF L2, m
  <2>1. QED
    BY <1>10, <1>12, <1>13 DEF HasRings, WrittenAs
<1>15. h.next[x] = First(t, g)
  BY <1>6 DEF First
<1> DEFINE c == s \o t
<1>16. \A f \in Heads : L2[f] = IF f = g THEN c ELSE L[f]
  BY <1>1
<1> HIDE DEF L2, c
<1>17. ASSUME NEW f \in Heads, NEW y
       PROVE  y \in Range(L2[f]) <=> y \in Range(L[f]) /\ y # x
  <2>1. x \notin Range(L2[f])
    BY <1>11, SameFunctions DEF Rings!InNone
  <2>2. Range(L[g]) = {x} \cup Range(c)
    BY <1>3 DEF c
  <2>3. QED
    BY <1>16, <2>1, <2>2
<1>18. TakenOut(h, h2, L, L2, g, x)
  BY <1>11, <1>14, <1>16, <1>17 DEF TakenOut
<1>19. L2[g] = s \o t
  BY <1>16 DEF c
<1>20. QED
  BY <1>4, <1>15, <1>18, <1>19

(* The same for an entry that is known to be in a list.                    *)
LEMMA PlaceOfEntry ==
  ASSUME NEW l \in Seq(Embedded), NEW x \in Range(l)
  PROVE  x \in Embedded /\ \E s \in Seq(Embedded), t \in Seq(Embedded) : l = Rings!With(s, x, t)
<1>1. x \in Rings!Range(l)
  BY SameFunctions
<1>2. QED
  BY <1>1, HeadsAreNoEntries, Rings!EntryInList

(***************************************************************************)
(* kmalloc and kfree.                                                      *)
(***************************************************************************)
Blocks == UserBlocks \cup ReminderBlocks

(* The fields of a block are the list_heads that are freed with it.        *)
LEMMA FieldsOfBlock ==
  ASSUME NEW b \in Blocks, NEW x \in Heads \cup Embedded
  PROVE  /\ x \in FieldsOf(b) <=> BlockOf(x) = b
         /\ b \in UserBlocks => FieldsOf(b) = {ListOfUsers(b), NotificationsList(b)}
         /\ b \in ReminderBlocks => FieldsOf(b) = {Queued(b), UserNotify(b)}
         /\ FieldsOf(b) \subseteq Heads \cup Embedded
<1>1. /\ b \in UserBlocks => FieldsOf(b) = {ListOfUsers(b), NotificationsList(b)}
      /\ b \in ReminderBlocks => FieldsOf(b) = {Queued(b), UserNotify(b)}
  BY BlocksAre DEF FieldsOf
<1>2. x \in FieldsOf(b) => BlockOf(x) = b
  BY <1>1, FieldsAre DEF Blocks
<1>3. FieldsOf(b) \subseteq Heads \cup Embedded
  BY <1>1 DEF Heads, Embedded, Blocks
<1>4. ASSUME BlockOf(x) = b PROVE x \in FieldsOf(b)
  <2>1. CASE x \in {users_list, reminders_list}
    BY <1>4, <2>1, FieldsAre, BlocksAre DEF Blocks
  <2>2. ASSUME NEW u \in UserBlocks, x = ListOfUsers(u) \/ x = NotificationsList(u)
        PROVE  x \in FieldsOf(b)
    BY <1>1, <1>4, <2>2, FieldsAre
  <2>3. ASSUME NEW r \in ReminderBlocks, x = Queued(r) \/ x = UserNotify(r)
        PROVE  x \in FieldsOf(b)
    BY <1>1, <1>4, <2>3, FieldsAre
  <2>4. QED
    BY <2>1, <2>2, <2>3 DEF Heads, Embedded
<1>5. QED
  BY <1>1, <1>2, <1>3, <1>4

(* What freeing a block leaves of the data: that of the others.            *)
Shrunk(h, h2, b) ==
  DOMAIN h2.block = DOMAIN h.block \ {b} /\ \A c \in DOMAIN h2.block : h2.block[c] = h.block[c]

(* Freeing a block whose fields are in no list any more; a user goes with  *)
(* its list.                                                               *)
LEMMA BlockFreed ==
  ASSUME NEW h, NEW L, HasRings(h, L), NEW b \in Blocks,
         \A x \in FieldsOf(b) \cap Embedded : Rings!InNone(L, x),
         NEW h2, h2 = Kfree(h, b)
  PROVE  /\ b \in UserBlocks => HasRings(h2, [L EXCEPT ![NotificationsList(b)] = << >>])
         /\ b \in ReminderBlocks => HasRings(h2, L)
         /\ Shrunk(h, h2, b)
<1> DEFINE g == NotificationsList(b)
           L2 == IF b \in UserBlocks THEN [L EXCEPT ![g] = << >>] ELSE L
           N == FieldsOf(b)
           m == Seen(h)
           m2 == Seen(h2)
<1>1. HeapForm(h) /\ Rings!RingsInv(m, L) /\ L \in [Heads -> Seq(Embedded)] /\ m \in Rings!Memories
  BY DEF HasRings, Rings!RingsInv
<1>2. /\ N \subseteq Heads \cup Embedded /\ N \subseteq Nodes
      /\ b \in UserBlocks => N = {ListOfUsers(b), g}
      /\ b \in ReminderBlocks => N = {Queued(b), UserNotify(b)}
  <2>1. users_list \in Heads \cup Embedded
    BY DEF Heads
  <2>2. QED
    BY <2>1, FieldsOfBlock, NodesAre
<1>3. /\ h2.next = [x \in Nodes |-> IF x \in N THEN InFreedMemory ELSE h.next[x]]
      /\ h2.prev = [x \in Nodes |-> IF x \in N THEN InFreedMemory ELSE h.prev[x]]
      /\ h2.block = [c \in DOMAIN h.block \ {b} |-> h.block[c]]
      /\ h2 = [next |-> h2.next, prev |-> h2.prev, block |-> h2.block]
  BY DEF Kfree, Filled
<1>4. DOMAIN h2.block = DOMAIN h.block \ {b} /\ \A c \in DOMAIN h2.block : h2.block[c] = h.block[c]
  BY <1>3
<1>5. \A x \in Heads \cup Embedded : IsFreed(h2, x) <=> IsFreed(h, x) \/ x \in N
  <2> SUFFICES ASSUME NEW x \in Heads \cup Embedded
               PROVE  IsFreed(h2, x) <=> IsFreed(h, x) \/ x \in N
    OBVIOUS
  <2>1. x \in N <=> BlockOf(x) = b
    BY FieldsOfBlock
  <2>2. x \in N => x \notin {users_list, reminders_list}
    BY <2>1, FieldsAre, BlocksAre DEF Blocks
  <2>3. QED
    BY <1>4, <2>1, <2>2 DEF IsFreed
<1>6. HeapForm(h2)
  <2>1. Kept(h2)
    <3> SUFFICES ASSUME NEW x \in Nodes, IsFreed(h2, x)
                 PROVE  h2.next[x] = InFreedMemory /\ h2.prev[x] = InFreedMemory
      BY DEF Kept
    <3>1. x \in N \/ IsFreed(h, x)
      <4>1. CASE x \in Heads \cup Embedded
        BY <1>5, <4>1
      <4>2. CASE x \notin Heads \cup Embedded
        <5>1. x = InFreedMemory
          BY <4>2, NodesAre
        <5>2. BlockOf(x) \notin DOMAIN h.block /\ x \notin {users_list, reminders_list}
          BY <1>1, <5>1, FieldsAre, BlocksAre DEF HeapForm
        <5>3. QED
          BY <5>2 DEF IsFreed
      <4>3. QED
        BY <4>1, <4>2
    <3>2. QED
      BY <1>1, <1>3, <3>1 DEF HeapForm, Kept
  <2>2. /\ h2.next = [x \in Nodes |-> h2.next[x]] /\ h2.prev = [x \in Nodes |-> h2.prev[x]]
        /\ h2.block = [c \in DOMAIN h2.block |-> h2.block[c]]
    BY <1>3
  <2>3. DOMAIN h2.block \subseteq UserBlocks \cup ReminderBlocks
    BY <1>1, <1>4 DEF HeapForm
  <2>4. QED
    BY <1>3, <2>1, <2>2, <2>3 DEF HeapForm
<1>7. /\ m2.next = [x \in Heads \cup Embedded |-> IF x \in N THEN Aside(h2, x) ELSE m.next[x]]
      /\ m2.prev = [x \in Heads \cup Embedded |-> IF x \in N THEN Aside(h2, x) ELSE m.prev[x]]
      /\ m2 = [next |-> m2.next, prev |-> m2.prev]
  <2>1. \A x : Aside(h2, x) = Aside(h, x)
    BY DEF Aside
  <2>2. ASSUME NEW x \in Heads \cup Embedded
        PROVE  /\ m2.next[x] = IF x \in N THEN Aside(h2, x) ELSE m.next[x]
               /\ m2.prev[x] = IF x \in N THEN Aside(h2, x) ELSE m.prev[x]
    BY <1>3, <1>5, <2>1, NodesAre DEF Seen
  <2>3. /\ m2.next = [x \in Heads \cup Embedded |-> m2.next[x]]
        /\ m2.prev = [x \in Heads \cup Embedded |-> m2.prev[x]]
        /\ m2 = [next |-> m2.next, prev |-> m2.prev]
    BY DEF Seen
  <2> HIDE DEF m, m2, N
  <2>4. QED
    BY <2>2, <2>3
<1> HIDE DEF m, m2, N
<1>8. m2 \in Rings!Memories
  <2>1. \A x \in Heads \cup Embedded : Aside(h2, x) \in Rings!Target
    BY DEF Aside, Rings!Target, Rings!ListHead
  <2>2. QED
    BY <1>1, <1>7, <2>1, SMTT(30) DEF Rings!Memories, Rings!ListHead
<1>9. Rings!Changed(m, m2, N, N)
  BY <1>7 DEF Rings!Changed, Rings!NextOf, Rings!PrevOf, Rings!ListHead
<1>10. CASE b \in UserBlocks
  <2>1. N = {ListOfUsers(b), g} /\ g \in Heads /\ ListOfUsers(b) \in Embedded
    BY <1>2, <1>10 DEF Heads, Embedded
  <2>2. Rings!Link(m2, g, g)
    BY <1>7, <2>1 DEF Rings!Link, Rings!NextOf, Rings!PrevOf, Aside
  <2>3. N \subseteq Embedded \cup {g} /\ \A x \in N \cap Embedded : Rings!InNone(L, x)
    BY <2>1 DEF N
  <2>4. Rings!RingsInv(m2, [L EXCEPT ![g] = << >>])
    BY <1>1, <1>8, <1>9, <2>1, <2>2, <2>3, HeadsAreNoEntries, Rings!HeadIsEmptied
  <2>5. ASSUME NEW f \in Heads, NEW z \in Range(L2[f]) PROVE Live(h2, f) /\ Live(h2, z)
    <3>1. L2 = [L EXCEPT ![g] = << >>]
      BY <1>10
    <3>2. f # g /\ z \in Range(L[f])
      <4>1. Range(<< >>) = {}
        BY DEF Range
      <4>2. QED
        BY <1>1, <2>1, <2>5, <3>1, <4>1
    <3>3. Live(h, f) /\ Live(h, z)
      BY <3>2 DEF HasRings
    <3>4. f \notin N
      BY <2>1, <3>2, HeadsAreNoEntries
    <3>5. z \notin N
      <4>1. z \in Embedded
        BY <1>1, <3>2, RangeOfSeq
      <4>2. ~Rings!InNone(L, z)
        BY <3>2, SameFunctions DEF Rings!InNone
      <4>3. QED
        BY <2>3, <4>1, <4>2
    <3>6. QED
      BY <1>5, <3>3, <3>4, <3>5 DEF Live
  <2>6. L2 = [L EXCEPT ![g] = << >>]
    BY <1>10
  <2>7. HasRings(h2, L2)
    BY <1>6, <2>4, <2>5, <2>6 DEF HasRings, m2
  <2>8. QED
    BY <1>4, <1>10, <2>6, <2>7, BlocksAre DEF Shrunk
<1>11. CASE b \in ReminderBlocks
  <2>1. N = {Queued(b), UserNotify(b)} /\ N \subseteq Embedded /\ b \notin UserBlocks
    BY <1>2, <1>11, BlocksAre DEF Embedded
  <2>2. \A x \in N : Rings!InNone(L, x)
    BY <2>1 DEF N
  <2>3. \A f \in Heads : Rings!Nodes(L, f) \cap N = {}
    BY <2>1, <2>2, HeadsAreNoEntries DEF Rings!Nodes, Rings!InNone
  <2>4. Rings!RingsInv(m2, L)
    BY <1>1, <1>8, <1>9, <2>3, HeadsAreNoEntries, Rings!OthersAreKept
  <2>5. ASSUME NEW f \in Heads, NEW z \in Range(L[f]) PROVE Live(h2, f) /\ Live(h2, z)
    <3>1. Live(h, f) /\ Live(h, z)
      BY <2>5 DEF HasRings
    <3>2. f \notin N /\ z \notin N
      BY <2>1, <2>2, <2>5, HeadsAreNoEntries, SameFunctions DEF Rings!InNone
    <3>3. QED
      BY <1>5, <3>1, <3>2 DEF Live
  <2>6. HasRings(h2, L)
    BY <1>6, <2>4, <2>5 DEF HasRings, m2
  <2>7. QED
    BY <1>4, <2>1, <2>6 DEF Shrunk
<1>12. QED
  BY <1>10, <1>11 DEF Blocks

(* A block that was free: nothing is linked to its fields, which point     *)
(* nowhere until they are initialised.                                     *)
LEMMA BlockAllocated ==
  ASSUME NEW h, HeapForm(h), NEW b \in Blocks, b \notin DOMAIN h.block, NEW data
  PROVE  LET k == Kmalloc(h, b, data)
         IN /\ HeapForm(k)
            /\ \A x \in Heads \cup Embedded : Live(k, x) <=> Live(h, x) \/ x \in FieldsOf(b)
            /\ \A x \in FieldsOf(b) : ~Live(h, x)
            /\ \A x \in Heads \cup Embedded :
                 /\ Seen(k).next[x] = IF x \in FieldsOf(b) THEN Nowhere ELSE Seen(h).next[x]
                 /\ Seen(k).prev[x] = IF x \in FieldsOf(b) THEN Nowhere ELSE Seen(h).prev[x]
            /\ k.block = [c \in DOMAIN h.block \cup {b} |-> IF c = b THEN data ELSE h.block[c]]
<1> DEFINE k == Kmalloc(h, b, data)
           N == FieldsOf(b)
<1>1. N \subseteq Heads \cup Embedded /\ \A x \in Heads \cup Embedded : x \in N <=> BlockOf(x) = b
  <2>1. users_list \in Heads \cup Embedded
    BY DEF Heads
  <2>2. QED
    BY <2>1, FieldsOfBlock
<1>2. /\ k.next = [x \in Nodes |-> IF x \in N THEN Nowhere ELSE h.next[x]]
      /\ k.prev = [x \in Nodes |-> IF x \in N THEN Nowhere ELSE h.prev[x]]
      /\ k.block = [c \in DOMAIN h.block \cup {b} |-> IF c = b THEN data ELSE h.block[c]]
      /\ k = [next |-> k.next, prev |-> k.prev, block |-> k.block]
  BY DEF Kmalloc, Filled
<1> HIDE DEF k, N
<1>3. DOMAIN k.block = DOMAIN h.block \cup {b}
  BY <1>2
<1>4. ASSUME NEW x \in Heads \cup Embedded
      PROVE  /\ IsFreed(k, x) <=> IsFreed(h, x) /\ x \notin N
             /\ x \in N => IsFreed(h, x)
  <2>1. x \in N => x \notin {users_list, reminders_list}
    BY <1>1, FieldsAre, BlocksAre DEF Blocks
  <2>2. QED
    BY <1>1, <1>3, <2>1 DEF IsFreed
<1>5. HeapForm(k)
  <2>1. Kept(k)
    <3> SUFFICES ASSUME NEW x \in Nodes, IsFreed(k, x)
                 PROVE  k.next[x] = InFreedMemory /\ k.prev[x] = InFreedMemory
      BY DEF Kept
    <3>1. x \notin N /\ IsFreed(h, x)
      <4>1. CASE x \in Heads \cup Embedded
        BY <1>4, <4>1
      <4>2. CASE x \notin Heads \cup Embedded
        BY <1>1, <1>3, <4>2 DEF IsFreed
      <4>3. QED
        BY <4>1, <4>2
    <3>2. QED
      BY <1>2, <3>1 DEF HeapForm, Kept
  <2>2. /\ k.next = [x \in Nodes |-> k.next[x]] /\ k.prev = [x \in Nodes |-> k.prev[x]]
        /\ k.block = [c \in DOMAIN k.block |-> k.block[c]]
    BY <1>2
  <2>3. DOMAIN k.block \subseteq UserBlocks \cup ReminderBlocks
    BY <1>3 DEF HeapForm, Blocks
  <2>4. QED
    BY <1>2, <2>1, <2>2, <2>3 DEF HeapForm
<1>6. \A x \in Heads \cup Embedded :
        /\ Seen(k).next[x] = IF x \in N THEN Nowhere ELSE Seen(h).next[x]
        /\ Seen(k).prev[x] = IF x \in N THEN Nowhere ELSE Seen(h).prev[x]
  <2>1. \A x : Aside(k, x) = Aside(h, x)
    BY DEF Aside
  <2>2. QED
    BY <1>2, <1>4, <2>1, NodesAre DEF Seen
<1>7. \A x \in N : ~Live(h, x)
  BY <1>1, <1>4 DEF Live
<1>8. \A x \in Heads \cup Embedded : Live(k, x) <=> Live(h, x) \/ x \in N
  BY <1>4 DEF Live
<1>9. QED
  BY <1>2, <1>5, <1>6, <1>7, <1>8 DEF k, N

(* What an allocation leaves of the data: everything.                      *)
Extended(h, h2, b, data) ==
  h2.block = [c \in DOMAIN h.block \cup {b} |-> IF c = b THEN data ELSE h.block[c]]

LEMMA UserAllocated ==
  ASSUME NEW h, NEW L, HasRings(h, L), NEW u \in UserBlocks, u \notin DOMAIN h.block, NEW data,
         NEW h2, h2 = INIT_LIST_HEAD(Kmalloc(h, u, data), NotificationsList(u))
  PROVE  /\ HasRings(h2, L)
         /\ Live(h2, ListOfUsers(u)) /\ Rings!InNone(L, ListOfUsers(u))
         /\ L[NotificationsList(u)] = << >>
         /\ \A x \in Heads \cup Embedded : Live(h, x) => Live(h2, x)
         /\ Extended(h, h2, u, data)
<1> DEFINE k == Kmalloc(h, u, data)
           g == NotificationsList(u)
           m == Seen(h)
           a == SetNext(Seen(k), g, g)
           m2 == SetPrev(a, g, g)
           N == {ListOfUsers(u), g}
<1>1. HeapForm(h) /\ Rings!RingsInv(m, L) /\ L \in [Heads -> Seq(Embedded)] /\ m \in Rings!Memories
  BY DEF HasRings, Rings!RingsInv
<1>2. /\ g \in Heads /\ ListOfUsers(u) \in Embedded /\ u \in Blocks
      /\ FieldsOf(u) = N
  BY FieldsOfBlock DEF Heads, Embedded, Blocks, FieldsOf
<1>3. /\ HeapForm(k)
      /\ \A x \in Heads \cup Embedded : Live(k, x) <=> Live(h, x) \/ x \in N
      /\ \A x \in N : ~Live(h, x)
      /\ \A x \in Heads \cup Embedded :
           /\ Seen(k).next[x] = IF x \in N THEN Nowhere ELSE m.next[x]
           /\ Seen(k).prev[x] = IF x \in N THEN Nowhere ELSE m.prev[x]
      /\ k.block = [c \in DOMAIN h.block \cup {u} |-> IF c = u THEN data ELSE h.block[c]]
  <2> HIDE DEF N
  <2>1. QED
    BY <1>1, <1>2, BlockAllocated
<1>0. h2 = INIT_LIST_HEAD(k, g)
  OBVIOUS
<1> HIDE DEF k, N, g
<1>4. Live(k, g) /\ Live(k, ListOfUsers(u))
  BY <1>2, <1>3 DEF N
<1>5. WrittenAs(k, h2, m2)
  <2>1. WrittenAs(k, h2, INIT_LIST_HEAD(Seen(k), g))
    BY <1>0, <1>3, <1>4, NothingWritten, HeadInitialised
  <2>2. QED
    BY <2>1 DEF INIT_LIST_HEAD
<1>6. Seen(k) \in Rings!Memories
  <2>1. /\ Seen(k).next = [x \in Heads \cup Embedded |-> Seen(k).next[x]]
        /\ Seen(k).prev = [x \in Heads \cup Embedded |-> Seen(k).prev[x]]
        /\ Seen(k) = [next |-> Seen(k).next, prev |-> Seen(k).prev]
    BY DEF Seen
  <2>2. Nowhere \in Rings!Target
    BY DEF Rings!Target
  <2> HIDE DEF m
  <2>3. ASSUME NEW x \in Heads \cup Embedded
        PROVE  Seen(k).next[x] \in Rings!Target /\ Seen(k).prev[x] \in Rings!Target
    <3>1. m.next[x] \in Rings!Target /\ m.prev[x] \in Rings!Target
      BY <1>1 DEF Rings!Memories, Rings!ListHead
    <3>2. QED
      BY <1>3, <2>2, <3>1
  <2>4. QED
    BY <2>1, <2>3 DEF Rings!Memories, Rings!ListHead
<1> HIDE DEF m
<1>7. /\ m2 \in Rings!Memories
      /\ Rings!NextOf(m2, g) = g /\ Rings!PrevOf(m2, g) = g
      /\ \A z \in (Heads \cup Embedded) \ {g} :
           Rings!NextOf(m2, z) = Rings!NextOf(Seen(k), z) /\ Rings!PrevOf(m2, z) = Rings!PrevOf(Seen(k), z)
  <2>1. g \in Rings!ListHead /\ g \in Rings!Target /\ Rings!ListHead = Heads \cup Embedded
    BY <1>2 DEF Rings!Target, Rings!ListHead
  <2>2. /\ a \in Rings!Memories /\ Rings!NextOf(a, g) = g
        /\ \A z \in Rings!ListHead \ {g} : Rings!NextOf(a, z) = Rings!NextOf(Seen(k), z)
        /\ \A z \in Rings!ListHead : Rings!PrevOf(a, z) = Rings!PrevOf(Seen(k), z)
    <3>1. Rings!SetNext(Seen(k), g, g) = a
      BY SameOperations
    <3> HIDE DEF a
    <3>2. QED
      BY <1>6, <2>1, <3>1, HeadsAreNoEntries, Rings!NextIsSet
  <2> HIDE DEF a
  <2>3. /\ m2 \in Rings!Memories /\ Rings!PrevOf(m2, g) = g
        /\ \A z \in Rings!ListHead \ {g} : Rings!PrevOf(m2, z) = Rings!PrevOf(a, z)
        /\ \A z \in Rings!ListHead : Rings!NextOf(m2, z) = Rings!NextOf(a, z)
    <3>1. Rings!SetPrev(a, g, g) = m2
      BY SameOperations
    <3> HIDE DEF m2
    <3>2. QED
      BY <2>1, <2>2, <3>1, HeadsAreNoEntries, Rings!PrevIsSet
  <2>4. QED
    BY <2>1, <2>2, <2>3
<1> HIDE DEF m2, a
<1>8. L[g] = << >> /\ Rings!InNone(L, ListOfUsers(u))
  <2>1. Range(L[g]) = {}
    BY <1>2, <1>3 DEF HasRings, N
  <2>2. L[g] = << >>
    <3>1. L[g] \in Seq(Embedded)
      BY <1>1, <1>2
    <3> DEFINE l == L[g]
    <3>2. l \in Seq(Embedded) /\ Range(l) = {}
      BY <2>1, <3>1
    <3> HIDE DEF l
    <3>3. Len(l) \in Nat /\ DOMAIN l = 1 .. Len(l)
      BY <3>2, LenProperties
    <3>4. \A i \in DOMAIN l : l[i] \in Range(l)
      BY DEF Range
    <3>5. Len(l) = 0
      <4>1. CASE 1 \in DOMAIN l
        BY <3>2, <3>4, <4>1
      <4>2. CASE 1 \notin DOMAIN l
        BY <3>3, <4>2
      <4>3. QED
        BY <4>1, <4>2
    <3>6. l = << >>
      BY <3>2, <3>5, EmptySeq
    <3>7. QED
      BY <3>6 DEF l
  <2>3. Rings!InNone(L, ListOfUsers(u))
    BY <1>2, <1>3, SameFunctions DEF HasRings, Rings!InNone, N
  <2>4. QED
    BY <2>2, <2>3
<1>9. Rings!RingsInv(m2, [L EXCEPT ![g] = << >>])
  <2>1. Rings!Changed(m, m2, N, N)
    BY <1>2, <1>3, <1>7 DEF Rings!Changed, Rings!NextOf, Rings!PrevOf, Rings!ListHead, N
  <2>2. N \subseteq Embedded \cup {g} /\ \A x \in N \cap Embedded : Rings!InNone(L, x)
    BY <1>2, <1>8, HeadsAreNoEntries DEF N
  <2>3. Rings!Link(m2, g, g)
    BY <1>7 DEF Rings!Link
  <2>4. QED
    BY <1>1, <1>2, <1>7, <2>1, <2>2, <2>3, HeadsAreNoEntries, Rings!HeadIsEmptied
<1>10. [L EXCEPT ![g] = << >>] = L
  BY <1>1, <1>8
<1>11. HeapForm(h2) /\ h2.block = k.block /\ Seen(h2) = m2
  BY <1>5 DEF WrittenAs
<1>12. \A x \in Heads \cup Embedded : Live(h2, x) <=> Live(h, x) \/ x \in N
  BY <1>3, <1>11, LiveAlike
<1>13. \A f \in Heads : \A z \in Range(L[f]) : Live(h2, f) /\ Live(h2, z)
  BY <1>12 DEF HasRings, Live
<1>14. HasRings(h2, L)
  BY <1>9, <1>10, <1>11, <1>13 DEF HasRings
<1>15. Live(h2, ListOfUsers(u))
  BY <1>2, <1>12 DEF N
<1>16. h2.block = [c \in DOMAIN h.block \cup {u} |-> IF c = u THEN data ELSE h.block[c]]
  BY <1>3, <1>11
<1>17. QED
  BY <1>8, <1>12, <1>14, <1>15, <1>16 DEF g, Extended

LEMMA EntryInitialised ==
  ASSUME NEW h, NEW L, HasRings(h, L), NEW x \in Embedded, Live(h, x), Rings!InNone(L, x)
  PROVE  HasRings(INIT_LIST_HEAD(h, x), L) /\ INIT_LIST_HEAD(h, x).block = h.block
<1> DEFINE h2 == INIT_LIST_HEAD(h, x)
           m == Seen(h)
<1>1. HeapForm(h) /\ Rings!RingsInv(m, L)
  BY DEF HasRings
<1>2. WrittenAs(h, h2, INIT_LIST_HEAD(m, x))
  BY <1>1, NothingWritten, HeadInitialised
<1>3. Rings!RingsInv(INIT_LIST_HEAD(m, x), L)
  <2>1. x \in Rings!Target
    BY DEF Rings!Target, Rings!ListHead
  <2> HIDE DEF m
  <2>2. Rings!RingsInv(Rings!SetPrev(Rings!SetNext(m, x, x), x, x), L)
    BY <1>1, <2>1, HeadsAreNoEntries, Rings!FreeEntryIsInit
  <2>3. QED
    BY <2>2, SameOperations DEF INIT_LIST_HEAD
<1> HIDE DEF h2, m
<1>4. HeapForm(h2) /\ h2.block = h.block /\ Seen(h2) = INIT_LIST_HEAD(m, x)
  BY <1>2 DEF WrittenAs
<1>5. \A f \in Heads : \A z \in Range(L[f]) : Live(h2, f) /\ Live(h2, z)
  BY <1>4, LiveAlike DEF HasRings
<1>6. HasRings(h2, L) /\ h2.block = h.block
  BY <1>3, <1>4, <1>5 DEF HasRings
<1>7. QED
  BY <1>6 DEF h2

LEMMA ReminderAllocated ==
  ASSUME NEW h, NEW L, HasRings(h, L), NEW r \in ReminderBlocks, r \notin DOMAIN h.block, NEW data,
         NEW h2, h2 = INIT_LIST_HEAD(INIT_LIST_HEAD(Kmalloc(h, r, data), Queued(r)), UserNotify(r))
  PROVE  /\ HasRings(h2, L)
         /\ Live(h2, Queued(r)) /\ Rings!InNone(L, Queued(r))
         /\ Live(h2, UserNotify(r)) /\ Rings!InNone(L, UserNotify(r))
         /\ \A x \in Heads \cup Embedded : Live(h, x) => Live(h2, x)
         /\ Extended(h, h2, r, data)
<1> DEFINE k == Kmalloc(h, r, data)
           a == INIT_LIST_HEAD(k, Queued(r))
           m == Seen(h)
           N == {Queued(r), UserNotify(r)}
<1>1. HeapForm(h) /\ Rings!RingsInv(m, L) /\ L \in [Heads -> Seq(Embedded)] /\ m \in Rings!Memories
  BY DEF HasRings, Rings!RingsInv
<1>2. /\ Queued(r) \in Embedded /\ UserNotify(r) \in Embedded /\ r \in Blocks
      /\ FieldsOf(r) = N
  BY FieldsOfBlock, BlocksAre DEF Embedded, Blocks, FieldsOf
<1>3. /\ HeapForm(k)
      /\ \A x \in Heads \cup Embedded : Live(k, x) <=> Live(h, x) \/ x \in N
      /\ \A x \in N : ~Live(h, x)
      /\ \A x \in Heads \cup Embedded :
           /\ Seen(k).next[x] = IF x \in N THEN Nowhere ELSE m.next[x]
           /\ Seen(k).prev[x] = IF x \in N THEN Nowhere ELSE m.prev[x]
      /\ k.block = [c \in DOMAIN h.block \cup {r} |-> IF c = r THEN data ELSE h.block[c]]
  <2> HIDE DEF N
  <2>1. QED
    BY <1>1, <1>2, BlockAllocated
<1>4. Rings!InNone(L, Queued(r)) /\ Rings!InNone(L, UserNotify(r))
  BY <1>3, SameFunctions DEF HasRings, Rings!InNone
<1>5. Seen(k) \in Rings!Memories
  <2>1. /\ Seen(k).next = [x \in Heads \cup Embedded |-> Seen(k).next[x]]
        /\ Seen(k).prev = [x \in Heads \cup Embedded |-> Seen(k).prev[x]]
        /\ Seen(k) = [next |-> Seen(k).next, prev |-> Seen(k).prev]
    BY DEF Seen
  <2>2. Nowhere \in Rings!Target
    BY DEF Rings!Target
  <2> HIDE DEF m, k, N
  <2>3. ASSUME NEW x \in Heads \cup Embedded
        PROVE  Seen(k).next[x] \in Rings!Target /\ Seen(k).prev[x] \in Rings!Target
    <3>1. m.next[x] \in Rings!Target /\ m.prev[x] \in Rings!Target
      BY <1>1 DEF Rings!Memories, Rings!ListHead
    <3>2. QED
      BY <1>3, <2>2, <3>1
  <2>4. QED
    BY <2>1, <2>3 DEF Rings!Memories, Rings!ListHead
<1>6. Rings!RingsInv(Seen(k), L)
  <2>1. Rings!Changed(m, Seen(k), N, N)
    <3> HIDE DEF m, k, N
    <3>1. QED
      BY <1>3 DEF Rings!Changed, Rings!NextOf, Rings!PrevOf, Rings!ListHead
  <2>2. \A f \in Heads : Rings!Nodes(L, f) \cap N = {}
    BY <1>2, <1>4, HeadsAreNoEntries DEF Rings!Nodes, Rings!InNone
  <2> HIDE DEF m, k, N
  <2>3. QED
    BY <1>1, <1>5, <2>1, <2>2, HeadsAreNoEntries, Rings!OthersAreKept
<1>0. h2 = INIT_LIST_HEAD(a, UserNotify(r))
  OBVIOUS
<1> HIDE DEF k, N, m
<1>7. HasRings(k, L)
  <2>1. \A f \in Heads : \A z \in Range(L[f]) : Live(k, f) /\ Live(k, z)
    BY <1>3 DEF HasRings, Live
  <2>2. QED
    BY <1>3, <1>6, <2>1 DEF HasRings
<1>8. Live(k, Queued(r)) /\ Live(k, UserNotify(r))
  BY <1>2, <1>3 DEF N
<1>9. HasRings(a, L) /\ a.block = k.block
  BY <1>2, <1>4, <1>7, <1>8, EntryInitialised
<1> HIDE DEF a
<1>10. HasRings(h2, L) /\ h2.block = k.block
  <2>1. Live(a, UserNotify(r))
    BY <1>8, <1>9, LiveAlike
  <2>2. QED
    BY <1>0, <1>2, <1>4, <1>9, <2>1, EntryInitialised
<1>11. /\ Live(h2, Queued(r)) /\ Live(h2, UserNotify(r))
       /\ \A x \in Heads \cup Embedded : Live(h, x) => Live(h2, x)
  BY <1>3, <1>8, <1>10, LiveAlike
<1>12. QED
  BY <1>3, <1>4, <1>10, <1>11 DEF Extended

(***************************************************************************)
(* The same for what is in which list, whatever the order.                 *)
(***************************************************************************)
LEMMA PutBefore ==
  ASSUME NEW h, NEW L, HasRings(h, L), NEW g \in Heads, Live(h, g),
         NEW x \in Embedded, Live(h, x), Rings!InNone(L, x),
         NEW q \in Range(L[g]) \cup {g}, NEW h2, h2 = AddTail(h, x, q)
  PROVE  \E L2 : Put(h, h2, L, L2, g, x)
<1>1. L[g] \in Seq(Embedded)
  BY DEF HasRings, Rings!RingsInv
<1>2. CASE q = g
  <2> DEFINE s == L[g]
             t == << >>
  <2>1. s \in Seq(Embedded) /\ t \in Seq(Embedded) /\ L[g] = s \o t
    BY <1>1, ConcatEmptySeq
  <2>2. q = First(t, g)
    BY <1>2 DEF First
  <2> HIDE DEF s, t
  <2>3. QED
    BY <2>1, <2>2, Inserted
<1>3. CASE q \in Range(L[g])
  <2>1. PICK s \in Seq(Embedded), t \in Seq(Embedded) : L[g] = Rings!With(s, q, t)
    BY <1>1, <1>3, PlaceOfEntry
  <2>2. q \in Embedded
    BY <1>1, <1>3, PlaceOfEntry
  <2> DEFINE o == <<q>>
             u == o \o t
  <2>3. o \in Seq(Embedded) /\ o # << >> /\ o[1] = q
    BY <2>2
  <2> HIDE DEF o
  <2>4. u \in Seq(Embedded) /\ u # << >> /\ u[1] = q
    BY <2>3, HeadsAreNoEntries, Rings!CatIs, Rings!EndsOfCat DEF Rings!FirstOf
  <2>5. L[g] = s \o u
    BY <2>1 DEF Rings!With, o
  <2> HIDE DEF u
  <2>6. q = First(u, g)
    BY <2>4 DEF First
  <2>7. QED
    BY <2>4, <2>5, <2>6, Inserted
<1>4. QED
  BY <1>2, <1>3

(* Where an entry is in its list.                                          *)
Place(L, g, s, x, t) ==
  /\ g \in Heads /\ x \in Embedded /\ s \in Seq(Embedded) /\ t \in Seq(Embedded)
  /\ L[g] = Rings!With(s, x, t)

LEMMA TakenAt ==
  ASSUME NEW h, NEW L, HasRings(h, L), NEW g, NEW s, NEW x, NEW t, Place(L, g, s, x, t),
         NEW h2, h2 = Del(h, x)
  PROVE  \E L2 : TakenOut(h, h2, L, L2, g, x) /\ L2[g] = s \o t
<1>1. /\ g \in Heads /\ x \in Embedded /\ s \in Seq(Embedded) /\ t \in Seq(Embedded)
      /\ L[g] = Rings!With(s, x, t)
  BY DEF Place
<1>2. /\ \E L2 : TakenOut(h, h2, L, L2, g, x) /\ L2[g] = s \o t
      /\ Live(h, x) /\ Live(h, g) /\ h.next[x] = First(t, g)
  BY <1>1, TakenFrom, SMTT(30)
<1>3. QED
  BY <1>2

LEMMA TakenOf ==
  ASSUME NEW h, NEW L, HasRings(h, L), NEW g \in Heads, NEW x \in Range(L[g]),
         NEW h2, h2 = Del(h, x)
  PROVE  \E L2 : TakenOut(h, h2, L, L2, g, x)
<1>1. L[g] \in Seq(Embedded)
  BY DEF HasRings, Rings!RingsInv
<1>2. x \in Embedded
  BY <1>1, PlaceOfEntry
<1>3. PICK s \in Seq(Embedded), t \in Seq(Embedded) : L[g] = Rings!With(s, x, t)
  BY <1>1, PlaceOfEntry
<1>4. QED
  BY <1>2, <1>3, TakenFrom

(***************************************************************************)
(* The data: which blocks are in which list.                               *)
(***************************************************************************)
Users(h) == {u \in UserBlocks : u \in DOMAIN h.block}
Reminders(h) == {r \in ReminderBlocks : r \in DOMAIN h.block}

DataForm(h) ==
  \A r \in Reminders(h) :
    /\ h.block[r].ellapse_time \in Int
    /\ h.block[r] = [ellapse_time |-> h.block[r].ellapse_time, belongs_to |-> h.block[r].belongs_to]
InUsers(h, l) ==
  \A x : x \in Range(l) <=> BlockOf(x) \in Users(h) /\ x = ListOfUsers(BlockOf(x))
InQueue(h, l) ==
  \A x : x \in Range(l) <=> BlockOf(x) \in Reminders(h) /\ x = Queued(BlockOf(x))
Mine(h, u, x) ==
  /\ BlockOf(x) \in Reminders(h) /\ x = UserNotify(BlockOf(x))
  /\ u \in Users(h) /\ h.block[BlockOf(x)].belongs_to = u
InMine(h, L) ==
  \A u \in UserBlocks : \A x : x \in Range(L[NotificationsList(u)]) <=> Mine(h, u, x)
Data(h, L) ==
  /\ HasRings(h, L) /\ DataForm(h)
  /\ InUsers(h, L[users_list]) /\ InQueue(h, L[reminders_list]) /\ InMine(h, L)

LEMMA TheLists ==
  ASSUME NEW h, NEW L, Data(h, L)
  PROVE  /\ L \in [Heads -> Seq(Embedded)]
         /\ users_list \in Heads /\ reminders_list \in Heads
         /\ Live(h, users_list) /\ Live(h, reminders_list)
         /\ Entries(h, users_list) = L[users_list] /\ Comes(h, users_list)
         /\ Entries(h, reminders_list) = L[reminders_list] /\ Comes(h, reminders_list)
         /\ \A u \in Users(h) : LET g == NotificationsList(u) IN
              g \in Heads /\ Live(h, g) /\ Entries(h, g) = L[g] /\ Comes(h, g)
<1>1. HasRings(h, L) /\ L \in [Heads -> Seq(Embedded)]
  BY DEF Data, HasRings, Rings!RingsInv
<1>2. /\ users_list \in Heads /\ reminders_list \in Heads
      /\ Live(h, users_list) /\ Live(h, reminders_list)
  BY DEF Heads, Live, IsFreed
<1>3. ASSUME NEW u \in Users(h) PROVE NotificationsList(u) \in Heads /\ Live(h, NotificationsList(u))
  BY FieldsAre DEF Heads, Live, IsFreed, Users
<1>4. \A g \in Heads : Live(h, g) => Entries(h, g) = L[g] /\ Comes(h, g)
  BY <1>1, RingIsWalked
<1>5. QED
  BY <1>1, <1>2, <1>3, <1>4

(* A user that is new.                                                     *)
LEMMA UserAdded ==
  ASSUME NEW h, NEW L, Data(h, L), NEW u \in UserBlocks, u \notin DOMAIN h.block, NEW data,
         \A r \in Reminders(h) : h.block[r].belongs_to # u,
         NEW h2, h2 = AddTail(INIT_LIST_HEAD(Kmalloc(h, u, data), NotificationsList(u)),
                              ListOfUsers(u), users_list)
  PROVE  /\ \E L2 : Data(h2, L2)
         /\ Extended(h, h2, u, data)
<1> DEFINE k == INIT_LIST_HEAD(Kmalloc(h, u, data), NotificationsList(u))
           g == users_list
           x == ListOfUsers(u)
<1>1. HasRings(h, L) /\ L \in [Heads -> Seq(Embedded)] /\ g \in Heads /\ Live(h, g)
  BY TheLists DEF Data
<1>2. /\ HasRings(k, L) /\ Live(k, x) /\ Rings!InNone(L, x)
      /\ \A y \in Heads \cup Embedded : Live(h, y) => Live(k, y)
      /\ Extended(h, k, u, data)
  BY <1>1, UserAllocated
<1> HIDE DEF k
<1>3. PICK L2 : Put(k, h2, L, L2, g, x)
  <2>1. x \in Embedded /\ Live(k, g) /\ g \in Range(L[g]) \cup {g}
    BY <1>1, <1>2 DEF Embedded
  <2>2. h2 = AddTail(k, x, g)
    BY DEF k
  <2> HIDE DEF x, g
  <2>3. QED
    BY <1>1, <1>2, <2>1, <2>2, PutBefore
<1>6. /\ HasRings(h2, L2) /\ h2.block = k.block
      /\ \A f \in Heads : \A y : y \in Range(L2[f]) <=> y \in Range(L[f]) \/ (f = g /\ y = x)
  BY <1>3 DEF Put
<1>4. Extended(h, h2, u, data)
  BY <1>2, <1>6 DEF Extended
<1>5. /\ Users(h2) = Users(h) \cup {u} /\ Reminders(h2) = Reminders(h)
      /\ \A r \in Reminders(h) : h2.block[r] = h.block[r]
  BY <1>4, BlocksAre DEF Users, Reminders, Extended
<1>7. InUsers(h2, L2[g])
  <2>1. InUsers(h, L[g]) /\ BlockOf(x) = u
    BY FieldsAre DEF Data
  <2> HIDE DEF g
  <2>2. \A y : y \in Range(L2[g]) <=> y \in Range(L[g]) \/ y = x
    BY <1>1, <1>6
  <2>3. QED
    BY <1>5, <2>1, <2>2 DEF InUsers
<1>8. InQueue(h2, L2[reminders_list])
  <2>1. \A y : y \in Range(L2[reminders_list]) <=> y \in Range(L[reminders_list])
    BY <1>6, TheLists, FieldsAre
  <2>2. QED
    BY <1>5, <2>1 DEF InQueue, Data
<1>9. InMine(h2, L2)
  <2> SUFFICES ASSUME NEW v \in UserBlocks, NEW y
               PROVE  y \in Range(L2[NotificationsList(v)]) <=> Mine(h2, v, y)
    BY DEF InMine
  <2>1. NotificationsList(v) \in Heads /\ NotificationsList(v) # g
    BY FieldsAre, BlocksAre DEF Heads
  <2>2. y \in Range(L2[NotificationsList(v)]) <=> Mine(h, v, y)
    BY <1>6, <2>1 DEF Data, InMine
  <2>3. Mine(h2, v, y) <=> Mine(h, v, y)
    BY <1>5 DEF Mine
  <2>4. QED
    BY <2>2, <2>3
<1>10. DataForm(h2)
  BY <1>5 DEF Data, DataForm
<1>11. Data(h2, L2)
  BY <1>6, <1>7, <1>8, <1>9, <1>10 DEF Data
<1>12. QED
  BY <1>4, <1>11

(* A reminder that is new.                                                 *)
LEMMA QueueInserted ==
  ASSUME NEW h, NEW r
  PROVE  \E q \in Range(Entries(h, reminders_list)) \cup {reminders_list} :
           InsertedInQueue(h, r) = AddTail(h, Queued(r), q)
<1> DEFINE queue == Entries(h, reminders_list)
           X == {k \in DOMAIN queue : h.block[BlockOf(queue[k])].ellapse_time > h.block[r].ellapse_time}
           later == Smallest(X)
           q == IF later = {} THEN reminders_list ELSE queue[CHOOSE k \in later : TRUE]
<1>1. InsertedInQueue(h, r) = AddTail(h, Queued(r), q)
  BY DEF InsertedInQueue
<1>2. later \subseteq DOMAIN queue
  BY DEF Smallest
<1> HIDE DEF queue, later
<1>3. q \in Range(queue) \cup {reminders_list}
  <2>1. CASE later = {}
    BY <2>1
  <2>2. CASE later # {}
    <3>1. (CHOOSE k \in later : TRUE) \in later
      BY <2>2
    <3>2. QED
      BY <1>2, <2>2, <3>1 DEF Range
  <2>3. QED
    BY <2>1, <2>2
<1> HIDE DEF q
<1>4. QED
  BY <1>1, <1>3 DEF queue

LEMMA ReminderAdded ==
  ASSUME NEW h, NEW L, Data(h, L), NEW u \in Users(h),
         NEW r \in ReminderBlocks, r \notin DOMAIN h.block, NEW time \in Int,
         NEW k, k = INIT_LIST_HEAD(INIT_LIST_HEAD(
                      Kmalloc(h, r, [ellapse_time |-> time, belongs_to |-> u]), Queued(r)), UserNotify(r)),
         NEW h2, h2 = InsertedInQueue(AddTail(k, UserNotify(r), NotificationsList(u)), r)
  PROVE  /\ \E L2 : Data(h2, L2)
         /\ Extended(h, h2, r, [ellapse_time |-> time, belongs_to |-> u])
<1> DEFINE data == [ellapse_time |-> time, belongs_to |-> u]
           g == NotificationsList(u)
           x == UserNotify(r)
           y == Queued(r)
           a == AddTail(k, x, g)
<1>1. /\ HasRings(h, L) /\ L \in [Heads -> Seq(Embedded)]
      /\ g \in Heads /\ Live(h, g) /\ reminders_list \in Heads /\ Live(h, reminders_list)
      /\ u \in UserBlocks
  BY TheLists DEF Data, Users
<1>2. x \in Embedded /\ y \in Embedded /\ BlockOf(x) = r /\ BlockOf(y) = r /\ x # y /\ g # reminders_list
  BY <1>1, FieldsAre, BlocksAre DEF Embedded
<1>3. /\ HasRings(k, L)
      /\ Live(k, x) /\ Rings!InNone(L, x)
      /\ Live(k, y) /\ Rings!InNone(L, y)
      /\ \A z \in Heads \cup Embedded : Live(h, z) => Live(k, z)
      /\ Extended(h, k, r, data)
  BY <1>1, ReminderAllocated
<1>4. a = AddTail(k, x, g)
  OBVIOUS
<1> HIDE DEF a
<1>5. PICK La : Put(k, a, L, La, g, x)
  <2>1. Live(k, g) /\ g \in Range(L[g]) \cup {g}
    BY <1>1, <1>3
  <2> HIDE DEF g, x
  <2>2. QED
    BY <1>1, <1>2, <1>3, <1>4, <2>1, PutBefore
<1>6. /\ HasRings(a, La) /\ a.block = k.block
      /\ \A f \in Heads : \A z : z \in Range(La[f]) <=> z \in Range(L[f]) \/ (f = g /\ z = x)
  BY <1>5 DEF Put
<1>7. Live(a, y) /\ Live(a, reminders_list)
  BY <1>1, <1>3, <1>6, LiveAlike
<1>8. Rings!InNone(La, y)
  <2>1. \A f \in Heads : y \notin Range(L[f])
    BY <1>3, SameFunctions DEF Rings!InNone
  <2>2. \A f \in Heads : y \notin Range(La[f])
    BY <1>2, <1>6, <2>1
  <2>3. QED
    BY <2>2, SameFunctions DEF Rings!InNone
<1>9. Entries(a, reminders_list) = La[reminders_list]
  BY <1>1, <1>6, <1>7, RingIsWalked
<1>10. PICK q \in Range(La[reminders_list]) \cup {reminders_list} : h2 = AddTail(a, y, q)
  BY <1>9, QueueInserted DEF a
<1>11. PICK L2 : Put(a, h2, La, L2, reminders_list, y)
  <2> HIDE DEF y
  <2>1. QED
    BY <1>1, <1>2, <1>6, <1>7, <1>8, <1>10, PutBefore
<1>12. /\ HasRings(h2, L2) /\ h2.block = k.block
       /\ \A f \in Heads : \A z : z \in Range(L2[f]) <=>
            z \in Range(L[f]) \/ (f = g /\ z = x) \/ (f = reminders_list /\ z = y)
  BY <1>6, <1>11 DEF Put
<1>13. Extended(h, h2, r, data)
  BY <1>3, <1>12 DEF Extended
<1>14. /\ Users(h2) = Users(h) /\ Reminders(h2) = Reminders(h) \cup {r} /\ r \notin Reminders(h)
       /\ \A b \in Users(h) \cup Reminders(h) : h2.block[b] = h.block[b]
       /\ h2.block[r] = data
  BY <1>13, BlocksAre DEF Users, Reminders, Extended
<1>15. InUsers(h2, L2[users_list])
  <2>1. users_list \in Heads /\ users_list # reminders_list /\ users_list # g
    BY <1>1, FieldsAre, BlocksAre DEF Heads
  <2>2. \A z : z \in Range(L2[users_list]) <=> z \in Range(L[users_list])
    BY <1>12, <2>1
  <2>3. QED
    BY <1>14, <2>2 DEF InUsers, Data
<1>16. InQueue(h2, L2[reminders_list])
  <2>1. InQueue(h, L[reminders_list])
    BY DEF Data
  <2>2. \A z : z \in Range(L2[reminders_list]) <=> z \in Range(L[reminders_list]) \/ z = y
    BY <1>1, <1>2, <1>12
  <2>3. QED
    BY <1>2, <1>14, <2>1, <2>2 DEF InQueue, y
<1>17. InMine(h2, L2)
  <2> SUFFICES ASSUME NEW v \in UserBlocks, NEW z
               PROVE  z \in Range(L2[NotificationsList(v)]) <=> Mine(h2, v, z)
    BY DEF InMine
  <2>1. /\ NotificationsList(v) \in Heads /\ NotificationsList(v) # reminders_list
        /\ NotificationsList(v) = g <=> v = u
    BY <1>1, FieldsAre, BlocksAre DEF Heads
  <2>2. z \in Range(L2[NotificationsList(v)]) <=> Mine(h, v, z) \/ (v = u /\ z = x)
    BY <1>12, <2>1 DEF Data, InMine
  <2>3. CASE BlockOf(z) = r
    <3>1. ~Mine(h, v, z)
      BY <1>14, <2>3 DEF Mine
    <3>2. Mine(h2, v, z) <=> v = u /\ z = x
      BY <1>14, <2>3 DEF Mine
    <3>3. QED
      BY <2>2, <3>1, <3>2
  <2>4. CASE BlockOf(z) # r
    <3>1. z # x
      BY <1>2, <2>4
    <3>2. Mine(h2, v, z) <=> Mine(h, v, z)
      BY <1>14, <2>4 DEF Mine
    <3>3. QED
      BY <2>2, <3>1, <3>2
  <2>5. QED
    BY <2>3, <2>4
<1>18. DataForm(h2)
  <2>1. h2.block[r].ellapse_time = time /\ h2.block[r].belongs_to = u
    BY <1>14
  <2>2. QED
    BY <1>14, <2>1 DEF Data, DataForm
<1>19. Data(h2, L2)
  BY <1>12, <1>15, <1>16, <1>17, <1>18 DEF Data
<1>20. QED
  BY <1>13, <1>19

(* A reminder that goes, once it is in no list.                            *)
LEMMA ReminderFreed ==
  ASSUME NEW h, NEW L, Data(h, L), NEW k, NEW L2, HasRings(k, L2), k.block = h.block,
         NEW r \in Reminders(h), Rings!InNone(L2, Queued(r)), Rings!InNone(L2, UserNotify(r)),
         \A f \in Heads : \A y : y \in Range(L2[f]) <=>
           y \in Range(L[f]) /\ y # Queued(r) /\ y # UserNotify(r),
         NEW h2, h2 = Kfree(k, r)
  PROVE  Data(h2, L2) /\ Shrunk(h, h2, r)
<1>1. r \in ReminderBlocks /\ r \in Blocks /\ r \notin UserBlocks
  BY BlocksAre DEF Reminders, Blocks
<1>2. \A x \in FieldsOf(r) \cap Embedded : Rings!InNone(L2, x)
  BY <1>1 DEF FieldsOf
<1>3. HasRings(h2, L2) /\ Shrunk(k, h2, r)
  BY <1>1, <1>2, BlockFreed
<1>4. Shrunk(h, h2, r)
  BY <1>3 DEF Shrunk
<1>5. /\ Users(h2) = Users(h) /\ Reminders(h2) = Reminders(h) \ {r}
      /\ \A b \in Users(h2) \cup Reminders(h2) : h2.block[b] = h.block[b]
  BY <1>1, <1>4 DEF Shrunk, Users, Reminders
<1>6. /\ BlockOf(Queued(r)) = r /\ BlockOf(UserNotify(r)) = r
      /\ \A x : x = Queued(r) \/ x = UserNotify(r) => BlockOf(x) = r
  BY <1>1, FieldsAre
<1>7. InUsers(h2, L2[users_list])
  <2>1. \A y : y \in Range(L2[users_list]) <=>
                 y \in Range(L[users_list]) /\ y # Queued(r) /\ y # UserNotify(r)
    BY TheLists
  <2>2. \A y : BlockOf(y) \in Users(h) => BlockOf(y) # r
    BY <1>1 DEF Users
  <2>3. QED
    BY <1>5, <1>6, <2>1, <2>2 DEF Data, InUsers
<1>8. InQueue(h2, L2[reminders_list])
  <2>1. \A y : y \in Range(L2[reminders_list]) <=>
                 y \in Range(L[reminders_list]) /\ y # Queued(r) /\ y # UserNotify(r)
    BY TheLists
  <2>2. \A y : y = Queued(BlockOf(y)) /\ BlockOf(y) \in Reminders(h) /\ BlockOf(y) # r
                 => y # Queued(r) /\ y # UserNotify(r)
    BY <1>6
  <2>3. QED
    BY <1>5, <1>6, <2>1, <2>2 DEF Data, InQueue
<1>9. InMine(h2, L2)
  <2> SUFFICES ASSUME NEW v \in UserBlocks, NEW y
               PROVE  y \in Range(L2[NotificationsList(v)]) <=> Mine(h2, v, y)
    BY DEF InMine
  <2>1. y \in Range(L2[NotificationsList(v)]) <=> Mine(h, v, y) /\ y # Queued(r) /\ y # UserNotify(r)
    <3>1. NotificationsList(v) \in Heads
      BY DEF Heads
    <3>2. QED
      BY <3>1 DEF Data, InMine
  <2>2. CASE BlockOf(y) = r
    <3>1. y = UserNotify(BlockOf(y)) => y = UserNotify(r)
      BY <2>2
    <3>2. ~Mine(h2, v, y)
      BY <1>5, <2>2 DEF Mine
    <3>3. Mine(h, v, y) => y = UserNotify(BlockOf(y))
      BY DEF Mine
    <3>4. QED
      BY <2>1, <3>1, <3>2, <3>3
  <2>3. CASE BlockOf(y) # r
    <3>1. y # Queued(r) /\ y # UserNotify(r)
      BY <1>6, <2>3
    <3>2. Mine(h2, v, y) <=> Mine(h, v, y)
      BY <1>5, <2>3 DEF Mine
    <3>3. QED
      BY <2>1, <3>1, <3>2
  <2>4. QED
    BY <2>2, <2>3
<1>10. DataForm(h2)
  BY <1>5 DEF Data, DataForm
<1>11. QED
  BY <1>3, <1>4, <1>7, <1>8, <1>9, <1>10 DEF Data

LEMMA WhereReminderIs ==
  ASSUME NEW h, NEW L, Data(h, L), NEW r \in Reminders(h)
  PROVE  /\ r \in ReminderBlocks /\ BlockOf(Queued(r)) = r /\ BlockOf(UserNotify(r)) = r
         /\ Queued(r) # UserNotify(r)
         /\ Queued(r) \in Embedded /\ UserNotify(r) \in Embedded
         /\ Queued(r) \in Range(L[reminders_list])
         /\ h.block[r].belongs_to \in Users(h) =>
              LET g == NotificationsList(h.block[r].belongs_to)
              IN g \in Heads /\ g # reminders_list /\ UserNotify(r) \in Range(L[g])
<1>1. /\ r \in ReminderBlocks /\ Queued(r) # UserNotify(r)
      /\ BlockOf(Queued(r)) = r /\ BlockOf(UserNotify(r)) = r
  BY FieldsAre DEF Reminders
<1>2. Queued(r) \in Embedded /\ UserNotify(r) \in Embedded
  BY <1>1 DEF Embedded
<1>3. Queued(r) \in Range(L[reminders_list])
  BY <1>1 DEF Data, InQueue
<1>4. ASSUME NEW u \in Users(h), h.block[r].belongs_to = u
      PROVE  /\ NotificationsList(u) \in Heads /\ NotificationsList(u) # reminders_list
             /\ UserNotify(r) \in Range(L[NotificationsList(u)])
  <2>1. u \in UserBlocks
    BY DEF Users
  <2>2. Mine(h, u, UserNotify(r))
    BY <1>1, <1>4 DEF Mine
  <2>3. QED
    BY <2>1, <2>2, FieldsAre, BlocksAre DEF Data, InMine, Heads
<1>5. QED
  BY <1>1, <1>2, <1>3, <1>4

(* By its user: out of the list of the user, and then out of the queue.    *)
LEMMA NotificationRemoved ==
  ASSUME NEW h, NEW L, Data(h, L), NEW r \in Reminders(h), h.block[r].belongs_to \in Users(h),
         NEW h2, h2 = Kfree(Del(Del(h, UserNotify(r)), Queued(r)), r)
  PROVE  (\E L2 : Data(h2, L2)) /\ Shrunk(h, h2, r)
<1> DEFINE g == NotificationsList(h.block[r].belongs_to)
           x == UserNotify(r)
           y == Queued(r)
           a == Del(h, x)
           k == Del(a, y)
<1>1. /\ x # y /\ y \in Range(L[reminders_list])
      /\ g \in Heads /\ g # reminders_list /\ x \in Range(L[g])
      /\ reminders_list \in Heads /\ HasRings(h, L)
  BY WhereReminderIs, TheLists DEF Data
<1>2. PICK La : TakenOut(h, a, L, La, g, x)
  BY <1>1, TakenOf
<1>3. /\ HasRings(a, La) /\ a.block = h.block
      /\ \A f \in Heads : \A z : z \in Range(La[f]) <=> z \in Range(L[f]) /\ z # x
  BY <1>2 DEF TakenOut
<1>4. y \in Range(La[reminders_list])
  BY <1>1, <1>3
<1>5. h2 = Kfree(k, r)
  OBVIOUS
<1>6. PICK L2 : TakenOut(a, k, La, L2, reminders_list, y)
  <2> HIDE DEF a
  <2>1. QED
    BY <1>1, <1>3, <1>4, TakenOf
<1>7. /\ HasRings(k, L2) /\ k.block = h.block
      /\ \A f \in Heads : \A z : z \in Range(L2[f]) <=> z \in Range(L[f]) /\ z # y /\ z # x
  BY <1>3, <1>6 DEF TakenOut
<1>8. Rings!InNone(L2, x) /\ Rings!InNone(L2, y)
  BY <1>7, SameFunctions DEF Rings!InNone
<1> HIDE DEF k
<1>9. Data(h2, L2) /\ Shrunk(h, h2, r)
  BY <1>5, <1>7, <1>8, ReminderFreed
<1>10. QED
  BY <1>9

(* When it expires: out of the queue, where the walk stands on it, and     *)
(* then out of the list of its user.                                       *)
LEMMA ExpiredRemoved ==
  ASSUME NEW h, NEW L, Data(h, L), NEW r \in Reminders(h), h.block[r].belongs_to \in Users(h),
         NEW p, NEW t, Place(L, reminders_list, p, Queued(r), t),
         NEW h2, h2 = Expired(h, r)
  PROVE  (\E L2 : Data(h2, L2) /\ L2[reminders_list] = p \o t) /\ Shrunk(h, h2, r)
<1> DEFINE u == h.block[r].belongs_to
           g == NotificationsList(u)
           x == UserNotify(r)
           y == Queued(r)
           a == Del(h, y)
           k == Del(a, x)
<1>1. /\ x # y /\ y \in Embedded
      /\ g \in Heads /\ g # reminders_list /\ x \in Range(L[g])
      /\ reminders_list \in Heads /\ HasRings(h, L)
  BY WhereReminderIs, TheLists DEF Data
<1>2. PICK La : TakenOut(h, a, L, La, reminders_list, y) /\ La[reminders_list] = p \o t
  <2>1. Place(L, reminders_list, p, y, t) /\ a = Del(h, y)
    OBVIOUS
  <2> HIDE DEF y, a
  <2>2. QED
    BY <1>1, <2>1, TakenAt
<1>3. /\ HasRings(a, La) /\ a.block = h.block
      /\ \A f \in Heads : \A z : z \in Range(La[f]) <=> z \in Range(L[f]) /\ z # y
  BY <1>2 DEF TakenOut
<1>4. x \in Range(La[g])
  BY <1>1, <1>3
<1>5. Entries(a, g) = La[g]
  <2>1. Live(h, g)
    BY TheLists
  <2>2. Live(a, g)
    BY <1>3, <2>1, LiveAlike
  <2> HIDE DEF a
  <2>3. QED
    BY <1>1, <1>3, <2>2, RingIsWalked
<1>6. h2 = Kfree(k, r)
  BY <1>4, <1>5 DEF Expired
<1>7. PICK L2 : TakenOut(a, k, La, L2, g, x)
  <2> HIDE DEF a
  <2>1. QED
    BY <1>1, <1>3, <1>4, TakenOf
<1>8. /\ HasRings(k, L2) /\ k.block = h.block
      /\ \A f \in Heads : \A z : z \in Range(L2[f]) <=> z \in Range(L[f]) /\ z # y /\ z # x
      /\ L2[reminders_list] = p \o t
  BY <1>1, <1>2, <1>3, <1>7 DEF TakenOut
<1>9. Rings!InNone(L2, x) /\ Rings!InNone(L2, y)
  BY <1>8, SameFunctions DEF Rings!InNone
<1> HIDE DEF k
<1>10. Data(h2, L2) /\ Shrunk(h, h2, r)
  BY <1>6, <1>8, <1>9, ReminderFreed
<1>11. QED
  BY <1>8, <1>10

(* When the lists are cleaned up, after the users are gone.                *)
LEMMA ReminderCleaned ==
  ASSUME NEW h, NEW L, Data(h, L), Users(h) = {}, NEW r \in Reminders(h),
         NEW p, NEW t, Place(L, reminders_list, p, Queued(r), t),
         NEW h2, h2 = EntryFreed(h, Queued(r))
  PROVE  (\E L2 : Data(h2, L2) /\ L2[reminders_list] = p \o t) /\ Shrunk(h, h2, r)
<1> DEFINE x == UserNotify(r)
           y == Queued(r)
           a == Del(h, y)
<1>1. /\ x # y /\ y \in Embedded /\ BlockOf(y) = r /\ BlockOf(x) = r /\ r \in ReminderBlocks
      /\ reminders_list \in Heads /\ HasRings(h, L)
  BY WhereReminderIs, TheLists DEF Data
<1>2. h2 = Kfree(a, r)
  BY <1>1 DEF EntryFreed
<1>3. PICK L2 : TakenOut(h, a, L, L2, reminders_list, y) /\ L2[reminders_list] = p \o t
  <2>1. Place(L, reminders_list, p, y, t) /\ a = Del(h, y)
    OBVIOUS
  <2> HIDE DEF y, a
  <2>2. QED
    BY <1>1, <2>1, TakenAt
<1>4. \A f \in Heads : x \notin Range(L[f])
  <2> SUFFICES ASSUME NEW f \in Heads, x \in Range(L[f]) PROVE FALSE
    OBVIOUS
  <2>1. CASE f = users_list
    BY <2>1 DEF Data, InUsers
  <2>2. CASE f = reminders_list
    <3>1. x = Queued(BlockOf(x))
      BY <2>2 DEF Data, InQueue
    <3>2. QED
      BY <1>1, <3>1
  <2>3. ASSUME NEW u \in UserBlocks, f = NotificationsList(u) PROVE FALSE
    <3>1. Mine(h, u, x)
      BY <2>3 DEF Data, InMine
    <3>2. QED
      BY <3>1 DEF Mine
  <2>4. QED
    BY <2>1, <2>2, <2>3 DEF Heads
<1>5. /\ HasRings(a, L2) /\ a.block = h.block
      /\ \A f \in Heads : \A z : z \in Range(L2[f]) <=> z \in Range(L[f]) /\ z # y /\ z # x
  BY <1>3, <1>4 DEF TakenOut
<1>6. Rings!InNone(L2, x) /\ Rings!InNone(L2, y)
  BY <1>5, SameFunctions DEF Rings!InNone
<1> HIDE DEF a
<1>7. Data(h2, L2) /\ Shrunk(h, h2, r)
  BY <1>2, <1>5, <1>6, ReminderFreed
<1>8. QED
  BY <1>3, <1>7

(* A user that goes, with its list but without its reminders.              *)
LEMMA UserFreed ==
  ASSUME NEW h, NEW L, Data(h, L), NEW u \in Users(h),
         NEW p, NEW t, Place(L, users_list, p, ListOfUsers(u), t),
         NEW h2, h2 = EntryFreed(h, ListOfUsers(u))
  PROVE  (\E L2 : Data(h2, L2) /\ L2[users_list] = p \o t) /\ Shrunk(h, h2, u)
<1> DEFINE x == ListOfUsers(u)
           g == NotificationsList(u)
           a == Del(h, x)
<1>1. /\ u \in UserBlocks /\ u \in Blocks /\ u \notin ReminderBlocks /\ BlockOf(x) = u
      /\ g \in Heads /\ users_list \in Heads /\ g # users_list /\ g # reminders_list
      /\ reminders_list \in Heads /\ reminders_list # users_list /\ HasRings(h, L)
  BY TheLists, FieldsAre, BlocksAre DEF Users, Blocks, Data
<1>2. h2 = Kfree(a, u)
  BY <1>1 DEF EntryFreed
<1>3. PICK La : TakenOut(h, a, L, La, users_list, x) /\ La[users_list] = p \o t
  <2>1. Place(L, users_list, p, x, t) /\ a = Del(h, x)
    OBVIOUS
  <2> HIDE DEF x, a
  <2>2. QED
    BY <1>1, <2>1, TakenAt
<1>4. /\ HasRings(a, La) /\ a.block = h.block /\ Rings!InNone(La, x)
      /\ \A f \in Heads \ {users_list} : La[f] = L[f]
      /\ \A f \in Heads : \A z : z \in Range(La[f]) <=> z \in Range(L[f]) /\ z # x
  BY <1>3 DEF TakenOut
<1> HIDE DEF a
<1> DEFINE L2 == [La EXCEPT ![g] = << >>]
<1>5. HasRings(h2, L2) /\ Shrunk(a, h2, u)
  <2>1. FieldsOf(u) = {x, g} /\ g \notin Embedded
    BY <1>1, HeadsAreNoEntries DEF FieldsOf
  <2>2. \A z \in FieldsOf(u) \cap Embedded : Rings!InNone(La, z)
    BY <1>4, <2>1
  <2> HIDE DEF g, x
  <2>3. QED
    BY <1>1, <1>2, <1>4, <2>2, BlockFreed DEF g
<1>6. L2[g] = << >> /\ \A f \in Heads \ {g} : L2[f] = La[f]
  <2>1. La \in [Heads -> Seq(Embedded)]
    BY <1>4 DEF HasRings, Rings!RingsInv
  <2>2. QED
    BY <1>1, <2>1
<1> HIDE DEF L2
<1>7. Shrunk(h, h2, u)
  BY <1>4, <1>5 DEF Shrunk
<1>8. /\ Users(h2) = Users(h) \ {u} /\ Reminders(h2) = Reminders(h)
      /\ \A b \in Users(h2) \cup Reminders(h2) : h2.block[b] = h.block[b]
  BY <1>1, <1>7 DEF Shrunk, Users, Reminders
<1>9. InUsers(h2, L2[users_list])
  <2>1. InUsers(h, L[users_list])
    BY DEF Data
  <2>2. \A y : y \in Range(L2[users_list]) <=> y \in Range(L[users_list]) /\ y # x
    BY <1>1, <1>4, <1>6
  <2>3. QED
    BY <1>1, <1>8, <2>1, <2>2 DEF InUsers
<1>10. InQueue(h2, L2[reminders_list])
  <2>1. L2[reminders_list] = L[reminders_list]
    BY <1>1, <1>4, <1>6
  <2>2. QED
    BY <1>8, <2>1 DEF Data, InQueue
<1>11. InMine(h2, L2)
  <2> SUFFICES ASSUME NEW v \in UserBlocks, NEW y
               PROVE  y \in Range(L2[NotificationsList(v)]) <=> Mine(h2, v, y)
    BY DEF InMine
  <2>1. CASE v = u
    <3>1. Range(L2[NotificationsList(v)]) = {}
      BY <1>6, <2>1 DEF Range
    <3>2. ~Mine(h2, v, y)
      BY <1>8, <2>1 DEF Mine
    <3>3. QED
      BY <3>1, <3>2
  <2>2. CASE v # u
    <3>1. NotificationsList(v) \in Heads /\ NotificationsList(v) # g /\ NotificationsList(v) # users_list
      BY <1>1, <2>2, FieldsAre, BlocksAre DEF Heads
    <3>2. L2[NotificationsList(v)] = L[NotificationsList(v)]
      BY <1>4, <1>6, <3>1
    <3>3. Mine(h2, v, y) <=> Mine(h, v, y)
      BY <1>8, <2>2 DEF Mine
    <3>4. QED
      BY <3>2, <3>3 DEF Data, InMine
  <2>3. QED
    BY <2>1, <2>2
<1>12. DataForm(h2)
  BY <1>8 DEF Data, DataForm
<1>13. L2[users_list] = p \o t
  BY <1>1, <1>3, <1>6
<1>14. QED
  BY <1>5, <1>7, <1>9, <1>10, <1>11, <1>12, <1>13 DEF Data

(* A reminder that comes nearer.                                           *)
Nearer(h, h2, r) ==
  /\ DOMAIN h2.block = DOMAIN h.block
  /\ \A b \in DOMAIN h.block \ {r} : h2.block[b] = h.block[b]
  /\ h2.block[r].ellapse_time = h.block[r].ellapse_time - 1
  /\ h2.block[r].belongs_to = h.block[r].belongs_to

LEMMA TimeDecreased ==
  ASSUME NEW h, NEW L, Data(h, L), NEW r \in Reminders(h),
         NEW h2, h2 = [h EXCEPT !.block[r].ellapse_time = @ - 1]
  PROVE  Data(h2, L) /\ Nearer(h, h2, r)
<1> DEFINE n == h.next
           o == h.prev
           b == h.block
           d == b[r]
           time == d.ellapse_time
           d2 == [ellapse_time |-> time - 1, belongs_to |-> d.belongs_to]
           b2 == [c \in DOMAIN b |-> IF c = r THEN d2 ELSE b[c]]
<1>1. /\ h = [next |-> n, prev |-> o, block |-> b] /\ b = [c \in DOMAIN b |-> b[c]]
      /\ r \in DOMAIN b /\ r \in ReminderBlocks
      /\ time \in Int /\ d = [ellapse_time |-> time, belongs_to |-> d.belongs_to]
  BY DEF Data, HasRings, HeapForm, DataForm, Reminders
<1>2. h2 = [next |-> n, prev |-> o, block |-> b2]
  <2>1. [d EXCEPT !.ellapse_time = time - 1] = d2
    BY <1>1
  <2>2. [b EXCEPT ![r] = d2] = b2
    BY <1>1
  <2>3. h2 = [h EXCEPT !.block = [b EXCEPT ![r] = [d EXCEPT !.ellapse_time = time - 1]]]
    OBVIOUS
  <2> HIDE DEF b, b2, d2, n, o
  <2>4. h2 = [h EXCEPT !.block = b2]
    BY <2>1, <2>2, <2>3
  <2>5. QED
    BY <1>1, <2>4
<1>3. Nearer(h, h2, r)
  BY <1>1, <1>2 DEF Nearer
<1>4. h2.next = h.next /\ h2.prev = h.prev /\ DOMAIN h2.block = DOMAIN h.block
      /\ h2 = [next |-> h2.next, prev |-> h2.prev, block |-> h2.block]
      /\ h2.block = [c \in DOMAIN h2.block |-> h2.block[c]]
      /\ h2.block[r] = d2
  BY <1>1, <1>2
<1> HIDE DEF d2
<1>5. \A x : (IsFreed(h2, x) <=> IsFreed(h, x)) /\ (Live(h2, x) <=> Live(h, x))
  BY <1>4 DEF IsFreed, Live
<1>6. HasRings(h2, L)
  <2>1. HasRings(h, L)
    BY DEF Data
  <2>2. Kept(h2)
    BY <1>4, <1>5, <2>1 DEF HasRings, HeapForm, Kept
  <2>3. HeapForm(h2)
    BY <1>4, <2>1, <2>2 DEF HasRings, HeapForm
  <2>4. Seen(h2) = Seen(h)
    BY <1>4, <1>5 DEF Seen, Aside
  <2>5. QED
    BY <1>5, <2>1, <2>3, <2>4 DEF HasRings
<1>7. /\ Users(h2) = Users(h) /\ Reminders(h2) = Reminders(h)
      /\ \A c \in Reminders(h) : c # r => h2.block[c] = h.block[c]
      /\ \A c \in Reminders(h) : h2.block[c].belongs_to = h.block[c].belongs_to
  BY <1>3 DEF Nearer, Users, Reminders
<1>8. InUsers(h2, L[users_list]) /\ InQueue(h2, L[reminders_list])
  BY <1>7 DEF Data, InUsers, InQueue
<1>9. InMine(h2, L)
  <2>1. \A u, x : Mine(h2, u, x) <=> Mine(h, u, x)
    BY <1>7 DEF Mine
  <2>2. QED
    BY <2>1 DEF Data, InMine
<1>10. DataForm(h2)
  <2>1. h2.block[r].ellapse_time = time - 1 /\ h2.block[r].belongs_to = d.belongs_to
    BY <1>4 DEF d2
  <2>2. time - 1 \in Int
    BY <1>1
  <2> HIDE DEF time, d
  <2>3. h2.block[r] = [ellapse_time |-> h2.block[r].ellapse_time, belongs_to |-> h2.block[r].belongs_to]
    BY <1>4, <2>1 DEF d2
  <2>4. QED
    BY <1>7, <2>1, <2>2, <2>3 DEF Data, DataForm
<1>11. QED
  BY <1>3, <1>6, <1>8, <1>9, <1>10 DEF Data

(***************************************************************************)
(* What the tests call, and in which order.                                *)
(***************************************************************************)
Long(s, n) == s = [i \in 1 .. n |-> s[i]]
Joined(u, s, n, t, m, k) ==
  Long(u, k) /\ \A i \in 1 .. k : u[i] = IF i <= n THEN s[i] ELSE t[i - n]

LEMMA CatAt ==
  ASSUME NEW s, NEW n \in Nat, Long(s, n), NEW t, NEW m \in Nat, Long(t, m)
  PROVE  Joined(s \o t, s, n, t, m, n + m)
<1> DEFINE S == {s[i] : i \in 1 .. n} \cup {t[i] : i \in 1 .. m}
<1>1. s \in [1 .. n -> S] /\ t \in [1 .. m -> S]
  BY DEF Long
<1> HIDE DEF S
<1>2. s \in Seq(S) /\ t \in Seq(S)
  BY <1>1
<1>3. Len(s) = n /\ Len(t) = m
  BY <1>1
<1> DEFINE u == s \o t
<1>4. u \in Seq(S) /\ Len(u) = n + m /\ \A i \in 1 .. n + m : u[i] = IF i <= n THEN s[i] ELSE t[i - n]
  BY <1>2, <1>3, ConcatProperties
<1> HIDE DEF u
<1>5. Long(u, n + m)
  BY <1>4, LenProperties DEF Long
<1>6. QED
  BY <1>4, <1>5 DEF Joined, u

LEMMA Test1Is ==
  /\ Long(Test1, 12)
  /\ \A c \in 1 .. 3 : Test1[c][1] = "user"
  /\ Test1[4][1] = "remove"
  /\ \A c \in 5 .. 9 : Test1[c][1] = "reminder" /\ Test1[c][3] \in Int
  /\ Test1[10][1] = "notification" /\ Test1[11][1] = "users" /\ Test1[12][1] = "reminders"
<1> DEFINE t == << <<"remove", user2>>,
                   <<"reminder", user1, 1000>>, <<"reminder", user1, 100>>, <<"reminder", user1, 500>>,
                   <<"reminder", user3, 40>>, <<"reminder", user3, 150>>,
                   <<"notification", user1, 3>>, <<"users">>, <<"reminders">> >>
<1>1. Test1 = Three \o t
  BY DEF Test1
<1>2. /\ t[1][1] = "remove"
      /\ \A c \in 2 .. 6 : t[c][1] = "reminder" /\ t[c][3] \in Int
      /\ t[7][1] = "notification" /\ t[8][1] = "users" /\ t[9][1] = "reminders"
  OBVIOUS
<1>3. Long(t, 9) /\ Long(Three, 3)
  BY DEF Long, Three
<1>4. \A c \in 1 .. 3 : Three[c][1] = "user"
  BY DEF Three
<1> HIDE DEF t
<1>5. /\ Long(Test1, 12) /\ \A c \in 1 .. 3 : Test1[c] = Three[c]
      /\ \A c \in 4 .. 12 : Test1[c] = t[c - 3]
  <2>1. Joined(Test1, Three, 3, t, 9, 3 + 9)
    BY <1>1, <1>3, CatAt
  <2>2. Joined(Test1, Three, 3, t, 9, 12)
    BY <2>1, 3 + 9 = 12
  <2>3. QED
    BY <2>2 DEF Joined
<1>6. \A c \in 5 .. 9 : Test1[c] = t[c - 3] /\ c - 3 \in 2 .. 6
  BY <1>5
<1>7. Test1[4] = t[1] /\ Test1[10] = t[7] /\ Test1[11] = t[8] /\ Test1[12] = t[9]
  BY <1>5
<1>8. QED
  BY <1>2, <1>4, <1>5, <1>6, <1>7

LEMMA Test2Is ==
  Long(Test2, 10) /\ (\A c \in 1 .. 9 : Test2[c][1] = "user") /\ Test2[10][1] = "users"
<1> DEFINE t == << <<"users">> >>
           a == Three \o Three
           b == a \o Three
<1>1. Test2 = b \o t
  BY DEF Test2
<1>2. Long(t, 1) /\ Long(Three, 3) /\ t[1][1] = "users" /\ \A c \in 1 .. 3 : Three[c][1] = "user"
  BY DEF Long, Three
<1> HIDE DEF t
<1>3. /\ Long(a, 6) /\ (\A c \in 1 .. 3 : a[c] = Three[c]) /\ \A c \in 4 .. 6 : a[c] = Three[c - 3]
  <2>1. Joined(a, Three, 3, Three, 3, 3 + 3)
    BY <1>2, CatAt
  <2> HIDE DEF a
  <2>2. Joined(a, Three, 3, Three, 3, 6)
    BY <2>1, 3 + 3 = 6
  <2>3. QED
    BY <2>2 DEF Joined
<1>4. \A c \in 1 .. 6 : a[c][1] = "user"
  <2> SUFFICES ASSUME NEW c \in 1 .. 6 PROVE a[c][1] = "user"
    OBVIOUS
  <2> HIDE DEF a
  <2>1. CASE c \in 1 .. 3
    BY <1>2, <1>3, <2>1
  <2>2. CASE c \in 4 .. 6
    <3>1. c - 3 \in 1 .. 3 /\ a[c] = Three[c - 3]
      BY <1>3, <2>2
    <3>2. QED
      BY <1>2, <3>1
  <2>3. QED
    BY <2>1, <2>2
<1> HIDE DEF a
<1>5. /\ Long(b, 9) /\ (\A c \in 1 .. 6 : b[c] = a[c]) /\ \A c \in 7 .. 9 : b[c] = Three[c - 6]
  <2>1. Joined(b, a, 6, Three, 3, 6 + 3)
    BY <1>2, <1>3, CatAt DEF b
  <2> HIDE DEF b
  <2>2. Joined(b, a, 6, Three, 3, 9)
    BY <2>1, 6 + 3 = 9
  <2>3. QED
    BY <2>2 DEF Joined
<1>6. \A c \in 1 .. 9 : b[c][1] = "user"
  <2> SUFFICES ASSUME NEW c \in 1 .. 9 PROVE b[c][1] = "user"
    OBVIOUS
  <2> HIDE DEF b
  <2>1. CASE c \in 1 .. 6
    BY <1>4, <1>5, <2>1
  <2>2. CASE c \in 7 .. 9
    <3>1. c - 6 \in 1 .. 3 /\ b[c] = Three[c - 6]
      BY <1>5, <2>2
    <3>2. QED
      BY <1>2, <3>1
  <2>3. QED
    BY <2>1, <2>2
<1> HIDE DEF b
<1>7. /\ Long(Test2, 10) /\ (\A c \in 1 .. 9 : Test2[c] = b[c]) /\ Test2[10] = t[1]
  <2>1. Joined(Test2, b, 9, t, 1, 9 + 1)
    BY <1>1, <1>2, <1>5, CatAt
  <2>2. Joined(Test2, b, 9, t, 1, 10)
    BY <2>1, 9 + 1 = 10
  <2>3. QED
    BY <2>2 DEF Joined
<1>8. QED
  BY <1>2, <1>6, <1>7

LEMMA Test3Is ==
  /\ Long(Test3, 7)
  /\ Test3[1] = <<"user", user1>>
  /\ \A c \in 2 .. 3 : Test3[c][1] = "reminder" /\ Test3[c][3] \in Int
  /\ \A c \in 4 .. 5 : Test3[c][1] = "notification"
  /\ Test3[6][1] = "users" /\ Test3[7][1] = "reminders"
<1>1. Long(Test3, 7)
  BY DEF Long, Test3
<1>2. QED
  BY <1>1 DEF Test3

LEMMA Test4Is ==
  /\ Long(Test4, 10)
  /\ Test4[1] = <<"user", user1>>
  /\ \A c \in {2, 3, 6} : Test4[c][1] = "reminder"
  /\ Test4[2][3] = 2 /\ Test4[3][3] = 1 /\ Test4[6][3] = 4
  /\ \A c \in {4, 5} \cup 7 .. 10 : Test4[c][1] = "tick"
<1>1. Long(Test4, 10)
  BY DEF Long, Test4
<1>2. QED
  BY <1>1 DEF Test4

LEMMA TestsAre ==
  /\ Len(Tests) = 39
  /\ \A c \in 1 .. 12 : Tests[c] = Test1[c]
  /\ \A c \in 13 .. 22 : Tests[c] = Test2[c - 12]
  /\ \A c \in 23 .. 29 : Tests[c] = Test3[c - 22]
  /\ \A c \in 30 .. 39 : Tests[c] = Test4[c - 29]
<1> DEFINE a == Test1 \o Test2
           b == a \o Test3
<1>1. Tests = b \o Test4
  BY DEF Tests
<1>2. Long(Test1, 12) /\ Long(Test2, 10) /\ Long(Test3, 7) /\ Long(Test4, 10)
  BY Test1Is, Test2Is, Test3Is, Test4Is
<1>3. /\ Long(a, 22) /\ (\A c \in 1 .. 12 : a[c] = Test1[c])
      /\ \A c \in 13 .. 22 : a[c] = Test2[c - 12]
  <2>1. Joined(a, Test1, 12, Test2, 10, 12 + 10)
    BY <1>2, CatAt
  <2> HIDE DEF a
  <2>2. Joined(a, Test1, 12, Test2, 10, 22)
    BY <2>1, 12 + 10 = 22
  <2>3. QED
    BY <2>2 DEF Joined
<1> HIDE DEF a
<1>4. /\ Long(b, 29) /\ (\A c \in 1 .. 22 : b[c] = a[c])
      /\ \A c \in 23 .. 29 : b[c] = Test3[c - 22]
  <2>1. Joined(b, a, 22, Test3, 7, 22 + 7)
    BY <1>2, <1>3, CatAt
  <2> HIDE DEF b
  <2>2. Joined(b, a, 22, Test3, 7, 29)
    BY <2>1, 22 + 7 = 29
  <2>3. QED
    BY <2>2 DEF Joined
<1> HIDE DEF b
<1>5. /\ Long(Tests, 39) /\ (\A c \in 1 .. 29 : Tests[c] = b[c])
      /\ \A c \in 30 .. 39 : Tests[c] = Test4[c - 29]
  <2>1. Joined(Tests, b, 29, Test4, 10, 29 + 10)
    BY <1>1, <1>2, <1>4, CatAt
  <2>2. Joined(Tests, b, 29, Test4, 10, 39)
    BY <2>1, 29 + 10 = 39
  <2>3. QED
    BY <2>2 DEF Joined
<1>6. Len(Tests) = 39
  BY <1>5 DEF Long
<1>7. QED
  BY <1>3, <1>4, <1>5, <1>6

(* The positions of each call.                                             *)
Kind(c) == Tests[c][1]
AddUserAt == 1 .. 3 \cup 13 .. 21 \cup {23, 30}
AddReminderAt == 5 .. 9 \cup {24, 25, 31, 32, 35}
NotificationAt == {10, 26, 27}
UsersAt == {11, 22, 28}
RemindersAt == {12, 29}
TickAt == {33, 34} \cup 36 .. 39

LEMMA KindsAre ==
  ASSUME NEW c \in 1 .. 39
  PROVE  /\ Kind(c) = "user" <=> c \in AddUserAt
         /\ Kind(c) = "reminder" <=> c \in AddReminderAt
         /\ Kind(c) = "remove" <=> c = 4
         /\ Kind(c) = "notification" <=> c \in NotificationAt
         /\ Kind(c) = "users" <=> c \in UsersAt
         /\ Kind(c) = "reminders" <=> c \in RemindersAt
         /\ Kind(c) = "tick" <=> c \in TickAt
         /\ Kind(c) = "reminder" => Tests[c][3] \in Int
<1> USE DEF AddUserAt, AddReminderAt, NotificationAt, UsersAt, RemindersAt, TickAt
<1>1. CASE c \in 1 .. 12
  <2>1. Tests[c] = Test1[c]
    BY <1>1, TestsAre
  <2>2. c \in 1 .. 3 \/ c = 4 \/ c \in 5 .. 9 \/ c = 10 \/ c = 11 \/ c = 12
    BY <1>1
  <2>3. QED
    BY <1>1, <2>1, <2>2, Test1Is DEF Kind
<1>2. CASE c \in 13 .. 22
  <2>1. Tests[c] = Test2[c - 12]
    BY <1>2, TestsAre
  <2>2. c - 12 \in 1 .. 9 \/ c - 12 = 10
    BY <1>2
  <2>3. QED
    BY <1>2, <2>1, <2>2, Test2Is DEF Kind
<1>3. CASE c \in 23 .. 29
  <2>1. Tests[c] = Test3[c - 22]
    BY <1>3, TestsAre
  <2>2. c - 22 = 1 \/ c - 22 \in 2 .. 3 \/ c - 22 \in 4 .. 5 \/ c - 22 = 6 \/ c - 22 = 7
    BY <1>3
  <2>3. QED
    BY <1>3, <2>1, <2>2, Test3Is DEF Kind
<1>4. CASE c \in 30 .. 39
  <2>1. Tests[c] = Test4[c - 29]
    BY <1>4, TestsAre
  <2>2. c - 29 = 1 \/ c - 29 = 2 \/ c - 29 = 3 \/ c - 29 = 6 \/ c - 29 \in {4, 5} \cup 7 .. 10
    BY <1>4
  <2>3. QED
    BY <1>4, <2>1, <2>2, Test4Is DEF Kind
<1>5. QED
  BY <1>1, <1>2, <1>3, <1>4

(***************************************************************************)
(* The invariant.                                                          *)
(***************************************************************************)
(* How far the reminders of test4 can be away when call c is made.         *)
Left(c) == IF c \in {30, 31, 35, 40} THEN 0 ELSE IF c \in {34, 39} THEN 1
           ELSE IF c \in {32, 33, 38} THEN 2 ELSE IF c = 37 THEN 3 ELSE 4

TestsForm(h, c) ==
  /\ c \in 1 .. 5 \cup 13 .. 24 => Reminders(h) = {}
  /\ c \in RemindersAt => Users(h) = {}
  /\ c >= 23 => \A u \in Users(h) : h.block[u].user_name = user1
  /\ c >= 30 => \A r \in Reminders(h) : 1 <= h.block[r].ellapse_time /\ h.block[r].ellapse_time <= Left(c)

HaveUsers(h, c, here) ==
  \A r \in Reminders(h) :
    h.block[r].belongs_to \in Users(h) \/ c \in RemindersAt \/ (c \in UsersAt /\ here # NoWalk)

(* A walk has what it has visited behind it, and stands on the next.       *)
Behind(h, c, p) ==
  /\ c \in UsersAt \cup RemindersAt => p = << >>
  /\ c \in TickAt => \A e \in Range(p) : h.block[BlockOf(e)].ellapse_time <= Left(c + 1)
WalkAt == {4} \cup UsersAt \cup RemindersAt \cup TickAt
WalkForm(h, L, c, here) ==
  here # NoWalk =>
    /\ c \in WalkAt
    /\ \E p \in Seq(Embedded), t \in Seq(Embedded) :
         /\ L[Walked(Tests[c])] = p \o t /\ here = First(t, Walked(Tests[c]))
         /\ Behind(h, c, p)

Holds(h, L, c, here) ==
  c \in 1 .. 40 /\ Data(h, L) /\ TestsForm(h, c) /\ HaveUsers(h, c, here) /\ WalkForm(h, L, c, here)
TestsInv == \E L : Holds(heap, L, test_call, pos)

LEMMA EmptyLists ==
  ASSUME NEW h, NEW L, Data(h, L)
  PROVE  /\ L[users_list] = << >> => Users(h) = {}
         /\ L[reminders_list] = << >> => Reminders(h) = {}
<1>1. \A u \in Users(h) : ListOfUsers(u) \in Range(L[users_list])
  BY FieldsAre DEF Data, InUsers, Users
<1>2. \A r \in Reminders(h) : Queued(r) \in Range(L[reminders_list])
  BY FieldsAre DEF Data, InQueue, Reminders
<1>3. \A x : x \notin Range(<< >>)
  BY DEF Range
<1>4. QED
  BY <1>1, <1>2, <1>3

LEMMA WalkedIs ==
  ASSUME NEW c \in WalkAt
  PROVE  /\ c \in 1 .. 39
         /\ Walked(Tests[c]) = IF c \in {4} \cup UsersAt THEN users_list ELSE reminders_list
         /\ Walked(Tests[c]) \in Heads /\ Walked(Tests[c]) # NoWalk
<1>1. c \in 1 .. 39
  BY DEF WalkAt, UsersAt, RemindersAt, TickAt
<1>2. Walked(Tests[c]) = IF Kind(c) \in {"remove", "users"} THEN users_list ELSE reminders_list
  BY DEF Walked, Kind
<1>3. Kind(c) \in {"remove", "users"} <=> c \in {4} \cup UsersAt
  BY <1>1, KindsAre
<1>4. users_list \in Heads /\ reminders_list \in Heads
  BY DEF Heads
<1>5. QED
  BY <1>1, <1>2, <1>3, <1>4, NodesAre, HeadsAndEntries

LEMMA FirstIs ==
  ASSUME NEW g \in Heads, NEW t \in Seq(Embedded)
  PROVE  First(t, g) # NoWalk /\ (First(t, g) = g => t = << >>)
<1>1. CASE t = << >>
  BY <1>1, NodesAre, HeadsAndEntries DEF First
<1>2. CASE t # << >>
  <2>1. t[1] \in Embedded
    BY <1>2, LenProperties, EmptySeq, ElementOfSeq
  <2>2. QED
    BY <1>2, <2>1, NodesAre, HeadsAndEntries DEF First
<1>3. QED
  BY <1>1, <1>2

LEMMA InitHolds == RemindersInit => TestsInv
<1> SUFFICES ASSUME RemindersInit PROVE TestsInv
  OBVIOUS
<1> DEFINE h == heap
           new == [x \in Nodes |-> IF x \in {users_list, reminders_list} THEN x ELSE InFreedMemory]
           L == [g \in Heads |-> << >>]
           m == Seen(h)
<1>1. h = [next |-> new, prev |-> new, block |-> << >>] /\ test_call = 1 /\ pos = NoWalk
  BY DEF RemindersInit
<1>2. h.next = new /\ h.prev = new /\ h.block = << >> /\ DOMAIN h.block = {}
      /\ h = [next |-> h.next, prev |-> h.prev, block |-> h.block]
      /\ h.block = [b \in DOMAIN h.block |-> h.block[b]]
  BY <1>1
<1> HIDE DEF h
<1>3. \A x : IsFreed(h, x) <=> x \notin {users_list, reminders_list}
  BY <1>2 DEF IsFreed
<1>4. HeapForm(h)
  <2>1. Kept(h)
    BY <1>2, <1>3 DEF Kept
  <2>2. QED
    BY <1>2, <2>1 DEF HeapForm
<1>5. \A x \in Heads \cup Embedded : /\ m.next[x] = Aside(h, x) /\ m.prev[x] = Aside(h, x)
  <2>1. users_list \in Heads /\ reminders_list \in Heads
    BY DEF Heads
  <2>2. QED
    BY <1>2, <1>3, <2>1, NodesAre DEF Seen, Aside
<1>6. m \in Rings!Memories
  <2>1. /\ m.next = [x \in Heads \cup Embedded |-> m.next[x]]
        /\ m.prev = [x \in Heads \cup Embedded |-> m.prev[x]]
        /\ m = [next |-> m.next, prev |-> m.prev]
    BY DEF Seen
  <2>2. \A x \in Heads \cup Embedded : Aside(h, x) \in Rings!Target
    BY DEF Aside, Rings!Target, Rings!ListHead
  <2> HIDE DEF m
  <2>3. QED
    BY <1>5, <2>1, <2>2 DEF Rings!Memories, Rings!ListHead
<1>7. \A g \in Heads : Rings!Ring(m, <<g>> \o << >>)
  <2> SUFFICES ASSUME NEW g \in Heads PROVE Rings!Ring(m, <<g>> \o << >>)
    OBVIOUS
  <2>1. Rings!Link(m, g, g)
    BY <1>5 DEF Aside, Rings!Link, Rings!NextOf, Rings!PrevOf
  <2> HIDE DEF m
  <2>2. QED
    BY <2>1, HeadsAreNoEntries, Rings!HeadAlone
<1> HIDE DEF m
<1>8. \A g \in Heads : L[g] = << >> /\ Range(L[g]) = {} /\ Rings!Range(L[g]) = {}
  BY DEF Range, Rings!Range
<1>9. L \in [Heads -> Seq(Embedded)]
  BY EmptySeq
<1> HIDE DEF L
<1>10. HasRings(h, L)
  <2>1. Rings!RingsInv(m, L)
    BY <1>6, <1>7, <1>8, <1>9 DEF Rings!RingsInv
  <2>2. QED
    BY <1>4, <1>8, <2>1 DEF HasRings, m
<1>11. Users(h) = {} /\ Reminders(h) = {}
  BY <1>2 DEF Users, Reminders
<1>12. Data(h, L)
  <2>1. \A u \in UserBlocks : NotificationsList(u) \in Heads
    BY DEF Heads
  <2>2. InUsers(h, L[users_list]) /\ InQueue(h, L[reminders_list])
    BY <1>8, <1>11 DEF InUsers, InQueue, Heads
  <2>3. InMine(h, L)
    BY <1>8, <1>11, <2>1 DEF InMine, Mine
  <2>4. QED
    BY <1>10, <1>11, <2>2, <2>3 DEF Data, DataForm
<1>13. TestsForm(h, 1) /\ HaveUsers(h, 1, NoWalk) /\ WalkForm(h, L, 1, NoWalk)
  BY <1>11 DEF TestsForm, HaveUsers, WalkForm, RemindersAt
<1>14. Holds(h, L, 1, NoWalk)
  BY <1>12, <1>13 DEF Holds
<1>15. QED
  BY <1>1, <1>14 DEF TestsInv, h

(***************************************************************************)
(* The calls that are one step.                                            *)
(***************************************************************************)
CallAt == AddUserAt \cup AddReminderAt \cup NotificationAt

LEMMA CallPositions ==
  ASSUME NEW c \in CallAt
  PROVE  /\ c \in 1 .. 39 /\ c + 1 \in 1 .. 40 /\ c \notin WalkAt /\ c + 1 \notin RemindersAt
         /\ c \notin RemindersAt /\ c \notin UsersAt
         /\ c + 1 \in 1 .. 5 \cup 13 .. 24 => c \in AddUserAt /\ c \in 1 .. 5 \cup 13 .. 24
         /\ c + 1 >= 23 => c >= 23 /\ (c \in AddUserAt => c \in {23, 30})
         /\ c + 1 >= 30 => c >= 30 /\ Left(c) <= Left(c + 1)
         /\ Left(c) \in Int /\ Left(c + 1) \in Int
BY DEF CallAt, WalkAt, AddUserAt, AddReminderAt, NotificationAt, UsersAt, RemindersAt, TickAt, Left

LEMMA CallArguments ==
  /\ Tests[23][2] = user1 /\ Tests[30][2] = user1
  /\ Tests[31][3] = 2 /\ Tests[32][3] = 1 /\ Tests[35][3] = 4
<1>1. /\ Tests[23] = Test3[1] /\ Tests[30] = Test4[1] /\ Tests[31] = Test4[2]
      /\ Tests[32] = Test4[3] /\ Tests[35] = Test4[6]
  BY TestsAre
<1>2. QED
  BY <1>1, Test3Is, Test4Is

(* Every reminder has its user before such a call.                         *)
LEMMA AllHaveUsers ==
  ASSUME NEW h, NEW L, NEW c, NEW here, Holds(h, L, c, here), c \notin RemindersAt \cup UsersAt
  PROVE  \A r \in Reminders(h) : h.block[r].belongs_to \in Users(h)
BY DEF Holds, HaveUsers

(* What a call can do to the data.                                         *)
LEMMA NothingCalled ==
  ASSUME NEW h, NEW L, NEW c \in CallAt, Holds(h, L, c, NoWalk)
  PROVE  Holds(h, L, c + 1, NoWalk)
<1>1. TestsForm(h, c + 1)
  <2>1. \A r \in Reminders(h) : h.block[r].ellapse_time \in Int
    BY DEF Holds, Data, DataForm
  <2>2. c + 1 >= 30 => \A r \in Reminders(h) :
          1 <= h.block[r].ellapse_time /\ h.block[r].ellapse_time <= Left(c + 1)
    BY <2>1, CallPositions DEF Holds, TestsForm
  <2>3. c + 1 >= 23 => c >= 23
    BY CallPositions
  <2>4. c + 1 \notin RemindersAt
    BY CallPositions
  <2>5. c + 1 \in 1 .. 5 \cup 13 .. 24 => c \in 1 .. 5 \cup 13 .. 24
    BY CallPositions
  <2>6. QED
    BY <2>2, <2>3, <2>4, <2>5 DEF Holds, TestsForm
<1>2. HaveUsers(h, c + 1, NoWalk)
  <2>1. c \notin RemindersAt \cup UsersAt
    BY CallPositions
  <2>2. QED
    BY <2>1, AllHaveUsers DEF HaveUsers
<1>3. c + 1 \in 1 .. 40 /\ WalkForm(h, L, c + 1, NoWalk)
  BY CallPositions DEF WalkForm
<1>4. QED
  BY <1>1, <1>2, <1>3 DEF Holds

LEMMA AddUserHolds ==
  ASSUME NEW h, NEW L, NEW c \in CallAt, Holds(h, L, c, NoWalk), c \in AddUserAt,
         NEW u \in UserBlocks, u \notin DOMAIN h.block,
         NEW h2, h2 = AddTail(INIT_LIST_HEAD(Kmalloc(h, u, [user_name |-> Tests[c][2]]),
                                             NotificationsList(u)),
                              ListOfUsers(u), users_list)
  PROVE  \E L2 : Holds(h2, L2, c + 1, NoWalk)
<1> DEFINE data == [user_name |-> Tests[c][2]]
<1>1. Holds(h, L, c + 1, NoWalk) /\ Data(h, L)
  BY NothingCalled DEF Holds
<1>2. \A r \in Reminders(h) : h.block[r].belongs_to \in Users(h) /\ h.block[r].belongs_to # u
  <2>1. c \notin RemindersAt \cup UsersAt
    BY CallPositions
  <2>2. QED
    BY <2>1, AllHaveUsers DEF Users
<1>3. (\E L2 : Data(h2, L2)) /\ Extended(h, h2, u, data)
  BY <1>1, <1>2, UserAdded
<1>4. PICK L2 : Data(h2, L2)
  BY <1>3
<1>5. /\ Users(h2) = Users(h) \cup {u} /\ Reminders(h2) = Reminders(h)
      /\ \A b \in Users(h) \cup Reminders(h) : h2.block[b] = h.block[b]
      /\ h2.block[u].user_name = Tests[c][2]
  BY <1>3, BlocksAre DEF Extended, Users, Reminders
<1>6. TestsForm(h2, c + 1)
  <2>1. c + 1 >= 23 => Tests[c][2] = user1
    BY CallPositions, CallArguments
  <2>2. c + 1 \notin RemindersAt
    BY CallPositions
  <2>3. TestsForm(h, c + 1)
    BY <1>1 DEF Holds
  <2>4. QED
    BY <1>5, <2>1, <2>2, <2>3 DEF TestsForm
<1>7. HaveUsers(h2, c + 1, NoWalk)
  BY <1>2, <1>5 DEF HaveUsers
<1>8. c + 1 \in 1 .. 40 /\ WalkForm(h2, L2, c + 1, NoWalk)
  BY CallPositions DEF WalkForm
<1>9. QED
  BY <1>4, <1>6, <1>7, <1>8 DEF Holds

LEMMA AddReminderHolds ==
  ASSUME NEW h, NEW L, NEW c \in CallAt, Holds(h, L, c, NoWalk), c \in AddReminderAt,
         NEW u \in Users(h), NEW r \in ReminderBlocks, r \notin DOMAIN h.block,
         NEW k, k = INIT_LIST_HEAD(INIT_LIST_HEAD(
                      Kmalloc(h, r, [ellapse_time |-> Tests[c][3], belongs_to |-> u]), Queued(r)),
                      UserNotify(r)),
         NEW h2, h2 = InsertedInQueue(AddTail(k, UserNotify(r), NotificationsList(u)), r)
  PROVE  \E L2 : Holds(h2, L2, c + 1, NoWalk)
<1> DEFINE time == Tests[c][3]
           data == [ellapse_time |-> time, belongs_to |-> u]
<1>1. Holds(h, L, c + 1, NoWalk) /\ Data(h, L)
  BY NothingCalled DEF Holds
<1>2. \A s \in Reminders(h) : h.block[s].belongs_to \in Users(h)
  <2>1. c \notin RemindersAt \cup UsersAt
    BY CallPositions
  <2>2. QED
    BY <2>1, AllHaveUsers
<1>3. time \in Int
  <2>1. c \in 1 .. 39
    BY CallPositions
  <2>2. QED
    BY <2>1, KindsAre
<1>4. (\E L2 : Data(h2, L2)) /\ Extended(h, h2, r, data)
  <2> HIDE DEF time
  <2>1. QED
    BY <1>1, <1>3, ReminderAdded DEF time
<1>5. PICK L2 : Data(h2, L2)
  BY <1>4
<1>6. /\ Users(h2) = Users(h) /\ Reminders(h2) = Reminders(h) \cup {r}
      /\ \A b \in Users(h) \cup Reminders(h) : h2.block[b] = h.block[b]
      /\ h2.block[r].ellapse_time = time /\ h2.block[r].belongs_to = u
  BY <1>4, BlocksAre DEF Extended, Users, Reminders
<1>7. TestsForm(h2, c + 1)
  <2>1. c + 1 >= 30 => 1 <= time /\ time <= Left(c + 1)
    BY CallPositions, CallArguments DEF AddReminderAt, Left
  <2>2. c + 1 \notin 1 .. 5 \cup 13 .. 24 /\ c + 1 \notin RemindersAt
    BY CallPositions DEF AddReminderAt, AddUserAt
  <2>3. TestsForm(h, c + 1)
    BY <1>1 DEF Holds
  <2>4. c + 1 >= 30 => \A s \in Reminders(h2) :
          1 <= h2.block[s].ellapse_time /\ h2.block[s].ellapse_time <= Left(c + 1)
    BY <1>6, <2>1, <2>3 DEF TestsForm
  <2>5. c + 1 >= 23 => \A v \in Users(h2) : h2.block[v].user_name = user1
    BY <1>6, <2>3 DEF TestsForm
  <2>6. QED
    BY <2>2, <2>4, <2>5 DEF TestsForm
<1>8. HaveUsers(h2, c + 1, NoWalk)
  BY <1>2, <1>6 DEF HaveUsers
<1>9. c + 1 \in 1 .. 40 /\ WalkForm(h2, L2, c + 1, NoWalk)
  BY CallPositions DEF WalkForm
<1>10. QED
  BY <1>5, <1>7, <1>8, <1>9 DEF Holds

LEMMA NotificationHolds ==
  ASSUME NEW h, NEW L, NEW c \in CallAt, Holds(h, L, c, NoWalk), NEW r \in Reminders(h),
         NEW h2, h2 = Kfree(Del(Del(h, UserNotify(r)), Queued(r)), r)
  PROVE  \E L2 : Holds(h2, L2, c + 1, NoWalk)
<1>1. Holds(h, L, c + 1, NoWalk) /\ Data(h, L)
  BY NothingCalled DEF Holds
<1>2. \A s \in Reminders(h) : h.block[s].belongs_to \in Users(h)
  <2>1. c \notin RemindersAt \cup UsersAt
    BY CallPositions
  <2>2. QED
    BY <2>1, AllHaveUsers
<1>3. (\E L2 : Data(h2, L2)) /\ Shrunk(h, h2, r)
  BY <1>1, <1>2, NotificationRemoved
<1>4. PICK L2 : Data(h2, L2)
  BY <1>3
<1>5. /\ Users(h2) = Users(h) /\ Reminders(h2) = Reminders(h) \ {r}
      /\ \A b \in Users(h2) \cup Reminders(h2) : h2.block[b] = h.block[b]
  BY <1>3, BlocksAre DEF Shrunk, Users, Reminders
<1>6. TestsForm(h2, c + 1)
  <2>1. TestsForm(h, c + 1)
    BY <1>1 DEF Holds
  <2>2. QED
    BY <1>5, <2>1 DEF TestsForm
<1>7. HaveUsers(h2, c + 1, NoWalk)
  BY <1>2, <1>5 DEF HaveUsers
<1>8. c + 1 \in 1 .. 40 /\ WalkForm(h2, L2, c + 1, NoWalk)
  BY CallPositions DEF WalkForm
<1>9. QED
  BY <1>4, <1>6, <1>7, <1>8 DEF Holds

LEMMA UserFound ==
  ASSUME NEW h, NEW L, Data(h, L), NEW name, NEW u \in FindUserEntry(h, name)
  PROVE  u \in Users(h)
<1> DEFINE users == Entries(h, users_list)
           S == {k \in DOMAIN users : h.block[BlockOf(users[k])].user_name = name}
<1>1. users = L[users_list]
  BY TheLists
<1>2. FindUserEntry(h, name) = {BlockOf(users[i]) : i \in Smallest(S)}
  BY DEF FindUserEntry
<1>3. Smallest(S) \subseteq DOMAIN users
  BY DEF Smallest
<1> HIDE DEF S, users
<1>4. PICK i \in DOMAIN users : u = BlockOf(users[i])
  BY <1>2, <1>3
<1>5. users[i] \in Range(L[users_list])
  BY <1>1, <1>4 DEF Range
<1>6. QED
  BY <1>4, <1>5 DEF Data, InUsers

LEMMA FirstFreeIs ==
  ASSUME NEW h, NEW B, NEW b \in FirstFree(h, B)
  PROVE  b \in B /\ b \notin DOMAIN h.block
BY DEF FirstFree, Smallest

LEMMA CallMadeHolds ==
  ASSUME TestsInv, test_call <= Len(Tests), CallMade
  PROVE  TestsInv'
<1> DEFINE h == heap
           h2 == heap'
           c == test_call
           name == Tests[c][2]
           time == Tests[c][3]
<1>1. PICK L : Holds(h, L, c, pos)
  BY DEF TestsInv
<1>2. c \in 1 .. 39
  BY <1>1, TestsAre DEF Holds
<1>3. /\ \/ Kind(c) = "user" /\ AddNewUser(name)
         \/ Kind(c) = "reminder" /\ AddUserReminder(name, time)
         \/ Kind(c) = "notification" /\ RemoveUserNotification(name, time)
      /\ test_call' = c + 1 /\ pos' = pos
  BY DEF CallMade, Call, Kind
<1>4. c \in CallAt
  BY <1>2, <1>3, KindsAre DEF CallAt
<1>5. pos = NoWalk
  <2>1. c \notin WalkAt
    BY <1>4, CallPositions
  <2>2. QED
    BY <1>1, <2>1 DEF Holds, WalkForm
<1>6. Holds(h, L, c, NoWalk) /\ Data(h, L)
  BY <1>1, <1>5 DEF Holds
<1> SUFFICES \E L2 : Holds(h2, L2, c + 1, NoWalk)
  BY <1>3, <1>5 DEF TestsInv
<1> HIDE DEF c, h, h2
<1>7. CASE h2 = h
  BY <1>4, <1>6, <1>7, NothingCalled
<1>8. CASE Kind(c) = "user" /\ AddNewUser(name)
  <2>1. CASE h2 = h
    BY <1>7, <2>1
  <2>2. CASE h2 # h
    <3>1. PICK u \in FirstFree(h, UserBlocks) :
            h2 = AddTail(INIT_LIST_HEAD(Kmalloc(h, u, [user_name |-> name]), NotificationsList(u)),
                         ListOfUsers(u), users_list)
      BY <1>8, <2>2 DEF AddNewUser, h, h2
    <3>2. u \in UserBlocks /\ u \notin DOMAIN h.block
      BY <3>1, FirstFreeIs
    <3>3. c \in AddUserAt
      BY <1>2, <1>8, KindsAre
    <3>4. QED
      BY <1>4, <1>6, <3>1, <3>2, <3>3, AddUserHolds
  <2>3. QED
    BY <2>1, <2>2
<1>9. CASE Kind(c) = "reminder" /\ AddUserReminder(name, time)
  <2>1. CASE h2 = h
    BY <1>7, <2>1
  <2>2. CASE h2 # h
    <3>1. PICK u \in FindUserEntry(h, name), r \in FirstFree(h, ReminderBlocks) :
            h2 = InsertedInQueue(AddTail(
                   INIT_LIST_HEAD(INIT_LIST_HEAD(
                     Kmalloc(h, r, [ellapse_time |-> time, belongs_to |-> u]), Queued(r)), UserNotify(r)),
                   UserNotify(r), NotificationsList(u)), r)
      BY <1>9, <2>2 DEF AddUserReminder, h, h2
    <3>2. u \in Users(h) /\ r \in ReminderBlocks /\ r \notin DOMAIN h.block
      BY <1>6, <3>1, FirstFreeIs, UserFound
    <3>3. c \in AddReminderAt
      BY <1>2, <1>9, KindsAre
    <3>4. QED
      BY <1>4, <1>6, <3>1, <3>2, <3>3, AddReminderHolds
  <2>3. QED
    BY <2>1, <2>2
<1>10. CASE Kind(c) = "notification" /\ RemoveUserNotification(name, time)
  <2> DEFINE found == {r \in ReminderBlocks :
               /\ \E u \in FindUserEntry(h, name) :
                    LET mine == Entries(h, NotificationsList(u))
                    IN time \in DOMAIN mine /\ mine[time] = UserNotify(r)
               /\ Queued(r) \in Range(Entries(h, reminders_list))}
             r == CHOOSE x \in found : TRUE
  <2>1. h2 = IF found = {} THEN h ELSE Kfree(Del(Del(h, UserNotify(r)), Queued(r)), r)
    BY <1>10 DEF RemoveUserNotification, h, h2
  <2>2. \A x \in found : x \in ReminderBlocks /\ Queued(x) \in Range(L[reminders_list])
    BY <1>6, TheLists
  <2>3. CASE found = {}
    BY <1>7, <2>1, <2>3
  <2>4. CASE found # {}
    <3> HIDE DEF found
    <3>1. r \in found
      BY <2>4
    <3> HIDE DEF r
    <3>2. r \in Reminders(h)
      BY <1>6, <2>2, <3>1, FieldsAre DEF Data, InQueue
    <3>3. h2 = Kfree(Del(Del(h, UserNotify(r)), Queued(r)), r)
      BY <2>1, <2>4 DEF r
    <3>4. QED
      BY <1>4, <1>6, <3>2, <3>3, NotificationHolds
  <2>5. QED
    BY <2>3, <2>4
<1>11. QED
  BY <1>3, <1>8, <1>9, <1>10 DEF c

(***************************************************************************)
(* The calls that are walks.                                               *)
(***************************************************************************)
LEMMA FirstOfList ==
  ASSUME NEW h, NEW L, HasRings(h, L), NEW g \in Heads, Live(h, g)
  PROVE  h.next[g] = First(L[g], g)
<1>1. Seen(h).next[g] = IF L[g] = << >> THEN g ELSE L[g][1]
  BY HeadsAreNoEntries, Rings!EndsOfList DEF HasRings, Rings!FirstOf
<1>2. Seen(h).next[g] = h.next[g]
  BY DEF Seen, Live
<1>3. QED
  BY <1>1, <1>2 DEF First

LEMMA WalkStartsHolds ==
  ASSUME TestsInv, WalkStarts, test_call <= Len(Tests)
  PROVE  TestsInv'
<1> DEFINE h == heap
           c == test_call
           g == Walked(Tests[c])
           here == h.next[g]
<1>1. PICK L : Holds(h, L, c, NoWalk)
  BY DEF TestsInv, WalkStarts
<1>2. c \in 1 .. 39 /\ Kind(c) \in {"remove", "users", "reminders", "tick"}
  BY <1>1, TestsAre DEF Holds, WalkStarts, Kind
<1>3. heap' = h /\ test_call' = c /\ pos' = here
  BY DEF WalkStarts
<1> HIDE DEF c, h
<1>4. c \in WalkAt
  BY <1>2, KindsAre DEF WalkAt
<1>5. g \in Heads /\ Live(h, g) /\ HasRings(h, L) /\ L[g] \in Seq(Embedded)
  <2>1. Data(h, L)
    BY <1>1 DEF Holds
  <2>2. g = users_list \/ g = reminders_list
    BY <1>4, WalkedIs
  <2>3. QED
    BY <2>1, <2>2, TheLists DEF Data
<1> HIDE DEF g
<1> DEFINE p == << >>
           t == L[g]
<1>6. p \in Seq(Embedded) /\ t \in Seq(Embedded) /\ L[g] = p \o t
  BY <1>5, ConcatEmptySeq
<1>7. here = First(t, g)
  BY <1>5, FirstOfList
<1>8. Behind(h, c, p)
  BY DEF Behind, Range
<1> HIDE DEF p, t, here
<1>9. WalkForm(h, L, c, here)
  BY <1>4, <1>6, <1>7, <1>8 DEF WalkForm, g
<1>10. HaveUsers(h, c, here)
  <2>1. here # NoWalk
    BY <1>5, <1>6, <1>7, FirstIs
  <2>2. QED
    BY <1>1, <2>1 DEF Holds, HaveUsers
<1>11. Holds(h, L, c, here)
  BY <1>1, <1>9, <1>10 DEF Holds
<1>12. QED
  BY <1>3, <1>11 DEF TestsInv

(* Where a walk stands.                                                    *)
Ahead(h, L, c, g, p, here, t) ==
  /\ Place(L, g, p, here, t) /\ Behind(h, c, p) /\ h.next[here] = First(t, g)
  /\ here \in Range(L[g])
  /\ \E o \in Seq(Embedded) : o = p \o <<here>> /\ L[g] = o \o t /\ Range(o) = Range(p) \cup {here}

LEMMA WalkPlace ==
  ASSUME NEW h, NEW L, NEW c, NEW here, Holds(h, L, c, here), NEW g, g = Walked(Tests[c]),
         here # NoWalk, here # g
  PROVE  c \in WalkAt /\ \E p, t : Ahead(h, L, c, g, p, here, t)
<1>1. c \in WalkAt
  BY DEF Holds, WalkForm
<1>2. PICK p \in Seq(Embedded), s \in Seq(Embedded) :
        L[g] = p \o s /\ here = First(s, g) /\ Behind(h, c, p)
  BY DEF Holds, WalkForm
<1>3. s # << >>
  BY <1>2 DEF First
<1>4. Len(s) \in Nat /\ Len(s) # 0 /\ 1 \in DOMAIN s /\ s[1] = here
  BY <1>2, <1>3, LenProperties, EmptySeq DEF First
<1> DEFINE t == SubSeq(s, 2, Len(s))
           o == <<here>>
<1>5. here \in Embedded /\ t \in Seq(Embedded) /\ s = o \o t
  <2> DEFINE a == SubSeq(s, 1, 1 - 1)
             b == SubSeq(s, 1 + 1, Len(s))
             d == <<s[1]>> \o b
  <2>1. /\ a \in Seq(Embedded) /\ b \in Seq(Embedded) /\ s[1] \in Embedded
        /\ SubSeq(s, 1, Len(s)) = d
    BY <1>4, HeadsAreNoEntries, Rings!SplitAt
  <2>2. SubSeq(s, 1, Len(s)) = s
    BY SubSeqFull
  <2>3. 1 + 1 = 2
    OBVIOUS
  <2>4. QED
    BY <1>4, <2>1, <2>2, <2>3
<1> HIDE DEF t
<1>6. g \in Heads /\ HasRings(h, L)
  BY <1>1, WalkedIs DEF Holds, Data
<1>7. Place(L, g, p, here, t)
  BY <1>2, <1>5, <1>6 DEF Place, Rings!With
<1>8. h.next[here] = First(t, g)
  <2>1. L[g] = Rings!With(p, here, t)
    BY <1>7 DEF Place
  <2> DEFINE h2 == Del(h, here)
  <2>2. h2 = Del(h, here)
    OBVIOUS
  <2> HIDE DEF h2
  <2>3. QED
    BY <1>2, <1>5, <1>6, <2>1, <2>2, TakenFrom
<1>9. o \in Seq(Embedded) /\ Range(o) = {here} /\ Range(L[g]) = Range(p) \cup (Range(o) \cup Range(t))
  <2>1. o \in Seq(Embedded) /\ Rings!Range(o) = {here}
    BY <1>5, HeadsAreNoEntries, Rings!OneIs
  <2> HIDE DEF o
  <2>2. Rings!Range(p \o s) = Rings!Range(p) \cup Rings!Range(s)
    BY <1>2, HeadsAreNoEntries, Rings!CatIs
  <2>3. Rings!Range(o \o t) = Rings!Range(o) \cup Rings!Range(t)
    BY <1>5, <2>1, HeadsAreNoEntries, Rings!CatIs
  <2>4. QED
    BY <1>2, <1>5, <2>1, <2>2, <2>3, SameFunctions
<1>10. here \in Range(L[g])
  BY <1>9
<1> HIDE DEF o
<1>11. p \o o \in Seq(Embedded) /\ L[g] = (p \o o) \o t /\ Range(p \o o) = Range(p) \cup {here}
  <2>1. Rings!Range(p \o o) = Rings!Range(p) \cup Rings!Range(o) /\ p \o o \in Seq(Embedded)
    BY <1>2, <1>9, HeadsAreNoEntries, Rings!CatIs
  <2>2. (p \o o) \o t = p \o (o \o t)
    BY <1>2, <1>5, <1>9, ConcatAssociative
  <2>3. QED
    BY <1>2, <1>5, <1>9, <2>1, <2>2, SameFunctions
<1>12. Ahead(h, L, c, g, p, here, t)
  <2> DEFINE q == p \o o
  <2>1. q = p \o <<here>> /\ q \in Seq(Embedded) /\ L[g] = q \o t /\ Range(q) = Range(p) \cup {here}
    BY <1>11 DEF o
  <2> HIDE DEF q
  <2>2. QED
    BY <1>2, <1>7, <1>8, <1>10, <2>1 DEF Ahead
<1>13. QED
  BY <1>1, <1>12

LEMMA VisitedGone ==
  ASSUME NEW h, NEW L, NEW c \in WalkAt, NEW g, g = Walked(Tests[c]), NEW p, NEW here, NEW t,
         Ahead(h, L, c, g, p, here, t),
         NEW h2, NEW L2, Data(h2, L2), L2[g] = p \o t,
         TestsForm(h2, c), Behind(h2, c, p), HaveUsers(h2, c, First(t, g))
  PROVE  Holds(h2, L2, c, First(t, g))
<1>1. p \in Seq(Embedded) /\ t \in Seq(Embedded)
  BY DEF Ahead, Place
<1>2. WalkForm(h2, L2, c, First(t, g))
  BY <1>1 DEF WalkForm
<1>3. c \in 1 .. 40
  BY WalkedIs
<1>4. QED
  BY <1>2, <1>3 DEF Holds

LEMMA VisitedStays ==
  ASSUME NEW h, NEW L, NEW c \in WalkAt, NEW g, g = Walked(Tests[c]), NEW p, NEW here, NEW t,
         Ahead(h, L, c, g, p, here, t), c \notin UsersAt \cup RemindersAt,
         NEW h2, Data(h2, L), TestsForm(h2, c), HaveUsers(h2, c, First(t, g)),
         c \in TickAt => \A e \in Range(p) \cup {here} : h2.block[BlockOf(e)].ellapse_time <= Left(c + 1)
  PROVE  Holds(h2, L, c, First(t, g))
<1>1. PICK o \in Seq(Embedded) : L[g] = o \o t /\ Range(o) = Range(p) \cup {here}
  BY DEF Ahead
<1>2. t \in Seq(Embedded)
  BY DEF Ahead, Place
<1>3. Behind(h2, c, o)
  BY <1>1 DEF Behind
<1>4. WalkForm(h2, L, c, First(t, g))
  BY <1>1, <1>2, <1>3 DEF WalkForm
<1>5. c \in 1 .. 40
  BY WalkedIs
<1>6. QED
  BY <1>4, <1>5 DEF Holds

(* Freeing a user, in remove_user and in cleanup_users.                    *)
LEMMA UserVisited ==
  ASSUME NEW h, NEW L, NEW c, NEW here, Holds(h, L, c, here), c \in {4} \cup UsersAt,
         NEW p, NEW t, Ahead(h, L, c, users_list, p, here, t), NEW h2, h2 = EntryFreed(h, here)
  PROVE  \E L2 : Holds(h2, L2, c, First(t, users_list))
<1>1. /\ c \in WalkAt /\ users_list = Walked(Tests[c]) /\ users_list \in Heads
      /\ c \notin TickAt /\ c \notin RemindersAt
  <2>1. c \in WalkAt /\ c \notin TickAt /\ c \notin RemindersAt
    BY DEF WalkAt, UsersAt, TickAt, RemindersAt
  <2>2. QED
    BY <2>1, WalkedIs
<1> DEFINE u == BlockOf(here)
<1>2. Data(h, L) /\ u \in Users(h) /\ here = ListOfUsers(u)
  BY DEF Holds, Data, InUsers, Ahead
<1> HIDE DEF u
<1>3. Place(L, users_list, p, ListOfUsers(u), t)
  BY <1>2 DEF Ahead
<1>4. (\E L2 : Data(h2, L2) /\ L2[users_list] = p \o t) /\ Shrunk(h, h2, u)
  BY <1>2, <1>3, UserFreed
<1>5. PICK L2 : Data(h2, L2) /\ L2[users_list] = p \o t
  BY <1>4
<1>6. /\ Users(h2) = Users(h) \ {u} /\ Reminders(h2) = Reminders(h)
      /\ \A b \in Users(h2) \cup Reminders(h2) : h2.block[b] = h.block[b]
  BY <1>2, <1>4, BlocksAre DEF Shrunk, Users, Reminders
<1>7. TestsForm(h2, c)
  BY <1>1, <1>6 DEF Holds, TestsForm
<1>8. Behind(h2, c, p)
  BY <1>1 DEF Ahead, Behind
<1>9. HaveUsers(h2, c, First(t, users_list))
  <2>1. First(t, users_list) # NoWalk
    BY <1>1, FirstIs DEF Ahead, Place
  <2>2. CASE c = 4
    <3>1. Reminders(h) = {}
      BY <2>2 DEF Holds, TestsForm
    <3>2. QED
      BY <1>6, <3>1 DEF HaveUsers
  <2>3. CASE c \in UsersAt
    BY <2>1, <2>3 DEF HaveUsers
  <2>4. QED
    BY <2>2, <2>3
<1>10. QED
  BY <1>1, <1>5, <1>7, <1>8, <1>9, VisitedGone

LEMMA ReminderVisited ==
  ASSUME NEW h, NEW L, NEW c \in RemindersAt, NEW here, Holds(h, L, c, here),
         NEW p, NEW t, Ahead(h, L, c, reminders_list, p, here, t), NEW h2, h2 = EntryFreed(h, here)
  PROVE  \E L2 : Holds(h2, L2, c, First(t, reminders_list))
<1>1. c \in WalkAt /\ reminders_list = Walked(Tests[c]) /\ c \notin TickAt
  <2>1. c \in WalkAt /\ c \notin {4} \cup UsersAt /\ c \notin TickAt
    BY DEF WalkAt, UsersAt, TickAt, RemindersAt
  <2>2. QED
    BY <2>1, WalkedIs
<1> DEFINE r == BlockOf(here)
<1>2. Data(h, L) /\ r \in Reminders(h) /\ here = Queued(r) /\ Users(h) = {}
  BY DEF Holds, TestsForm, Data, InQueue, Ahead
<1> HIDE DEF r
<1>3. Place(L, reminders_list, p, Queued(r), t)
  BY <1>2 DEF Ahead
<1>4. (\E L2 : Data(h2, L2) /\ L2[reminders_list] = p \o t) /\ Shrunk(h, h2, r)
  BY <1>2, <1>3, ReminderCleaned
<1>5. PICK L2 : Data(h2, L2) /\ L2[reminders_list] = p \o t
  BY <1>4
<1>6. /\ Users(h2) = Users(h) /\ Reminders(h2) = Reminders(h) \ {r}
      /\ \A b \in Users(h2) \cup Reminders(h2) : h2.block[b] = h.block[b]
  BY <1>2, <1>4, BlocksAre DEF Shrunk, Users, Reminders
<1>7. TestsForm(h2, c)
  BY <1>6 DEF Holds, TestsForm
<1>8. Behind(h2, c, p)
  BY <1>1 DEF Ahead, Behind
<1>9. HaveUsers(h2, c, First(t, reminders_list))
  BY DEF HaveUsers
<1>10. QED
  BY <1>1, <1>5, <1>7, <1>8, <1>9, VisitedGone

LEMMA TickPositions ==
  ASSUME NEW c \in TickAt
  PROVE  /\ c \in WalkAt /\ c \in 30 .. 39 /\ c \notin {4} \cup UsersAt /\ c \notin RemindersAt
         /\ c \notin 1 .. 5 \cup 13 .. 24
         /\ Left(c) \in Int /\ Left(c + 1) \in Int /\ Left(c + 1) = Left(c) - 1
BY DEF WalkAt, UsersAt, TickAt, RemindersAt, Left

LEMMA TickVisited ==
  ASSUME NEW h, NEW L, NEW c \in TickAt, NEW here, Holds(h, L, c, here),
         NEW p, NEW t, Ahead(h, L, c, reminders_list, p, here, t), NEW h2, h2 = HandleTimerTick(h, here)
  PROVE  \E L2 : Holds(h2, L2, c, First(t, reminders_list))
<1>1. c \in WalkAt /\ reminders_list = Walked(Tests[c]) /\ c \notin RemindersAt \cup UsersAt
  BY TickPositions, WalkedIs
<1> DEFINE r == BlockOf(here)
           k == [h EXCEPT !.block[r].ellapse_time = @ - 1]
<1>2. Data(h, L) /\ r \in Reminders(h) /\ here = Queued(r)
  BY DEF Holds, Data, InQueue, Ahead
<1>3. h2 = IF k.block[r].ellapse_time = 0 THEN Expired(k, r) ELSE k
  BY DEF HandleTimerTick
<1>4. k = [h EXCEPT !.block[r].ellapse_time = @ - 1]
  OBVIOUS
<1> HIDE DEF k, r
<1>5. Data(k, L) /\ Nearer(h, k, r)
  BY <1>2, <1>4, TimeDecreased
<1>6. \A s \in Reminders(h) :
        /\ h.block[s].ellapse_time \in Int /\ h.block[s].belongs_to \in Users(h)
        /\ 1 <= h.block[s].ellapse_time /\ h.block[s].ellapse_time <= Left(c)
  <2>1. \A s \in Reminders(h) : h.block[s].ellapse_time \in Int
    BY <1>2 DEF Data, DataForm
  <2>2. \A s \in Reminders(h) : h.block[s].belongs_to \in Users(h)
    BY <1>1, AllHaveUsers
  <2>3. TestsForm(h, c) /\ c >= 30
    BY TickPositions DEF Holds
  <2>4. \A s \in Reminders(h) : 1 <= h.block[s].ellapse_time /\ h.block[s].ellapse_time <= Left(c)
    BY <2>3 DEF TestsForm
  <2>5. QED
    BY <2>1, <2>2, <2>4
<1>7. /\ Users(k) = Users(h) /\ Reminders(k) = Reminders(h)
      /\ \A b \in Users(h) : k.block[b] = h.block[b]
      /\ \A s \in Reminders(h) :
           /\ k.block[s].ellapse_time = IF s = r THEN h.block[s].ellapse_time - 1 ELSE h.block[s].ellapse_time
           /\ k.block[s].belongs_to = h.block[s].belongs_to
  BY <1>2, <1>5, BlocksAre DEF Nearer, Users, Reminders
<1>8. \A s \in Reminders(h) :
        /\ k.block[s].belongs_to \in Users(k)
        /\ k.block[s].ellapse_time <= Left(c)
        /\ (s # r \/ k.block[s].ellapse_time # 0) => 1 <= k.block[s].ellapse_time
  BY <1>6, <1>7, TickPositions
<1>9. \A u \in Users(h) : h.block[u].user_name = user1
  BY TickPositions DEF Holds, TestsForm
<1>10. \A e \in Range(p) : e \in Range(L[reminders_list])
  <2>1. PICK o \in Seq(Embedded) : L[reminders_list] = o \o t /\ Range(o) = Range(p) \cup {here}
    BY DEF Ahead
  <2>2. Rings!Range(o \o t) = Rings!Range(o) \cup Rings!Range(t)
    BY HeadsAreNoEntries, Rings!CatIs DEF Ahead, Place
  <2>3. QED
    BY <2>1, <2>2, SameFunctions
<1>11. \A e \in Range(p) \cup {here} :
         BlockOf(e) \in Reminders(h) /\ k.block[BlockOf(e)].ellapse_time <= Left(c + 1)
  <2> SUFFICES ASSUME NEW e \in Range(p) \cup {here}
               PROVE  BlockOf(e) \in Reminders(h) /\ k.block[BlockOf(e)].ellapse_time <= Left(c + 1)
    OBVIOUS
  <2>1. BlockOf(e) \in Reminders(h)
    BY <1>2, <1>10 DEF Data, InQueue, r
  <2>2. CASE BlockOf(e) = r
    BY <1>6, <1>7, <2>1, <2>2, TickPositions
  <2>3. CASE BlockOf(e) # r
    <3>1. e \in Range(p)
      BY <2>3 DEF r
    <3>2. h.block[BlockOf(e)].ellapse_time <= Left(c + 1)
      BY <3>1 DEF Ahead, Behind
    <3>3. QED
      BY <1>7, <2>1, <2>3, <3>2
  <2>4. QED
    BY <2>2, <2>3
<1>12. CASE k.block[r].ellapse_time # 0
  <2>1. h2 = k
    BY <1>3, <1>12
  <2>2. TestsForm(k, c)
    BY <1>1, <1>7, <1>8, <1>9, <1>12, TickPositions DEF TestsForm
  <2>3. HaveUsers(k, c, First(t, reminders_list))
    BY <1>7, <1>8 DEF HaveUsers
  <2>4. QED
    BY <1>1, <1>5, <1>11, <2>1, <2>2, <2>3, VisitedStays
<1>13. CASE k.block[r].ellapse_time = 0
  <2>1. h2 = Expired(k, r)
    BY <1>3, <1>13
  <2>2. Place(L, reminders_list, p, Queued(r), t)
    BY <1>2 DEF Ahead
  <2>3. (\E L2 : Data(h2, L2) /\ L2[reminders_list] = p \o t) /\ Shrunk(k, h2, r)
    BY <1>2, <1>5, <1>7, <1>8, <2>1, <2>2, ExpiredRemoved
  <2>4. PICK L2 : Data(h2, L2) /\ L2[reminders_list] = p \o t
    BY <2>3
  <2>5. /\ Users(h2) = Users(h) /\ Reminders(h2) = Reminders(h) \ {r}
        /\ \A b \in Users(h2) \cup Reminders(h2) : h2.block[b] = k.block[b]
    BY <1>2, <1>7, <2>3, BlocksAre DEF Shrunk, Users, Reminders
  <2>6. TestsForm(h2, c)
    BY <1>1, <1>7, <1>8, <1>9, <2>5, TickPositions DEF TestsForm
  <2>7. HaveUsers(h2, c, First(t, reminders_list))
    BY <1>7, <1>8, <2>5 DEF HaveUsers
  <2>8. Behind(h2, c, p)
    <3>1. \A e \in Range(p) : e \in Range(L2[reminders_list])
      <4>1. Rings!Range(p \o t) = Rings!Range(p) \cup Rings!Range(t)
        BY HeadsAreNoEntries, Rings!CatIs DEF Ahead, Place
      <4>2. QED
        BY <2>4, <4>1, SameFunctions
    <3>2. \A e \in Range(p) : BlockOf(e) \in Reminders(h2)
      BY <2>4, <3>1 DEF Data, InQueue
    <3>3. QED
      BY <1>1, <1>11, <2>5, <3>2 DEF Behind
  <2>9. QED
    BY <1>1, <2>4, <2>6, <2>7, <2>8, VisitedGone
<1>14. QED
  BY <1>12, <1>13

LEMMA WalkGoesOnHolds ==
  ASSUME TestsInv, WalkGoesOn, test_call <= Len(Tests)
  PROVE  TestsInv'
<1> DEFINE h == heap
           h2 == heap'
           c == test_call
           here == pos
           g == Walked(Tests[c])
<1>1. PICK L : Holds(h, L, c, here)
  BY DEF TestsInv
<1>2. /\ here # NoWalk /\ here # g /\ pos' = h.next[here] /\ test_call' = c
      /\ \/ Kind(c) = "remove" /\ h2 = RemoveUser(h, here, Tests[c][2])
         \/ Kind(c) \in {"users", "reminders"} /\ h2 = EntryFreed(h, here)
         \/ Kind(c) = "tick" /\ h2 = HandleTimerTick(h, here)
  BY DEF WalkGoesOn, VisitEntry, Kind
<1>3. c \in WalkAt /\ \E p, t : Ahead(h, L, c, g, p, here, t)
  <2> HIDE DEF h, c, here
  <2> QED
    BY <1>1, <1>2, WalkPlace
<1>4. PICK p, t : Ahead(h, L, c, g, p, here, t)
  BY <1>3
<1>5. h.next[here] = First(t, g)
  BY <1>4 DEF Ahead
<1> SUFFICES \E L2 : Holds(h2, L2, c, First(t, g))
  BY <1>2, <1>5 DEF TestsInv
<1> HIDE DEF h, h2, c, here
<1>6. c \in 1 .. 39 /\ g = IF c \in {4} \cup UsersAt THEN users_list ELSE reminders_list
  BY <1>3, WalkedIs
<1> HIDE DEF g
<1>7. /\ Kind(c) = "remove" <=> c = 4
      /\ Kind(c) = "users" <=> c \in UsersAt
      /\ Kind(c) = "reminders" <=> c \in RemindersAt
      /\ Kind(c) = "tick" <=> c \in TickAt
  BY <1>6, KindsAre
<1>8. CASE c \in {4} \cup UsersAt /\ h2 = EntryFreed(h, here)
  <2>1. g = users_list
    BY <1>6, <1>8
  <2>2. QED
    BY <1>1, <1>4, <1>8, <2>1, UserVisited
<1>9. CASE c = 4 /\ h2 = h
  <2>1. c \notin UsersAt /\ c \notin RemindersAt /\ c \notin TickAt
    BY <1>9 DEF UsersAt, RemindersAt, TickAt
  <2>2. Data(h, L) /\ TestsForm(h, c)
    BY <1>1 DEF Holds
  <2>3. Reminders(h) = {}
    BY <1>9, <2>2 DEF TestsForm
  <2>4. HaveUsers(h, c, First(t, g))
    BY <2>3 DEF HaveUsers
  <2>5. Holds(h, L, c, First(t, g))
    BY <1>3, <1>4, <2>1, <2>2, <2>4, VisitedStays DEF g
  <2>6. QED
    BY <1>9, <2>5
<1>10. CASE c \in RemindersAt /\ h2 = EntryFreed(h, here)
  <2>1. g = reminders_list
    BY <1>6, <1>10 DEF UsersAt, RemindersAt
  <2>2. QED
    BY <1>1, <1>4, <1>10, <2>1, ReminderVisited
<1>11. CASE c \in TickAt /\ h2 = HandleTimerTick(h, here)
  <2>1. g = reminders_list
    BY <1>6, <1>11 DEF UsersAt, TickAt
  <2>2. QED
    BY <1>1, <1>4, <1>11, <2>1, TickVisited
<1>12. CASE Kind(c) = "remove" /\ h2 = RemoveUser(h, here, Tests[c][2])
  <2>1. c = 4
    BY <1>7, <1>12
  <2>2. h2 = EntryFreed(h, here) \/ h2 = h
    BY <1>12 DEF RemoveUser
  <2>3. QED
    BY <1>8, <1>9, <2>1, <2>2
<1>13. CASE Kind(c) \in {"users", "reminders"} /\ h2 = EntryFreed(h, here)
  <2>1. c \in UsersAt \/ c \in RemindersAt
    BY <1>7, <1>13
  <2>2. QED
    BY <1>8, <1>10, <1>13, <2>1
<1>14. QED
  BY <1>2, <1>7, <1>11, <1>12, <1>13 DEF h2, h, here, c

LEMMA WalkPositions ==
  ASSUME NEW c \in WalkAt
  PROVE  /\ c + 1 \in 1 .. 40 /\ c \in 1 .. 39
         /\ c + 1 \in 1 .. 5 \cup 13 .. 24 => c \in {4} \cup RemindersAt \cup {22}
         /\ c \in {22} => c \in 1 .. 5 \cup 13 .. 24
         /\ c = 4 => c \in 1 .. 5 \cup 13 .. 24
         /\ c + 1 \in RemindersAt => c \in UsersAt
         /\ c + 1 >= 23 => c >= 23 \/ c \in UsersAt
         /\ c + 1 >= 30 => c \in RemindersAt \cup TickAt
         /\ c \in TickAt => c >= 30
BY DEF WalkAt, UsersAt, RemindersAt, TickAt

LEMMA WalkEndsHolds ==
  ASSUME TestsInv, WalkEnds, test_call <= Len(Tests)
  PROVE  TestsInv'
<1> DEFINE h == heap
           c == test_call
           here == pos
           g == Walked(Tests[c])
<1>1. PICK L : Holds(h, L, c, here)
  BY DEF TestsInv
<1>2. here = g /\ heap' = h /\ pos' = NoWalk /\ test_call' = c + 1 /\ c <= Len(Tests)
  BY DEF WalkEnds
<1> SUFFICES Holds(h, L, c + 1, NoWalk)
  BY <1>2 DEF TestsInv
<1>3. g # NoWalk
  <2>1. g = users_list \/ g = reminders_list
    BY DEF Walked
  <2>2. users_list \in Heads /\ reminders_list \in Heads
    BY DEF Heads
  <2>3. QED
    BY <2>1, <2>2, NodesAre, HeadsAndEntries
<1>4. Data(h, L) /\ TestsForm(h, c) /\ HaveUsers(h, c, here) /\ WalkForm(h, L, c, here)
  BY <1>1 DEF Holds
<1> HIDE DEF h, c, here, g
<1>5. /\ c \in WalkAt
      /\ \E p \in Seq(Embedded), t \in Seq(Embedded) :
           L[g] = p \o t /\ here = First(t, g) /\ Behind(h, c, p)
  BY <1>2, <1>3, <1>4 DEF WalkForm, g
<1>6. g \in Heads /\ g = IF c \in {4} \cup UsersAt THEN users_list ELSE reminders_list
  BY <1>5, WalkedIs DEF g
<1>7. PICK p \in Seq(Embedded), t \in Seq(Embedded) :
        L[g] = p \o t /\ here = First(t, g) /\ Behind(h, c, p)
  BY <1>5
<1>8. L[g] = p
  <2>1. t = << >>
    BY <1>2, <1>6, <1>7, FirstIs
  <2>2. QED
    BY <1>7, <2>1, ConcatEmptySeq
<1>9. c \in UsersAt => Users(h) = {}
  BY <1>4, <1>6, <1>7, <1>8, EmptyLists DEF Behind
<1>10. c \in RemindersAt => Reminders(h) = {}
  <2>1. c \in RemindersAt => c \notin {4} \cup UsersAt
    BY DEF RemindersAt, UsersAt
  <2>2. QED
    BY <1>4, <1>6, <1>7, <1>8, <2>1, EmptyLists DEF Behind
<1>11. c \in TickAt => \A r \in Reminders(h) : h.block[r].ellapse_time <= Left(c + 1)
  <2> SUFFICES ASSUME c \in TickAt, NEW r \in Reminders(h)
               PROVE  h.block[r].ellapse_time <= Left(c + 1)
    OBVIOUS
  <2>1. c \notin {4} \cup UsersAt
    BY TickPositions
  <2>2. Queued(r) \in Range(L[reminders_list]) /\ BlockOf(Queued(r)) = r
    BY <1>4, FieldsAre DEF Data, InQueue, Reminders
  <2>3. Queued(r) \in Range(p)
    BY <1>6, <1>8, <2>1, <2>2
  <2>4. QED
    BY <1>7, <2>2, <2>3 DEF Behind
<1>12. TestsForm(h, c + 1)
  <2>1. c + 1 \in 1 .. 5 \cup 13 .. 24 => Reminders(h) = {}
    BY <1>4, <1>5, <1>10, WalkPositions DEF TestsForm
  <2>2. c + 1 \in RemindersAt => Users(h) = {}
    BY <1>5, <1>9, WalkPositions
  <2>3. c + 1 >= 23 => \A u \in Users(h) : h.block[u].user_name = user1
    BY <1>4, <1>5, <1>9, WalkPositions DEF TestsForm
  <2>4. c + 1 >= 30 => \A r \in Reminders(h) :
          1 <= h.block[r].ellapse_time /\ h.block[r].ellapse_time <= Left(c + 1)
    <3>1. CASE c \in RemindersAt
      BY <1>10, <3>1
    <3>2. CASE c \in TickAt
      <4>1. c >= 30
        BY <1>5, <3>2, WalkPositions
      <4>2. QED
        BY <1>4, <1>11, <3>2, <4>1 DEF TestsForm
    <3>3. QED
      BY <1>5, <3>1, <3>2, WalkPositions
  <2>5. QED
    BY <2>1, <2>2, <2>3, <2>4 DEF TestsForm
<1>13. HaveUsers(h, c + 1, NoWalk)
  <2>1. CASE c \in RemindersAt
    BY <1>10, <2>1 DEF HaveUsers
  <2>2. CASE c \in UsersAt /\ c + 1 \in RemindersAt
    BY <2>2 DEF HaveUsers
  <2>3. CASE c \in UsersAt /\ c + 1 \notin RemindersAt
    <3>1. c = 22
      BY <2>3 DEF UsersAt, RemindersAt
    <3>2. c \in 1 .. 5 \cup 13 .. 24
      BY <3>1
    <3>3. Reminders(h) = {}
      BY <1>4, <3>2 DEF TestsForm
    <3>4. QED
      BY <3>3 DEF HaveUsers
  <2>4. CASE c \notin RemindersAt \cup UsersAt
    BY <1>1, <2>4, AllHaveUsers DEF HaveUsers, h, c
  <2>5. QED
    BY <2>1, <2>2, <2>3, <2>4
<1>14. c + 1 \in 1 .. 40 /\ WalkForm(h, L, c + 1, NoWalk)
  BY <1>5, WalkPositions DEF WalkForm
<1>15. QED
  BY <1>4, <1>12, <1>13, <1>14 DEF Holds

(***************************************************************************)
(* What the invariant is for.                                              *)
(***************************************************************************)
LEMMA InvariantProtects == TestsInv => TestsStayInTheirMemory
<1> SUFFICES ASSUME TestsInv PROVE TestsStayInTheirMemory
  OBVIOUS
<1> DEFINE h == heap
           c == test_call
           here == pos
           over == c > Len(Tests)
           g == Walked(Tests[c])
<1>1. PICK L : Holds(h, L, c, here)
  BY DEF TestsInv
<1>2. Data(h, L) /\ HasRings(h, L) /\ Kept(h)
  BY <1>1 DEF Holds, Data, HasRings, HeapForm
<1>3. c \in 1 .. 40 /\ (over <=> c = 40) /\ (~over => c \in 1 .. 39)
  <2>1. c \in 1 .. 40
    BY <1>1 DEF Holds
  <2> HIDE DEF c
  <2>2. QED
    BY <2>1, TestsAre
<1>4. ASSUME NEW f \in {users_list, reminders_list} \cup {NotificationsList(u) : u \in Users(h)}
      PROVE  Comes(h, f) /\ \A e \in Range(Entries(h, f)) : ~IsFreed(h, e)
  <2>1. f \in Heads /\ Entries(h, f) = L[f] /\ Comes(h, f)
    BY <1>2, TheLists
  <2>2. \A e \in Range(L[f]) : Live(h, e)
    BY <1>2, <2>1 DEF HasRings
  <2>3. QED
    BY <2>1, <2>2 DEF Live
<1>5. here # NoWalk => ~over /\ here \in Range(Entries(h, g)) \cup {g}
  <2> SUFFICES ASSUME here # NoWalk, here # g PROVE ~over /\ here \in Range(Entries(h, g))
    <3>1. here # NoWalk => c \in WalkAt
      BY <1>1 DEF Holds, WalkForm
    <3>2. c \in WalkAt => ~over
      <4> HIDE DEF c
      <4> QED
        BY <1>3, WalkedIs
    <3>3. QED
      BY <3>1, <3>2
  <2> HIDE DEF h, c, here
  <2>1. c \in WalkAt /\ \E p, t : Ahead(h, L, c, g, p, here, t)
    BY <1>1, WalkPlace
  <2>2. here \in Range(L[g])
    BY <2>1 DEF Ahead
  <2>3. g = users_list \/ g = reminders_list
    BY <2>1, WalkedIs
  <2>4. Entries(h, g) = L[g]
    BY <1>2, <2>3, TheLists
  <2>5. ~over
    BY <1>3, <2>1, WalkedIs
  <2>6. QED
    BY <2>2, <2>4, <2>5
<1>6. \A e \in Range(Entries(h, reminders_list)) :
        \/ h.block[BlockOf(e)].belongs_to \in Users(h)
        \/ ~over /\ Kind(c) = "users" /\ here # NoWalk
        \/ ~over /\ Kind(c) = "reminders"
  <2> HIDE DEF h, c, here
  <2>1. Entries(h, reminders_list) = L[reminders_list]
    BY <1>2, TheLists
  <2>2. \A e \in Range(L[reminders_list]) : BlockOf(e) \in Reminders(h)
    BY <1>2 DEF Data, InQueue
  <2>3. \A r \in Reminders(h) :
          h.block[r].belongs_to \in Users(h) \/ c \in RemindersAt \/ (c \in UsersAt /\ here # NoWalk)
    BY <1>1 DEF Holds, HaveUsers
  <2>4. c \in RemindersAt \cup UsersAt => ~over
    BY <1>3 DEF RemindersAt, UsersAt
  <2>5. /\ c \in RemindersAt => Kind(c) = "reminders"
        /\ c \in UsersAt => Kind(c) = "users"
    BY <1>3, <2>4, KindsAre
  <2>6. QED
    BY <2>1, <2>2, <2>3, <2>4, <2>5
<1>7. over => \A b \in DOMAIN h.block : b \in UserBlocks /\ h.block[b].user_name = user1
  <2> SUFFICES ASSUME over PROVE \A b \in DOMAIN h.block : b \in UserBlocks /\ h.block[b].user_name = user1
    OBVIOUS
  <2>1. c = 40
    BY <1>3
  <2>2. TestsForm(h, 40) /\ DataForm(h)
    BY <1>1, <1>2, <2>1 DEF Holds, Data
  <2> HIDE DEF h
  <2>3. Reminders(h) = {}
    <3>1. \A r \in Reminders(h) :
            1 <= h.block[r].ellapse_time /\ h.block[r].ellapse_time <= 0 /\ h.block[r].ellapse_time \in Int
      <4>1. 40 >= 30 /\ Left(40) = 0
        BY DEF Left
      <4>2. \A r \in Reminders(h) : 1 <= h.block[r].ellapse_time /\ h.block[r].ellapse_time <= Left(40)
        BY <2>2, <4>1 DEF TestsForm
      <4>3. \A r \in Reminders(h) : h.block[r].ellapse_time \in Int
        BY <2>2 DEF DataForm
      <4>4. QED
        BY <4>1, <4>2, <4>3
    <3>2. QED
      BY <3>1
  <2>4. DOMAIN h.block \subseteq UserBlocks \cup ReminderBlocks
    BY <1>2 DEF HasRings, HeapForm
  <2>5. \A u \in Users(h) : h.block[u].user_name = user1
    BY <2>2 DEF TestsForm
  <2>6. QED
    BY <2>3, <2>4, <2>5 DEF Users, Reminders
<1>8. \A x \in Nodes : IsFreed(h, x) => h.next[x] = InFreedMemory /\ h.prev[x] = InFreedMemory
  BY <1>2 DEF Kept
<1>9. QED
  BY <1>4, <1>5, <1>6, <1>7, <1>8 DEF TestsStayInTheirMemory, Users, Kind

(* No step of the tests breaks the invariant.                              *)
LEMMA StepHolds == TestsInv /\ [RemindersNext]_reminderTestVars => TestsInv'
<1> SUFFICES ASSUME TestsInv, [RemindersNext]_reminderTestVars PROVE TestsInv'
  OBVIOUS
<1>1. CASE CallMade /\ test_call <= Len(Tests)
  BY <1>1, CallMadeHolds
<1>2. CASE WalkStarts /\ test_call <= Len(Tests)
  BY <1>2, WalkStartsHolds
<1>3. CASE WalkGoesOn /\ test_call <= Len(Tests)
  BY <1>3, WalkGoesOnHolds
<1>4. CASE WalkEnds /\ test_call <= Len(Tests)
  BY <1>4, WalkEndsHolds
<1>5. CASE UNCHANGED reminderTestVars
  BY <1>5 DEF TestsInv, reminderTestVars
<1>6. QED
  BY <1>1, <1>2, <1>3, <1>4, <1>5 DEF RemindersNext

(***************************************************************************)
(* The tests of kernel_module/tests.h, run on the list_heads in memory,    *)
(* never write to a block that kfree has taken back, and no list leads     *)
(* there, whatever kmalloc gives or refuses: also where cleanup_users has  *)
(* freed the user that a reminder still belongs to, and where              *)
(* handle_timer_tick frees the entry that its list_for_each_safe is on.    *)
(***************************************************************************)
THEOREM NoTestTouchesFreedMemory == RemindersSpec => []TestsStayInTheirMemory
<1>1. RemindersInit => TestsInv
  BY InitHolds
<1>2. TestsInv /\ [RemindersNext]_reminderTestVars => TestsInv'
  BY StepHolds
<1>3. TestsInv => TestsStayInTheirMemory
  BY InvariantProtects
<1>4. QED
  BY <1>1, <1>2, <1>3, PTL DEF RemindersSpec
=============================================================================
