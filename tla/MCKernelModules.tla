--------------------------- MODULE MCKernelModules ---------------------------
(***************************************************************************)
(* The kernel modules of the course, side by side; the string converter,   *)
(* the largest, has a run of its own.  They share nothing: one of them is  *)
(* in use, the others stay as they are, so that a single run of the model  *)
(* checker explores them all.                                              *)
(***************************************************************************)
EXTENDS Messenger, ProcFiles, TimeTrack, Currency,
        CharDevices, DeferredWork, ClockDriver, KernelReminders

VARIABLE module

vars == <<module, messengerVars, procVars, trackerVars, currencyVars,
        charVars, workVars, clockVars, reminderTestVars>>

Init ==
  /\ module \in {"Messenger", "ProcFiles", "TimeTrack", "Currency",
                "CharDevices", "DeferredWork", "ClockDriver", "KernelReminders"}
  /\ MessengerInit
  /\ ProcInit
  /\ TrackerInit
  /\ CurrencyInit
  /\ CharInit
  /\ WorkInit
  /\ ClockInit
  /\ RemindersInit

Next ==
  \/ /\ module = "Messenger" /\ MessengerNext
     /\ UNCHANGED <<module, procVars, trackerVars, currencyVars, charVars,
                    workVars, clockVars, reminderTestVars>>
  \/ /\ module = "ProcFiles" /\ ProcNext
     /\ UNCHANGED <<module, messengerVars, trackerVars, currencyVars,
                    charVars, workVars, clockVars, reminderTestVars>>
  \/ /\ module = "TimeTrack" /\ TrackerNext
     /\ UNCHANGED <<module, messengerVars, procVars, currencyVars, charVars,
                    workVars, clockVars, reminderTestVars>>
  \/ /\ module = "Currency" /\ CurrencyNext
     /\ UNCHANGED <<module, messengerVars, procVars, trackerVars, charVars,
                    workVars, clockVars, reminderTestVars>>
  \/ /\ module = "CharDevices" /\ CharNext
     /\ UNCHANGED <<module, messengerVars, procVars, trackerVars,
                    currencyVars, workVars, clockVars, reminderTestVars>>
  \/ /\ module = "DeferredWork" /\ WorkNext
     /\ UNCHANGED <<module, messengerVars, procVars, trackerVars,
                    currencyVars, charVars, clockVars, reminderTestVars>>
  \/ /\ module = "ClockDriver" /\ ClockNext
     /\ UNCHANGED <<module, messengerVars, procVars, trackerVars,
                    currencyVars, charVars, workVars, reminderTestVars>>
  \/ /\ module = "KernelReminders" /\ RemindersNext
     /\ UNCHANGED <<module, messengerVars, procVars, trackerVars,
                    currencyVars, charVars, workVars, clockVars>>

Spec == Init /\ [][Next]_vars

-----------------------------------------------------------------------------
(* Values for the constants.                                              *)

CONSTANTS p1, p2

TwoProcesses == {p1, p2}
\* Nothing in the modules depends on which process it is.
ProcessSymmetry == Permutations(TwoProcesses)

SomeNumbers == {-7, 0, 1, 10}
SomeFactors == {-2, 0, 3, 31}

SomeMinorRanges == {<<0, 3>>, <<1, 3>>, <<2, 2>>}
TwoJobs == {1, 2}

ThreeBlocks == 1 .. 3
FiveBlocks == 4 .. 8
=============================================================================
