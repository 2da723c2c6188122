----------------------------- MODULE ClockDriver -----------------------------
(***************************************************************************)
(* The driver of the DS3231 clock (exercise12/ds3231_driver.c): a show of  *)
(* ds_time or ds_temp first reads the registers of the chip, one by one,   *)
(* into ds_data, which all shows share, while the chip goes on counting.   *)
(*                                                                         *)
(* The chip counts Base seconds to a minute, Base minutes to an hour and   *)
(* Base hours to a day.  The temperature is left out.                      *)
(***************************************************************************)
EXTENDS Kernel, Sequences

CONSTANTS
  Base,          \* 60, 60 and 24
  MaxSeconds     \* bound: how long the chip runs into an hour

ASSUME ClockAssumption == Base \in Nat \ {0, 1} /\ MaxSeconds \in Nat

VARIABLES
  ds3231,        \* how far the module is loaded; "stale" after a load that failed halfway
  drv_client,    \* whether the chip has been probed and not removed
  chip,          \* seconds since the start of some day
  ds_data,       \* sec, min, hour
  show           \* of each process: the registers it still has to read, and a history

clockVars == <<ds3231, drv_client, chip, ds_data, show>>

OutOfOrder == <<"hour", "min", "sec">>  \* mutant: the largest first
Order == <<"sec", "min", "hour">>

Register(r, time) ==
  CASE r = "sec" -> time % Base
    [] r = "min" -> (time \div Base) % Base
    [] OTHER -> (time \div (Base * Base)) % Base

DayLength == Base * Base * Base
TimeOf(data) == data.sec + Base * data.min + Base * Base * data.hour
NoShow == [reads |-> << >>, on |-> FALSE, since |-> 0, alone |-> TRUE]
\* The history of a show ends when it meets another or an error.
Met(s) == IF s.on THEN [s EXCEPT !.since = 0, !.alone = FALSE] ELSE s

ClockInit ==
  /\ ds3231 = "absent" /\ drv_client = FALSE
  /\ chip = 0
  /\ ds_data = [sec |-> 0, min |-> 0, hour |-> 0]
  /\ show = [p \in Process |-> NoShow]

ChipCounts ==
  /\ ds3231 # "absent" /\ chip % (Base * Base) # MaxSeconds
  /\ chip' = chip + 1
  /\ UNCHANGED <<ds3231, drv_client, ds_data, show>>

-----------------------------------------------------------------------------
(* Loading, and the chip that comes and goes.                              *)

\* i2c_add_driver, shortly before an hour or a day ends.
AddDriver ==
  /\ ds3231 = "absent" /\ ds3231' = "driver"
  /\ chip' \in {Base * Base - 2, DayLength - 2}
  /\ UNCHANGED <<drv_client, ds_data, show>>

\* The class and its two files, which differ in what they print only.  When
\* one of them fails the driver stays registered, though the module goes.
CreateAttributes ==
  /\ ds3231 = "driver" /\ ds3231' \in {"loaded", "stale"}
  /\ UNCHANGED <<drv_client, chip, ds_data, show>>

\* ds3231_probe reads the registers, too (in one step here).
Probe ==
  /\ ds3231 \in {"driver", "loaded"} /\ ~drv_client
  /\ drv_client' = TRUE
  /\ ds_data' = [r \in {"sec", "min", "hour"} |-> Register(r, chip)]
  /\ show' = [p \in Process |-> Met(show[p])]
  /\ UNCHANGED <<ds3231, chip>>

RemoveClient ==
  /\ drv_client /\ drv_client' = FALSE
  /\ UNCHANGED <<ds3231, chip, ds_data, show>>

\* ds3231_exit: the attributes wait for their shows, the driver leaves the chip.
UnloadDriver ==
  /\ ds3231 = "loaded" /\ \A p \in Process : ~show[p].on
  /\ ds3231' = "absent" /\ drv_client' = FALSE
  /\ ds_data' = [sec |-> 0, min |-> 0, hour |-> 0]
  /\ UNCHANGED <<chip, show>>

-----------------------------------------------------------------------------
(* A show.                                                                 *)

\* ds_read_data takes the client once; without one it reads nothing.
BeginShow(p) ==
  /\ ds3231 = "loaded" /\ ~show[p].on
  /\ LET company == {q \in Process : show[q].on}
     IN show' = [q \in Process |->
          IF q # p THEN Met(show[q])
          ELSE LET new == [reads |-> IF drv_client THEN Order ELSE << >>, on |-> TRUE,
                           since |-> chip, alone |-> TRUE]
               IN IF drv_client /\ company = {} THEN new ELSE Met(new)]
  /\ UNCHANGED <<ds3231, drv_client, chip, ds_data>>

\* i2c_smbus_read_byte_data: the register, or an error code, kept as if it
\* were a time (its history is no longer that of a show by itself).
ReadRegister(p) ==
  /\ show[p].reads # << >>
  /\ LET r == Head(show[p].reads)
     IN \/ /\ drv_client
           /\ ds_data' = [ds_data EXCEPT ![r] = Register(r, chip)]
           /\ show' = [show EXCEPT ![p].reads = Tail(@)]
        \/ /\ ds_data' = [ds_data EXCEPT ![r] = Base]
           /\ show' = [show EXCEPT ![p] = [Met(show[p]) EXCEPT !.reads = Tail(show[p].reads)]]
  /\ UNCHANGED <<ds3231, drv_client, chip>>

\* ds_time_show prints what is there.
EndShow(p) ==
  /\ show[p].on /\ show[p].reads = << >>
  /\ show' = [show EXCEPT ![p] = NoShow]
  /\ UNCHANGED <<ds3231, drv_client, chip, ds_data>>

ClockNext ==
  \/ ChipCounts \/ AddDriver \/ CreateAttributes \/ Probe \/ RemoveClient \/ UnloadDriver
  \/ \E p \in Process : BeginShow(p) \/ ReadRegister(p) \/ EndShow(p)

ClockSpec == ClockInit /\ [][ClockNext]_clockVars

-----------------------------------------------------------------------------
(* The property.                                                           *)

\* What a show prints that read the chip without an error and without another
\* show is not behind the time when it began, less than an hour ahead of the
\* time when it prints, and not ahead at all if the minute has not changed
\* in between: a torn time is never an old one.  (The day is not told.)
ShownTimeIsNotBehind ==
  \A p \in Process :
    LET from == show[p].since
        ahead == (TimeOf(ds_data) - from) % DayLength
    IN show[p].on /\ show[p].reads = << >> /\ show[p].alone =>
         /\ ahead < (chip - from) + Base * Base
         /\ from \div Base = chip \div Base => ahead <= chip - from
=============================================================================
