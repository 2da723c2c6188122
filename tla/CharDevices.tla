----------------------------- MODULE CharDevices -----------------------------
(***************************************************************************)
(* The character devices of exercise 11: one that only one process may     *)
(* have open (part 1, fixdev.c), and one that makes its own nodes under    *)
(* /dev (part 2, dyndev.c; in part 1 the minors are 0, 1 and 2).  What     *)
(* they give a reader, dev_read, depends on the open file alone and is     *)
(* left out.                                                               *)
(***************************************************************************)
EXTENDS Kernel, FiniteSets

CONSTANTS
  MinorRanges    \* pairs of the parameters devices_minor_min, devices_minor_max

\* Minor numbers are not negative.
ASSUME CharDevicesAssumption == MinorRanges \subseteq Nat \X Nat

VARIABLES
  device_open,   \* of fixdev.c
  opener,        \* of each process: its step in dev_open or dev_release, the count it loaded
  raced,         \* history: an open began between the test and the count of another
  dyn,           \* of dyndev.c: "absent", "region", "nodes", "loaded", "removing", "oops"
  minors,        \* its parameters, chosen when it is loaded
  region,        \* the minors it drives
  nodes,         \* the minors that have a node
  devclass       \* whether its class could be created

fixVars == <<device_open, opener, raced>>
dynVars == <<dyn, minors, region, nodes, devclass>>
charVars == <<device_open, opener, raced, dyn, minors, region, nodes, devclass>>

Closed == [at |-> "closed", count |-> 0]

CharInit ==
  /\ device_open = 0 /\ raced = FALSE
  /\ opener = [p \in Process |-> Closed]
  /\ dyn = "absent" /\ minors = <<0, 0>>
  /\ region = {} /\ nodes = {} /\ devclass = FALSE

-----------------------------------------------------------------------------
(* The exclusive device.                                                   *)

At(p, at, count) == opener' = [opener EXCEPT ![p] = [at |-> at, count |-> count]]

BusyNever == FALSE                      \* mutant: the test is missing
Busy == device_open # 0

\* dev_open: the test; the rest follows at some later time.
OpenDevice(p) ==
  /\ opener[p].at = "closed"
  /\ IF Busy THEN UNCHANGED opener ELSE At(p, "tested", 0)
  /\ raced' = (raced \/ (~Busy /\ \E q \in Process : opener[q].at \in {"tested", "counting"}))
  /\ UNCHANGED device_open

\* device_open++ and device_open--: loaded, then stored.
LoadCount(p) ==
  /\ opener[p].at \in {"tested", "leaving"}
  /\ IF opener[p].at = "tested" THEN At(p, "counting", device_open + 1)
     ELSE At(p, "uncounting", device_open - 1)
  /\ UNCHANGED <<device_open, raced>>

StoreCount(p) ==
  /\ opener[p].at \in {"counting", "uncounting"}
  /\ device_open' = opener[p].count
  /\ At(p, IF opener[p].at = "counting" THEN "open" ELSE "closed", 0)
  /\ UNCHANGED raced

ReleaseDevice(p) ==
  /\ opener[p].at = "open"
  /\ At(p, "leaving", 0)
  /\ UNCHANGED <<device_open, raced>>

-----------------------------------------------------------------------------
(* The device with nodes.                                                  *)

\* dev_init up to cdev_add; a device that is refused gives its region back.
AddRegion ==
  /\ dyn = "absent" /\ dyn' = "region"
  /\ minors' \in MinorRanges
  /\ region' = {minors'[1] + i : i \in 0 .. minors'[2] - 1}
  /\ UNCHANGED <<nodes, devclass>>

\* The loop; without a class no device is created, and nobody looks.
CreateNodes ==
  /\ dyn = "region" /\ dyn' = "loaded"
  /\ devclass' \in BOOLEAN
  /\ nodes' = IF devclass' THEN {minors[1] + i : i \in minors[1] .. minors[2] - 1} ELSE {}
  /\ UNCHANGED <<minors, region>>

\* dev_exit: the nodes, of a class that may be none, then the region.
DestroyNodes ==
  /\ dyn = "loaded"
  /\ dyn' = IF devclass \/ minors[1] >= minors[2] THEN "removing" ELSE "oops"
  /\ nodes' = nodes \ {minors[1] + i : i \in minors[1] .. minors[2] - 1}
  /\ UNCHANGED <<minors, region, devclass>>

DropRegion ==
  /\ dyn = "removing" /\ dyn' = "absent"
  /\ region' = {} /\ devclass' = FALSE
  /\ UNCHANGED <<minors, nodes>>

CharNext ==
  \/ /\ \E p \in Process :
          \/ OpenDevice(p) \/ LoadCount(p) \/ StoreCount(p) \/ ReleaseDevice(p)
     /\ UNCHANGED dynVars
  \/ /\ AddRegion \/ CreateNodes \/ DestroyNodes \/ DropRegion
     /\ UNCHANGED fixVars

CharSpec == CharInit /\ [][CharNext]_charVars

-----------------------------------------------------------------------------
(* The property.                                                           *)

\* Unless an open once began between the test and the count of another, the
\* device is with one process at a time, and the count returns to zero when
\* it is closed: nobody is locked out for ever.  Every node has its driver,
\* although nodes and region are counted from different ends.
OneHolderAndNodesDriven ==
  /\ ~raced =>
       /\ Cardinality({p \in Process : opener[p].at # "closed"}) <= 1
       /\ (\A p \in Process : opener[p].at = "closed") => device_open = 0
  /\ nodes \subseteq region
=============================================================================
