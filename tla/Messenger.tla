------------------------------ MODULE Messenger ------------------------------
(***************************************************************************)
(* The messenger device of task 6 (module_main.c, sysfs_handler.c): a      *)
(* write leaves a message in a buffer, a read takes it away, the sysfs     *)
(* file clears it.  No call takes a lock.                                  *)
(*                                                                         *)
(* The length of the message, chardev_buffer_rw_holder, is read again at   *)
(* every use, and a write may or may not store it before it has been cut   *)
(* to the buffer: both are code a compiler can produce from this race.     *)
(* The file position stays zero, so that every read starts at the first    *)
(* character (a pread elsewhere reads nothing, and is left out).           *)
(***************************************************************************)
EXTENDS Kernel, Sequences, SequencesExt

CONSTANTS
  BufferBytes,   \* memory_buffer_size
  Lengths,       \* how long a message or the buffer of a read may be
  MaxMessages    \* bound: how many writes are begun

ASSUME MessengerAssumption ==
  /\ BufferBytes \in Nat \ {0} /\ Lengths \subseteq Nat \ {0}
  /\ MaxMessages \in Nat

VARIABLES
  messenger,     \* of the module: "absent", "status" (being loaded), "ready", "oops"
  chardev_buffer_rw_holder,
  device_memory_buffer,    \* << >> if there is none
  remaining_size,          \* what the status files show
  total_messages_count,
  in_call,       \* of each caller: what it does, and its arguments and registers
  begun,         \* history: how many writes have begun
  mailbox,       \* history: what a mailbox with one call at a time would hold, or Mixed
  answer         \* history: what the last read by itself returned, and that mailbox would have

messengerVars == <<messenger, chardev_buffer_rw_holder, device_memory_buffer, remaining_size,
                   total_messages_count, in_call, begun, mailbox, answer>>
device == <<messenger, begun>>
status == <<remaining_size, total_messages_count>>
history == <<mailbox, answer>>

Mixed == << "mixed" >>
Doing(at, letter, asked, length) ==
  [at |-> at, alone |-> TRUE, letter |-> letter, asked |-> asked, length |-> length, count |-> 0]
Out == Doing("none", Nul, 0, 0)

MessengerInit ==
  /\ messenger = "absent"
  /\ chardev_buffer_rw_holder = 0
  /\ device_memory_buffer = << >>
  /\ remaining_size = 0 /\ total_messages_count = 0
  /\ in_call = [p \in Process |-> Out]
  /\ begun = 0
  /\ mailbox = << >> /\ answer = [got |-> << >>, wanted |-> << >>]

-----------------------------------------------------------------------------
(* Loading.  The device can be used before the status is set.              *)

\* chardev_init up to device_create.  The region or the device may be
\* refused; a class that could not be had is used unseen; a buffer that could
\* not be had goes unnoticed.
LoadDevice ==
  /\ messenger = "absent"
  /\ messenger' \in {"absent", "status", "oops"}
  /\ device_memory_buffer' \in
       IF messenger' = "status" THEN {<< >>} \cup {[i \in 1 .. BufferBytes |-> c] : c \in {Nul, "x"}}
       ELSE {<< >>}
  /\ UNCHANGED <<chardev_buffer_rw_holder, status, in_call, begun, history>>

LoadStatus ==
  /\ messenger = "status"
  /\ remaining_size' = BufferBytes
  /\ messenger' = "ready"
  /\ UNCHANGED <<chardev_buffer_rw_holder, device_memory_buffer, total_messages_count, in_call,
                 begun, history>>

-----------------------------------------------------------------------------
(* Calls.                                                                  *)

Others(p) == {q \in Process \ {p} : in_call[q].at # "none"}

\* p enters a call; whoever is in one is no longer by itself.
Enter(p, call) ==
  /\ messenger \in {"status", "ready"} /\ in_call[p].at = "none"
  /\ in_call' = [q \in Process |->
       IF q = p THEN [call EXCEPT !.alone = Others(p) = {}]
       ELSE IF in_call[q].at = "none" THEN in_call[q]
       ELSE [in_call[q] EXCEPT !.alone = FALSE]]

Goes(p, at) == in_call' = [in_call EXCEPT ![p].at = at]
Leaves(p, left_behind) ==
  /\ in_call' = [in_call EXCEPT ![p] = Out]
  /\ mailbox' = IF in_call[p].alone THEN left_behind ELSE Mixed

HasBuffer == device_memory_buffer # << >>

\* Without a buffer the first byte that p copies to it, from it or clears dies
\* in the call.
NullBuffer(p) ==
  /\ ~HasBuffer
  /\ \/ in_call[p].at = "copy" /\ chardev_buffer_rw_holder > 0
     \/ in_call[p].at = "give" /\ in_call[p].length > 0
     \/ in_call[p].at = "wipe"
  /\ messenger' = "oops"
  /\ Leaves(p, Mixed)
  /\ UNCHANGED <<chardev_buffer_rw_holder, device_memory_buffer, status, begun, answer>>

\* messenger_chardev_write.
Write(p, letter, length) ==
  /\ begun < MaxMessages /\ begun' = begun + 1
  /\ Enter(p, Doing("cut", letter, 0, length))
  /\ chardev_buffer_rw_holder' \in {length, Shorter(length, BufferBytes)}
  /\ UNCHANGED <<messenger, device_memory_buffer, status, history>>

CutNot(n) == n                          \* mutant: the length is not cut
Cut(n) == Shorter(n, BufferBytes)

WriteCut(p) ==
  /\ in_call[p].at = "cut"
  /\ chardev_buffer_rw_holder' = Cut(chardev_buffer_rw_holder)
  /\ Goes(p, "copy")
  /\ UNCHANGED <<device, device_memory_buffer, status, history>>

\* copy_from_user: all of it, or the first bytes, zeros for the others, and
\* -EFAULT; by then the new length has been published.
WriteCopy(p) ==
  /\ in_call[p].at = "copy"
  /\ HasBuffer \/ chardev_buffer_rw_holder = 0
  /\ \E n \in 0 .. chardev_buffer_rw_holder :
       /\ device_memory_buffer' = [i \in DOMAIN device_memory_buffer |->
            IF i <= n THEN in_call[p].letter
            ELSE IF i <= chardev_buffer_rw_holder THEN Nul ELSE device_memory_buffer[i]]
       /\ IF n = chardev_buffer_rw_holder
          THEN Goes(p, "load") /\ UNCHANGED mailbox
          ELSE Leaves(p, Mixed)
  /\ UNCHANGED <<device, chardev_buffer_rw_holder, status, answer>>

\* The status takes the length from before it was cut; the count is loaded,
\* then stored.
WriteCount(p) ==
  /\ in_call[p].at = "load"
  /\ remaining_size' = (BufferBytes - in_call[p].length) % SizeT
  /\ in_call' = [in_call EXCEPT ![p].at = "store", ![p].count = total_messages_count + 1]
  /\ UNCHANGED <<device, chardev_buffer_rw_holder, device_memory_buffer, total_messages_count,
                 history>>

WriteDone(p) ==
  /\ in_call[p].at = "store"
  /\ total_messages_count' = in_call[p].count
  /\ Leaves(p, [i \in 1 .. Shorter(in_call[p].length, BufferBytes) |-> in_call[p].letter])
  /\ UNCHANGED <<device, chardev_buffer_rw_holder, device_memory_buffer, remaining_size, answer>>

\* messenger_chardev_read: count > chardev_buffer_rw_holder, ...
Read(p, length) ==
  /\ Enter(p, Doing(IF length > chardev_buffer_rw_holder THEN "limit" ELSE "give",
                    Nul, length, length))
  /\ UNCHANGED <<device, chardev_buffer_rw_holder, device_memory_buffer, status, history>>

\* ... and then count = chardev_buffer_rw_holder, which may be another by now.
ReadLimit(p) ==
  /\ in_call[p].at = "limit"
  /\ in_call' = [in_call EXCEPT ![p].at = "give", ![p].length = chardev_buffer_rw_holder]
  /\ UNCHANGED <<device, chardev_buffer_rw_holder, device_memory_buffer, status, history>>

ReadCopy(p) ==
  /\ in_call[p].at = "give"
  /\ HasBuffer \/ in_call[p].length = 0
  /\ LET n == in_call[p].length
         got == [i \in 1 .. n |-> IF i <= BufferBytes THEN device_memory_buffer[i] ELSE Nul]
     IN \/ /\ answer' = IF in_call[p].alone /\ mailbox # Mixed
                        THEN [got |-> got, wanted |->
                                SubSeq(mailbox, 1, Shorter(in_call[p].asked, Len(mailbox)))]
                        ELSE answer
           /\ Goes(p, "empty")
           /\ UNCHANGED mailbox
        \/ /\ n > 0                     \* -EFAULT: the message stays
           /\ Leaves(p, mailbox)
           /\ UNCHANGED answer
  /\ UNCHANGED <<device, chardev_buffer_rw_holder, device_memory_buffer, status>>

EmptiedPartly(n) == chardev_buffer_rw_holder - n   \* mutant: only what was read goes
Emptied(n) == 0

ReadDone(p) ==
  /\ in_call[p].at = "empty"
  /\ chardev_buffer_rw_holder' = Emptied(in_call[p].length)
  /\ remaining_size' = BufferBytes
  /\ Leaves(p, << >>)
  /\ UNCHANGED <<device, device_memory_buffer, total_messages_count, answer>>

\* clear_buffer_store and cleanup_message_buffer; init sets the callback last.
Clear(p) ==
  /\ messenger = "ready"
  /\ Enter(p, Doing("wipe", Nul, 0, 0))
  /\ chardev_buffer_rw_holder' = 0
  /\ UNCHANGED <<device, device_memory_buffer, status, history>>

ClearDone(p) ==
  /\ in_call[p].at = "wipe" /\ HasBuffer
  /\ device_memory_buffer' = [i \in 1 .. BufferBytes |-> Nul]
  /\ remaining_size' = BufferBytes
  /\ Leaves(p, << >>)
  /\ UNCHANGED <<device, chardev_buffer_rw_holder, total_messages_count, answer>>

\* chardev_exit.  Open files hold the module; sysfs waits for its stores.
Unload ==
  /\ messenger = "ready" /\ \A p \in Process : in_call[p].at = "none"
  /\ messenger' = "absent"
  /\ chardev_buffer_rw_holder' = 0 /\ total_messages_count' = 0
  /\ device_memory_buffer' = << >>
  /\ mailbox' = << >>
  /\ UNCHANGED <<remaining_size, in_call, begun, answer>>

MessengerNext ==
  \/ LoadDevice \/ LoadStatus \/ Unload
  \/ \E p \in Process :
       \/ \E letter \in {"a", "b"}, length \in Lengths : Write(p, letter, length)
       \/ WriteCut(p) \/ WriteCopy(p) \/ WriteCount(p) \/ WriteDone(p)
       \/ \E length \in Lengths : Read(p, length)
       \/ NullBuffer(p) \/ ReadLimit(p) \/ ReadCopy(p) \/ ReadDone(p)
       \/ Clear(p) \/ ClearDone(p)

MessengerSpec == MessengerInit /\ [][MessengerNext]_messengerVars

-----------------------------------------------------------------------------
(* Properties.                                                             *)

\* A read that overlaps no other call returns the start of the message the
\* last call left behind, if that one overlapped none and did not fail: the
\* device is then a mailbox that holds one message, cut to its size, and gives
\* it once, whatever happened before.
MailboxWhenAlone == answer.got = answer.wanted

\* Whatever the calls interleave, the buffer is left only because of a length
\* that another write has published and not yet cut: a write that copies
\* while it is there, or a read that took it.
LeavesBufferOnlyByUncutLength ==
  \A p \in Process :
    /\ in_call[p].at = "copy" /\ chardev_buffer_rw_holder > BufferBytes =>
         \E q \in Process \ {p} : in_call[q].at = "cut" /\ in_call[q].length > BufferBytes
    /\ in_call[p].at = "give" /\ in_call[p].length > BufferBytes => ~in_call[p].alone
=============================================================================
