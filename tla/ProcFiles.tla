------------------------------ MODULE ProcFiles ------------------------------
(***************************************************************************)
(* The proc files whose reader's position is a variable of the module and  *)
(* not of the open file: the three status files of task 6                  *)
(* (procfs_handler.c), and those a process writes its text to: the example *)
(* of exercise 10, part 1 (rw.c), the string converter of part 3 (rw.c)    *)
(* and the currency converter of task 5 (procfs_handler.c).  Whoever reads *)
(* moves the position for everybody.                                       *)
(*                                                                         *)
(* A text is its length; what a reader gets is a sequence of places in the *)
(* buffer, counted from 1.  A status file may change its text at any time. *)
(***************************************************************************)
EXTENDS Kernel, Sequences, SequencesExt

CONSTANTS
  Asked,         \* how much a reader asks for in one call
  Longest,       \* the longest text; BUFFER_SIZE of the example file
  MaxGot         \* bound: how much one reader is given

\* Bound: a position that has run past the text by more goes on for ever.
FarPast == Longest + MaxGot

ASSUME ProcFilesAssumption ==
  /\ Asked \subseteq Nat \ {0} /\ Longest \in Nat \ {0} /\ MaxGot \in Nat
  /\ SizeT \in Nat /\ SizeT > FarPast

Status == {"total", "remaining", "count"}
Written == {"example", "strings", "value"}
ProcFile == Status \cup Written

VARIABLES
  proc_msg_length,    \* of each file
  proc_msg_read_pos,  \* of each file
  cat,                \* of each reader: the file it reads until nothing more comes
  at_start,           \* history: no reader has left the file in the middle
  in_use              \* bound: the files used here, those that touch each other

procVars == <<proc_msg_length, proc_msg_read_pos, cat, at_start, in_use>>

\* `ended`: a call returned nothing.  `clean`: it began at the start, and
\* nobody else has read or changed the file since.
Reader(file, asked, got, ended, clean) ==
  [file |-> file, asked |-> asked, got |-> got, ended |-> ended, clean |-> clean]
NotReading == Reader("none", 0, << >>, FALSE, TRUE)

ProcInit ==
  /\ proc_msg_length = [f \in ProcFile |-> 0]
  /\ proc_msg_read_pos = [f \in ProcFile |-> 0]
  /\ cat = [p \in Process |-> NotReading]
  /\ at_start = [f \in ProcFile |-> TRUE]
  /\ in_use = {}

\* initialize_procfs_handler; the status files get their first texts.
LoadStatusFiles ==
  /\ in_use = {} /\ in_use' \in {{"total", "remaining"}, {"count"}}
  /\ \E n \in 1 .. Longest :
       proc_msg_length' = [f \in ProcFile |-> IF f \in in_use' THEN n ELSE 0]
  /\ UNCHANGED <<proc_msg_read_pos, cat, at_start>>

\* create_buffer and the two calls that create the directory and the file;
\* without memory or without a file nothing stays behind.
CreateFileOf(f) ==
  /\ in_use = {} /\ in_use' = {f}
  /\ UNCHANGED <<proc_msg_length, proc_msg_read_pos, cat, at_start>>

LoadExample == CreateFileOf("example")
LoadStrings == CreateFileOf("strings")
LoadValue == CreateFileOf("value")

\* Whoever has a file open reads no more, and with the module its positions go.
RemoveFiles ==
  /\ proc_msg_length' = [f \in ProcFile |-> 0]
  /\ proc_msg_read_pos' = [f \in ProcFile |-> 0]
  /\ cat' = [p \in Process |-> NotReading]
  /\ at_start' = [f \in ProcFile |-> TRUE]
  /\ in_use' = {}

\* cleanup_procfs_entries, and the exit functions of the others, which a load
\* that fails behind the file goes through, too.
UnloadStatusFiles == in_use \cap Status # {} /\ RemoveFiles
UnloadExample == "example" \in in_use /\ RemoveFiles
UnloadStrings == "strings" \in in_use /\ RemoveFiles
UnloadValue == "value" \in in_use /\ RemoveFiles

-----------------------------------------------------------------------------
(* Readers.                                                                *)

Open(p, f, asked) ==
  /\ cat[p].file = "none"
  /\ cat' = [cat EXCEPT ![p] = Reader(f, asked, << >>, FALSE, at_start[f])]
  /\ UNCHANGED <<proc_msg_length, proc_msg_read_pos, at_start, in_use>>

\* A reader may stop at any time.
Close(p) ==
  /\ cat[p].file # "none"
  /\ cat' = [cat EXCEPT ![p] = NotReading]
  /\ UNCHANGED <<proc_msg_length, proc_msg_read_pos, at_start, in_use>>

\* Those of the readers who have one of the files open are no longer alone with it.
Disturbed(files, readers) ==
  [q \in Process |->
    IF q \in readers /\ cat[q].file \in files THEN [cat[q] EXCEPT !.clean = FALSE] ELSE cat[q]]

\* What a call may take: the difference of two size_t, which wraps when the
\* text has become shorter than the position.
Served(f, asked) ==
  LET left == (proc_msg_length[f] - proc_msg_read_pos[f]) % SizeT
  IN IF asked > left THEN left ELSE asked

\* A call that gives nothing puts the position back.
RewoundNever(f, position, n) == position   \* mutant: nobody puts it back
Rewound(f, position, n) == IF n = 0 /\ f \in Status THEN 0 ELSE position

\* One call of the read function of file f, which copies from the position of
\* file `from`.  A fault of copy_to_user gives less, and maybe nothing, which
\* a reader takes for the end.
ReadCall(p, f, from) ==
  /\ cat[p].file = f /\ ~cat[p].ended
  /\ \E n \in 0 .. Served(f, cat[p].asked) :
       LET more == [i \in 1 .. n |-> proc_msg_read_pos[from] + i]
           fault == n # Served(f, cat[p].asked)
           clean == cat[p].clean /\ ~fault /\ (from # f => at_start[from])
       IN /\ Len(cat[p].got) + n <= MaxGot /\ proc_msg_read_pos[f] + n <= FarPast
          /\ proc_msg_read_pos' =
               [proc_msg_read_pos EXCEPT ![f] = Rewound(f, proc_msg_read_pos[f] + n, n)]
          /\ at_start' = [at_start EXCEPT ![f] = n = 0 /\ f \in Status]
          /\ cat' = [Disturbed({f}, Process \ {p}) EXCEPT
               ![p] = Reader(f, cat[p].asked, cat[p].got \o more, n = 0, clean)]
  /\ UNCHANGED <<proc_msg_length, in_use>>

ReadTotal(p) == ReadCall(p, "total", "total")
ReadRemaining(p) == ReadCall(p, "remaining", "total")
ReadCount(p) == ReadCall(p, "count", "count")
ReadExample(p) == ReadCall(p, "example", "example")
ReadStrings(p) == ReadCall(p, "strings", "strings")
ReadValue(p) == ReadCall(p, "value", "value")

-----------------------------------------------------------------------------
(* Writers.                                                                *)

\* update_remaining_buffer_size, update_total_messages_count; the size of the
\* buffer is shown once, when the module is loaded.
UpdateStatus ==
  \E f \in {"remaining", "count"} \cap in_use, length \in 1 .. Longest :
    /\ proc_msg_length' = [proc_msg_length EXCEPT ![f] = length]
    /\ cat' = Disturbed({f}, Process)
    /\ UNCHANGED <<proc_msg_read_pos, at_start, in_use>>

\* Cut to the buffer, or to what could be copied; the next call reads from
\* the start.
WriteText(f) ==
  /\ f \in in_use
  /\ proc_msg_length' \in {[proc_msg_length EXCEPT ![f] = n] : n \in 0 .. Longest}
  /\ proc_msg_read_pos' = [proc_msg_read_pos EXCEPT ![f] = 0]
  /\ at_start' = [at_start EXCEPT ![f] = TRUE]
  /\ cat' = Disturbed({f}, Process)
  /\ UNCHANGED in_use

\* example_write, and procfs_write_callback of the two converters, whose
\* readers get the converted text, as much of it as was written.
WriteExample == WriteText("example")
WriteStrings == WriteText("strings")
WriteValue == WriteText("value")

\* A new factor has the last number converted again: the result is printed
\* into the buffer under its readers, the length stays.
ConvertAgain ==
  /\ "value" \in in_use
  /\ cat' = Disturbed({"value"}, Process)
  /\ UNCHANGED <<proc_msg_length, proc_msg_read_pos, at_start, in_use>>

ProcNext ==
  \/ LoadStatusFiles \/ LoadExample \/ LoadStrings \/ LoadValue
  \/ UnloadStatusFiles \/ UnloadExample \/ UnloadStrings \/ UnloadValue
  \/ \E p \in Process :
       \/ \E f \in in_use, asked \in Asked : Open(p, f, asked)
       \/ Close(p)
       \/ ReadTotal(p) \/ ReadRemaining(p) \/ ReadCount(p)
       \/ ReadExample(p) \/ ReadStrings(p) \/ ReadValue(p)
  \/ UpdateStatus \/ WriteExample \/ WriteStrings \/ WriteValue \/ ConvertAgain

ProcSpec == ProcInit /\ [][ProcNext]_procVars

-----------------------------------------------------------------------------
(* The property.                                                           *)

\* A reader that began when nobody had left the file in the middle, reached
\* its end and was not disturbed has got the whole text in order, whatever
\* happened to the file before: of the texts that are written only the first
\* one after a write.  The remaining size is copied from the position of the
\* total size, and comes out right only when it fits one call and that file
\* is at its start.
ReaderGetsText ==
  \A p \in Process :
    LET c == cat[p] IN
    /\ c.ended /\ c.clean
    /\ c.file = "remaining" => c.asked >= proc_msg_length[c.file]
    => c.got = [i \in 1 .. proc_msg_length[c.file] |-> i]
=============================================================================
