------------------------------ MODULE TimeTrack ------------------------------
(***************************************************************************)
(* The time tracker of task 7 (module_main.c, timer_track_module.c,        *)
(* procfs_handler.c, sysfs_handler.c): absolute_time shows the time of     *)
(* day, last_accessed how long ago a proc file was used, as seconds or as  *)
(* a date, according to the sysfs file display_mode.                       *)
(*                                                                         *)
(* A text is the number in it and the mode it was written in; how many     *)
(* characters that takes is TextLength, which grows with it, so that a     *)
(* text may become longer or shorter under a reader.  A call is one step.  *)
(***************************************************************************)
EXTENDS Kernel, Sequences, SequencesExt

CONSTANTS
  HZ,              \* jiffies in a second
  Jiffies,         \* 2^32: the stamp is a uint32_t
  Day,             \* seconds of a day
  AskedOfTracker,  \* how much a reader asks for in one call
  MaxJiffies       \* bound: how long the model runs

\* Bound: a position that has run past the text by more goes on for ever.
FarAway == 4

ASSUME TimeTrackAssumption ==
  /\ HZ \in Nat \ {0} /\ Day \in Nat \ {0} /\ MaxJiffies \in Nat
  /\ Jiffies \in Nat \ {0} /\ Jiffies % HZ = 0
  /\ SizeT \in Nat /\ SizeT > FarAway
  /\ AskedOfTracker \subseteq Nat \ {0}

Absolute == "absolute_time"
LastUsed == "last_accessed"

VARIABLES
  tracker,            \* how far the module is loaded
  jiffies,            \* of the kernel, never wrapping here
  timestamp_measure_begin,
  current_displaying_mode,
  proc_buffer,        \* of each file: its text
  read_pos,           \* of each file
  ready_read,
  visit,              \* of each process: the file it reads until nothing more comes
  used_at             \* history: when a call last gave the start of a text

trackerVars == <<tracker, jiffies, timestamp_measure_begin, current_displaying_mode, proc_buffer,
                 read_pos, ready_read, visit, used_at>>
clock == <<jiffies, timestamp_measure_begin, used_at>>

Nothing == [mode |-> "none", value |-> 0]
\* The characters of a text: a larger number takes one more.
TextLength(text) == IF text.mode = "none" THEN 0 ELSE IF text.value = 0 THEN 1 ELSE 2

\* `whole`: a visit that began at the start of its file, was not disturbed and
\* has got the first `taken` characters of `text`; it began `elapsed` jiffies
\* after `used_at`, in `mode`.
Visit(file, asked, ended, whole) ==
  [file |-> file, asked |-> asked, ended |-> ended, whole |-> whole, taken |-> 0,
   text |-> Nothing, elapsed |-> 0, mode |-> "none"]
NoVisit == Visit("none", 0, FALSE, TRUE)
Spoilt(v) == Visit(v.file, v.asked, v.ended, FALSE)

TrackerInit ==
  /\ tracker = "absent" /\ jiffies = 0
  /\ timestamp_measure_begin = 0 /\ used_at = 0
  /\ current_displaying_mode = "passed_seconds"
  /\ proc_buffer = [f \in {Absolute, LastUsed} |-> Nothing]
  /\ read_pos = [f \in {Absolute, LastUsed} |-> 0]
  /\ ready_read = TRUE
  /\ visit = [p \in Process |-> NoVisit]

-----------------------------------------------------------------------------
(* Loading: the files are there before the stamp and the callbacks.        *)

LoadFiles ==
  /\ tracker = "absent" /\ tracker' = "files"
  /\ UNCHANGED <<clock, current_displaying_mode, proc_buffer, read_pos, ready_read, visit>>

\* init_timer_module, init_random_timer.
LoadTimer ==
  /\ tracker = "files" /\ tracker' = "timer"
  /\ timestamp_measure_begin' = jiffies % Jiffies /\ used_at' = jiffies
  /\ UNCHANGED <<jiffies, current_displaying_mode, proc_buffer, read_pos, ready_read, visit>>

\* The callbacks, one after the other: mode, use, absolute time.
SetCallback ==
  /\ tracker' = CASE tracker = "timer" -> "mode" [] tracker = "mode" -> "use"
                  [] tracker = "use" -> "loaded" [] OTHER -> "none"
  /\ tracker' # "none"
  /\ UNCHANGED <<clock, current_displaying_mode, proc_buffer, read_pos, ready_read, visit>>

\* The files go, and with the module its variables: the next load begins anew.
UnloadTracker ==
  /\ tracker = "loaded" /\ tracker' = "absent"
  /\ timestamp_measure_begin' = 0 /\ used_at' = 0
  /\ current_displaying_mode' = "passed_seconds"
  /\ proc_buffer' = [f \in {Absolute, LastUsed} |-> Nothing]
  /\ read_pos' = [f \in {Absolute, LastUsed} |-> 0]
  /\ ready_read' = TRUE
  /\ visit' = [p \in Process |-> NoVisit]
  /\ UNCHANGED jiffies

Tick ==
  /\ jiffies < MaxJiffies /\ jiffies' = jiffies + 1
  /\ UNCHANGED <<tracker, timestamp_measure_begin, used_at, current_displaying_mode, proc_buffer,
                 read_pos, ready_read, visit>>

\* display_mode_store: of the numbers only those of the two modes count.
ModeStore ==
  /\ tracker # "absent"
  /\ \E mode \in {"full_time_display", "passed_seconds", "other"} :
       current_displaying_mode' =
         IF mode # "other" /\ tracker \in {"mode", "use", "loaded"} THEN mode
         ELSE current_displaying_mode
  /\ UNCHANGED <<tracker, clock, proc_buffer, read_pos, ready_read, visit>>

-----------------------------------------------------------------------------
(* The files.                                                              *)

\* timer_handler_get_seconds_last_used_value.
SecondsSinceUse == ((jiffies - timestamp_measure_begin) % Jiffies) \div HZ

\* What procfs_entry_has_been_used_handler writes.
UseText ==
  [mode |-> current_displaying_mode,
   value |-> IF current_displaying_mode = "passed_seconds" THEN SecondsSinceUse
             ELSE SecondsSinceUse % Day]

\* What procfs_entry_request_absolut_time_handler writes.
TimeText == [mode |-> "time", value |-> (jiffies \div HZ) % Day]

\* The texts after the callbacks, if they are there.
NewTime == IF tracker = "loaded" THEN TimeText ELSE proc_buffer[Absolute]
NewUse == IF tracker \in {"use", "loaded"} THEN UseText ELSE proc_buffer[LastUsed]

UseIsCounted == tracker \in {"use", "loaded"}
StampStays == timestamp_measure_begin   \* mutant: a use does not restart the count
Stamp == jiffies % Jiffies

EntryUsed == timestamp_measure_begin' = IF UseIsCounted THEN Stamp ELSE timestamp_measure_begin

OpenFile(p, f, asked) ==
  /\ tracker # "absent" /\ visit[p].file = "none"
  /\ visit' = [visit EXCEPT ![p] = Visit(f, asked, FALSE, TRUE)]
  /\ UNCHANGED <<tracker, clock, current_displaying_mode, proc_buffer, read_pos, ready_read>>

CloseFile(p) ==
  /\ visit[p].file # "none"
  /\ visit' = [visit EXCEPT ![p] = NoVisit]
  /\ UNCHANGED <<tracker, clock, current_displaying_mode, proc_buffer, read_pos, ready_read>>

\* A visit after a call that gave n characters of `text` from the place `from`.
Visited(v, n, text, from, elapsed) ==
  LET first == v.whole /\ v.taken = 0 /\ from = 0
      next == v.whole /\ v.taken = from /\ from # 0 /\ (n = 0 \/ v.text = text)
  IN IF first \/ next
     THEN [file |-> v.file, asked |-> v.asked, ended |-> n = 0, whole |-> TRUE,
           taken |-> v.taken + n, text |-> IF first THEN text ELSE v.text,
           elapsed |-> IF first THEN elapsed ELSE v.elapsed,
           mode |-> IF first THEN current_displaying_mode ELSE v.mode]
     ELSE Visit(v.file, v.asked, n = 0, FALSE)

\* The rest of a read: `text` is the text of the file now.  For the history
\* every call of absolute_time, whose text is always new, gives the start of
\* one, and of last_accessed those that begin at the first character.
Given(p, f, text, from, elapsed) ==
  LET n == Shorter(visit[p].asked, (TextLength(text) - from) % SizeT)
  IN /\ from + n <= FarAway       \* bound
     /\ read_pos' = [read_pos EXCEPT ![f] = IF n = 0 /\ f = Absolute THEN 0 ELSE from + n]
     /\ ready_read' = IF f = LastUsed THEN n = 0 ELSE ready_read
     /\ used_at' = IF UseIsCounted /\ (f = Absolute \/ from = 0) THEN jiffies ELSE used_at
     /\ visit' = [q \in Process |->
          IF q = p THEN Visited(visit[p], n, text, from, elapsed)
          ELSE IF visit[q].file = "none" THEN visit[q] ELSE Spoilt(visit[q])]

\* proc_buffer_absolute_time_read: every call writes both texts anew.
ReadAbsolute(p) ==
  /\ visit[p].file = Absolute /\ ~visit[p].ended
  /\ proc_buffer' = [proc_buffer EXCEPT ![Absolute] = NewTime, ![LastUsed] = NewUse]
  /\ Given(p, Absolute, proc_buffer'[Absolute], read_pos[Absolute], jiffies - used_at)
  /\ EntryUsed
  /\ UNCHANGED <<tracker, jiffies, current_displaying_mode>>

\* proc_buffer_last_accessed_read: the text is written when the last visit
\* has reached its end, and not again before this one has.
ReadLastUsed(p) ==
  /\ visit[p].file = LastUsed /\ ~visit[p].ended
  /\ IF ready_read
     THEN /\ proc_buffer' = [proc_buffer EXCEPT ![LastUsed] = NewUse]
          /\ Given(p, LastUsed, proc_buffer'[LastUsed], 0, jiffies - used_at)
          /\ EntryUsed
     ELSE /\ Given(p, LastUsed, proc_buffer[LastUsed], read_pos[LastUsed], jiffies - used_at)
          /\ UNCHANGED <<proc_buffer, timestamp_measure_begin>>
  /\ UNCHANGED <<tracker, jiffies, current_displaying_mode>>

TrackerNext ==
  \/ LoadFiles \/ LoadTimer \/ SetCallback \/ UnloadTracker \/ Tick \/ ModeStore
  \/ \E p \in Process :
       \/ \E f \in {Absolute, LastUsed}, asked \in AskedOfTracker : OpenFile(p, f, asked)
       \/ CloseFile(p) \/ ReadAbsolute(p) \/ ReadLastUsed(p)

TrackerSpec == TrackerInit /\ [][TrackerNext]_trackerVars

-----------------------------------------------------------------------------
(* The property.                                                           *)

\* A visit of last_accessed that began at the start of the text, reached its
\* end and was not disturbed got one text, all of it, in the mode of its first
\* call: the seconds from the last call before it that gave the start of a
\* text, of either file.  That is not the last use: a call that goes on with a
\* text of last_accessed, or finds its end, does not restart the count, so a
\* reader that takes its time is told of its beginning.  (Of absolute_time the
\* property does not hold: its text may change between two calls.)
LastUseIsTold ==
  \A p \in Process :
    LET v == visit[p]
        seconds == (v.elapsed % Jiffies) \div HZ
    IN v.file = LastUsed /\ v.ended /\ v.whole /\ v.text # Nothing =>
         /\ v.taken = TextLength(v.text)
         /\ v.text.mode = v.mode
         /\ v.text.value = IF v.mode = "passed_seconds" THEN seconds ELSE seconds % Day
=============================================================================
