--------------------------- MODULE StringConverter ---------------------------
(***************************************************************************)
(* The string converter of exercise 10, part 3 (rw.c, strings_processor.c, *)
(* sysfs_handler.c): what is written to the proc file is copied, its words *)
(* are turned round, or its letters made large, as the sysfs file          *)
(* conv_conf says; readers get the result.  (Reading is in ProcFiles.)     *)
(*                                                                         *)
(* The input buffer is not cleared and a message does not end with a NUL:  *)
(* the string that is converted goes on with what an earlier message left. *)
(* No call takes a lock, and all of them use the same three buffers: a     *)
(* write is a step for each block of memory it goes through.               *)
(***************************************************************************)
EXTENDS Kernel, Sequences, SequencesExt

CONSTANTS
  Messages,      \* what may be written: sequences of letters and blanks
  BUFFER_SIZE

ASSUME StringConverterAssumption ==
  /\ BUFFER_SIZE \in Nat \ {0}
  /\ \A text \in Messages : text \in Seq(Range(text)) /\ Nul \notin Range(text)

VARIABLES
  converter,     \* "absent", "buffers", "file", "loaded"; "oops"; "overrun"
  conversion_mode,
  proc_buffer_in, proc_buffer_out,
  string_processing_buffer,
  writers,       \* of each process: the step of its write, its mode and length
  met,           \* history: the last writes met: none has begun by itself since
  wrote          \* history: the message of the last write, if it met no other, and when
                 \* it has returned the mode it used and the string it left in the input

converterVars == <<converter, conversion_mode, proc_buffer_in, proc_buffer_out,
                   string_processing_buffer, writers, met, wrote>>
buffers == <<proc_buffer_in, proc_buffer_out, string_processing_buffer>>

Blank == " "
Buffer == 1 .. BUFFER_SIZE
\* What kmalloc gives: a clean page or somebody's letters.  Only in the input
\* does it matter, the other buffers are written before they are read.
Page(c) == [i \in Buffer |-> c]
Fresh == {Page(Nul), Page("x")}

NotWriting == [at |-> "none", mode |-> "none", length |-> 0]
NotWritten == [text |-> << >>, mode |-> "none", input |-> << >>]

ConverterInit ==
  /\ converter = "absent" /\ conversion_mode = "NoneConversion"
  /\ proc_buffer_in = << >> /\ proc_buffer_out = << >> /\ string_processing_buffer = << >>
  /\ writers = [p \in Process |-> NotWriting] /\ met = FALSE /\ wrote = NotWritten

-----------------------------------------------------------------------------
(* The conversions.                                                        *)

\* The C string in the input buffer; beyond a full buffer somebody else's
\* memory follows.
CString(buffer) ==
  LET nul == {i \in Buffer : buffer[i] = Nul}
      end == IF nul = {} THEN BUFFER_SIZE ELSE (CHOOSE i \in nul : \A j \in nul : i <= j) - 1
  IN SubSeq(buffer, 1, end)

Upper(c) == IF c \in {Blank, Nul} THEN c ELSE <<"upper", c>>

\* Where the word at place i of s may begin and end (at one place each).
WordBegins(s, i) == {a \in 1 .. i : (\A j \in a .. i : s[j] # Blank)
                                    /\ (a = 1 \/ s[a - 1] = Blank)}
WordEnds(s, i) == {b \in i .. Len(s) : (\A j \in i .. b : s[j] # Blank)
                                       /\ (b = Len(s) \/ s[b + 1] = Blank)}

\* The place whose character comes to place i when every word of s is turned
\* round: the mirror of i in its word.
Mirror(s, i) ==
  LET first == CHOOSE a \in WordBegins(s, i) : TRUE
      last == CHOOSE b \in WordEnds(s, i) : TRUE
  IN IF s[i] = Blank THEN i ELSE first + last - i
FlippedWhole(s) == Reverse(s)           \* mutant: the whole text is turned round
Flipped(s) == [i \in 1 .. Len(s) |-> s[Mirror(s, i)]]

Converted(s, mode) ==
  CASE mode = "Flip" -> Flipped(s)
    [] mode = "Uppercase" -> [i \in 1 .. Len(s) |-> Upper(s[i])]
    [] OTHER -> s

\* Strings too long for the buffers are not converted; a copy is never
\* refused.
Skipped(s, mode) == mode # "NoneConversion" /\ Len(s) + 1 > BUFFER_SIZE

\* s put into a buffer from its first place on, with a character behind it.
CopiedInto(buffer, s, last) ==
  [i \in Buffer |-> IF i <= Len(s) THEN s[i] ELSE IF i = Len(s) + 1 THEN last ELSE buffer[i]]

-----------------------------------------------------------------------------
(* The module.                                                             *)

\* create_buffer, twice (without memory the module stays absent).
CreateBuffers ==
  /\ converter = "absent" /\ converter' = "buffers"
  /\ proc_buffer_in' \in Fresh /\ proc_buffer_out' = Page("x")
  /\ UNCHANGED <<conversion_mode, string_processing_buffer, writers, met, wrote>>

\* crate_proc_entry; if it fails the error path gives the buffers back.
CreateFile ==
  /\ converter = "buffers"
  /\ \/ converter' = "file" /\ UNCHANGED <<proc_buffer_in, proc_buffer_out>>
     \/ converter' = "absent" /\ proc_buffer_in' = << >> /\ proc_buffer_out' = << >>
  /\ UNCHANGED <<conversion_mode, string_processing_buffer, writers, met, wrote>>

\* init_converter_module looks into its buffer even if there is none, and
\* init_sysfs_handler adds a file even to a class it could not create.
CreateConverter ==
  /\ converter = "file" /\ converter' \in {"loaded", "oops"}
  /\ string_processing_buffer' = Page("x")
  /\ UNCHANGED <<conversion_mode, proc_buffer_in, proc_buffer_out, writers, met, wrote>>

\* conv_conf_store: what is no number of a mode means NoneConversion; a
\* message that is too long changes nothing.
ModeAfter(number) ==
  IF number \in {"Flip", "Uppercase"} THEN number ELSE "NoneConversion"
StoreMode ==
  /\ converter = "loaded"
  /\ \E number \in {"NoneConversion", "Flip", "Uppercase", "garbage"} :
       conversion_mode' = ModeAfter(number)
  /\ UNCHANGED <<converter, buffers, writers, met, wrote>>

\* string_processor_exit; taking the file away waits for the writes.
UnloadConverter ==
  /\ converter = "loaded" /\ \A p \in Process : writers[p].at = "none"
  /\ converter' = "absent" /\ conversion_mode' = "NoneConversion"
  /\ proc_buffer_in' = << >> /\ proc_buffer_out' = << >> /\ string_processing_buffer' = << >>
  /\ wrote' = NotWritten
  /\ UNCHANGED <<writers, met>>

-----------------------------------------------------------------------------
(* procfs_write_callback.                                                  *)

\* A call that is at a step, in a module that is still well.
Reaches(p, step) == writers[p].at = step /\ converter \in {"file", "loaded"}
GoesTo(p, step) == writers' = [writers EXCEPT ![p].at = step]
Finishes(p) == writers' = [writers EXCEPT ![p] = NotWriting]

Returns(p) ==
  /\ Finishes(p)
  /\ wrote' = IF met THEN wrote
              ELSE [wrote EXCEPT !.mode = writers[p].mode, !.input = CString(proc_buffer_in)]

\* The message goes into the buffer, cut to its size.  After a fault
\* copy_from_user fills up with NULs.
CopyMessage(p) ==
  /\ Reaches(p, "none")
  /\ met' = \E q \in Process \ {p} : writers[q].at # "none"
  /\ \E text \in Messages :
       LET n == Shorter(Len(text), BUFFER_SIZE)
       IN \E copied \in 0 .. n :
            /\ proc_buffer_in' = [i \in Buffer |-> IF i <= copied THEN text[i]
                                                  ELSE IF i <= n THEN Nul ELSE proc_buffer_in[i]]
            /\ wrote' = IF met' THEN NotWritten
                        ELSE [NotWritten EXCEPT !.text = SubSeq(text, 1, copied)]
  /\ GoesTo(p, "measure")
  /\ UNCHANGED <<converter, conversion_mode, proc_buffer_out, string_processing_buffer>>

\* The switch on the mode, and the length of the string where it is taken.
MeasureMessage(p) ==
  /\ Reaches(p, "measure")
  /\ LET s == CString(proc_buffer_in)
     IN IF Skipped(s, conversion_mode) THEN Finishes(p)
        ELSE writers' = [writers EXCEPT ![p] =
               [at |-> IF conversion_mode = "Flip" THEN "store" ELSE "convert",
                mode |-> conversion_mode,
                length |-> IF conversion_mode = "Uppercase" THEN Len(s) ELSE 0]]
  /\ UNCHANGED <<converter, conversion_mode, buffers, met, wrote>>

\* reverse_string_words works on a copy.
StoreWords(p) ==
  /\ Reaches(p, "store")
  /\ LET s == CString(proc_buffer_in)
     IN /\ string_processing_buffer' = CopiedInto(string_processing_buffer, s, Nul)
        /\ converter' = IF Len(s) + 1 > BUFFER_SIZE THEN "overrun" ELSE converter
  /\ GoesTo(p, "convert")
  /\ UNCHANGED <<conversion_mode, proc_buffer_in, proc_buffer_out, met, wrote>>

\* copy_string_to_output is done with that.
CopyConverts(p) ==
  /\ Reaches(p, "convert") /\ writers[p].mode = "NoneConversion"
  /\ LET s == CString(proc_buffer_in)
     IN /\ proc_buffer_out' = CopiedInto(proc_buffer_out, Converted(s, "NoneConversion"), Nul)
        /\ converter' = IF Len(s) + 1 > BUFFER_SIZE THEN "overrun" ELSE converter
  /\ Returns(p)
  /\ UNCHANGED <<conversion_mode, proc_buffer_in, string_processing_buffer, met>>

\* The words of the copy come out one by one, a blank behind each; strsep
\* puts a NUL behind each in the copy.
FlipConverts(p) ==
  /\ Reaches(p, "convert") /\ writers[p].mode = "Flip"
  /\ LET s == CString(string_processing_buffer)
     IN /\ proc_buffer_out' = CopiedInto(proc_buffer_out, Converted(s, "Flip"), Blank)
        /\ string_processing_buffer' = CopiedInto(string_processing_buffer,
             [i \in 1 .. Len(s) |-> IF s[i] = Blank THEN Nul ELSE s[i]], Nul)
  /\ GoesTo(p, "end")
  /\ UNCHANGED <<converter, conversion_mode, proc_buffer_in, met, wrote>>

\* to_upper_string: as many characters as it has counted.
UpperConverts(p) ==
  /\ Reaches(p, "convert") /\ writers[p].mode = "Uppercase"
  /\ LET s == SubSeq(proc_buffer_in, 1, writers[p].length)
     IN proc_buffer_out' = [i \in Buffer |-> IF i <= Len(s) THEN Converted(s, "Uppercase")[i]
                                            ELSE proc_buffer_out[i]]
  /\ GoesTo(p, "end")
  /\ UNCHANGED <<converter, conversion_mode, proc_buffer_in, string_processing_buffer, met, wrote>>

\* Both put their NUL one place too far, and Flip counts again.
EndMessage(p) ==
  /\ Reaches(p, "end")
  /\ LET n == IF writers[p].mode = "Flip" THEN Len(CString(proc_buffer_in)) ELSE writers[p].length
     IN /\ proc_buffer_out' = [i \in Buffer |-> IF i = n + 2 THEN Nul ELSE proc_buffer_out[i]]
        /\ converter' = IF n + 2 > BUFFER_SIZE THEN "overrun" ELSE converter
  /\ Returns(p)
  /\ UNCHANGED <<conversion_mode, proc_buffer_in, string_processing_buffer, met>>

ConverterNext ==
  \/ CreateBuffers \/ CreateFile \/ CreateConverter \/ StoreMode \/ UnloadConverter
  \/ \E p \in Process :
       \/ CopyMessage(p) \/ MeasureMessage(p) \/ StoreWords(p)
       \/ CopyConverts(p) \/ FlipConverts(p) \/ UpperConverts(p) \/ EndMessage(p)

ConverterSpec == ConverterInit /\ [][ConverterNext]_converterVars

-----------------------------------------------------------------------------
(* The property.                                                           *)

\* The output shows the conversion of a message, but for the last word of a
\* Flip: its end is where the string in the input ends, and so an earlier,
\* longer message shows in it.
OutputShows(output, text, mode, input) ==
  LET at_end(i) == \A j \in i .. Len(text) : text[j] # Blank
      stale == Len(input) > Len(text) /\ input[Len(text) + 1] # Blank
  IN \A i \in 1 .. Len(text) :
       ~(mode = "Flip" /\ at_end(i) /\ stale) =>
         output[i] = CASE mode = "Uppercase" -> Upper(text[i])
                       [] mode = "Flip" -> text[Mirror(text, i)]
                       [] OTHER -> text[i]

\* When a write that met no other has returned, what readers get of its
\* message (as many characters as it has) is the conversion, whatever was
\* written before it and whatever earlier writes, two or more of them at
\* once, have left in the three buffers; the mode may change under it.  And
\* such a write goes past the buffers only when the string leaves no two
\* places in them.  Of writes that meet nothing is said: their characters
\* are mixed, and a string without its end may go past the copy.
MessageIsConverted ==
  /\ wrote.mode # "none" => OutputShows(proc_buffer_out, wrote.text, wrote.mode, wrote.input)
  /\ converter = "overrun" /\ ~met => Len(CString(proc_buffer_in)) + 2 > BUFFER_SIZE
=============================================================================
