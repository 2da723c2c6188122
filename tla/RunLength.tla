------------------------------ MODULE RunLength ------------------------------
(***************************************************************************)
(* The run-length encoder and decoder of task 3 (src/task3), run one after *)
(* the other: encoder < text > encoded; decoder < encoded > decoded.       *)
(*                                                                         *)
(* A character is its code less that of '0', which is what the decoder     *)
(* takes for a count.  BufferSize is BUFSIZ: fgets hands both programs     *)
(* pieces of at most BufferSize - 1 characters, and the pieces of the one  *)
(* are not those of the other.                                             *)
(***************************************************************************)
EXTENDS Integers, Sequences, SequencesExt, FiniteSetsExt

CONSTANTS
  Texts,        \* what standard input of the encoder may hold
  BufferSize    \* BUFSIZ

Nul == 0 - 48
NewLine == 10 - 48

ASSUME RunLengthAssumption ==
  /\ BufferSize \in Nat \ {0, 1}
  /\ Texts \subseteq Seq(Int \ {Nul})

VARIABLES
  text,         \* standard input of the encoder
  unread,       \* what the program that runs has not read of its input
  line,         \* the piece it has read last, empty when it is done with it
  position,     \* how many characters of it are dealt with
  buffer,       \* output_buffer of the encoder, up to the terminator
  length,       \* output_buffer_length of the encoder
  encoded,      \* standard output of the encoder
  decoded,      \* standard output of the decoder
  codec         \* which program runs: "none", "encoder", "decoder", "done"

runLengthVars == <<text, unread, line, position, buffer, length, encoded, decoded, codec>>

RunLengthInit ==
  /\ text = << >> /\ unread = << >> /\ encoded = << >> /\ decoded = << >> /\ codec = "none"
  /\ line = << >> /\ position = 0 /\ buffer = << >> /\ length = 0

\* fgets: up to the end of the line, of the buffer or of the input.
Gets(input) ==
  SubSeq(input, 1, Min({BufferSize - 1, Len(input)} \cup
                       {i \in 1 .. Len(input) : input[i] = NewLine}))

ReadLine ==
  /\ codec \in {"encoder", "decoder"} /\ line = << >> /\ unread # << >>
  /\ line' = Gets(unread)
  /\ unread' = SubSeq(unread, Len(line') + 1, Len(unread))
  /\ position' = 0 /\ buffer' = << >> /\ length' = 0
  /\ UNCHANGED <<text, encoded, decoded, codec>>

-----------------------------------------------------------------------------
(* The encoder.                                                            *)

StartEncoder ==
  /\ codec = "none"
  /\ text' \in Texts
  /\ unread' = text' /\ codec' = "encoder"
  /\ UNCHANGED <<line, position, buffer, length, encoded, decoded>>

\* "%d".
Decimal(n) ==
  IF n < 10 THEN << n >>
  ELSE LET digits == CHOOSE d \in 2 .. n : 10 ^ (d - 1) <= n /\ n < 10 ^ d
       IN [i \in 1 .. digits |-> (n \div 10 ^ (digits - i)) % 10]

\* Where the run that begins at i ends.
RunEnd(i) ==
  CHOOSE j \in i .. Len(line) :
    /\ \A k \in i .. j : line[k] = line[i]
    /\ j = Len(line) \/ line[j + 1] # line[i]

\* One iteration of encode, on its second call: sprintf starts two places after
\* where it started before, wherever it ended then.
CountFromLineStart(i, j) == j            \* mutant: counter is not reset
Counter(i, j) == j - i + 1

EncodeRun ==
  /\ codec = "encoder" /\ position < Len(line)
  /\ LET i == position + 1
         j == RunEnd(i)
     IN /\ buffer' = SubSeq(buffer, 1, length) \o Decimal(Counter(i, j)) \o << line[j] >>
        /\ position' = j
  /\ length' = length + 2
  /\ UNCHANGED <<text, unread, line, encoded, decoded, codec>>

\* The end of encode, and printf.
PrintLine ==
  /\ codec = "encoder" /\ line # << >> /\ position = Len(line)
  /\ encoded' = encoded \o buffer
  /\ line' = << >> /\ position' = 0 /\ buffer' = << >> /\ length' = 0
  /\ UNCHANGED <<text, unread, decoded, codec>>

-----------------------------------------------------------------------------
(* The decoder.                                                            *)

StartDecoder ==
  /\ codec = "encoder" /\ line = << >> /\ unread = << >>
  /\ codec' = "decoder" /\ unread' = encoded
  /\ UNCHANGED <<text, line, position, buffer, length, encoded, decoded>>

\* One iteration of decode: a count and a character; an odd one out at the end is
\* passed over.
DecodePair ==
  /\ codec = "decoder" /\ position < Len(line) - 1
  /\ decoded' = decoded \o [copy \in 1 .. line[position + 1] |-> line[position + 2]]
  /\ position' = position + 2
  /\ UNCHANGED <<text, unread, line, buffer, length, encoded, codec>>

LineDecoded ==
  /\ codec = "decoder" /\ line # << >> /\ position >= Len(line) - 1
  /\ line' = << >> /\ position' = 0
  /\ UNCHANGED <<text, unread, buffer, length, encoded, decoded, codec>>

DecoderEnds ==
  /\ codec = "decoder" /\ line = << >> /\ unread = << >>
  /\ codec' = "done"
  /\ UNCHANGED <<text, unread, line, position, buffer, length, encoded, decoded>>

RunLengthNext ==
  \/ ReadLine
  \/ StartEncoder \/ EncodeRun \/ PrintLine
  \/ StartDecoder \/ DecodePair \/ LineDecoded \/ DecoderEnds

RunLengthSpec == RunLengthInit /\ [][RunLengthNext]_runLengthVars

-----------------------------------------------------------------------------
(* The property.                                                           *)

\* The lengths of the runs of a text and the lines of an output, by their
\* definitions.
RunLengths(t) ==
  {n \in 1 .. Len(t) : \E i \in 1 .. Len(t) - n + 1 : \A k \in i .. i + n - 1 : t[k] = t[i]}
LineLengths(t) ==
  {n \in 1 .. Len(t) : \E i \in 1 .. Len(t) - n + 1 : \A k \in i .. i + n - 2 : t[k] # NewLine}

\* Decoding gives the text back if no run in it is longer than nine and no
\* line of the encoded text is longer than the decoder's buffer, whatever
\* the pieces in which the encoder read it.
RoundTrip ==
  /\ codec = "done"
  /\ \A n \in RunLengths(text) : n <= 9
  /\ \A n \in LineLengths(encoded) : n < BufferSize
  => decoded = text
=============================================================================
