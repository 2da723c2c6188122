------------------------------ MODULE Currency ------------------------------
(***************************************************************************)
(* The currency converter of task 5, part 2 (module_main.c,                *)
(* procfs_handler.c, sysfs_handler.c, currency_conveter.c): a number       *)
(* written to the proc file is divided by the factor, and the result takes *)
(* its place; a new factor converts the last number again.  No call takes  *)
(* a lock, so that any number of writes and stores may be under way.  What *)
(* a write reads out of the buffer may be the number of another write, a   *)
(* mixture of two, or nothing any more: any number.  (Reading is in        *)
(* ProcFiles: a reader gets as many characters as the number had.)         *)
(***************************************************************************)
EXTENDS Kernel

CONSTANTS
  Numbers,       \* what may be written, small enough for an int a hundred times
  Factors,       \* what may be written to the factor
  Hundredths     \* 100

ASSUME CurrencyAssumption ==
  /\ Numbers \subseteq Int /\ Factors \subseteq Int /\ Hundredths \in Nat \ {0}

VARIABLES
  currency,      \* how far the module is loaded or unloaded, "absent", or "oops"
  currency_buffer,     \* nothing, what was written (raw), or the result
  conversion_factor,
  last_converted_value_request,
  calls,         \* of each process: the step of its write or store, and its number
  overlapped     \* history: the last calls overlapped: none has begun by itself since

currencyVars == <<currency, currency_buffer, conversion_factor, last_converted_value_request,
                  calls, overlapped>>
values == <<currency_buffer, conversion_factor, last_converted_value_request>>

None == [is |-> "none", full |-> 0, remainder |-> 0]
Raw == [None EXCEPT !.is = "raw"]
NoCall == [at |-> "none", number |-> 0]

CurrencyInit ==
  /\ currency = "absent" /\ currency_buffer = None
  /\ conversion_factor = 0 /\ last_converted_value_request = 0
  /\ calls = [p \in Process |-> NoCall] /\ overlapped = FALSE

-----------------------------------------------------------------------------
(* Loading and unloading.                                                  *)

Writing == \E p \in Process : calls[p].at \in {"copy", "convert", "remember"}
Storing == \E p \in Process : calls[p].at = "store"

\* The factor is a parameter of the module, 31 if none is given.
LoadBuffer ==
  /\ currency = "absent"
  /\ currency' = "buffer" /\ currency_buffer' = Raw
  /\ conversion_factor' \in Factors /\ last_converted_value_request' = 0
  /\ UNCHANGED <<calls, overlapped>>

\* init_procfs_handler gives the buffer back when there is no entry, and the
\* error path of currency_converter_init, which it is told to take, gives it
\* back again: cleanup_buffer clears its argument, not proc_buffer.
LoadProcEntry ==
  /\ currency = "buffer"
  /\ currency' \in {"file", "oops"}
  /\ UNCHANGED <<values, calls, overlapped>>

\* sysfs_handler_init.  If it fails the proc file is taken away again, which
\* waits for the writes; without a class it goes on with an error pointer.
LoadFactorFile ==
  /\ currency = "file"
  /\ \/ currency' \in {"factor", "oops"} /\ UNCHANGED currency_buffer
     \/ ~Writing /\ currency' = "absent" /\ currency_buffer' = None
  /\ UNCHANGED <<conversion_factor, last_converted_value_request, calls, overlapped>>

\* The callbacks: of the factor, of the result, of the number.
LoadCallback ==
  /\ currency' = CASE currency = "factor" -> "change" [] currency = "change" -> "result"
                   [] currency = "result" -> "loaded" [] OTHER -> "none"
  /\ currency' # "none"
  /\ UNCHANGED <<values, calls, overlapped>>

\* The factor goes first.  Each file waits for its own calls to return.
UnloadFactorFile ==
  /\ currency = "loaded" /\ ~Storing
  /\ currency' = "unloading"
  /\ UNCHANGED <<values, calls, overlapped>>

UnloadProcFile ==
  /\ currency = "unloading" /\ ~Writing
  /\ currency' = "absent" /\ currency_buffer' = None
  /\ UNCHANGED <<conversion_factor, last_converted_value_request, calls, overlapped>>

-----------------------------------------------------------------------------
(* Converting.                                                             *)

Abs(n) == IF n < 0 THEN -n ELSE n
\* Division and remainder of C, which round to zero.
Quotient(a, b) == IF (a < 0) = (b < 0) THEN Abs(a) \div Abs(b) ELSE -(Abs(a) \div Abs(b))
Remainder(a, b) == a - b * Quotient(a, b)

Conversion(number, factor) ==
  LET hundredths == Quotient(number * Hundredths, factor)
  IN [is |-> "result", full |-> Quotient(hundredths, Hundredths),
      remainder |-> Remainder(hundredths, Hundredths)]

\* convert_currency, and conversion_result_ready if it has been set.
Convert(number) ==
  /\ currency \notin {"absent", "oops"}
  /\ currency_buffer' = IF currency \in {"result", "loaded", "unloading"} /\ conversion_factor # 0
                        THEN Conversion(number, conversion_factor) ELSE currency_buffer
  /\ currency' = IF conversion_factor = 0 THEN "oops" ELSE currency

Begins(p, at) ==
  /\ calls[p] = NoCall
  /\ calls' = [calls EXCEPT ![p].at = at]
  /\ overlapped' = \E q \in Process \ {p} : calls[q] # NoCall

\* procfs_write_callback clears the buffer ...
WriteNumber(p) ==
  /\ currency \in {"file", "factor", "change", "result", "loaded", "unloading"}
  /\ Begins(p, "copy")
  /\ currency_buffer' = Raw
  /\ UNCHANGED <<currency, conversion_factor, last_converted_value_request>>

\* ... and fills it.  handle_procfs_data_arrived, if it has been set, takes
\* the number out; what is no number is 0.
WriteArrives(p) ==
  /\ calls[p].at = "copy" /\ currency # "oops"
  /\ currency_buffer' = Raw
  /\ IF currency \in {"loaded", "unloading"}
     THEN \E number \in Numbers \cup {0} :
            calls' = [calls EXCEPT ![p] = [at |-> "convert", number |-> number]]
     ELSE calls' = [calls EXCEPT ![p] = NoCall]
  /\ UNCHANGED <<currency, conversion_factor, last_converted_value_request, overlapped>>

WriteConverts(p) ==
  /\ calls[p].at = "convert"
  /\ Convert(calls[p].number)
  /\ calls' = [calls EXCEPT ![p].at = "remember"]
  /\ UNCHANGED <<conversion_factor, last_converted_value_request, overlapped>>

RememberedNever(number) == last_converted_value_request   \* mutant: the number is forgotten
Remembered(number) == number

\* handle_procfs_data_arrived remembers the number when it has been converted.
WriteRemembers(p) ==
  /\ calls[p].at = "remember" /\ currency # "oops"
  /\ last_converted_value_request' = Remembered(calls[p].number)
  /\ calls' = [calls EXCEPT ![p] = NoCall]
  /\ UNCHANGED <<currency, currency_buffer, conversion_factor, overlapped>>

\* currency_factor_store; what is not positive is ignored.
StoreFactor(p) ==
  /\ currency \in {"change", "result", "loaded"}
  /\ \E factor \in Factors :
       /\ factor > 0
       /\ conversion_factor' = factor
  /\ Begins(p, "store")
  /\ UNCHANGED <<currency, currency_buffer, last_converted_value_request>>

StoreConverts(p) ==
  /\ calls[p].at = "store"
  /\ Convert(last_converted_value_request)
  /\ calls' = [calls EXCEPT ![p] = NoCall]
  /\ UNCHANGED <<conversion_factor, last_converted_value_request, overlapped>>

CurrencyNext ==
  \/ LoadBuffer \/ LoadProcEntry \/ LoadFactorFile \/ LoadCallback
  \/ UnloadFactorFile \/ UnloadProcFile
  \/ \E p \in Process :
       \/ WriteNumber(p) \/ WriteArrives(p) \/ WriteConverts(p) \/ WriteRemembers(p)
       \/ StoreFactor(p) \/ StoreConverts(p)

CurrencySpec == CurrencyInit /\ [][CurrencyNext]_currencyVars

-----------------------------------------------------------------------------
(* The property.                                                           *)

\* When no call is under way and the last ones did not overlap, a result in
\* the file is the last number divided by the factor, rounded to zero: each
\* change of the factor has reached it, although it was made elsewhere.
\* Calls that overlap, two writes, two stores or one of each, may leave the
\* result of another number or factor; the next call that has the module for
\* itself puts that right.  And a write or a store, in whatever stage of
\* loading or unloading it runs, never meets the buffer given back.
ResultIsCurrent ==
  /\ currency # "oops" /\ ~Writing /\ ~Storing /\ ~overlapped
     /\ currency_buffer.is = "result" =>
       LET shown == currency_buffer.full * Hundredths + currency_buffer.remainder
           wanted == last_converted_value_request * Hundredths
       IN /\ Abs(shown * conversion_factor) <= Abs(wanted)
          /\ Abs(wanted) < (Abs(shown) + 1) * Abs(conversion_factor)
          /\ shown # 0 => (shown * conversion_factor < 0) = (wanted < 0)
  /\ Writing \/ Storing => currency_buffer # None
=============================================================================
