# A verification project for EmbeddedBasecamp

EmbeddedBasecamp is a course repository: fifteen exercises, nine tasks and a
final project, a reminders screen that runs in user space (LVGL, C++ and C) and
draws through a display driver of its own (a Linux kernel module). This
directory holds TLA+ modules of the parts with logic of their own, TLC
configurations that check them on small instances, and TLAPS proofs, for every
value of the constants, of every safety property that the runs check and of
the refinement.

Contents: 1 inventory, 2 modules and how they correspond to the code, 3 runs,
4 fairness, 5 proofs, 6 what is only model-checked, 7 what is not modelled,
8 plan.

To check everything: `tlc -config X.cfg X` for each configuration `X.cfg` (the module
has its name), and `tlapm M.tla` for `SeqLemmas`, `RingLemmas` and each module `*_proofs`.

## 1. Inventory

Paths are relative to `src/`; `app/` stands for `final_task/userspace_app/`,
`view/` for `app/lvgl_lib/application_view/`, `drv/` for
`final_task/display_driver/`.

### The final task

| component | state | operations | interacts with |
|---|---|---|---|
| reminders model, `view/reminders_model/` (a copy without callbacks in `task8/kernel_module`) | `users_list`, `reminders_list`, a list of reminders in every user, `malloc`ed blocks, three callbacks | add/remove user, add/remove reminder, `handle_timer_tick`, the two clean-ups | calls the view back for every reminder that expires, in the middle of the tick's loop |
| linked list, `view/linked_list/` (the same file in `exercise4`, `task8`) | `next`/`prev` of intrusive nodes | add, delete, replace, swap, move, rotate, cut, splice, tests, walks | embedded in the model's and the dice game's structures |
| reminders view, `view/example.cpp` | button list, message boxes, label, scroll index | constructor, tick, auto-scroll, click, destructor | drives the model from two LVGL timers; all callbacks go through `CallbackConnector`, which keeps one static slot per signature |
| application, `app/main.cpp`, `app/ap_application.cpp`, `app/lvgl_lib/` | loop flag, tick flag, detached thread, draw buffers, open device | loop pass, tick thread, timer handler, flush | runs the view's timers; writes frames to the driver's device |
| logger, `app/logger/` | one atomic flag | `logDebug`, `logDebugEndl` | called from LVGL callbacks |
| display driver, `drv/` | SPI device, pins, frame buffer, character device | load, setup transfers, open/write/close, unload | many processes may write; the SPI core serialises transfers |

### Tasks and exercises

| component | state | operations | hard behaviour |
|---|---|---|---|
| task threads, `task9/` | three lists, completions, worker threads | start, wait, free | threads read what init frees |
| test programs, `task8/kernel_module/` | the model's | `test1` to `test4` | the clean-ups, failing `kmalloc` |
| guessing game, `task2/` | shell globals | three parameters, the game | functions share variables |
| messenger, `task6/` | message buffer and its fill, status texts | read, write, clear, three proc files | no lock; lengths in `size_t` |
| time tracker, `task7/` | last use, mode, two texts, random timer | proc and sysfs handlers, timer | self-arming timer against deinit; text formatted while read |
| currency converter, `task5/part02` | number, factor, result text | write number, write factor, load | two files, one result, no lock |
| string converter, `exercise10/part03` | two buffers, mode | write, read | terminators; one read position for all |
| run-length codec, `task3/` | none | encode, decode | pieces of `fgets` that are not those of the other program |
| counter and buttons, `task4/` | counter, press counts, picture, display | poll, count, draw, send | digits of a longer number stay; between two thresholds |
| pollers, `exercise6`, `exercise7` | last level, polls | poll | failed reads, edges |
| drawing, `drv/gc9a01.c` | frame buffer | fill, characters, text | addresses past the end |
| dice game, `exercise4/` | players, throws | play, score, clean up | lists in lists, negative counts |
| character devices, `exercise11/` | open counter, nodes | open, release, load | check then increment |
| timers, tasklets, work queues, interrupts, `exercise13`, `exercise15` | what is pending, what is running | init, handler, exit | exit against a running handler |
| clock driver, `exercise12/` | registers, shared result | show, probe, remove | seven transfers while the clock runs |

### What makes each modelled component correct

* **Reminders model.** Each block hangs in two lists at once, so: no list or back
  pointer reaches freed memory, every block is reachable, the two lists agree,
  the queue is sorted at every step (insertion alone keeps it so), and a
  reminder set for *n* ticks is announced in exactly the *n*-th.
* **Linked list.** The pointers are one ring that represents the sequence of the
  insertions; walks survive the deletion of the entry they stand on.
* **View.** Buttons mirror the queue also while a tick removes reminders; no
  button outlives its reminder; every reminder gets its message box.
* **Application.** One clock thread, which never reads a destroyed backend;
  timers keep running.
* **Logger.** Messages are not lost beyond what its inverted flag loses.
* **Display driver.** The pin matches the transfer, the screen settles on the
  buffer, the buffer outlives the calls.
* **Task threads.** What a thread reads outlives it; loading ends.
* **Kernel modules.** They take no lock, so the properties are of the form
  "whoever is not disturbed gets ..." and "goes wrong only if ...", with the exact
  condition: which race, which length, which failed step.
* **Programs.** The output is what a definition without loops says it is, and the
  inputs for which it is not are named.

The hazards behind these, each at its line, are listed in `PROJECT.json`
("hazards") with the properties that would catch them.

## 2. Modules

| module | models | size and shape |
|---|---|---|
| `Reminders` | `reminders_model.c` | one action per call; `handle_timer_tick` is one step per reminder visited, because it calls out in the middle |
| `Calendar` | nothing in the code: what the model promises | names with agendas, and reminders by the ticks they wait |
| `RemindersRefinement` | the mapping between the two: what waits *k* ticks is a stretch of the sorted queue | `ImplementsCalendar` |
| `LinkedList` | `linked_list.h`, pointer by pointer | two history variables: intended sequence, visited entries |
| `RemindersView` | `example.cpp`, `CallbackConnector.hpp` | extends `Reminders`, whose actions its callbacks call, with the widgets |
| `Application` | `main.cpp`, `ap_application`, `gs_lvgl_service.cpp`, `gs_platform_layer.cpp` | main thread and tick threads |
| `Logger` | `logger_service_impl.cpp` | one program counter per thread |
| `DisplayDriver` | `drv/` | init, any number of writers, the bus, and where the display puts what it is sent |
| `TaskThreads` | `task9/module_main.c` | init function against the workers |
| `GuessNumber` | `task2/guess_the_number.sh` | one action per function |
| `ListNodes`, `Lists`, `ListOps` | every `list_head` operation of `linked_list.h` | operators on a memory of pointers, statement by statement; several lists and the sequences they stand for |
| `KernelReminders` | `task8/kernel_module` | the copy of the model on those pointers, and its tests; a walk that changes its list takes one step for each entry |
| `Kernel` | | what the kernel modules share |
| `Messenger` | `task6` device and sysfs file | a call is split at every use of the shared length and buffer |
| `ProcFiles` | proc files of `task6`, `exercise10/part01` | three files that are written and read, and the position all readers share |
| `TimeTrack` | `task7` files | one step per call |
| `StringConverter` | `exercise10/part03` | buffers that keep what was there; a write is a step for each block of memory it goes through |
| `Currency` | `task5/part02` | any number of writes and stores; a write clears, fills, converts, remembers, a store sets and converts |
| `CharDevices` | `exercise11` | test, load and store of the open counter |
| `DeferredWork` | `exercise13`, `exercise15`, the timer of `task7` | jobs pending or running, and what each exit waits for |
| `ClockDriver` | `exercise12` | one step per register |
| `RunLength`, `DiceGame`, `Drawing` | `task3`, `exercise4`, `drv/gc9a01.c` | one step per run, pair, throw and character, beside a reference definition |
| `PinEvents`, `Buttons`, `CounterApp` | `task4`, `exercise6`, `exercise7` | press counting; three pollers on one history of samples; the counter program |
| `MCPrograms`, `MCKernelModules` | | the small programs, and the kernel modules but for the string converter, side by side |
| `SeqLemmas`, `RingLemmas` | | lemmas about sequences, and about what the list operations do to rings of pointers |
| `Reminders_proofs`, `LinkedList_proofs`, `DisplayDriver_proofs` | | proofs about the module of that name; the first also of the refinement, and about `RemindersView` |
| `FinalTask_proofs` | | proofs about `Application` and `Logger` |
| `KernelModules_proofs` | | proofs about the modules that `MCKernelModules` puts together, `StringConverter` and `TaskThreads` |
| `Programs_proofs` | | proofs about `CounterApp`, `DiceGame`, `Buttons`, `Drawing`, `ListOps` and `RunLength` |
| other `MC*` | | values of the constants for TLC; `RemindersRefinement`, `Logger`, `GuessNumber` and `DisplayDriver` get theirs in their `.cfg` alone |

Definitions carry the names of the functions and variables they stand for;
`PROJECT.json` ("map") gives the lines of each.

**Heap and lists.** In `Reminders` the heap is a pair of functions from the
allocated block addresses to their contents: `malloc` is `Put` of any address
that is free now, so addresses are reused as `malloc` reuses them, and `free` is
`Drop`. A list is the sequence of its blocks. That abstraction is justified
in `LinkedList`: `RingIsItems` says that the pointers represent the sequence,
and the loop that deletes where it stands is `WalkStaysOnRing` and
`WalkIsComplete`. Failing allocations are the alternative that changes nothing.
The text of a reminder is left out, and a failure to allocate it is the same
alternative, as the code frees the block it had.

**What clients do.** `remove_user` frees a user and leaves its reminders with
a dangling `belongs_to`. No caller in the repository removes a user that has
reminders, so `ClientRemovesUser` has that as its guard; the mutant that drops
the guard violates `NoDanglingPointers`. The clean-ups come in the order in
which every caller makes them.

**The view's callbacks.** `obtain_connector` keeps the method in a static slot
per tag and signature, so the two callbacks that take a reminder share one; the
variable `connector` is that slot. The constructor enumerates the queue through
the first, then re-targets the slot: `ConnectLate` shows what the order is worth.

**Undefined behaviour.** `m_applicationRuning` is read without ever being given a
value: `Init` of `Application` chooses either. LVGL is given the addresses of the
two draw-buffer vectors instead of those of their elements
(`gs_lvgl_service.cpp:70-71`), so every frame is drawn over the vectors and over
the members behind them. The vectors' elements, the implementation pointer and
the view pointer are not used again while the loop runs, and the frame ends
inside the first vector's storage, which is next on the heap; but the backend's
tick flag is read on every pass. It gets a byte of row 0 of the picture, which is
the screen's background outside the round list; neither that colour nor a
message box's shade over it has a byte that is 0, so the flag reads true
(`Drawn`). `DrawnBlack`, the same with a black picture, violates
`OneTickThread`.

**Side by side.** `MCPrograms` and `MCKernelModules` extend modules that share no
variable; each has its own `XInit`, `XNext` and `xVars`. The variable `program` or
`module` picks one, which runs while the others stay as they are, so
that one run explores the union of their state spaces and not the product. No
interaction is lost: no program of the repository uses another's device. The string
converter, whose writes overlap in many ways, has a run of its own.

**Calls without a lock.** A kernel call is split where another process can make a
difference: at every access to shared state. What a compiler may do with a
racing variable is a choice: `Messenger` reads its length anew at every use (the
comparison of a read and the assignment behind it are two) and
may store it before it is cut. `copy_to_user` and `copy_from_user` may fail; what
the latter cannot copy it fills with zeros. Overlapping
writes to `StringConverter` and `Currency` share every buffer. In the first a step moves
a block: the message into the input, the input into the copy whose words are cut, the
words, the copy or the capitals into the output, the NUL at its end. In the second the
number that an overlapped write takes out of the buffer may be anybody's, a mixture, or
nothing, so it is any. In `TimeTrack` a call is one step, because its state is between
calls: the text, the position and the ready flag.

**Without memory.** Where the code uses a result it has not looked at, the module ends in
`oops`: the class of `Messenger`, `StringConverter` and `Currency`, the character device of
`DisplayDriver` when it is taken back without ever having been made, the second `kfree` of
`Currency` when the proc entry cannot be had. `Messenger` without its buffer loads and
lives on, until the first byte that a call copies or clears.

**Display.** A frame is a sequence of chunks; copying into the frame buffer and
shifting it out proceed chunk by chunk and interleave. Commands, their arguments and
drawing are "a transfer of that kind" and "any contents of the buffer". A frame is sent as
pixels alone: init alone sends the command that says where they begin, and
after a whole frame the display is at its first pixel again. So the display keeps
a write position, `origin`, and a frame that breaks off half-way turns every later one;
`addressed` says that no command was lost, and without that the display may show anything.
LVGL, the
SPI core, `kthread_run`, `complete` and the module loader are external and
modelled by how the code uses them. The pictures themselves are in `Drawing`,
where a frame buffer is a set of addresses with memory behind it.

## 3. Runs

Sizes are distinct states.

| run | instance | shows |
|---|---|---|
| `reminders_safety` (14 270) | 2 names, 2 user blocks, 4 reminder blocks, times -1, 0, 1, 2, floor -2, symmetry | `NoDanglingPointers`, `NoLeak`, `ListsAgree`, `SortedByTime` |
| `reminders_refinement` (4 915) | 2 names, 3 reminders, times 1, 2 | `ImplementsCalendar`, `NoneOverdue`, and under fairness `EveryReminderEnds` |
| `linked_list` (1 933) | 4 entries, symmetry | `RingIsItems`, `WalkStaysOnRing`, `WalkIsComplete` |
| `reminders_view` (27 553) | 2 users, one added twice; 3 reminders, two due together | `ButtonsMatchQueue`, `ClicksAndScrollsFindTheirTarget`, `EveryReminderIsAnnounced` |
| `application` (2 218) | timer periods 1, 2, 3 | `OneTickThread`, `TimersKeepGoing` |
| `logger` (11 783) | 2 threads, 4 calls | `OneMessageShort`, `SomeCallReturns` |
| `display_driver` (73 407) | 2 writers, 2 pictures, 2 chunks | `BufferOutlivesCalls`, `PinMatchesTransfer`, `SettledScreenIsBuffer`, `WritesReturn` |
| `task_threads` (4 164) | the three tasks of the code, delays 70, 40, 10, total 100, in tens of ms | `DataOutlivesThreads`, `PrintsOncePerDelay`, `LoadingEnds` |
| `programs` (44 538) | see below | `RoundTrip`, `GameIsFair`, `EventsMatchHistory`, `DisplayShowsCounter`, `DrawnAsAsked`, `RingsAreLists` |
| `kernel_modules` (507 305) | 2 processes, symmetry; see below | `MailboxWhenAlone`, `LeavesBufferOnlyByUncutLength`, `ReaderGetsText`, `LastUseIsTold`, `ResultIsCurrent`, `OneHolderAndNodesDriven`, `NothingRunsUnloaded`, `ShownTimeIsNotBehind`, `TestsStayInTheirMemory` |
| `string_converter` (2 568 853) | 2 processes, symmetry; 2 messages, a buffer of 4 | `MessageIsConverted` |
| `guess_number` | range 1..3, guesses 0..4 | `FirstParameterIsFirstGuess` is violated |

Every inductive invariant of section 5 has a type invariant as one of its parts
(`TypeOK` of `Reminders` and `LinkedList`, `TypeInv` or `...Shape` of the others),
proved for every size; no run spends a property on it.

### What the runs of the logger, the display and the small modules show

| property | says | goes wrong |
|---|---|---|
| `RoundTrip` | decoding gives the text back | for a run longer than nine or an encoded line longer than the decoder's buffer |
| `GameIsFair` | everybody plays as often as asked for, and the exit leaves nothing in memory | |
| `EventsMatchHistory` | each press of a pin is one event of the right length | presses between the two lengths are none (`task4`) |
| `DisplayShowsCounter` | the display starts with the counter's digits | after 10 the number 9 shows as 90 |
| `DrawnAsAsked` | a call draws what it says | a rectangle that ends one column or line past the edge is taken for inside; text too long for the screen leaves the frame buffer by one character |
| `RingsAreLists` | each list operation makes the list it promises, in both directions | |
| `SettledScreenIsBuffer` | once all calls have returned the screen shows the buffer | after a transfer that failed half-way: every picture from then on is turned by as much; after a command that failed: anything |
| `SomeCallReturns` | as long as a thread logs, some call returns | a thread may be overtaken for ever: it finds the flag set each time by a thread that came, set it and left |
| `MailboxWhenAlone` | an undisturbed read gets what the undisturbed call before it left, once | |
| `LeavesBufferOnlyByUncutLength` | the message buffer is only left through a length published and not yet cut | two writes, or a write and a read, that overlap |
| `ReaderGetsText` | an undisturbed reader that starts at the beginning gets the whole text | all but the first reader of the example file after a write; the remaining size of `task6`, which is copied from another file's position and is right only when it fits one call |
| `LastUseIsTold` | a visit of `last_accessed` is told the time since the last call before it that gave the start of a text, of either file | that is not the last use: a call that goes on with a text, or finds its end, does not restart the count |
| `MessageIsConverted` | after a write that met no other the result is the conversion of its message, whatever overlapping writes left behind | writes that overlap; the last word of a flip, behind which an earlier message shows; a message that fills the buffer |
| `ResultIsCurrent` | the result is the last number divided by the current factor, and no call finds the buffer given back | calls that overlap, until the next one that has the module for itself |
| `OneHolderAndNodesDriven` | one process has the device; every node has a driver | an open between another's test and count |
| `NothingRunsUnloaded` | no function of an unloaded module runs | a timer that arms itself during `del_timer`; works and handlers left by a failed load |
| `ShownTimeIsNotBehind` | a torn time is never an old one | it may be up to an hour ahead |
| `TestsStayInTheirMemory` | no call, and no step of a walk that frees what it stands on, follows a pointer to freed memory | one user of `test4` is never freed |

These conditions are part of the properties: outside them the promise must hold,
and a mutant of the code that weakens one makes its run fail.

### Bounds, and why they are enough

* Four reminders over two users: an entry before, between, behind and equal to
  others in the queue, and two reminders of one user around one of another.
  Times on both sides of 0 reach every branch of the comparison and of the test
  for 0. `Floor` only stops time from running away: no tick starts once a
  remaining time is that low, and a reminder below 0 is only counted down.
* Three reminders in the refinement: two due in one tick with a third behind
  them, the case in which the walk must not skip the successor.
* Four list entries: a deletion has, at each of its sides, the head or another
  entry, and one entry is left over to be inserted.
* View: five seconds are one tick, so the script's times keep their order, and
  two reminders are due together, as in the code, which reaches removals in
  the middle of a tick with buttons left. Scrolling turns at both ends.
* Application: the refresh is the fastest of the three timers, as 30 ms is
  against 1000 and 1500.
* Logger: two threads can hand the flag to each other; in four calls each is
  first and last, alone and not alone. `MaxCalls` is a bound of the search alone: neither
  property depends on it. (That *every* call returns would: the code does not promise it.)
* Display: failing transfers leave the write position at either chunk.
* Display: two chunks are enough for a torn frame, and two writers for a write
  that overtakes another at any step. Lengths go from 0 to one chunk too many.
* Kernel modules: two processes, since each race named is one of two calls.
  A `size_t` has 16 values and a message buffer holds 2 characters (messages of 1 and
  3: shorter and longer than the buffer), so that a difference below zero is a
  number larger than any buffer, as in the code. Seconds are 2 jiffies, time ends
  after 6; texts are longer for larger numbers, which lets a text shrink under its
  reader. The clock counts to three
  at each place, so that every carry happens. Three user blocks and five
  reminder blocks are what the largest test of `task8` has at one time.
* String converter: again two processes. The buffer of 4 is filled by a message that
  a fault cuts anywhere, so that strings of every length, with a blank on either side of
  a word of two letters, pass through it; behind the second message, of one letter, the
  rest of the first shows.
* Programs: a line buffer of 12 against texts of up to 14 cuts runs in the middle, on both
  sides of nine; 7 polls hold a
  press of each length and a second one; the counter reaches two digits; a screen
  of 7 by 5 with characters of 2 by 2 has a column and a line that fit no character,
  and 8 characters run past its end; two lists of four entries together.

Two sizes come from the search alone: the kernel reminders take the first free
block, and are loaded once, since blocks are interchangeable and a second load
starts like the first.

Deadlock is checked in `reminders_safety`, `reminders_refinement` and
`linked_list`, whose systems never stop. Everywhere else the system may come
to rest: the program ends, a loop flag was false, a thread waits for ever, the
bounded number of calls is used up.

### The disagreement

`task2/readme.md:6` says that the random number is compared with the first
parameter. `checkAvailableUpperRange` has overwritten it with the second.

## 4. Fairness

All fairness is weak, except one strong condition, and comes from a scheduler.

* `Reminders`, `RemindersView`: LVGL's handler keeps calling the timer callback
  while the application runs (shown in `Application`: `TimersKeepGoing`), a call
  that has begun runs to its end, constructors and destructors run through. Clients, clicks and the destructor are not fair: nobody has to come.
* `Application`: the scheduler runs both threads and sleeps end.
* `Logger`: every thread in a call runs. The flag makes nobody sleep. That is enough for
  some call to return, not for each: which thread tests the flag when it is clear is up to the scheduler.
* `TaskThreads`: the loading process and every thread that exists run.
* `DisplayDriver`: calls and transfers run on; the strong condition is on
  `Begin`, because `spi_sync` queues those who wait for the bus in the order they
  came, so one that finds the bus free again and again gets it. Opening, writing
  and loading are not fair.

* `MCPrograms`, `MCKernelModules` and `StringConverter` state safety only, and no fairness.

Failures are never fair. Where a property needs them not to happen, it says so
(`LoadingEnds`: all threads end whatever happens, and loading returns with everything
freed unless `kthread_run` failed, when it waits for ever, or memory was short,
when it dies in the unchecked use; `TimersKeepGoing`: unless the program
was terminated).

## 5. Proofs

A theorem states its property for every value of the constants that satisfies the
assumptions of the module: `RemindersAssumption` (times are integers), `ViewAssumption`
(the script adds users and reminders with names and times), `HorizonAssumption`,
`LinkedListAssumption`, `ListOpsAssumption` and `NowhereIsNoNode` (heads, entries and poison
differ), `KernelRemindersAssumption` (finitely many blocks, and none is both a user's and a
reminder's),
`DisplayDriverAssumption` (at least one chunk; nobody is called like the initialisation or
a free bus), `ApplicationAssumption` (periods are positive), `LoggerAssumption`,
`DeferredWorkAssumption` (finitely many threads, jobs numbered from 1),
`TaskThreadsAssumption` (delays are positive), `CharDevicesAssumption`, `CurrencyAssumption`,
`DiceGameAssumption`, `CounterAppAssumption`, `MessengerAssumption`, `ProcFilesAssumption`,
`StringConverterAssumption`, `PinEventsAssumption`, `ButtonsAssumption`, `DrawingAssumption`
(numbers are integers, sizes positive, messages strings), `RunLengthAssumption` (a buffer
holds at least one character, texts have no terminator in them), `TimeTrackAssumption` (the
counter wraps at a multiple of the tick rate) and `ClockAssumption` (the registers count
in a base from 2 on). The sets of names, blocks, entries, processes, writers and frames
are otherwise arbitrary, infinite ones included where it does not say finitely many.
The bounds that only stop TLC
(`Floor`, `MaxCalls`, `MaxPolls` and their like) are any numbers, so the theorems hold
without them.

Every safety property that a passing run checks is proved. None of them is inductive alone; what each needs is the following.

**`SeqLemmas`** states what `Append`, `InsertAt`, `RemoveAt` and `RemoveFirst` do to the
range, the injectivity and the positions of a sequence, and that a set of numbers
has a least one.

**`Reminders_proofs`.** Unlinking an
expired reminder from its user's list only keeps `ListsAgree` if the user is
allocated, which is `NoDanglingPointers`; that frees nothing that is still
linked needs both lists injective and in agreement; that a fresh block is in no
list needs that lists hold allocated blocks only. So

    HeapInv == TypeOK /\ NoDanglingPointers /\ NoLeak /\ ListsAgree /\ ClosingShape

is proved inductive, with one lemma per action; `ClosingShape` (between the two
clean-ups there is no user and no tick) excuses the dangling `belongs_to` of that
moment. From it: `TypeCorrect`, `NoUseAfterFree`, `NothingLeaks`, `BothListsAgree`;
`NamesAreUnique` adds the names. `AlwaysSorted` is proved of `Left`, the time left
*once the running tick has reached the entry*: the raw times are not sorted
half-way through a tick, and this is the strengthening that makes insertion,
counting down and removal preserve the order. `NeverOverdue` follows with the
assumption that all times asked for are positive.

**The refinement.** `LibraryIsCalendar` is `Spec => ImplementsCalendar` for clients that
ask for positive times, `Times \subseteq 1 .. Horizon`. (A time of 0 or less is
never announced by the code, so the premise is what clients owe; the test programs and
the screen keep it.) Each step maps to a step of the calendar or to a
stutter, given `CalendarInv`: `HeapInv`, distinct names, and the ticks left sorted and
within the horizon. The mapping cuts the queue into the stretches that wait the same
number of ticks, and the lemmas say how an insertion, a removal and a tick move their
borders: an insertion enters at the end of its stretch, which is why reminders
set for one tick are announced oldest first.

**`Reminders_proofs`: the screen.** `ViewInv` adds to `HeapInv` how the stage of the screen goes
with the rest, and that the buttons are the queue. Every step of the screen is one
of the library or leaves it alone, so `ViewIsClient` is `ViewSpec => Spec` and all
that is proved of the library holds under the screen, the refinement included
(`ScreenIsCalendar`). `ButtonsAlwaysMatchQueue` and `ClicksAndScrollsAreSafe` follow.

**`LinkedList_proofs`.** `ListInv` joins the type, the ring, the poisoned fields of
unlinked entries, and for a walk: where the cursors stand relative to the
intended sequence, and that the visited entries are those before them or
deleted. `ListInvariant` is its theorem; `RingRepresentsSequence`,
`WalkNeverStrays` and `WalkMissesNothing` follow.

**`Programs_proofs`: the list operations.** `EveryRingIsItsList` is about all operations
of `linked_list.h` on any number of lists. `RingsInv` says that each list with its
head is a ring, and that no two share an entry. Rings are cut into segments: an operation
writes the fields at the ends of a few segments only, so those inside stay
linked (`SegmentIsKept`), as do all other rings (`RingIsKept`), and two lemmas join
segments back into rings (`Closed`, `RingOfTwo`). These lemmas are in `RingLemmas`. What is delicate is that the arguments may
be neighbours, the same, or next to the head, so that a statement reads what the one before
it has written: each operation has a lemma that evaluates its statements in their
order (`ReplaceIs`, `BulkChain`, `CutChain`). For `list_swap` the lists are maps
of the old ones, which needs no case for neighbours.

**`FinalTask_proofs`.** `OnlyOneTickThread`: the backend's flag has the value that goes with
the thread, because a thread is only started in a loop that never ends (`AppInv`).
`AtMostOneMessageShort`: `Accounts` is a count, of the messages printed against the calls that have
returned, the flag, and the threads that have printed and not cleared it; `InOrder` says
what is printed when no two calls meet.

**`DisplayDriver_proofs`.** No lock guards the data/command pin, and `PinMatchesTransfer`
is still true, because everybody who is in a call at the same time wants the same
value: while the driver is set up only the initialisation calls, and commands are sent
by nobody else (`OneKindAtATime`). With `PinIsSet`, `BusIsHeld`, `BufferIsThere` (who is in a
call finds the buffer) and `CopyFits` (lengths are cut before they are used) this is
inductive for any number of writers; `BufferOutlives` and `PinIsRight` follow.
`SettledScreen` adds `ScreenFollows`: when nobody is on the way to a transfer, the one on the
bus is the last, and what it has sent already is still what the buffer holds, at the
place where the display has put it; `PixelsOK` and `Uncut` say where that is: at the first
pixel as long as no command was lost and no frame was cut.

**`KernelModules_proofs`.**

* Task threads. That no thread outlives what it reads needs three facts
  at once. The lists are strictly rising sequences of tasks (`Rising`): a task that is
  started is put at the end of a list and taken from the front of the one before
  it, so none is listed, or started, twice. Who has a thread is on the list of started
  tasks (`Started`). And each completion that has been waited for belongs to a
  thread past its last use of the descriptor (`Waited`). Freeing comes after the last wait,
  hence `DataOutlives`. `PrintsAsOften` rests on `Counted`: what remains of a thread's
  time is its total less one delay for each line printed.
* `OneHolderNodesDriven`: unless two opens have met, the counter is where the holder is and a
  value still to be stored is the right one (`OneHolder`).
* `UnloadedModulesAreQuiet`: after the exit only those jobs remain that it does not wait for,
  or that a failed load had handed over (`StoppedIsQuiet`).
* `MessengerIsMailbox`, `OnlyUncutLengthLeavesBuffer`: for a call that has met no other, how far
  it has got (`AloneSoFar`), and that outside calls the device holds what a mailbox would; and a
  length that does not fit has been published by a write that has yet to cut it
  (`TooLongIsUncut`).
* `WholeTextIsRead`: an undisturbed reader has got the first characters, and the shared position is
  behind them (`CleanHasGot`).
* `UseIsTold`: the stamp is the time of the last call that gave the start of a text, which the history
  notes by itself, modulo the width of the counter, and who was given a
  part of a text still finds that text (`Stamped`, `WholeIsTold`). The difference of two
  stamps of limited width is the one of the times (`ModOfDifference`).
* `ResultFollowsFactor`: who is in a call has begun by itself or overlaps with all others that are
  (`CallsOverlap`); a write that began by itself has converted the number it is about to
  remember, and a store the number remembered (`AloneConverts`); and a file that still has calls in
  it is not taken away (`CallsMeanLoaded`), so that none meets the buffer given back.
* `MessagesAreConverted`: a write that met no other is the only one under way, and at each of its steps
  the block it has filled holds its message (`WritesMeet`, `Progress`), whatever the writes before it
  left there. The work is in what a buffer that keeps older characters does to the word at its end.
* `TornTimeIsNotBehind`: what was read so far are registers of times one after the other
  since the reading began (`ReadSeconds`, `ReadMinutes`, `ReadHours`), from which the bounds on the
  time shown are arithmetic.
* `NoTestTouchesFreedMemory`: the rings of `RingLemmas` are in a memory where each pointer is set, and
  in the kernel module blocks come and go. `Seen` is the heap as such a memory: the fields of
  freed blocks point to nowhere, or, if they are heads, to themselves. In it the lists are rings
  of live entries under live heads (`HasRings`), which the invariant ties to the data (`Data`):
  the users are in one list, the reminders in the queue, and each in the list of the user
  it belongs to, as long as that user is there. Each function keeps this (`UserAdded`,
  `ReminderAdded`, `NotificationRemoved`, `ExpiredRemoved`, `UserFreed`, `ReminderCleaned`), and a walk
  over `next` finds the entries of the ring and comes back (`RingIsWalked`). A user may be
  freed under its reminders because no call but `cleanup_reminders` follows, which does not
  look at it; a tick would. So what is left depends on the order of the calls: which may
  come after which (`TestsForm`), what the walk on its way has visited (`Behind`), and how
  far the last reminders of `test4` can be away (`Left`), so that none is there at the end.

**`Programs_proofs`: the others.**

* `CounterIsShown`: the frame starts with the digits drawn last and no more cells of it are in use than
  the longest number needed; and the messages to the display are enough for the last cell
  (`WholeFrameIsSent`).
* `EverybodyPlays`: the players on the list are numbered in its order and own all that is in memory
  (`Numbered`, `Reached`), and how often each has thrown at any point of the rounds (`Turns`).
* `EveryPressIsAnEvent`: what each poller counts is the stretch of polls it stands for, over
  any history of samples (`ButtonsInv`).
* `EveryCallDrawsAsAsked`: the addresses written are those of the part of the rectangle that is on the
  screen; and of a text what has been drawn so far, with the place of the last character: line and
  column are the quotient and the rest of its number by the characters of a line (`TextSoFar`,
  `QuotientAndRest`), and a character on a line that fits leaves the memory nowhere, one on the
  line below does (`InTheBox`, `BoxInMemory`).
* `DecodingRestores`: what is written codes what has been read, where a code is a sequence of pairs
  with the place in the text at which each ends (`IsCoding`). That the encoder's pieces and
  the decoder's are not the same does not matter to the first (`EncoderInv`: a run cut by
  the end of a piece is two pairs); the decoder must never read half a pair (`DecoderInv`), which
  holds because a piece ends with an end of line, the second of its pair, or with the
  file, as long as no line is longer than the buffer.

## 6. Only model-checked

* Liveness under fairness (`EveryReminderEnds`, `EveryReminderIsAnnounced`,
  `TimersKeepGoing`, `SomeCallReturns`, `WritesReturn`, `LoadingEnds`): outside this
  prover's reach.

## 7. Not modelled

* Glyphs and styles: the tables of `fonts.c`, the display's command table, colours.
* The configuration headers `lv_conf.h` and `lv_drv_conf.h`, and LVGL, SDL and the
  kernel's subsystems, except for how the code uses them.
* The `hlist` half and the remaining iteration macros of `linked_list.h`, which no
  program uses or which differ only in direction and `container_of`.
* `task8/kernel_module`'s printing; and the program of `task8/main.c`, which cannot be
  linked: the `task8/reminders_model/reminders_model.c` it is built from is commented out from
  end to end. (The same tests, in the kernel module, are in `KernelReminders`.)
* The SDL backend and the logger's builds for other platforms, which the
  final program does not use.
* Earlier forms of modelled code: `exercise10/part02`, `exercise11/part01/dyndev.c`,
  `task5/part01`.
* `exercise1`, `2`, `8`, `9`, `14`, `exercise10/demo_sysfs`, `task01`, `exercise13/interv.c`
  and `tick.c`, and the configuration of the board: scripts, hello-world modules, a memory benchmark, with no state that
  outlives a call.

Left out of modelled parts:

* the start of the view with no reminder at all;
* how two writes of the string converter mix within one block of memory: the
  characters of a block move in one step, and of what such writes make together nothing
  is said but that it does not show later;
* the unchecked `malloc`s of the dice game;
* the unloading of a module's text under a thread that is returning;
* texts of reminders and log messages, and everything that only prints;
* currency: the printed form (`%d.%d` loses the zero of 1.05) and numbers whose
  hundredfold overflows an `int`;
* a failing `copy_to_user` in the time tracker; `dev_read` of `exercise11`, which
  depends on the open file alone;
* `task4`: the time and the address beside the counter, a direction file whose getter
  returns nothing, pins that are not exported yet when the display is set up;
* the conversion between BCD and numbers, and the temperature, of the clock driver;
* the driver cannot be loaded again after a load that failed for want of memory:
  the model has these paths, but nothing in the repository says that it can be, so no
  property is stated.

## 8. Plan

1. Composition of `Application` and `DisplayDriver`: the frame the program flushes is
   the frame the screen settles on.
2. `KernelReminders` under any sequence of calls, not those of the tests alone, as a
   refinement of `Reminders`: the two proofs meet in `HeapInv` and `Data`.
