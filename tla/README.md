# Specifications of the CCVII assignments

TLA+ models of the programs of this repository, the runs that check them with
TLC, and proofs that TLAPS checks. The repository is a course's assignments:
eight small programs in C, which share a Makefile and nothing else. Each is
modelled on its own; seven of them are modelled, and six have theorems.

## 1. Inventory

| Program | State it keeps | Operations | What is hard in it |
|---|---|---|---|
| `005Threads`, log analyser | the log file's position, two hash tables, an error counter, four named semaphores | read a line; count its IP, its URL, its error; start and join the workers; print | four workers interleave at every load and store; semaphores outlive a killed run; `pthread_create`, `fgets` and `malloc` fail |
| `005Threads/lib/ht.c`, hash table | slots, capacity, length | get, set with expansion, iterate, destroy | open addressing with wrap-around, rehashing, a full table would probe for ever |
| `010PageReplace`, paging simulator | frames, counters, a circular queue, two pointer lists with pools | one access under FIFO, MIN, LRU or second chance; reset; display | pointer surgery, byte-sized indices, optimality, the state four policies share |
| `008Scheduling`, CPU scheduling simulator | threads, ready queue, Gantt chart, event log | one loop iteration of FIFO, RR, SJF, SRTF; statistics | order of arrivals and preemptions, queue membership, optimality of SRTF |
| `009VirtualMemory`, address translation | frames, page table, the map displayed | occupy at random, load the process, translate | boundary of the page table, narrow types, running out of frames |
| `003InterruptHandler`, bare metal | `isTick`, timer and interrupt controller registers | program the timer, handle its interrupt, main loop | the handler interrupts the main loop between any two instructions; what the boot loader left in the timer |
| `004Process`, shared memory | a System V segment, the children, `child_ids`, the buffer of `stdout` | fork, attach, read, wait, detach | a call that fails between two others; the segment and children outlive their parent |
| `002Calculadora`, bare-metal calculator | the characters not yet read, the buffer of `READ` | read a token and the rest of its line, convert, print | what one prompt leaves to the next; integer and float boundaries; uninitialised variables |
| `001HelloWorld_Qemu` | none | print a string | nothing |

Within a program the components talk by plain calls and globals: `main` owns
the tables and hands pointers to the workers; `logger.c` calls
`scheduler_reset` and then one access function per reference; `run_algo` hands
each scheduler a fresh copy of the threads. There are no messages. The only
concurrency is that of the workers of `005Threads`, of the timer interrupt of
`003InterruptHandler` and of the processes of `004Process`; the only state that
outlives a program is the named semaphores of `005Threads` and the segment of
`004Process`.

What makes each component correct, and what a test would hardly reach, is
listed line by line under "hazards" in `PROJECT.json`.

## 2. Modules

| Module | Models | Role |
|---|---|---|
| `LogEntries` | lines of the log, `sscanf`, the error range, the figures that are true of a log | data of the two analysers |
| `LogTally` | the promise: a run prints exact figures, or none; after a failed read they may be those of the first lines | abstract specification |
| `LogAnalyzer` | `005Threads` with `MULTITHREAD` 1 | state machine |
| `LogSingle` | `005Threads` with `MULTITHREAD` 0 | state machine |
| `LogAnalyzerProofs`, `LogSingleProofs` | | theorems |
| `Dict` | a map from keys to values | abstract specification |
| `HashTable` | `ht.c`, and its iterator as `get_most_visited` uses it | state machine |
| `HashTableProofs` | | theorems |
| `Ram` | `RAM.c`, `find_page`, `find_empty`, `access_result`, byte arithmetic | base of the policies |
| `NodeList` | the doubly linked lists of `scheduler.c` | operators on pointers |
| `FifoPolicy`, `MinPolicy`, `LruPolicy`, `SecondChance` | the four access functions | actions |
| `PageReplace` | `logger.c` and `main.c`: the policies in succession | composition of the five above |
| `EvictionQueue` | resident pages in the order they are to go | abstract specification |
| `PageReplaceProofs` | | theorems |
| `CpuLog` | `gantt_push`, `log_event`, `check_arrivals` | base of the schedulers |
| `Scheduling` | the four schedulers and `main` | state machine |
| `CpuSharing` | one work-conserving CPU | abstract specification |
| `SchedulingProofs` | | theorems |
| `VirtualMemory` | `009VirtualMemory` | state machine |
| `VirtualMemoryProofs` | | theorems |
| `TimerInterrupt` | `main.c`, `timer.c` and `root.s` of `003InterruptHandler` with the timer they program | state machine |
| `TimerInterruptProofs` | | theorems |
| `Processes` | `004Process` with the kernel's side of fork, waitpid and shared memory | state machine |
| `ProcessesProofs` | | theorems |
| `Conversions` | `atoi`, `itoa`, `atof` and `ftoa` of `002Calculadora` | operators on numerals |
| `Calculator` | `main`, `READ` and `PRINT` of `002Calculadora`, with the two input loops over the UART | state machine |
| `MC...` | | the instances TLC checks |

Definitions carry the names of the code where TLA+ lets them. `PROJECT.json`
gives under "map" the lines each stands for. An operator whose comment begins
with "Mutant of" (or "Mutant:") is no part of a specification: it is the
definition below it with a plausible mistake, and is there to show that a
property would notice.

### 005Threads

A step of `LogAnalyzer` is what another thread can tell apart: a `sem_wait`, the
`fgets`, a `sem_post`, the read of a count and its write. `at` and `step` are
a worker's place: the critical section it is in or heads for, and the step
there. Local computation (the `sscanf` after `sem_post(file_mutex)`) belongs to
the step before it. The hash tables are functions from keys to counts here, 0
for an absent key; that `ht.c` implements such a map is what `HashTable` is
checked for. The locals `ip`, `url` and `status` of a worker are its `entry`; they
keep what the previous line left when a line has fewer fields, and begin as
any member of `Junk`, since the code does not initialise them. `parsed` and
`counted` are history variables: what each line was read as, and which lines
were recorded in which tally. `sem` and `names` belong to the kernel: `names` says
which semaphores exist, so that `sem_open` with `O_CREAT` leaves the value of one
that does. A run may be killed between any two steps, or end in `process_multithread`
when `pthread_create` fails; both leave the semaphores as they are. `fgets` may fail before
the end of the file (`FgetsFails`): the worker takes its `NULL` for the end, as the comment at
`log_processor.c:39` says, while the others may read on; `main` joins them all and prints the
figures of the lines read (`main.c:141-144`). A directory in place of the file, which `fopen` opens,
is a file whose first reads fail. A log is the sequence of chunks that the successful calls of `fgets`
return, so that what is left of a line after a failure, or behind its 99th character, is a cut line
of its own. Runs follow one another, one at a time. Left out: the CPU time `main` measures, and a failing
`pthread_join`. A process killed in the middle of `semaphores_init` or
`semaphores_clean` is not distinguished: no worker exists then, so that no
semaphore is taken, and the next `semaphores_init` finds or makes them free.

`LogSingle` has the same data and one thread; one call of `parse_log_entry` or of a
`count_` function is one step. `ipLost`, `urlLost` and `readFailed` are history: the lines that met a
failing `ht_set`, and whether it was a failing `fgets` that ended the loop. `HashTable` keeps the slots of the table; the hash function is any
function of the keys, chosen at the beginning.

### 010PageReplace

All variables of `scheduler.c` are in the model: `fifo_queue` with its head and
count, and for LRU and second chance the pool, its pointers and how many of
its nodes are in use. A pointer is an index of the pool, `NULL` is -1. The policies
share `Ram`'s variables, so that what one leaves behind is there for the next until
`SchedulerReset`. An access is one step, except for the sweep of second chance,
which takes one step for each page it spares. `PrintRow` is one iteration of
the loop of `print_ram`; the rest of the display changes nothing and is left out.
`Byte` is 256 in the build; the run scales it down. The write to a negative index goes
to the heap in front of the array, which is the buffer of `stdout`; the model has it
change no frame.

### 008Scheduling

`Init` draws the threads (`rand_range` returns any number of its range). A step is one
iteration of the `while` loop of a scheduler; the loop over the instants of a
quantum in `scheduler_rr` is a sequence of arrivals sorted by time and number (`InOrder`).
`q` keeps everything that was ever put into the array and `head` how much of it was
taken, as the code does. A float average is represented by the sum it is made
of; the number of threads is the same for all the averages that are compared.

### 009VirtualMemory

`pc` is the statement of `main` that is next: the arguments, one draw of `RAM_init` (a step
for each pass of its loop), `ram_init`, one page of `load_process`, one line of the address
file. `Byte` stands for the 256 of the build, and the narrowing to `uint8_t`, `int8_t` and
`uint16_t` is that of the code. The assumption `2 * NumFrames <= Byte` is what keeps a frame
number positive in an `int8_t`, 100 of 128 in the build. `view` is the copy `main` displays;
the properties compare the translations with it. The byte behind the page table, which
`pt_get_pfn` may read (`page_table.c:52`), is any of `Junk`. `pt_create` may find no memory and
`fopen` no file; the code looks at neither result, and the first use ends the program.

### 003InterruptHandler

Each register write of `timer_init` and of `timer_irq_handler` is a step, and so is each
statement of `main`'s loop; `main` stands still while the handler runs, as it does on the
one processor. The timer and the interrupt controller are modelled as far as the
registers written here govern them. What the boot loader left in the timer and in the mask of its
interrupt is arbitrary, and so is `isTick`: it lies in `.bss`, which `objcopy` leaves out of the image
(`Makefile:47`) and `root.s` does not clear. Two things are taken for granted: that the processor's
interrupts are off at boot (`irqOn`), and that the interrupt controller does not still wait for the end of an
interrupt (`inService`). The code sees to neither: if they were on, an interrupt could come before
`root.s` has set up the vector table, and a controller that waits would let none through. `counter` and `reload` say whether a period is a whole one, counted
from `load_value`. `periods`, `handled`, `merged` and `shown` are history.

### 004Process

A step is one system call or one access to the segment, of the parent or of a child;
run `r`'s child `k` is `child[r][k]`. Runs follow one another on the segment that none
of them removes, also when the last parent was killed and its children still read.
`shmget`, `shmat` and `fork` may fail. A fork that fails leaves its slot of `child_ids` as the
stack had it: any child, one child, or no child's number. Of the output the model keeps the line
"Spawning children..." and the buffer it may lie in: `fork` copies that buffer, and on a
terminal it is empty by then.

### 002Calculadora

The user types one line after the other when `READ` waits; a step takes one character from the
UART. `endsInNL` is uninitialised, as in the code. Conversions are operators on sequences
of characters: an int wraps at its width, a float has `PRECISION` significant bits. Addition and the
`num *= 10` of `ftoa` round to the nearest float, of two equally near to the even one; the
difference in the condition of its loop is only asked whether it is 0, which it is for equal floats alone. `(int)num` cuts off, and yields the
greatest int for a float beyond the range, which C leaves undefined. Infinities, NaN and floats too small for
all their bits are left out. `atof` accumulates into an uninitialised variable and `ftoa`
compares with one, so that the first yields any number and the second may stop at once
for a whole one. `MCCalculator` states as an assumption, which TLC evaluates, that with the 24 bits of
the program `ftoa` prints what the demonstration shows: 3.13999, 2.5 and 5.64 (`Documentation.md:44`). `operands` is history: the line a value came from.

## 3. Runs

| Run | What it shows |
|---|---|
| `log_workers` | three workers: counts are exact at every step (`TallyExact`), every line goes to one worker and is recorded once (`LinesOnce`), no deadlock |
| `log_crashes` | two workers, two runs, one kill or failure: exclusion survives, figures are exact, or absent, or those of the first lines after a failed `fgets` (`TallySpec`), a run from free semaphores ends (`RunEnds`) |
| `log_single` | the single-threaded build: the counts are those of the lines read, one less for each failing `ht_set`; figures are printed after the last line or after a failed `fgets`, and are those of the lines read |
| `hash_table` | `HashTable` implements `Dict`, which includes the number of keys; probing ends; iteration visits each key once |
| `paging` | every policy is the `EvictionQueue` it should be; LRU holds the pages used last; MIN is optimal at each step against the minimum over all choices of the page to evict; each reference is served where its result says, with nothing left from the policy before; every run ends, with odd arguments as well |
| `scheduling` | each scheduler is a work-conserving CPU of its discipline; chart and figures agree; the queue of RR is exact; under RR nobody waits more than a quantum of each other thread; SRTF is optimal against the minimum over all schedules that do not idle while a thread could run; the log is complete; all schedulers return |
| `virtual_memory` | page table and frames are each other's inverse; a translation agrees with the map displayed; loading gives up only for want of frames |
| `interrupts` | no tick stems from what was left in the timer; each is printed once or is known to be merged or lost; each overflow reaches the handler; each tick that is not lost is printed |
| `processes` | a child reads its own message, also beside another run; the parent says that the children have finished only when they have; the line printed before `fork` is shown, on a terminal once; everybody ends |
| `calculator` | neither input loop leaves its buffer; a `READ` consumes its line and no other if the buffer has room; the ints and their sum printed are those typed; floats print as they are, up to the roundings of `float`, and within `conversion` |

Two more runs end in a violation, each of one statement that the repository makes and
the code does not keep:

| Run | What happens |
|---|---|
| `surviving_semaphores` | after a killed run `semaphores_init` leaves a semaphore at 0, and the next run blocks |
| `enough_room` | `RAM_init` accepts a draw that leaves fewer frames than the default process has pages, since the second of its two tests alone always holds (`memio.c:36`) |

### Known limits

The passing runs stay where the types of the programs suffice, or except what is listed
here. A property that excepts a case neither claims it nor would notice a change of what happens in it. Reading the code for the models showed where they do not, and what happens then.

`005Threads`:
- `errors` is a `uint16_t`: from 65536 errors on the analyser prints the number modulo
  65536 (`main.c:17`). The models keep this width.
- A line that is cut is counted with the status, or also the URL, of the line the thread
  read before (`log_processor.c:65`). The properties take a line for what it is read as.
- The rest of a line of more than 99 characters is counted as a line of its own, with an IP that is a piece
  of it. In the model it is a chunk like any other.
- After a read error the analyser prints the figures of the lines before it as if they were those of
  the file (`log_processor.c:39`, `main.c:141-144`). `TallySpec` and `ReportIsOfLinesRead` say so by their
  condition.

`010PageReplace`:
- `find_empty` returns an `int8_t`: with more than 128 frames the 129th page is stored in
  front of the array, in the buffer of `stdout` on the heap, and `ReferencesServed` fails
  (`scheduler.c:54`). In the model such a store changes no frame.
- Page 255 is `FRAME_EMPTY`: it is a hit as long as a frame is empty (`scheduler.c:48`).
- The loop variable of `print_ram` is a byte that goes up by ten. With 251 to 254 frames rows
  are printed again; with 255 the variable, which is always even, never reaches their
  number and the map is printed for ever (`logger.c:56`).
- The loops that wait for Enter do not look for the end of standard input (`logger.c:151`),
  and a query string of 4095 characters or more is copied without a terminator
  (`main.c:46`). Both are outside the model: input goes on, and is short.

`008Scheduling`:
- RR and SJF look for arrivals twice at one instant and log an arrival there twice
  (`scheduler.c:124` after `148`, `196` after `226`). `LogComplete` asks for one arrival of FIFO and SRTF only.
- FIFO logs a thread that starts when it arrives as started before it has arrived
  (`scheduler.c:89`), which is why `LogComplete` does not order these two events.
- The ranking of `Documentation.md:91` is not one of every workload: RR
  waits longer than FIFO when equal threads arrive together.

`009VirtualMemory`:
- The page number equal to the capacity is answered from the heap (`page_table.c:52`);
  `TranslationExact` excepts it and shows that no other page is concerned.
- The address file is not tested for having been opened (`main.c:67`), nor the page table for memory.

`003InterruptHandler`:
- A tick that comes between the test of `isTick` and its reset is lost (`main.c:23`).
  `TicksAccounted` counts it, and `TickShown` excepts it.
- A first "Tick" may be printed without an interrupt, because `isTick` is not initialised.

`004Process`:
- The segment is never removed (`main.c:67`).
- "Terminating" after a failed `fork` does not terminate anything: the loop goes on (`main.c:48`).
- Into a file or a pipe every child writes the lines of the parent's buffer once more.

`002Calculadora`:
- What does not fit the buffer is the answer to the next prompt; `OneLinePerRead` says so by
  its condition. A line that ends in `"\r\n"` counts as two.
- The least int prints as "-" (`stdlib.c:43`); floats of -1 and below are printed
  without their integer part (`stdlib.c:109`).
- `atof` does not initialise its result (`stdlib.c:75`), so that the sum of 3.14 and 2.5 in
  the documentation is one of many.
- A float from 2^31 / 10 on may print as 16 characters and a terminator, behind the 15 bytes of
  `conversion` (`stdio.c:13`), because `(int)num` of its tenfold is no number of digits any more. `FloatShown` has the numeral fit for
  those below; what the others overwrite is not modelled. Where all numerals of `float` are meant, they
  were counted by running `ftoa` on each: 11 characters is the longest below that bound.
- Above 2^24 / 10 the first decimal of a float is only the rounding of `num *= 10`: 6710889 prints as
  "6710889.8". `FloatShown` excepts these decimals.

### Bounds

- `log_workers`: three workers and three lines, of which two are cut, so that more than one worker
  is in each section's queue and one finds the end of the file while others count;
  one allocation failure and one failure of `fgets`, after which the other workers read on.
  `log_crashes`: two runs are enough for what a dead run leaves to meet a new one, and two failures of
  `fgets` for both workers to stop before the end of the file. `UINT16_RANGE` is 2 there, so that the counter wraps.
- `log_single`: nine lines with the four boundaries of the error range, blank lines, the
  first among them, and lines cut after the IP and after the URL; two runs, two failures
  of `ht_set`, and `fgets` failing at each line.
- `hash_table`: four keys, four hashes (all patterns of collision, one that wraps
  around), capacity 2 to 8, so that two expansions and a failed one happen.
- `paging`: seven references to four pages with three frames: four evictions, so
  the circular queue wraps, and there are two hits between evictions. The first
  reference is to page 1, so that ties are broken both ways, and the second to page 0
  or 2. Five references to three pages with two frames, for each sequence. Calls with
  no frame, one, and numbers of frames and pages beyond a byte, negative numbers, no
  references and an unknown policy. `Byte` is 8, and `FRAME_EMPTY`, `int8_t` and the pools
  scale with it; with three frames none of them is reached.
- `scheduling`: two or three threads, bursts of up to 4 with a quantum of 2, so that RR
  preempts; arrivals up to 3, so that the CPU idles and threads arrive within, at
  the end of and after a quantum. The program itself draws at least five threads; nothing in a
  scheduler depends on that.
- `virtual_memory`: ten frames with every set of one to six taken, pages of 32 bytes; no page, one,
  as many as there may and may not be room for, and arguments that are narrowed;
  addresses at both ends of pages inside, at the end of and behind the table.
- `interrupts`: four periods; a period can be merged, another lost, and two handled in
  between. `processes`: two children and two runs, so that a child that is left over meets
  another run, and either slot of `child_ids` can name the other's child. The theorems
  of these two and of `VirtualMemory` hold for all values.
- `calculator`: a buffer of 7 for 20 characters, `conversion` of 9 for 15, ints of 13 bits, floats of 8: as
  in the program, an int holds ten times the greatest odd float. Tokens and rests that just fit and
  that do not; floats with more decimals than are printed, one whose decimal is only rounding and one
  that exceeds an int.

### Fairness and deadlock

- `LogAnalyzer` assumes weak fairness of `main` and of every worker: the kernel runs a
  thread that can run. Semaphores need no strong fairness: a worker can be overtaken
  only as often as there are lines. Nothing that fails is assumed to happen.
- `TimerInterrupt` assumes it of `main`, of the handler, and of the taking of an interrupt that
  stays pending: the processor executes one instruction after the other. The
  timer itself may stand still.
- `Processes` assumes it of the parent and of each child; nobody must kill or start a run.
- `PageReplace` and `Scheduling` have one thread and assume that it goes on; in `PageReplace`
  this includes that the user presses Enter.
- `LogSingle`, `HashTable`, `VirtualMemory` and `Calculator` state no liveness and no fairness.

`CHECK_DEADLOCK FALSE` is set where the system may stop: in `log_crashes`, where a run that
finds a semaphore at 0 blocks; in `processes`, after the last run; in
`calculator`, whose user may type nothing.

## 4. Proofs

| Module | Theorems, for all values of the constants |
|---|---|
| `LogAnalyzerProofs` | `Typing`; `Exclusion`: `[]MutualExclusion`; `Exactness`: `[]TallyExact`; `Accounting`: `[]LinesOnce`; `Implements`: `TallySpec`, failing reads included, if the log is well formed and memory does not fail |
| `LogSingleProofs` | `Typing`; `Counts`: `[]CountsAreOfLinesRead`; `Reporting`: `ReportIsOfLinesRead` |
| `HashTableProofs` | `Typing`: `[]TypeOK`; `Ending`: `[]ProbesEnd`; `Complete`: `[]IterationComplete`; `Implements`: `DictSpec` |
| `VirtualMemoryProofs` | `Typing`; `Mapping`: `[]OneToOne`; `Room`: `[]LoadFits`; `Translation`: `[]TranslationExact` |
| `PageReplaceProofs` | `Typing`: `[]TypeOK`; `ServedOnce`: `[]ReferencesServed`; `Implements`: `EvictionSpec`; `HoldsMostRecent`: `[]LruHoldsMostRecent`; `MinIsOptimal`: `[]MinStaysOptimal`; all if the arguments fit bytes |
| `SchedulingProofs` | `Typing`: `[]TypeOK`; `Sharing`: `CpuSpec`; `QueuedExactly`: `[]QueueExact`; `BoundedWait`: `[]RrBoundedWait`; `ShowsTrue`: `[]ShownExact`; `LogsAll`: `[]LogComplete`; `SrtfIsOptimal`: `[]SrtfOptimal`; `IdlingNeverPays`, about the reference of the one before |
| `TimerInterruptProofs` | `Typing`; `Fresh`: `[]NoStaleTick`; `Accounted`: `[]TicksAccounted` |
| `ProcessesProofs` | `Typing`; `Reading`: `[]ChildrenReadTheirs`; `Reaping`: `[]AllReaped`; `Spawning`: `[]SpawningShown` |

Assumptions are those the modules name: a log is a sequence of lines over the
given sets, the bounds are natural numbers, there is at least one worker and one child,
bursts and the quantum are at least 1, an `int8_t` holds every frame number, so many frames are free after any draw as `RAM_init` asks
for, the first capacity of a hash table is not 0 and memory has room for it, a hash is a natural number and a
value in a table is not 0, and `NoReport` is no report. The type invariants of all these modules are proved; a run checks
those of `Scheduling`, `PageReplace` and `HashTable` as well, whose bounds say more than a type. `LogAnalyzerProofs.Implements` and the theorems of
`PageReplaceProofs` have a hypothesis of their own: a well-formed log and memory that does not fail for the first,
`FitsBytes` for the others. `MinIsOptimal` has a second one, `MaxQuery <= Never`: no reference
comes as late as the number the code takes for "not used again", 1024 and 30000 in the build.

**LogAnalyzer.** `TallyExact` is not inductive, for a worker writes back a
number it read two steps before. What makes it so is that the number is still
the current one when it is written (`Faithful`): nobody else can have been in the
section. That is `MutualExclusion`, which in turn needs that semaphores are 0 or 1
and are 0 while somebody is inside (`SemBinary`), also for semaphores found at the
start, and that workers exist only after they were created (`Threading`). For
`LinesOnce` the lines in flight must be distinct (`Distinct`), what a worker
has in its locals must be what the line was read as (`Locals`), a line is never both
recorded and pending (`NotTwice`), and a line read is recorded or pending unless
memory failed (`NotLost`). `Implements` follows with the fact that `main` reports only
after it has joined every worker, each of which ended because the file did or because an `fgets` of
its own failed (`Saw`, `Unreported`). The lines read are a prefix of the log whoever read them; it is the whole
log unless each worker's last `fgets` failed, and then the report is one of `PrefixReports`. `LineInv` is the conjunction. The lemmas on
the sets of lines say how the cardinality of the lines under a key changes when a
line is recorded, and that the figures of a prefix whose lines are all recorded are its exact report.

**LogSingle.** The property speaks of the head of the loop; `CountInv` says at each step
inside it which of the tables have the current line already (`PassedIp`, `PassedUrl`,
`PassedAll`). `Reporting` adds that the report is made at the head, behind the last line or after a failed read.

**HashTable.** What a table means is the set of the entries in its filled slots (`Items`), and what
makes it one is `Table`: no two slots have the same key, and the probing loop for the key of a filled slot
passes over slots filled with other keys until it comes there (`Passes`). The arithmetic says that a probe sequence
goes to every slot and to each once (`Apart`, `Reached`). So the loop ends if there is a vacancy (`Vacancy`),
at the key or, if nothing has the key, at a vacant slot (`ProbeStops`); setting an entry there replaces the item with its key
or adds one, and keeps every other key findable, for it fills a slot that was vacant or had that key (`SetsItem`). `Expanded` says
that after `n` slots the loop of `ht_expand` has made a table of the items in these, by a least
counterexample since induction is out of reach: the slots and the collisions are
other ones, the items are the same. `TableInv` is then the invariant of the table: it has as many items
as were counted, no more than half its slots. `IterInv` says of the loop over the iterator that it
has seen the keys of the filled slots behind `index`, each once, and has the best of them.
`Implements` follows since `ht_get` returns the value of the item with its key (`Found`), whatever the slots.
The theorems take the mask of the probing loops for a remainder, which it is for the powers of two that
the capacities are (`CapacityAssumption`). TLC checked `TableInv` and `IterInv` on the instance of `hash_table`.

**PageReplace.** `FitsBytes` is the hypothesis of all five theorems: unless the program refuses
its arguments, the frames it makes of them are no more than an `int8_t` has indices for, and no page has
the number of `FRAME_EMPTY`. Without it they are false, as "Known limits" says; the numbers that
the program narrows to bytes that fit, and those it refuses, are included.

`Inv` has six parts. `Framed`: the frames are filled from 0 upward and no page is in two. `Control`: what
holds at each `pc`, with the policies still to come, all different. `Counting`: hits and misses
add up, and the pages referenced are no more than the misses. `FifoInv`: entry `j` of the circular queue
is frame `j`, and its head moves only when all are filled. `LruInv` and `ScInv`: node `k` of the
pool stands for frame `k` and holds its page, and the list of pointers *represents* some sequence of these
nodes (`Represents`: `head`, `tail`, and both pointers of every node), or is empty under
another policy. The three operations on pointers are lemmas of their own: if a list represents a
sequence, then `Remove`, `PushFront` and `PushBack` give the one that represents the sequence without
the node, or with it at that end, also when the node is head and tail at once.

`Implements` reads the structure of each policy as a queue of pages. That a walk along
`next` meets the nodes of the sequence (`WalkMeets`) makes this reading the sequence; that the queue
is the frames seen through a bijection of places (`QueueReadThrough`) makes its members the
resident pages, each once. One lemma for each action then gives the step of `EvictionQueue`. For
`HoldsMostRecent`, `InOrder` is added: the list is in the order of last use, and a page that
was referenced and is gone is older than all of it and there is one only when no frame is
empty. The position of a page in the list then is the number of pages used later. TLC checked `Inv`
and `InOrder` on the instance of `paging` first.

`MinIsOptimal` compares MIN with `Fewest`, the fewest misses from a reference on with given pages in
memory, over all choices of the page to evict when memory is full. It is a function of a function, defined
backward from the last reference; that such a function exists, and is what its equation says
(`FewestExists`, `FewestIs`), is shown like all that is proved of it by going backward
from the last index (`Backwards`, a least counterexample). Two lemmas carry the proof. Pages that one pager holds and
another does not are worth at most a miss each (`FewestApart`). Of two pagers that differ in one page,
the one whose page is referenced sooner has no more misses (`FewestExchange`): whatever the other
does, it can do too, with its page in place of the other's, until one of the two is
evicted or referenced. The search of MIN finds the page that is referenced last (`NextUseFinds`,
`VictimLast`), so that evicting it leaves `Fewest` what it was, less the miss made (`VictimBest`). `MinBest` is the
property at each `pc` between two accesses, with the bound on the length of the query.

**VirtualMemory.** `MapInv` adds to `OneToOne` that the frames not free and not taken
at first are as many as the pages loaded (`Counted`) and that the map displayed
is the one in use (`Displayed`). `Room` counts the frames by their states; `Translation` follows
the frame number through its four types.

**Scheduling.** `Sharing` is a refinement: every iteration of every scheduler is a step of
`CpuSharing` or none. `ShareInv` has four parts. `Drawn` and `Progress` say that the threads do not
change and that those with work left are those not done; `Calling` that a scheduler is called
only after the one before has done all the work, and never twice in a row; `Queueing`
that under RR the live part of `q` has the members of `in_q`, each once, and all of them can run.
The last is what makes "the next of the queue" a ready thread, and "the queue is empty"
the same as "nobody is ready". It needs that the newcomers, sorted, are listed once each. That
a set can be sorted at all is shown by a least counterexample (`SortExists`), since
induction is out of reach.

`Typing` has bounds that are not local: no time passes `MaxArrival` plus all the bursts. `FigInv` ties the
figures of each thread to the work it has done. `Clock` says that the time is at most
`MaxArrival` plus the units of work done so far, which are counted as a set of pairs of a
thread and a number (`Worked`), so that a run adds a set of known size to it. `QueuedExactly` adds `Waiters`: who
arrived before the present instant and has work left is in `in_q`; and `GivenInv`: under RR a thread that is not done has
had whole quanta, and `head` is the number of quanta given, a set of pairs again (`Given`). The queue holds
those and the threads that wait, all of them quanta that the bursts have room for.

`BoundedWait` needs more than its claim: a bound for everybody in the queue would not be
kept, for the bound depends on the place. `WaitInv` says that the thread at place `p` behind the head
was seen last (it arrived, or a slot of its ended) at most `Quantum * (n - 1 - p)` ago. One iteration lets
at most a quantum pass and moves everyone one place up; newcomers arrived during that
quantum and are behind, and there are never more than `n - 1` behind a thread that runs.

`ShowsTrue` is about sums over the slots of the chart. `SumCounts` says, again by a least counterexample, that
such a sum is the size of a union of disjoint sets whose sizes are its terms. So the chart is
a partition of the instants up to the present (`Chart`, `Covered`), and a thread had as many of
them as it has done units of work, none before it arrived and, once it is done, the last
of them just before its end (`Used`). The waiting time then is the size of what is left of the instants between
arrival and end. `LogsAll` describes the log by what it says of each thread (`Tells`); what a run writes
is described in the same way and joined piece by piece in the order of the writes (`MoreSaid`, `TellMore`,
`TellEnd`), since the schedulers write the same four events in different orders.

`SrtfIsOptimal` compares SRTF with `LeastWaiting`, the least sum of waiting times from an instant on with given work
left, over all ways of giving the CPU to a thread that can run, unit by unit. It is defined
backward from an instant at which no work can be left, and reasoned about as `Fewest` is. The order that carries
the proof is `Lighter`: there is no more left with `x` than with `y` if of the threads that have arrived
the units left, counted up to the `c`-th of each thread, are no more for each `c` (`Below`), and the
others have the same left. With `c` at 1 it compares how many threads wait; arrivals keep it (`LighterLater`); and it is
kept when the thread with the least left runs on the side of `x` and any thread on that of `y`
(`LighterRun`). The critical case of this is a `c` below the least left on the one side and not below
what the thread of the other had. There a double count does it: the units up to the `c`-th are more
than their share of those up to a greater number (`BelowShare`), of which `x` has no more than `y` has. So
lighter work waits less (`LighterWaits`), and running the shortest thread is best (`ShortestBest`).
`Shortest` is the invariant: the instants that threads have spent in the system so far, and the least
waiting to come, are the least waiting of all and the units of work done; at the end the instants
in the system are those of work and of waiting (`SumWaited`), which is what SRTF reports (`Reported`).
`LeastWaiting` does not let the CPU idle while a thread can run. `IdlingNeverPays` says that this gives nothing away: a
unit in which everybody waits never leads to less. TLC checked each of these
invariants on the instance of `scheduling` before it was proved.

**TimerInterrupt.** `StaleInv` says what each write of `timer_init` has established
and the next ones keep: stopped, cleared, not enabled before it is programmed. `AccountInv` adds
that `isTick` stays set until the reset.

**Processes.** `ReadInv`: from the write of a slot on, the slot holds its message for
ever, since every later run writes the same. `ReapInv`: while the parent forks and waits, the slot
of a child that was forked holds that child's id (`Stored`), so that behind slot `k` child `k` has been
reaped, by this wait or by one for junk before it (`Done`). `ShowInv` says that from the print to the return
the line has been shown or is in the parent's buffer, and that on a terminal nobody's buffer has it, so
that no child can show it again.

TLC has checked the properties themselves on the instances of the runs.

Only model-checked: liveness (`RunEnds`, `AllReturn`, `OverflowHandled`, `TickShown`), which is
out of reach of the provers; and `Calculator`, where `SumShown` and `FloatShown` are about what recursive
conversions compute. Its `TypeOK` and `OneLinePerRead` have no proof yet: the second would need the
invariant that what is left to read is the end of the one line typed.

## 5. What is not modelled, and what could come next

Not modelled:
- `001HelloWorld_Qemu`: it writes one string and stops.
- `source/output.c` of `008Scheduling`: it formats what `ShownExact` and `LogComplete` are about, and
  changes no state.
- The library and the UART driver of `003InterruptHandler`: its `main` prints constants and small
  numbers, through a driver without state; `READ` is not reached. The library is that
  of `002Calculadora` but for two initialisations in `atof`.
- Formatting, colours and animation everywhere; measured CPU time; random numbers, of which the
  models take any in the range.

What could come next: the proof of `OneLinePerRead`; a calculator whose strings are longer than its buffer in both loops at once; an
input that ends, for the loops that wait for Enter.
