# Verification of cs61-psets

The repository holds the solutions of six problem sets of a systems-programming
course, each a small C program with its own state: a debugging allocator
(pset1), a binary puzzle (pset2), a buffered I/O library (pset3), a shell
(pset4), three programs with POSIX threads (pset5) and an operating-system
kernel (pset6).  This directory holds TLA+ models of them, TLC runs that check
the models on small instances, and proofs, checked by TLAPS, of what matters
most for instances of every size.

All names in the models are those of the C source where TLA+ allows it;
`PROJECT.json` maps each definition to the lines it translates.

## Inventory

| component | state | operations | what is hard | what makes it correct |
|---|---|---|---|---|
| `pset5/dispatch/queue.c`, queue61 | `head`, `tail`, `array[]` | `push_back`, `pop_front`, `size`, `empty` | unsigned wrap-around, full/empty/wrapped | a FIFO queue: what is pushed is popped once, in order |
| `pset5/dispatch`, dispatcher and drivers | `struct world`: the queue, four counters and flags, a mutex, three condition variables | `dispatcher_thread`, `dispatch`, `driver_thread` | lost wakeups, spurious wakeups, the shutdown handshake, lifetime of the queue | each request ridden once, first come first served; everyone leaves |
| `pset5/uber-pi` | a mutex per Uber; `status[]`, `free_ubers` under `status_lock`; `inside[]`, `outside[]` | three `passenger` functions, `drive` | a check outside the lock, polling, unlocked counters | one passenger per Uber, no sample lost, everyone gets all rides (in mode 1 none of it: its passengers may drive Ubers that do not exist) |
| `pset6/kernel.c`, WeensyOS | `processes[]`, `pageinfo[]`, page tables | page allocation, `fork`, `sys_exit`, page faults, `schedule` | `fork` failing half-way, shared pages, exit orders, memory exhaustion | `virtual_memory_check`; memory isolation; nothing leaks; round robin |
| `pset5/ubler` | requests, a lock per customer, driver statistics | `driver_thread`, `receive_request`, mix-ups of meals | two locks, a wrapping request list, a shared completion flag | each customer and meal delivered once; statistics add up |
| `pset1/m61.c` | a doubly linked list of live blocks, metadata below and a footer above each, statistics, a table of call sites | `m61_malloc`, `m61_free`, `m61_realloc`, `m61_calloc` | invalid, double and interior frees; overflow; a `realloc` that fails | statistics agree with the live blocks; wrong frees are reported as what they are |
| `pset3/io61.c` | cache slots of a file, offset | `readc`, `read`, `writec`, `write`, `flush`, `seek`, `eof`, `close` | seeks between reads and writes, short reads and writes, end of file | behaves as an unbuffered file |
| `pset4/sh61.c`, `helpers.c` | in every copy of the shell: the group of a line, four globals, a stdio buffer; in the kernel: children, pipe ends | `parse_shell_token`, `eval_line`, `run_list`, `start_command`, `handle_rd`, `reap_zombies`, `interrupt_handler` | children that end in any order, copies of the shell, pipe ends in many hands, SIGINT at any instruction | the command that should run runs, once; readers see the end of their pipe; the prompt comes back with nothing left open |
| the rest | | | | `boot.c`, `k-exception.S`, `lib.c`, the console part of `k-hardware.c`: start-up and drivers of the course; `stdio-io61.c`, `profile61.c`: reference and measuring tools; `pset2`: a puzzle about a binary; not modelled |

All but the last row are modelled.  They interact as follows: the dispatcher uses
the queue through the four functions of `queue.h`, always under `world.lock`; a
passenger of uber-pi shares nothing with it.  The drivers of ubler meet in
`receive_request()`, at the mutex of a customer, and in counters that nothing
guards.  m61 stands between one client and the allocator of libc, io61
between one client and a descriptor; `slow-io61.c`, the library without buffers,
is its specification.  The shell meets its children at `waitpid()` and its
copies nowhere: each has its own memory, and they share pipes only.  In the kernel, processes act by
traps only: the interrupt gates disable interrupts, so a system call is not
interleaved with other processes.

The hazards each component is exposed to, with the line where each bites and
the property that would catch it, are listed in `PROJECT.json`.

## Plan

1. **Threads** (done): `CircularQueue`, `RideService`, `Dispatch`, `UberPi`, with
   proofs, among them that `Dispatch` implements `RideService`.
2. **Kernel** (done, except for pages that a program maps outside its heap):
   `Kernel`, with proofs of everything but its liveness.
3. **ubler** (done, except for `fix_mismatch`, which the program never calls):
   `Ubler`, with proofs of everything but the liveness.
4. **m61** (done, except for the percentages of the heavy-hitter report): `M61`,
   with proofs of every property of its run.
5. **io61** (done, but for what is named under Io61 below): `PlainFile`, `Io61`,
   with a proof of the refinement.
6. **sh61** (done, but for what is named under Sh61 below): `ShellSyntax`,
   `Shell`, `Sh61`, with proofs of its invariants.
7. **More proofs** (to do): that `Sh61` implements `Shell`, of scripts that are `Tame`
   (`MCSh61`): operators that alternate, no crash before an operator, background
   lists and missing programs behind everything that waits for them.  On top of `Inv`
   this needs that a command recorded as running is run by exactly one process; that
   of the lists not cut short each has one shell that is in charge of it; that such a
   shell has in `status` and `j` what `StatusAfter` and `Asked` say; and that a list
   is cut short when and only when the shell in charge is `interrupted`.

Each component is written to be proved about as well as checked: constants with
named assumptions, one action per operation, invariants as named conjuncts, no
recursive operators.

## Modules

| module | what it is |
|---|---|
| `CircularQueue` | the operators of `queue.c` on a record `[head, tail, array]` |
| `RideService` | what the dispatcher promises its customers |
| `Dispatch`, `MCDispatch` | `dispatch.c`, `drive.c`; uses `CircularQueue`, refines `RideService` |
| `UberPi` | `uber-pi.c` with its three kinds of passengers |
| `Kernel` | `kernel.c`, with what it uses of `k-loader.c` and `k-hardware.c` |
| `Ubler` | `ubler.c`, `ubler_helpers.c` |
| `M61`, `MCM61` | `m61.c`, with the errors its clients make |
| `PlainFile` | what `io61.h` promises: the unbuffered `slow-io61.c` |
| `Io61` | `io61.c` with a client; refines `PlainFile` |
| `ShellSyntax` | the tokens of `helpers.c` and the structures that `eval_line()` builds |
| `Shell` | what a shell promises to run, and when |
| `Sh61`, `MCSh61` | the processes of `sh61.c`; uses `ShellSyntax`, refines `Shell` |
| `SumTheorems` | what the sum of a function over a finite set is: lemmas for the proofs |
| `DispatchProofs`, `UberPiProofs`, `KernelProofs`, `UblerProofs`, `M61Proofs`, `Io61Proofs`, `Sh61Proofs` | theorems and their proofs |

Definitions introduced by a comment as a slip, and those named after one
(`PushBackNoWrap`, `EnqueueSilently`, ...), are not part of any specification:
each is a definition with a plausible mistake, used to see that the property
listed with it in `PROJECT.json` does fail when the code is wrong in that way.

### CircularQueue

`PushBack`, `Front` with `PopFront`, `Size`, `Empty` and `QueueInit` are the
functions of `queue.c`.  `head` and `tail` are `unsigned int`, so `Size` subtracts
modulo `UINT` before it reduces modulo the length of the buffer.  That is the size
only if the length divides `UINT` (16 divides 2^32); the assumption is named
in `QueueSizesAssumption`.  The only client is `Dispatch`, and `RideService`,
which has a sequence where the code has the buffer, is the specification of both.

### Dispatch

`lock` is the owner of `world.lock`, and `pc` says where each thread is.  Taking
the mutex is a step; everything up to the next unlock or wait is one more step,
because nobody else can access `struct world` in between.  A thread in
`pthread_cond_wait` is at label `cond_full`, `cond_empty` or `cond_done`;
signal moves one such thread, if there is one, to a label where it waits for the
mutex, broadcast moves all, and a wakeup may be spurious (at most `MaxSpurious`
times).  The condition is tested again after each wakeup, as the `while` loops
do.  A request is the number of its line in the input; `responded` is the
order of the responses that `drive()` prints.

`free(request_queue)` makes `queue_live` false.  What a later `empty()` returns
is then any value in `FreedEmpty`; a `pop_front` of the freed queue sets
`crashed`, after which nothing is claimed.

### UberPi

Mode `"0"`, `"1"` or `"2"` selects the passenger function as `argv[1]` does.
The critical sections under `status_lock` are one step each; the look at
`free_ubers` before the first is a step of its own, outside the lock.
`drive()` increments `inside[u]` or `outside[u]` without a lock of its own, so
one sample is a load and a store in two steps.  One sample per ride stands for
the 1 500 000 of the program.  `int uber_id` of `passenger_better_init` is not
initialised; its first value is any in `UninitIds`, `Wild` among them.  A scan that
finds no Uber leaves it as it is, and with a number that is no Uber's
`drive()` reads and writes `inside[]` or `outside[]` beyond their bounds
(`DriveOutside`, lines 64-71).  That is undefined behaviour: it sets `undefined`, and
the model does nothing and claims nothing after it.  So `EveryoneRides`
says of mode 1 that everyone gets his rides *or* this happens, and it does
happen in run `uberpi`; of the modes with mutexes it claims the rides without exception.

### Ubler

A thing is a customer or a meal with its index; `picked` and `completed` are its
`private_tracking`.  `customerMeal` and `mealCustomer` are the pointers that
`init_requests` sets and `mix_up_meals` changes; any set of disjoint swaps stands
for the random ones (that only meals of one restaurant are swapped restricts the
swaps, not what can follow from them).  Restaurants and locations decide only
where a driver sleeps, and are left out.

A driver goes round: `ReceiveRequest` (or `NoRequest`), the look before the lock,
the mutex of the customer it reached (`CustomerOf`), the look under it, `PickUp`,
and the drop-off.  `receive_request` holds its own mutex and is one step, although
the counters it scans change meanwhile: they only grow from 0, so the request it
returns is the first that is unfinished at some instant of the scan, and the same
holds for the unlocked look at two counters.  `complete()` holds no mutex at all
and is a load and a store, `LoadCompleted` and `StoreCompleted`.

The scan that wraps begins anew at index 1, not 0, because the loop increments the
position it has just reset (`Scan`).  `NobodyLeavesWork` says why this does no
harm.  The comment in `ubler_test.c:31-32` says that without
`deliverMealsAndCustomers` only meals are returned; the code returns customers
only, and so does `Kind`.

With mixed-up meals the two sides of a request are guarded by two mutexes, and
`driver_thread` does not call `fix_mismatch`.  Requests may then be served from
both sides or be overlooked; only `NothingPickedUpTwice` is claimed of that mode.
The other properties have `Matched`, that the pointers agree, as their premise.

### M61

Blocks are the places libc can hand out, in the order of their addresses; which
one it hands out, and whether it has one, is its choice.  `meta[b]` is what lies
below the payload of `b`, with `guarded` for "header and footer are as written".
Calls are made by one thread, so each is one step.  Inside a step a call works
on a record of all variables (`Heap`) and yields another, so that `m61_realloc`
is written as what it is, a `m61_malloc`, a `memcpy` and a `m61_free`.

`m61_free` decides by what it reads below the pointer, whatever is there
(`MetaBelow`): the metadata of a live block, the copy of a block that the client
made (`CopyBlock`, as `test029.c` does), or bytes that nobody wrote as metadata
(`Garbage`), which may look active but do not carry header and footer.  A read
of memory that libc has back or never had may also kill the process, and so may
freeing what libc did not hand out.  `Killed` stands for both, and for
`abort()`; nothing is claimed after it.

Behaviour of the code that the model has and a reader may not expect:

* A copy of the block that was the oldest is accepted and handed to libc: only
  `meta->prev->next` tells a copy from its original, and the oldest block has no
  `prev`.  `FreeJudged` names the exception.
* `free(NULL)` reports an error and then reads below the null pointer.
* `m61_realloc` frees the old block although `m61_malloc` failed.
* An `m61_calloc` that fails inside `m61_malloc` counts twice in `nfail`, which
  `m61.h:15` calls the number of failed attempts; and `nmemb * sz >= nmemb` does
  not notice every product that wraps.  `StatsAgree` is about `nactive`, `active_size` and
  the bounds of the heap; it says nothing of `ntotal`, `total_size`, `nfail` and `fail_size`.
* The index of `fill_heavy` is negative for half the call sites (lines 92-94), so
  they have no bucket among `hash_table[0..999]`: it reads and writes whatever lies
  below the table.  That may kill the process (`Fatal`), or the word there takes the
  entry, which `m61_printheavyreport` never visits (line 355).  What
  else uses such a word is not known to the model.  `unlisted` counts these
  allocations, and `HeavyCounts` is about the table as it is declared: each site with
  an index in it (`InTable`) has one entry, which counts its allocations, and the
  allocations missing from the table are the unlisted ones, no more.  Half the heavy
  hitters are thus never reported.
* The updates of `heap_min` and `heap_max` in `m61_free` never happen: no block
  lies outside these bounds.

Not in the model: what the reports look like, and the sums and percentages of
`m61_printheavyreport` (which multiplies the size of the first entry of a bucket
with its count for every entry of that bucket, line 365).

### Io61

`mode` says what the file is: `"file"` is a regular file that is read, mapped,
with slots that are windows of the mapping; `"pipe"` is read into the slots;
`"write"` buffers in slot 0.  `f` is the `io61_file`.  Bytes have numbers: a byte
of the input its place, a byte of the client its position among all that the
client writes.  What a slot holds are consecutive bytes, so the number of the
first, `from`, stands for `arr_buf` and `str_buf`.  It is kept apart from
`offset`, which the code reads to decide where it is: that both say the same
is what has to be shown.

A call begins (`ReadCall`, `WriteCall`, `SeekCall`), goes round its loop or calls
itself, one step per round (`Refill`, `Deliver`; `MakeRoom`, `Store`), and returns.
A round of `io61_read` that empties its slot fills the next one in the same
step.  `io61_seek` is a step: it may look for the byte before the place wanted
(`Prefetched`, when a file is read backwards), fill a slot, look again and fill
another.  `read()` of a pipe brings any number of bytes up to what was asked for.

`PlainFile` has no buffers: a portion comes from or goes to the file position at
once.  Under the refinement mapping the position is `Offset`, and what was
written is what is on disk under the bytes that wait in slot 0 (`Written`);
fills and flushes are stuttering steps, and after `io61_close` the disk alone counts.

Where the model or its run ends:

* What happens after `overrun`.  The loops subtract `nread`, the total so far, from
  `total_char_left` in every round (`total_char_left -= nread`, lines 251 and 357): right in
  the first two rounds, wrong from the third on, when it may wrap and `memcpy` copies
  more than the caller's buffer takes.  The model has this subtraction, modulo `SIZE_T`,
  and the client asks for sizes up to `MaxRequest`, one of which needs a third round
  in run `io61`.  The step that copies too much sets `overrun` and ends the behaviour.
  So of calls that fit into two rounds (`TwoRounds`) everything is
  claimed, and that they never overrun; of longer ones only what comes before.  The comments
  at lines 226-230 and 331-334 promise as much for any `sz`; the code does not keep that.
* Seeks to the end of an input or beyond.  The model has them (`SeekBound` is the
  bound of the places sought), the run has not: with `SeekBound = Size + 1` TLC finds
  `SeekMoves` and `ImplementsPlainFile` violated.  At the end `io61_seek` returns 0
  and stays where it was; beyond it, `filesize - offset` wraps and a window of 4096
  bytes that are not in the file is made (`Mapped`).
* `write()` that fails or takes less than it is given; `io61_flush` drops the rest.
* That the fill at the end of a slot blocks on a pipe although the call has all
  its bytes, which hurts two processes that answer each other.
* `is_active` and `pos` of slots as `malloc` returns them.  They are 0 for a
  program that opens its files before it closes one.
* `io61_eof`, which no program calls.

A client of the model seeks while bytes wait to be written only in run
`io61_seek` (`SeekUnwritten`), because `io61_seek` then goes wrong.

### Sh61

`Tokens(line)` is what repeated calls of `parse_shell_token()` return, and
`Parse(line)` the group of lists that `eval_line()` builds of them, one operator
per helper (`command_append_arg`, `list_group_append_lst`, ...).  The flags
`new_list`, `new_cond` and `new_pipe` are the field `new`: at most one is set.  Words
are sequences of characters, since the quotes, backslashes and digits of
`parse_shell_token()` decide about characters.

`proc[p]` is a process: a shell with its memory, a command, or a zombie.  `pc`
says where a shell is; a step goes from one system call that others can observe
(`fork`, `execvp`, `waitpid`, `exit`) or one look at a flag of the signal handler to
the next.  `fork()` copies the record, globals, stdio buffer and descriptors
included.  A pipe is open while somebody holds an end of it (`Readers`,
`Writers`).  A command ends well, fails, or, if it is one of `Crashing`, is killed by a
signal of its own (`Endings`).  `Interrupt` is the terminal's SIGINT: commands die, every shell runs
`interrupt_handler()`, and a `waitpid()` that blocks returns.

`Shell` is the promise: of each line, list by list, command `c` starts when it is
`Due`, once.  `Sh61` implements it with `script` mapped to what the lines *mean*
(`Scripts[..].meant`): `MCSh61` writes scripts as trees and spells them (with and
without blanks, with three ways to quote, with a comment) into the text that the
shell reads, so the refinement covers the parser too.  `ran` and `cut` record what
the processes do and are read by nobody.

Behaviour of the code that a reader may not expect, where the model has it:

* Stages of a pipeline run one after the other: the shell waits for each before
  it starts the next.  The comment in front of `run_list()` (lines 378-380) says that
  they run in parallel.  `StagesInTurn` states what the code does and is proved, not
  as a virtue but as the exact form of this disagreement; none of the checked
  properties relies on it, and `ReadersSeeEnd` would be asked of a parallel
  shell just the same.  The price is that a stage that writes more than a pipe holds
  waits for a reader that is never started (`Stalled`); `ScriptEnds` excuses a script
  that has such a stage (`WritesPipe(Big, ..)`), and no other.
* A copy of the shell for a background list goes on to the lines behind it (run
  `sh61_jobs`), and so does a child whose program is missing: `x` in front of
  a line `b` runs `b` twice, and in `x | b` the copy holds the pipe that `b` reads.
* Only one conditional is skipped: `false && b && c` runs `c`.
* A command killed by a signal leaves the status as it was, which is 0 for a
  pipeline: `crash && b` runs `b` and `crash || b` does not.  `WIFEXITED` and
  `WTERMSIG` never hold together (lines 444-451), so the code that ends a list when
  a child dies of SIGINT is never reached.
* Zombies of background jobs are reaped only by the process that counted them
  in `z`, and only copies of the shell count; the shell never does.
* The group ids that `run_list()` passes to `setpgid()` are 1, 2, ..., which do not
  exist, so everybody stays in the shell's group and gets the SIGINT.
* `cd` with a file that cannot be opened ends the shell with all lines behind it, and `cd < f` leaves its
  stdin redirected.  A stage with `<` behind a pipe leaves the read end of that pipe
  open (`LeavesReadEnd`).  An interrupted line is not freed.
* `>&n` skips one character behind the digits, whatever it is (`RedirectionEnd`).

Because of these the code keeps the promise of a shell for some scripts only.  `Tame`,
in `MCSh61`, says for which: a missing program, a background line and a `cd` with a
file that cannot be opened come last; no command before an operator dies of a
signal by itself; two operators in a row differ.  All scripts of run `sh61` are
tame, which TLC evaluates as an assumption, and nothing is claimed of others.
`BrokenScripts` has one script for each way of not being tame.  With `Scripts` replaced
by a sequence of one of them, `MCSh61.cfg` gives a counterexample to a property:

| script | violated |
|---|---|
| `crash && b` | `ImplementsShell`: `b` is run |
| `crash \|\| b` | `ScriptEnds`: `b`, which is due, is not run |
| `a && b && a` | `ImplementsShell`: the last `a` is run although the first failed |
| `a &`, then a line `b` | `ImplementsShell`: `b` is run twice |
| a missing program, then a line `b` | `ImplementsShell`: `b` is run twice |
| a missing program `\| b` | `ReadersSeeEnd`, `ScriptEnds`: `b` waits for a write end in the hands of a copy of the shell |
| `cd a < unreadable`, then a line `b` | `ScriptEnds`: `b` is never run |

Outside the model: `fork()` and `pipe()` that fail; input typed by a user while
commands run (the input is a script, read into the stdio buffer as a whole, and
a copy that ends cannot move it back); programs that read the terminal; and what
`clear_cmd` does to a line that is being typed, which is lost when the signal
comes between lines 700 and 668.

### Kernel

Pages are numbers.  `owner` and `refcount` are the fields of `pageinfo[]`; page
0 stands for reserved memory and page 1 for the kernel's own.  A page table is
the function `vm[p]` from virtual pages to mappings, beside the two physical
pages `l1[p]`, `l2[p]` that hold it.  `mode` is `"boot"` while `kernel()` sets
up processes, `"user"` while a process runs, `"fork"` inside `fork()`, and
`"spin"` when `schedule()` finds nothing to run.  A system call is one step,
except `fork()`: one step takes the slot and copies the page table, one step
handles each virtual page, and a step that finds no page takes the child apart.

As it stands `kernel.c` does not compile: `copy_pagetable` uses `offset`
(line 163) whose declaration is commented out (line 162).  The model takes the
declaration as written there; the entries that the `memcpy` copies are then
those below `PROC_START_ADDR`, which `virtual_memory_map` overwrites at once.

`sys_getpid` returns the process number of the caller (`GetPid`).
`virtual_memory_check` has the assertions of the function of that name, and
`VirtualMemoryCheck` asks for them whenever a process runs, which is where
`exception()` and `kernel()` call it.  When no process slot is free, `fork()`
returns -1 to `exception()`, which ignores it: `%eax` is as it was at the trap,
although `process.h:45-46` promises -1 (`ForkNoSlot`).

Not in the model: register contents other than `%eax`, the contents of pages,
`panic`, the memory displays, and `sys_page_alloc` at an address other
than the next page of the heap (the only use the programs make of it).  The
console page, which every process can write (lines 168-170), lies outside the
addresses of the model, so `WritersOwn` is about all pages but this one.  Nor does
`WritersOwn` protect the pages that processes map read-only: `sys_exit` of one frees
them while the other still maps them, and they may then be reused and written by a
third (run `kernel_refcount`).  `ForkCopies` asks of a child a copy of every page
that its parent can write; of read-only pages only that it has no others.

## Runs

| run | instance | what it shows |
|---|---|---|
| `dispatch` | 3 drivers, 4 requests, queue of 2 in a buffer of 3, 1 spurious wakeup | all safety properties, refinement of `RideService`, termination |
| `dispatch_freed` | 2 drivers, 2 requests | **violated**: a freed queue is tested and popped |
| `uberpi` | 3 passengers, 2 Ubers, 2 rides | mutual exclusion, no lost sample, no overlooked Uber, everyone rides (in mode 1, or an Uber that does not exist is driven) |
| `uberpi_shared` | 2 passengers, 1 Uber | **violated**: two passengers in one Uber |
| `kernel` | 2 processes, 15 pages, 3 heap pages | isolation, no leak, allocator consistency when memory runs out at every point of `fork`, and round robin |
| `kernel_refcount` | 1 program, 3 slots | **violated**: `refcount` is not the number of references |
| `ubler` | 3 drivers, 2 requests, both settings of `ubler.conf` and of `--mix-up-meals` | one driver per request, the test of `ubler_test.c` succeeds after every schedule, everyone ends |
| `m61` | 3 blocks, 4 allocations, 2 call sites in one bucket and one below the table, sizes that wrap | the list, the statistics, the table of call sites and the judgement of `m61_free` after every history |
| `io61` | 2 slots of 2 bytes, 5 bytes of input, 4 places of output, 5 bytes written, 4 fills | a file, a pipe and an output behave as `slow-io61.c` does, and every call returns, up to the first call of three rounds that overruns its buffer |
| `io61_seek` | the same, with seeks while bytes wait | **violated**: what waits is written at the new place |
| `sh61` | 16 `Tame` scripts of up to three lines, 7 processes, 3 pipes, 1 interrupt | what runs is what the lines mean, the ends of pipes come, the prompt is tidy, every script ends, with all that was due run |
| `sh61_jobs` | a script with a background list before another line | **violated**: the copy of the shell runs the rest of the script as well |

Bounds and why they are enough:

* CircularQueue: the queue's behaviour depends on head and tail modulo the buffer
  length only; with three slots and four requests both wrap, and `UINT` 12 is a
  multiple of the length as 2^32 is of 16.  The proofs cover every length.
* Dispatch: more requests than the queue holds (the dispatcher waits), more
  drivers than queued requests (drivers wait), at least two drivers awake and
  one asleep at every signal, and one spurious wakeup, which can hit any of the
  three waits.  `total_rides` and `rides_done` are bounded by `NumRequests`.
* UberPi: more passengers than Ubers, and two rides, so that `uber_id` holds a
  stale Uber in the second.
* Ubler: two drivers that race for the two sides of one request, and a third that
  scans meanwhile; with two requests the positions wrap with and without index 0
  unfinished.  The proofs cover any number of either.
* M61: three live blocks have an oldest, a middle and a newest, freed in every
  order; the fourth allocation comes back to a place that was freed.  `Word` is 16,
  so that products of `calloc` wrap to sizes that are refused, that the test of
  line 312 notices and that it misses.  Of the three call sites two share the last
  bucket of the table and one has the index -1; an entry is counted again, appended
  to an empty and to an occupied chain, and left out.  `MaxCalls` and `MaxFails`
  bound the allocations of a behaviour, since the statistics grow with them (with
  `MaxFails` 0 one call fails); frees need no bound.
* Io61: with two slots of two bytes, five bytes of input make windows that
  overlap, that are evicted while others are current, that are found again and
  that are short at the end; requests of up to three bytes span a slot boundary (a file is read and
  written in two rounds), and one of four bytes, or of three from a pipe, may need a
  third round.
  Five bytes for four places write a place twice.  `MaxFills` bounds
  `cache_count`, which only decides which slot is the oldest.  The proof covers
  every size.
* Kernel: memory below `PROC_START` for two page-table pairs, so `fork` fails for
  lack of page tables, of a page half-way, or of a slot.  The program's own 16 slots and 512 pages differ only
  in number.  `TrapEax` is what `%eax` may hold when a process traps.
* Sh61: `MaxProcs` 7 and `MaxPipes` 3 are more than any of the scripts needs, so
  no behaviour is cut short by them.  The scripts have every operator, pipelines of
  up to three stages in front of and behind operators, every redirection, `cd`
  with and without a directory, a pipeline that stalls, background lists of several
  commands and two of them at once, and programs that a signal kills, alone, last in
  a pipeline and behind an operator.  Every other command may fail or succeed.
  `MaxInterrupts` is 1.  The run has some 128 000 states.

## Fairness

* `Dispatch`: weak fairness of each thread.  The operating system runs every
  runnable thread; the input is finite, so a thread cannot be overtaken at the
  mutex for ever.  Nothing is assumed of spurious wakeups.
* `UberPi`: weak fairness of each passenger, for the same reasons (finitely many
  rides).  Polling passengers rely on the others' progress, not on luck.
* `Ubler`: weak fairness of each driver.  The mutex of a customer is held for a
  bounded number of steps, and drivers come back to it only until the request is
  completed, so no fairness of the mutex is needed; nothing is assumed of the random draw of
  customers and meals.
* `M61`: none; a client may stop calling at any time, and no liveness is claimed.
* `Io61`: weak fairness of the steps that the library does on its own (`Step`): a
  call goes on until it returns or overruns its buffer, and a read of a pipe brings bytes or the end.
  The client may stop calling, and may leave files open.
* `Sh61`: weak fairness of each shell and of each command: the system runs every
  process, a program ends (one that reads a pipe, when nobody can write to it any
  more), and nothing is assumed of the user.
* `Kernel`: the kernel finishes what it does (weak fairness of `ProcessSetup`
  and of the loop of `fork`), and strong fairness of the timer: an interrupt
  that arrives during a system call stays pending and is taken on the return to
  user mode, where the timer action is enabled again.  Processes may do as they
  like, and nothing obliges them to exit.

## What the runs found

* `dispatch_freed`: `driver_thread` frees the queue when it ends the last ride
  (line 150); `exit_drivers` is set later, by the dispatcher (line 99).  A driver
  that takes the mutex in between evaluates `empty()` on freed memory.
* `uberpi_shared`: contrary to its comment, `passenger_better_init` can put two
  threads into one Uber (or drive with an uninitialised `uber_id`), because a
  scan that finds no free Uber is not retried.
* `kernel_refcount`: `sys_exit` frees pages that a child still maps and
  decrements counts of pages the exiting process never mapped.  `WritersOwn`
  holds all the same: only read-only pages are shared.
* `sh61_jobs`: the copy of the shell that runs a background list leaves the loop
  over the lists and returns to `main()`, which reads the next line of the copied
  stdio buffer.  The comments at lines 607 and 619 say that it stops.
* `io61_seek`: `lseek` comes before the flush (lines 423 and 459), so bytes that
  wait in slot 0 are written at the new place, and what follows goes behind them.
  `ostridecat61.c` writes one byte and seeks, over and over.

Other disagreements between the code and its comments, which no run of its own shows,
were met on the way.  The models have them, and each is an explicit exception of a
property or of an instance, named under the module:

* The stages of a pipeline run in turn, not in parallel (sh61.c:378-380): theorem
  `Sh61StagesInTurn`, and the exception in `ScriptEnds`.
* Death by a signal, equal operators in a row, missing programs and `cd` with an
  unreadable file: `BrokenScripts` of `MCSh61`.
* `io61_read` and `io61_write` with more than two rounds, against io61.c:226-230 and
  331-334: `overrun`, and the premise `TwoRounds` in `ImplementsPlainFile`.
* `io61_seek` to the end of an input or beyond, against io61.c:418-420: `SeekBound`.
* Call sites whose index lies below `hash_table`: `unlisted`.
* `nfail` after an `m61_calloc` that fails inside `m61_malloc` (m61.h:15).
* In mode 1 of uber-pi an uninitialised `uber_id` is an index: `undefined`.

## Proofs

The theorems hold for every value of the constants that satisfies the named
assumption of the module.  All are proved the same way: an inductive invariant
`IInv` (checked by TLC first), a lemma that `Init` establishes it, one lemma per
action or group of actions that keeps it, and temporal theorems that combine
them.

| theorems | say | assume |
|---|---|---|
| `DispatchType`, `DispatchMutex`, `DispatchAccounts`, `DispatchExit`, `DispatchImplementsRideService`, `DispatchWakeups`, `DispatchBacklog`, `DispatchAnswersOnce` | the mutex discipline; `total_rides - rides_done` counts the rides under way; drivers are sent home after the last ride only; threads and circular queue implement the ride service; the dispatcher sleeps only while its condition is false; while a driver sleeps each queued request has another driver awake for it; every customer is answered once | `DispatchAssumption`: finitely many drivers, at least one |
| `UberPiType`, `UberPiFreeUbers`, `UberPiMutexedRides` | the count that passengers sleep on is never too low; a mutexed Uber has one passenger, and no sample of one is lost | `UberPiAssumption`: finitely many passengers, at least one Uber |
| `KernelType`, `KernelChecks`, `KernelAllocator`, `KernelIsolation`, `KernelNoLeak`, `KernelRefcounts`, `KernelFork` | every safety property of the run `kernel` | `KernelAssumption`: the boot images and their page tables fit into memory |
| `M61Type`, `M61LeakReport`, `M61FreeJudged`, `M61StatsAgree`, `M61HeavyCounts` | the list of live blocks is exact, `m61_free` judges every pointer correctly, `nactive`, `active_size` and the bounds of the heap are those of the live blocks, and every allocation of a call site whose index is in the table is counted once at that site | `M61Assumption`: the constants have their types |
| `Io61Type`, `Io61ImplementsPlainFile`, `Io61SeekMoves` | the buffers are never overrun; io61 implements the unbuffered library up to an overrun, which no call of two rounds makes, and its seeks move the file | `Io61Assumption`: the constants have their types, at least one slot and one byte in it; all three, that the client seeks inside its input only (`SeekBound <= Size`); the last two, that it does not seek while bytes wait (`~SeekUnwritten`) |
| `UblerType`, `UblerPickedOnce`, `UblerOneDriver`, `UblerNobodyLeavesWork`, `UblerTestSucceeds` | a request has one driver; who leaves the pool leaves nothing undone; the counts that `ubler_test.c` compares agree | `UblerAssumption`: finitely many drivers |
| `Sh61Type`, `Sh61PromptTidy`, `Sh61StagesInTurn` | a shell that prompts has given back what the lines before took; the stages of a pipeline run in turn, with scripts that have a missing program in front of a pipe as the exception | `Sh61Assumption`: the constants have their types; the last two, that the lines are parsed as they are meant (`ReadAsMeant`) |

The invariants, and why they are needed:

* `SumTheorems`: the sums of the models are folds of the community modules, whose
  induction theorems cannot be cited.  `MinimalSet` stands in for them: of the
  subsets of a finite set that have a property one has no smaller one, which
  follows from the well-founded inclusion of finite sets.  With it `SumRemove` says
  that the sum does not depend on the element that `CHOOSE` removes first; `SumAdd`,
  `SumUpdate`, `SumOfBits` (a sum of zeros and ones counts) and the others follow.
* `DispatchProofs` begins with what the functions of `queue.c` return, in terms of
  the sequence `Contents(q)`: the size is its length, `push_back` appends and
  `pop_front` takes the head.  The arithmetic of `%` on the wrapped difference
  is in `ModMultiple`, `ModNegative` and `SizeValue`; this is where the
  divisibility of `UINT` is used.  Then, `RidesAccounted` needs to know that the queue holds requests
  and not the garbage of an unused slot (`QueueHoldsRequests`), which drivers
  have a request in hand (`HandsFull`) and how far the input has been read
  (`InputProgress`); `LastRideOver` ties the end of the threads to the counters.
  The refinement of `RideService` needs one thing more, that no two requests in the
  queue or in hand are the same (`Apart`, `RequestsApart`): a driver is then known by
  its request, and the step that answers it is the abstract one.
  `DispatcherSleeps` lists how a step can leave the dispatcher asleep; with
  `DoneAnnounced` (it waits for the last ride with `dispatch_done` set, so the driver
  of that ride signals) `NoMissedWakeup` follows.  `BacklogStep` compares what a step
  adds to the queue with what it adds to the drivers that are awake.  For
  `AnsweredOnce` the requests without a response are identified with those that are
  unread, queued or with a driver still on the road (`Responses`); because requests
  are apart, `drive()` takes exactly one of them out, and no other step any.
* `UberPiProofs`: that two passengers are in different Ubers follows from
  `RidesUnderMutex`: who is in an Uber holds the mutex of the very Uber that
  `uber_id` names.  For the sum, `LoadedFresh` says that what a passenger has loaded
  in `drive()` is still the value in memory, because the mutex keeps everybody else
  out, and `SamplesCounted` that the samples stored are the rides driven.
* `UblerProofs`: `PickInv` says that a driver between the look under the lock and
  the pick-up holds the mutex of its request (`Holding`) and has seen counters
  that are still 0 (`ToPickUp`); the sum over a pair, `OnePerPair`, follows.
  `WorkInv` says that a thing picked up is carried by a driver until both its
  sides are completed (`CarriedOrFinished`), that one completed side implies as
  much for the other (`Begun`), and that request 0 is finished or in hand once a
  position has moved on from it (`HandedOut`); a scan that finds nothing has seen
  every other index completed.  `CountInv` has the sums of `record_stats()`: each
  pick-up is counted once by a driver and once by a request, and a driver that
  carries something has one delivery still to count.  With everyone gone exactly one
  side of each request was picked up (`OnePickedPerRequest`), which is `N`.
* `M61Proofs`: the invariant is `HeapOK`, a statement about a heap and not about the
  variables, because a call such as `m61_realloc` passes through heaps that are no
  state.  It has the list (`Listed`) and that `nactive` counts it and is never more
  than `ntotal`, so that a live block is never met with "not in heap".
  `LinkedListed` and `ReleasedListed` say what linking and unlinking make of the
  sequence of blocks; that every live block is on the list follows from the number
  of its members.  `SizesRight` has the sum of the sizes of the live blocks and that
  `heap_min` is not 0, which `m61_malloc` takes for "not set", once there is a
  block.  `HeavyCounted` has that an entry is in the bucket of its site: that is why an entry
  appended to a bucket without the site is the only one of its site in the table;
  and that the entries count all allocations but the `unlisted` ones.
* `Io61Proofs`: `Windows` is about an `io61_file` and not about the variables,
  because `io61_seek` passes through several.  It says that an active slot holds
  the bytes that its `offset` promises (`SlotsTrue`), and the current one too
  while bytes are left in it, even if it was given up at the end of the input
  (`CurrTrue`).  `PipeAt` and `WriteInv` tie the descriptor to the current slot.
  `SecondRound` is why the loops are right for calls of two rounds (`TwoRounds`): what a
  first round leaves fits into the next slot, or the input ends there; `OverrunKeeps`
  says that only a longer call overruns.  One lemma per action then shows the invariant and what the action does to `Offset` and `Written`; the lemmas whose
  names end in `Maps` read off the steps of `PlainFile`.
* `Sh61Proofs` has three layers.  `Typed` is about every field of a process
  (`IsProcess`).  `MemoryOK` is about one shell and the lines: where it is in them (`Placed`),
  that only an interrupted shell stops waiting (`Signals`), that the one write end it
  can hold is that of the pipe it makes for its stage (`WritesOut`), that the read
  end it is about to pass on is in its hands (`Joints`), and what else it can hold
  (`NoOthers`).  `ChildrenKept` is about two processes: a shell has a child for
  which it waits, which an interrupt made it give up, or which is a background job;
  `BehindJob` tells a background job of its own from the job that it is itself.
  `PromptTidy` is `MemoryOK` and `ChildrenKept` at the prompt.  `Flow` is about all
  processes and one pipe: what a process reads, or has in its hands to read, nobody
  can write to any more (`SourcesEnd`), and the pipe that a shell has made for the
  stage it waits for can be written by that shell and that stage only
  (`OutletsServed`).  The step that matters is `WaitStageFlow`: the stage is reaped, the
  shell closes its own copy of the write end, and the pipe becomes the input of the
  next stage, unless the wait was interrupted, and then no next stage starts.
  A missing program in front of a pipe breaks `Flow`: the copy of the shell in its
  place keeps the write end as its stdout.  `FlowUnlessMissing` leaves these scripts
  out, and `SameScript` is why that can be done once and for all.  `MCSh61` has
  `ReadAsMeant` of its scripts as an assumption, which TLC evaluates.
* `KernelProofs`: `Memory` says how `pageinfo[]`, tables and slots fit together.
  Beside the checked properties it has `OwnersActive` (the owner of a page is an
  active process), `FreeSlotsClean`, `TablesOwned` (tables lie below
  `PROC_START`, so a shared page is never one) and `ReadOnlyInPlace` (a read-only
  page is where the loader put it, so the readers of a page are known from its
  number).  The subtle one is `ReferencesBounded`: a count never exceeds the
  owner and the *other* processes that map the page read-only.  The exact count
  is not invariant, because `sys_exit` decrements the counts of pages the
  process never mapped; the bound is, and `RefcountNotHigh` and the range of
  `refcount` in `TypeOK` follow from it.  `Control` says how far boot (`Booting`)
  and the loop of `fork` (`Forking`) have come; `KernelFork` is read off
  `Forking` at the end of the loop.  `MemoryKept`, `ExitMemory`,
  `InstallMemory`, `MapMemory` and `ShareMemory` show for each way of
  changing memory that `Memory` survives; the lemmas per action put them together.

Checked by TLC only: the liveness properties (`EveryoneLeaves`, `EveryoneRides`,
`EveryoneRuns`, `EveryoneGoesHome`, `CallsReturn`, `ReadersSeeEnd`, `ScriptEnds`) and whatever rests on
`ENABLED`, which the prover does not handle; that the lines are parsed as they are
meant, an induction over their characters; and, so far, that `Sh61` implements
`Shell`.
