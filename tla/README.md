# Zero_OS: TLA+ models and proofs

The repository holds two programs. `zeos/` is ZeOS, a small i386 teaching
kernel: boot code, a timer-driven scheduler, fork, exit, read, write and a few
more system calls, and paging with private data per process. `sockets/` is a TCP
client, a server with four ways of serving its clients, and a launcher that
starts many clients. The two share no code.

This directory models the parts of both that change state, checks them with TLC
on small instances, and proves with TLAPS, for every size, all of the safety
properties that the runs check: those of the kernel, of its memory, list code and
accounting, of `write` and the screen, of `build` and the loader, of the server and
of the launcher, and that the kernel implements what user programs are promised.
Liveness is checked on the small instances only.

- `tlc -workers 2 -config <run>.cfg <module>` runs a check (the table under
  [Runs](#runs) names the module);
- `tlapm <module>` checks the proofs of `ZeosKernelProofs`, `ZeosMemoryProofs`,
  `ZeosListProofs`, `ZeosStatsProofs`, `ZeosConsoleProofs`, `ZeosImageProofs`,
  `SocketServerProofs` and `LaunchClientProofs`.

## Inventory

### The kernel

| component | state | operations | interacts with |
|---|---|---|---|
| scheduler and task switch (`sched.c`) | `task[]` (PCB and kernel stack of each task), `readyqueue`, `freequeue`, `CPU_QUANTUM`, the CPU's `%esp` and `cr3`, `tss.esp0` | `sched_next*`, `needs_sched*`, `update_sched_data*`, `update_current_state*`, `task_switch`, `block_process`, `unblock_process`, `init_sched`, `init_idle`, `init_task1` | called by the timer, exit, the console and the policy library |
| timer interrupt (`interrupt.c`, `entry.S`) | `zeos_ticks` | `clock_routine` | drives the console, then the scheduler |
| emulated console, FCFS, policy selector (`libschedperf.a`, binary) | I/O request blocks, list `console_blocked`, function pointers of the policy | `zeos_read_console_emul`, `zeos_update_read_console_emul`, `set_sched_policy`, the `*_fcfs` functions | calls back `block_process` and `unblock_process` |
| fork, exit (`sys.c`) | `PID_MAX`, fields of the PCBs | `sys_fork`, `ret_from_fork`, `sys_exit` | frames, page tables, lists, scheduler |
| frames and page tables (`mm.c`) | `phys_mem`, `pagusr_table`, `cr3`, the TSS | `init_frames`, `alloc_frame`, `free_frame`, `set_ss_pag`, `del_ss_pag`, `set_user_pages`, `set_cr3` | boot, fork, exit, task switch |
| linked lists (`list.c`) | `next` and `prev` of every node | `list_add`, `list_add_tail`, `list_del`, `list_empty`, `list_first`, `list_is_last` | all of the above |
| accounting (`sched.c`, `stats.h`) | `struct stats` of each PCB | `act_ticks_*`, `sys_get_stats` | every entry to and exit from the kernel |
| dispatch and the other calls (`entry.S`, `sys_call_table.S`, `sys.c`, `libc.c`) | `errno` | `system_call_handler`, `sys_write`, `sys_gettime`, `sys_getpid`, `sys_set_sched_policy`, `sys_get_stats`, the wrappers | user library |
| keyboard, screen (`io.c`, `devices.c`) | cursor, screen | `printc`, `printc_xy`, `printk`, `sys_write_console`, `keyboard_routine`, `zeos_show_clock` | write, keys, ticks |
| boot and image (`bootsect.S`, `build.c`, `system.c`) | the image, the place on the floppy | `build`, `read_it`, the copy in `main` | leaves the state of `Init` |
| descriptor tables (`hardware.c`, `interrupt.c`, `mm.c`) | GDT, IDT, TSS | filled once | - |
| semaphores (`libauxjp.a`, binary) | - | no caller in the source | - |

What makes the kernel correct: every PCB is in exactly one place (running,
ready, blocked or free); a task is resumed where it was left; the CPU uses the
page directory and the kernel stack of the process it runs; processes own their
data frames and never see each other's data; PIDs identify living processes;
every ready process runs under round robin and every reader wakes up; the time
of a process is charged once, to the right counter; write prints all of its
buffer or nothing; and the image that `build` makes is in memory, whole and in
order, when the kernel starts.

What is hard: the kernel runs with interrupts off, so all concurrency is in the
places where `task_switch` hands the CPU over. One of them lies in the middle of
the timer interrupt of an unrelated task (the console wakes a reader, and
`unblock_process` may switch at once), and the rest of that interrupt runs much
later. Every PCB and frame is reused after exit. fork can fail half-way. The
accounting must be right at each of those places, and a new child enters past
one of its calls. The loader moves through tracks, heads and segments that end at
different places, driven by lengths another program has patched in.

### The sockets

| component | state | operations |
|---|---|---|
| server (`serverSocket.c`, `socketMng.c`) | `NUM_CONECTIONS`, the accepted descriptor, children or threads | four server loops, `doServiceFork`, `doServiceThread`, `doService`, `func_sigchild` |
| client (`clientSocket.c`) | messages left | connect, write, read, close |
| launcher (`launchClient.c`) | `current_concurrent`, `max_concurrent` | fork of the clients, `trat_sigchld` |

What makes the server correct: the bounded scheme really bounds the children at
work, every connected client is served, and no message is too long for the
buffers. What makes the launcher correct: it comes to its end, and its count errs
in one direction only.
What is hard: a handler runs between any two instructions of `main`, in the
middle of `++` too; pending signals coalesce; a child may end before its parent
has counted it; descriptors are never closed; a stream splits and joins
messages, which the buffers of both ends do not always hold; and a write to a
client that is gone ends the writer.

## Modules

| module | models |
|---|---|
| `ZeosMM` | `mm.c`: the frame map and the user part of a page table, as operators on values |
| `ZeosQueues` | what the lists of `list.c` are to their callers: sequences |
| `ZeosList` | `list.c` by its pointers, with the sequences as a history variable |
| `ZeosKernel` | scheduler, task switch, timer, console, fork, exit, read, policy change, user stores |
| `ZeosProcess` | abstract: processes as user programs see them |
| `ZeosRefinement` | the mapping of `ZeosKernel` to `ZeosProcess` |
| `ZeosStats` | the accounting of all tasks, on an abstraction of the scheduler |
| `ZeosConsole` | the calls that return at once, from wrapper to handler and back, screen and keyboard |
| `ZeosImage` | `build`, the loader of the boot sector, the copy of the user program |
| `SocketServer` | server and clients, over byte streams |
| `LaunchClient` | the launcher |
| `MCZeosKernel`, `MCZeosConsole`, `MCZeosImage`, `MCSocketServer` | values of constants for TLC |
| `ZeosKernelProofs`, `ZeosMemoryProofs` | theorems about `ZeosKernel`: lists, points and PIDs; memory and the refinement |
| `ZeosListProofs`, `ZeosStatsProofs`, `ZeosConsoleProofs`, `ZeosImageProofs`, `SocketServerProofs`, `LaunchClientProofs` | theorems about the other components |

### ZeosKernel

Every gate of the IDT is an interrupt gate, so a handler is atomic until it
returns to user mode or passes the CPU on inside `task_switch`. The variable
`where` gives the program point of each task: `"user"`, `"cpu_idle"` and
`"boot"` can be interrupted; `"clock_sched"`, `"clock_exit"` and `"read_return"`
are points after a call of `sched_next` at which a task may wait for the CPU;
`"ret_from_fork"` is the start of a child. While `where[cur]` is a point inside
the kernel, the continuation of `cur` is the only enabled action.

| action | code |
|---|---|
| `return_gate` | the end of `main` (`system.c`): lret to user mode |
| `clock_routine` | `clock_routine` up to the console: `zeos_update_read_console_emul`, with `unblock_process` |
| `clock_sched`, `clock_exit` | the rest of `clock_routine`: `update_sched_data`, `needs_sched`, `sched_next`; the iret |
| `sys_fork` = `sys_fork_EAGAIN`, `sys_fork_ENOMEM`, `sys_fork_child` | the three ways out of `sys_fork` |
| `ret_from_fork` | the child's first code |
| `sys_exit` | `sys_exit` |
| `sys_read`, `read_return` | `sys_read`, `zeos_read_console_emul`, `block_process`; the return after the wake-up |
| `sys_set_sched_policy` | the same |
| `user_store` | a store of user code through the page table the CPU uses |

`cur` is the task whose kernel stack `%esp` points into, `cr3` and `esp0` are
the task whose page directory and stack the CPU and the TSS name: three
variables, because nothing but the code keeps them equal. `Init` is the state in
which `main` enables interrupts. `main` then still runs on the stack of
`task[1]`, a PCB that is in `freequeue` (`INITIAL_ESP`, `mm_address.h`), hence
`BOOT`. The reduction of `alloc_frame`'s scan to "the lowest allocatable frames
in increasing order" is in `ZeosMM`; the holes it leaves on purpose and the
strict bound of `free_frame` are kept. `CPU_QUANTUM` wraps at `INT_MAX`.

`sys_fork_child` goes through the mappings of the code: `MapChild` is the page
tables with the frames of the child mapped in the parent as well, `copy_data`
writes through the table of `cr3`, and the temporary entries are then deleted, so
that a forgotten one would be seen by `FrameOwnership`.

Data are abstracted: a page holds one value, a process writes values of a small
set, and of `struct stats` only the assignments to the state field are kept.

The binary library `libschedperf.a` is modelled from how the kernel calls it
(marked external in the map): FCFS never preempts a process, the console serves
its first request one unit per tick, and a request that finds no block fails.

### ZeosList and ZeosQueues

`ZeosKernel` works on sequences. `ZeosList` has the pointers and the order of
the stores in `__list_add` and `__list_del`, for callers that link only unlinked
entries and unlink only linked ones; `QueueIntegrity` of `ZeosKernel` is the
statement that all callers do.

### SocketServer

`pc` is the point of `main`. `NUM_CONECTIONS++` is the two actions `load` and
`store`, as in the build of the Makefile, and `func_sigchild` is enabled whenever
a signal is pending. `worker[c]` is the child, the thread or `main` itself
serving client `c`, before its read or between read and write. `MaxFD` and
`MaxWorkers` are the limits of the operating system at which `accept` and `fork`
(or `pthread_create`) fail. `scheme` is chosen in `Init` among the values of the
command line, and `NUM_IT[c]` is the number of messages on the command line of
client `c`. A connection is two reliable streams of bytes, counted in units: a
request is `HOLA` units, an answer `CARACOLA`, and a read takes any number of those
that are there, up to `SIZE_BUFF` (the 80 bytes of `buff`). `doService` answers
each read, so a client may close with answers unread, which resets the connection;
a write to a reset connection is `doServicePipe`.

Both ends print what they have read in a line that they build in a second buffer of
80 bytes. `LINE` is the largest read whose line fits: the text around it takes 23 to
29 bytes, by the digits of the PID, so 51 to 57 of the 80. A longer read overruns
`buff2` (`Overruns`), and its end is then in `smashed`. What an overrun does is
undefined: the process goes on, or it is ended by a signal at any later time
(`doServiceAbort`, `clientAbort`), and with `main` or a thread the whole server.
`partial` is a history variable, the connections on which some read has left bytes
behind.

### LaunchClient

`main` is cut at its accesses to `current_concurrent`, and the handler, once
entered (`signalled`), reaps child by child (`trat_sigchld`) before `main` goes
on. Children are alike and are counted.

### ZeosStats

Time multiplies the states of `ZeosKernel`, so this module has the same program
points and the same order of calls, but leaves open who runs next: lists are
sets, and a switch may happen wherever the code asks `needs_sched`. Whatever the
real policy does is one of its behaviours. Every call of `get_ticks` is a choice
of a later or equal time. Not every return to user mode reads the clock: a failing
`read`, `set_sched_policy`, an unused call number (`silent_call`), the keyboard
interrupt (`keyboard_routine`) and the end of a `read` that has blocked
(`read_return`) take time and leave the stamp as it is. `origin`, `missed` and
`dispatched` are history variables: when the accounting of a process began (less the
`ready_ticks` a child inherits, which `set_ini_stats` does not reset), its dispatches
less those counted, and when the running task got the CPU.

### ZeosConsole

One process at a time makes a call (`pc`), which the handler, the table and the
argument checks of `sys.c` answer; `sys_write` proceeds chunk by chunk; the
wrapper turns the result into a return value and `errno`. Between two calls, while
user code runs, keys are echoed in the corner of the screen and every tick of the
timer shows the clock (`zeos_show_clock`). That function is in the binary library
and is modelled from its call in `clock_routine`: it writes any characters to a fixed
set of cells, `ClockCells`, and leaves the cursor of `io.c` alone, since its object
file in `libzeos.a` does not refer to `x` and `y`. `text` is a history variable:
everything printed by the program.

### ZeosImage

`build` copies the three files and patches the lengths (`copyBootsect` to
`patch`), the loader reads them track by track (`read_it`, `rp_read`, `endRead`),
and `main` copies the user program (`copyToUser`). A byte of the image is named
by where it comes from, a length is one byte; disk and memory are counted in
sectors. The floppy has `TRACKS` tracks under each head, of which the part of memory
below the boot sector takes up less than all.

## Runs

| run | module | instance | distinct states | shows |
|---|---|---|---|---|
| `sched` | `MCZeosKernel` | 4 tasks, quantum 2, 2 request blocks, PIDs to 4 | 2.2 million | `TypeOK`, `QueueIntegrity`, `ReadersMatchPending`, `Resumable`, `ContextMatches`, `LookupFindsLive`, `DeadTasksHaveNoPID`, `FramesSuffice`, `QuantumBounded` |
| `memory` | `MCZeosKernel` | 2 data pages, values 0 and 1, no reads | 3.0 million | `Isolation` |
| `lowmem` | `MCZeosKernel` | 13 frames | 0.3 million | `FrameOwnership`, `FailedCallsUndone` |
| `refine` | `MCZeosKernel` | 1 data page, values 0 and 1 | 0.8 million | `ImplementsProcess` |
| `live` | `MCZeosKernel` | as `sched`, reads of 0 and 2 units, PIDs to 3 | 0.1 million | `RoundRobinServesAll`, `ReadersWakeUp` |
| `lists` | `ZeosList` | 3 heads, 4 entries | 685 | `Represents`, `ReadsAgree` |
| `stats` | `ZeosStats` | 2 processes and idle, 2 clock values | 0.8 million | `TypeOK`, `AccountedOnce`, `UserTimeIsOwnTime`, `DispatchesCounted`, `CountersOnlyGrow` |
| `console` | `MCZeosConsole` | screen of 4 by 2 with the clock in one cell, chunks of 2, buffers of up to 5 | 0.5 million | `TypeOK`, `WriteAllOrNothing`, `LineShowsText`, `CallsReturn` |
| `image` | `MCZeosImage` | small tracks and segments, all pairs of sizes | 11 thousand | `TypeOK`, `LoadedInOrder`, `ReadsFit`, `BootsectKept`, `ProgramsInPlace`, `Boots` |
| `server` | `MCSocketServer` | 3 clients, one with 2 rounds, limit 1, all schemes | 0.3 million | `TypeOK`, `CountNeverLow`, `SchemeBound`, `OverrunNeedsSplit`, `AllServed` |
| `launch` | `LaunchClient` | 5 clients | small | `TypeOK`, `CountNeverLow`, `Ends` |
| `server_count` | `MCSocketServer` | bounded scheme only | - | a violation, see [Findings](#findings) |

Why the bounds are enough to meet the interesting cases:

- Four tasks are idle, init and two more PCBs: a reader can be woken while
  another process runs and a third is ready, `freequeue` runs empty, and with
  `MaxPID` 4 a PCB is used by two processes one after the other. `MaxPID` is a
  bound on the number of forks; in the code `PID_MAX` is an `int`.
- `INT_MAX` 2 lets the wrap-around of `CPU_QUANTUM` in idle happen, and
  `INITIAL_QUANTUM` 2 distinguishes a quantum in use from a fresh one.
- Two request blocks for three processes let a read fail for lack of one.
- With two data pages an exit that frees one page too few, or a copy with pages
  in the wrong order, is visible. In `memory` every process can have its frames;
  in `lowmem` there is memory for a process and a half beside init, so that fork
  fails after it has taken a frame.
- `MAX_CLIENTS` 1 with three clients: a lost decrement leaves the count at the
  limit, and the next client meets it. In `server_count`, with limit 3, children
  share a signal. `MaxWorkers` 2 and `MaxFD` 3 let fork and accept fail in the
  schemes that never wait for children and on the last client. A request of two
  units: it is answered twice, and an answer is left unread at close. One client has
  two rounds: the second is answered by what is left of the first, and up to four
  units of request and of answer pile up, of which a read takes three (`SIZE_BUFF`)
  and a line holds two (`LINE`), so that both ends are overrun and both ends are
  ended by it. The other clients have one round, in which at most two units are ever
  on the way.
- Two clock values are enough to tell an interval that is charged from one that
  is not, and from one charged twice; `ZeosStatsProofs` proves the
  invariants of this run for any number of values. `total_trans` wraps at 2.
- Five characters in chunks of two: no chunk, chunks without a rest, and with
  one; on two rows of four columns they pass the margin and the last row, and the
  clock is in the middle of a row that text runs through.
- In `image` tracks do not divide segments, so that a track is split by the end
  of a segment, and images end in the middle and at the end of both.
- With five clients several end during one `++`, and the handler interrupts the
  comparison and the copy of the maximum.

Deadlock is checked in all kernel runs, in `stats`, `console` and `lists`. It is
not in the server runs, because clients are finite in number and the server then
waits in `accept`, nor in `launch` and `image`, which come to an end.

### Fairness

Kernel (`live`): weak fairness of `clock_routine` and of the continuations
`clock_sched`, `clock_exit`, `ret_from_fork`, `read_return`. The timer is
periodic and the interrupt controller keeps a request while interrupts are off;
a handler runs to its end. Nothing is assumed of user code: a process may run
for ever without a system call. `RoundRobinServesAll` is therefore stated for
round robin only; under FCFS a process that never blocks keeps the CPU. In that
run `Policies = {0}`, so round robin, once chosen, stays, while FCFS is the
policy until it is chosen.

Server (`server`): every process of server and clients is scheduled and a
pending signal is delivered. Whether a client is ever started is left open, and so
is whether an overrun buffer ends a process. The fairness of the clients that have
connected is needed: at its limit the bounded server waits for all its children, and
a client that stops holds up all the others. `AllServed` says nothing of how long.

Launcher (`launch`): the same, and clients end, which is what `AllServed` says of
them or the end of the server causes. `console`: handler and wrapper run on; keys
and programs are not assumed to do anything. `image`: the three programs run on.

## Findings

`server_count` is a run that TLC must find violated: `NUM_CONECTIONS` drifts
upwards for good, because signals coalesce and because a decrement between load
and store of `++` is lost. `CountNeverLow`, `SchemeBound` and `AllServed` show
that the bound holds and nobody is left unserved on account of it: `main` waits for
all its children, not for the count.

Other places where the code differs from what its comments, names or tables
suggest, met while modelling. The models follow the code, and the properties
are stated so that they hold of it:

- `unblock_process` (`sched.c:418`) links the current task in `readyqueue`
  without the test for PID 0 that `clock_routine` makes. When idle is
  interrupted, idle itself is linked, and is later given the CPU although
  processes are ready. `QueueIntegrity` and `RoundRobinServesAll` still hold,
  since idle is linked once at most; the cost is CPU time.
- `block_process` sets `ST_BLOCKED` (`sched.c:401`), and the prologue of the
  switch that follows sets `ST_READY` again. Nothing reads the field.
- `block_process` assigns `system_ticks` (`sched.c:399`) where the others add.
  `CountersOnlyGrow` therefore leaves that counter out, and `AccountedOnce` is
  an upper bound.
- The system call table names `sys_read`, not `sys_read_cutre`, so the time a
  process spends in user mode before a read is charged to the system.
- A return to user mode that reads no clock (see [ZeosStats](#zeosstats)) leaves the
  kernel time it took to be charged to `user_ticks` by the next entry. What
  `UserTimeIsOwnTime` shows is that this time is at least the process's own: it never
  reaches back to before the process got the CPU.
- `total_trans` does not count the first dispatch of a child, which starts at
  `ret_from_fork`, nor that of idle (`DispatchesCounted`).
- A fork that runs out of frames (`sys.c:179`) frees a PCB that carries its
  parent's PID, where `sys.c:239` has -1 for dead tasks. With `NR_TASKS` 10 and
  the sizes of `mm_address.h` frames do not run out (`FramesAlwaysSuffice`), so
  that `DeadTasksHaveNoPID` holds in run `sched` and in ZeOS (`DeadAlways`).
- fork maps the shared code pages writable in the child (`sys.c:170`), while
  `set_user_pages` leaves them read-only in init.
- The wrapper `gettime` returns 0, not the time (`libc.c:54`); the wrapper `fork`
  reports every failure as `EAGAIN`.
- `build` does not compare the image with `DEF_SYSSIZE` (`build.c:43`), and
  `read_track` does not look at errors of the drive.
- `doService` and the client put up to 80 bytes with a text around them into 80 bytes
  (`serverSocket.c:30`, `clientSocket.c:54`), and an end mark behind a full buffer. One
  message is far from that; it takes about seven joined answers or eleven joined
  requests. `OverrunNeedsSplit` shows that messages are joined only on a connection
  where a read has split one before. After that a process may be ended unserved, which
  is one of the exceptions of `AllServed`.
- No descriptor of an accepted connection is closed and children are waited for only
  in the bounded scheme, so a long-lived server runs out of one or the other and exits:
  the other exception of `AllServed`, except for clients served by a child of their own.
- The clock of the timer interrupt prints over whatever text there is in its cells;
  `LineShowsText` leaves them out.
- The launcher's maximum may be too high (lost decrements) and too low (the
  handler runs between increment and comparison); a handler between comparison
  and copy may even lower it.

## Proofs

`ZeosKernelProofs` proves, for every number of tasks from 4 on, every quantum,
page layout, frame count and set of inputs, that `Spec` implies each of
`TypeOK`, `QueueIntegrity`, `ReadersMatchPending`, `Resumable`,
`ContextMatches` and `QuantumBounded`. It assumes `KernelAssumption` and
`MMAssumption` (sizes are natural numbers, the quantum fits an `int`, init's
pages fit in memory), which TLC evaluates in every run.

None of the invariants is inductive alone. `IInv` is their conjunction with four
more:

- `QueueIntegrity` needs `ReadersMatchPending` (the task the console names is
  the head of `console_blocked`, so that `list_del` unlinks a linked PCB),
  and the PIDs and points below (which task runs is told by its PID);
- `PidInv`: idle, and only idle, has PID 0 (the tests on PID 0 are tests for
  idle), and no linked task has PID -1;
- `PointInv`: which tasks can be at which program points; without it a
  `ret_from_fork` or a system call of a free PCB could not be excluded;
- `BootInv`: until `main` leaves the boot stack the policy is FCFS, nothing is
  ready and no read is pending, so that no tick switches away from a stack that
  lies in a free PCB;
- `QuantumInv`: `QuantumBounded`, and also idle's quantum is in range while the
  policy is FCFS; otherwise a switch from idle to a process under FCFS, which
  does not load a quantum, would carry an out-of-range one over.

The lemmas `DispatchLinked`, `ParkLinked`, `WakeLinked` and `ForkLinked` say what
each movement of a PCB between lists keeps; `SchedNext` and `Switch` reduce the
two policies to one dispatch; there is one lemma per action.

The same module proves what the code relies on about PIDs. `PidsUnique`, the PIDs
of living processes differ and are at most `PID_MAX`, holds without further
assumption. `DeadTasksHaveNoPID` and `LookupFindsLive` are false when a fork runs
out of frames (see [Findings](#findings)); the lemmas `DeadCorrect` and
`LookupCorrect` derive them from `FramesSuffice`: while a PCB is free there are
frames for a child's data.

`ZeosMemoryProofs` proves `FrameOwnership`, `Isolation` and `FailedCallsUndone`,
for any sizes of memory and also when frames run out. `MemInv` (`Owned`, on the
living processes, the page tables and the frame map) says page by page that data
frames have one owner, that nobody's data lie in the code, that all map the code
of init, that no temporary mapping stays, and that a frame is in use if and only
if the kernel, the code or a living process needs it. One more conjunct makes it
inductive, `AboveKernel`: data lie strictly above the first frame after the
kernel, which the code of init holds. The bound in `free_frame` is strict, and a
process with data in that frame would lose it for ever at exit. The lemmas
`ExitOwned`, `ForkOwned` and `TakeAndReturnSame` are about values of the tables;
`Isolation` follows from ownership, since fork writes to frames nobody owned and a
store reaches a frame of the writer or the code.

The same module proves `FramesSuffice`, and with it `DeadAlways` and
`LookupAlways`, in every memory that satisfies `EnoughFrames`:
`NUM_PAG_KERNEL + 2 * (NUM_PAG_CODE + (NR_TASKS - 1) * NUM_PAG_DATA) <= TOTAL_PAGES`.
The factor 2 is the step of the scan in `alloc_frame`. In ZeOS the left side is 632 of
1024 frames; in run `sched` both sides are 9, and `lowmem` lies below the bound. It is
a hypothesis of these three theorems only. The argument counts: while a PCB is free at
most `NR_TASKS - 2` processes beside idle live (`FewAlive`), the frames in use are
known from `Owned` (`UsedFew`), so enough of those the scan looks at are free
(`SlotsEnough`), and a large enough set of frames has an increasing enumeration of its
least elements (`LowestExists`). The last is an induction on the number of frames,
which is carried out as the choice of a least counterexample (`LeastElement`, from the
well-foundedness of `Nat`), since the induction theorems of the library cannot be
instantiated.

`ZeosMemoryProofs` also proves that the kernel implements `ZeosProcess`
(`ImplementsProcess`). The mapping names processes by PID and takes their data
through their page tables, so the proof needs `PidsUnique` (the PCB behind a PID is
one), `MemInv` (a store changes one page of one process) and `IInv` (who runs, and
who is in which list). `DispatchStep` treats the switch once: P is the table with
the leaving process put aside, and the CPU passes to a ready process of P or to
nobody. Each action is then one step: `BlockStep`, `PreemptStep`, `WakeStep`,
`ExitStep`, `ForkStep`, `StoreStep`. All others are not seen (`StutterStep`): the end
of the boot, where init has been the running process before `main` left its stack,
the continuations in the kernel, the ticks that wake nobody, calls that fail, the
fork without frames that writes a free PCB, and stores to the shared code.

`ZeosListProofs` proves for any set of heads and entries that the pointers
represent the sequences in both directions (`ListsRepresent`) and that the tests
on pointers answer what they answer on sequences (`ReadsCorrect`). `IInv` is
`TypeOK /\ Represents`. The two lemmas that carry it, `InsertRep` and
`DeleteRep`, are about inserting between, and unlinking from between, two
neighbours that may be the same node.

`SocketServerProofs` proves `TypeOK`, `CountNeverLow`, `SchemeBound` and
`OverrunNeedsSplit` of the server for any number of clients, any limits and any sizes of
messages. `Control` is inductive: with the children at work and the pending signal
counted together, their number is at most `NUM_CONECTIONS` between two connections, at
most one more at `load`, and at most `reg + 1` at `store` (`Covered`). A handler at
`load` lowers both sides; at `store` it lowers only the left side, which is the lost
decrement. `BelowLimit` then follows from the test in the bounded loop or from
`waitpid`, which leaves no child. `Flow` bounds the streams: `Units` counts the requests
on the way, the one its worker has read and those of the rounds to come. A read that
takes part of a request leaves a unit for the answer it causes, so no step makes
`answers + Units * CARACOLA` grow. `Sync` is the invariant behind `OverrunNeedsSplit`:
on a connection without a partial read either the server is gone, and then nobody reads
the requests that pile up, or the client is `InStep` with its worker, that is, at most
one of these exists: its request on the way, its request in the hands of the worker, the
answer on the way. `GoneStays` is why the first case lasts, and `WholeRead` why a read
of one message overruns nothing.

`LaunchClientProofs` proves `CountNeverLow` and `TypeOK` for any number of clients. The
inductive invariant adds that at the store of `++` the register is not below the count:
whatever interrupts `main` only lowers the count. `TypeOK` needs this invariant: the
register copied to the maximum is not negative because the count is not low there, and a
stale register at `store` still holds at most the number of clients counted before
(`Ranges`).

`ZeosStatsProofs` proves `AccountedOnce` and `UserTimeIsOwnTime` for any number of
tasks and any readings of a clock that does not go back. The inductive invariant
`StatsInv` says that every account is right at the time of the last reading (no
stamp in the future, the four counters within the time since the origin), that
only the current task is in user mode, and that in user mode, and also just before
`read` returns, the stamp is not older than the dispatch: that return reads no clock,
so this comes from `task_switch`, which stamped the task when it got the CPU again.
The returns without a clock keep it (`ReturnSilent`), since they change neither. The
lemmas `Charge` and `Acts` show once, for all the `act_ticks_*` functions, that
charging a difference and stamping later keeps an account right.

A second invariant, `CountInv`, rests on the first. It says where each PCB is
linked (`Lists`), that a task which waits for its first dispatch at `ret_from_fork`
or `cpu_idle` has missed no count and every other task at most one (`Counts`), and
that `total_trans` is in its range (`Ranges`). `Reached(st, n)` describes the table
of a handler between two of its calls: it comes from `statics` by charges alone, so
no counter but `system_ticks` is lower and no dispatch is counted. Every function but
`act_ticks_ready2kernel` keeps `Reached` (`Reach`), that one adds one dispatch
modulo the width of the counter (`Dispatch`, `OneMore`), and `SwitchCounts` puts
them together for `task_switch`. From these follow `DispatchesCounted`,
`CountersOnlyGrow` and `TypeOK`: that the counters stay in their range rests on
`AccountedOnce`.

`ZeosConsoleProofs` proves `WriteAllOrNothing` for every size of the buffers and of
`MAX_WRITE`. `WriteInv` follows a call from the loop of `sys_write` through `%eax` to
the caller: what is written and what is left add up to the buffer, what has been
printed since the call began is what is written (`Printed`), and `%eax`, then the
result and `errno`, tell which of the two outcomes it was. `NextFragment` shows that
a chunk appended to the text continues the buffer where the last one ended.

The same module proves `TypeOK`, whose point is that the cursor never leaves the
screen, and `LineShowsText`. `ConsoleInv` adds to `WriteInv` that what is left to write
has room (`Room`) and that the console is well formed and its line shows the end of the
text (`ScreenInv`). `sys_write_console` is a recursive function of the characters it has
printed. `RunExists` shows that there is such a function and `ConsoleRun` that the result
is its last value; `PrintcShows` is the step for one character, past the margin or not,
and `StringShows` is the induction, again by a least counterexample. `KeyShows` is the
reason why keys may arrive at any time: `printc_xy` changes the corner only and puts the
cursor back. `ClockShows` says the same of a tick and the cells of the clock.

`ZeosImageProofs` proves all the invariants of `ZeosImage` for any sizes of sectors,
tracks, segments, buffers and files, from `ImageAssumption`: a sector is a whole number
of paragraphs and holds at least the patched bytes, a track has at least two sectors and
fits in a segment, `main` lies behind the two lengths, and `DEF_SYSSIZE` ends below the
boot sector's own segment, which itself lies within the size of the floppy. `IInv`
follows the data from the files to the user pages. `Copied` says how much of the files
is behind the boot sector in the image, `Patched` what the finished image holds. While
loading, `InStep` says that the place in memory (segment and offset) and the place on
the floppy (track, head, sector) stand for the same number of sectors, and that exactly
the sectors before it are loaded. Each read keeps this whether the track, the segment or
neither ends with it (`ReadStep`, from `FloppyMoves` and `SegmentBounds`). `es <=
INITSEG`, and only with `bx = 0` at the limit, is what `BootsectKept` needs. At the end
`MemByteImage` takes a byte of memory back to the image and `LengthsFound` shows that
`main` reads the lengths that `build` patched, hence `ProgramsInPlace`. The divisions by
track and segment lengths are not linear; `DivMod`, `QuotientUnique` and `MulMono`
isolate them.

Only model-checked, on the instances of the table: the liveness properties
(`RoundRobinServesAll`, `ReadersWakeUp`, `CallsReturn`, `Boots`, `AllServed`, `Ends`).
Fairness and `ENABLED` are outside the prover's reach.

## Not modelled

- Descriptor tables, the interrupt controller, A20 and the switch to protected
  mode: constants written to hardware once. The models rely on one of them, that
  every gate is an interrupt gate.
- The semaphore library: a binary without callers in the source. `sys_read`, the
  console and FCFS are binary too and are modelled from their callers.
- The user programs themselves: user code is any sequence of system calls and
  stores, so every workload of `user.c` is covered. `itoa`, `strlen` and `perror`
  only format text.
- Functions without a caller: `access_ok`, `free_user_pages`,
  `act_stats_entra_idle`, `sys_read_cutre`, `switchIdle`, `switchInit`.
- The wrap-around of PIDs after 2^31 forks; failures of the floppy.
- Scripts and measurements.

## Plan

1. `CPU_QUANTUM` of idle under the FCFS policy of the library, and the library's
   console, should their source become available.
2. The wrap-around of PIDs, should the kernel begin to reuse them.

The order follows what the rest depends on: the lists and the switch first,
memory on top of them, then what user programs see.
