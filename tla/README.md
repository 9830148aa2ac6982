# Verification of the PKE teaching kernel (lab1, backtrace challenge)

TLA+ models of the kernel in `src/`, checked by TLC on small instances, and their
safety properties, all of them proved with TLAPS for every value of the constants.
`PROJECT.json` maps every definition to the source lines it models.

## The system

The program is a proxy kernel for one RISC-V hart under Spike. It boots in
machine mode, drops to supervisor mode, loads one ELF application from the host
and runs it in user mode. The machine-mode timer stays enabled throughout, so
it interrupts both the application and the supervisor.

| Component | State it keeps | Operations |
|---|---|---|
| Machine boot (`kernel/machine/minit.c`) | machine CSRs, `mtimecmp` | `m_start`, `delegate_traps`, `timerinit` |
| Machine traps (`mtrap.c`, `mtrap_vector.S`) | `g_itrframe`, `mscratch` | `mtrapvec`, `handle_mtrap`, `handle_timer` |
| Supervisor start (`kernel.c`, `process.c`) | `user_app`, `current`, trapframe | `s_start`, `load_user_program`, `switch_to` |
| Supervisor traps (`strap.c`, `strap_vector.S`, `util/load_store.S`) | trapframe, `sscratch`, `g_ticks` | `smode_trap_vector`, `smode_trap_handler`, `handle_syscall`, `handle_mtimer_trap`, `return_to_user` |
| System calls (`syscall.c`) | none of their own | print, exit, backtrace |
| Locks (`atomic.h`) | `lock` | `spinlock_lock`, `spinlock_unlock`, `atomic_*` |
| Host interface (`spike_htif.c`, `spike_utils.c`) | `tohost`, `fromhost`, `magic_mem`, `htif_console_buf` | `frontend_syscall`, putchar, getchar, poweroff, shutdown |
| Host files (`spike_file.c`) | `spike_files`, `spike_fds` | init, openat, dup, close, incref, decref |
| ELF loader (`elf.c`) | `symtab`, `strtab`, memory | `elf_init`, `elf_load`, `load_user_symbols`, `parse_args` |
| Device tree (`dts_parse.c`, `spike_memory.c`, `query_htif`) | `g_mem_size`, `htif` | `fdt_scan`, `mem_done`, `htif_done` |
| Formatting (`util/snprintf.c`, `spike_utils.c`, `user_lib.c`) | none | `printu`, `sprint`, `vprintk`, `vsnprintf`, `do_panic` |
| Strings (`util/string.c`) | none | `memset`, `memcpy`, `strcmp`, ... |

How they interact: every message, file access and exit of any component is a
`frontend_syscall`, which takes a spinlock, fills `magic_mem` and polls two
mailbox words that the host polls too. A timer interrupt enters machine mode,
which moves the deadline and raises a software interrupt; the supervisor takes
that one only from user mode, counts it and returns through `switch_to`, as
every supervisor trap does.

What is hard: the timer between any two instructions of boot, trap entry, trap
exit and host calls; registers saved by macros that need a register themselves;
a lock that is not reentrant; two mailboxes shared by replies of different
kinds; reference counts whose balance is spread over four functions; a walk
along a stack the application may have damaged; reads of the application's file
that fail or come up short half-way; a recursive walk of the device tree whose
callbacks share one record between nested nodes; a line that is formatted twice,
the second time with its own text as the format. `PROJECT.json` lists these as
hazards, each at its line.

What makes each part correct: boot hands over with everything a trap needs in
place; a trap changes nothing of what it interrupts; a host call is executed
once and gets its own answer; an application is run whole or not at all; the
discovered memory is the memory the kernel is in; a line says what its format
says.

## The modules

**`Traps`** is the core: the hart from reset to shutdown or power-off. One step is one
statement of C (or a straight line that no trap can separate); before each step
an enabled interrupt is taken and `mtime` may advance by one. `pc` is a label,
or an address when the application runs. `m` and `s` are the CSRs of the two
modes, `tf` the trapframe reduced to what control depends on (epc, a0, and
whether `switch_to` has written `kernel_sp`/`kernel_trap`). The lock's swap is
two steps, because `disable_irqsave()` is empty. The ELF loader and the two
queries of `init_dtb` appear by their outcomes (an entry point or a panic; the
interface or none, or a failed assertion), which `ElfLoad` and `Fdt` justify. A
failed `assert` runs `Die`: `die` prints and calls `poweroff`, which asserts `htif`
and so dies again when there is no interface; a panic runs `shutdown`. The walk of
`sys_user_backtrace` is here only its host calls, at most `MaxDepth` of them;
`Backtrace` has the walk itself. CSR semantics, the CLINT and the application's
own instructions are external. Per function: `m_start` is `MStart`, `InitDtb`,
`MStartCsrs .. MStartMret`; `handle_timer` is
`HandleTimerCmp`, `HandleTimerSip`; `switch_to` is `SwitchCurrent .. SwitchEpc`,
`ReturnToUser`, `ReturnSret`; `smode_trap_handler` is `SmodeTrapHandler`,
`TrapCause` and the handlers below.

**`AppView`** is what the kernel promises the application, with no kernel in it:
it is loaded and started; a tick costs it nothing but time and is counted
exactly once per visit to the supervisor, and never ends the run; a system call
continues at the next instruction or ends the run. `Traps` is checked and proved
to implement it. The mapping `Phase` says what the supervisor is doing for the
application, looking through a machine trap at what it suspended (`Loc`).
`AppPC` is the real pc while the application runs (in `pc`, or in `mepc` under a
machine trap); while the supervisor has the hart it is the history variable
`resume`, where the application is to go on. That `sepc` and the trapframe hold
`resume` at each stage is `ResumeInv`, and `sret` makes the two meet: the step back
to the application is one of `AppView` only if the pc it resumes at is `resume`.

**`TrapContext`** zooms in on the two vectors. They are sequences of
instructions over a register file, the two frames and the scratch registers, and
one step executes one instruction. The timer may come before any instruction
outside machine mode. It checks what the macros do to all thirty-one registers.

**`Htif`** models the mailboxes with one step per access of a shared word, and
the host as an independent process. **`HostCall`** is what the layer promises:
commands are executed once, in order, one at a time, and a system call returns
after its own execution. `Htif` is checked and proved to implement it, with
`issued` and `log` as themselves and `waiting` mapped to "inside `do_tohost_fromhost` after
its write". `htif_lock` is left out: `Traps` shows that no call starts while
another is under way. `poweroff` prints and ends the simulation, or, without the
interface, prints and calls itself again.

**`Backtrace`** is `sys_user_backtrace` on an arbitrary stack (words of 8
bytes), one step per loop iteration. A symbol's end wraps as in 64 bits, and one
that wraps covers nothing. **`BacktraceChain`** starts it on the stack that a
chain of calls leaves under `-fno-omit-frame-pointer`, with some of its words and
the frame pointer overwritten or not. All frames of a stack have one size, on
which the walk does not depend.

**`SpikeFile`** is the table of host files, one action per call.

**`ElfLoad`** is `load_bincode_from_host_elf`, one step per read of the file. A
word of memory is known by the file offset it was read from, so that "the right
bytes" is an equation; addresses wrap. Every read may fail, with any error code of
the host, or return less than asked for. `elf_load` keeps `phoff` in an int: the
program headers `ph` are by definition what lies where it then looks. `argv` overlays the buffer it is shifted in, and `symtab` is followed
by `sym_count` and `strtab` as in `struct process`, so that a table too long goes
on into them.

**`Fdt`** is `init_dtb`: `fdt_scan` run with the callbacks of `query_htif`, then
with those of `query_mem`. One step is one token; the recursion of
`fdt_scan_helper` is a stack of its local variables. Cell counts are stored in an
int, and a negative one reads no cell. Discovery ends in "done", boot goes on; or
an assertion fails, and `poweroff` has ended the simulation ("off") or, before the
interface is found, calls itself for ever ("recurse"); or it follows the null
parent of a memory node at the root ("fault"); or `mem_done` stands still ("spin").

**`Printf`** follows a line to the host: `vsnprintf` character by character, in
`printu` and once more in the kernel for the application's lines, once for the
kernel's messages and its panics. Buffers start uninitialised. What a line should
say is `vsnprintf`'s own dialect: `%x` and `%p` print all digits of the type, and
a line is cut to the buffer; `src/README.md` calls `printu` the application's
`printf` without saying so.

`MC*` modules give the constants their small values. Definitions whose comment
begins with "Mutant" are deliberate faults; no specification uses them. Each
shows that a property can fail when the code is wrong.

## Runs

| Run | Shows | Bounds |
|---|---|---|
| `Traps` | trap entry, lock, ticks, the timer's pace, boot hand-over, resumption; implements `AppView`; pending ticks are counted, supervisor traps end | interval 3, mtime up to 7: the timer fires twice, on time or late, at any two points, before or after the first tick is handled; two instructions; one fault of each privilege |
| `TrapContext` | the register file through the vectors | two supervisor traps, one timer interrupt at any instruction |
| `Htif` | mailbox protocol, refinement of `HostCall`, calls return | five operations; input bytes 0 and 255 |
| `Backtrace` | the right callers in order on an intact stack; on a damaged one, reads stay in the stack, the count is right, the walk ends | stack of 12 words, addresses up to 160, a symbol whose end wraps, up to two nested calls of two functions with frames of two words, up to two damaged words and a damaged frame pointer, max_depth 0, 1, 3 |
| `SpikeFile` | files stay alive, stderr stays stderr | six slots, five opens: the table fills up |
| `ElfLoad` | segments in place, no partial load, exact symbols, the right file | 16 addresses, two error codes, files of 10 words, every pair of eight kinds of segment (overlapping, empty, truncated, wrapping, refused), two symbols of three words, two words of names, tables at and around both limits, three command lines |
| `Fdt` | callbacks see their own node, discovery is exact, it ends | cells of base 8, so that a count may be negative; every two of a dozen subtrees under a root with and without cell counts; damaged streams |
| `Printf` | the host gets what the format says | a buffer of five characters, formats of up to three pieces, int of one hexadecimal digit, long of two: lines shorter than, as long as and longer than the buffer, both ends of each type |

The limits of `ElfLoad` and `Printf` are small versions of the code's
(`MAX_USER_SYMS`, 256 bytes); inputs lie on both sides of each.

Four runs expect a violation; each refutes what the code says of itself:

- `TrapsLostTick`: a tick raised between `g_ticks++` and the write of `sip` is
  discarded.
- `TrapContextWindow`: the vectors overwrite t6 before they save it. t6 is
  therefore lost at every trap, and a timer interrupt inside the supervisor's
  macros comes back with t6 on `g_itrframe`, so that part of the application's
  context goes there.
- `SpikeFileClose`: `spike_file_close` of an opened file never reaches
  `HTIFSYS_close`, because a fresh file has three references and no descriptor.
- `PrintfPanic`: `do_panic` hands its `va_list` to the variadic `sprint`, so the
  arguments of a panic are not the ones printed.

Three more disagreements of the code with itself have no run of their own; the
properties are stated so as not to depend on them:

- `handle_timer` counts the next deadline from the one that has passed; its comment
  (`mtrap.c:20`) says "TIMER_INTERVAL from now". The two differ when the handler
  runs late. `TimerPaced` holds either way.
- `dts_parse.c:24` sets "the default cell counts, as per the FDT spec", but once for
  all children of a node, so that a child that declares none gets those of a sibling
  before it. `CellsDeclared` excepts the trees in which this reaches a memory node.
- `poweroff` begins with `assert(htif)` (`spike_utils.c:84`), and a failed assertion
  calls `poweroff`: one that fails without the interface, as in a blob that is not
  understood, recurses for ever, and the loop of `wfi` meant for that case is never
  reached. `Fdt` ends in "recurse" there, and `Terminates` asks for the interface.

Properties that hold only under a condition say so in their definition:

- `ContextPreserved`, `MTrapTransparent`: all registers but t6, and for the
  application only if no timer interrupt met a macro;
- `SegmentsInPlace`, `NoPartialLoad`: no segment of 2^64 - 4095 bytes or more, whose
  length could equal the error code of a failed read. The bss is not required to be zero:
  `elf_load` reads memsz bytes, so it holds what follows the segment in the file;
- `SymbolsExact`: the symbol table is a whole number of entries, else its tail
  may reach `strtab`;
- `DiscoveryExact`: the tree is one as Spike builds it (`Good`): properties before
  children, complete memory nodes under parents whose counts an int holds, the
  kernel in a region that is not empty, and no parent of a memory node leaves out a
  cell count that an earlier sibling of that parent declared (`CellsDeclared`). Spike's root declares both counts and has no sibling;
- `Terminates` (`Fdt`): the tree has the interface, properties before children, no
  memory at the root and a positive number of address cells at every node
  (`Usable`). Each has a reason: without the interface a failed assertion recurses,
  a property after a child may fail one before `htif` is set, a root's parent is
  null, and without cells `mem_done` stands still;
- `AppLineExact`: the line, as cut to the buffer, has no percent sign, which the
  kernel would take for a conversion, and no NUL (a `%c` of zero), at which it
  would stop reading;
- `KernelMessageExact`, `AppLineExact`: no `%ld` of the most negative long and no
  conversion that `vsnprintf` does not know (`Proper`).

Deadlock is not checked in `Htif` (the machine stops) and in `SpikeFile` (the
bound on opens is reached and everything is closed).

**Fairness.** `Traps`, `Backtrace` and `Fdt`: weak fairness of the next-state
relation, the hart keeps executing. `Htif`: weak fairness of the kernel's steps,
and of the host taking commands and delivering replies, since Spike's loop polls
both mailboxes; none for typing.

## Proofs

`TrapsProofs` proves, for every `TIMER_INTERVAL` above 2, every set of
application addresses, and no matter how far time runs, all the safety
properties of run `Traps`: `TypeOK`, `TrapEntrySafe`, `NoSelfDeadlock`,
`TicksNotInvented`, `TimerPaced`, `BootHandsOver`, `NoSupervisorNoKernel` and
the action property `ResumesAtTrapPoint`. The assumption on the interval is the
one boot needs: two instructions lie between writing the first deadline and
`mret`.

None of them is inductive: each depends on what the code has set up by the time
it can be interrupted. The inductive invariant `IInv` has these parts:

- `ModeInv`: which privilege each label runs at;
- `BootInv`: what `m_start` has configured at each of its labels, and that it
  is all configured outside it; boot makes host calls and can die, so it is stated
  of the place the call will return to (`MAt`, `Before`);
- `SuspendInv`: what a machine trap suspended, so that the other parts can be
  stated of "where the supervisor stands" (`SAt`) whether it is suspended or not;
- `SupervisorInv`: supervisor code runs with SIE clear; when the application
  runs, the trapframe, `sscratch`, `stvec` and `current` are in place;
- `ResumeInv`: where the application's pc is at each stage (`sepc`, the
  trapframe, `sepc` again) and that it equals `resume`;
- `LockInv`: the lock is held exactly inside `frontend_syscall`, and machine
  mode never suspends that code to call it again;
- `TickInv`, `DeadlineInv`: ticks counted and owed, and the deadlines, which lie on
  the grid of intervals that `timerinit` starts.

Each part has one lemma with a case per action.

It also proves the refinement: `Traps` implements `AppView`. `StepMoves`
says for each of the actions where it leads the supervisor and what it does
to the places where the application's pc is kept; `MoveRefines` turns such a move
into a step of `AppView` or a stutter. `CauseInv` adds to `IInv` that a handler
runs only for its own cause. The proof asked for a `Phase` whose cases exclude
each other: a CASE with overlapping guards leaves its value open.

`TrapContextProofs` follows the registers through all 143 instructions of the
three vectors, for any number of supervisor traps and timer interrupts, and
proves `KernelEntered`, `MTrapTransparent` and `ContextPreserved`. `SvecCode`,
`RetCode` and `MvecCode` say which instruction is where; `CInv` says at each place
which registers, frame slots and scratch registers already hold what. A timer
interrupt may suspend any of it, so `EntryInv`, `SaveInv` and `RestoreInv` speak of
`Spc` and `Sreg`, the suspended code's place and registers, t6 left out. `EntryInv`
holds whether or not a macro was interrupted (a store through a wrong t6 reaches
only the first 31 slots of a frame), the other two only if not (`hit`).

`HtifProofs` proves for every set of system calls and bytes, every input and any
number of operations that no unexpected reply is met, that a call returns its own
answer, that bytes arrive once and in order, and that `Htif` implements
`HostCall`. `HInv` says at each access which words can be on their way: at most one
reply of a system call (`SyscallInv`) and one read, which is unasked, in `cur`, in
`tohost`, at the host or answered (`ReadInv`). `HtifAssumption` requires that 1,
the payload that ends the simulation, is no call number.

`SpikeFileProofs` proves `ReachableAlive` and `StderrStays` for tables of any size
and any number of opens. `FInv` bounds each slot's `refcnt` from
below by the references that callers and descriptors hold and the two that no one
gives back, and keeps the host's descriptors of reachable files distinct.

`ElfLoadProofs` proves `SegmentsInPlace`, `NoPartialLoad`, `SymbolsExact` and
`OpensApplication` for every file, command line and outcome of the reads. `EInv`
says what the argument buffer holds after i shifts (`ArgsInv`), what memory holds
after i segments (`LoadInv`), and what the tables hold (`TablesInv`).
`ElfAssumption` gives the fields of the headers their width and has the two tables
too small for an error code to equal their length, as 512 symbols and 8 KiB are.

`BacktraceProofs` proves for every stack, register contents, symbol table and
`max_depth` that the walk reads only the live stack, prints at most `max_depth`
lines and returns their number. `BInv` adds to those that
`current_fp` lies above sp inside the loop and that `printed` is a sequence of
`count` lines. For the stack of an undamaged chain of calls, of any length that
fits, it proves `PrintsCallers`: `StackWords` reads the prologues' words back,
`PrintInv` says that `current_fp` is the frame `Len(chain) + 2 - count`, the
functions below it having been printed. `ChainAssumption` is what the compiler and
the linker provide: frames of at least two words that fit on the stack, and for
every function a symbol that alone covers its return addresses.

`FdtProofs` proves `DoneSeesOwnNode` for every device tree, however deep and long.
`StackInv` says that the activations of `fdt_scan_helper` are one more than the
nodes open before `lex`, all but the top one past their last property; `ScanInv`
that the callbacks have summed up exactly the properties between the node being
read and `lex`; `CoverInv` that the running query has called `done` for the nodes
passed, that one excepted; `LogInv` that every call so far was told of its own
node. The property says nothing of a stream that is no tree, so `FdtAssumption`
asks of one what Spike's compiler writes and `fdt_scan` does not check: known
tokens, one END, at the end, never more nodes closed than opened, values in cells
and a value for every cell count. Nodes left open at END are allowed.

It also proves `DiscoveryExact`. `GInv` adds to the above that the children entered
are the nodes open at `lex` (`OpenInv`), what their cell counts are (`CellsInv`: the
default unless the node or a sibling before it has declared others, the latest
declared for the node being read, and a node's own further up the tree, unless it
left out one that a sibling before it declared),
and, in a good tree, what the calls of `done` so far have made of `htif` and
`g_mem_size` (`ResultInv`). `ParentIs` shows that the activation two below the top
is inside the parent that the tree gives the node. The proof needed more of `Good`
than was once stated: a later, empty region at the kernel's own address would set
`g_mem_size` to zero, so no region that holds the kernel may be empty.

`PrintfProofs` proves `NoStaleByte`, `KernelMessageExact` and `AppLineExact` for
every buffer size, width of int and long, format and arguments. `BInv` is about the
buffer: the bytes below `pos` are written, the last one is kept for the NUL, and
there is an argument for every conversion that the rest of the format can hold.
`MInv` is about the message: the first i pieces of the format were formatted and
perhaps a part of the next was read, the buffer holds their text, cut to its size,
and the arguments left are those of the pieces to come (`Parsed`; once the buffer is
full a `%c` leaves its argument to the next conversion, but what is formatted then
is cut off, and `Agree` needs no more than that `pos` is past the end); in the kernel's
second pass over a line of the application, the first d characters were copied
(`Copied`). That the digit loops put the number's text for every number
(`HexTextIs`, `DecimalTextIs`) is an induction. The library's induction theorems
take an operator, which the provers cannot instantiate, so `SetInduction` and
`Recursion` state induction and recursion with sets and functions instead; they rest
on the well-foundedness of < on the naturals. `PrintfAssumption` says what a
character, a register and a piece of a format are, and that a call has as many
registers and words of the stack as the conversions of its format, or of a line
passed as one, can take: a conversion is two characters or more, so 128 words for
the 256 bytes of the buffers.

Only model-checked: the properties under fairness (`TickRecorded`,
`TrapCompletes`, `SyscallReturns`, `MachineStops`, `Terminates`), which are out of
the prover's reach.

## Not modelled

- `util/string.c`: pure functions without state. The kernel calls `memset`,
  `strlen` and `strcmp`, which `Fdt`, `ElfLoad`, `SpikeFile` and `Backtrace` take
  for granted; `memcpy`, `memmove`, `strcpy`, `safestrcpy` and `atol` have no
  caller.
- Functions without a caller in the kernel: `vprintm`, `putstring`, the `close`
  callback of the device-tree walk, which no caller sets.
- Hart ids and more than one hart: `NCPU` is 1.
- Byte addresses in `Backtrace`: frame pointers are multiples of 8, and the wrap
  of `&frame_view[-1]` for pointers below 8 is left out, since no stack is there.
- The stacks: machine traps taken from machine-mode boot would share `stack0`,
  which `BootHandsOver` excludes.
- Linker scripts, the build, type definitions and register constants.

## Status

Every component that changes state has its module, and every safety property and
refinement that a run checks is proved. The liveness properties stay with TLC. The
code has one hart and one process; a second of either would be where to extend the
models, starting from `Traps` and from `HostCall`, whose callers now never overlap.
