-------------------------------- MODULE Htif --------------------------------
(***************************************************************************)
(* The host-target interface (spike_interface/spike_htif.c) and the system *)
(* calls through it (frontend_syscall and poweroff in                      *)
(* spike_interface/spike_utils.c): two mailbox words that the hart and the *)
(* host poll independently.  One step is one access of a shared word.  The *)
(* host (Spike) is external.  There is one hart, and module Traps shows    *)
(* that no trap handler enters on top of a call, so htif_lock is never     *)
(* contended and is left out.                                              *)
(***************************************************************************)
EXTENDS Integers, Sequences

CONSTANTS
  Calls,       \* HTIFSYS_* numbers the kernel uses
  OutChars,    \* bytes given to htif_console_putchar
  Input,       \* what is typed on the host's terminal, a sequence of bytes
  MaxOps       \* bound: operations of the kernel

\* No HTIFSYS number is 1, the payload that ends the simulation.
ASSUME HtifAssumption ==
  /\ Calls \subseteq Nat /\ 1 \notin Calls
  /\ OutChars \subseteq 0..255
  /\ Input \in Seq(0..255) /\ MaxOps \in Nat

\* A mailbox word: TOHOST_CMD and FROMHOST_*.
Word(d, c, x) == [dev |-> d, cmd |-> c, data |-> x]
Zero  == Word(0, 0, 0)
MAGIC == 4096                  \* the address of magic_mem
EXIT  == Word(0, 0, 1)         \* an odd payload ends the simulation
HTIFSYS_write == 64
HTIFSYS_exit  == 93

VARIABLES
  tohost, fromhost,    \* the mailboxes
  magic,       \* magic_mem: a request or the host's answer to it
  buf,         \* htif_console_buf: -1, or 1 + the last byte received
  pc, ret,     \* the kernel's next access; where __check_fromhost returns to
  after,       \* what follows the frontend_syscall: "idle", "po" or
               \* "poweroff"
  call,        \* the running frontend_syscall's number
  cur,         \* __set_tohost's word
  fh,          \* __check_fromhost's fh
  ops,         \* operations begun
  hq, reads, fed, exited,      \* the host: replies to send, reads to answer,
                               \* bytes of Input used, simulation over
  issued, log, got     \* history: commands written to tohost, commands
                       \* executed, bytes that getchar returned

mail   == <<tohost, fromhost>>
host   == <<hq, reads, fed, exited, log>>
frame  == <<after, call, cur>>
seen   == <<buf, issued, got>>
kernel == <<pc, ret, frame, fh, ops, seen>>
vars   == <<mail, magic, kernel, host>>

Req(n) == [kind |-> "req", n |-> n]
Ans(n) == [kind |-> "ans", n |-> n]

\* The command that a word stands for, magic_mem looked up.
Command(w) == IF w.dev = 0 /\ w.data = MAGIC THEN Word(0, 0, magic.n) ELSE w

---------------------------------------------------------------------------
(* The kernel's operations.                                                *)

Begin(at) == pc = at /\ ops < MaxOps /\ ops' = ops + 1

\* frontend_syscall: fill magic_mem, then htif_syscall.
FrontendSyscall(at, n, then) ==
  /\ Begin(at)
  /\ magic' = Req(n) /\ call' = n
  /\ cur' = Word(0, 0, MAGIC)
  /\ after' = then
  /\ pc' = "set"
  /\ UNCHANGED <<mail, seen, host, ret, fh>>

\* poweroff: with htif set (see module Fdt) it prints, then calls htif_poweroff.
\* Without, its assertion fails, and die prints and calls it again; so the loop
\* of wfi for that case is never reached.
Poweroff ==
  \/ FrontendSyscall("idle", HTIFSYS_write, "po")
  \/ \E at \in {"idle", "poweroff"} :
       FrontendSyscall(at, HTIFSYS_write, "poweroff")

Putchar(ch) ==
  /\ Begin("idle")
  /\ cur' = Word(1, 1, ch)
  /\ pc' = "set"
  /\ UNCHANGED <<mail, seen, host, magic, ret, after, call, fh>>

Getchar ==
  /\ Begin("idle")
  /\ pc' = "chk_read" /\ ret' = "gc"
  /\ UNCHANGED <<mail, frame, seen, host, magic, fh>>

\* Mutant: the byte stays in htif_console_buf.
EmptiedNot == buf
Emptied == -1

\* htif_console_getchar after its __check_fromhost: take the byte and ask for
\* the next one.  The first call finds 0 and only asks.
GetBuf ==
  /\ pc = "gc"
  /\ IF buf >= 0
     THEN /\ got' = IF buf > 0 THEN Append(got, buf - 1) ELSE got
          /\ buf' = Emptied /\ cur' = Word(1, 0, 0) /\ pc' = "set"
     ELSE pc' = "idle" /\ UNCHANGED <<got, buf, cur>>
  /\ UNCHANGED <<mail, host, magic, ret, after, call, fh, ops, issued>>

\* Mutant: the previous command is not waited for.
BusyNever == FALSE
Busy == tohost # Zero

\* __set_tohost: while (tohost) __check_fromhost(); then the write.
SetTohost ==
  /\ pc = "set"
  /\ \/ ~Busy /\ pc' = "put" /\ UNCHANGED ret
     \/ Busy /\ pc' = "chk_read" /\ ret' = "set"
  /\ UNCHANGED <<mail, frame, seen, host, magic, fh, ops>>

\* Only do_tohost_fromhost waits.  Mutant: it does not.
AfterPutReturns == IF cur.dev = 0 THEN "fs_ret" ELSE "idle"
AfterPut == IF cur.dev = 0 THEN "wait" ELSE "idle"

PutTohost ==
  /\ pc = "put"
  /\ tohost' = cur /\ issued' = Append(issued, Command(cur))
  /\ pc' = AfterPut
  /\ UNCHANGED <<frame, host, fromhost, magic, ret, fh, ops, buf, got>>

\* Mutants: every reply goes through __check_fromhost; none does, and the reply
\* of another device is left in fromhost.
OursNever == FALSE
Ours == fromhost.dev = cur.dev /\ fromhost.cmd = cur.cmd
DrainNot == "wait"
Drain == "chk_read"

\* do_tohost_fromhost's loop: the reply with our device and command ends it,
\* any other goes through __check_fromhost.
Wait ==
  /\ pc = "wait"
  /\ \/ fromhost = Zero /\ UNCHANGED <<pc, ret>>
     \/ fromhost # Zero /\ Ours /\ pc' = "wclear" /\ UNCHANGED ret
     \/ fromhost # Zero /\ ~Ours /\ pc' = Drain /\ ret' = "wait"
  /\ UNCHANGED <<mail, frame, seen, host, magic, fh, ops>>

WaitClear ==
  /\ pc = "wclear"
  /\ fromhost' = Zero
  /\ pc' = "fs_ret"
  /\ UNCHANGED <<frame, seen, host, tohost, magic, ret, fh, ops>>

\* frontend_syscall reads magic_mem[0] and returns it.
FsReturn ==
  /\ pc = "fs_ret"
  /\ pc' = after
  /\ UNCHANGED <<mail, frame, seen, host, magic, ret, fh, ops>>

\* __check_fromhost, its read and its clearing write.
CheckRead ==
  /\ pc = "chk_read"
  /\ fh' = fromhost
  /\ pc' = IF fromhost = Zero THEN ret ELSE "chk_clear"
  /\ UNCHANGED <<mail, frame, seen, host, magic, ret, ops>>

\* The received byte: FROMHOST_DATA, cut to eight bits.
Byte(w) == w.data % 256

CheckClear ==
  /\ pc = "chk_clear"
  /\ fromhost' = Zero
  /\ IF fh.dev = 1 /\ fh.cmd \in {0, 1}
     THEN /\ buf' = IF fh.cmd = 0 THEN 1 + Byte(fh) ELSE buf
          /\ pc' = ret
     ELSE pc' = "die" /\ UNCHANGED buf
  /\ UNCHANGED <<frame, host, tohost, magic, ret, fh, ops, issued, got>>

\* Mutant: the loop only clears fromhost.
PowerOffNot == "po"
PowerOff == "po2"

\* htif_poweroff: fromhost = 0; tohost = 1; for ever.
PowerLoop ==
  /\ \/ /\ pc = "po" /\ fromhost' = Zero /\ pc' = PowerOff
        /\ UNCHANGED <<tohost, issued>>
     \/ /\ pc = "po2" /\ tohost' = EXIT /\ pc' = "po"
        /\ issued' = IF tohost = EXIT THEN issued ELSE Append(issued, EXIT)
        /\ UNCHANGED fromhost
  /\ UNCHANGED <<frame, host, magic, ret, fh, ops, buf, got>>

Kernel ==
  /\ ~exited
  /\ \/ \E n \in Calls : FrontendSyscall("idle", n, "idle")
     \/ Poweroff \/ Getchar \/ \E ch \in OutChars : Putchar(ch)
     \/ GetBuf \/ SetTohost \/ PutTohost \/ Wait \/ WaitClear \/ FsReturn
     \/ CheckRead \/ CheckClear \/ PowerLoop

---------------------------------------------------------------------------
(* The host.                                                               *)

\* It takes the command and executes it.  A system call's result goes into
\* magic_mem and its reply into the queue; a write to the console may be
\* acknowledged; a read waits for a byte.  The two ways to exit end it all.
HostTake ==
  /\ ~exited /\ tohost # Zero
  /\ tohost' = Zero /\ log' = Append(log, Command(tohost))
  /\ \/ /\ tohost.dev = 0 /\ tohost.data % 2 = 0 /\ magic.n # HTIFSYS_exit
        /\ magic' = Ans(magic.n) /\ hq' = Append(hq, Word(0, 0, 1))
        /\ UNCHANGED <<reads, exited>>
     \/ /\ tohost.dev = 0 /\ (tohost.data % 2 = 1 \/ magic.n = HTIFSYS_exit)
        /\ exited' = TRUE /\ UNCHANGED <<magic, hq, reads>>
     \/ /\ tohost.dev = 1 /\ tohost.cmd = 1
        /\ hq' \in {hq, Append(hq, Word(1, 1, 0))}
        /\ UNCHANGED <<magic, reads, exited>>
     \/ /\ tohost.dev = 1 /\ tohost.cmd = 0
        /\ reads' = reads + 1 /\ UNCHANGED <<magic, hq, exited>>
  /\ UNCHANGED <<kernel, fromhost, fed>>

\* A typed byte answers a waiting read; bit 8 marks it as present.
HostTick ==
  /\ ~exited /\ reads > 0 /\ fed < Len(Input)
  /\ reads' = reads - 1 /\ fed' = fed + 1
  /\ hq' = Append(hq, Word(1, 0, 256 + Input[fed + 1]))
  /\ UNCHANGED <<kernel, mail, magic, exited, log>>

HostReply ==
  /\ ~exited /\ hq # <<>> /\ fromhost = Zero
  /\ fromhost' = Head(hq) /\ hq' = Tail(hq)
  /\ UNCHANGED <<kernel, tohost, magic, reads, fed, exited, log>>

---------------------------------------------------------------------------

Init ==
  /\ tohost = Zero /\ fromhost = Zero /\ magic = Req(0) /\ buf = 0
  /\ pc = "idle" /\ ret = "set" /\ after = "idle" /\ call = 0 /\ cur = Zero
  /\ fh = Zero /\ ops = 0
  /\ hq = <<>> /\ reads = 0 /\ fed = 0 /\ exited = FALSE
  /\ issued = <<>> /\ log = <<>> /\ got = <<>>

Next == Kernel \/ HostTake \/ HostTick \/ HostReply

Spec == Init /\ [][Next]_vars

\* The hart keeps executing, and Spike's loop looks at both mailboxes again
\* and again.  Nobody has to type.
FairSpec == Spec /\ WF_vars(Kernel) /\ WF_vars(HostTake) /\ WF_vars(HostReply)

---------------------------------------------------------------------------

\* __check_fromhost's two assertions never fail: it is never given the reply of
\* a system call, nor an unknown command.  (The failure would print through
\* frontend_syscall with htif_lock held, and hang.)
RepliesExpected == pc # "die"

\* A frontend_syscall returns the host's answer to its own request: the reply
\* it waited for was not an earlier call's, and magic_mem was not reused.
AnswerMatches == pc = "fs_ret" => magic = Ans(call)

\* The received bytes on their way to a caller of getchar, each with its place:
\* htif_console_buf, fromhost, or a position of the host's queue.
Carries(w) == w.dev = 1 /\ w.cmd = 0
Carried ==
  {<<-1, buf - 1>> : b \in {b \in {buf} : b > 0}}
    \cup {<<0, Byte(w)>> : w \in {w \in {fromhost} : Carries(w)}}
    \cup {<<i, Byte(hq[i])>> : i \in {j \in DOMAIN hq : Carries(hq[j])}}

\* No typed byte is lost, doubled or reordered between the terminal and the
\* callers of getchar, though system calls poll the same mailbox: getchar has
\* returned all that was typed, or all but the last byte, which is then in
\* exactly one place.
CharsInOrder ==
  pc \notin {"po", "po2"} =>
    \/ Carried = {} /\ got = SubSeq(Input, 1, fed)
    \/ /\ fed > 0 /\ got = SubSeq(Input, 1, fed - 1)
       /\ \E p \in (-1)..Len(hq) : Carried = {<<p, Input[fed]>>}

\* The kernel is inside do_tohost_fromhost, its command written.
Waiting == \/ pc \in {"wait", "wclear"}
           \/ pc \in {"chk_read", "chk_clear"} /\ ret = "wait"

SysCommands == {Word(0, 0, n) : n \in Calls \cup {HTIFSYS_write}}
AllCommands == SysCommands \cup {Word(1, 1, ch) : ch \in OutChars}
                 \cup {Word(1, 0, 0), EXIT}

HC == INSTANCE HostCall WITH
        Commands <- AllCommands, Syscalls <- SysCommands, waiting <- Waiting

\* Every command is executed exactly once and in order, none is overwritten in
\* tohost (by the power-off either), and a system call returns after its own.
ImplementsHostCall == HC!HSpec

\* Every system call returns, although a console reply may occupy fromhost;
\* only shutdown's HTIFSYS_exit does not.
SyscallReturns == (pc = "set" /\ cur.dev = 0) ~> (pc = "fs_ret" \/ exited)

\* htif_poweroff and shutdown's HTIFSYS_exit end the simulation.
MachineStops ==
  (pc = "po" \/ (pc = "set" /\ cur.dev = 0 /\ call = HTIFSYS_exit)) ~> exited

=============================================================================
