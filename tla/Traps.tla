------------------------------- MODULE Traps -------------------------------
(***************************************************************************)
(* The control path of the PKE kernel on its one hart: machine-mode boot   *)
(* (kernel/machine/minit.c), machine-mode traps (kernel/machine/mtrap.c),  *)
(* supervisor start-up (kernel/kernel.c), supervisor traps and syscalls    *)
(* (kernel/strap.c, kernel/syscall.c), the return to user mode             *)
(* (kernel/process.c) and the spinlock around every call of the host       *)
(* (spike_interface/spike_utils.c, spike_interface/atomic.h).              *)
(*                                                                         *)
(* One step is one statement of the code (or a straight line of them that  *)
(* no trap can separate).  Before each step the hart looks for an enabled  *)
(* interrupt, and mtime may advance by one with it.  Registers other than  *)
(* pc and a0 are the subject of module TrapContext.                        *)
(***************************************************************************)
EXTENDS Integers

CONSTANTS
  TIMER_INTERVAL,  \* mtime units between two timer interrupts (config.h)
  MaxTime,         \* bound: mtime stops there
  UserPCs,         \* bound: the addresses the application executes at
  MaxDepth,        \* bound: names one backtrace prints
  Faults           \* bound: the exceptions the application raises

\* The window between arming the timer and leaving m_start is two
\* instructions, hence two mtime units at most; config.h has 1000000.
ASSUME TrapsAssumption ==
  /\ TIMER_INTERVAL \in Nat /\ TIMER_INTERVAL > 2
  /\ MaxTime \in Nat
  /\ UserPCs \subseteq Nat
  /\ MaxDepth \in Nat

VARIABLES
  pc,        \* program counter: a label, and an address when it is "user"
  priv,      \* current privilege mode
  misa_S,    \* misa.S: does the hart implement supervisor mode?
  m,         \* machine-mode CSRs
  s,         \* supervisor-mode CSRs
  ssip,      \* sip.SSIP, the software interrupt that stands for a tick
  mtime, mtimecmp,      \* the CLINT timer
  a0,        \* the register that carries a syscall's number and its result
  tf,        \* the process's trapframe: epc, a0, and are kernel_sp/trap set?
  current,   \* is "current" set?
  g_ticks,   \* strap.c
  htif,      \* has init_dtb found the host interface?
  lock, res, \* frontend_syscall's spinlock, and what spinlock_trylock read
  cont,      \* where the running frontend_syscall returns to
  count,     \* sys_user_backtrace's count
  fires,     \* history: timer interrupts taken by handle_timer
  armed,     \* history: mtime when timerinit armed the timer
  counted,   \* history: fires when g_ticks was last incremented
  resume     \* history: where the application must continue

clint == <<mtimecmp, fires, armed, counted>>
locks == <<lock, res>>
proc  == <<tf, a0, current>>
hart  == <<priv, misa_S, m, s, ssip>>
data  == <<locks, g_ticks, count, htif>>
store == <<clint, data>>
kern  == <<store, proc, resume>>
vars  == <<pc, priv, misa_S, m, s, ssip, mtime, mtimecmp, a0, tf, current,
           g_ticks, htif, lock, res, cont, count, fires, armed, counted, resume>>

Bit == {0, 1}

SYS_user_print     == 64
SYS_user_exit      == 65
SYS_user_backtrace == 66
SYS_unknown        == 67

\* Exceptions that delegate_traps leaves in machine mode, and the ones it
\* delegates besides the ecall.
M_FAULTS == {"fetch_access", "load_access", "store_access", "illegal",
             "misaligned_load", "misaligned_store"}
S_FAULTS == {"misaligned_fetch", "breakpoint", "fetch_page", "load_page",
             "store_page"}

MBootLabels  == {"m_start", "m_htif", "m_mem", "m_csrs", "m_deleg", "m_sie",
                 "m_cmp", "m_mtie", "m_mret"}
MTrapLabels  == {"m_vec", "m_dispatch", "mt_cmp", "mt_sip", "m_ret"}
SBootLabels  == {"s_start", "s_load", "s_loaded", "s_switch"}
SwitchLabels == {"sw_current", "sw_frame", "sw_status", "sw_epc", "sw_scratch",
                 "sret"}
TimerLabels  == {"t_print", "t_inc", "t_sip"}
HandlerLabels == {"s_vec", "h_entry", "h_cause", "h_sys", "h_ret0", "bt"}
                   \cup TimerLabels
PanicLabels  == {"panic", "shutdown", "sys_exit", "die", "poweroff", "halt"}
FsLabels     == {"fs_spin", "fs_read", "fs_set", "fs_host", "fs_unlock"}
SLabels == SBootLabels \cup SwitchLabels \cup HandlerLabels
Labels  == MBootLabels \cup MTrapLabels \cup SLabels \cup PanicLabels
             \cup FsLabels \cup {"user", "lost"}

K(l) == [at |-> l, u |-> 0]
U(n) == [at |-> "user", u |-> n]
Go(l) == pc' = K(l)

\* The step of a caller of the host: enter frontend_syscall, to return to l.
CallHost(l) == Go("fs_spin") /\ cont' = l

---------------------------------------------------------------------------
(* The hart: traps, returns, and when an interrupt is taken.               *)

MTIP == mtime >= mtimecmp
MIntr == m.MTIE = 1 /\ MTIP /\ (priv # "M" \/ m.MIE = 1)
SIntr ==
  /\ ssip = 1 /\ s.SSIE = 1
  /\ priv = "U" \/ (priv = "S" /\ s.SIE = 1)

Advance == mtime' \in {t \in {mtime, mtime + 1} : t <= MaxTime}

\* The hart executes the statement at l: no interrupt is waiting.
At(l) == pc.at = l /\ ~MIntr /\ ~SIntr /\ Advance

MTrap(cause) ==
  /\ m' = [m EXCEPT !.MIE = 0, !.MPIE = m.MIE, !.MPP = priv,
                    !.epc = pc, !.cause = cause]
  /\ priv' = "M"
  /\ Go(IF m.vec = 1 THEN "m_vec" ELSE "lost")

STrap(cause) ==
  /\ s' = [s EXCEPT !.SIE = 0, !.SPIE = s.SIE, !.SPP = priv,
                    !.epc = pc, !.cause = cause]
  /\ priv' = "S"
  /\ Go(IF s.vec = 1 THEN "s_vec" ELSE "lost")

Mret ==
  /\ m' = [m EXCEPT !.MIE = m.MPIE, !.MPIE = 1, !.MPP = "U"]
  /\ priv' = m.MPP
  /\ pc' = m.epc

Sret ==
  /\ s' = [s EXCEPT !.SIE = s.SPIE, !.SPIE = 1, !.SPP = "U"]
  /\ priv' = s.SPP
  /\ pc' = s.epc

\* The CLINT's interrupt, taken between two instructions.
TakeTimer ==
  /\ MIntr /\ Advance /\ pc.at # "halt"
  /\ MTrap("timer")
  /\ resume' = IF pc.at = "user" THEN pc.u ELSE resume
  /\ UNCHANGED <<store, proc, misa_S, s, ssip, cont>>

\* The delegated software interrupt; a machine interrupt goes first.
TakeSoft ==
  /\ ~MIntr /\ SIntr /\ Advance /\ pc.at # "halt"
  /\ STrap("soft")
  /\ resume' = IF pc.at = "user" THEN pc.u ELSE resume
  /\ UNCHANGED <<store, proc, misa_S, m, ssip, cont>>

---------------------------------------------------------------------------
(* Machine-mode boot: m_start.                                             *)

\* spike_file_init and the first message.
MStart ==
  /\ At("m_start")
  /\ CallHost("m_htif")
  /\ UNCHANGED <<hart, kern>>

\* init_dtb: query_htif and query_mem, each with its message.  What they find, and
\* whether an assertion of theirs fails, is the device tree's affair (see module
\* Fdt, for the trees they never return from too).
InitDtb ==
  /\ \/ /\ At("m_htif")
        /\ \/ htif' = 1 /\ CallHost("m_mem")
           \/ htif' = 0 /\ Go("m_mem") /\ UNCHANGED cont
           \/ htif' \in Bit /\ Go("die") /\ UNCHANGED cont
     \/ /\ At("m_mem")
        /\ CallHost("m_csrs") \/ (Go("die") /\ UNCHANGED cont)
        /\ UNCHANGED htif
  /\ UNCHANGED <<hart, clint, locks, g_ticks, count, proc, resume>>

\* mscratch, MPP, mepc, mtvec and MIE.
MStartCsrs ==
  /\ At("m_csrs")
  /\ m' = [m EXCEPT !.scratch = 1, !.MPP = IF misa_S = 1 THEN "S" ELSE @,
                    !.epc = K("s_start"), !.vec = 1, !.MIE = 1]
  /\ Go("m_deleg")
  /\ UNCHANGED <<kern, priv, misa_S, s, ssip, cont>>

\* delegate_traps: without supervisor mode it only prints and returns; with it,
\* it reads back what it wrote, and a hart that delegates less fails an assertion.
DelegateTraps ==
  /\ At("m_deleg")
  /\ \/ misa_S = 0 /\ CallHost("m_sie") /\ UNCHANGED m
     \/ /\ misa_S = 1 /\ m' = [m EXCEPT !.deleg = 1]
        /\ Go("m_sie") /\ UNCHANGED cont
     \/ /\ misa_S = 1 /\ \E d \in Bit : m' = [m EXCEPT !.deleg = d]
        /\ Go("die") /\ UNCHANGED cont
  /\ UNCHANGED <<kern, priv, misa_S, s, ssip>>

\* A hart without supervisor mode has no sie: the write traps.  sie shows only
\* the delegated interrupts.  Mutants: the write is skipped on such a hart; it
\* leaves SSIE out.
SieSkipped  == FALSE
SieIllegal  == misa_S = 0
SieNoSoft   == 0
SieSoftware == m.deleg

EnableSie ==
  /\ At("m_sie")
  /\ \/ SieIllegal /\ MTrap("illegal") /\ UNCHANGED s
     \/ /\ ~SieIllegal
        /\ s' = [s EXCEPT !.SSIE = SieSoftware]
        /\ Go("m_cmp") /\ UNCHANGED <<m, priv>>
  /\ UNCHANGED <<kern, misa_S, ssip, cont>>

\* Mutant: mtimecmp keeps its reset value.
FirstDeadlineUnset == mtimecmp
FirstDeadline == mtime + TIMER_INTERVAL

\* timerinit, its two statements.
TimerinitCmp ==
  /\ At("m_cmp")
  /\ mtimecmp' = FirstDeadline /\ armed' = mtime
  /\ Go("m_mtie")
  /\ UNCHANGED <<hart, data, proc, fires, counted, resume, cont>>

TimerinitMie ==
  /\ At("m_mtie")
  /\ m' = [m EXCEPT !.MTIE = 1]
  /\ Go("m_mret")
  /\ UNCHANGED <<kern, priv, misa_S, s, ssip, cont>>

MStartMret ==
  /\ At("m_mret")
  /\ Mret
  /\ UNCHANGED <<kern, misa_S, s, ssip, cont>>

---------------------------------------------------------------------------
(* Machine-mode traps: mtrapvec, handle_mtrap, handle_timer.               *)

MVec ==
  /\ At("m_vec")
  /\ Go(IF m.scratch = 1 THEN "m_dispatch" ELSE "lost")
  /\ UNCHANGED <<hart, kern, cont>>

\* handle_mtrap: every cause but the timer ends in a panic.
HandleMtrap ==
  /\ At("m_dispatch")
  /\ Go(IF m.cause = "timer" THEN "mt_cmp" ELSE "panic")
  /\ UNCHANGED <<hart, kern, cont>>

\* Mutant: the deadline that has passed is left as it is.
NextDeadlineKept == mtimecmp
\* The comment says "TIMER_INTERVAL from now", the code counts from the deadline
\* that has passed: when the handler runs late, that is sooner.
NextDeadline == mtimecmp + TIMER_INTERVAL

HandleTimerCmp ==
  /\ At("mt_cmp")
  /\ mtimecmp' = NextDeadline /\ fires' = fires + 1
  /\ Go("mt_sip")
  /\ UNCHANGED <<hart, data, proc, armed, counted, resume, cont>>

\* Mutant: handle_timer prints before it returns.
AfterTimerPrints == CallHost("m_ret")
AfterTimer == Go("m_ret") /\ UNCHANGED cont

\* sip.SSIP can be written only once it is delegated.
HandleTimerSip ==
  /\ At("mt_sip")
  /\ ssip' = m.deleg
  /\ AfterTimer
  /\ UNCHANGED <<kern, priv, misa_S, m, s>>

MtrapvecMret ==
  /\ At("m_ret")
  /\ Mret
  /\ UNCHANGED <<kern, misa_S, s, ssip, cont>>

---------------------------------------------------------------------------
(* frontend_syscall: every sprint, file access and exit goes through it.   *)

\* spinlock_lock: read until free, then the two halves of atomic_swap, which
\* disable_irqsave() does not make atomic.
SpinlockLock ==
  /\ \/ /\ At("fs_spin")
        /\ Go(IF lock = 1 THEN "fs_spin" ELSE "fs_read")
        /\ UNCHANGED locks
     \/ /\ At("fs_read")
        /\ res' = lock /\ UNCHANGED lock
        /\ Go("fs_set")
     \/ /\ At("fs_set")
        /\ lock' = 1 /\ UNCHANGED res
        /\ Go(IF res = 1 THEN "fs_spin" ELSE "fs_host")
  /\ UNCHANGED <<hart, clint, proc, g_ticks, count, htif, resume, cont>>

\* magic_mem and htif_syscall: the wait for the host (see module Htif).
HtifSyscall ==
  /\ At("fs_host")
  /\ Go("fs_unlock")
  /\ UNCHANGED <<hart, kern, cont>>

SpinlockUnlock ==
  /\ At("fs_unlock")
  /\ lock' = 0 /\ UNCHANGED res
  /\ Go(cont)
  /\ UNCHANGED <<hart, clint, proc, g_ticks, count, htif, resume, cont>>

\* do_panic: sprint, then shutdown: sprint, the host's exit, and a loop.
Panic ==
  /\ \/ At("panic") /\ CallHost("shutdown")
     \/ At("shutdown") /\ CallHost("sys_exit")
     \/ At("sys_exit") /\ CallHost("halt")
  /\ UNCHANGED <<hart, kern>>

\* A failed assertion: die prints and calls poweroff, which asserts htif: without
\* it, it dies again, for ever; with it, it prints and ends the simulation.
Die ==
  /\ \/ At("die") /\ CallHost("poweroff")
     \/ At("poweroff") /\ htif = 1 /\ CallHost("halt")
     \/ At("poweroff") /\ htif = 0 /\ Go("die") /\ UNCHANGED cont
  /\ UNCHANGED <<hart, kern>>

\* while (1); at the end of shutdown and of htif_poweroff.  The simulation is
\* over: time stops.
ShutdownLoop == pc.at = "halt" /\ UNCHANGED vars

---------------------------------------------------------------------------
(* Supervisor start-up: s_start, load_user_program, switch_to.             *)

SStart ==
  /\ At("s_start")
  /\ CallHost("s_load")
  /\ UNCHANGED <<hart, kern>>

\* load_user_program clears the trapframe and reads the ELF from the host...
LoadUserProgram ==
  /\ At("s_load")
  /\ tf' = [epc |-> U(0), a0 |-> 0, ready |-> 0]
  /\ CallHost("s_loaded")
  /\ UNCHANGED <<hart, store, a0, current, resume>>

\* ...which yields an entry point or one of load_bincode_from_host_elf's panics.
LoadDone ==
  /\ At("s_loaded")
  /\ \/ \E e \in UserPCs :
          /\ tf' = [tf EXCEPT !.epc = U(e)] /\ resume' = e
          /\ CallHost("s_switch")
     \/ Go("panic") /\ UNCHANGED <<tf, resume, cont>>
  /\ UNCHANGED <<hart, store, a0, current>>

SStartSwitch ==
  /\ At("s_switch")
  /\ Go("sw_current")
  /\ UNCHANGED <<hart, kern, cont>>

\* switch_to, statement by statement.
SwitchCurrent ==
  /\ At("sw_current")
  /\ current' = 1
  /\ s' = [s EXCEPT !.vec = 1]
  /\ Go("sw_frame")
  /\ UNCHANGED <<store, priv, misa_S, m, ssip, tf, a0, resume, cont>>

SwitchFrame ==
  /\ At("sw_frame")
  /\ tf' = [tf EXCEPT !.ready = 1]
  /\ Go("sw_status")
  /\ UNCHANGED <<hart, store, a0, current, resume, cont>>

\* sstatus for the return.  Mutant: SSTATUS_SIE instead of SSTATUS_SPIE.
UserStatusSIE == [s EXCEPT !.SPP = "U", !.SIE = 1]
UserStatus == [s EXCEPT !.SPP = "U", !.SPIE = 1]

SwitchStatus ==
  /\ At("sw_status")
  /\ s' = UserStatus
  /\ Go("sw_epc")
  /\ UNCHANGED <<kern, priv, misa_S, m, ssip, cont>>

SwitchEpc ==
  /\ At("sw_epc")
  /\ s' = [s EXCEPT !.epc = tf.epc]
  /\ Go("sw_scratch")
  /\ UNCHANGED <<kern, priv, misa_S, m, ssip, cont>>

\* return_to_user: sscratch, the registers, sret.
ReturnToUser ==
  /\ At("sw_scratch")
  /\ s' = [s EXCEPT !.scratch = "tf"]
  /\ a0' = tf.a0
  /\ Go("sret")
  /\ UNCHANGED <<store, priv, misa_S, m, ssip, tf, current, resume, cont>>

ReturnSret ==
  /\ At("sret")
  /\ Sret
  /\ UNCHANGED <<kern, misa_S, m, ssip, cont>>

---------------------------------------------------------------------------
(* The application: it computes, calls the kernel, or faults.              *)

UserStep ==
  /\ At("user")
  /\ \E n \in UserPCs : pc' = U(n)
  /\ UNCHANGED <<hart, kern, cont>>

\* do_user_call: a0 holds the syscall number.  An ecall is never the last
\* instruction of the text.
Ecall ==
  /\ At("user") /\ pc.u + 4 \in UserPCs
  /\ a0' \in {SYS_user_print, SYS_user_exit, SYS_user_backtrace, SYS_unknown}
  /\ STrap("ecall")
  /\ resume' = pc.u + 4
  /\ UNCHANGED <<store, misa_S, m, ssip, tf, current, cont>>

UserFault ==
  /\ At("user")
  /\ \/ \E c \in Faults \cap M_FAULTS : MTrap(c) /\ UNCHANGED s
     \/ \E c \in Faults \cap S_FAULTS : STrap(c) /\ UNCHANGED m
  /\ UNCHANGED <<kern, misa_S, ssip, cont>>

---------------------------------------------------------------------------
(* Supervisor traps: smode_trap_vector, smode_trap_handler and below.      *)

\* The vector finds the trapframe in sscratch and the handler in the trapframe.
SVec ==
  /\ At("s_vec")
  /\ IF s.scratch = "tf" /\ tf.ready = 1
     THEN /\ s' = [s EXCEPT !.scratch = "user"]
          /\ tf' = [tf EXCEPT !.a0 = a0]
          /\ Go("h_entry")
     ELSE Go("lost") /\ UNCHANGED <<s, tf>>
  /\ UNCHANGED <<store, priv, misa_S, m, ssip, a0, current, resume, cont>>

SmodeTrapHandler ==
  /\ At("h_entry")
  /\ \/ s.SPP # "U" /\ Go("panic") /\ UNCHANGED tf
     \/ s.SPP = "U" /\ current = 0 /\ Go("die") /\ UNCHANGED tf
     \/ /\ s.SPP = "U" /\ current = 1
        /\ tf' = [tf EXCEPT !.epc = s.epc] /\ Go("h_cause")
  /\ UNCHANGED <<hart, store, a0, current, resume, cont>>

TrapCause ==
  /\ At("h_cause")
  /\ Go(CASE s.cause = "ecall" -> "h_sys"
          [] s.cause = "soft"  -> "t_print"
          [] OTHER             -> "panic")
  /\ UNCHANGED <<hart, kern, cont>>

\* do_syscall: to sys_user_print's sprint, sys_user_exit's, the walk of
\* sys_user_backtrace, or the panic.
DoSyscall ==
  \/ tf.a0 = SYS_user_print /\ CallHost("h_ret0")
  \/ tf.a0 = SYS_user_exit /\ CallHost("shutdown")
  \/ tf.a0 = SYS_user_backtrace /\ Go("bt") /\ UNCHANGED cont
  \/ /\ tf.a0 \notin {SYS_user_print, SYS_user_exit, SYS_user_backtrace}
     /\ Go("panic") /\ UNCHANGED cont

\* Mutant: epc stays on the ecall.
SyscallEpcSame == tf.epc.u
SyscallEpc == tf.epc.u + 4

\* handle_syscall, up to the return of do_syscall.
HandleSyscall ==
  /\ At("h_sys")
  /\ tf' = [tf EXCEPT !.epc.u = SyscallEpc]
  /\ count' = 0
  /\ DoSyscall
  /\ UNCHANGED <<hart, clint, locks, a0, current, g_ticks, htif, resume>>

\* After handle_syscall smode_trap_handler goes to switch_to.  Mutant: an else
\* is missing, and the timer's branch runs for a syscall too.
AfterSyscallTicks == Go("t_print")
AfterSyscall == Go("sw_current")

\* sys_user_print's result, 0.
SyscallReturn0 ==
  /\ At("h_ret0")
  /\ tf' = [tf EXCEPT !.a0 = 0]
  /\ AfterSyscall
  /\ UNCHANGED <<hart, store, a0, current, resume, cont>>

\* Mutants: a printed line is not counted; the result leaves out the last one.
PrintedUncounted == count
Printed == count + 1
BacktraceResultLess == count - 1
BacktraceResult == count

\* sys_user_backtrace: one sprint per frame (see module Backtrace).
SysUserBacktrace ==
  /\ At("bt")
  /\ \/ /\ count < MaxDepth
        /\ count' = Printed /\ CallHost("bt")
        /\ UNCHANGED tf
     \/ /\ tf' = [tf EXCEPT !.a0 = BacktraceResult]
        /\ AfterSyscall
        /\ UNCHANGED <<count, cont>>
  /\ UNCHANGED <<hart, clint, locks, a0, current, g_ticks, htif, resume>>

\* handle_mtimer_trap: sprint, g_ticks++, clear sip.SSIP.
MtimerPrint ==
  /\ At("t_print")
  /\ CallHost("t_inc")
  /\ UNCHANGED <<hart, kern>>

MtimerInc ==
  /\ At("t_inc")
  /\ g_ticks' = g_ticks + 1 /\ counted' = fires
  /\ Go("t_sip")
  /\ UNCHANGED <<hart, proc, locks, mtimecmp, fires, armed, count, htif,
                 resume, cont>>

\* Mutant: the write leaves SIP_SSIP as it is.
SipKept == ssip
SipCleared == 0

MtimerClear ==
  /\ At("t_sip")
  /\ ssip' = SipCleared
  /\ Go("sw_current")
  /\ UNCHANGED <<kern, priv, misa_S, m, s, cont>>

---------------------------------------------------------------------------

\* The hart at reset.  The CLINT's compare register is zero, so its interrupt
\* is already pending, only not enabled.
Init ==
  /\ pc = K("m_start") /\ priv = "M" /\ misa_S \in Bit
  /\ m = [MIE |-> 0, MPIE |-> 0, MPP |-> "U", MTIE |-> 0,
          vec |-> 0, scratch |-> 0, deleg |-> 0,
          epc |-> K("m_start"), cause |-> "none"]
  /\ s = [SIE |-> 0, SPIE |-> 0, SPP |-> "U", SSIE |-> 0,
          vec |-> 0, scratch |-> "zero", epc |-> K("m_start"),
          cause |-> "none"]
  /\ ssip = 0 /\ mtime = 0 /\ mtimecmp = 0
  /\ a0 = 0 /\ tf = [epc |-> U(0), a0 |-> 0, ready |-> 0]
  /\ current = 0 /\ g_ticks = 0 /\ htif = 0
  /\ lock = 0 /\ res = 0 /\ cont = "halt" /\ count = 0
  /\ fires = 0 /\ armed = 0 /\ counted = 0 /\ resume = 0

Next ==
  \/ TakeTimer \/ TakeSoft
  \/ MStart \/ InitDtb \/ MStartCsrs \/ DelegateTraps \/ EnableSie
  \/ TimerinitCmp \/ TimerinitMie \/ MStartMret
  \/ MVec \/ HandleMtrap \/ HandleTimerCmp \/ HandleTimerSip \/ MtrapvecMret
  \/ SpinlockLock \/ HtifSyscall \/ SpinlockUnlock \/ Panic \/ Die
  \/ ShutdownLoop
  \/ SStart \/ LoadUserProgram \/ LoadDone \/ SStartSwitch
  \/ SwitchCurrent \/ SwitchFrame \/ SwitchStatus \/ SwitchEpc
  \/ ReturnToUser \/ ReturnSret
  \/ UserStep \/ Ecall \/ UserFault
  \/ SVec \/ SmodeTrapHandler \/ TrapCause \/ HandleSyscall
  \/ SyscallReturn0 \/ SysUserBacktrace
  \/ MtimerPrint \/ MtimerInc \/ MtimerClear

Spec == Init /\ [][Next]_vars

\* The hart never stops executing.
FairSpec == Spec /\ WF_vars(Next)

---------------------------------------------------------------------------

Modes == {"U", "S", "M"}
Addr  == [at : Labels, u : Nat]
MCsrs == [MIE : Bit, MPIE : Bit, MPP : Modes, MTIE : Bit, vec : Bit,
          scratch : Bit, deleg : Bit, epc : Addr,
          cause : M_FAULTS \cup {"none", "timer"}]
SCsrs == [SIE : Bit, SPIE : Bit, SPP : Modes, SSIE : Bit, vec : Bit,
          scratch : {"zero", "tf", "user"}, epc : Addr,
          cause : S_FAULTS \cup {"none", "ecall", "soft"}]

\* The control registers, the saved program counters and the counters stay in
\* their ranges; a backtrace's result is a count.
TypeOK ==
  /\ pc \in Addr /\ priv \in Modes /\ misa_S \in Bit
  /\ m \in MCsrs /\ s \in SCsrs
  /\ ssip \in Bit /\ mtime \in Nat /\ mtimecmp \in Nat
  /\ a0 \in Nat /\ tf \in [epc : Addr, a0 : Nat, ready : Bit]
  /\ current \in Bit /\ g_ticks \in Nat /\ htif \in Bit
  /\ lock \in Bit /\ res \in Bit /\ cont \in Labels /\ count \in Nat
  /\ fires \in Nat /\ armed \in Nat /\ counted \in Nat
  /\ resume \in Nat

\* Where the supervisor (or the application) stands: a machine-mode trap
\* suspends it at mepc.
SAt == IF pc.at \in MTrapLabels THEN m.epc.at ELSE pc.at

\* Every trap lands in a handler that is set up for it: the vectors, mscratch,
\* sscratch and the trapframe's kernel_sp/kernel_trap are in place, and
\* smode_trap_handler's "usertrap: not from user mode" panic and its
\* assert(current) are never met, although the timer may fire anywhere.
TrapEntrySafe ==
  /\ pc.at # "lost"
  /\ pc.at = "h_entry" => s.SPP = "U" /\ current = 1

\* Nobody spins on frontend_syscall's lock: whatever was interrupted, the code
\* that wants the lock finds it free, so the hart cannot wait for itself.
NoSelfDeadlock ==
  /\ pc.at \in {"fs_spin", "fs_read"} => lock = 0
  /\ pc.at = "fs_set" => res = 0

\* g_ticks never runs ahead of the timer: each increment, and the one that a
\* pending sip.SSIP still owes, stands for its own timer interrupt.
TicksNotInvented ==
  g_ticks + (IF ssip = 1 /\ SAt # "t_sip" THEN 1 ELSE 0) <= fires

Intervals(n) == n * TIMER_INTERVAL

\* However late handle_timer runs, and whether the next deadline is counted from
\* the last one or from now, the timer keeps its pace: it has interrupted the hart
\* no more often than intervals have passed since timerinit, and the next
\* interrupt is due within an interval.
TimerPaced ==
  m.MTIE = 1 =>
    /\ armed + Intervals(fires) <= mtime
    /\ mtimecmp <= mtime + TIMER_INTERVAL

\* Boot hands over to s_start in supervisor mode: no interrupt reaches m_start
\* after it enabled MIE, so mepc and MPP are still the ones it wrote.
BootHandsOver ==
  misa_S = 1 =>
    /\ pc.at \in MTrapLabels => m.MPP # "M"
    /\ pc.at = "m_mret" => m.epc = K("s_start") /\ m.MPP = "S"

\* A hart without supervisor mode never leaves machine mode, although
\* delegate_traps only prints a message and returns.
NoSupervisorNoKernel == misa_S = 0 => priv = "M"

\* The application continues exactly where it was interrupted, and after an
\* ecall at the next instruction, whatever the timer did in between.
ResumesAtTrapPoint ==
  [][pc.at # "user" /\ pc'.at = "user" => pc'.u = resume]_vars

\* Loc looks through a running frontend_syscall to the label it returns to.
Loc == IF SAt \in FsLabels THEN cont ELSE SAt

\* What the application can tell of the kernel's state.  A delegated fault is
\* the end as soon as it is raised.
Phase ==
  IF Loc \in PanicLabels \cup {"lost"} THEN "off"
  ELSE IF SAt = "user" THEN "run"
  ELSE CASE s.cause \in S_FAULTS -> "off"
         [] s.cause = "soft" ->
              IF Loc \in {"t_sip"} \cup SwitchLabels THEN "ticked" ELSE "tick"
         [] s.cause = "ecall" -> "call"
         [] OTHER -> "boot"

AppPC == CASE Phase = "off" -> 0
           [] Phase = "run" -> IF pc.at = "user" THEN pc.u ELSE m.epc.u
           [] OTHER -> resume

AV == INSTANCE AppView WITH
        Addresses <- UserPCs, phase <- Phase, upc <- AppPC, ticks <- g_ticks

\* For the application the kernel is AppView: each visit for a tick counts
\* exactly one and changes nothing else, a tick never ends the run, a syscall
\* counts none and continues one instruction further, and an interrupt inside
\* frontend_syscall, switch_to or another trap shows nowhere.
ImplementsAppView == AV!ASpec

\* A tick that handle_timer raises is recorded in g_ticks, unless the kernel
\* shuts down first...
Recorded(n) == g_ticks > n \/ pc.at = "halt"

\* ...provided it was not raised between g_ticks++ and the clearing of SSIP:
\* a pending software interrupt survives syscalls, panics of its own trap and
\* further timer interrupts until the supervisor counts it.
TickRecorded ==
  \A n \in 0..(MaxTime \div TIMER_INTERVAL) :
    (ssip = 1 /\ SAt # "t_sip" /\ g_ticks = n) ~> Recorded(n)

\* What the comments of handle_timer ("setup a soft interrupt in sip ... to be
\* handled in S-mode") and handle_mtimer_trap ("increase g_ticks to record this
\* tick, and then clear the SIP field") promise of every tick: clearing SSIP
\* discards none that was raised after g_ticks was incremented.
EveryTickRecorded == [][ssip = 1 /\ ssip' = 0 => counted = fires]_vars

\* Every trap into the supervisor ends: back in the application or in shutdown.
TrapCompletes == (pc.at = "s_vec") ~> (pc.at \in {"user", "halt"})

=============================================================================
