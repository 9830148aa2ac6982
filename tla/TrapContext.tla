---------------------------- MODULE TrapContext ----------------------------
(***************************************************************************)
(* The application's registers on their way through the kernel, one        *)
(* instruction at a time: smode_trap_vector and return_to_user             *)
(* (kernel/strap_vector.S), mtrapvec (kernel/machine/mtrap_vector.S) and   *)
(* the two macros of util/load_store.S, each given as its sequence of      *)
(* instructions.  The machine timer may interrupt the application and the  *)
(* supervisor before any instruction; machine mode itself runs with        *)
(* interrupts off.  Module Traps is about when traps are taken; this one   *)
(* is about what they do to the register file.                             *)
(***************************************************************************)
EXTENDS Integers, Sequences

CONSTANTS
  Versions,    \* the application's registers hold one of these generations
  MaxTraps,    \* bound: supervisor traps
  MaxTimers    \* bound: machine timer interrupts

ASSUME TrapContextAssumption ==
  Versions # {} /\ MaxTraps \in Nat /\ MaxTimers \in Nat

\* The general purpose registers in the order of struct riscv_regs: register
\* RegFile[i] is at offset 8 * (i - 1) of a frame.
RegFile == <<"ra", "sp", "gp", "tp", "t0", "t1", "t2", "s0", "s1", "a0", "a1",
             "a2", "a3", "a4", "a5", "a6", "a7", "s2", "s3", "s4", "s5", "s6",
             "s7", "s8", "s9", "s10", "s11", "t3", "t4", "t5", "t6">>
NRegs == Len(RegFile)
Regs  == {RegFile[i] : i \in 1..NRegs}
A0    == 10       \* slot of a0: offset 72
KSp   == 32       \* trapframe.kernel_sp: offset 248
KTrap == 33       \* trapframe.kernel_trap: offset 256

\* What a register or a slot can hold: a value of the application, the result
\* of a syscall, an address the kernel knows, or anything else of its code.
App(r, v) == <<r, v>>
Kernel(x) == <<"kernel", x>>
Frames == {"tf", "itr"}

---------------------------------------------------------------------------
(* The code.  An instruction has an operation, a register, and a csr or a  *)
(* slot of the frame that a base register points to.                       *)

Csrrw(r, c) == [op |-> "csrrw", r |-> r, csr |-> c]
Csrr(r, c)  == [op |-> "csrr",  r |-> r, csr |-> c]
Csrw(c, r)  == [op |-> "csrw",  r |-> r, csr |-> c]
Mv(r, b)    == [op |-> "addi",  r |-> r, base |-> b]
Sd(r, n, b) == [op |-> "sd", r |-> r, slot |-> n, base |-> b]
Ld(r, n, b) == [op |-> "ld", r |-> r, slot |-> n, base |-> b]
Other(x)    == [op |-> x]    \* jr t0, la sp .. add sp, call, sret, mret

store_all_registers   == [n \in 1..NRegs |-> Sd(RegFile[n], n, "t6")]
restore_all_registers == [n \in 1..NRegs |-> Ld(RegFile[n], n, "t6")]

\* Mutant: the application's a0 is not fetched back from sscratch.
SaveA0Not == <<>>
SaveA0 == <<Csrr("t0", "sscratch"), Sd("t0", A0, "a0")>>

smode_trap_vector ==
  <<Csrrw("a0", "sscratch"), Mv("t6", "a0")>> \o store_all_registers \o SaveA0
    \o <<Ld("sp", KSp, "a0"), Ld("t0", KTrap, "a0"), Other("jr")>>

\* Mutant: sscratch is left as it is.
SetScratchNot == <<>>
SetScratch == <<Csrw("sscratch", "a0")>>
ToUser == <<Other("sret")>>

return_to_user ==
  SetScratch \o <<Mv("t6", "a0")>> \o restore_all_registers \o ToUser

\* Mutant: a0 is loaded from mscratch, not swapped with it.
EnterMRead == <<Csrr("a0", "mscratch")>>
EnterM == <<Csrrw("a0", "mscratch")>>

mtrapvec ==
  EnterM \o <<Mv("t6", "a0")>> \o store_all_registers
    \o <<Csrr("t0", "mscratch"), Sd("t0", A0, "a0"), Other("stack0"),
         Csrw("mscratch", "a0"), Other("handle_mtrap"), Csrr("t6", "mscratch")>>
    \o restore_all_registers \o <<Other("mret")>>

\* C code and the application are one "instruction".
Code == [svec |-> smode_trap_vector, ret |-> return_to_user, mvec |-> mtrapvec,
         handler |-> <<Other("handler")>>, user |-> <<Other("user")>>,
         lost |-> <<Other("lost")>>]

---------------------------------------------------------------------------

VARIABLES
  pc,        \* [at: code, i: instruction of it]
  mepc,      \* where a machine-mode trap came from
  regs,      \* the register file
  mem,       \* the two frames: the process's trapframe and g_itrframe
  csr,       \* sscratch and mscratch
  cause,     \* of the supervisor trap: "ecall" or "soft"
  traps, timers,  \* traps taken so far
  ctx,       \* history: the registers when the application was last left
  mctx,      \* history: the registers when machine mode was entered
  hit        \* history: a timer interrupt met t6 while it held a frame

past == <<cause, traps, timers, ctx, mctx, hit>>
vars == <<pc, mepc, regs, mem, csr, past>>

L(code) == [at |-> code, i |-> 1]
Here == Code[pc.at][pc.i]
At(op) == Here.op = op
Step == pc' = [pc EXCEPT !.i = @ + 1]
Set(r, x) == regs' = [regs EXCEPT ![r] = x]

\* The frame that a base register holds the address of.
Points(r, f) == regs[r] = Kernel(f)

---------------------------------------------------------------------------
(* The instructions.                                                       *)

SwapCsr ==
  /\ At("csrrw")
  /\ Set(Here.r, csr[Here.csr]) /\ csr' = [csr EXCEPT ![Here.csr] = regs[Here.r]]
  /\ Step /\ UNCHANGED <<mepc, mem, past>>

ReadCsr ==
  /\ At("csrr")
  /\ Set(Here.r, csr[Here.csr])
  /\ Step /\ UNCHANGED <<mepc, mem, csr, past>>

WriteCsr ==
  /\ At("csrw")
  /\ csr' = [csr EXCEPT ![Here.csr] = regs[Here.r]]
  /\ Step /\ UNCHANGED <<mepc, regs, mem, past>>

Move ==
  /\ At("addi")
  /\ Set(Here.r, regs[Here.base])
  /\ Step /\ UNCHANGED <<mepc, mem, csr, past>>

Store ==
  /\ At("sd")
  /\ \E f \in Frames :
       /\ Points(Here.base, f)
       /\ mem' = [mem EXCEPT ![f][Here.slot] = regs[Here.r]]
  /\ Step /\ UNCHANGED <<mepc, regs, csr, past>>

Load ==
  /\ At("ld")
  /\ \E f \in Frames : Points(Here.base, f) /\ Set(Here.r, mem[f][Here.slot])
  /\ Step /\ UNCHANGED <<mepc, mem, csr, past>>

JumpT0 ==
  /\ At("jr")
  /\ pc' = L(IF regs["t0"] = Kernel("smode_trap_handler")
             THEN "handler" ELSE "lost")
  /\ UNCHANGED <<mepc, regs, mem, csr, past>>

\* la sp, stack0 to add sp, sp, a3: no interrupt comes between them.
Stack0 ==
  /\ At("stack0")
  /\ regs' = [regs EXCEPT !["sp"] = Kernel("stack0"), !["a3"] = Kernel("temp"),
                          !["a4"] = Kernel("temp")]
  /\ Step /\ UNCHANGED <<mepc, mem, csr, past>>

\* handle_mtrap's C code uses every register.
HandleMtrap ==
  /\ At("handle_mtrap")
  /\ regs' = [r \in Regs |-> Kernel("temp")]
  /\ Step /\ UNCHANGED <<mepc, mem, csr, past>>

Sret ==
  /\ At("sret") /\ pc' = L("user")
  /\ UNCHANGED <<mepc, regs, mem, csr, past>>

Mret ==
  /\ At("mret") /\ pc' = mepc
  /\ UNCHANGED <<mepc, regs, mem, csr, past>>

---------------------------------------------------------------------------
(* C code, the application and the interrupt.                              *)

\* switch_to calls return_to_user with the trapframe in a0.
InSwitch == [r \in Regs |-> IF r = "a0" THEN Kernel("tf") ELSE Kernel("temp")]

\* smode_trap_handler's C code uses every register; handle_syscall leaves its
\* result in the trapframe's a0; switch_to sets kernel_sp and kernel_trap.
Handler ==
  /\ At("handler")
  /\ mem' = [mem EXCEPT !["tf"][A0] = IF cause = "ecall" THEN Kernel("result")
                                                         ELSE @,
                        !["tf"][KSp] = Kernel("kstack"),
                        !["tf"][KTrap] = Kernel("smode_trap_handler")]
  /\ regs' = InSwitch
  /\ pc' = L("ret")
  /\ UNCHANGED <<mepc, csr, past>>

\* The application computes: its registers hold another generation of values.
UserRun ==
  /\ At("user")
  /\ \E v \in Versions : regs' = [r \in Regs |-> App(r, v)]
  /\ UNCHANGED <<pc, mepc, mem, csr, past>>

\* It makes a syscall, or the software interrupt takes it away.
UserTrap ==
  /\ At("user") /\ traps < MaxTraps
  /\ traps' = traps + 1 /\ cause' \in {"ecall", "soft"}
  /\ pc' = L("svec")
  /\ ctx' = regs /\ hit' = FALSE
  /\ UNCHANGED <<mepc, regs, mem, csr, timers, mctx>>

\* t6 holds a frame's address while a supervisor macro runs.
T6Live == Here.op \in {"sd", "ld"} /\ Here.base = "t6"

TimerInterrupt ==
  /\ pc.at \notin {"mvec", "lost"} /\ timers < MaxTimers
  /\ timers' = timers + 1
  /\ mepc' = pc /\ pc' = L("mvec")
  /\ mctx' = regs
  /\ ctx' = IF At("user") THEN regs ELSE ctx
  /\ hit' = (hit \/ T6Live)
  /\ UNCHANGED <<regs, mem, csr, cause, traps>>

---------------------------------------------------------------------------

\* m_start has set mscratch, load_user_program has cleared the trapframe and
\* switch_to is about to call return_to_user for the first time.
Init ==
  /\ pc = L("ret") /\ mepc = L("ret")
  /\ regs = InSwitch
  /\ \E v \in Versions :
       mem = [f \in Frames |->
                [n \in 1..KTrap |->
                   IF f = "itr" THEN Kernel("temp")
                   ELSE IF n <= NRegs THEN App(RegFile[n], v)
                   ELSE IF n = KSp THEN Kernel("kstack")
                   ELSE Kernel("smode_trap_handler")]]
  /\ csr = [sscratch |-> Kernel("temp"), mscratch |-> Kernel("itr")]
  /\ cause = "soft" /\ traps = 0 /\ timers = 0
  /\ ctx = [r \in Regs |-> mem["tf"][CHOOSE n \in 1..NRegs : RegFile[n] = r]]
  /\ mctx = regs /\ hit = FALSE

Next ==
  \/ SwapCsr \/ ReadCsr \/ WriteCsr \/ Move \/ Store \/ Load
  \/ JumpT0 \/ Stack0 \/ HandleMtrap \/ Sret \/ Mret
  \/ Handler \/ UserRun \/ UserTrap \/ TimerInterrupt

Spec == Init /\ [][Next]_vars

---------------------------------------------------------------------------

\* Whatever the timer interrupts, the vector still ends in smode_trap_handler
\* on the process's kernel stack, and the two scratch registers hold their
\* frames again whenever the code that relies on them can be entered.
KernelEntered ==
  /\ pc.at # "lost"
  /\ pc.at = "handler" => regs["sp"] = Kernel("kstack")
  /\ pc.at # "mvec" => csr["mscratch"] = Kernel("itr")
  /\ pc.at = "user" => csr["sscratch"] = Kernel("tf")

\* A timer interrupt is invisible to the code it interrupts, except in t6:
\* mtrapvec brings back the other thirty registers of whatever was running.
MTrapTransparent ==
  At("mret") => \A r \in Regs \ {"t6"} : regs[r] = mctx[r]

\* What a register must hold when the application continues.
Expected(r) == IF r = "a0" /\ cause = "ecall" /\ traps > 0
               THEN Kernel("result") ELSE ctx[r]

\* The application gets its registers back (a syscall's result in a0), except
\* t6, provided no timer interrupt fell into a supervisor macro.
ContextPreserved ==
  At("sret") /\ ~hit => \A r \in Regs \ {"t6"} : regs[r] = Expected(r)

\* What smode_trap_vector's comment says ("save the context (user registers)
\* of current process in its trapframe"), timer or not.  t6 is left out: the
\* vector overwrites it before store_all_registers, at every trap.
ContextAlwaysPreserved ==
  At("sret") => \A r \in Regs \ {"t6"} : regs[r] = Expected(r)

=============================================================================
