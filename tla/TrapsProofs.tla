---------------------------- MODULE TrapsProofs ----------------------------
(***************************************************************************)
(* The inductive invariant behind the safety properties of module Traps,   *)
(* for every timer interval above two, every application and every bound,  *)
(* and the proof that the kernel implements module AppView.                *)
(*                                                                         *)
(* A machine-mode trap suspends the supervisor anywhere, so what is true   *)
(* of the supervisor is stated of SAt, the label at which it stands or is  *)
(* suspended, and of Loc, which looks through a running frontend_syscall   *)
(* to the label it returns to.                                             *)
(***************************************************************************)
EXTENDS Traps, TLAPS

\* The groups of UNCHANGED variables and the values the actions write.
USE DEF hart, data, store, kern, SieIllegal, SieSoftware, FirstDeadline,
        NextDeadline, AfterTimer, UserStatus, SyscallEpc, Printed,
        AfterSyscall, BacktraceResult, SipCleared

\* A supervisor trap that has not yet been dispatched on its cause.
Arriving == {"s_vec", "h_entry", "h_cause"}

\* Labels on the way back to the application, the trapframe's epc final.
Leaving == {"h_ret0", "bt", "t_print", "t_inc", "t_sip", "s_switch"}
             \cup SwitchLabels

\* The labels at which a call of the host returns to m_start and below, and to
\* the supervisor.
BootCalls       == {"m_htif", "m_mem", "m_csrs", "m_sie"}
SupervisorCalls == {"s_load", "s_loaded", "s_switch", "h_ret0", "bt", "t_inc"}

\* Where m_start stands, a call of the host looked through.
MAt == IF pc.at \in FsLabels THEN cont ELSE pc.at

\* The privilege mode belongs to the label.
ModeInv ==
  /\ pc.at # "lost"
  /\ pc.at \in MBootLabels \cup MTrapLabels => priv = "M"
  /\ pc.at \in SLabels => priv = "S"
  /\ pc.at = "user" => priv = "U"
  /\ pc.at \in PanicLabels \cup FsLabels => priv \in {"S", "M"}
  /\ pc.at \in FsLabels =>
       /\ cont \in BootCalls \cup SupervisorCalls \cup PanicLabels
       /\ priv = "M" => cont \in BootCalls \cup PanicLabels
       /\ priv = "S" => cont \notin BootCalls

\* What m_start has set up, and that machine mode runs without interrupts.
Booted ==
  /\ misa_S = 1 /\ m.vec = 1 /\ m.scratch = 1 /\ m.deleg = 1 /\ m.MTIE = 1
  /\ s.SSIE = 1

\* m_start up to its writes of the machine-mode CSRs.
Before == {"m_start", "m_htif", "m_mem", "m_csrs"}

BootInv ==
  /\ priv # "M" => Booted
  /\ pc.at \in MTrapLabels /\ m.MPP # "M" => Booted
  /\ pc.at \in MTrapLabels => m.vec = 1 /\ m.scratch = 1
  /\ MAt \in MBootLabels =>
       /\ fires = 0 /\ g_ticks = 0 /\ ssip = 0 /\ s.SIE = 0
       /\ m.MTIE = IF MAt = "m_mret" THEN 1 ELSE 0
       /\ MAt \in Before => m.MIE = 0
       /\ MAt \notin Before =>
            /\ m.vec = 1 /\ m.scratch = 1 /\ m.epc = K("s_start")
            /\ misa_S = 1 => m.MPP = "S"
       /\ m.deleg = IF MAt \in Before \cup {"m_deleg"} THEN 0 ELSE misa_S
       /\ MAt \in {"m_cmp", "m_mtie", "m_mret"} => misa_S = 1 /\ s.SSIE = 1
  /\ priv = "M" /\ pc.at \notin MBootLabels => m.MIE = 0 \/ m.MTIE = 0
  /\ misa_S = 0 => priv = "M"
  /\ misa_S = 0 => m.MTIE = 0

\* What a machine-mode trap has suspended.
SuspendInv ==
  pc.at \in MTrapLabels =>
    /\ \/ m.MPP = "U" /\ m.epc.at = "user"
       \/ m.MPP = "S" /\ m.epc.at \in SLabels \cup FsLabels \cup PanicLabels
       \/ m.MPP = "M" /\ misa_S = 0 /\ m.epc.at = "m_sie"
    /\ m.epc.at # "halt"
    /\ m.cause = "timer" => misa_S = 1
    /\ m.cause # "timer" => m.epc.at \in {"user", "m_sie"}
    /\ pc.at \notin {"m_vec", "m_dispatch"} => m.cause = "timer"
    /\ m.epc.at \in FsLabels =>
         cont \in SupervisorCalls \cup PanicLabels
    /\ m.epc.at = "user" /\ m.cause = "timer" => m.epc.u = resume
    /\ pc.at \in {"m_vec", "m_dispatch", "mt_cmp"} /\ m.cause = "timer"
         => mtimecmp <= mtime
    /\ pc.at = "mt_sip" => g_ticks + 1 <= fires

\* Supervisor code runs with interrupts off, and what switch_to prepares is in
\* place whenever the application runs.
SupervisorInv ==
  /\ priv = "S" \/ (pc.at \in MTrapLabels /\ m.MPP = "S") => s.SIE = 0
  /\ SAt \in {"user", "s_vec"} =>
       s.vec = 1 /\ tf.ready = 1 /\ current = 1 /\ s.scratch = "tf"
  /\ SAt = "h_entry" => current = 1
  /\ SAt \in SwitchLabels \ {"sw_current"} => s.vec = 1 /\ current = 1
  /\ SAt \in SwitchLabels \ {"sw_current", "sw_frame"} => tf.ready = 1
  /\ SAt \in {"sw_epc", "sw_scratch", "sret"} => s.SPP = "U"
  /\ SAt = "sret" => s.scratch = "tf"

\* The application's program counter on its way through the kernel.
ResumeInv ==
  /\ tf.epc.at = "user"
  /\ SAt \in {"s_vec", "h_entry"} => s.SPP = "U" /\ s.epc.at = "user"
  /\ SAt \in {"s_vec", "h_entry"} /\ s.cause = "soft" => s.epc.u = resume
  /\ SAt \in {"s_vec", "h_entry"} /\ s.cause = "ecall" => s.epc.u + 4 = resume
  /\ SAt = "h_cause" /\ s.cause = "soft" => tf.epc.u = resume
  /\ SAt = "h_cause" /\ s.cause = "ecall" => tf.epc.u + 4 = resume
  /\ SAt = "h_sys" => tf.epc.u + 4 = resume
  /\ Loc \in Leaving => tf.epc.u = resume
  /\ SAt \in {"sw_scratch", "sret"} => s.epc = tf.epc

\* The lock is held exactly inside frontend_syscall.
LockInv ==
  /\ lock = IF SAt \in {"fs_host", "fs_unlock"} THEN 1 ELSE 0
  /\ SAt = "fs_set" => res = 0

\* Ticks and deadlines.
TickInv ==
  /\ TicksNotInvented
  /\ SAt \in Arriving /\ s.cause = "soft" => ssip = 1
  /\ Loc \in {"t_print", "t_inc"} => ssip = 1

\* The deadlines are on the grid that timerinit started: handle_timer adds to the
\* last one.
OnGrid ==
  m.MTIE = 1 =>
    /\ mtimecmp = armed + Intervals(fires + 1)
    /\ mtimecmp <= mtime + TIMER_INTERVAL

DeadlineInv ==
  /\ pc.at \in {"m_mtie", "m_mret"} =>
       /\ mtimecmp = armed + TIMER_INTERVAL
       /\ armed <= mtime
       /\ mtime <= armed + 2
       /\ pc.at = "m_mtie" => mtime <= armed + 1
  /\ OnGrid

\* The inductive invariant.
IInv ==
  /\ TypeOK /\ ModeInv /\ BootInv /\ SuspendInv /\ SupervisorInv
  /\ ResumeInv /\ LockInv /\ TickInv /\ DeadlineInv

---------------------------------------------------------------------------
(* Lemmas about the operators of the model.                                *)

\* One more interval is TIMER_INTERVAL further.
LEMMA IntervalsStep ==
  /\ Intervals(1) = TIMER_INTERVAL
  /\ \A n \in Nat : /\ Intervals(n) \in Nat
                    /\ Intervals(n + 1) = Intervals(n) + TIMER_INTERVAL
  BY TrapsAssumption DEF Intervals

\* The labels of the model are labels.
LEMMA LabelFacts ==
  {"m_start", "m_htif", "m_mem", "m_csrs", "m_deleg", "m_sie", "m_cmp",
   "m_mtie", "m_mret", "m_vec", "m_dispatch", "mt_cmp", "mt_sip", "m_ret",
   "s_start", "s_load", "s_loaded", "s_switch", "sw_current", "sw_frame",
   "sw_status", "sw_epc", "sw_scratch", "sret", "t_print", "t_inc", "t_sip",
   "s_vec", "h_entry", "h_cause", "h_sys", "h_ret0", "bt", "panic",
   "shutdown", "sys_exit", "die", "poweroff", "halt", "fs_spin", "fs_read",
   "fs_set", "fs_host", "fs_unlock", "user", "lost"} \subseteq Labels
  BY DEF Labels, MBootLabels, MTrapLabels, SBootLabels, SwitchLabels,
       TimerLabels, HandlerLabels, PanicLabels, FsLabels, SLabels

\* A step of the hart takes at most one unit of time.
LEMMA AdvanceBounds ==
  TypeOK /\ Advance => mtime' \in Nat /\ mtime <= mtime' /\ mtime' <= mtime + 1
  BY DEF TypeOK, Advance

\* What a trap and a return do to the CSRs, field by field.
LEMMA MTrapFields ==
  TypeOK => \A c \in M_FAULTS \cup {"timer"} : MTrap(c) =>
    /\ m' \in MCsrs /\ priv' = "M"
    /\ pc' = K(IF m.vec = 1 THEN "m_vec" ELSE "lost")
    /\ m'.MIE = 0 /\ m'.MPIE = m.MIE /\ m'.MPP = priv /\ m'.epc = pc
    /\ m'.cause = c /\ m'.MTIE = m.MTIE /\ m'.vec = m.vec
    /\ m'.scratch = m.scratch /\ m'.deleg = m.deleg
  BY ZenonT(60) DEF TypeOK, MTrap, MCsrs, Bit, Go

\* The same for a trap into supervisor mode.
LEMMA STrapFields ==
  TypeOK => \A c \in S_FAULTS \cup {"ecall", "soft"} : STrap(c) =>
    /\ s' \in SCsrs /\ priv' = "S"
    /\ pc' = K(IF s.vec = 1 THEN "s_vec" ELSE "lost")
    /\ s'.SIE = 0 /\ s'.SPIE = s.SIE /\ s'.SPP = priv /\ s'.epc = pc
    /\ s'.cause = c /\ s'.SSIE = s.SSIE /\ s'.vec = s.vec
    /\ s'.scratch = s.scratch
  BY ZenonT(60) DEF TypeOK, STrap, SCsrs, Bit, Go

\* What mret does.
LEMMA MretFields ==
  TypeOK /\ Mret =>
    /\ m' \in MCsrs /\ priv' = m.MPP /\ pc' = m.epc
    /\ m'.MIE = m.MPIE /\ m'.MPP = "U" /\ m'.epc = m.epc
    /\ m'.MTIE = m.MTIE /\ m'.vec = m.vec /\ m'.scratch = m.scratch
    /\ m'.deleg = m.deleg
  BY DEF TypeOK, Mret, MCsrs, Bit, Modes

\* What sret does.
LEMMA SretFields ==
  TypeOK /\ Sret =>
    /\ s' \in SCsrs /\ priv' = s.SPP /\ pc' = s.epc
    /\ s'.SIE = s.SPIE /\ s'.SPP = "U"
    /\ s'.SSIE = s.SSIE /\ s'.vec = s.vec /\ s'.scratch = s.scratch
    /\ s'.cause = s.cause
  BY DEF TypeOK, Sret, SCsrs, Bit, Modes

\* m_start's CSR writes, field by field.
LEMMA MStartFields ==
  TypeOK /\ MStartCsrs =>
    /\ m' \in MCsrs
    /\ m'.MTIE = m.MTIE /\ m'.deleg = m.deleg
    /\ m'.vec = 1 /\ m'.scratch = 1 /\ m'.epc = K("s_start")
    /\ misa_S = 1 => m'.MPP = "S"
  <1> SUFFICES ASSUME TypeOK, MStartCsrs PROVE MStartFields!2 OBVIOUS
  <1>1. K("s_start") \in Addr
    BY LabelFacts DEF K, Addr
  <1>2. CASE misa_S = 1
    BY <1>1, <1>2, ZenonT(60) DEF TypeOK, MStartCsrs, MCsrs, Bit, Modes, Go
  <1>3. CASE misa_S # 1
    BY <1>1, <1>3, ZenonT(60) DEF TypeOK, MStartCsrs, MCsrs, Bit, Modes, Go
  <1> QED BY <1>2, <1>3

\* delegate_traps touches medeleg and mideleg only.
LEMMA DelegateFields ==
  TypeOK /\ DelegateTraps =>
    /\ m' \in MCsrs
    /\ m'.MIE = m.MIE /\ m'.MTIE = m.MTIE /\ m'.vec = m.vec
    /\ m'.scratch = m.scratch /\ m'.epc = m.epc /\ m'.MPP = m.MPP
    /\ pc'.at # "die" => m'.deleg = IF misa_S = 1 THEN 1 ELSE m.deleg
  BY DEF TypeOK, DelegateTraps, MCsrs, Bit, Go, K, CallHost

\* switch_to's write of sstatus.
LEMMA SwitchStatusFields ==
  TypeOK /\ SwitchStatus =>
    /\ s' \in SCsrs /\ s'.SPP = "U" /\ s'.SIE = s.SIE /\ s'.SSIE = s.SSIE
    /\ s'.vec = s.vec /\ s'.scratch = s.scratch /\ s'.epc = s.epc
  BY DEF TypeOK, SwitchStatus, SCsrs, Bit, Modes

\* The timer interrupts only the supervisor or the application, both of which
\* run with everything set up for it: machine mode runs with MIE clear, and
\* m_start's deadline lies ahead until it has left.
LEMMA TimerTaken ==
  IInv /\ TakeTimer =>
    /\ Booted /\ priv # "M" /\ pc.at \notin MBootLabels \cup MTrapLabels
    /\ pc' = K("m_vec") /\ priv' = "M" /\ mtimecmp <= mtime
  <1> SUFFICES ASSUME IInv, TakeTimer PROVE TimerTaken!2 OBVIOUS
  <1> TypeOK BY DEF IInv
  <1>1. pc.at \notin MBootLabels \cup MTrapLabels
    BY TrapsAssumption DEF TakeTimer, IInv, TypeOK, MIntr, MTIP, BootInv,
       ModeInv, DeadlineInv, MAt, MBootLabels, MTrapLabels, FsLabels
  <1>2. priv # "M"
    BY <1>1 DEF TakeTimer, IInv, BootInv, MIntr
  <1>3. Booted
    BY <1>2 DEF IInv, BootInv
  <1> QED
    BY <1>1, <1>2, <1>3, MTrapFields
    DEF TakeTimer, MIntr, MTIP, TypeOK, Booted

\* The software interrupt is taken only from the application.
LEMMA SoftTaken ==
  IInv /\ TakeSoft =>
    /\ Booted /\ priv = "U" /\ pc.at = "user" /\ ssip = 1
    /\ pc' = K("s_vec") /\ priv' = "S"
  <1> SUFFICES ASSUME IInv, TakeSoft PROVE SoftTaken!2 OBVIOUS
  <1> TypeOK BY DEF IInv
  <1>1. priv = "U" /\ ssip = 1
    BY DEF TakeSoft, IInv, SIntr, SupervisorInv
  <1>2. pc.at = "user"
    BY <1>1 DEF IInv, TypeOK, ModeInv, Addr, Labels, SLabels
  <1>3. s.vec = 1
    BY <1>2 DEF IInv, SupervisorInv, SAt, MTrapLabels
  <1> QED
    BY <1>1, <1>2, <1>3, STrapFields DEF TakeSoft, IInv, BootInv

\* The vector finds what switch_to left it.
LEMMA VectorReady ==
  IInv /\ SVec =>
    /\ s.scratch = "tf" /\ tf.ready = 1 /\ current = 1 /\ priv = "S"
    /\ pc.at = "s_vec" /\ pc' = K("h_entry")
  BY DEF SVec, IInv, SupervisorInv, ModeInv, SAt, At, Go, MTrapLabels, SLabels,
     HandlerLabels

---------------------------------------------------------------------------
(* The invariant is inductive: one lemma per conjunct, one step per action.*)

\* Each action keeps each part of the invariant: first the types.
LEMMA TypeOKStep == IInv /\ Next => TypeOK'
<1> SUFFICES ASSUME IInv, Next PROVE TypeOK' OBVIOUS
<1> USE TrapsAssumption, LabelFacts, AdvanceBounds
<1> USE DEF IInv, TypeOK, MCsrs, SCsrs, Addr, Modes, Bit,
       At, Go, clint, locks, proc, K, U, CallHost
<1>1. CASE TakeTimer BY <1>1, TimerTaken, MTrapFields DEF TakeTimer
<1>2. CASE TakeSoft BY <1>2, SoftTaken, STrapFields DEF TakeSoft
<1>3. CASE MStart BY <1>3 DEF MStart
<1>4. CASE InitDtb BY <1>4 DEF InitDtb
<1>5. CASE MStartCsrs BY <1>5, MStartFields DEF MStartCsrs
<1>6. CASE DelegateTraps BY <1>6 DEF DelegateTraps
<1>7. CASE EnableSie BY <1>7, MTrapFields DEF EnableSie, M_FAULTS
<1>8. CASE TimerinitCmp BY <1>8 DEF TimerinitCmp
<1>9. CASE TimerinitMie BY <1>9 DEF TimerinitMie
<1>10. CASE MStartMret BY <1>10, MretFields DEF MStartMret
<1>11. CASE MVec BY <1>11 DEF MVec
<1>12. CASE HandleMtrap BY <1>12 DEF HandleMtrap
<1>13. CASE HandleTimerCmp BY <1>13 DEF HandleTimerCmp
<1>14. CASE HandleTimerSip BY <1>14 DEF HandleTimerSip
<1>15. CASE MtrapvecMret BY <1>15, MretFields DEF MtrapvecMret
<1>16. CASE SpinlockLock BY <1>16 DEF SpinlockLock
<1>17. CASE HtifSyscall BY <1>17 DEF HtifSyscall
<1>18. CASE SpinlockUnlock BY <1>18 DEF SpinlockUnlock
<1>19. CASE Panic BY <1>19 DEF Panic
<1>20. CASE Die BY <1>20 DEF Die
<1>21. CASE ShutdownLoop BY <1>21 DEF ShutdownLoop, vars
<1>22. CASE SStart BY <1>22 DEF SStart
<1>23. CASE LoadUserProgram BY <1>23 DEF LoadUserProgram
<1>24. CASE LoadDone BY <1>24 DEF LoadDone
<1>25. CASE SStartSwitch BY <1>25 DEF SStartSwitch
<1>26. CASE SwitchCurrent BY <1>26 DEF SwitchCurrent
<1>27. CASE SwitchFrame BY <1>27 DEF SwitchFrame
<1>28. CASE SwitchStatus BY <1>28, SwitchStatusFields DEF SwitchStatus
<1>29. CASE SwitchEpc BY <1>29 DEF SwitchEpc
<1>30. CASE ReturnToUser BY <1>30 DEF ReturnToUser
<1>31. CASE ReturnSret BY <1>31, SretFields DEF ReturnSret
<1>32. CASE UserStep BY <1>32 DEF UserStep
<1>33. CASE Ecall
  BY <1>33, STrapFields
  DEF Ecall, SYS_user_print, SYS_user_exit,
      SYS_user_backtrace, SYS_unknown
<1>34. CASE UserFault BY <1>34, MTrapFields, STrapFields DEF UserFault
<1>35. CASE SVec BY <1>35, VectorReady DEF SVec
<1>36. CASE SmodeTrapHandler BY <1>36 DEF SmodeTrapHandler
<1>37. CASE TrapCause BY <1>37 DEF TrapCause
<1>38. CASE HandleSyscall BY <1>38 DEF HandleSyscall, DoSyscall
<1>39. CASE SyscallReturn0 BY <1>39 DEF SyscallReturn0
<1>40. CASE SysUserBacktrace BY <1>40 DEF SysUserBacktrace
<1>41. CASE MtimerPrint BY <1>41 DEF MtimerPrint
<1>42. CASE MtimerInc BY <1>42 DEF MtimerInc
<1>43. CASE MtimerClear BY <1>43 DEF MtimerClear
<1> QED
  BY <1>1, <1>2, <1>3, <1>4, <1>5, <1>6, <1>7, <1>8, <1>9, <1>10, <1>11,
     <1>12, <1>13, <1>14, <1>15, <1>16, <1>17, <1>18, <1>19, <1>20, <1>21,
     <1>22, <1>23, <1>24, <1>25, <1>26, <1>27, <1>28, <1>29, <1>30, <1>31,
     <1>32, <1>33, <1>34, <1>35, <1>36, <1>37, <1>38, <1>39, <1>40, <1>41,
     <1>42, <1>43
  DEF Next

\* The privilege mode follows from where the hart executes.
LEMMA ModeInvStep == IInv /\ Next => ModeInv'
<1> SUFFICES ASSUME IInv, Next PROVE ModeInv' OBVIOUS
<1> TypeOK BY DEF IInv
<1> USE TrapsAssumption, AdvanceBounds
<1> USE DEF IInv, ModeInv, SuspendInv, BootInv, Booted, ResumeInv,
       SupervisorInv,
       SAt,
       TypeOK, MCsrs, SCsrs, Addr, Modes, Bit,
       At, Go, clint, locks, proc, K, U, CallHost,
       MBootLabels, MTrapLabels, SBootLabels, SwitchLabels, TimerLabels,
       HandlerLabels, PanicLabels, FsLabels, SLabels,
       BootCalls, SupervisorCalls, MAt, Before
<1>1. CASE TakeTimer BY <1>1, TimerTaken, MTrapFields DEF TakeTimer
<1>2. CASE TakeSoft BY <1>2, SoftTaken, STrapFields DEF TakeSoft
<1>3. CASE MStart BY <1>3 DEF MStart
<1>4. CASE InitDtb BY <1>4 DEF InitDtb
<1>5. CASE MStartCsrs BY <1>5, MStartFields DEF MStartCsrs
<1>6. CASE DelegateTraps BY <1>6 DEF DelegateTraps
<1>7. CASE EnableSie BY <1>7, MTrapFields DEF EnableSie, M_FAULTS
<1>8. CASE TimerinitCmp BY <1>8 DEF TimerinitCmp
<1>9. CASE TimerinitMie BY <1>9 DEF TimerinitMie
<1>10. CASE MStartMret BY <1>10, MretFields DEF MStartMret
<1>11. CASE MVec BY <1>11 DEF MVec
<1>12. CASE HandleMtrap BY <1>12 DEF HandleMtrap
<1>13. CASE HandleTimerCmp BY <1>13 DEF HandleTimerCmp
<1>14. CASE HandleTimerSip BY <1>14 DEF HandleTimerSip
<1>15. CASE MtrapvecMret BY <1>15, MretFields DEF MtrapvecMret
<1>16. CASE SpinlockLock BY <1>16 DEF SpinlockLock
<1>17. CASE HtifSyscall BY <1>17 DEF HtifSyscall
<1>18. CASE SpinlockUnlock BY <1>18 DEF SpinlockUnlock
<1>19. CASE Panic BY <1>19 DEF Panic
<1>20. CASE Die BY <1>20 DEF Die
<1>21. CASE ShutdownLoop BY <1>21 DEF ShutdownLoop, vars
<1>22. CASE SStart BY <1>22 DEF SStart
<1>23. CASE LoadUserProgram BY <1>23 DEF LoadUserProgram
<1>24. CASE LoadDone BY <1>24 DEF LoadDone
<1>25. CASE SStartSwitch BY <1>25 DEF SStartSwitch
<1>26. CASE SwitchCurrent BY <1>26 DEF SwitchCurrent
<1>27. CASE SwitchFrame BY <1>27 DEF SwitchFrame
<1>28. CASE SwitchStatus BY <1>28, SwitchStatusFields DEF SwitchStatus
<1>29. CASE SwitchEpc BY <1>29 DEF SwitchEpc
<1>30. CASE ReturnToUser BY <1>30 DEF ReturnToUser
<1>31. CASE ReturnSret BY <1>31, SretFields DEF ReturnSret
<1>32. CASE UserStep BY <1>32 DEF UserStep
<1>33. CASE Ecall BY <1>33, STrapFields DEF Ecall
<1>34. CASE UserFault BY <1>34, MTrapFields, STrapFields DEF UserFault
<1>35. CASE SVec BY <1>35, VectorReady DEF SVec
<1>36. CASE SmodeTrapHandler BY <1>36 DEF SmodeTrapHandler
<1>37. CASE TrapCause BY <1>37 DEF TrapCause
<1>38. CASE HandleSyscall BY <1>38 DEF HandleSyscall, DoSyscall
<1>39. CASE SyscallReturn0 BY <1>39 DEF SyscallReturn0
<1>40. CASE SysUserBacktrace BY <1>40 DEF SysUserBacktrace
<1>41. CASE MtimerPrint BY <1>41 DEF MtimerPrint
<1>42. CASE MtimerInc BY <1>42 DEF MtimerInc
<1>43. CASE MtimerClear BY <1>43 DEF MtimerClear
<1> QED
  BY <1>1, <1>2, <1>3, <1>4, <1>5, <1>6, <1>7, <1>8, <1>9, <1>10, <1>11,
     <1>12, <1>13, <1>14, <1>15, <1>16, <1>17, <1>18, <1>19, <1>20, <1>21,
     <1>22, <1>23, <1>24, <1>25, <1>26, <1>27, <1>28, <1>29, <1>30, <1>31,
     <1>32, <1>33, <1>34, <1>35, <1>36, <1>37, <1>38, <1>39, <1>40, <1>41,
     <1>42, <1>43
  DEF Next

\* What m_start has set up so far.
LEMMA BootInvStep == IInv /\ Next => BootInv'
<1> SUFFICES ASSUME IInv, Next PROVE BootInv' OBVIOUS
<1> TypeOK BY DEF IInv
<1> USE TrapsAssumption, AdvanceBounds
<1> USE DEF IInv, BootInv, ModeInv, Booted, SuspendInv, SupervisorInv,
       ResumeInv,
       SAt,
       TypeOK, MCsrs, SCsrs, Addr, Modes, Bit,
       At, Go, clint, locks, proc, K, U, CallHost,
       MBootLabels, MTrapLabels, SBootLabels, SwitchLabels, TimerLabels,
       HandlerLabels, PanicLabels, FsLabels, SLabels,
       BootCalls, SupervisorCalls, MAt, Before
<1>1. CASE TakeTimer BY <1>1, TimerTaken, MTrapFields DEF TakeTimer
<1>2. CASE TakeSoft BY <1>2, SoftTaken, STrapFields DEF TakeSoft
<1>3. CASE MStart BY <1>3 DEF MStart
<1>4. CASE InitDtb BY <1>4 DEF InitDtb
<1>5. CASE MStartCsrs BY <1>5, MStartFields DEF MStartCsrs
<1>6. CASE DelegateTraps
  <2>1. m.MTIE = 0 /\ m.vec = 1 /\ m.scratch = 1 /\ m.epc = K("s_start")
    BY <1>6 DEF DelegateTraps
  <2>2. pc' \in {K("fs_spin"), K("m_sie"), K("die")}
    BY <1>6 DEF DelegateTraps
  <2>3. CASE pc' = K("die")
    BY <1>6, <2>1, <2>3, DelegateFields DEF DelegateTraps
  <2>4. CASE misa_S = 0
    BY <1>6, <2>1, <2>4 DEF DelegateTraps
  <2>5. CASE pc' = K("m_sie")
    <3>1. misa_S = 1
      BY <1>6, <2>5 DEF DelegateTraps
    <3> QED BY <1>6, <2>1, <2>5, <3>1, DelegateFields DEF DelegateTraps
  <2> QED BY <1>6, <2>2, <2>3, <2>4, <2>5 DEF DelegateTraps
<1>7. CASE EnableSie BY <1>7, MTrapFields DEF EnableSie, M_FAULTS
<1>8. CASE TimerinitCmp BY <1>8 DEF TimerinitCmp
<1>9. CASE TimerinitMie BY <1>9 DEF TimerinitMie
<1>10. CASE MStartMret BY <1>10, MretFields DEF MStartMret
<1>11. CASE MVec BY <1>11 DEF MVec
<1>12. CASE HandleMtrap BY <1>12 DEF HandleMtrap
<1>13. CASE HandleTimerCmp BY <1>13 DEF HandleTimerCmp
<1>14. CASE HandleTimerSip BY <1>14 DEF HandleTimerSip
<1>15. CASE MtrapvecMret BY <1>15, MretFields DEF MtrapvecMret
<1>16. CASE SpinlockLock BY <1>16 DEF SpinlockLock
<1>17. CASE HtifSyscall BY <1>17 DEF HtifSyscall
<1>18. CASE SpinlockUnlock BY <1>18 DEF SpinlockUnlock
<1>19. CASE Panic BY <1>19 DEF Panic
<1>20. CASE Die BY <1>20 DEF Die
<1>21. CASE ShutdownLoop BY <1>21 DEF ShutdownLoop, vars
<1>22. CASE SStart BY <1>22 DEF SStart
<1>23. CASE LoadUserProgram BY <1>23 DEF LoadUserProgram
<1>24. CASE LoadDone BY <1>24 DEF LoadDone
<1>25. CASE SStartSwitch BY <1>25 DEF SStartSwitch
<1>26. CASE SwitchCurrent BY <1>26 DEF SwitchCurrent
<1>27. CASE SwitchFrame BY <1>27 DEF SwitchFrame
<1>28. CASE SwitchStatus BY <1>28, SwitchStatusFields DEF SwitchStatus
<1>29. CASE SwitchEpc BY <1>29 DEF SwitchEpc
<1>30. CASE ReturnToUser BY <1>30 DEF ReturnToUser
<1>31. CASE ReturnSret BY <1>31, SretFields DEF ReturnSret
<1>32. CASE UserStep BY <1>32 DEF UserStep
<1>33. CASE Ecall BY <1>33, STrapFields DEF Ecall
<1>34. CASE UserFault BY <1>34, MTrapFields, STrapFields DEF UserFault
<1>35. CASE SVec BY <1>35, VectorReady DEF SVec
<1>36. CASE SmodeTrapHandler BY <1>36 DEF SmodeTrapHandler
<1>37. CASE TrapCause BY <1>37 DEF TrapCause
<1>38. CASE HandleSyscall BY <1>38 DEF HandleSyscall, DoSyscall
<1>39. CASE SyscallReturn0 BY <1>39 DEF SyscallReturn0
<1>40. CASE SysUserBacktrace BY <1>40 DEF SysUserBacktrace
<1>41. CASE MtimerPrint BY <1>41 DEF MtimerPrint
<1>42. CASE MtimerInc BY <1>42 DEF MtimerInc
<1>43. CASE MtimerClear BY <1>43 DEF MtimerClear
<1> QED
  BY <1>1, <1>2, <1>3, <1>4, <1>5, <1>6, <1>7, <1>8, <1>9, <1>10, <1>11,
     <1>12, <1>13, <1>14, <1>15, <1>16, <1>17, <1>18, <1>19, <1>20, <1>21,
     <1>22, <1>23, <1>24, <1>25, <1>26, <1>27, <1>28, <1>29, <1>30, <1>31,
     <1>32, <1>33, <1>34, <1>35, <1>36, <1>37, <1>38, <1>39, <1>40, <1>41,
     <1>42, <1>43
  DEF Next

\* What a machine-mode trap has suspended.
LEMMA SuspendInvStep == IInv /\ Next => SuspendInv'
<1> SUFFICES ASSUME IInv, Next PROVE SuspendInv' OBVIOUS
<1> TypeOK BY DEF IInv
<1> USE TrapsAssumption, AdvanceBounds
<1> USE DEF IInv, SuspendInv, ModeInv, BootInv, Booted, ResumeInv, TickInv,
       TicksNotInvented, SAt,
       TypeOK, MCsrs, SCsrs, Addr, Modes, Bit,
       At, Go, clint, locks, proc, K, U, CallHost,
       MBootLabels, MTrapLabels, SBootLabels, SwitchLabels, TimerLabels,
       HandlerLabels, PanicLabels, FsLabels, SLabels,
       BootCalls, SupervisorCalls, MAt, Before
<1>1. CASE TakeTimer
  <2>1. pc.at \in {"user"} \cup SLabels \cup FsLabels \cup PanicLabels
    BY <1>1, TimerTaken DEF Labels
  <2>2. priv = IF pc.at = "user" THEN "U" ELSE "S"
    BY <1>1, <2>1, TimerTaken
  <2> QED
    BY <1>1, <2>1, <2>2, TimerTaken, MTrapFields DEF TakeTimer
<1>2. CASE TakeSoft BY <1>2, SoftTaken, STrapFields DEF TakeSoft
<1>3. CASE MStart BY <1>3 DEF MStart
<1>4. CASE InitDtb BY <1>4 DEF InitDtb
<1>5. CASE MStartCsrs BY <1>5, MStartFields DEF MStartCsrs
<1>6. CASE DelegateTraps BY <1>6 DEF DelegateTraps
<1>7. CASE EnableSie BY <1>7, MTrapFields DEF EnableSie, M_FAULTS
<1>8. CASE TimerinitCmp BY <1>8 DEF TimerinitCmp
<1>9. CASE TimerinitMie BY <1>9 DEF TimerinitMie
<1>10. CASE MStartMret BY <1>10, MretFields DEF MStartMret
<1>11. CASE MVec BY <1>11 DEF MVec
<1>12. CASE HandleMtrap BY <1>12 DEF HandleMtrap
<1>13. CASE HandleTimerCmp BY <1>13 DEF HandleTimerCmp
<1>14. CASE HandleTimerSip BY <1>14 DEF HandleTimerSip
<1>15. CASE MtrapvecMret BY <1>15, MretFields DEF MtrapvecMret
<1>16. CASE SpinlockLock BY <1>16 DEF SpinlockLock
<1>17. CASE HtifSyscall BY <1>17 DEF HtifSyscall
<1>18. CASE SpinlockUnlock BY <1>18 DEF SpinlockUnlock
<1>19. CASE Panic BY <1>19 DEF Panic
<1>20. CASE Die BY <1>20 DEF Die
<1>21. CASE ShutdownLoop BY <1>21 DEF ShutdownLoop, vars
<1>22. CASE SStart BY <1>22 DEF SStart
<1>23. CASE LoadUserProgram BY <1>23 DEF LoadUserProgram
<1>24. CASE LoadDone BY <1>24 DEF LoadDone
<1>25. CASE SStartSwitch BY <1>25 DEF SStartSwitch
<1>26. CASE SwitchCurrent BY <1>26 DEF SwitchCurrent
<1>27. CASE SwitchFrame BY <1>27 DEF SwitchFrame
<1>28. CASE SwitchStatus BY <1>28, SwitchStatusFields DEF SwitchStatus
<1>29. CASE SwitchEpc BY <1>29 DEF SwitchEpc
<1>30. CASE ReturnToUser BY <1>30 DEF ReturnToUser
<1>31. CASE ReturnSret BY <1>31, SretFields DEF ReturnSret
<1>32. CASE UserStep BY <1>32 DEF UserStep
<1>33. CASE Ecall BY <1>33, STrapFields DEF Ecall
<1>34. CASE UserFault
  BY <1>34, MTrapFields, STrapFields
  DEF UserFault, M_FAULTS
<1>35. CASE SVec BY <1>35, VectorReady DEF SVec
<1>36. CASE SmodeTrapHandler BY <1>36 DEF SmodeTrapHandler
<1>37. CASE TrapCause BY <1>37 DEF TrapCause
<1>38. CASE HandleSyscall BY <1>38 DEF HandleSyscall, DoSyscall
<1>39. CASE SyscallReturn0 BY <1>39 DEF SyscallReturn0
<1>40. CASE SysUserBacktrace BY <1>40 DEF SysUserBacktrace
<1>41. CASE MtimerPrint BY <1>41 DEF MtimerPrint
<1>42. CASE MtimerInc BY <1>42 DEF MtimerInc
<1>43. CASE MtimerClear BY <1>43 DEF MtimerClear
<1> QED
  BY <1>1, <1>2, <1>3, <1>4, <1>5, <1>6, <1>7, <1>8, <1>9, <1>10, <1>11,
     <1>12, <1>13, <1>14, <1>15, <1>16, <1>17, <1>18, <1>19, <1>20, <1>21,
     <1>22, <1>23, <1>24, <1>25, <1>26, <1>27, <1>28, <1>29, <1>30, <1>31,
     <1>32, <1>33, <1>34, <1>35, <1>36, <1>37, <1>38, <1>39, <1>40, <1>41,
     <1>42, <1>43
  DEF Next

\* What the supervisor's code may rely on, also while it is suspended.
LEMMA SupervisorInvStep == IInv /\ Next => SupervisorInv'
<1> SUFFICES ASSUME IInv, Next PROVE SupervisorInv' OBVIOUS
<1> TypeOK BY DEF IInv
<1> USE TrapsAssumption, AdvanceBounds
<1> USE DEF IInv, SupervisorInv, ModeInv, SuspendInv, BootInv, Booted,
       ResumeInv,
       SAt,
       TypeOK, MCsrs, SCsrs, Addr, Modes, Bit,
       At, Go, clint, locks, proc, K, U, CallHost,
       MBootLabels, MTrapLabels, SBootLabels, SwitchLabels, TimerLabels,
       HandlerLabels, PanicLabels, FsLabels, SLabels,
       BootCalls, SupervisorCalls, MAt, Before
<1>1. CASE TakeTimer BY <1>1, TimerTaken, MTrapFields DEF TakeTimer
<1>2. CASE TakeSoft BY <1>2, SoftTaken, STrapFields DEF TakeSoft
<1>3. CASE MStart BY <1>3 DEF MStart
<1>4. CASE InitDtb BY <1>4 DEF InitDtb
<1>5. CASE MStartCsrs BY <1>5, MStartFields DEF MStartCsrs
<1>6. CASE DelegateTraps BY <1>6 DEF DelegateTraps
<1>7. CASE EnableSie BY <1>7, MTrapFields DEF EnableSie, M_FAULTS
<1>8. CASE TimerinitCmp BY <1>8 DEF TimerinitCmp
<1>9. CASE TimerinitMie BY <1>9 DEF TimerinitMie
<1>10. CASE MStartMret BY <1>10, MretFields DEF MStartMret
<1>11. CASE MVec BY <1>11 DEF MVec
<1>12. CASE HandleMtrap BY <1>12 DEF HandleMtrap
<1>13. CASE HandleTimerCmp BY <1>13 DEF HandleTimerCmp
<1>14. CASE HandleTimerSip BY <1>14 DEF HandleTimerSip
<1>15. CASE MtrapvecMret BY <1>15, MretFields DEF MtrapvecMret
<1>16. CASE SpinlockLock BY <1>16 DEF SpinlockLock
<1>17. CASE HtifSyscall BY <1>17 DEF HtifSyscall
<1>18. CASE SpinlockUnlock BY <1>18 DEF SpinlockUnlock
<1>19. CASE Panic BY <1>19 DEF Panic
<1>20. CASE Die BY <1>20 DEF Die
<1>21. CASE ShutdownLoop BY <1>21 DEF ShutdownLoop, vars
<1>22. CASE SStart BY <1>22 DEF SStart
<1>23. CASE LoadUserProgram BY <1>23 DEF LoadUserProgram
<1>24. CASE LoadDone BY <1>24 DEF LoadDone
<1>25. CASE SStartSwitch BY <1>25 DEF SStartSwitch
<1>26. CASE SwitchCurrent BY <1>26 DEF SwitchCurrent
<1>27. CASE SwitchFrame BY <1>27 DEF SwitchFrame
<1>28. CASE SwitchStatus BY <1>28, SwitchStatusFields DEF SwitchStatus
<1>29. CASE SwitchEpc BY <1>29 DEF SwitchEpc
<1>30. CASE ReturnToUser BY <1>30 DEF ReturnToUser
<1>31. CASE ReturnSret BY <1>31, SretFields DEF ReturnSret
<1>32. CASE UserStep BY <1>32 DEF UserStep
<1>33. CASE Ecall BY <1>33, STrapFields DEF Ecall
<1>34. CASE UserFault BY <1>34, MTrapFields, STrapFields DEF UserFault
<1>35. CASE SVec BY <1>35, VectorReady DEF SVec
<1>36. CASE SmodeTrapHandler BY <1>36 DEF SmodeTrapHandler
<1>37. CASE TrapCause BY <1>37 DEF TrapCause
<1>38. CASE HandleSyscall BY <1>38 DEF HandleSyscall, DoSyscall
<1>39. CASE SyscallReturn0 BY <1>39 DEF SyscallReturn0
<1>40. CASE SysUserBacktrace BY <1>40 DEF SysUserBacktrace
<1>41. CASE MtimerPrint BY <1>41 DEF MtimerPrint
<1>42. CASE MtimerInc BY <1>42 DEF MtimerInc
<1>43. CASE MtimerClear BY <1>43 DEF MtimerClear
<1> QED
  BY <1>1, <1>2, <1>3, <1>4, <1>5, <1>6, <1>7, <1>8, <1>9, <1>10, <1>11,
     <1>12, <1>13, <1>14, <1>15, <1>16, <1>17, <1>18, <1>19, <1>20, <1>21,
     <1>22, <1>23, <1>24, <1>25, <1>26, <1>27, <1>28, <1>29, <1>30, <1>31,
     <1>32, <1>33, <1>34, <1>35, <1>36, <1>37, <1>38, <1>39, <1>40, <1>41,
     <1>42, <1>43
  DEF Next

\* Where the application will continue.
LEMMA ResumeInvStep == IInv /\ Next => ResumeInv'
<1> SUFFICES ASSUME IInv, Next PROVE ResumeInv' OBVIOUS
<1> TypeOK BY DEF IInv
<1> USE TrapsAssumption, AdvanceBounds
<1> USE DEF IInv, ResumeInv, ModeInv, SuspendInv, BootInv, Booted,
       SupervisorInv,
       SAt, Loc, Leaving,
       TypeOK, MCsrs, SCsrs, Addr, Modes, Bit,
       At, Go, clint, locks, proc, K, U, CallHost,
       MBootLabels, MTrapLabels, SBootLabels, SwitchLabels, TimerLabels,
       HandlerLabels, PanicLabels, FsLabels, SLabels,
       BootCalls, SupervisorCalls, MAt, Before
<1>1. CASE TakeTimer BY <1>1, TimerTaken, MTrapFields DEF TakeTimer
<1>2. CASE TakeSoft BY <1>2, SoftTaken, STrapFields DEF TakeSoft
<1>3. CASE MStart BY <1>3 DEF MStart
<1>4. CASE InitDtb BY <1>4 DEF InitDtb
<1>5. CASE MStartCsrs BY <1>5, MStartFields DEF MStartCsrs
<1>6. CASE DelegateTraps BY <1>6 DEF DelegateTraps
<1>7. CASE EnableSie BY <1>7, MTrapFields DEF EnableSie, M_FAULTS
<1>8. CASE TimerinitCmp BY <1>8 DEF TimerinitCmp
<1>9. CASE TimerinitMie BY <1>9 DEF TimerinitMie
<1>10. CASE MStartMret BY <1>10, MretFields DEF MStartMret
<1>11. CASE MVec BY <1>11 DEF MVec
<1>12. CASE HandleMtrap BY <1>12 DEF HandleMtrap
<1>13. CASE HandleTimerCmp BY <1>13 DEF HandleTimerCmp
<1>14. CASE HandleTimerSip BY <1>14 DEF HandleTimerSip
<1>15. CASE MtrapvecMret BY <1>15, MretFields DEF MtrapvecMret
<1>16. CASE SpinlockLock BY <1>16 DEF SpinlockLock
<1>17. CASE HtifSyscall BY <1>17 DEF HtifSyscall
<1>18. CASE SpinlockUnlock BY <1>18 DEF SpinlockUnlock
<1>19. CASE Panic BY <1>19 DEF Panic
<1>20. CASE Die BY <1>20 DEF Die
<1>21. CASE ShutdownLoop BY <1>21 DEF ShutdownLoop, vars
<1>22. CASE SStart BY <1>22 DEF SStart
<1>23. CASE LoadUserProgram BY <1>23 DEF LoadUserProgram
<1>24. CASE LoadDone BY <1>24 DEF LoadDone
<1>25. CASE SStartSwitch BY <1>25 DEF SStartSwitch
<1>26. CASE SwitchCurrent BY <1>26 DEF SwitchCurrent
<1>27. CASE SwitchFrame BY <1>27 DEF SwitchFrame
<1>28. CASE SwitchStatus BY <1>28, SwitchStatusFields DEF SwitchStatus
<1>29. CASE SwitchEpc BY <1>29 DEF SwitchEpc
<1>30. CASE ReturnToUser BY <1>30 DEF ReturnToUser
<1>31. CASE ReturnSret BY <1>31, SretFields DEF ReturnSret
<1>32. CASE UserStep BY <1>32 DEF UserStep
<1>33. CASE Ecall BY <1>33, STrapFields DEF Ecall
<1>34. CASE UserFault
  BY <1>34, MTrapFields, STrapFields
  DEF UserFault, S_FAULTS
<1>35. CASE SVec BY <1>35, VectorReady DEF SVec
<1>36. CASE SmodeTrapHandler BY <1>36 DEF SmodeTrapHandler
<1>37. CASE TrapCause BY <1>37 DEF TrapCause
<1>38. CASE HandleSyscall BY <1>38 DEF HandleSyscall, DoSyscall
<1>39. CASE SyscallReturn0 BY <1>39 DEF SyscallReturn0
<1>40. CASE SysUserBacktrace BY <1>40 DEF SysUserBacktrace
<1>41. CASE MtimerPrint BY <1>41 DEF MtimerPrint
<1>42. CASE MtimerInc BY <1>42 DEF MtimerInc
<1>43. CASE MtimerClear BY <1>43 DEF MtimerClear
<1> QED
  BY <1>1, <1>2, <1>3, <1>4, <1>5, <1>6, <1>7, <1>8, <1>9, <1>10, <1>11,
     <1>12, <1>13, <1>14, <1>15, <1>16, <1>17, <1>18, <1>19, <1>20, <1>21,
     <1>22, <1>23, <1>24, <1>25, <1>26, <1>27, <1>28, <1>29, <1>30, <1>31,
     <1>32, <1>33, <1>34, <1>35, <1>36, <1>37, <1>38, <1>39, <1>40, <1>41,
     <1>42, <1>43
  DEF Next

\* Who holds the lock.
LEMMA LockInvStep == IInv /\ Next => LockInv'
<1> SUFFICES ASSUME IInv, Next PROVE LockInv' OBVIOUS
<1> TypeOK BY DEF IInv
<1> USE TrapsAssumption, AdvanceBounds
<1> USE DEF IInv, LockInv, ModeInv, SuspendInv, BootInv, Booted,
       SupervisorInv,
       ResumeInv, SAt,
       TypeOK, MCsrs, SCsrs, Addr, Modes, Bit,
       At, Go, clint, locks, proc, K, U, CallHost,
       MBootLabels, MTrapLabels, SBootLabels, SwitchLabels, TimerLabels,
       HandlerLabels, PanicLabels, FsLabels, SLabels,
       BootCalls, SupervisorCalls, MAt, Before
<1>1. CASE TakeTimer BY <1>1, TimerTaken, MTrapFields DEF TakeTimer
<1>2. CASE TakeSoft BY <1>2, SoftTaken, STrapFields DEF TakeSoft
<1>3. CASE MStart BY <1>3 DEF MStart
<1>4. CASE InitDtb BY <1>4 DEF InitDtb
<1>5. CASE MStartCsrs BY <1>5, MStartFields DEF MStartCsrs
<1>6. CASE DelegateTraps BY <1>6 DEF DelegateTraps
<1>7. CASE EnableSie BY <1>7, MTrapFields DEF EnableSie, M_FAULTS
<1>8. CASE TimerinitCmp BY <1>8 DEF TimerinitCmp
<1>9. CASE TimerinitMie BY <1>9 DEF TimerinitMie
<1>10. CASE MStartMret BY <1>10, MretFields DEF MStartMret
<1>11. CASE MVec BY <1>11 DEF MVec
<1>12. CASE HandleMtrap BY <1>12 DEF HandleMtrap
<1>13. CASE HandleTimerCmp BY <1>13 DEF HandleTimerCmp
<1>14. CASE HandleTimerSip BY <1>14 DEF HandleTimerSip
<1>15. CASE MtrapvecMret BY <1>15, MretFields DEF MtrapvecMret
<1>16. CASE SpinlockLock BY <1>16 DEF SpinlockLock
<1>17. CASE HtifSyscall BY <1>17 DEF HtifSyscall
<1>18. CASE SpinlockUnlock BY <1>18 DEF SpinlockUnlock
<1>19. CASE Panic BY <1>19 DEF Panic
<1>20. CASE Die BY <1>20 DEF Die
<1>21. CASE ShutdownLoop BY <1>21 DEF ShutdownLoop, vars
<1>22. CASE SStart BY <1>22 DEF SStart
<1>23. CASE LoadUserProgram BY <1>23 DEF LoadUserProgram
<1>24. CASE LoadDone BY <1>24 DEF LoadDone
<1>25. CASE SStartSwitch BY <1>25 DEF SStartSwitch
<1>26. CASE SwitchCurrent BY <1>26 DEF SwitchCurrent
<1>27. CASE SwitchFrame BY <1>27 DEF SwitchFrame
<1>28. CASE SwitchStatus BY <1>28, SwitchStatusFields DEF SwitchStatus
<1>29. CASE SwitchEpc BY <1>29 DEF SwitchEpc
<1>30. CASE ReturnToUser BY <1>30 DEF ReturnToUser
<1>31. CASE ReturnSret BY <1>31, SretFields DEF ReturnSret
<1>32. CASE UserStep BY <1>32 DEF UserStep
<1>33. CASE Ecall BY <1>33, STrapFields DEF Ecall
<1>34. CASE UserFault BY <1>34, MTrapFields, STrapFields DEF UserFault
<1>35. CASE SVec BY <1>35, VectorReady DEF SVec
<1>36. CASE SmodeTrapHandler BY <1>36 DEF SmodeTrapHandler
<1>37. CASE TrapCause BY <1>37 DEF TrapCause
<1>38. CASE HandleSyscall BY <1>38 DEF HandleSyscall, DoSyscall
<1>39. CASE SyscallReturn0 BY <1>39 DEF SyscallReturn0
<1>40. CASE SysUserBacktrace BY <1>40 DEF SysUserBacktrace
<1>41. CASE MtimerPrint BY <1>41 DEF MtimerPrint
<1>42. CASE MtimerInc BY <1>42 DEF MtimerInc
<1>43. CASE MtimerClear BY <1>43 DEF MtimerClear
<1> QED
  BY <1>1, <1>2, <1>3, <1>4, <1>5, <1>6, <1>7, <1>8, <1>9, <1>10, <1>11,
     <1>12, <1>13, <1>14, <1>15, <1>16, <1>17, <1>18, <1>19, <1>20, <1>21,
     <1>22, <1>23, <1>24, <1>25, <1>26, <1>27, <1>28, <1>29, <1>30, <1>31,
     <1>32, <1>33, <1>34, <1>35, <1>36, <1>37, <1>38, <1>39, <1>40, <1>41,
     <1>42, <1>43
  DEF Next

\* Ticks counted and ticks owed.
LEMMA TickInvStep == IInv /\ Next => TickInv'
<1> SUFFICES ASSUME IInv, Next PROVE TickInv' OBVIOUS
<1> TypeOK BY DEF IInv
<1> USE TrapsAssumption, AdvanceBounds
<1> USE DEF IInv, TickInv, ModeInv, SuspendInv, BootInv, Booted,
       SupervisorInv,
       ResumeInv, TicksNotInvented, SAt, Loc, Arriving,
       TypeOK, MCsrs, SCsrs, Addr, Modes, Bit,
       At, Go, clint, locks, proc, K, U, CallHost,
       MBootLabels, MTrapLabels, SBootLabels, SwitchLabels, TimerLabels,
       HandlerLabels, PanicLabels, FsLabels, SLabels,
       BootCalls, SupervisorCalls, MAt, Before
<1>1. CASE TakeTimer BY <1>1, TimerTaken, MTrapFields DEF TakeTimer
<1>2. CASE TakeSoft BY <1>2, SoftTaken, STrapFields DEF TakeSoft
<1>3. CASE MStart BY <1>3 DEF MStart
<1>4. CASE InitDtb BY <1>4 DEF InitDtb
<1>5. CASE MStartCsrs BY <1>5, MStartFields DEF MStartCsrs
<1>6. CASE DelegateTraps BY <1>6 DEF DelegateTraps
<1>7. CASE EnableSie BY <1>7, MTrapFields DEF EnableSie, M_FAULTS
<1>8. CASE TimerinitCmp BY <1>8 DEF TimerinitCmp
<1>9. CASE TimerinitMie BY <1>9 DEF TimerinitMie
<1>10. CASE MStartMret BY <1>10, MretFields DEF MStartMret
<1>11. CASE MVec BY <1>11 DEF MVec
<1>12. CASE HandleMtrap BY <1>12 DEF HandleMtrap
<1>13. CASE HandleTimerCmp BY <1>13 DEF HandleTimerCmp
<1>14. CASE HandleTimerSip BY <1>14 DEF HandleTimerSip
<1>15. CASE MtrapvecMret BY <1>15, MretFields DEF MtrapvecMret
<1>16. CASE SpinlockLock BY <1>16 DEF SpinlockLock
<1>17. CASE HtifSyscall BY <1>17 DEF HtifSyscall
<1>18. CASE SpinlockUnlock BY <1>18 DEF SpinlockUnlock
<1>19. CASE Panic BY <1>19 DEF Panic
<1>20. CASE Die BY <1>20 DEF Die
<1>21. CASE ShutdownLoop BY <1>21 DEF ShutdownLoop, vars
<1>22. CASE SStart BY <1>22 DEF SStart
<1>23. CASE LoadUserProgram BY <1>23 DEF LoadUserProgram
<1>24. CASE LoadDone BY <1>24 DEF LoadDone
<1>25. CASE SStartSwitch BY <1>25 DEF SStartSwitch
<1>26. CASE SwitchCurrent BY <1>26 DEF SwitchCurrent
<1>27. CASE SwitchFrame BY <1>27 DEF SwitchFrame
<1>28. CASE SwitchStatus BY <1>28, SwitchStatusFields DEF SwitchStatus
<1>29. CASE SwitchEpc BY <1>29 DEF SwitchEpc
<1>30. CASE ReturnToUser BY <1>30 DEF ReturnToUser
<1>31. CASE ReturnSret BY <1>31, SretFields DEF ReturnSret
<1>32. CASE UserStep BY <1>32 DEF UserStep
<1>33. CASE Ecall BY <1>33, STrapFields DEF Ecall
<1>34. CASE UserFault
  BY <1>34, MTrapFields, STrapFields
  DEF UserFault, S_FAULTS
<1>35. CASE SVec BY <1>35, VectorReady DEF SVec
<1>36. CASE SmodeTrapHandler BY <1>36 DEF SmodeTrapHandler
<1>37. CASE TrapCause BY <1>37 DEF TrapCause
<1>38. CASE HandleSyscall BY <1>38 DEF HandleSyscall, DoSyscall
<1>39. CASE SyscallReturn0 BY <1>39 DEF SyscallReturn0
<1>40. CASE SysUserBacktrace BY <1>40 DEF SysUserBacktrace
<1>41. CASE MtimerPrint BY <1>41 DEF MtimerPrint
<1>42. CASE MtimerInc BY <1>42 DEF MtimerInc
<1>43. CASE MtimerClear BY <1>43 DEF MtimerClear
<1> QED
  BY <1>1, <1>2, <1>3, <1>4, <1>5, <1>6, <1>7, <1>8, <1>9, <1>10, <1>11,
     <1>12, <1>13, <1>14, <1>15, <1>16, <1>17, <1>18, <1>19, <1>20, <1>21,
     <1>22, <1>23, <1>24, <1>25, <1>26, <1>27, <1>28, <1>29, <1>30, <1>31,
     <1>32, <1>33, <1>34, <1>35, <1>36, <1>37, <1>38, <1>39, <1>40, <1>41,
     <1>42, <1>43
  DEF Next

\* The timer's deadline.
LEMMA DeadlineInvStep == IInv /\ Next => DeadlineInv'
<1> SUFFICES ASSUME IInv, Next PROVE DeadlineInv' OBVIOUS
<1> TypeOK BY DEF IInv
<1>1. /\ fires \in Nat /\ Intervals(fires + 1) \in Nat
         /\ Intervals(fires + 1 + 1) = Intervals(fires + 1) + TIMER_INTERVAL
  <2>1. fires \in Nat /\ fires + 1 \in Nat
    BY DEF TypeOK
  <2> QED BY <2>1, IntervalsStep
<1> USE TrapsAssumption, AdvanceBounds
<1> USE DEF IInv, DeadlineInv, ModeInv, BootInv, Booted, SuspendInv,
       SupervisorInv,
       ResumeInv, OnGrid, SAt,
       TypeOK, MCsrs, SCsrs, Addr, Modes, Bit,
       At, Go, clint, locks, proc, K, U, CallHost,
       MBootLabels, MTrapLabels, SBootLabels, SwitchLabels, TimerLabels,
       HandlerLabels, PanicLabels, FsLabels, SLabels,
       BootCalls, SupervisorCalls, MAt, Before
<1>2. CASE TakeTimer BY <1>2, TimerTaken, MTrapFields DEF TakeTimer
<1>3. CASE TakeSoft BY <1>3, SoftTaken, STrapFields DEF TakeSoft
<1>4. CASE MStart BY <1>4 DEF MStart
<1>5. CASE InitDtb BY <1>5 DEF InitDtb
<1>6. CASE MStartCsrs BY <1>6, MStartFields DEF MStartCsrs
<1>7. CASE DelegateTraps BY <1>7 DEF DelegateTraps
<1>8. CASE EnableSie BY <1>8, MTrapFields DEF EnableSie, M_FAULTS
<1>9. CASE TimerinitCmp BY <1>9 DEF TimerinitCmp
<1>10. CASE TimerinitMie BY <1>10, IntervalsStep DEF TimerinitMie
<1>11. CASE MStartMret
  <2>1. Intervals(fires + 1) = TIMER_INTERVAL
    BY <1>11, IntervalsStep DEF MStartMret
  <2>2. UNCHANGED <<mtimecmp, armed, fires>> /\ m'.MTIE = m.MTIE
    BY <1>11, MretFields DEF MStartMret
  <2>3. pc' = K("s_start")
    BY <1>11, MretFields DEF MStartMret
  <2> QED
    BY <1>11, <2>1, <2>2, <2>3 DEF MStartMret
<1>12. CASE MVec BY <1>12 DEF MVec
<1>13. CASE HandleMtrap BY <1>13 DEF HandleMtrap
<1>14. CASE HandleTimerCmp
  <2>1. Intervals(fires' + 1) = Intervals(fires + 1) + TIMER_INTERVAL
    BY <1>14, <1>1 DEF HandleTimerCmp
  <2>2. m.MTIE = 1 /\ mtimecmp <= mtime
    BY <1>14 DEF HandleTimerCmp
  <2>3. /\ mtimecmp' = mtimecmp + TIMER_INTERVAL /\ armed' = armed
        /\ m' = m /\ pc' = K("mt_sip") /\ mtime <= mtime' /\ mtime' \in Nat
    BY <1>14 DEF HandleTimerCmp
  <2>4. mtimecmp' = armed' + Intervals(fires' + 1)
    BY <2>1, <2>2, <2>3, <1>1
  <2>5. mtimecmp' <= mtime' + TIMER_INTERVAL
    BY <2>2, <2>3
  <2> QED
    BY <2>3, <2>4, <2>5
<1>15. CASE HandleTimerSip BY <1>15 DEF HandleTimerSip
<1>16. CASE MtrapvecMret BY <1>16, MretFields DEF MtrapvecMret
<1>17. CASE SpinlockLock BY <1>17 DEF SpinlockLock
<1>18. CASE HtifSyscall BY <1>18 DEF HtifSyscall
<1>19. CASE SpinlockUnlock BY <1>19 DEF SpinlockUnlock
<1>20. CASE Panic BY <1>20 DEF Panic
<1>21. CASE Die BY <1>21 DEF Die
<1>22. CASE ShutdownLoop BY <1>22 DEF ShutdownLoop, vars
<1>23. CASE SStart BY <1>23 DEF SStart
<1>24. CASE LoadUserProgram BY <1>24 DEF LoadUserProgram
<1>25. CASE LoadDone BY <1>25 DEF LoadDone
<1>26. CASE SStartSwitch BY <1>26 DEF SStartSwitch
<1>27. CASE SwitchCurrent BY <1>27 DEF SwitchCurrent
<1>28. CASE SwitchFrame BY <1>28 DEF SwitchFrame
<1>29. CASE SwitchStatus BY <1>29, SwitchStatusFields DEF SwitchStatus
<1>30. CASE SwitchEpc BY <1>30 DEF SwitchEpc
<1>31. CASE ReturnToUser BY <1>31 DEF ReturnToUser
<1>32. CASE ReturnSret BY <1>32, SretFields DEF ReturnSret
<1>33. CASE UserStep BY <1>33 DEF UserStep
<1>34. CASE Ecall BY <1>34, STrapFields DEF Ecall
<1>35. CASE UserFault BY <1>35, MTrapFields, STrapFields DEF UserFault
<1>36. CASE SVec BY <1>36, VectorReady DEF SVec
<1>37. CASE SmodeTrapHandler BY <1>37 DEF SmodeTrapHandler
<1>38. CASE TrapCause BY <1>38 DEF TrapCause
<1>39. CASE HandleSyscall BY <1>39 DEF HandleSyscall, DoSyscall
<1>40. CASE SyscallReturn0 BY <1>40 DEF SyscallReturn0
<1>41. CASE SysUserBacktrace BY <1>41 DEF SysUserBacktrace
<1>42. CASE MtimerPrint BY <1>42 DEF MtimerPrint
<1>43. CASE MtimerInc BY <1>43 DEF MtimerInc
<1>44. CASE MtimerClear BY <1>44 DEF MtimerClear
<1> QED
  BY <1>2, <1>3, <1>4, <1>5, <1>6, <1>7, <1>8, <1>9, <1>10, <1>11, <1>12,
     <1>13, <1>14, <1>15, <1>16, <1>17, <1>18, <1>19, <1>20, <1>21, <1>22,
     <1>23, <1>24, <1>25, <1>26, <1>27, <1>28, <1>29, <1>30, <1>31, <1>32,
     <1>33, <1>34, <1>35, <1>36, <1>37, <1>38, <1>39, <1>40, <1>41, <1>42,
     <1>43, <1>44
  DEF Next

---------------------------------------------------------------------------
(* The theorems.                                                           *)

\* The invariant holds at reset.
LEMMA InitIInv == Init => IInv
<1> SUFFICES ASSUME Init PROVE IInv OBVIOUS
<1> USE TrapsAssumption, LabelFacts DEF Init, K, U
<1>1. TypeOK
  <2>1. K("m_start") \in Addr /\ U(0) \in Addr
    BY DEF Addr
  <2> HIDE DEF K, U
  <2> QED
    BY <2>1 DEF TypeOK, MCsrs, SCsrs, Modes, Bit
<1>2. ModeInv
  BY DEF ModeInv, MBootLabels, MTrapLabels, SLabels,
     SBootLabels, SwitchLabels, HandlerLabels, TimerLabels, PanicLabels,
     FsLabels, MAt, Before
<1>3. BootInv
  BY <1>1 DEF BootInv, TypeOK, Bit, MBootLabels, MTrapLabels, SLabels,
     SBootLabels, SwitchLabels, HandlerLabels, TimerLabels, PanicLabels,
     FsLabels, MAt, Before
<1>4. SuspendInv
  BY DEF SuspendInv, MTrapLabels
<1>5. SupervisorInv
  BY DEF SupervisorInv, SAt, MTrapLabels, SwitchLabels
<1>6. ResumeInv
  BY DEF ResumeInv, SAt, Loc, Leaving, MTrapLabels, FsLabels, SwitchLabels
<1>7. LockInv
  BY DEF LockInv, SAt, MTrapLabels
<1>8. TickInv
  BY DEF TickInv, TicksNotInvented, SAt, Loc, Arriving, MTrapLabels, FsLabels
<1>9. DeadlineInv
  BY DEF DeadlineInv, OnGrid
<1> QED BY <1>1, <1>2, <1>3, <1>4, <1>5, <1>6, <1>7, <1>8, <1>9 DEF IInv

\* A stuttering step keeps it.
LEMMA StutterIInv == IInv /\ UNCHANGED vars => IInv'
  BY DEF vars, IInv, TypeOK, ModeInv, BootInv, Booted, SuspendInv, SupervisorInv,
     ResumeInv, LockInv, TickInv, DeadlineInv, TicksNotInvented, OnGrid,
     SAt, Loc, MAt

\* The invariant holds in every state the kernel reaches.
THEOREM Invariance == Spec => []IInv
<1>1. IInv /\ [Next]_vars => IInv'
  BY StutterIInv, TypeOKStep, ModeInvStep, BootInvStep, SuspendInvStep,
     SupervisorInvStep, ResumeInvStep, LockInvStep, TickInvStep,
     DeadlineInvStep
  DEF IInv
<1> QED BY <1>1, InitIInv, PTL DEF Spec

\* Every variable keeps its type, for every interval, application and bound.
THEOREM TypeCorrect == Spec => []TypeOK
<1>1. IInv => TypeOK
  BY DEF IInv
<1> QED BY <1>1, Invariance, PTL

\* No trap of any kind, wherever the timer fires, meets a vector, a scratch
\* register or a trapframe that is not set up, and smode_trap_handler's two
\* sanity checks never fail.
THEOREM TrapEntry == Spec => []TrapEntrySafe
<1>1. IInv => TrapEntrySafe
  BY DEF IInv, ModeInv, SupervisorInv, ResumeInv, TrapEntrySafe, SAt,
     MTrapLabels
<1> QED BY <1>1, Invariance, PTL

\* frontend_syscall's spinlock is free whenever the hart asks for it: the lock
\* is held exactly inside frontend_syscall, and no trap handler enters it on
\* top of code that holds it.
THEOREM NoDeadlock == Spec => []NoSelfDeadlock
<1>1. IInv => NoSelfDeadlock
  BY DEF IInv, LockInv, NoSelfDeadlock, SAt, MTrapLabels
<1> QED BY <1>1, Invariance, PTL

\* g_ticks counts no tick twice and none that did not happen.
THEOREM TicksSound == Spec => []TicksNotInvented
<1>1. IInv => TicksNotInvented
  BY DEF IInv, TickInv
<1> QED BY <1>1, Invariance, PTL

\* The timer interrupts the hart at most once in every interval since timerinit
\* on average, and is never silent for longer than one.
THEOREM TimerPace == Spec => []TimerPaced
<1>1. IInv => TimerPaced
  <2> SUFFICES ASSUME IInv, m.MTIE = 1
               PROVE  /\ armed + Intervals(fires) <= mtime
                      /\ mtimecmp <= mtime + TIMER_INTERVAL
    BY DEF TimerPaced
  <2>1. /\ mtimecmp = armed + Intervals(fires + 1)
        /\ mtimecmp <= mtime + TIMER_INTERVAL
    BY DEF IInv, DeadlineInv, OnGrid
  <2>2. fires \in Nat /\ armed \in Int /\ mtime \in Nat
    BY DEF IInv, TypeOK
  <2>3. Intervals(fires) \in Nat /\ Intervals(fires + 1) = Intervals(fires) + TIMER_INTERVAL
    BY <2>2, IntervalsStep
  <2> QED BY <2>1, <2>2, <2>3, TrapsAssumption
<1> QED BY <1>1, Invariance, PTL

\* m_start leaves for s_start in supervisor mode, undisturbed by the timer it
\* has just armed.
THEOREM BootHandover == Spec => []BootHandsOver
<1>1. IInv => BootHandsOver
  BY DEF IInv, BootInv, SuspendInv, BootHandsOver, MAt, Before,
     MBootLabels, MTrapLabels, FsLabels
<1> QED BY <1>1, Invariance, PTL

\* Without supervisor mode no supervisor or user code ever runs.
THEOREM SupervisorNeeded == Spec => []NoSupervisorNoKernel
<1>1. IInv => NoSupervisorNoKernel
  BY DEF IInv, BootInv, NoSupervisorNoKernel
<1> QED BY <1>1, Invariance, PTL

\* The return to the application, through sret or through the machine-mode
\* trap's mret, leads to the address at which it was left (after an ecall, to
\* the next one), whatever happened in between.
THEOREM Resumption == Spec => ResumesAtTrapPoint
<1> DEFINE Returns == pc.at # "user" /\ pc'.at = "user" => pc'.u = resume
<1>1. IInv /\ Next => Returns
  <2> SUFFICES ASSUME IInv, Next, pc.at # "user", pc'.at = "user"
               PROVE  pc'.u = resume
    OBVIOUS
  <2> TypeOK BY DEF IInv
  <2> USE DEF At, Go, K, CallHost
  <2>1. CASE TakeTimer
    BY <2>1, TimerTaken
  <2>2. CASE TakeSoft
    BY <2>2, SoftTaken
  <2>3. CASE EnableSie
    BY <2>3, MTrapFields DEF EnableSie, M_FAULTS
  <2>4. CASE MStartMret
    BY <2>4, MretFields DEF MStartMret, IInv, BootInv, MAt, Before,
       MBootLabels, FsLabels
  <2>5. CASE MtrapvecMret
    BY <2>5, MretFields DEF MtrapvecMret, IInv, SuspendInv, MTrapLabels
  <2>6. CASE SpinlockUnlock
    BY <2>6 DEF SpinlockUnlock, IInv, ModeInv, FsLabels,
       BootCalls, SupervisorCalls, PanicLabels
  <2>7. CASE ReturnSret
    BY <2>7, SretFields DEF ReturnSret, IInv, ResumeInv, SAt, Loc, Leaving,
       SwitchLabels, MTrapLabels, FsLabels
  <2>8. CASE UserStep \/ Ecall \/ UserFault
    BY <2>8 DEF UserStep, Ecall, UserFault
  <2>9. CASE MStart \/ InitDtb \/ MStartCsrs \/ Die \/ DelegateTraps \/
            TimerinitCmp \/ TimerinitMie \/ MVec \/ HandleMtrap \/
            HandleTimerCmp \/ HandleTimerSip \/ SpinlockLock \/
            HtifSyscall \/ Panic \/ ShutdownLoop \/ SStart \/
            LoadUserProgram \/ LoadDone \/ SStartSwitch \/ SwitchCurrent
            \/ SwitchFrame \/ SwitchStatus \/ SwitchEpc \/ ReturnToUser \/
            SVec \/ SmodeTrapHandler \/ TrapCause \/ HandleSyscall \/
            SyscallReturn0 \/ SysUserBacktrace \/ MtimerPrint \/ MtimerInc
            \/ MtimerClear
    BY <2>9 DEF MStart, InitDtb, MStartCsrs, Die, DelegateTraps,
       TimerinitCmp, TimerinitMie, MVec, HandleMtrap, HandleTimerCmp,
       HandleTimerSip, SpinlockLock, HtifSyscall, Panic, ShutdownLoop,
       SStart, LoadUserProgram, LoadDone, SStartSwitch, SwitchCurrent,
       SwitchFrame, SwitchStatus, SwitchEpc, ReturnToUser, SVec,
       SmodeTrapHandler, TrapCause, HandleSyscall, DoSyscall,
       SyscallReturn0, SysUserBacktrace, MtimerPrint, MtimerInc,
       MtimerClear, vars
  <2> QED
    BY <2>1, <2>2, <2>3, <2>4, <2>5, <2>6, <2>7, <2>8, <2>9 DEF Next
<1>2. IInv /\ [Next]_vars => [Returns]_vars
  BY <1>1
<1> QED BY <1>2, Invariance, PTL DEF Spec, ResumesAtTrapPoint

---------------------------------------------------------------------------
(* The kernel implements module AppView.  The application sees the         *)
(* kernel's state through Loc and scause, so the many actions of Traps     *)
(* fall into the few moves below.  What links the two is CauseInv: scause  *)
(* still holds the cause of the visit the kernel is making, because no     *)
(* trap into supervisor mode happens during one.                           *)

\* Where the application is, while it runs or a machine-mode trap suspends it.
UserAt == IF pc.at = "user" THEN pc.u ELSE m.epc.u

\* A move along the kernel's code, with nothing the application could see.
Goes(from, to) ==
  /\ Loc \in from /\ Loc' \in to
  /\ s'.cause = s.cause /\ g_ticks' = g_ticks /\ resume' = resume

\* The supervisor, or the application, stays where it is.
Quiet ==
  /\ Loc' = Loc /\ s'.cause = s.cause /\ g_ticks' = g_ticks
  /\ Loc = "user" => UserAt' = UserAt
  /\ Loc # "user" => resume' = resume

BootLabels == MBootLabels \cup SBootLabels
Serving    == {"h_sys", "h_ret0", "bt"}

Boots      == Goes(BootLabels, BootLabels \cup {"sw_current", "die", "panic"})
Ends       == Goes(PanicLabels, PanicLabels)
Crashed    == Goes({"user", "m_sie"}, {"panic"})
Switches   == Goes(SwitchLabels, SwitchLabels)
Arrives    == Goes(Arriving, Arriving)
Serves     == Goes(Serving, Serving \cup {"sw_current", "shutdown", "panic"})
Ticks      == \/ Goes({"t_print"}, {"t_inc"})
              \/ Goes({"t_sip"}, {"sw_current"})
Dispatches == \/ Goes({"h_cause"}, {"h_sys"}) /\ s.cause = "ecall"
              \/ Goes({"h_cause"}, {"t_print"}) /\ s.cause = "soft"
              \/ Goes({"h_cause"}, {"panic"}) /\ s.cause \notin {"ecall", "soft"}

Loaded ==
  /\ Loc = "s_loaded" /\ Loc' = "s_switch" /\ resume' \in UserPCs
  /\ s'.cause = s.cause /\ g_ticks' = g_ticks

Returned ==
  /\ Loc = "sret" /\ Loc' = "user" /\ UserAt' = resume
  /\ s'.cause = s.cause /\ g_ticks' = g_ticks

Computes ==
  /\ Loc = "user" /\ Loc' = "user" /\ UserAt' \in UserPCs
  /\ s'.cause = s.cause /\ g_ticks' = g_ticks

Called ==
  /\ Loc = "user" /\ Loc' = "s_vec" /\ resume' = UserAt + 4
  /\ s'.cause = "ecall" /\ g_ticks' = g_ticks

Interrupted ==
  /\ Loc = "user" /\ Loc' = "s_vec" /\ resume' = UserAt
  /\ s'.cause = "soft" /\ g_ticks' = g_ticks

Faulted ==
  /\ Loc = "user" /\ Loc' = "s_vec"
  /\ s'.cause \in S_FAULTS /\ g_ticks' = g_ticks

Counts ==
  /\ Loc = "t_inc" /\ Loc' = "t_sip" /\ g_ticks' = g_ticks + 1
  /\ s'.cause = s.cause /\ resume' = resume

Moves ==
  \/ Quiet \/ Boots \/ Ends \/ Crashed \/ Switches \/ Arrives \/ Serves \/ Ticks
  \/ Dispatches \/ Loaded \/ Returned \/ Computes \/ Called \/ Interrupted
  \/ Faulted \/ Counts

\* scause is the cause of the visit in progress.
CauseInv ==
  /\ Loc \in BootLabels => s.cause = "none"
  /\ Loc \in Arriving => s.cause \in S_FAULTS \cup {"ecall", "soft"}
  /\ Loc \in Serving => s.cause = "ecall"
  /\ Loc \in TimerLabels => s.cause = "soft"
  /\ Loc \in SwitchLabels => s.cause \in {"none", "ecall", "soft"}

---------------------------------------------------------------------------

\* Every step of the kernel is one of the moves.
LEMMA StepMoves == IInv /\ Next => Moves
<1> SUFFICES ASSUME IInv, Next PROVE Moves OBVIOUS
<1> TypeOK BY DEF IInv
<1> USE DEF IInv, ModeInv, SuspendInv, BootInv, Booted, ResumeInv,
       SupervisorInv,
       SAt, Loc, UserAt, Leaving,
       TypeOK, MCsrs, SCsrs, Addr, Modes, Bit,
       At, Go, clint, locks, proc, K, U, CallHost,
       MBootLabels, MTrapLabels, SBootLabels, SwitchLabels, TimerLabels,
       HandlerLabels, PanicLabels, FsLabels, SLabels,
       BootCalls, SupervisorCalls, MAt, Before,
       Goes, BootLabels, Serving, Arriving
<1>1. CASE TakeTimer
  <2>1. Quiet
    BY <1>1, TimerTaken, MTrapFields DEF TakeTimer, Quiet
  <2> QED BY <2>1 DEF Moves
<1>2. CASE TakeSoft
  <2>1. Interrupted
    BY <1>2, SoftTaken, STrapFields DEF TakeSoft, Interrupted
  <2> QED BY <2>1 DEF Moves
<1>3. CASE MStart
  <2>1. Boots
    BY <1>3 DEF MStart, Boots
  <2> QED BY <2>1 DEF Moves
<1>4. CASE InitDtb
  <2>1. Boots
    BY <1>4 DEF InitDtb, Boots
  <2> QED BY <2>1 DEF Moves
<1>5. CASE MStartCsrs
  <2>1. Boots
    BY <1>5 DEF MStartCsrs, Boots
  <2> QED BY <2>1 DEF Moves
<1>6. CASE DelegateTraps
  <2>1. Boots
    BY <1>6 DEF DelegateTraps, Boots
  <2> QED BY <2>1 DEF Moves
<1>7. CASE EnableSie
  <2>1. Boots \/ Quiet
    BY <1>7, MTrapFields DEF EnableSie, Boots, Quiet, M_FAULTS
  <2> QED BY <2>1 DEF Moves
<1>8. CASE TimerinitCmp
  <2>1. Boots
    BY <1>8 DEF TimerinitCmp, Boots
  <2> QED BY <2>1 DEF Moves
<1>9. CASE TimerinitMie
  <2>1. Boots
    BY <1>9 DEF TimerinitMie, Boots
  <2> QED BY <2>1 DEF Moves
<1>10. CASE MStartMret
  <2>1. Boots
    BY <1>10, MretFields DEF MStartMret, Boots
  <2> QED BY <2>1 DEF Moves
<1>11. CASE MVec
  <2>1. Quiet
    BY <1>11 DEF MVec, Quiet
  <2> QED BY <2>1 DEF Moves
<1>12. CASE HandleMtrap
  <2>1. Quiet \/ Crashed
    BY <1>12 DEF HandleMtrap, Quiet, Crashed
  <2> QED BY <2>1 DEF Moves
<1>13. CASE HandleTimerCmp
  <2>1. Quiet
    BY <1>13 DEF HandleTimerCmp, Quiet
  <2> QED BY <2>1 DEF Moves
<1>14. CASE HandleTimerSip
  <2>1. Quiet
    BY <1>14 DEF HandleTimerSip, Quiet
  <2> QED BY <2>1 DEF Moves
<1>15. CASE MtrapvecMret
  <2>1. Quiet
    BY <1>15, MretFields DEF MtrapvecMret, Quiet
  <2> QED BY <2>1 DEF Moves
<1>16. CASE SpinlockLock
  <2>1. Quiet
    BY <1>16 DEF SpinlockLock, Quiet
  <2> QED BY <2>1 DEF Moves
<1>17. CASE HtifSyscall
  <2>1. Quiet
    BY <1>17 DEF HtifSyscall, Quiet
  <2> QED BY <2>1 DEF Moves
<1>18. CASE SpinlockUnlock
  <2>1. Quiet
    BY <1>18 DEF SpinlockUnlock, Quiet
  <2> QED BY <2>1 DEF Moves
<1>19. CASE Panic
  <2>1. Ends
    BY <1>19 DEF Panic, Ends
  <2> QED BY <2>1 DEF Moves
<1>20. CASE Die
  <2>1. Ends
    BY <1>20 DEF Die, Ends
  <2> QED BY <2>1 DEF Moves
<1>21. CASE ShutdownLoop
  <2>1. Quiet
    BY <1>21 DEF ShutdownLoop, Quiet, vars
  <2> QED BY <2>1 DEF Moves
<1>22. CASE SStart
  <2>1. Boots
    BY <1>22 DEF SStart, Boots
  <2> QED BY <2>1 DEF Moves
<1>23. CASE LoadUserProgram
  <2>1. Boots
    BY <1>23 DEF LoadUserProgram, Boots
  <2> QED BY <2>1 DEF Moves
<1>24. CASE LoadDone
  <2>1. Loaded \/ Boots
    BY <1>24 DEF LoadDone, Loaded, Boots
  <2> QED BY <2>1 DEF Moves
<1>25. CASE SStartSwitch
  <2>1. Boots
    BY <1>25 DEF SStartSwitch, Boots
  <2> QED BY <2>1 DEF Moves
<1>26. CASE SwitchCurrent
  <2>1. Switches
    BY <1>26 DEF SwitchCurrent, Switches
  <2> QED BY <2>1 DEF Moves
<1>27. CASE SwitchFrame
  <2>1. Switches
    BY <1>27 DEF SwitchFrame, Switches
  <2> QED BY <2>1 DEF Moves
<1>28. CASE SwitchStatus
  <2>1. Switches
    BY <1>28 DEF SwitchStatus, Switches
  <2> QED BY <2>1 DEF Moves
<1>29. CASE SwitchEpc
  <2>1. Switches
    BY <1>29 DEF SwitchEpc, Switches
  <2> QED BY <2>1 DEF Moves
<1>30. CASE ReturnToUser
  <2>1. Switches
    BY <1>30 DEF ReturnToUser, Switches
  <2> QED BY <2>1 DEF Moves
<1>31. CASE ReturnSret
  <2>1. Returned
    BY <1>31, SretFields DEF ReturnSret, Returned
  <2> QED BY <2>1 DEF Moves
<1>32. CASE UserStep
  <2>1. Computes
    BY <1>32 DEF UserStep, Computes
  <2> QED BY <2>1 DEF Moves
<1>33. CASE Ecall
  <2>1. Called
    BY <1>33, STrapFields DEF Ecall, Called
  <2> QED BY <2>1 DEF Moves
<1>34. CASE UserFault
  <2>1. Quiet \/ Faulted
    BY <1>34, MTrapFields, STrapFields DEF UserFault, Quiet, Faulted
  <2> QED BY <2>1 DEF Moves
<1>35. CASE SVec
  <2>1. Arrives
    BY <1>35, VectorReady DEF SVec, Arrives
  <2> QED BY <2>1 DEF Moves
<1>36. CASE SmodeTrapHandler
  <2>1. Arrives
    BY <1>36 DEF SmodeTrapHandler, Arrives
  <2> QED BY <2>1 DEF Moves
<1>37. CASE TrapCause
  <2>1. Dispatches
    BY <1>37 DEF TrapCause, Dispatches
  <2> QED BY <2>1 DEF Moves
<1>38. CASE HandleSyscall
  <2>1. Serves
    BY <1>38 DEF HandleSyscall, Serves, DoSyscall
  <2> QED BY <2>1 DEF Moves
<1>39. CASE SyscallReturn0
  <2>1. Serves
    BY <1>39 DEF SyscallReturn0, Serves
  <2> QED BY <2>1 DEF Moves
<1>40. CASE SysUserBacktrace
  <2>1. Serves
    BY <1>40 DEF SysUserBacktrace, Serves
  <2> QED BY <2>1 DEF Moves
<1>41. CASE MtimerPrint
  <2>1. Ticks
    BY <1>41 DEF MtimerPrint, Ticks
  <2> QED BY <2>1 DEF Moves
<1>42. CASE MtimerInc
  <2>1. Counts
    BY <1>42 DEF MtimerInc, Counts
  <2> QED BY <2>1 DEF Moves
<1>43. CASE MtimerClear
  <2>1. Ticks
    BY <1>43 DEF MtimerClear, Ticks
  <2> QED BY <2>1 DEF Moves
<1> QED
  BY <1>1, <1>2, <1>3, <1>4, <1>5, <1>6, <1>7, <1>8, <1>9, <1>10, <1>11,
     <1>12, <1>13, <1>14, <1>15, <1>16, <1>17, <1>18, <1>19, <1>20, <1>21,
     <1>22, <1>23, <1>24, <1>25, <1>26, <1>27, <1>28, <1>29, <1>30, <1>31,
     <1>32, <1>33, <1>34, <1>35, <1>36, <1>37, <1>38, <1>39, <1>40, <1>41,
     <1>42, <1>43
  DEF Next

---------------------------------------------------------------------------
(* What the application sees, as a function of Loc and scause.             *)

PhaseAt(loc, cause) ==
  IF loc \in PanicLabels \cup {"lost"} THEN "off"
  ELSE IF loc = "user" THEN "run"
  ELSE CASE cause \in S_FAULTS -> "off"
         [] cause = "soft" ->
              IF loc \in {"t_sip"} \cup SwitchLabels THEN "ticked" ELSE "tick"
         [] cause = "ecall" -> "call"
         [] OTHER -> "boot"

\* Inside frontend_syscall and machine-mode traps the phase depends on the
\* label below them alone.
LEMMA UserLoc == IInv => (SAt = "user" <=> Loc = "user")
  BY DEF IInv, ModeInv, SuspendInv, Loc, SAt, FsLabels, MTrapLabels,
       BootCalls, SupervisorCalls, PanicLabels

\* The phase at each kind of label, the cause being the one CauseInv gives.
LEMMA PhaseTable ==
  /\ \A l \in PanicLabels : \A c : PhaseAt(l, c) = "off"
  /\ \A c : PhaseAt("user", c) = "run"
  /\ \A l \in BootLabels \cup SwitchLabels : PhaseAt(l, "none") = "boot"
  /\ \A l \in Arriving, c \in S_FAULTS : PhaseAt(l, c) = "off"
  /\ \A l \in Arriving \cup Serving \cup SwitchLabels :
       PhaseAt(l, "ecall") = "call"
  /\ \A l \in Arriving \cup {"t_print", "t_inc"} : PhaseAt(l, "soft") = "tick"
  /\ \A l \in SwitchLabels \cup {"t_sip"} : PhaseAt(l, "soft") = "ticked"
<1> USE DEF PhaseAt, PanicLabels, BootLabels, MBootLabels, SBootLabels,
       SwitchLabels, Arriving, Serving, S_FAULTS
<1>1. \A l \in PanicLabels : \A c : PhaseAt(l, c) = "off"
  OBVIOUS
<1>2. \A c : PhaseAt("user", c) = "run"
  OBVIOUS
<1>3. \A l \in BootLabels \cup SwitchLabels : PhaseAt(l, "none") = "boot"
  OBVIOUS
<1>4. \A l \in Arriving, c \in S_FAULTS : PhaseAt(l, c) = "off"
  OBVIOUS
<1>5. \A l \in Arriving \cup Serving \cup SwitchLabels :
        PhaseAt(l, "ecall") = "call"
  OBVIOUS
<1>6. \A l \in Arriving \cup {"t_print", "t_inc"} : PhaseAt(l, "soft") = "tick"
  OBVIOUS
<1>7. \A l \in SwitchLabels \cup {"t_sip"} : PhaseAt(l, "soft") = "ticked"
  OBVIOUS
<1> QED BY <1>1, <1>2, <1>3, <1>4, <1>5, <1>6, <1>7

---------------------------------------------------------------------------
(* scause is the cause of the visit.                                       *)

\* Every move keeps it.
LEMMA CauseInvStep == CauseInv /\ Moves => CauseInv'
<1> SUFFICES ASSUME CauseInv, Moves PROVE CauseInv' OBVIOUS
<1> USE DEF CauseInv, Goes, BootLabels, MBootLabels, SBootLabels, PanicLabels,
       SwitchLabels, TimerLabels, Arriving, Serving
<1>1. CASE Quiet BY <1>1 DEF Quiet
<1>2. CASE Boots BY <1>2 DEF Boots
<1>3. CASE Ends BY <1>3 DEF Ends
<1>4. CASE Crashed BY <1>4 DEF Crashed
<1>5. CASE Switches BY <1>5 DEF Switches
<1>6. CASE Arrives BY <1>6 DEF Arrives
<1>7. CASE Serves BY <1>7 DEF Serves
<1>8. CASE Ticks BY <1>8 DEF Ticks
<1>9. CASE Dispatches BY <1>9 DEF Dispatches
<1>10. CASE Loaded BY <1>10 DEF Loaded
<1>11. CASE Returned BY <1>11 DEF Returned
<1>12. CASE Computes BY <1>12 DEF Computes
<1>13. CASE Called BY <1>13 DEF Called
<1>14. CASE Interrupted BY <1>14 DEF Interrupted
<1>15. CASE Faulted BY <1>15 DEF Faulted
<1>16. CASE Counts BY <1>16 DEF Counts
<1> QED
  BY <1>1, <1>2, <1>3, <1>4, <1>5, <1>6, <1>7, <1>8, <1>9, <1>10, <1>11,
     <1>12, <1>13, <1>14, <1>15, <1>16
  DEF Moves

\* It holds in every state the kernel reaches.
THEOREM CauseInvariant == Spec => []CauseInv
<1>1. Init => CauseInv
  BY DEF Init, CauseInv, Loc, SAt, K, BootLabels, MBootLabels, SBootLabels,
     MTrapLabels, FsLabels, Arriving, Serving, TimerLabels, SwitchLabels
<1>2. IInv /\ CauseInv /\ [Next]_vars => CauseInv'
  <2>1. CauseInv /\ UNCHANGED vars => CauseInv'
    BY DEF CauseInv, Loc, SAt, vars
  <2> QED BY <2>1, StepMoves, CauseInvStep
<1> QED BY <1>1, <1>2, Invariance, PTL DEF Spec

---------------------------------------------------------------------------
(* Every move is a step of AppView, or leaves what it shows unchanged.     *)

\* One case per move; the cases inside are those of the cause.
LEMMA MoveRefines ==
  IInv /\ IInv' /\ CauseInv /\ Moves => [AV!ANext]_(AV!avars)
<1> SUFFICES ASSUME IInv, IInv', CauseInv, Moves
             PROVE  AV!ANext \/ UNCHANGED AV!avars
  OBVIOUS
<1>1. Phase = PhaseAt(Loc, s.cause)
  BY UserLoc DEF Phase, PhaseAt
<1>2. Phase' = PhaseAt(Loc', s'.cause)
  <2>1. (SAt = "user" <=> Loc = "user")'
    BY DEF IInv, ModeInv, SuspendInv, Loc, SAt, FsLabels, MTrapLabels,
       BootCalls, SupervisorCalls, PanicLabels
  <2> QED BY <2>1 DEF Phase, PhaseAt
<1>3. AppPC = IF Phase = "off" THEN 0
              ELSE IF Phase = "run" THEN UserAt ELSE resume
  BY DEF AppPC, UserAt
<1>4. AppPC' = IF Phase' = "off" THEN 0
               ELSE IF Phase' = "run" THEN UserAt' ELSE resume'
  BY DEF AppPC, UserAt
<1> HIDE DEF UserAt
<1> USE <1>1, <1>2, <1>3, <1>4, PhaseTable DEF CauseInv
<1> DEFINE Same == Phase' = Phase /\ AppPC' = AppPC /\ g_ticks' = g_ticks
<1>5. Same => UNCHANGED AV!avars
  BY DEF AV!avars
<1>6. CASE Quiet
  <2>1. Phase' = Phase
    BY <1>6 DEF Quiet
  <2>2. Phase = "run" => Loc = "user"
    BY DEF PhaseAt
  <2>3. Loc = "user" => Phase = "run"
    OBVIOUS
  <2>4. AppPC' = AppPC
    BY <1>6, <2>1, <2>2, <2>3 DEF Quiet
  <2> QED BY <1>6, <2>1, <2>4, <1>5 DEF Quiet
<1>7. CASE Boots
  <2>1. Phase = "boot" /\ AppPC = resume
    BY <1>7 DEF Boots, Goes
  <2>2. CASE Loc' \in BootLabels \cup {"sw_current"}
    <3>1. Phase' = "boot" /\ AppPC' = resume'
      BY <1>7, <2>2 DEF Boots, Goes, SwitchLabels
    <3> QED BY <1>7, <2>1, <3>1, <1>5 DEF Boots, Goes
  <2>3. CASE Loc' \in {"die", "panic"}
    <3>1. Phase' = "off" /\ AppPC' = 0
      BY <2>3 DEF PanicLabels
    <3>2. AV!End
      BY <1>7, <2>1, <3>1 DEF AV!End, Boots, Goes
    <3> QED BY <3>2 DEF AV!ANext
  <2> QED BY <1>7, <2>2, <2>3 DEF Boots, Goes
<1>8. CASE Ends
  <2>1. Same
    BY <1>8 DEF Ends, Goes
  <2> QED BY <2>1, <1>5
<1>9. CASE Crashed
  <2>1. Phase \in {"run", "boot"}
    BY <1>9 DEF Crashed, Goes, BootLabels, MBootLabels
  <2>2. Phase' = "off" /\ AppPC' = 0
    BY <1>9 DEF Crashed, Goes, PanicLabels
  <2>3. AV!End
    BY <1>9, <2>1, <2>2 DEF AV!End, Crashed, Goes
  <2> QED BY <2>3 DEF AV!ANext
<1>10. CASE Switches
  <2>1. Same
    BY <1>10 DEF Switches, Goes
  <2> QED BY <2>1, <1>5
<1>11. CASE Arrives
  <2>1. Same
    BY <1>11 DEF Arrives, Goes
  <2> QED BY <2>1, <1>5
<1>12. CASE Serves
  <2>1. Phase = "call" /\ AppPC = resume
    BY <1>12 DEF Serves, Goes
  <2>2. CASE Loc' \in Serving \cup {"sw_current"}
    <3>1. Phase' = "call" /\ AppPC' = resume'
      BY <1>12, <2>2 DEF Serves, Goes, SwitchLabels
    <3> QED BY <1>12, <2>1, <3>1, <1>5 DEF Serves, Goes
  <2>3. CASE Loc' \in {"shutdown", "panic"}
    <3>1. Phase' = "off" /\ AppPC' = 0
      BY <2>3 DEF PanicLabels
    <3>2. AV!End
      BY <1>12, <2>1, <3>1 DEF AV!End, Serves, Goes
    <3> QED BY <3>2 DEF AV!ANext
  <2> QED BY <1>12, <2>2, <2>3 DEF Serves, Goes
<1>13. CASE Ticks
  <2>1. Same
    BY <1>13 DEF Ticks, Goes, TimerLabels, SwitchLabels
  <2> QED BY <2>1, <1>5
<1>14. CASE Dispatches
  <2>1. Same
    BY <1>14 DEF Dispatches, Goes, Arriving, Serving, PanicLabels
  <2> QED BY <2>1, <1>5
<1>15. CASE Loaded
  <2>1. Phase = "boot" /\ Phase' = "boot" /\ AppPC' = resume'
    BY <1>15 DEF Loaded, BootLabels, SBootLabels
  <2>2. AV!Load
    BY <1>15, <2>1 DEF AV!Load, Loaded
  <2> QED BY <2>2 DEF AV!ANext
<1>16. CASE Returned
  <2>1. Phase \in {"boot", "ticked", "call"} /\ AppPC = resume
    BY <1>16 DEF Returned, SwitchLabels
  <2>2. Phase' = "run" /\ AppPC' = UserAt'
    BY <1>16 DEF Returned
  <2>3. AV!Resume
    BY <1>16, <2>1, <2>2 DEF AV!Resume, Returned
  <2> QED BY <2>3 DEF AV!ANext
<1>17. CASE Computes
  <2>1. AV!Compute
    BY <1>17 DEF AV!Compute, Computes
  <2> QED BY <2>1 DEF AV!ANext
<1>18. CASE Called
  <2>1. Phase = "run" /\ AppPC = UserAt
    BY <1>18 DEF Called
  <2>2. Phase' = "call" /\ AppPC' = resume'
    BY <1>18 DEF Called, Arriving
  <2>3. AV!Syscall
    BY <1>18, <2>1, <2>2 DEF AV!Syscall, Called
  <2> QED BY <2>3 DEF AV!ANext
<1>19. CASE Interrupted
  <2>1. Phase = "run" /\ AppPC = UserAt
    BY <1>19 DEF Interrupted
  <2>2. Phase' = "tick" /\ AppPC' = resume'
    BY <1>19 DEF Interrupted, Arriving
  <2>3. AV!Tick
    BY <1>19, <2>1, <2>2 DEF AV!Tick, Interrupted
  <2> QED BY <2>3 DEF AV!ANext
<1>20. CASE Faulted
  <2>1. Phase = "run"
    BY <1>20 DEF Faulted
  <2>2. Phase' = "off" /\ AppPC' = 0
    BY <1>20 DEF Faulted, Arriving
  <2>3. AV!End
    BY <1>20, <2>1, <2>2 DEF AV!End, Faulted
  <2> QED BY <2>3 DEF AV!ANext
<1>21. CASE Counts
  <2>1. Phase = "tick" /\ AppPC = resume
    BY <1>21 DEF Counts, TimerLabels
  <2>2. Phase' = "ticked" /\ AppPC' = resume'
    BY <1>21 DEF Counts, TimerLabels
  <2>3. AV!Count
    BY <1>21, <2>1, <2>2 DEF AV!Count, Counts
  <2> QED BY <2>3 DEF AV!ANext
<1> QED
  BY <1>6, <1>7, <1>8, <1>9, <1>10, <1>11, <1>12, <1>13, <1>14, <1>15, <1>16,
     <1>17, <1>18, <1>19, <1>20, <1>21
  DEF Moves

\* For the application the kernel is AppView, whatever the interval, the
\* application and the bounds: a tick is counted exactly once and changes
\* nothing else, a syscall continues one instruction further or ends the run,
\* and machine-mode traps, the host's calls and switch_to show nowhere.
THEOREM KernelImplementsAppView == Spec => ImplementsAppView
<1>1. Init => AV!AInit
  <2> SUFFICES ASSUME Init PROVE AV!AInit
    OBVIOUS
  <2>1. Loc = "m_start" /\ SAt = "m_start" /\ s.cause = "none"
    BY DEF Init, Loc, SAt, K, MTrapLabels, FsLabels
  <2>2. Phase = "boot"
    BY <2>1 DEF Phase, PanicLabels, S_FAULTS
  <2>3. AppPC = 0
    BY <2>2 DEF AppPC, Init
  <2> QED BY <2>2, <2>3 DEF AV!AInit, Init
<1>2. IInv /\ IInv' /\ CauseInv /\ [Next]_vars => [AV!ANext]_(AV!avars)
  <2>1. UNCHANGED vars => UNCHANGED AV!avars
    BY DEF vars, AV!avars, Phase, AppPC, Loc, SAt
  <2> QED BY <2>1, StepMoves, MoveRefines
<1> QED BY <1>1, <1>2, Invariance, CauseInvariant, PTL
        DEF Spec, ImplementsAppView, AV!ASpec

=============================================================================
