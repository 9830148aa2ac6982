------------------------- MODULE TrapContextProofs -------------------------
(***************************************************************************)
(* The safety properties of module TrapContext, for any number of traps    *)
(* and timer interrupts and any values in the registers.                   *)
(*                                                                         *)
(* The invariant follows the registers through the three code sequences,   *)
(* instruction by instruction.  A timer interrupt suspends the supervisor  *)
(* or the application at mepc with the registers mctx, so what is true of  *)
(* them is stated of Spc and Sreg, which look through mtrapvec; t6 is left *)
(* out, since mtrapvec does not bring it back.                             *)
(***************************************************************************)
EXTENDS TrapContext, SequenceTheorems, TLAPS

Names == {"svec", "ret", "mvec", "handler", "user", "lost"}
Length(c) == IF c = "svec" THEN 38 ELSE IF c = "ret" THEN 34
             ELSE IF c = "mvec" THEN 71 ELSE 1

Slots == 1..31

\* Where the supervisor or the application is, and its registers.
Spc == IF pc.at = "mvec" THEN mepc ELSE pc
Sreg == IF pc.at = "mvec" THEN mctx ELSE regs

TypeInv ==
  /\ pc \in [at : Names, i : Nat] /\ mepc \in [at : Names, i : Nat]
  /\ pc.i >= 1 /\ pc.i <= Length(pc.at)
  /\ mepc.i >= 1 /\ mepc.i <= Length(mepc.at)
  /\ mepc.at # "mvec" /\ Spc.at # "lost"
  /\ DOMAIN regs = Regs
  /\ DOMAIN mem = Frames /\ \A f \in Frames : DOMAIN mem[f] = 1..KTrap
  /\ DOMAIN csr = {"sscratch", "mscratch"}
  /\ traps \in Nat /\ timers \in Nat

\* mtrapvec: what it has saved in g_itrframe, and what it has brought back.
MachineInv ==
  /\ pc.at # "mvec" => csr["mscratch"] = Kernel("itr")
  /\ pc.at = "mvec" =>
       /\ pc.i = 1 \/ pc.i >= 38 => csr["mscratch"] = Kernel("itr")
       /\ pc.i = 1 => \A r \in Regs : regs[r] = mctx[r]
       /\ pc.i \in 2..33 => \A r \in Regs \ {"a0", "t6"} : regs[r] = mctx[r]
       /\ pc.i \in 2..34 => csr["mscratch"] = mctx["a0"]
       /\ pc.i \in 2..37 => regs["a0"] = Kernel("itr")
       /\ pc.i \in 3..33 \/ pc.i \in 40..70 => regs["t6"] = Kernel("itr")
       /\ pc.i \in 3..35 =>
            \A n \in Slots : n < pc.i - 2 /\ RegFile[n] \notin {"a0", "t6"} =>
              mem["itr"][n] = mctx[RegFile[n]]
       /\ pc.i = 35 => regs["t0"] = mctx["a0"]
       /\ pc.i >= 36 =>
            \A n \in Slots : RegFile[n] # "t6" => mem["itr"][n] = mctx[RegFile[n]]
       /\ pc.i >= 40 =>
            \A n \in Slots : n < pc.i - 39 /\ RegFile[n] # "t6" =>
              regs[RegFile[n]] = mctx[RegFile[n]]

\* The trapframe's address and what leads from it to the handler: true with or
\* without an interrupt in a macro.
EntryInv ==
  /\ mem["tf"][KSp] = Kernel("kstack")
  /\ mem["tf"][KTrap] = Kernel("smode_trap_handler")
  /\ Spc.at = "user" => csr["sscratch"] = Kernel("tf")
  /\ Spc.at = "svec" /\ Spc.i = 1 => csr["sscratch"] = Kernel("tf")
  /\ Spc.at = "ret" /\ Spc.i >= 2 => csr["sscratch"] = Kernel("tf")
  /\ Spc.at = "svec" /\ Spc.i >= 2 => Sreg["a0"] = Kernel("tf")
  /\ Spc.at = "ret" /\ Spc.i <= 2 => Sreg["a0"] = Kernel("tf")
  /\ Spc.at = "svec" /\ Spc.i >= 37 => Sreg["sp"] = Kernel("kstack")
  /\ Spc.at = "handler" => Sreg["sp"] = Kernel("kstack")
  /\ Spc.at = "svec" /\ Spc.i = 38 => Sreg["t0"] = Kernel("smode_trap_handler")

\* The vector: the application's registers move into the trapframe.
SaveInv ==
  /\ Spc.at \in {"svec", "handler"} => traps > 0
  /\ Spc.at = "svec" =>
       /\ Spc.i = 1 => \A r \in Regs \ {"t6"} : Sreg[r] = ctx[r]
       /\ Spc.i \in 2..33 => \A r \in Regs \ {"a0", "t6"} : Sreg[r] = ctx[r]
       /\ Spc.i \in 2..34 => csr["sscratch"] = ctx["a0"]
       /\ Spc.i = 35 => Sreg["t0"] = ctx["a0"]
       /\ ~hit /\ Spc.i \in 3..33 => pc.at = "svec" /\ regs["t6"] = Kernel("tf")
       /\ ~hit /\ Spc.i \in 3..35 =>
            \A n \in Slots : n < Spc.i - 2 /\ RegFile[n] \notin {"a0", "t6"} =>
              mem["tf"][n] = ctx[RegFile[n]]
  /\ ~hit /\ (Spc.at = "handler" \/ (Spc.at = "svec" /\ Spc.i >= 36)) =>
       \A n \in Slots : RegFile[n] # "t6" => mem["tf"][n] = ctx[RegFile[n]]

\* return_to_user: they move back, with the syscall's result.
RestoreInv ==
  ~hit /\ Spc.at = "ret" =>
    /\ Spc.i \in 3..33 => pc.at = "ret" /\ regs["t6"] = Kernel("tf")
    /\ \A n \in Slots : RegFile[n] # "t6" =>
         mem["tf"][n] = Expected(RegFile[n])
    /\ Spc.i >= 3 =>
         \A n \in Slots : n < Spc.i - 2 /\ RegFile[n] # "t6" =>
           Sreg[RegFile[n]] = Expected(RegFile[n])

\* The inductive invariant.
CInv == TypeInv /\ MachineInv /\ EntryInv /\ SaveInv /\ RestoreInv

---------------------------------------------------------------------------
(* The code, instruction by instruction.                                   *)

\* Positions in a concatenation.
LEMMA Concat ==
  ASSUME NEW S, NEW p \in Seq(S), NEW q \in Seq(S)
  PROVE  /\ p \o q \in Seq(S) /\ Len(p \o q) = Len(p) + Len(q)
         /\ \A n \in 1..Len(p) : (p \o q)[n] = p[n]
         /\ \A n \in 1..Len(q) : (p \o q)[Len(p) + n] = q[n]
  OBVIOUS

\* Thirty-one registers, each with a slot of its own.
LEMMA NRegsIs == NRegs = 31 /\ KTrap = 33 /\ KSp = 32 /\ A0 = 10
  BY DEF NRegs, RegFile, KTrap, KSp, A0

Slot(r) ==
  IF r = "ra" THEN 1 ELSE IF r = "sp" THEN 2 ELSE IF r = "gp" THEN 3
  ELSE IF r = "tp" THEN 4 ELSE IF r = "t0" THEN 5 ELSE IF r = "t1" THEN 6
  ELSE IF r = "t2" THEN 7 ELSE IF r = "s0" THEN 8 ELSE IF r = "s1" THEN 9
  ELSE IF r = "a0" THEN 10 ELSE IF r = "a1" THEN 11 ELSE IF r = "a2" THEN 12
  ELSE IF r = "a3" THEN 13 ELSE IF r = "a4" THEN 14 ELSE IF r = "a5" THEN 15
  ELSE IF r = "a6" THEN 16 ELSE IF r = "a7" THEN 17 ELSE IF r = "s2" THEN 18
  ELSE IF r = "s3" THEN 19 ELSE IF r = "s4" THEN 20 ELSE IF r = "s5" THEN 21
  ELSE IF r = "s6" THEN 22 ELSE IF r = "s7" THEN 23 ELSE IF r = "s8" THEN 24
  ELSE IF r = "s9" THEN 25 ELSE IF r = "s10" THEN 26 ELSE IF r = "s11" THEN 27
  ELSE IF r = "t3" THEN 28 ELSE IF r = "t4" THEN 29 ELSE IF r = "t5" THEN 30
  ELSE 31

LEMMA SlotOf == \A n \in Slots : Slot(RegFile[n]) = n
  BY DEF Slots, Slot, RegFile

\* The instructions of the three sequences.
Instr ==
  {Sd(RegFile[n], n, "t6") : n \in Slots} \cup {Ld(RegFile[n], n, "t6") : n \in Slots}
    \cup {Csrrw("a0", "sscratch"), Csrrw("a0", "mscratch"), Mv("t6", "a0"),
          Csrr("t0", "sscratch"), Csrr("t0", "mscratch"), Csrr("t6", "mscratch"),
          Csrw("sscratch", "a0"), Csrw("mscratch", "a0"), Sd("t0", A0, "a0"),
          Ld("sp", KSp, "a0"), Ld("t0", KTrap, "a0"), Other("jr"),
          Other("stack0"), Other("handle_mtrap"), Other("mret"), Other("sret")}

\* The two macros.
LEMMA Macros ==
  /\ store_all_registers \in Seq(Instr) /\ Len(store_all_registers) = 31
  /\ restore_all_registers \in Seq(Instr) /\ Len(restore_all_registers) = 31
  /\ \A n \in Slots : /\ store_all_registers[n] = Sd(RegFile[n], n, "t6")
                      /\ restore_all_registers[n] = Ld(RegFile[n], n, "t6")
<1>1. NRegs = 31
  BY NRegsIs
<1>2. store_all_registers \in [1..31 -> Instr]
      /\ restore_all_registers \in [1..31 -> Instr]
  BY <1>1 DEF store_all_registers, restore_all_registers, Instr, Slots
<1>3. \A f \in [1..31 -> Instr] : f \in Seq(Instr) /\ Len(f) = 31
  <2> SUFFICES ASSUME NEW f \in [1..31 -> Instr]
               PROVE  f \in Seq(Instr) /\ Len(f) = 31
    OBVIOUS
  <2>1. f \in Seq(Instr)
    BY SeqDef
  <2>2. Len(f) \in Nat /\ DOMAIN f = 1..Len(f)
    BY <2>1, LenProperties
  <2>3. 1..Len(f) = 1..31
    BY <2>2
  <2> QED BY <2>1, <2>2, <2>3
<1>4. \A n \in Slots : /\ store_all_registers[n] = Sd(RegFile[n], n, "t6")
                       /\ restore_all_registers[n] = Ld(RegFile[n], n, "t6")
  BY <1>1 DEF store_all_registers, restore_all_registers, Slots
<1> QED BY <1>2, <1>3, <1>4

\* smode_trap_vector.
LEMMA SvecCode ==
  /\ smode_trap_vector[1] = Csrrw("a0", "sscratch")
  /\ smode_trap_vector[2] = Mv("t6", "a0")
  /\ \A n \in Slots : smode_trap_vector[n + 2] = Sd(RegFile[n], n, "t6")
  /\ smode_trap_vector[34] = Csrr("t0", "sscratch")
  /\ smode_trap_vector[35] = Sd("t0", 10, "a0")
  /\ smode_trap_vector[36] = Ld("sp", 32, "a0")
  /\ smode_trap_vector[37] = Ld("t0", 33, "a0")
  /\ smode_trap_vector[38] = Other("jr")
<1> DEFINE p == <<Csrrw("a0", "sscratch"), Mv("t6", "a0")>>
           q == store_all_registers
           e == <<Ld("sp", KSp, "a0"), Ld("t0", KTrap, "a0"), Other("jr")>>
<1>1. p \in Seq(Instr) /\ SaveA0 \in Seq(Instr) /\ e \in Seq(Instr)
      /\ q \in Seq(Instr)
  BY Macros DEF SaveA0, Instr
<1>2. /\ Len(p) = 2 /\ p[1] = Csrrw("a0", "sscratch") /\ p[2] = Mv("t6", "a0")
      /\ Len(SaveA0) = 2 /\ SaveA0[1] = Csrr("t0", "sscratch")
      /\ SaveA0[2] = Sd("t0", 10, "a0")
      /\ Len(e) = 3 /\ e[1] = Ld("sp", 32, "a0") /\ e[2] = Ld("t0", 33, "a0")
      /\ e[3] = Other("jr")
  BY NRegsIs DEF SaveA0
<1>3. Len(q) = 31 /\ \A n \in 1..31 : q[n] = Sd(RegFile[n], n, "t6")
  BY Macros DEF Slots
<1>4. smode_trap_vector = ((p \o q) \o SaveA0) \o e
  BY DEF smode_trap_vector
<1> HIDE DEF p, q, e
<1> DEFINE pq == p \o q
           pqs == pq \o SaveA0
           all == pqs \o e
<1>5. /\ Len(pq) = 33
      /\ pq[1] = p[1] /\ pq[2] = p[2]
      /\ \A n \in 1..31 : pq[2 + n] = q[n]
  <2>1. /\ Len(pq) = Len(p) + Len(q)
        /\ \A n \in 1..Len(p) : pq[n] = p[n]
        /\ \A n \in 1..Len(q) : pq[Len(p) + n] = q[n]
    BY <1>1
  <2> HIDE DEF pq
  <2> QED BY <2>1, <1>2, <1>3
<1>6. pq \in Seq(Instr)
  BY <1>1
<1> HIDE DEF pq
<1>7. /\ Len(pqs) = 35
      /\ \A n \in 1..33 : pqs[n] = pq[n]
      /\ pqs[34] = SaveA0[1] /\ pqs[35] = SaveA0[2]
  <2>1. /\ Len(pqs) = Len(pq) + Len(SaveA0)
        /\ \A n \in 1..Len(pq) : pqs[n] = pq[n]
        /\ \A n \in 1..Len(SaveA0) : pqs[Len(pq) + n] = SaveA0[n]
    BY <1>1, <1>6
  <2> HIDE DEF pqs
  <2> QED BY <2>1, <1>2, <1>5
<1>8. pqs \in Seq(Instr)
  BY <1>1, <1>6
<1> HIDE DEF pqs
<1>9. /\ \A n \in 1..35 : all[n] = pqs[n]
      /\ all[36] = e[1] /\ all[37] = e[2] /\ all[38] = e[3]
  <2>1. /\ \A n \in 1..Len(pqs) : all[n] = pqs[n]
        /\ \A n \in 1..Len(e) : all[Len(pqs) + n] = e[n]
    BY <1>1, <1>8
  <2> HIDE DEF all
  <2> QED BY <2>1, <1>2, <1>7
<1>10. smode_trap_vector = all
  BY <1>4 DEF pqs, pq
<1> HIDE DEF all
<1>11. \A n \in Slots : all[n + 2] = Sd(RegFile[n], n, "t6")
  <2> SUFFICES ASSUME NEW n \in 1..31
               PROVE  all[n + 2] = Sd(RegFile[n], n, "t6")
    BY DEF Slots
  <2>1. n + 2 \in 1..33 /\ n + 2 \in 1..35 /\ n + 2 = 2 + n
    OBVIOUS
  <2> QED BY <1>5, <1>7, <1>9, <1>3, <2>1
<1>12. /\ all[1] = p[1] /\ all[2] = p[2]
       /\ all[34] = SaveA0[1] /\ all[35] = SaveA0[2]
  BY <1>5, <1>7, <1>9
<1> QED
  BY <1>2, <1>9, <1>10, <1>11, <1>12

\* return_to_user.
LEMMA RetCode ==
  /\ return_to_user[1] = Csrw("sscratch", "a0")
  /\ return_to_user[2] = Mv("t6", "a0")
  /\ \A n \in Slots : return_to_user[n + 2] = Ld(RegFile[n], n, "t6")
  /\ return_to_user[34] = Other("sret")
<1> DEFINE p == SetScratch \o <<Mv("t6", "a0")>>
           q == restore_all_registers
<1>1. p \in Seq(Instr) /\ q \in Seq(Instr) /\ ToUser \in Seq(Instr)
  BY Macros DEF SetScratch, ToUser, Instr
<1>2. /\ Len(p) = 2 /\ p[1] = Csrw("sscratch", "a0") /\ p[2] = Mv("t6", "a0")
      /\ Len(ToUser) = 1 /\ ToUser[1] = Other("sret")
  BY DEF SetScratch, ToUser
<1>3. Len(q) = 31 /\ \A n \in 1..31 : q[n] = Ld(RegFile[n], n, "t6")
  BY Macros DEF Slots
<1>4. return_to_user = (p \o q) \o ToUser
  BY DEF return_to_user
<1> HIDE DEF p, q
<1> DEFINE pq == p \o q
           all == pq \o ToUser
<1>5. /\ Len(pq) = 33
      /\ pq[1] = p[1] /\ pq[2] = p[2]
      /\ \A n \in 1..31 : pq[2 + n] = q[n]
  <2>1. /\ Len(pq) = Len(p) + Len(q)
        /\ \A n \in 1..Len(p) : pq[n] = p[n]
        /\ \A n \in 1..Len(q) : pq[Len(p) + n] = q[n]
    BY <1>1
  <2> HIDE DEF pq
  <2> QED BY <2>1, <1>2, <1>3
<1>6. pq \in Seq(Instr)
  BY <1>1
<1> HIDE DEF pq
<1>7. /\ \A n \in 1..33 : all[n] = pq[n]
      /\ all[34] = ToUser[1]
  <2>1. /\ \A n \in 1..Len(pq) : all[n] = pq[n]
        /\ \A n \in 1..Len(ToUser) : all[Len(pq) + n] = ToUser[n]
    BY <1>1, <1>6
  <2> HIDE DEF all
  <2> QED BY <2>1, <1>2, <1>5
<1>8. return_to_user = all
  BY <1>4 DEF pq
<1> HIDE DEF all
<1>9. \A n \in Slots : all[n + 2] = Ld(RegFile[n], n, "t6")
  <2> SUFFICES ASSUME NEW n \in 1..31
               PROVE  all[n + 2] = Ld(RegFile[n], n, "t6")
    BY DEF Slots
  <2>1. n + 2 \in 1..33 /\ n + 2 = 2 + n
    OBVIOUS
  <2> QED BY <1>5, <1>7, <1>3, <2>1
<1>10. all[1] = p[1] /\ all[2] = p[2]
  BY <1>5, <1>7
<1> QED BY <1>2, <1>7, <1>8, <1>9, <1>10

\* mtrapvec.
LEMMA MvecCode ==
  /\ mtrapvec[1] = Csrrw("a0", "mscratch")
  /\ mtrapvec[2] = Mv("t6", "a0")
  /\ \A n \in Slots : mtrapvec[n + 2] = Sd(RegFile[n], n, "t6")
  /\ mtrapvec[34] = Csrr("t0", "mscratch")
  /\ mtrapvec[35] = Sd("t0", 10, "a0")
  /\ mtrapvec[36] = Other("stack0")
  /\ mtrapvec[37] = Csrw("mscratch", "a0")
  /\ mtrapvec[38] = Other("handle_mtrap")
  /\ mtrapvec[39] = Csrr("t6", "mscratch")
  /\ \A n \in Slots : mtrapvec[n + 39] = Ld(RegFile[n], n, "t6")
  /\ mtrapvec[71] = Other("mret")
<1> DEFINE p == EnterM \o <<Mv("t6", "a0")>>
           q == store_all_registers
           c == <<Csrr("t0", "mscratch"), Sd("t0", A0, "a0"), Other("stack0"),
                  Csrw("mscratch", "a0"), Other("handle_mtrap"),
                  Csrr("t6", "mscratch")>>
           d == restore_all_registers
           e == <<Other("mret")>>
<1>1. /\ p \in Seq(Instr) /\ q \in Seq(Instr) /\ c \in Seq(Instr)
      /\ d \in Seq(Instr) /\ e \in Seq(Instr)
  BY Macros DEF EnterM, Instr
<1>2. /\ Len(p) = 2 /\ p[1] = Csrrw("a0", "mscratch") /\ p[2] = Mv("t6", "a0")
      /\ Len(e) = 1 /\ e[1] = Other("mret")
  BY DEF EnterM
<1>3. /\ Len(c) = 6 /\ c[1] = Csrr("t0", "mscratch") /\ c[2] = Sd("t0", 10, "a0")
      /\ c[3] = Other("stack0") /\ c[4] = Csrw("mscratch", "a0")
      /\ c[5] = Other("handle_mtrap") /\ c[6] = Csrr("t6", "mscratch")
  BY NRegsIs
<1>4. /\ Len(q) = 31 /\ \A n \in 1..31 : q[n] = Sd(RegFile[n], n, "t6")
      /\ Len(d) = 31 /\ \A n \in 1..31 : d[n] = Ld(RegFile[n], n, "t6")
  BY Macros DEF Slots
<1>5. mtrapvec = (((p \o q) \o c) \o d) \o e
  BY DEF mtrapvec
<1> HIDE DEF p, q, c, d, e
<1> DEFINE pq == p \o q
           pqc == pq \o c
           pqd == pqc \o d
           all == pqd \o e
<1>6. /\ Len(pq) = 33
      /\ pq[1] = p[1] /\ pq[2] = p[2]
      /\ \A n \in 1..31 : pq[2 + n] = q[n]
  <2>1. /\ Len(pq) = Len(p) + Len(q)
        /\ \A n \in 1..Len(p) : pq[n] = p[n]
        /\ \A n \in 1..Len(q) : pq[Len(p) + n] = q[n]
    BY <1>1
  <2> HIDE DEF pq
  <2> QED BY <2>1, <1>2, <1>4
<1>7. pq \in Seq(Instr)
  BY <1>1
<1> HIDE DEF pq
<1>8. /\ Len(pqc) = 39
      /\ \A n \in 1..33 : pqc[n] = pq[n]
      /\ \A n \in 1..6 : pqc[33 + n] = c[n]
  <2>1. /\ Len(pqc) = Len(pq) + Len(c)
        /\ \A n \in 1..Len(pq) : pqc[n] = pq[n]
        /\ \A n \in 1..Len(c) : pqc[Len(pq) + n] = c[n]
    BY <1>1, <1>7
  <2> HIDE DEF pqc
  <2> QED BY <2>1, <1>3, <1>6
<1>9. pqc \in Seq(Instr)
  BY <1>1, <1>7
<1> HIDE DEF pqc
<1>10. /\ Len(pqd) = 70
       /\ \A n \in 1..39 : pqd[n] = pqc[n]
       /\ \A n \in 1..31 : pqd[39 + n] = d[n]
  <2>1. /\ Len(pqd) = Len(pqc) + Len(d)
        /\ \A n \in 1..Len(pqc) : pqd[n] = pqc[n]
        /\ \A n \in 1..Len(d) : pqd[Len(pqc) + n] = d[n]
    BY <1>1, <1>9
  <2> HIDE DEF pqd
  <2> QED BY <2>1, <1>4, <1>8
<1>11. pqd \in Seq(Instr)
  BY <1>1, <1>9
<1> HIDE DEF pqd
<1>12. /\ \A n \in 1..70 : all[n] = pqd[n]
       /\ all[71] = e[1]
  <2>1. /\ \A n \in 1..Len(pqd) : all[n] = pqd[n]
        /\ \A n \in 1..Len(e) : all[Len(pqd) + n] = e[n]
    BY <1>1, <1>11
  <2> HIDE DEF all
  <2> QED BY <2>1, <1>2, <1>10
<1>13. mtrapvec = all
  BY <1>5 DEF pqd, pqc, pq
<1> HIDE DEF all
<1>14. \A n \in Slots : all[n + 2] = Sd(RegFile[n], n, "t6")
  <2> SUFFICES ASSUME NEW n \in 1..31
               PROVE  all[n + 2] = Sd(RegFile[n], n, "t6")
    BY DEF Slots
  <2>1. n + 2 \in 1..33 /\ n + 2 \in 1..39 /\ n + 2 \in 1..70 /\ n + 2 = 2 + n
    OBVIOUS
  <2> QED BY <1>4, <1>6, <1>8, <1>10, <1>12, <2>1
<1>15. \A n \in Slots : all[n + 39] = Ld(RegFile[n], n, "t6")
  <2> SUFFICES ASSUME NEW n \in 1..31
               PROVE  all[n + 39] = Ld(RegFile[n], n, "t6")
    BY DEF Slots
  <2>1. n + 39 \in 1..70 /\ n + 39 = 39 + n
    OBVIOUS
  <2> QED BY <1>4, <1>10, <1>12, <2>1
<1>16. /\ all[1] = p[1] /\ all[2] = p[2]
       /\ all[34] = c[1] /\ all[35] = c[2] /\ all[36] = c[3]
       /\ all[37] = c[4] /\ all[38] = c[5] /\ all[39] = c[6]
  BY <1>6, <1>8, <1>10, <1>12
<1> QED BY <1>2, <1>3, <1>12, <1>13, <1>14, <1>15, <1>16

---------------------------------------------------------------------------
(* What one step does, by the place in the code.                           *)

\* The instruction that pc is at.
LEMMA Fetch ==
  ASSUME TypeInv
  PROVE  /\ pc.at = "svec" => Here = smode_trap_vector[pc.i] /\ pc.i \in 1..38
         /\ pc.at = "ret" => Here = return_to_user[pc.i] /\ pc.i \in 1..34
         /\ pc.at = "mvec" => Here = mtrapvec[pc.i] /\ pc.i \in 1..71
<1>1. /\ Code["svec"] = smode_trap_vector
      /\ Code["ret"] = return_to_user
      /\ Code["mvec"] = mtrapvec
  BY DEF Code
<1>2. /\ pc.at = "svec" => Here = smode_trap_vector[pc.i]
      /\ pc.at = "ret" => Here = return_to_user[pc.i]
      /\ pc.at = "mvec" => Here = mtrapvec[pc.i]
  BY <1>1 DEF Here
<1>3. pc.i \in Nat /\ pc.i >= 1 /\ pc.i <= Length(pc.at)
  BY DEF TypeInv
<1>4. /\ pc.at = "svec" => pc.i \in 1..38
      /\ pc.at = "ret" => pc.i \in 1..34
      /\ pc.at = "mvec" => pc.i \in 1..71
  BY <1>3 DEF Length
<1> QED BY <1>2, <1>4

\* The operation of the instruction decides the action.
LEMMA Decode ==
  Next =>
    \/ TimerInterrupt
    \/ Here.op = "csrrw" /\ SwapCsr
    \/ Here.op = "csrr" /\ ReadCsr
    \/ Here.op = "csrw" /\ WriteCsr
    \/ Here.op = "addi" /\ Move
    \/ Here.op = "sd" /\ Store
    \/ Here.op = "ld" /\ Load
    \/ Here.op = "jr" /\ JumpT0
    \/ Here.op = "stack0" /\ Stack0
    \/ Here.op = "handle_mtrap" /\ HandleMtrap
    \/ Here.op = "sret" /\ Sret
    \/ Here.op = "mret" /\ Mret
    \/ Here.op = "handler" /\ Handler
    \/ Here.op = "user" /\ (UserRun \/ UserTrap)
  BY DEF Next, At, SwapCsr, ReadCsr, WriteCsr, Move, Store, Load, JumpT0, Stack0,
     HandleMtrap, Sret, Mret, Handler, UserRun, UserTrap

\* On to the next instruction.
Onward == pc' = [at |-> pc.at, i |-> pc.i + 1] /\ UNCHANGED <<mepc, past>>

\* The instructions, as steps.
Swaps(r, c) == /\ regs' = [regs EXCEPT ![r] = csr[c]]
               /\ csr' = [csr EXCEPT ![c] = regs[r]]
               /\ UNCHANGED mem /\ Onward
Reads(r, c) == regs' = [regs EXCEPT ![r] = csr[c]] /\ UNCHANGED <<mem, csr>> /\ Onward
Writes(c, r) == csr' = [csr EXCEPT ![c] = regs[r]] /\ UNCHANGED <<mem, regs>> /\ Onward
Copies(r, b) == regs' = [regs EXCEPT ![r] = regs[b]] /\ UNCHANGED <<mem, csr>> /\ Onward
Stores(r, n, b) ==
  /\ \E f \in Frames : /\ regs[b] = Kernel(f)
                       /\ mem' = [mem EXCEPT ![f][n] = regs[r]]
  /\ UNCHANGED <<regs, csr>> /\ Onward
Loads(r, n, b) ==
  /\ \E f \in Frames : /\ regs[b] = Kernel(f)
                       /\ regs' = [regs EXCEPT ![r] = mem[f][n]]
  /\ UNCHANGED <<mem, csr>> /\ Onward

LEMMA Execute ==
  ASSUME TypeInv, Next, ~TimerInterrupt
  PROVE  /\ \A r, c : Here = Csrrw(r, c) => Swaps(r, c)
         /\ \A r, c : Here = Csrr(r, c) => Reads(r, c)
         /\ \A r, c : Here = Csrw(c, r) => Writes(c, r)
         /\ \A r, b : Here = Mv(r, b) => Copies(r, b)
         /\ \A r, b, n : Here = Sd(r, n, b) => Stores(r, n, b)
         /\ \A r, b, n : Here = Ld(r, n, b) => Loads(r, n, b)
<1>1. Step => pc' = [at |-> pc.at, i |-> pc.i + 1]
  BY DEF Step, TypeInv
<1> USE DEF Onward, Set, Points
<1>2. ASSUME NEW r, NEW c, Here = Csrrw(r, c) PROVE Swaps(r, c)
  <2>1. Here.op = "csrrw" /\ Here.r = r /\ Here.csr = c
    BY <1>2 DEF Csrrw
  <2>2. SwapCsr
    BY <2>1, Decode
  <2> QED BY <1>1, <2>1, <2>2 DEF SwapCsr, Swaps
<1>3. ASSUME NEW r, NEW c, Here = Csrr(r, c) PROVE Reads(r, c)
  <2>1. Here.op = "csrr" /\ Here.r = r /\ Here.csr = c
    BY <1>3 DEF Csrr
  <2>2. ReadCsr
    BY <2>1, Decode
  <2> QED BY <1>1, <2>1, <2>2 DEF ReadCsr, Reads
<1>4. ASSUME NEW r, NEW c, Here = Csrw(c, r) PROVE Writes(c, r)
  <2>1. Here.op = "csrw" /\ Here.r = r /\ Here.csr = c
    BY <1>4 DEF Csrw
  <2>2. WriteCsr
    BY <2>1, Decode
  <2> QED BY <1>1, <2>1, <2>2 DEF WriteCsr, Writes
<1>5. ASSUME NEW r, NEW b, Here = Mv(r, b) PROVE Copies(r, b)
  <2>1. Here.op = "addi" /\ Here.r = r /\ Here.base = b
    BY <1>5 DEF Mv
  <2>2. Move
    BY <2>1, Decode
  <2> QED BY <1>1, <2>1, <2>2 DEF Move, Copies
<1>6. ASSUME NEW r, NEW b, NEW n, Here = Sd(r, n, b) PROVE Stores(r, n, b)
  <2>1. Here.op = "sd" /\ Here.r = r /\ Here.base = b /\ Here.slot = n
    BY <1>6 DEF Sd
  <2>2. Store
    BY <2>1, Decode
  <2> QED BY <1>1, <2>1, <2>2 DEF Store, Stores
<1>7. ASSUME NEW r, NEW b, NEW n, Here = Ld(r, n, b) PROVE Loads(r, n, b)
  <2>1. Here.op = "ld" /\ Here.r = r /\ Here.base = b /\ Here.slot = n
    BY <1>7 DEF Ld
  <2>2. Load
    BY <2>1, Decode
  <2> QED BY <1>1, <2>1, <2>2 DEF Load, Loads
<1> QED BY <1>2, <1>3, <1>4, <1>5, <1>6, <1>7

\* The registers and their slots.
LEMMA RegFacts ==
  /\ \A n \in Slots : RegFile[n] \in Regs
  /\ \A r \in Regs : \E n \in Slots : RegFile[n] = r
  /\ \A n, k \in Slots : RegFile[n] = RegFile[k] => n = k
  /\ RegFile[10] = "a0" /\ RegFile[31] = "t6" /\ RegFile[5] = "t0"
  /\ {"a0", "t6", "t0", "sp", "a3", "a4"} \subseteq Regs
<1>1. \A n \in Slots : RegFile[n] \in Regs
  BY NRegsIs DEF Regs, Slots
<1>2. \A r \in Regs : \E n \in Slots : RegFile[n] = r
  BY NRegsIs DEF Regs, Slots
<1>3. \A n, k \in Slots : RegFile[n] = RegFile[k] => n = k
  BY SlotOf
<1>4. /\ RegFile[10] = "a0" /\ RegFile[31] = "t6" /\ RegFile[5] = "t0"
      /\ RegFile[2] = "sp" /\ RegFile[13] = "a3" /\ RegFile[14] = "a4"
  BY DEF RegFile
<1>5. {2, 5, 10, 13, 14, 31} \subseteq Slots
  BY DEF Slots
<1>6. {"a0", "t6", "t0", "sp", "a3", "a4"} \subseteq Regs
  BY <1>1, <1>4, <1>5
<1> QED BY <1>1, <1>2, <1>3, <1>4, <1>6

\* Steps in smode_trap_vector.
LEMMA SvecSteps ==
  ASSUME TypeInv, Next, ~TimerInterrupt, pc.at = "svec"
  PROVE  \/ pc.i = 1 /\ Swaps("a0", "sscratch")
         \/ pc.i = 2 /\ Copies("t6", "a0")
         \/ pc.i \in 3..33 /\ Stores(RegFile[pc.i - 2], pc.i - 2, "t6")
         \/ pc.i = 34 /\ Reads("t0", "sscratch")
         \/ pc.i = 35 /\ Stores("t0", 10, "a0")
         \/ pc.i = 36 /\ Loads("sp", 32, "a0")
         \/ pc.i = 37 /\ Loads("t0", 33, "a0")
         \/ pc.i = 38 /\ JumpT0
<1>1. Here = smode_trap_vector[pc.i] /\ pc.i \in 1..38
  BY Fetch
<1>2. CASE pc.i = 1
  <2>1. Here = Csrrw("a0", "sscratch")
    BY <1>1, <1>2, SvecCode
  <2>2. Swaps("a0", "sscratch")
    BY <2>1, Execute
  <2> QED BY <1>2, <2>2
<1>3. CASE pc.i = 2
  <2>1. Here = Mv("t6", "a0")
    BY <1>1, <1>3, SvecCode
  <2>2. Copies("t6", "a0")
    BY <2>1, Execute
  <2> QED BY <1>3, <2>2
<1>4. CASE pc.i \in 3..33
  <2>1. pc.i - 2 \in Slots /\ (pc.i - 2) + 2 = pc.i
    BY <1>4 DEF Slots
  <2>2. Here = Sd(RegFile[pc.i - 2], pc.i - 2, "t6")
    BY <1>1, <2>1, SvecCode
  <2>3. Stores(RegFile[pc.i - 2], pc.i - 2, "t6")
    BY <2>2, Execute
  <2> QED BY <1>4, <2>3
<1>5. CASE pc.i = 34
  <2>1. Here = Csrr("t0", "sscratch")
    BY <1>1, <1>5, SvecCode
  <2>2. Reads("t0", "sscratch")
    BY <2>1, Execute
  <2> QED BY <1>5, <2>2
<1>6. CASE pc.i = 35
  <2>1. Here = Sd("t0", 10, "a0")
    BY <1>1, <1>6, SvecCode
  <2>2. Stores("t0", 10, "a0")
    BY <2>1, Execute
  <2> QED BY <1>6, <2>2
<1>7. CASE pc.i = 36
  <2>1. Here = Ld("sp", 32, "a0")
    BY <1>1, <1>7, SvecCode
  <2>2. Loads("sp", 32, "a0")
    BY <2>1, Execute
  <2> QED BY <1>7, <2>2
<1>8. CASE pc.i = 37
  <2>1. Here = Ld("t0", 33, "a0")
    BY <1>1, <1>8, SvecCode
  <2>2. Loads("t0", 33, "a0")
    BY <2>1, Execute
  <2> QED BY <1>8, <2>2
<1>9. CASE pc.i = 38
  <2>1. Here.op = "jr"
    BY <1>1, <1>9, SvecCode DEF Other
  <2>2. JumpT0
    BY <2>1, Decode
  <2> QED BY <1>9, <2>2
<1> QED BY <1>1, <1>2, <1>3, <1>4, <1>5, <1>6, <1>7, <1>8, <1>9

\* Steps in return_to_user.
LEMMA RetSteps ==
  ASSUME TypeInv, Next, ~TimerInterrupt, pc.at = "ret"
  PROVE  \/ pc.i = 1 /\ Writes("sscratch", "a0")
         \/ pc.i = 2 /\ Copies("t6", "a0")
         \/ pc.i \in 3..33 /\ Loads(RegFile[pc.i - 2], pc.i - 2, "t6")
         \/ pc.i = 34 /\ Sret
<1>1. Here = return_to_user[pc.i] /\ pc.i \in 1..34
  BY Fetch
<1>2. CASE pc.i = 1
  <2>1. Here = Csrw("sscratch", "a0")
    BY <1>1, <1>2, RetCode
  <2>2. Writes("sscratch", "a0")
    BY <2>1, Execute
  <2> QED BY <1>2, <2>2
<1>3. CASE pc.i = 2
  <2>1. Here = Mv("t6", "a0")
    BY <1>1, <1>3, RetCode
  <2>2. Copies("t6", "a0")
    BY <2>1, Execute
  <2> QED BY <1>3, <2>2
<1>4. CASE pc.i \in 3..33
  <2>1. pc.i - 2 \in Slots /\ (pc.i - 2) + 2 = pc.i
    BY <1>4 DEF Slots
  <2>2. Here = Ld(RegFile[pc.i - 2], pc.i - 2, "t6")
    BY <1>1, <2>1, RetCode
  <2>3. Loads(RegFile[pc.i - 2], pc.i - 2, "t6")
    BY <2>2, Execute
  <2> QED BY <1>4, <2>3
<1>5. CASE pc.i = 34
  <2>1. Here.op = "sret"
    BY <1>1, <1>5, RetCode DEF Other
  <2>2. Sret
    BY <2>1, Decode
  <2> QED BY <1>5, <2>2
<1> QED BY <1>1, <1>2, <1>3, <1>4, <1>5

\* Steps in mtrapvec.
LEMMA MvecSteps ==
  ASSUME TypeInv, Next, ~TimerInterrupt, pc.at = "mvec"
  PROVE  \/ pc.i = 1 /\ Swaps("a0", "mscratch")
         \/ pc.i = 2 /\ Copies("t6", "a0")
         \/ pc.i \in 3..33 /\ Stores(RegFile[pc.i - 2], pc.i - 2, "t6")
         \/ pc.i = 34 /\ Reads("t0", "mscratch")
         \/ pc.i = 35 /\ Stores("t0", 10, "a0")
         \/ pc.i = 36 /\ Stack0
         \/ pc.i = 37 /\ Writes("mscratch", "a0")
         \/ pc.i = 38 /\ HandleMtrap
         \/ pc.i = 39 /\ Reads("t6", "mscratch")
         \/ pc.i \in 40..70 /\ Loads(RegFile[pc.i - 39], pc.i - 39, "t6")
         \/ pc.i = 71 /\ Mret
<1>1. Here = mtrapvec[pc.i] /\ pc.i \in 1..71
  BY Fetch
<1>2. CASE pc.i = 1
  <2>1. Here = Csrrw("a0", "mscratch")
    BY <1>1, <1>2, MvecCode
  <2>2. Swaps("a0", "mscratch")
    BY <2>1, Execute
  <2> QED BY <1>2, <2>2
<1>3. CASE pc.i = 2
  <2>1. Here = Mv("t6", "a0")
    BY <1>1, <1>3, MvecCode
  <2>2. Copies("t6", "a0")
    BY <2>1, Execute
  <2> QED BY <1>3, <2>2
<1>4. CASE pc.i \in 3..33
  <2>1. pc.i - 2 \in Slots /\ (pc.i - 2) + 2 = pc.i
    BY <1>4 DEF Slots
  <2>2. Here = Sd(RegFile[pc.i - 2], pc.i - 2, "t6")
    BY <1>1, <2>1, MvecCode
  <2>3. Stores(RegFile[pc.i - 2], pc.i - 2, "t6")
    BY <2>2, Execute
  <2> QED BY <1>4, <2>3
<1>5. CASE pc.i = 34
  <2>1. Here = Csrr("t0", "mscratch")
    BY <1>1, <1>5, MvecCode
  <2>2. Reads("t0", "mscratch")
    BY <2>1, Execute
  <2> QED BY <1>5, <2>2
<1>6. CASE pc.i = 35
  <2>1. Here = Sd("t0", 10, "a0")
    BY <1>1, <1>6, MvecCode
  <2>2. Stores("t0", 10, "a0")
    BY <2>1, Execute
  <2> QED BY <1>6, <2>2
<1>7. CASE pc.i = 36
  <2>1. Here.op = "stack0"
    BY <1>1, <1>7, MvecCode DEF Other
  <2>2. Stack0
    BY <2>1, Decode
  <2> QED BY <1>7, <2>2
<1>8. CASE pc.i = 37
  <2>1. Here = Csrw("mscratch", "a0")
    BY <1>1, <1>8, MvecCode
  <2>2. Writes("mscratch", "a0")
    BY <2>1, Execute
  <2> QED BY <1>8, <2>2
<1>9. CASE pc.i = 38
  <2>1. Here.op = "handle_mtrap"
    BY <1>1, <1>9, MvecCode DEF Other
  <2>2. HandleMtrap
    BY <2>1, Decode
  <2> QED BY <1>9, <2>2
<1>10. CASE pc.i = 39
  <2>1. Here = Csrr("t6", "mscratch")
    BY <1>1, <1>10, MvecCode
  <2>2. Reads("t6", "mscratch")
    BY <2>1, Execute
  <2> QED BY <1>10, <2>2
<1>11. CASE pc.i \in 40..70
  <2>1. pc.i - 39 \in Slots /\ (pc.i - 39) + 39 = pc.i
    BY <1>11 DEF Slots
  <2>2. Here = Ld(RegFile[pc.i - 39], pc.i - 39, "t6")
    BY <1>1, <2>1, MvecCode
  <2>3. Loads(RegFile[pc.i - 39], pc.i - 39, "t6")
    BY <2>2, Execute
  <2> QED BY <1>11, <2>3
<1>12. CASE pc.i = 71
  <2>1. Here.op = "mret"
    BY <1>1, <1>12, MvecCode DEF Other
  <2>2. Mret
    BY <2>1, Decode
  <2> QED BY <1>12, <2>2
<1> QED BY <1>1, <1>2, <1>3, <1>4, <1>5, <1>6, <1>7, <1>8, <1>9, <1>10, <1>11, <1>12

\* Steps of C code and of the application.
LEMMA OtherSteps ==
  ASSUME TypeInv, Next, ~TimerInterrupt
  PROVE  /\ pc.at = "handler" => Handler
         /\ pc.at = "user" => UserRun \/ UserTrap
<1>1. ASSUME pc.at = "handler" PROVE Handler
  <2>1. pc.i = 1 /\ Here.op = "handler"
    BY <1>1 DEF Here, Code, TypeInv, Length, Other
  <2> QED BY <2>1, Decode
<1>2. ASSUME pc.at = "user" PROVE UserRun \/ UserTrap
  <2>1. pc.i = 1 /\ Here.op = "user"
    BY <1>2 DEF Here, Code, TypeInv, Length, Other
  <2> QED BY <2>1, Decode
<1> QED BY <1>1, <1>2

\* The places of sret and mret, and where t6 is live.
LEMMA Places ==
  ASSUME TypeInv
  PROVE  /\ At("sret") => pc.at = "ret" /\ pc.i = 34
         /\ At("mret") => pc.at = "mvec" /\ pc.i = 71
         /\ At("user") => pc.at = "user"
         /\ pc.at \in {"svec", "ret"} /\ pc.i \in 3..33 => T6Live
<1>1. CASE pc.at = "svec"
  <2>1. Here = smode_trap_vector[pc.i] /\ pc.i \in 1..38
    BY <1>1, Fetch
  <2>2. CASE pc.i \in 3..33
    <3>1. pc.i - 2 \in Slots /\ (pc.i - 2) + 2 = pc.i
      BY <2>2 DEF Slots
    <3>2. Here = Sd(RegFile[pc.i - 2], pc.i - 2, "t6")
      BY <2>1, <3>1, SvecCode
    <3> QED BY <1>1, <3>2 DEF Sd, At, T6Live
  <2>3. CASE pc.i \in {1, 2, 34, 35, 36, 37, 38}
    BY <1>1, <2>1, <2>3, SvecCode DEF At, Csrrw, Mv, Csrr, Sd, Ld, Other
  <2> QED BY <2>1, <2>2, <2>3
<1>2. CASE pc.at = "ret"
  <2>1. Here = return_to_user[pc.i] /\ pc.i \in 1..34
    BY <1>2, Fetch
  <2>2. CASE pc.i \in 3..33
    <3>1. pc.i - 2 \in Slots /\ (pc.i - 2) + 2 = pc.i
      BY <2>2 DEF Slots
    <3>2. Here = Ld(RegFile[pc.i - 2], pc.i - 2, "t6")
      BY <2>1, <3>1, RetCode
    <3> QED BY <1>2, <3>2 DEF Ld, At, T6Live
  <2>3. CASE pc.i \in {1, 2, 34}
    BY <1>2, <2>1, <2>3, RetCode DEF At, Csrw, Mv, Other
  <2> QED BY <2>1, <2>2, <2>3
<1>3. CASE pc.at = "mvec"
  <2>1. Here = mtrapvec[pc.i] /\ pc.i \in 1..71
    BY <1>3, Fetch
  <2>2. CASE pc.i \in 3..33
    <3>1. pc.i - 2 \in Slots /\ (pc.i - 2) + 2 = pc.i
      BY <2>2 DEF Slots
    <3>2. Here = Sd(RegFile[pc.i - 2], pc.i - 2, "t6")
      BY <2>1, <3>1, MvecCode
    <3> QED BY <1>3, <3>2 DEF Sd, At
  <2>3. CASE pc.i \in 40..70
    <3>1. pc.i - 39 \in Slots /\ (pc.i - 39) + 39 = pc.i
      BY <2>3 DEF Slots
    <3>2. Here = Ld(RegFile[pc.i - 39], pc.i - 39, "t6")
      BY <2>1, <3>1, MvecCode
    <3> QED BY <1>3, <3>2 DEF Ld, At
  <2>4. CASE pc.i \in {1, 2, 34, 35, 36, 37, 38, 39, 71}
    BY <1>3, <2>1, <2>4, MvecCode DEF At, Csrrw, Csrw, Csrr, Mv, Sd, Other
  <2> QED BY <2>1, <2>2, <2>3, <2>4
<1>4. CASE pc.at \in {"handler", "user", "lost"}
  BY <1>4 DEF At, Here, Code, TypeInv, Length, Other
<1> QED BY <1>1, <1>2, <1>3, <1>4 DEF TypeInv, Names

---------------------------------------------------------------------------
(* The invariant is inductive.                                             *)

LEMMA InitCInv == Init => CInv
<1> SUFFICES ASSUME Init PROVE CInv
  OBVIOUS
<1>1. /\ pc = [at |-> "ret", i |-> 1] /\ mepc = [at |-> "ret", i |-> 1]
      /\ Spc = pc /\ Sreg = regs
  BY DEF Init, L, Spc, Sreg
<1>2. DOMAIN regs = Regs /\ regs["a0"] = Kernel("tf")
  BY RegFacts DEF Init, InSwitch
<1>3. DOMAIN csr = {"sscratch", "mscratch"} /\ csr["mscratch"] = Kernel("itr")
  BY DEF Init
<1>4. /\ DOMAIN mem = Frames /\ \A f \in Frames : DOMAIN mem[f] = 1..KTrap
      /\ mem["tf"][KSp] = Kernel("kstack")
      /\ mem["tf"][KTrap] = Kernel("smode_trap_handler")
  BY NRegsIs DEF Init, Frames
<1>5. TypeInv
  BY <1>1, <1>2, <1>3, <1>4 DEF Init, TypeInv, Names, Length
<1>6. MachineInv /\ EntryInv /\ SaveInv
  BY <1>1, <1>2, <1>3, <1>4 DEF MachineInv, EntryInv, SaveInv
<1>7. \A n \in Slots : mem["tf"][n] = ctx[RegFile[n]]
  <2> SUFFICES ASSUME NEW n \in Slots
               PROVE  mem["tf"][n] = ctx[RegFile[n]]
    OBVIOUS
  <2>1. ctx[RegFile[n]] = mem["tf"][CHOOSE k \in 1..NRegs : RegFile[k] = RegFile[n]]
    BY RegFacts DEF Init
  <2>2. (CHOOSE k \in 1..NRegs : RegFile[k] = RegFile[n]) = n
    BY RegFacts, NRegsIs DEF Slots
  <2> QED BY <2>1, <2>2
<1>8. RestoreInv
  <2>1. traps = 0
    BY DEF Init
  <2>2. \A r : Expected(r) = ctx[r]
    BY <2>1 DEF Expected
  <2>3. Spc.i = 1
    BY <1>1
  <2> QED BY <2>2, <2>3, <1>7 DEF RestoreInv
<1> QED BY <1>5, <1>6, <1>8 DEF CInv

\* The timer suspends the supervisor or the application as it is.
LEMMA TimerStep == CInv /\ TimerInterrupt => CInv'
<1> SUFFICES ASSUME CInv, TimerInterrupt PROVE CInv'
  OBVIOUS
<1>1. /\ pc.at \notin {"mvec", "lost"}
      /\ pc' = [at |-> "mvec", i |-> 1] /\ mepc' = pc /\ mctx' = regs
      /\ UNCHANGED <<regs, mem, csr, cause, traps>>
      /\ timers' = timers + 1
      /\ hit' = (hit \/ T6Live) /\ ctx' = IF At("user") THEN regs ELSE ctx
  BY DEF TimerInterrupt, L
<1>2. Spc = pc /\ Sreg = regs /\ Spc' = pc /\ Sreg' = regs
  BY <1>1 DEF Spc, Sreg
<1>3. ~hit' => ~hit /\ ~(pc.at \in {"svec", "ret"} /\ pc.i \in 3..33)
  BY <1>1, Places DEF CInv
<1>4. pc.at # "user" => ctx' = ctx
  BY <1>1, Places DEF CInv
<1>5. TypeInv'
  BY <1>1, <1>2 DEF CInv, TypeInv, Names, Length
<1>6. MachineInv'
  BY <1>1 DEF CInv, MachineInv
<1>7. EntryInv'
  BY <1>1, <1>2 DEF CInv, EntryInv
<1>8. SaveInv'
  BY <1>1, <1>2, <1>3, <1>4 DEF CInv, SaveInv
<1>9. RestoreInv'
  BY <1>1, <1>2, <1>3, <1>4 DEF CInv, RestoreInv, Expected
<1> QED BY <1>5, <1>6, <1>7, <1>8, <1>9 DEF CInv

\* A step inside mtrapvec leaves the trapframe and sscratch alone, so that
\* everything said of the suspended code stays true.
Inside ==
  /\ pc' = [at |-> "mvec", i |-> pc.i + 1] /\ UNCHANGED <<mepc, past>>
  /\ mem'["tf"] = mem["tf"] /\ csr'["sscratch"] = csr["sscratch"]
  /\ DOMAIN regs' = Regs
  /\ DOMAIN mem' = Frames /\ DOMAIN mem'["itr"] = 1..KTrap
  /\ DOMAIN csr' = {"sscratch", "mscratch"}

LEMMA SupervisorKept ==
  ASSUME CInv, pc.at = "mvec", pc.i < 71, Inside
  PROVE  TypeInv' /\ EntryInv' /\ SaveInv' /\ RestoreInv'
<1>1. Spc' = Spc /\ Sreg' = Sreg /\ Spc = mepc /\ Sreg = mctx
  BY DEF Inside, past, Spc, Sreg
<1>2. ~hit => ~(Spc.at \in {"svec", "ret"} /\ Spc.i \in 3..33)
  BY DEF CInv, SaveInv, RestoreInv
<1>3. /\ pc' = [at |-> "mvec", i |-> pc.i + 1] /\ pc'.at = "mvec"
      /\ mem'["tf"] = mem["tf"] /\ csr'["sscratch"] = csr["sscratch"]
      /\ UNCHANGED <<mepc, hit, ctx, traps, cause, timers>>
  BY DEF Inside, past
<1>4. TypeInv'
  BY <1>1, <1>3 DEF CInv, TypeInv, Names, Length, Inside, Frames
<1>5. EntryInv'
  BY <1>1, <1>3 DEF CInv, EntryInv
<1>6. SaveInv'
  BY <1>1, <1>2, <1>3 DEF CInv, SaveInv
<1>7. RestoreInv'
  BY <1>1, <1>2, <1>3 DEF CInv, RestoreInv, Expected
<1> QED BY <1>4, <1>5, <1>6, <1>7

\* Steps of mtrapvec.
LEMMA MachineStep ==
  ASSUME CInv, Next, pc.at = "mvec"
  PROVE  CInv'
<1>1. TypeInv /\ MachineInv
  BY DEF CInv
<1>2. ~TimerInterrupt
  BY DEF TimerInterrupt
<1>3. /\ pc.i \in 1..71
      /\ DOMAIN regs = Regs /\ DOMAIN mem = Frames
      /\ DOMAIN mem["tf"] = 1..33 /\ DOMAIN mem["itr"] = 1..33
      /\ DOMAIN csr = {"sscratch", "mscratch"}
  BY <1>1, Fetch, NRegsIs DEF TypeInv, Frames
<1>4. SUFFICES \/ pc.i < 71 /\ Inside /\ MachineInv'
               \/ pc.i = 71 /\ CInv'
  BY SupervisorKept DEF CInv
<1> USE <1>1, <1>3
<1>5. CASE pc.i = 1 /\ Swaps("a0", "mscratch")
  <2>1. Inside
    BY <1>5, NRegsIs DEF Inside, Swaps, Onward
  <2>2. MachineInv'
    BY <1>5, RegFacts DEF MachineInv, Swaps, Onward, past
  <2> QED BY <1>5, <2>1, <2>2
<1>6. CASE pc.i = 2 /\ Copies("t6", "a0")
  <2>1. Inside
    BY <1>6, NRegsIs DEF Inside, Copies, Onward
  <2>2. MachineInv'
    BY <1>6, RegFacts DEF MachineInv, Copies, Onward, past, Slots
  <2> QED BY <1>6, <2>1, <2>2
<1>7. CASE pc.i \in 3..33 /\ Stores(RegFile[pc.i - 2], pc.i - 2, "t6")
  <2>1. regs["t6"] = Kernel("itr")
    BY <1>7 DEF MachineInv
  <2>2. \A f \in Frames : Kernel(f) = Kernel("itr") => f = "itr"
    BY DEF Kernel
  <2>3. /\ mem' = [mem EXCEPT !["itr"][pc.i - 2] = regs[RegFile[pc.i - 2]]]
        /\ UNCHANGED <<regs, csr>> /\ Onward
    BY <1>7, <2>1, <2>2 DEF Stores
  <2>4. pc.i - 2 \in Slots /\ pc.i - 2 \in 1..33
    BY <1>7 DEF Slots
  <2>5. Inside
    BY <2>3, <2>4, NRegsIs DEF Inside, Onward, Frames
  <2>6. /\ mem'["itr"][pc.i - 2] = regs[RegFile[pc.i - 2]]
        /\ \A n \in Slots : n # pc.i - 2 => mem'["itr"][n] = mem["itr"][n]
    BY <2>3, <2>4 DEF Frames, Slots
  <2>7. /\ pc' = [at |-> "mvec", i |-> pc.i + 1]
        /\ UNCHANGED <<regs, csr, mctx>>
    BY <2>3 DEF Onward, past
  <2>8. MachineInv'
    <3> USE <1>7, <2>4, <2>6, <2>7
    <3>1. \A n \in Slots : n < pc'.i - 2 /\ RegFile[n] \notin {"a0", "t6"} =>
             mem'["itr"][n] = mctx'[RegFile[n]]
      BY RegFacts DEF MachineInv, Slots
    <3> QED BY <3>1 DEF MachineInv
  <2> QED BY <1>7, <2>5, <2>8
<1>8. CASE pc.i = 34 /\ Reads("t0", "mscratch")
  <2>1. Inside
    BY <1>8, NRegsIs DEF Inside, Reads, Onward
  <2>2. MachineInv'
    BY <1>8, RegFacts DEF MachineInv, Reads, Onward, past, Slots
  <2> QED BY <1>8, <2>1, <2>2
<1>9. CASE pc.i = 35 /\ Stores("t0", 10, "a0")
  <2>1. regs["a0"] = Kernel("itr")
    BY <1>9 DEF MachineInv
  <2>2. \A f \in Frames : Kernel(f) = Kernel("itr") => f = "itr"
    BY DEF Kernel
  <2>3. /\ mem' = [mem EXCEPT !["itr"][10] = regs["t0"]]
        /\ UNCHANGED <<regs, csr>> /\ Onward
    BY <1>9, <2>1, <2>2 DEF Stores
  <2>4. Inside
    BY <2>3, NRegsIs DEF Inside, Onward, Frames
  <2>5. /\ mem'["itr"][10] = regs["t0"]
        /\ \A n \in Slots : n # 10 => mem'["itr"][n] = mem["itr"][n]
    BY <2>3 DEF Frames, Slots
  <2>6. /\ pc' = [at |-> "mvec", i |-> 36]
        /\ UNCHANGED <<regs, csr, mctx>>
    BY <1>9, <2>3 DEF Onward, past
  <2>7. MachineInv'
    <3> USE <1>9, <2>5, <2>6
    <3>1. \A n \in Slots : RegFile[n] # "t6" =>
             mem'["itr"][n] = mctx'[RegFile[n]]
      BY RegFacts DEF MachineInv, Slots
    <3> QED BY <3>1 DEF MachineInv
  <2> QED BY <1>9, <2>4, <2>7
<1>10. CASE pc.i = 36 /\ Stack0
  <2>1. /\ regs' = [regs EXCEPT !["sp"] = Kernel("stack0"),
                                !["a3"] = Kernel("temp"), !["a4"] = Kernel("temp")]
        /\ pc' = [at |-> "mvec", i |-> 37] /\ UNCHANGED <<mepc, mem, csr, past>>
    BY <1>10 DEF Stack0, Step, TypeInv
  <2>2. Inside
    BY <1>10, <2>1, NRegsIs DEF Inside
  <2>3. MachineInv'
    BY <1>10, <2>1, RegFacts DEF MachineInv, past
  <2> QED BY <1>10, <2>2, <2>3
<1>11. CASE pc.i = 37 /\ Writes("mscratch", "a0")
  <2>1. Inside
    BY <1>11, NRegsIs DEF Inside, Writes, Onward
  <2>2. MachineInv'
    BY <1>11, RegFacts DEF MachineInv, Writes, Onward, past
  <2> QED BY <1>11, <2>1, <2>2
<1>12. CASE pc.i = 38 /\ HandleMtrap
  <2>1. /\ regs' = [r \in Regs |-> Kernel("temp")]
        /\ pc' = [at |-> "mvec", i |-> 39] /\ UNCHANGED <<mepc, mem, csr, past>>
    BY <1>12 DEF HandleMtrap, Step, TypeInv
  <2>2. Inside
    BY <1>12, <2>1, NRegsIs DEF Inside
  <2>3. MachineInv'
    BY <1>12, <2>1, RegFacts DEF MachineInv, past
  <2> QED BY <1>12, <2>2, <2>3
<1>13. CASE pc.i = 39 /\ Reads("t6", "mscratch")
  <2>1. Inside
    BY <1>13, NRegsIs DEF Inside, Reads, Onward
  <2>2. MachineInv'
    BY <1>13, RegFacts DEF MachineInv, Reads, Onward, past, Slots
  <2> QED BY <1>13, <2>1, <2>2
<1>14. CASE pc.i \in 40..70 /\ Loads(RegFile[pc.i - 39], pc.i - 39, "t6")
  <2>1. regs["t6"] = Kernel("itr")
    BY <1>14 DEF MachineInv
  <2>2. \A f \in Frames : Kernel(f) = Kernel("itr") => f = "itr"
    BY DEF Kernel
  <2>3. /\ regs' = [regs EXCEPT ![RegFile[pc.i - 39]] = mem["itr"][pc.i - 39]]
        /\ UNCHANGED <<mem, csr>> /\ Onward
    BY <1>14, <2>1, <2>2 DEF Loads
  <2>4. pc.i - 39 \in Slots
    BY <1>14 DEF Slots
  <2>5. Inside
    BY <2>3, <2>4, NRegsIs DEF Inside, Onward, Frames
  <2>6. \A r \in Regs : regs'[r] = IF r = RegFile[pc.i - 39]
                                   THEN mem["itr"][pc.i - 39] ELSE regs[r]
    BY <2>3
  <2>7. /\ pc' = [at |-> "mvec", i |-> pc.i + 1]
        /\ UNCHANGED <<mem, csr, mctx>>
    BY <2>3 DEF Onward, past
  <2>8. MachineInv'
    <3> USE <1>14, <2>4, <2>6, <2>7
    <3>1. \A n \in Slots : n < pc'.i - 39 /\ RegFile[n] # "t6" =>
             regs'[RegFile[n]] = mctx'[RegFile[n]]
      BY RegFacts DEF MachineInv, Slots
    <3>2. pc'.i \in 40..70 => regs'["t6"] = Kernel("itr")
      <4>1. pc'.i \in 40..70 => RegFile[pc.i - 39] # "t6"
        BY RegFacts DEF Slots
      <4> QED BY <4>1, <2>1, RegFacts
    <3> QED BY <3>1, <3>2 DEF MachineInv
  <2> QED BY <1>14, <2>5, <2>8
<1>15. CASE pc.i = 71 /\ Mret
  <2>1. pc' = mepc /\ UNCHANGED <<mepc, regs, mem, csr, past>>
    BY <1>15 DEF Mret
  <2>2. \A r \in Regs : r # "t6" => regs[r] = mctx[r]
    BY <1>15, RegFacts DEF MachineInv, Slots
  <2>3. Spc = mepc /\ Spc' = mepc /\ Sreg = mctx /\ Sreg' = regs /\ mepc.at # "mvec"
    BY <2>1 DEF Spc, Sreg, TypeInv
  <2>4. ~hit => ~(Spc.at \in {"svec", "ret"} /\ Spc.i \in 3..33)
    BY DEF CInv, SaveInv, RestoreInv
  <2>5. UNCHANGED <<hit, ctx, mctx, traps, timers, cause>>
    BY <2>1 DEF past
  <2>6. TypeInv'
    BY <2>1, <2>3, <2>5 DEF TypeInv
  <2>7. MachineInv'
    BY <1>15, <2>1, <2>3 DEF MachineInv
  <2>8. EntryInv'
    BY <2>1, <2>2, <2>3, <2>5, RegFacts DEF CInv, EntryInv
  <2>9. SaveInv'
    BY <2>1, <2>2, <2>3, <2>4, <2>5, RegFacts DEF CInv, SaveInv
  <2>10. RestoreInv'
    BY <2>1, <2>2, <2>3, <2>4, <2>5, RegFacts DEF CInv, RestoreInv, Expected
  <2> QED BY <1>15, <2>6, <2>7, <2>8, <2>9, <2>10 DEF CInv
<1> QED
  BY <1>2, <1>5, <1>6, <1>7, <1>8, <1>9, <1>10, <1>11, <1>12, <1>13, <1>14, <1>15,
     MvecSteps

\* A step of the supervisor or the application that leaves mscratch alone.
LEMMA Supervised ==
  ASSUME CInv, pc.at # "mvec", pc'.at # "mvec", UNCHANGED mepc,
         csr'["mscratch"] = csr["mscratch"]
  PROVE  /\ MachineInv' /\ Spc = pc /\ Spc' = pc' /\ Sreg = regs /\ Sreg' = regs'
         /\ csr["mscratch"] = Kernel("itr")
  BY DEF CInv, MachineInv, Spc, Sreg

\* Steps of smode_trap_vector.
LEMMA VectorStep ==
  ASSUME CInv, Next, ~TimerInterrupt, pc.at = "svec"
  PROVE  CInv'
<1>1. TypeInv /\ EntryInv /\ SaveInv
  BY DEF CInv
<1>2. /\ pc.i \in 1..38 /\ DOMAIN regs = Regs /\ DOMAIN mem = Frames
      /\ DOMAIN mem["tf"] = 1..33 /\ DOMAIN mem["itr"] = 1..33
      /\ DOMAIN csr = {"sscratch", "mscratch"}
      /\ Spc = pc /\ Sreg = regs
  BY <1>1, Fetch, NRegsIs DEF TypeInv, Frames, Spc, Sreg
<1>3. SUFFICES /\ \/ pc' = [at |-> "svec", i |-> pc.i + 1] /\ pc.i < 38
                  \/ pc' = [at |-> "handler", i |-> 1]
               /\ UNCHANGED <<mepc, past>>
               /\ csr'["mscratch"] = csr["mscratch"]
               /\ DOMAIN regs' = Regs /\ DOMAIN mem' = Frames
               /\ DOMAIN mem'["tf"] = 1..33 /\ DOMAIN mem'["itr"] = 1..33
               /\ DOMAIN csr' = {"sscratch", "mscratch"}
               /\ EntryInv' /\ SaveInv'
  <2>1. pc'.at \in {"svec", "handler"}
    BY <1>3
  <2>2. MachineInv' /\ Spc' = pc'
    BY <1>3, <2>1, Supervised
  <2>3. TypeInv'
    BY <1>1, <1>2, <1>3, <2>2, NRegsIs DEF TypeInv, Names, Length, past, Frames
  <2>4. RestoreInv'
    BY <2>1, <2>2 DEF RestoreInv
  <2> QED BY <1>3, <2>2, <2>3, <2>4 DEF CInv
<1> USE <1>1, <1>2
<1>4. CASE pc.i = 1 /\ Swaps("a0", "sscratch")
  <2>1. /\ pc' = [at |-> "svec", i |-> 2] /\ UNCHANGED <<mepc, mem, past>>
        /\ csr'["mscratch"] = csr["mscratch"] /\ csr'["sscratch"] = regs["a0"]
        /\ DOMAIN regs' = Regs /\ DOMAIN csr' = {"sscratch", "mscratch"}
        /\ \A r \in Regs : regs'[r] = IF r = "a0" THEN csr["sscratch"] ELSE regs[r]
    BY <1>4 DEF Swaps, Onward
  <2>2. Spc' = pc' /\ Sreg' = regs' /\ UNCHANGED <<hit, ctx, traps>>
    BY <2>1 DEF Spc, Sreg, past
  <2>3. EntryInv'
    BY <1>4, <2>1, <2>2, RegFacts DEF EntryInv
  <2>4. SaveInv'
    BY <1>4, <2>1, <2>2, RegFacts DEF SaveInv
  <2> QED BY <1>4, <2>1, <2>3, <2>4
<1>5. CASE pc.i = 2 /\ Copies("t6", "a0")
  <2>1. /\ pc' = [at |-> "svec", i |-> 3] /\ UNCHANGED <<mepc, mem, csr, past>>
        /\ DOMAIN regs' = Regs
        /\ \A r \in Regs : regs'[r] = IF r = "t6" THEN regs["a0"] ELSE regs[r]
    BY <1>5 DEF Copies, Onward
  <2>2. Spc' = pc' /\ Sreg' = regs' /\ UNCHANGED <<hit, ctx, traps>>
    BY <2>1 DEF Spc, Sreg, past
  <2>3. EntryInv'
    BY <1>5, <2>1, <2>2, RegFacts DEF EntryInv
  <2>4. SaveInv'
    BY <1>5, <2>1, <2>2, <2>3, RegFacts DEF SaveInv, EntryInv, Slots
  <2> QED BY <1>5, <2>1, <2>3, <2>4
<1>6. CASE pc.i \in 3..33 /\ Stores(RegFile[pc.i - 2], pc.i - 2, "t6")
  <2>1. PICK f \in Frames : /\ regs["t6"] = Kernel(f)
                            /\ mem' = [mem EXCEPT ![f][pc.i - 2] =
                                                    regs[RegFile[pc.i - 2]]]
    BY <1>6 DEF Stores
  <2>2. pc.i - 2 \in Slots /\ pc.i - 2 \in 1..31
    BY <1>6 DEF Slots
  <2>3. /\ pc' = [at |-> "svec", i |-> pc.i + 1]
        /\ UNCHANGED <<mepc, regs, csr, past>>
    BY <1>6 DEF Stores, Onward
  <2>4. /\ DOMAIN mem' = Frames
        /\ DOMAIN mem'["tf"] = 1..33 /\ DOMAIN mem'["itr"] = 1..33
        /\ \A n \in 1..33 : n # pc.i - 2 => mem'["tf"][n] = mem["tf"][n]
        /\ f = "tf" => mem'["tf"][pc.i - 2] = regs[RegFile[pc.i - 2]]
    BY <2>1, <2>2 DEF Frames
  <2>5. Spc' = pc' /\ Sreg' = regs' /\ UNCHANGED <<hit, ctx, traps>>
    BY <2>3 DEF Spc, Sreg, past
  <2>6. EntryInv'
    <3>1. mem'["tf"][32] = mem["tf"][32] /\ mem'["tf"][33] = mem["tf"][33]
      BY <2>2, <2>4
    <3> QED BY <1>6, <2>3, <2>5, <3>1, NRegsIs DEF EntryInv
  <2>7. ~hit => f = "tf"
    <3>1. ~hit => regs["t6"] = Kernel("tf")
      BY <1>6 DEF SaveInv
    <3> QED BY <3>1, <2>1 DEF Kernel, Frames
  <2>8. ~hit => \A n \in Slots : n < pc'.i - 2 /\ RegFile[n] \notin {"a0", "t6"} =>
                  mem'["tf"][n] = ctx[RegFile[n]]
    <3> SUFFICES ASSUME ~hit, NEW n \in Slots, n < pc'.i - 2,
                        RegFile[n] \notin {"a0", "t6"}
                 PROVE  mem'["tf"][n] = ctx[RegFile[n]]
      OBVIOUS
    <3>1. CASE n = pc.i - 2
      BY <3>1, <1>6, <2>4, <2>7, RegFacts DEF SaveInv
    <3>2. CASE n # pc.i - 2
      <4>1. n < pc.i - 2 /\ n \in 1..33
        BY <3>2, <2>3, <2>2 DEF Slots
      <4> QED BY <3>2, <4>1, <1>6, <2>4 DEF SaveInv
    <3> QED BY <3>1, <3>2
  <2>9. SaveInv'
    BY <1>6, <2>3, <2>5, <2>8 DEF SaveInv
  <2> QED BY <1>6, <2>3, <2>4, <2>6, <2>9
<1>7. CASE pc.i = 34 /\ Reads("t0", "sscratch")
  <2>1. /\ pc' = [at |-> "svec", i |-> 35] /\ UNCHANGED <<mepc, mem, csr, past>>
        /\ DOMAIN regs' = Regs
        /\ \A r \in Regs : regs'[r] = IF r = "t0" THEN csr["sscratch"] ELSE regs[r]
    BY <1>7 DEF Reads, Onward
  <2>2. Spc' = pc' /\ Sreg' = regs' /\ UNCHANGED <<hit, ctx, traps>>
    BY <2>1 DEF Spc, Sreg, past
  <2>3. EntryInv'
    BY <1>7, <2>1, <2>2, RegFacts DEF EntryInv
  <2>4. SaveInv'
    BY <1>7, <2>1, <2>2, RegFacts DEF SaveInv, Slots
  <2> QED BY <1>7, <2>1, <2>3, <2>4
<1>8. CASE pc.i = 35 /\ Stores("t0", 10, "a0")
  <2>1. regs["a0"] = Kernel("tf")
    BY <1>8 DEF EntryInv
  <2>2. \A f \in Frames : Kernel(f) = Kernel("tf") => f = "tf"
    BY DEF Kernel
  <2>3. /\ mem' = [mem EXCEPT !["tf"][10] = regs["t0"]]
        /\ pc' = [at |-> "svec", i |-> 36] /\ UNCHANGED <<mepc, regs, csr, past>>
    <3>1. mem' = [mem EXCEPT !["tf"][10] = regs["t0"]]
      BY <1>8, <2>1, <2>2 DEF Stores
    <3>2. UNCHANGED <<regs, csr>> /\ Onward
      BY <1>8 DEF Stores
    <3>3. pc' = [at |-> "svec", i |-> 36]
      BY <1>8, <3>2 DEF Onward
    <3> QED BY <3>1, <3>2, <3>3 DEF Onward
  <2>4. /\ DOMAIN mem' = Frames
        /\ DOMAIN mem'["tf"] = 1..33 /\ DOMAIN mem'["itr"] = 1..33
        /\ \A n \in 1..33 : n # 10 => mem'["tf"][n] = mem["tf"][n]
        /\ mem'["tf"][10] = regs["t0"]
    BY <2>3 DEF Frames
  <2>5. Spc' = pc' /\ Sreg' = regs' /\ UNCHANGED <<hit, ctx, traps>>
    BY <2>3 DEF Spc, Sreg, past
  <2>6. EntryInv'
    BY <1>8, <2>3, <2>4, <2>5, NRegsIs DEF EntryInv
  <2>7. SaveInv'
    <3>1. ~hit => \A n \in Slots : RegFile[n] # "t6" =>
                    mem'["tf"][n] = ctx[RegFile[n]]
      BY <1>8, <2>4, RegFacts DEF SaveInv, Slots
    <3> QED BY <1>8, <2>3, <2>5, <3>1 DEF SaveInv
  <2> QED BY <1>8, <2>3, <2>4, <2>6, <2>7
<1>9. ASSUME NEW r \in {"sp", "t0"}, NEW n \in 32..33, Loads(r, n, "a0"),
             pc.i \in {36, 37}, pc.i = 36 <=> r = "sp", pc.i = 36 <=> n = 32
      PROVE  /\ pc' = [at |-> "svec", i |-> pc.i + 1] /\ pc.i < 38
             /\ UNCHANGED <<mepc, mem, csr, past>> /\ DOMAIN regs' = Regs
             /\ EntryInv' /\ SaveInv'
  <2>1. regs["a0"] = Kernel("tf")
    BY <1>9 DEF EntryInv
  <2>2. \A f \in Frames : Kernel(f) = Kernel("tf") => f = "tf"
    BY DEF Kernel
  <2>3. /\ regs' = [regs EXCEPT ![r] = mem["tf"][n]]
        /\ pc' = [at |-> "svec", i |-> pc.i + 1] /\ UNCHANGED <<mepc, mem, csr, past>>
    BY <1>9, <2>1, <2>2 DEF Loads, Onward
  <2>4. /\ DOMAIN regs' = Regs
        /\ \A q \in Regs : regs'[q] = IF q = r THEN mem["tf"][n] ELSE regs[q]
    BY <2>3
  <2>5. Spc' = pc' /\ Sreg' = regs' /\ UNCHANGED <<hit, ctx, traps>>
    BY <2>3 DEF Spc, Sreg, past
  <2>6. EntryInv'
    BY <1>9, <2>3, <2>4, <2>5, RegFacts, NRegsIs DEF EntryInv
  <2>7. SaveInv'
    BY <1>9, <2>3, <2>5 DEF SaveInv
  <2> QED BY <1>9, <2>3, <2>4, <2>6, <2>7
<1>10. CASE pc.i = 36 /\ Loads("sp", 32, "a0")
  BY <1>9, <1>10
<1>11. CASE pc.i = 37 /\ Loads("t0", 33, "a0")
  BY <1>9, <1>11
<1>12. CASE pc.i = 38 /\ JumpT0
  <2>1. pc' = [at |-> "handler", i |-> 1] /\ UNCHANGED <<mepc, regs, mem, csr, past>>
    BY <1>12 DEF JumpT0, L, EntryInv
  <2>2. Spc' = pc' /\ Sreg' = regs' /\ UNCHANGED <<hit, ctx, traps>>
    BY <2>1 DEF Spc, Sreg, past
  <2>3. EntryInv'
    BY <1>12, <2>1, <2>2 DEF EntryInv
  <2>4. SaveInv'
    BY <1>12, <2>1, <2>2 DEF SaveInv
  <2> QED BY <2>1, <2>3, <2>4
<1> QED
  BY SvecSteps, <1>4, <1>5, <1>6, <1>7, <1>8, <1>10, <1>11, <1>12

\* Steps of return_to_user.
LEMMA ReturnStep ==
  ASSUME CInv, Next, ~TimerInterrupt, pc.at = "ret"
  PROVE  CInv'
<1>1. TypeInv /\ EntryInv /\ RestoreInv
  BY DEF CInv
<1>2. /\ pc.i \in 1..34 /\ DOMAIN regs = Regs /\ DOMAIN mem = Frames
      /\ DOMAIN csr = {"sscratch", "mscratch"}
      /\ Spc = pc /\ Sreg = regs
  BY <1>1, Fetch DEF TypeInv, Spc, Sreg
<1>3. SUFFICES /\ \/ pc' = [at |-> "ret", i |-> pc.i + 1] /\ pc.i < 34
                  \/ pc' = [at |-> "user", i |-> 1]
               /\ UNCHANGED <<mepc, mem, past>>
               /\ csr'["mscratch"] = csr["mscratch"]
               /\ DOMAIN regs' = Regs /\ DOMAIN csr' = {"sscratch", "mscratch"}
               /\ EntryInv' /\ RestoreInv'
  <2>1. pc'.at \in {"ret", "user"}
    BY <1>3
  <2>2. MachineInv' /\ Spc' = pc'
    BY <1>3, <2>1, Supervised
  <2>3. TypeInv'
    BY <1>1, <1>2, <1>3, <2>2 DEF TypeInv, Names, Length, past
  <2>4. SaveInv'
    BY <2>1, <2>2 DEF SaveInv
  <2> QED BY <1>3, <2>2, <2>3, <2>4 DEF CInv
<1> USE <1>1, <1>2
<1>4. CASE pc.i = 1 /\ Writes("sscratch", "a0")
  <2>1. /\ pc' = [at |-> "ret", i |-> 2] /\ UNCHANGED <<mepc, mem, regs, past>>
        /\ csr'["mscratch"] = csr["mscratch"] /\ csr'["sscratch"] = regs["a0"]
        /\ DOMAIN csr' = {"sscratch", "mscratch"}
    BY <1>4 DEF Writes, Onward
  <2>2. Spc' = pc' /\ Sreg' = regs' /\ UNCHANGED <<hit, ctx, traps, cause>>
    BY <2>1 DEF Spc, Sreg, past
  <2>3. EntryInv'
    BY <1>4, <2>1, <2>2 DEF EntryInv
  <2>4. RestoreInv'
    BY <1>4, <2>1, <2>2 DEF RestoreInv, Expected
  <2> QED BY <1>4, <2>1, <2>3, <2>4
<1>5. CASE pc.i = 2 /\ Copies("t6", "a0")
  <2>1. /\ pc' = [at |-> "ret", i |-> 3] /\ UNCHANGED <<mepc, mem, csr, past>>
        /\ DOMAIN regs' = Regs /\ regs'["t6"] = regs["a0"]
    BY <1>5, RegFacts DEF Copies, Onward
  <2>2. Spc' = pc' /\ Sreg' = regs' /\ UNCHANGED <<hit, ctx, traps, cause>>
    BY <2>1 DEF Spc, Sreg, past
  <2>3. EntryInv'
    BY <1>5, <2>1, <2>2 DEF EntryInv
  <2>4. RestoreInv'
    BY <1>5, <2>1, <2>2 DEF RestoreInv, EntryInv, Expected, Slots
  <2> QED BY <1>5, <2>1, <2>3, <2>4
<1>6. CASE pc.i \in 3..33 /\ Loads(RegFile[pc.i - 2], pc.i - 2, "t6")
  <2>1. PICK f \in Frames : /\ regs["t6"] = Kernel(f)
                            /\ regs' = [regs EXCEPT ![RegFile[pc.i - 2]] =
                                                      mem[f][pc.i - 2]]
    BY <1>6 DEF Loads
  <2>2. pc.i - 2 \in Slots
    BY <1>6 DEF Slots
  <2>3. /\ pc' = [at |-> "ret", i |-> pc.i + 1] /\ UNCHANGED <<mepc, mem, csr, past>>
    BY <1>6 DEF Loads, Onward
  <2>4. /\ DOMAIN regs' = Regs
        /\ \A r \in Regs : regs'[r] = IF r = RegFile[pc.i - 2]
                                      THEN mem[f][pc.i - 2] ELSE regs[r]
    BY <2>1
  <2>5. Spc' = pc' /\ Sreg' = regs' /\ UNCHANGED <<hit, ctx, traps, cause>>
    BY <2>3 DEF Spc, Sreg, past
  <2>6. EntryInv'
    BY <1>6, <2>3, <2>5 DEF EntryInv
  <2>7. ~hit => f = "tf"
    <3>1. ~hit => regs["t6"] = Kernel("tf")
      BY <1>6 DEF RestoreInv
    <3> QED BY <3>1, <2>1 DEF Kernel, Frames
  <2>8. \A r : Expected(r)' = Expected(r)
    BY <2>5 DEF Expected
  <2>9. ASSUME ~hit, NEW n \in Slots, n < pc'.i - 2, RegFile[n] # "t6"
        PROVE  regs'[RegFile[n]] = Expected(RegFile[n])
    <3>1. RegFile[n] \in Regs
      BY RegFacts
    <3>2. CASE n = pc.i - 2
      BY <2>9, <3>1, <3>2, <2>4, <2>7 DEF RestoreInv
    <3>3. CASE n # pc.i - 2
      <4>1. n < pc.i - 2 /\ RegFile[n] # RegFile[pc.i - 2]
        BY <2>9, <3>3, <2>2, <2>3, RegFacts DEF Slots
      <4> QED BY <2>9, <3>1, <4>1, <1>6, <2>4 DEF RestoreInv
    <3> QED BY <3>2, <3>3
  <2>10. ~hit /\ pc'.i \in 3..33 => regs'["t6"] = Kernel("tf")
    <3>1. pc'.i \in 3..33 => RegFile[pc.i - 2] # "t6"
      BY <2>2, <2>3, RegFacts DEF Slots
    <3> QED BY <3>1, <2>1, <2>4, <2>7, RegFacts
  <2>11. RestoreInv'
    <3>1. ~hit => \A n \in Slots : RegFile[n] # "t6" =>
                    mem["tf"][n] = Expected(RegFile[n])
      BY DEF RestoreInv
    <3> QED BY <2>3, <2>5, <2>8, <2>9, <2>10, <3>1 DEF RestoreInv
  <2> QED BY <1>6, <2>3, <2>4, <2>6, <2>11
<1>7. CASE pc.i = 34 /\ Sret
  <2>1. pc' = [at |-> "user", i |-> 1] /\ UNCHANGED <<mepc, regs, mem, csr, past>>
    BY <1>7 DEF Sret, L
  <2>2. Spc' = pc'
    BY <2>1 DEF Spc
  <2>3. EntryInv' /\ RestoreInv'
    BY <1>7, <2>1, <2>2 DEF EntryInv, RestoreInv
  <2> QED BY <2>1, <2>3
<1> QED BY RetSteps, <1>4, <1>5, <1>6, <1>7

\* smode_trap_handler and switch_to.
LEMMA HandlerStep ==
  ASSUME CInv, Next, ~TimerInterrupt, pc.at = "handler"
  PROVE  CInv'
<1>1. TypeInv /\ EntryInv /\ SaveInv
  BY DEF CInv
<1>2. Handler
  BY <1>1, OtherSteps
<1>3. /\ pc' = [at |-> "ret", i |-> 1] /\ UNCHANGED <<mepc, csr, past>>
      /\ regs' = InSwitch
  BY <1>2 DEF Handler, L
<1>4. /\ DOMAIN mem = Frames /\ DOMAIN mem["tf"] = 1..33
      /\ DOMAIN mem["itr"] = 1..33
  BY <1>1, NRegsIs DEF TypeInv, Frames
<1>5. /\ DOMAIN mem' = Frames /\ DOMAIN mem'["tf"] = 1..33
      /\ DOMAIN mem'["itr"] = 1..33
      /\ mem'["tf"][32] = Kernel("kstack")
      /\ mem'["tf"][33] = Kernel("smode_trap_handler")
      /\ \A n \in 1..31 : n # 10 => mem'["tf"][n] = mem["tf"][n]
      /\ mem'["tf"][10] = IF cause = "ecall" THEN Kernel("result")
                                             ELSE mem["tf"][10]
  BY <1>2, <1>4, NRegsIs DEF Handler, Frames
<1>6. DOMAIN regs' = Regs /\ regs'["a0"] = Kernel("tf")
  BY <1>3, RegFacts DEF InSwitch
<1>7. MachineInv' /\ Spc = pc /\ Spc' = pc' /\ Sreg' = regs'
  BY <1>3, Supervised
<1>8. UNCHANGED <<hit, ctx, traps, timers, cause>>
  BY <1>3 DEF past
<1>9. TypeInv'
  BY <1>1, <1>3, <1>5, <1>6, <1>7, <1>8, NRegsIs DEF TypeInv, Names, Length, Frames
<1>10. EntryInv'
  BY <1>3, <1>5, <1>6, <1>7, NRegsIs DEF EntryInv
<1>11. SaveInv'
  BY <1>3, <1>7 DEF SaveInv
<1>12. RestoreInv'
  <2>1. traps > 0
    BY <1>1, <1>7 DEF SaveInv
  <2>2. ASSUME ~hit, NEW n \in Slots, RegFile[n] # "t6"
        PROVE  mem'["tf"][n] = Expected(RegFile[n])
    <3>1. mem["tf"][n] = ctx[RegFile[n]]
      BY <1>1, <1>7, <2>2 DEF SaveInv
    <3>2. RegFile[n] = "a0" <=> n = 10
      BY RegFacts DEF Slots
    <3> QED BY <1>5, <2>1, <3>1, <3>2 DEF Expected, Slots
  <2>3. \A r : Expected(r)' = Expected(r)
    BY <1>8 DEF Expected
  <2>4. Spc'.i = 1
    BY <1>3, <1>7
  <2> QED BY <1>8, <2>2, <2>3, <2>4 DEF RestoreInv
<1> QED BY <1>7, <1>9, <1>10, <1>11, <1>12 DEF CInv

\* The application.
LEMMA UserStep ==
  ASSUME CInv, Next, ~TimerInterrupt, pc.at = "user"
  PROVE  CInv'
<1>1. TypeInv /\ EntryInv
  BY DEF CInv
<1>2. CASE UserRun
  <2>1. UNCHANGED <<pc, mepc, mem, csr, past>> /\ DOMAIN regs' = Regs
    BY <1>2 DEF UserRun
  <2>2. MachineInv' /\ Spc = pc /\ Spc' = pc
    BY <2>1, Supervised
  <2>3. TypeInv'
    BY <1>1, <2>1, <2>2 DEF TypeInv, past
  <2>4. EntryInv' /\ SaveInv' /\ RestoreInv'
    BY <1>1, <2>1, <2>2 DEF EntryInv, SaveInv, RestoreInv
  <2> QED BY <2>2, <2>3, <2>4 DEF CInv
<1>3. CASE UserTrap
  <2>1. /\ pc' = [at |-> "svec", i |-> 1] /\ traps' = traps + 1
        /\ ctx' = regs /\ UNCHANGED <<mepc, regs, mem, csr, timers, mctx>>
    BY <1>3 DEF UserTrap, L
  <2>2. MachineInv' /\ Spc = pc /\ Spc' = pc' /\ Sreg = regs /\ Sreg' = regs'
    BY <2>1, Supervised
  <2>3. TypeInv'
    BY <1>1, <2>1, <2>2 DEF TypeInv, Names, Length
  <2>4. EntryInv'
    BY <1>1, <2>1, <2>2 DEF EntryInv
  <2>5. traps \in Nat
    BY <1>1 DEF TypeInv
  <2>6. SaveInv' /\ RestoreInv'
    BY <2>1, <2>2, <2>5 DEF SaveInv, RestoreInv
  <2> QED BY <2>2, <2>3, <2>4, <2>6 DEF CInv
<1> QED BY <1>1, <1>2, <1>3, OtherSteps

LEMMA NextCInv == CInv /\ [Next]_vars => CInv'
<1>1. ASSUME CInv, Next PROVE CInv'
  <2>1. CASE TimerInterrupt
    BY <1>1, <2>1, TimerStep
  <2>2. CASE ~TimerInterrupt
    <3>1. pc.at \in {"svec", "ret", "mvec", "handler", "user"}
      BY <1>1 DEF CInv, TypeInv, Names, Spc
    <3> QED BY <1>1, <2>2, <3>1, MachineStep, VectorStep, ReturnStep,
              HandlerStep, UserStep
  <2> QED BY <2>1, <2>2
<1>2. ASSUME CInv, UNCHANGED vars PROVE CInv'
  BY <1>2 DEF CInv, TypeInv, MachineInv, EntryInv, SaveInv, RestoreInv, Spc, Sreg,
     Expected, vars, past
<1> QED BY <1>1, <1>2

---------------------------------------------------------------------------
(* The theorems.                                                           *)

\* The registers are where CInv says at every instruction of the vectors.
THEOREM ContextInvariant == Spec => []CInv
  BY InitCInv, NextCInv, PTL DEF Spec

\* smode_trap_vector always ends in smode_trap_handler, on the process's kernel
\* stack, and sscratch and mscratch hold their frames when they are relied on,
\* wherever the timer interrupts.
THEOREM KernelEntry == Spec => []KernelEntered
<1>1. CInv => KernelEntered
  BY DEF CInv, TypeInv, MachineInv, EntryInv, KernelEntered, Spc, Sreg
<1> QED BY <1>1, ContextInvariant, PTL

\* mtrapvec gives the code that it interrupted, the supervisor's included, all
\* its registers back but t6.
THEOREM TimerTransparent == Spec => []MTrapTransparent
<1>1. CInv => MTrapTransparent
  <2> SUFFICES ASSUME CInv, At("mret"), NEW r \in Regs \ {"t6"}
               PROVE  regs[r] = mctx[r]
    BY DEF MTrapTransparent
  <2>1. pc.at = "mvec" /\ pc.i = 71
    BY Places DEF CInv
  <2>2. PICK n \in Slots : RegFile[n] = r
    BY RegFacts
  <2> QED BY <2>1, <2>2 DEF CInv, MachineInv, Slots
<1> QED BY <1>1, ContextInvariant, PTL

\* The application continues with the registers it had, and a syscall's result
\* in a0, provided the timer did not fall into a supervisor macro: any number
\* of interrupts elsewhere, the C code and the vectors included, do no harm.
THEOREM ContextKept == Spec => []ContextPreserved
<1>1. CInv => ContextPreserved
  <2> SUFFICES ASSUME CInv, At("sret"), ~hit, NEW r \in Regs \ {"t6"}
               PROVE  regs[r] = Expected(r)
    BY DEF ContextPreserved
  <2>1. pc.at = "ret" /\ pc.i = 34 /\ Spc = pc /\ Sreg = regs
    BY Places DEF CInv, Spc, Sreg
  <2>2. PICK n \in Slots : RegFile[n] = r
    BY RegFacts
  <2> QED BY <2>1, <2>2 DEF CInv, RestoreInv, Slots
<1> QED BY <1>1, ContextInvariant, PTL

=============================================================================
