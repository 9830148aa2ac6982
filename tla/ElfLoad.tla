------------------------------ MODULE ElfLoad ------------------------------
(***************************************************************************)
(* Loading the application (kernel/elf.c): the command line, the segments  *)
(* of the host's ELF file, its symbol and string tables, the entry point.  *)
(* One step is one read of the file with the tests around it.  A word of   *)
(* memory is known by the file offset it was read from; addresses wrap at  *)
(* Wrap (2^64 in the code).  The host is external: a read may come up      *)
(* short or fail at any time.                                              *)
(***************************************************************************)
EXTENDS Integers, Sequences

CONSTANTS
  Wrap,            \* the size of the address space
  MAX_ERRNO,       \* the host's error codes are -1 .. -MAX_ERRNO (4095)
  MAX_USER_SYMS,   \* symbols the process has room for
  MAX_USER_STRTAB, \* words of names it has room for
  SymWords,        \* sizeof(elf_symbol), in words the size of sym_count
  ElfFiles,        \* bound: the files the host may hold
  CommandLines     \* bound: what HTIFSYS_getmainvars answers: pointers,
                   \* the kernel first

\* What an ELF file may say: the fields of a header are numbers below Wrap, and
\* the tables may be shorter than their counts.  ph is what lies where elf_load
\* looks for the program headers, from (int) phoff on: the file's own ones if
\* phoff is below 2^31, else other bytes of the file, or none.
Word == 0..(Wrap - 1)
ElfFile ==
  [magic : BOOLEAN, size : Nat, entry : Word,
   phnum : Nat, ph : Seq([load : BOOLEAN, off : Word, vaddr : Word,
                          filesz : Word, memsz : Word]),
   shnum : Nat, sh : Seq([symtab : BOOLEAN, off : Word, size : Word,
                          link : Word, entsize : Word])]

\* The tables of the process are so much smaller than the address space that
\* their lengths cannot be mistaken for a failed read.
ASSUME ElfAssumption ==
  /\ Wrap \in Nat /\ MAX_ERRNO \in Nat \ {0} /\ MAX_ERRNO < Wrap
  /\ MAX_USER_SYMS \in Nat /\ MAX_USER_STRTAB \in Nat
  /\ SymWords \in Nat \ {0}
  /\ ElfFiles \subseteq ElfFile
  /\ CommandLines \subseteq Seq(Nat) /\ << >> \notin CommandLines
  /\ MAX_USER_STRTAB < Wrap - MAX_ERRNO
  /\ (MAX_USER_SYMS + 1) * SymWords <= Wrap - MAX_ERRNO

VARIABLES
  pc,        \* the read that comes next
  file,      \* the file on the host
  cmd,       \* the command line on the host
  buf,       \* arg_bug_msg: its words, which argv overlays
  i,         \* the loop variable of the current loop
  opened,    \* the argument the loader opened, a pointer
  sym, str,  \* sym_hdr and str_hdr: indices of section headers
  mem,       \* memory, by file offset
  symtab, sym_count, strtab, strtab_sz,  \* the process's tables
  epc,       \* trapframe->epc
  short      \* history: has a read come up short?

args   == <<cmd, buf, opened>>
tables == <<symtab, sym_count, strtab, strtab_sz>>
vars   == <<pc, file, args, i, sym, str, mem, tables, epc, short>>

NONE == -1
Addresses == Word
\* What a failed read returns, as the unsigned values the loader compares.
Errors == (Wrap - MAX_ERRNO)..(Wrap - 1)

SymtabWords == MAX_USER_SYMS * SymWords

---------------------------------------------------------------------------
(* Reading the file.                                                       *)

\* spike_file_pread of n words at off: what it may return.
Pread(n, off) ==
  LET there == IF off < file.size THEN file.size - off ELSE 0
  IN 0..(IF n < there THEN n ELSE there) \cup Errors

\* The memory f after got words from off were stored at base.
Stored(f, base, off, got) ==
  [a \in DOMAIN f |->
     IF got \notin Errors /\ a - base \in 0..(got - 1) THEN off + a - base ELSE f[a]]

\* Did the read deliver fewer than its n words?
Lacking(got, n) == got \in Errors \/ got # n

\* Mutant: of a read only a failure is noticed.
CompleteNonzero(got, n) == got # 0

\* elf_fpread(...) == n, the test after every read.
Complete(got, n) == got = n

\* A header is read whole or not at all; index n may lie past the file.
HeaderRead(n, table) == IF n \in DOMAIN table THEN BOOLEAN ELSE {FALSE}

Fail == pc' = "panic"

---------------------------------------------------------------------------
(* load_bincode_from_host_elf.                                             *)

\* parse_args: the host fills the buffer with a count and the arguments.
ParseArgs ==
  /\ pc = "args"
  /\ \/ /\ buf' = [n \in 0..Len(cmd) |->
                     IF n = 0 THEN Len(cmd) ELSE cmd[n]]
        /\ pc' = "shift" /\ i' = 0
     \/ Fail /\ UNCHANGED <<buf, i>>
  /\ UNCHANGED <<file, cmd, opened, sym, str, mem, tables, epc, short>>

\* Mutant: the kernel's own name is not skipped.
ShiftedFromKernel(b, n) == [b EXCEPT ![n] = b[n + 1]]

\* argv[i] = pk_argv[1 + i], where argv and pk_argv overlay the same buffer.
Shifted(b, n) == [b EXCEPT ![n] = b[n + 2]]

\* pk_argc is read before the loop overwrites word 0.
ShiftArgs ==
  /\ pc = "shift"
  /\ IF i + 1 < Len(cmd)
     THEN buf' = Shifted(buf, i) /\ i' = i + 1 /\ UNCHANGED pc
     ELSE /\ IF i = 0 THEN Fail ELSE pc' = "open"
          /\ UNCHANGED <<buf, i>>
  /\ UNCHANGED <<file, cmd, opened, sym, str, mem, tables, epc, short>>

\* The file header can be read and has the magic of an ELF file.
elf_init == file.magic

\* spike_file_open of argv[0] and elf_init; either may fail.
OpenAndInit ==
  /\ pc = "open" /\ opened' = buf[0]
  /\ \/ elf_init /\ pc' = "load" /\ i' = 1
     \/ Fail /\ UNCHANGED i
  /\ UNCHANGED <<file, cmd, buf, sym, str, mem, tables, epc, short>>

\* Mutant: the two sizes are not compared.
SegmentRejectedWrap(ph) == (ph.vaddr + ph.memsz) % Wrap < ph.vaddr

SegmentRejected(ph) ==
  ph.memsz < ph.filesz \/ (ph.vaddr + ph.memsz) % Wrap < ph.vaddr

\* elf_alloc_mb: bare mode, the segment goes to its virtual address.
elf_alloc_mb(ph) == ph.vaddr

\* An iteration of elf_load: a header that cannot be read, one that is not
\* PT_LOAD, one that is refused, or memsz words read to their address.
ElfLoad ==
  /\ pc = "load" /\ i <= file.phnum
  /\ \E ok \in HeaderRead(i, file.ph) :
       \/ ~ok /\ Fail /\ short' = TRUE /\ UNCHANGED <<mem, i>>
       \/ /\ ok /\ ~file.ph[i].load
          /\ i' = i + 1 /\ UNCHANGED <<pc, mem, short>>
       \/ /\ ok /\ file.ph[i].load /\ SegmentRejected(file.ph[i])
          /\ Fail /\ UNCHANGED <<mem, i, short>>
       \/ /\ ok /\ file.ph[i].load /\ ~SegmentRejected(file.ph[i])
          /\ \E got \in Pread(file.ph[i].memsz, file.ph[i].off) :
               /\ mem' = Stored(mem, elf_alloc_mb(file.ph[i]), file.ph[i].off, got)
               /\ short' = (short \/ Lacking(got, file.ph[i].memsz))
               /\ IF Complete(got, file.ph[i].memsz)
                  THEN i' = i + 1 /\ UNCHANGED pc
                  ELSE Fail /\ UNCHANGED i
  /\ UNCHANGED <<file, args, sym, str, tables, epc>>

\* elf_load returns EL_OK; load_user_symbols starts.
ElfLoaded ==
  /\ pc = "load" /\ i > file.phnum
  /\ pc' = "find" /\ i' = 1
  /\ UNCHANGED <<file, args, sym, str, mem, tables, epc, short>>

\* load_user_symbols, first pass: the first section of type SHT_SYMTAB.
FindSymtab ==
  /\ pc = "find"
  /\ IF i > file.shnum
     THEN pc' = "entry" /\ UNCHANGED <<i, sym, short>>
     ELSE \E ok \in HeaderRead(i, file.sh) :
            \/ ~ok /\ Fail /\ short' = TRUE /\ UNCHANGED <<i, sym>>
            \/ /\ ok /\ file.sh[i].symtab
               /\ sym' = i /\ pc' = "strhdr" /\ UNCHANGED <<i, short>>
            \/ /\ ok /\ ~file.sh[i].symtab
               /\ i' = i + 1 /\ UNCHANGED <<pc, sym, short>>
  /\ UNCHANGED <<file, args, str, mem, tables, epc>>

\* The header that sym_hdr.link names: no test against shnum.
ReadStrHeader ==
  /\ pc = "strhdr"
  /\ \E ok \in HeaderRead(file.sh[sym].link, file.sh) :
       IF ok THEN str' = file.sh[sym].link /\ pc' = "str" /\ UNCHANGED short
             ELSE Fail /\ short' = TRUE /\ UNCHANGED str
  /\ UNCHANGED <<file, args, i, sym, mem, tables, epc>>

LoadStrtab ==
  /\ pc = "str"
  /\ LET h == file.sh[str] IN
     IF h.size > MAX_USER_STRTAB
     THEN Fail /\ UNCHANGED <<strtab, strtab_sz, short>>
     ELSE \E got \in Pread(h.size, h.off) :
            /\ strtab' = Stored(strtab, 0, h.off, got)
            /\ short' = (short \/ Lacking(got, h.size))
            /\ IF Complete(got, h.size)
               THEN strtab_sz' = h.size /\ pc' = "sym"
               ELSE Fail /\ UNCHANGED strtab_sz
  /\ UNCHANGED <<file, args, i, sym, str, mem, symtab, sym_count, epc>>

\* Mutant: a full table is one entry too long.
TooManyLate(h) == h.entsize = 0 \/ h.size \div h.entsize > MAX_USER_SYMS + 1

\* count > MAX_USER_SYMS; RISC-V divides by zero to all ones.
TooMany(h) == h.entsize = 0 \/ h.size \div h.entsize > MAX_USER_SYMS

\* The table is read whole, a last partial entry included: what does not fit
\* in symtab goes on into sym_count and strtab, which follow it.
LoadSymtab ==
  /\ pc = "sym"
  /\ LET h == file.sh[sym] IN
     IF TooMany(h) \/ h.entsize # SymWords
     THEN Fail /\ UNCHANGED <<symtab, sym_count, strtab, short>>
     ELSE \E got \in Pread(h.size, h.off) :
            /\ symtab' = Stored(symtab, 0, h.off, got)
            /\ strtab' = Stored(strtab, -(SymtabWords + 1), h.off, got)
            /\ short' = (short \/ Lacking(got, h.size))
            /\ IF Complete(got, h.size)
               THEN sym_count' = h.size \div h.entsize /\ pc' = "entry"
               ELSE Fail /\ UNCHANGED sym_count
  /\ UNCHANGED <<file, args, i, sym, str, mem, strtab_sz, epc>>

\* The entry point, and spike_file_close (see module SpikeFile).
SetEntry ==
  /\ pc = "entry"
  /\ epc' = file.entry /\ pc' = "done"
  /\ UNCHANGED <<file, args, i, sym, str, mem, tables, short>>

\* load_user_program returned, or shutdown's loop.
Finished == pc \in {"done", "panic"} /\ UNCHANGED vars

\* load_user_program cleared the trapframe; the process is zero-initialised.
Init ==
  /\ pc = "args" /\ file \in ElfFiles /\ cmd \in CommandLines
  /\ buf = << >> /\ opened = NONE /\ i = 0 /\ sym = 0 /\ str = 0
  /\ mem = [a \in Addresses |-> NONE]
  /\ symtab = [a \in 0..(SymtabWords - 1) |-> NONE] /\ sym_count = 0
  /\ strtab = [a \in 0..(MAX_USER_STRTAB - 1) |-> NONE] /\ strtab_sz = 0
  /\ epc = 0 /\ short = FALSE

Next ==
  \/ ParseArgs \/ ShiftArgs \/ OpenAndInit
  \/ ElfLoad \/ ElfLoaded
  \/ FindSymtab \/ ReadStrHeader \/ LoadStrtab \/ LoadSymtab
  \/ SetEntry \/ Finished

Spec == Init /\ [][Next]_vars

---------------------------------------------------------------------------

Segments == {n \in 1..file.phnum : file.ph[n].load}
InFile(n)  == file.ph[n].vaddr .. (file.ph[n].vaddr + file.ph[n].filesz - 1)
InMem(n)   == file.ph[n].vaddr .. (file.ph[n].vaddr + file.ph[n].memsz - 1)

\* No read of 2^64 - 4095 bytes or more: an error code could equal its length.
Readable == \A n \in Segments : file.ph[n].memsz \notin Errors

\* When the loader returns, every byte that a segment has in the file lies at
\* its own address, unless a later segment covers it, and memory outside the
\* segments is as before.  (elf_load reads memsz bytes, so that the bss holds
\* whatever follows the segment in the file.)
SegmentsInPlace ==
  pc = "done" /\ Readable =>
    \A a \in Addresses :
      /\ \A n \in Segments :
           /\ a \in InFile(n)
           /\ \A later \in Segments : later > n => a \notin InMem(later)
           => mem[a] = file.ph[n].off + a - file.ph[n].vaddr
      /\ (\A n \in Segments : a \notin InMem(n)) => mem[a] = NONE

\* The loader never hands over a partly loaded application: after a read that
\* came up short, wherever it was, load_user_program does not return.
NoPartialLoad == pc = "done" /\ Readable => ~short

\* When the loader returns, the symbols and names that sys_user_backtrace will
\* use are the file's, and none without a symbol table; a symbol table that is
\* not a whole number of entries is excepted, as its tail may reach strtab.
SymbolsExact ==
  pc = "done" /\ (sym # 0 => file.sh[sym].size % SymWords = 0) =>
    /\ sym = 0 => sym_count = 0
    /\ sym # 0 =>
         /\ sym_count * SymWords = file.sh[sym].size
         /\ \A a \in 0..(sym_count * SymWords - 1) :
              a \in DOMAIN symtab /\ symtab[a] = file.sh[sym].off + a
         /\ strtab_sz = file.sh[str].size
         /\ \A a \in 0..(strtab_sz - 1) : strtab[a] = file.sh[str].off + a

\* The application is the first argument after the kernel, although argv is
\* shifted inside the buffer it is read from.
OpensApplication == opened # NONE => opened = cmd[2]

=============================================================================
