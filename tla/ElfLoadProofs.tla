--------------------------- MODULE ElfLoadProofs ---------------------------
(***************************************************************************)
(* The safety properties of module ElfLoad, for every file, command line,  *)
(* address width and table size.  The loader's loops are followed by       *)
(* invariants over the headers they have already handled.                  *)
(***************************************************************************)
EXTENDS ElfLoad, TLAPS

Before == {"args", "shift", "open"}
After  == {"find", "strhdr", "str", "sym", "entry", "done"}

TypeInv ==
  /\ pc \in Before \cup After \cup {"load", "panic"}
  /\ file \in ElfFile /\ cmd \in Seq(Nat) /\ cmd # << >>
  /\ i \in Nat
  /\ mem \in [Addresses -> Int]
  /\ symtab \in [0..(SymtabWords - 1) -> Int]
  /\ strtab \in [0..(MAX_USER_STRTAB - 1) -> Int]

\* argv[n] is pk_argv[n + 1] up to the loop variable, and the buffer is as the
\* host filled it beyond.
ArgsInv ==
  /\ pc = "shift" =>
       /\ i < Len(cmd) /\ DOMAIN buf = 0..Len(cmd)
       /\ \A n \in 0..Len(cmd) :
            buf[n] = IF n < i THEN cmd[n + 2]
                     ELSE IF n = 0 THEN Len(cmd) ELSE cmd[n]
  /\ pc = "open" => buf[0] = cmd[2]
  /\ OpensApplication

\* The first k program headers were read, and the ones to be loaded accepted.
Accepted(k) ==
  \A n \in 1..k :
    n \in DOMAIN file.ph /\ (file.ph[n].load => ~SegmentRejected(file.ph[n]))

\* Word a is the one that segment n puts there; a is in none of the segments.
Holds(a, n) == mem[a] = file.ph[n].off + a - file.ph[n].vaddr
Topmost(a, n, k) ==
  /\ file.ph[n].load /\ a \in InMem(n)
  /\ \A later \in 1..k : file.ph[later].load /\ later > n => a \notin InMem(later)
Free(a, k) == \A n \in 1..k : file.ph[n].load => a \notin InMem(n)

\* Memory after the first k program headers.
Placed(k) ==
  \A a \in Addresses :
    /\ \A n \in 1..k : Topmost(a, n, k) => Holds(a, n)
    /\ Free(a, k) => mem[a] = NONE

LoadInv ==
  /\ pc \in Before => mem = [a \in Addresses |-> NONE]
  /\ pc = "load" => /\ i >= 1 /\ i <= file.phnum + 1
                    /\ Accepted(i - 1)
                    /\ Readable => Placed(i - 1)
  /\ pc \in After => Accepted(file.phnum) /\ (Readable => Placed(file.phnum))

\* A read that lacked words ends in the panic.
EntryInv == pc # "panic" /\ Readable => ~short

\* The names are those of section str; the symbols those of section sym.
NamesLoaded ==
  /\ strtab_sz = file.sh[str].size /\ strtab_sz <= MAX_USER_STRTAB
  /\ \A a \in 0..(strtab_sz - 1) : strtab[a] = file.sh[str].off + a

SymbolsLoaded ==
  /\ sym_count * SymWords = file.sh[sym].size
  /\ \A a \in 0..(sym_count * SymWords - 1) :
       a \in DOMAIN symtab /\ symtab[a] = file.sh[sym].off + a

Whole == file.sh[sym].size % SymWords = 0

TablesInv ==
  /\ pc \in Before \cup {"load", "find"} => sym = 0 /\ sym_count = 0
  /\ pc \in {"strhdr", "str", "sym"} => sym \in DOMAIN file.sh /\ sym # 0
  /\ pc \in {"str", "sym"} => str \in DOMAIN file.sh
  /\ pc = "sym" => NamesLoaded
  /\ pc \in {"entry", "done"} =>
       /\ sym = 0 => sym_count = 0
       /\ sym # 0 /\ Whole => NamesLoaded /\ SymbolsLoaded

\* The inductive invariant.
EInv == TypeInv /\ ArgsInv /\ LoadInv /\ EntryInv /\ TablesInv

---------------------------------------------------------------------------
(* Facts about files, reads and memory.                                    *)

\* The elements of a sequence.
LEMMA ElementOfSeq ==
  \A S, q : q \in Seq(S) => \A n \in DOMAIN q : q[n] \in S
  OBVIOUS

\* The fields of the headers are numbers.
LEMMA FileFacts ==
  TypeInv =>
    /\ file.phnum \in Nat /\ file.shnum \in Nat /\ file.size \in Nat
    /\ file.entry \in Nat
    /\ DOMAIN file.ph \subseteq Nat \ {0} /\ DOMAIN file.sh \subseteq Nat \ {0}
    /\ \A n \in DOMAIN file.ph :
         /\ file.ph[n].off \in Nat /\ file.ph[n].vaddr \in Nat
         /\ file.ph[n].filesz \in Nat /\ file.ph[n].memsz \in Nat
    /\ \A n \in DOMAIN file.sh :
         /\ file.sh[n].off \in Nat /\ file.sh[n].size \in Nat
         /\ file.sh[n].link \in Nat /\ file.sh[n].entsize \in Nat
<1> SUFFICES ASSUME TypeInv PROVE FileFacts!2
  OBVIOUS
<1>1. file \in ElfFile
  BY DEF TypeInv
<1>2. /\ file.phnum \in Nat /\ file.shnum \in Nat /\ file.size \in Nat
      /\ file.entry \in Word
      /\ file.ph \in Seq([load : BOOLEAN, off : Word, vaddr : Word,
                          filesz : Word, memsz : Word])
      /\ file.sh \in Seq([symtab : BOOLEAN, off : Word, size : Word,
                          link : Word, entsize : Word])
  BY <1>1 DEF ElfFile
<1>3. \A x \in Word : x \in Nat
  BY DEF Word
<1>4. DOMAIN file.ph \subseteq Nat \ {0} /\ DOMAIN file.sh \subseteq Nat \ {0}
  BY <1>2
<1>5. ASSUME NEW n \in DOMAIN file.ph
      PROVE  /\ file.ph[n].off \in Nat /\ file.ph[n].vaddr \in Nat
             /\ file.ph[n].filesz \in Nat /\ file.ph[n].memsz \in Nat
  <2>1. file.ph[n] \in [load : BOOLEAN, off : Word, vaddr : Word,
                        filesz : Word, memsz : Word]
    BY <1>2, ElementOfSeq, Zenon
  <2> QED BY <2>1, <1>3
<1>6. ASSUME NEW n \in DOMAIN file.sh
      PROVE  /\ file.sh[n].off \in Nat /\ file.sh[n].size \in Nat
             /\ file.sh[n].link \in Nat /\ file.sh[n].entsize \in Nat
  <2>1. file.sh[n] \in [symtab : BOOLEAN, off : Word, size : Word,
                        link : Word, entsize : Word]
    BY <1>2, ElementOfSeq, Zenon
  <2> QED BY <2>1, <1>3
<1> QED BY <1>2, <1>3, <1>4, <1>5, <1>6

\* A read returns a number.
LEMMA PreadType ==
  ASSUME TypeInv, NEW n \in Nat, NEW off \in Nat, NEW got \in Pread(n, off)
  PROVE  got \in Nat /\ got \in Int
<1>1. file.size \in Nat
  BY FileFacts
<1> QED BY <1>1, ElfAssumption DEF Pread, Errors

\* Storing keeps the type of a memory.
LEMMA StoredType ==
  ASSUME NEW S, S \subseteq Int, NEW f \in [S -> Int],
         NEW base \in Int, NEW off \in Int, NEW got \in Int
  PROVE  Stored(f, base, off, got) \in [S -> Int]
  BY DEF Stored

\* Division with remainder.
LEMMA DivMod ==
  ASSUME NEW x \in Nat, NEW w \in Nat, w > 0
  PROVE  /\ x = w * (x \div w) + (x % w)
         /\ x \div w \in Nat /\ x % w \in Nat /\ x % w < w
<1>1. x = w * (x \div w) + (x % w)
  OBVIOUS
<1>2. x \div w \in Nat
  OBVIOUS
<1>3. x % w \in Nat /\ x % w < w
  OBVIOUS
<1> QED BY <1>1, <1>2, <1>3

\* Multiplication is monotonic.
LEMMA TimesMonotonic ==
  ASSUME NEW x \in Nat, NEW y \in Nat, NEW w \in Nat, x <= y
  PROVE  x * w <= y * w
  OBVIOUS

\* The constants.
LEMMA ConstantFacts ==
  /\ SymWords \in Nat /\ SymWords > 0 /\ MAX_USER_SYMS \in Nat
  /\ MAX_USER_STRTAB \in Nat /\ Wrap \in Nat /\ MAX_ERRNO \in Nat /\ Wrap > 0
  /\ MAX_USER_STRTAB < Wrap - MAX_ERRNO
  /\ SymtabWords \in Nat /\ SymtabWords + SymWords <= Wrap - MAX_ERRNO
<1>1. /\ SymWords \in Nat /\ SymWords > 0 /\ MAX_USER_SYMS \in Nat
      /\ MAX_USER_STRTAB \in Nat /\ Wrap \in Nat /\ MAX_ERRNO \in Nat /\ Wrap > 0
      /\ MAX_USER_STRTAB < Wrap - MAX_ERRNO
  BY ElfAssumption DEF Errors
<1>2. /\ MAX_USER_SYMS * SymWords \in Nat
      /\ (MAX_USER_SYMS + 1) * SymWords = MAX_USER_SYMS * SymWords + SymWords
  BY <1>1
<1> QED BY <1>1, <1>2, ElfAssumption DEF SymtabWords

\* A symbol table of an accepted count has fewer words than one entry more; a
\* whole number of entries fits.
LEMMA TableFits ==
  ASSUME NEW size \in Nat, size \div SymWords <= MAX_USER_SYMS
  PROVE  /\ size < SymtabWords + SymWords
         /\ size \div SymWords \in Nat
         /\ size % SymWords = 0 =>
              /\ (size \div SymWords) * SymWords = size
              /\ size <= SymtabWords
<1> DEFINE q == size \div SymWords
<1>1. q \in Nat /\ size % SymWords \in Nat /\ size % SymWords < SymWords
      /\ size = SymWords * q + (size % SymWords)
  BY DivMod, ConstantFacts
<1> HIDE DEF q
<1>2. q * SymWords <= SymtabWords
  BY <1>1, ConstantFacts, TimesMonotonic DEF SymtabWords, q
<1>3. SymWords * q = q * SymWords /\ q * SymWords \in Nat
  BY <1>1, ConstantFacts
<1>4. size < SymtabWords + SymWords
  BY <1>1, <1>2, <1>3, ConstantFacts
<1>5. size % SymWords = 0 => q * SymWords = size /\ size <= SymtabWords
  BY <1>1, <1>2, <1>3, ConstantFacts
<1> QED BY <1>1, <1>4, <1>5 DEF q

---------------------------------------------------------------------------
(* The invariant is inductive.                                             *)

\* At reset of the loader.
LEMMA InitEInv == Init => EInv
<1> SUFFICES ASSUME Init PROVE EInv
  OBVIOUS
<1> USE ElfAssumption DEF Init
<1>1. TypeInv
  <2>1. file \in ElfFile /\ cmd \in Seq(Nat) /\ cmd # << >>
    OBVIOUS
  <2>2. /\ mem \in [Addresses -> Int]
        /\ symtab \in [0..(SymtabWords - 1) -> Int]
        /\ strtab \in [0..(MAX_USER_STRTAB - 1) -> Int]
    BY DEF NONE
  <2>3. pc \in Before /\ i \in Nat
    BY DEF Before
  <2> QED BY <2>1, <2>2, <2>3 DEF TypeInv
<1>2. ArgsInv
  BY DEF ArgsInv, OpensApplication
<1>3. LoadInv
  BY DEF LoadInv, After
<1>4. EntryInv
  BY DEF EntryInv
<1>5. TablesInv
  BY DEF TablesInv
<1> QED BY <1>1, <1>2, <1>3, <1>4, <1>5 DEF EInv

\* Neither the file nor the command line changes.
LEMMA HostStays == Next => file' = file /\ cmd' = cmd
  BY DEF Next, ParseArgs, ShiftArgs, OpenAndInit, ElfLoad, ElfLoaded,
     FindSymtab, ReadStrHeader, LoadStrtab, LoadSymtab, SetEntry, Finished,
     args, tables, vars

\* The types.
LEMMA TypeInvStep == EInv /\ Next => TypeInv'
<1> SUFFICES ASSUME EInv, Next PROVE TypeInv'
  OBVIOUS
<1> TypeInv
  BY DEF EInv
<1>1. file' = file /\ cmd' = cmd
  BY HostStays
<1> USE <1>1, FileFacts DEF Before, After, Fail, args, tables
<1>2. CASE ParseArgs
  BY <1>2 DEF ParseArgs, TypeInv
<1>3. CASE ShiftArgs
  BY <1>3 DEF ShiftArgs, TypeInv
<1>4. CASE OpenAndInit
  BY <1>4 DEF OpenAndInit, TypeInv
<1>5. CASE ElfLoad
  <2>1. mem' \in [Addresses -> Int]
    <3>1. CASE mem' = mem
      BY <3>1 DEF TypeInv
    <3>2. CASE mem' # mem
      <4>1. i \in DOMAIN file.ph
        BY <1>5, <3>2 DEF ElfLoad, HeaderRead
      <4>2. PICK got \in Pread(file.ph[i].memsz, file.ph[i].off) :
              mem' = Stored(mem, file.ph[i].vaddr, file.ph[i].off, got)
        BY <1>5, <3>2 DEF ElfLoad, elf_alloc_mb
      <4>3. got \in Int
        BY <4>1, PreadType
      <4> QED
        <5>1. Addresses \subseteq Int
          BY ConstantFacts DEF Addresses, Word
        <5>2. file.ph[i].vaddr \in Int /\ file.ph[i].off \in Int
          BY <4>1
        <5>3. mem \in [Addresses -> Int]
          BY DEF TypeInv
        <5> HIDE <1>1, FileFacts
        <5>4. Stored(mem, file.ph[i].vaddr, file.ph[i].off, got)
                \in [Addresses -> Int]
          BY <4>3, <5>1, <5>2, <5>3, StoredType, Zenon
        <5> QED BY <4>2, <5>4
    <3> QED BY <3>1, <3>2
  <2>2. pc' \in {"load", "panic"} /\ i' \in Nat
    BY <1>5 DEF ElfLoad, TypeInv
  <2> QED BY <1>5, <2>1, <2>2 DEF ElfLoad, TypeInv
<1>6. CASE ElfLoaded
  BY <1>6 DEF ElfLoaded, TypeInv
<1>7. CASE FindSymtab
  <2>1. pc' \in {"find", "entry", "panic", "strhdr"} /\ i' \in Nat
    BY <1>7 DEF FindSymtab, TypeInv
  <2> QED BY <1>7, <2>1 DEF FindSymtab, TypeInv
<1>8. CASE ReadStrHeader
  BY <1>8 DEF ReadStrHeader, TypeInv
<1>9. CASE LoadStrtab
  <2>1. strtab' \in [0..(MAX_USER_STRTAB - 1) -> Int]
    <3>1. CASE strtab' = strtab
      BY <3>1 DEF TypeInv
    <3>2. CASE strtab' # strtab
      <4>1. str \in DOMAIN file.sh
        BY <1>9 DEF LoadStrtab, EInv, TablesInv
      <4>2. PICK got \in Pread(file.sh[str].size, file.sh[str].off) :
              strtab' = Stored(strtab, 0, file.sh[str].off, got)
        BY <1>9, <3>2 DEF LoadStrtab
      <4>3. got \in Int
        BY <4>1, PreadType
      <4>4. /\ 0..(MAX_USER_STRTAB - 1) \subseteq Int
            /\ file.sh[str].off \in Int /\ 0 \in Int
        BY <4>1, ConstantFacts
      <4>5. strtab \in [0..(MAX_USER_STRTAB - 1) -> Int]
        BY DEF TypeInv
      <4> HIDE <1>1, FileFacts
      <4>6. Stored(strtab, 0, file.sh[str].off, got)
              \in [0..(MAX_USER_STRTAB - 1) -> Int]
        BY <4>3, <4>4, <4>5, StoredType, Zenon
      <4> QED BY <4>2, <4>6
    <3> QED BY <3>1, <3>2
  <2> QED BY <1>9, <2>1 DEF LoadStrtab, TypeInv
<1>10. CASE LoadSymtab
  <2>1. /\ strtab' \in [0..(MAX_USER_STRTAB - 1) -> Int]
        /\ symtab' \in [0..(SymtabWords - 1) -> Int]
    <3>1. CASE strtab' = strtab /\ symtab' = symtab
      BY <3>1 DEF TypeInv
    <3>2. CASE ~(strtab' = strtab /\ symtab' = symtab)
      <4>1. sym \in DOMAIN file.sh
        BY <1>10 DEF LoadSymtab, EInv, TablesInv
      <4>2. PICK got \in Pread(file.sh[sym].size, file.sh[sym].off) :
              /\ symtab' = Stored(symtab, 0, file.sh[sym].off, got)
              /\ strtab' = Stored(strtab, -(SymtabWords + 1),
                                  file.sh[sym].off, got)
        BY <1>10, <3>2 DEF LoadSymtab
      <4>3. got \in Int
        BY <4>1, PreadType
      <4>4. /\ 0..(MAX_USER_STRTAB - 1) \subseteq Int
            /\ 0..(SymtabWords - 1) \subseteq Int
            /\ file.sh[sym].off \in Int /\ -(SymtabWords + 1) \in Int /\ 0 \in Int
        BY <4>1, ConstantFacts
      <4> /\ strtab \in [0..(MAX_USER_STRTAB - 1) -> Int]
          /\ symtab \in [0..(SymtabWords - 1) -> Int]
        BY DEF TypeInv
      <4> HIDE <1>1, FileFacts
      <4>5. symtab' \in [0..(SymtabWords - 1) -> Int]
        <5>1. Stored(symtab, 0, file.sh[sym].off, got)
                \in [0..(SymtabWords - 1) -> Int]
          BY <4>3, <4>4, StoredType, Zenon
        <5> QED BY <4>2, <5>1
      <4>6. strtab' \in [0..(MAX_USER_STRTAB - 1) -> Int]
        <5>1. Stored(strtab, -(SymtabWords + 1), file.sh[sym].off, got)
                \in [0..(MAX_USER_STRTAB - 1) -> Int]
          BY <4>3, <4>4, StoredType, Zenon
        <5> QED BY <4>2, <5>1
      <4> QED BY <4>5, <4>6
    <3> QED BY <3>1, <3>2
  <2> QED BY <1>10, <2>1 DEF LoadSymtab, TypeInv
<1>11. CASE SetEntry
  BY <1>11 DEF SetEntry, TypeInv
<1>12. CASE Finished
  BY <1>12 DEF Finished, vars, TypeInv
<1> QED
  BY <1>2, <1>3, <1>4, <1>5, <1>6, <1>7, <1>8, <1>9, <1>10, <1>11, <1>12
  DEF Next

\* The arguments: word 0 of the buffer becomes the second argument in the first
\* iteration, and no later one touches it.
LEMMA ArgsInvStep == EInv /\ Next => ArgsInv'
<1> SUFFICES ASSUME EInv, Next PROVE ArgsInv'
  OBVIOUS
<1> TypeInv /\ ArgsInv
  BY DEF EInv
<1>1. file' = file /\ cmd' = cmd
  BY HostStays
<1>2. Len(cmd) \in Nat /\ Len(cmd) > 0
  BY DEF TypeInv
<1> USE <1>1 DEF ArgsInv, OpensApplication, Fail, args
<1>3. CASE ParseArgs
  BY <1>3, <1>2 DEF ParseArgs
<1>4. CASE ShiftArgs
  <2>1. opened' = opened /\ pc = "shift" /\ i \in Nat
    BY <1>4 DEF ShiftArgs, TypeInv
  <2>2. CASE i + 1 < Len(cmd)
    <3>1. /\ buf' = [buf EXCEPT ![i] = buf[i + 2]] /\ i' = i + 1 /\ pc' = "shift"
      BY <1>4, <2>2 DEF ShiftArgs, Shifted
    <3>2. i \in 0..Len(cmd) /\ i + 2 \in 0..Len(cmd) /\ i' < Len(cmd)
      BY <2>1, <2>2, <1>2, <3>1
    <3>3. buf[i + 2] = cmd[i + 2]
      BY <2>1, <3>2
    <3>4. ASSUME NEW n \in 0..Len(cmd)
          PROVE  buf'[n] = IF n < i' THEN cmd[n + 2]
                           ELSE IF n = 0 THEN Len(cmd) ELSE cmd[n]
      <4>1. CASE n = i
        BY <4>1, <2>1, <3>1, <3>2, <3>3
      <4>2. CASE n # i
        <5>1. buf'[n] = buf[n]
          BY <4>2, <2>1, <3>1
        <5>2. n < i' <=> n < i
          BY <4>2, <2>1, <3>1
        <5> QED BY <5>1, <5>2, <2>1
      <4> QED BY <4>1, <4>2
    <3>5. DOMAIN buf' = 0..Len(cmd)
      BY <2>1, <3>1
    <3> QED BY <2>1, <3>1, <3>2, <3>4, <3>5
  <2>3. CASE ~(i + 1 < Len(cmd)) /\ i = 0
    BY <1>4, <2>1, <2>3 DEF ShiftArgs
  <2>4. CASE ~(i + 1 < Len(cmd)) /\ i # 0
    <3>1. pc' = "open" /\ buf' = buf
      BY <1>4, <2>4 DEF ShiftArgs
    <3>2. buf[0] = cmd[2]
      BY <1>2, <2>1, <2>4
    <3> QED BY <2>1, <3>1, <3>2
  <2> QED BY <2>2, <2>3, <2>4
<1>5. CASE OpenAndInit
  BY <1>5 DEF OpenAndInit
<1>6. CASE ElfLoad
  BY <1>6 DEF ElfLoad
<1>7. CASE ElfLoaded
  BY <1>7 DEF ElfLoaded
<1>8. CASE FindSymtab
  BY <1>8 DEF FindSymtab
<1>9. CASE ReadStrHeader
  BY <1>9 DEF ReadStrHeader
<1>10. CASE LoadStrtab
  BY <1>10 DEF LoadStrtab
<1>11. CASE LoadSymtab
  BY <1>11 DEF LoadSymtab
<1>12. CASE SetEntry
  BY <1>12 DEF SetEntry
<1>13. CASE Finished
  BY <1>13 DEF Finished, vars
<1> QED
  BY <1>3, <1>4, <1>5, <1>6, <1>7, <1>8, <1>9, <1>10, <1>11, <1>12, <1>13
  DEF Next

\* One segment more: the words it covers come from it, the others stay.
LEMMA PlacedStep ==
  ASSUME TypeInv, NEW k \in Nat, k + 1 \in DOMAIN file.ph,
         file.ph[k + 1].load, file.ph[k + 1].memsz \notin Errors,
         Placed(k), file' = file,
         mem' = Stored(mem, file.ph[k + 1].vaddr, file.ph[k + 1].off,
                       file.ph[k + 1].memsz)
  PROVE  \A a \in Addresses :
           /\ \A n \in 1..(k + 1) :
                Topmost(a, n, k + 1) =>
                  mem'[a] = file.ph[n].off + a - file.ph[n].vaddr
           /\ Free(a, k + 1) => mem'[a] = NONE
<1> DEFINE h == file.ph[k + 1]
<1>1. h.off \in Nat /\ h.vaddr \in Nat /\ h.memsz \in Nat
  BY FileFacts
<1> SUFFICES ASSUME NEW a \in Addresses
             PROVE  /\ \A n \in 1..(k + 1) :
                         Topmost(a, n, k + 1) =>
                           mem'[a] = file.ph[n].off + a - file.ph[n].vaddr
                    /\ Free(a, k + 1) => mem'[a] = NONE
  OBVIOUS
<1>2. a \in Int
  BY ConstantFacts DEF Addresses, Word
<1>3. InMem(k + 1) = h.vaddr .. (h.vaddr + h.memsz - 1)
  BY DEF InMem
<1> HIDE DEF h
<1>4. a \in InMem(k + 1) <=> a - h.vaddr \in 0..(h.memsz - 1)
  <2>1. a \in InMem(k + 1) <=> h.vaddr <= a /\ a <= h.vaddr + h.memsz - 1
    BY <1>1, <1>2, <1>3
  <2>2. /\ a - h.vaddr \in Int
        /\ h.vaddr <= a <=> 0 <= a - h.vaddr
        /\ a <= h.vaddr + h.memsz - 1 <=> a - h.vaddr <= h.memsz - 1
    BY <1>1, <1>2
  <2> QED BY <1>1, <2>1, <2>2
<1>5. mem'[a] = IF a \in InMem(k + 1) THEN h.off + a - h.vaddr ELSE mem[a]
  BY <1>4 DEF Stored, TypeInv, h
<1>6. CASE a \in InMem(k + 1)
  <2>1. ~Free(a, k + 1)
    BY <1>6 DEF Free
  <2>2. ASSUME NEW n \in 1..(k + 1), Topmost(a, n, k + 1)
        PROVE  n = k + 1
    BY <1>6, <2>2 DEF Topmost
  <2> QED BY <1>5, <1>6, <2>1, <2>2 DEF h
<1>7. CASE a \notin InMem(k + 1)
  <2>1. ASSUME NEW n \in 1..(k + 1), Topmost(a, n, k + 1)
        PROVE  n \in 1..k /\ Topmost(a, n, k)
    BY <1>7, <2>1 DEF Topmost
  <2>2. Free(a, k + 1) => Free(a, k)
    BY DEF Free
  <2> QED BY <1>5, <1>7, <2>1, <2>2 DEF Placed, Holds
<1> QED BY <1>6, <1>7

\* A header that is not to be loaded changes nothing.
LEMMA PlacedSkip ==
  ASSUME NEW k \in Nat, ~file.ph[k + 1].load, Placed(k)
  PROVE  Placed(k + 1)
<1> SUFFICES ASSUME NEW a \in Addresses
             PROVE  /\ \A n \in 1..(k + 1) : Topmost(a, n, k + 1) => Holds(a, n)
                    /\ Free(a, k + 1) => mem[a] = NONE
  BY DEF Placed
<1>1. ASSUME NEW n \in 1..(k + 1), Topmost(a, n, k + 1)
      PROVE  n \in 1..k /\ Topmost(a, n, k)
  BY <1>1 DEF Topmost
<1>2. Free(a, k + 1) => Free(a, k)
  BY DEF Free
<1> QED BY <1>1, <1>2 DEF Placed

\* Memory: one iteration of elf_load keeps the invariant over the headers
\* handled so far, and nothing after elf_load writes the segments.
LEMMA LoadInvStep == EInv /\ Next => LoadInv'
<1> SUFFICES ASSUME EInv, Next PROVE LoadInv'
  OBVIOUS
<1> TypeInv /\ LoadInv
  BY DEF EInv
<1>1. file' = file
  BY HostStays
<1>2. mem' = mem /\ pc \in Before /\ pc' \in Before \cup {"panic"} => LoadInv'
  BY DEF LoadInv, Before, After
<1>3. mem' = mem /\ pc \in After /\ pc' \in After \cup {"panic"} => LoadInv'
  <2> SUFFICES ASSUME mem' = mem, pc \in After, pc' \in After \cup {"panic"}
               PROVE  LoadInv'
    OBVIOUS
  <2>1. Accepted(file.phnum)' /\ (Readable => Placed(file.phnum))'
    BY <1>1 DEF LoadInv, Accepted, SegmentRejected, Readable, Segments, Placed,
       Topmost, Holds, Free, InMem
  <2> QED BY <2>1 DEF LoadInv, Before, After
<1> HIDE DEF LoadInv
<1> USE DEF Fail, args, tables
<1>4. CASE ParseArgs
  BY <1>4, <1>2 DEF ParseArgs, Before
<1>5. CASE ShiftArgs
  BY <1>5, <1>2 DEF ShiftArgs, Before
<1>6. CASE OpenAndInit
  <2>1. CASE pc' = "panic"
    BY <1>6, <2>1, <1>2 DEF OpenAndInit, Before
  <2>2. CASE pc' # "panic"
    <3>1. pc' = "load" /\ i' = 1 /\ mem' = mem /\ pc \in Before
      BY <1>6, <2>2 DEF OpenAndInit, Before
    <3>2. mem' = [a \in Addresses |-> NONE]
      BY <3>1 DEF LoadInv
    <3>3. Accepted(i - 1)' /\ Placed(i - 1)'
      BY <3>1, <3>2 DEF Accepted, Placed
    <3>4. file.phnum \in Nat
      BY FileFacts
    <3> QED BY <1>1, <3>1, <3>3, <3>4 DEF LoadInv, Before, After
  <2> QED BY <2>1, <2>2
<1>7. CASE ElfLoad
  <2>1. /\ pc = "load" /\ i <= file.phnum /\ i \in Nat /\ i >= 1
        /\ Accepted(i - 1) /\ (Readable => Placed(i - 1)) /\ file.phnum \in Nat
    BY <1>7, FileFacts DEF ElfLoad, LoadInv, TypeInv
  <2>2. CASE pc' = "panic"
    BY <2>2 DEF LoadInv, Before, After
  <2>3. CASE pc' # "panic"
    <3>1. /\ i \in DOMAIN file.ph /\ pc' = "load" /\ i' = i + 1
          /\ file.ph[i].load => ~SegmentRejected(file.ph[i])
      BY <1>7, <2>1, <2>3 DEF ElfLoad, HeaderRead
    <3>2. Accepted(i - 1)'
      <4>1. i' - 1 = i
        BY <2>1, <3>1
      <4>2. \A n \in 1..i : n = i \/ n \in 1..(i - 1)
        BY <2>1
      <4> QED BY <1>1, <2>1, <3>1, <4>1, <4>2 DEF Accepted, SegmentRejected
    <3>3. ASSUME Readable PROVE Placed(i - 1)'
      <4>1. Placed(i - 1) /\ i - 1 \in Nat /\ (i - 1) + 1 = i /\ i' - 1 = i
        BY <2>1, <3>1, <3>3
      <4>2. CASE ~file.ph[i].load
        <5>1. mem' = mem
          BY <1>7, <2>1, <3>1, <4>2 DEF ElfLoad
        <5>2. Placed(i)
          BY <4>1, <4>2, PlacedSkip
        <5> QED BY <1>1, <4>1, <5>1, <5>2 DEF Placed, Topmost, Holds, Free, InMem
      <4>3. CASE file.ph[i].load
        <5>1. file.ph[i].memsz \notin Errors
          BY <2>1, <3>3, <4>3 DEF Readable, Segments
        <5>2. mem' = Stored(mem, file.ph[i].vaddr, file.ph[i].off,
                            file.ph[i].memsz)
          BY <1>7, <2>1, <2>3, <4>3 DEF ElfLoad, Complete, elf_alloc_mb
        <5>3. \A a \in Addresses :
                /\ \A n \in 1..i :
                     Topmost(a, n, i) =>
                       mem'[a] = file.ph[n].off + a - file.ph[n].vaddr
                /\ Free(a, i) => mem'[a] = NONE
          BY <1>1, <3>1, <4>1, <4>3, <5>1, <5>2, PlacedStep
        <5> QED BY <1>1, <4>1, <5>3 DEF Placed, Topmost, Holds, Free, InMem
      <4> QED BY <4>2, <4>3
    <3>4. Readable' => Readable
      BY <1>1 DEF Readable, Segments
    <3>5. i' >= 1 /\ i' <= file.phnum + 1
      BY <2>1, <3>1
    <3> QED BY <1>1, <3>1, <3>2, <3>3, <3>4, <3>5 DEF LoadInv, Before, After
  <2> QED BY <2>2, <2>3
<1>8. CASE ElfLoaded
  <2>1. /\ pc = "load" /\ i = file.phnum + 1 /\ mem' = mem /\ pc' = "find"
        /\ Accepted(i - 1) /\ (Readable => Placed(i - 1)) /\ file.phnum \in Nat
    BY <1>8, FileFacts DEF ElfLoaded, LoadInv, TypeInv
  <2>2. i - 1 = file.phnum
    BY <2>1
  <2>3. Accepted(file.phnum)' /\ (Readable => Placed(file.phnum))'
    BY <1>1, <2>1, <2>2 DEF Accepted, SegmentRejected, Readable, Segments,
       Placed, Topmost, Holds, Free, InMem
  <2> QED BY <2>1, <2>3 DEF LoadInv, Before, After
<1>9. CASE FindSymtab
  BY <1>9, <1>3 DEF FindSymtab, After
<1>10. CASE ReadStrHeader
  BY <1>10, <1>3 DEF ReadStrHeader, After
<1>11. CASE LoadStrtab
  BY <1>11, <1>3 DEF LoadStrtab, After
<1>12. CASE LoadSymtab
  BY <1>12, <1>3 DEF LoadSymtab, After
<1>13. CASE SetEntry
  BY <1>13, <1>3 DEF SetEntry, After
<1>14. CASE Finished
  <2>1. CASE pc = "done"
    BY <1>14, <2>1, <1>3 DEF Finished, vars, After
  <2>2. CASE pc = "panic"
    BY <1>14, <2>2 DEF Finished, vars, LoadInv, Before, After
  <2> QED BY <1>14, <2>1, <2>2 DEF Finished
<1> QED
  BY <1>4, <1>5, <1>6, <1>7, <1>8, <1>9, <1>10, <1>11, <1>12, <1>13, <1>14
  DEF Next

\* A read that lacks words: of a segment, unless it asks for as many words as an
\* error code says, and of the tables always, the test after it fails.
LEMMA EntryInvStep == EInv /\ Next => EntryInv'
<1> SUFFICES ASSUME EInv, Next PROVE EntryInv'
  OBVIOUS
<1> TypeInv /\ EntryInv
  BY DEF EInv
<1>1. file' = file
  BY HostStays
<1>2. Readable' => Readable
  BY <1>1 DEF Readable, Segments
<1>3. (short' => short) /\ pc # "panic" => EntryInv'
  BY <1>2 DEF EntryInv
<1>4. pc' = "panic" => EntryInv'
  BY DEF EntryInv
<1> HIDE DEF EntryInv
<1> USE DEF Fail, args, tables
<1>5. CASE ParseArgs
  BY <1>5, <1>3 DEF ParseArgs
<1>6. CASE ShiftArgs
  BY <1>6, <1>3 DEF ShiftArgs
<1>7. CASE OpenAndInit
  BY <1>7, <1>3 DEF OpenAndInit
<1>8. CASE ElfLoad
  <2>1. CASE pc' = "panic"
    BY <1>8, <2>1, <1>4 DEF ElfLoad
  <2>2. CASE pc' # "panic" /\ (short' => short)
    BY <1>8, <2>2, <1>3 DEF ElfLoad
  <2>3. CASE pc' # "panic" /\ ~(short' => short)
    <3>1. /\ i \in DOMAIN file.ph /\ file.ph[i].load /\ i <= file.phnum
          /\ file.ph[i].memsz \in Errors /\ pc = "load"
      BY <1>8, <2>3 DEF ElfLoad, HeaderRead, Lacking, Complete
    <3>2. ~Readable
      <4>1. i \in 1..file.phnum
        BY <3>1, FileFacts
      <4> QED BY <3>1, <4>1 DEF Readable, Segments
    <3> QED BY <1>2, <3>1, <3>2 DEF EntryInv
  <2> QED BY <2>1, <2>2, <2>3
<1>9. CASE ElfLoaded
  BY <1>9, <1>3 DEF ElfLoaded
<1>10. CASE FindSymtab
  <2>1. CASE pc' = "panic"
    BY <1>10, <2>1, <1>4 DEF FindSymtab
  <2>2. CASE pc' # "panic"
    BY <1>10, <2>2, <1>3 DEF FindSymtab
  <2> QED BY <2>1, <2>2
<1>11. CASE ReadStrHeader
  <2>1. CASE pc' = "panic"
    BY <1>11, <2>1, <1>4 DEF ReadStrHeader
  <2>2. CASE pc' # "panic"
    BY <1>11, <2>2, <1>3 DEF ReadStrHeader
  <2> QED BY <2>1, <2>2
<1>12. CASE LoadStrtab
  <2>1. CASE pc' = "panic"
    BY <1>12, <2>1, <1>4 DEF LoadStrtab
  <2>2. CASE pc' # "panic"
    <3>1. str \in DOMAIN file.sh
      BY <1>12 DEF LoadStrtab, EInv, TablesInv
    <3>2. file.sh[str].size \in Nat /\ file.sh[str].size <= MAX_USER_STRTAB
      BY <1>12, <2>2, <3>1, FileFacts, ConstantFacts DEF LoadStrtab
    <3>3. file.sh[str].size \notin Errors
      BY <3>2, ConstantFacts DEF Errors
    <3>4. ~short => ~short'
      BY <1>12, <2>2, <3>3 DEF LoadStrtab, Lacking, Complete
    <3>5. pc = "str" /\ pc' = "sym"
      BY <1>12, <2>2 DEF LoadStrtab
    <3> QED BY <1>2, <3>4, <3>5 DEF EntryInv
  <2> QED BY <2>1, <2>2
<1>13. CASE LoadSymtab
  <2>1. CASE pc' = "panic"
    BY <1>13, <2>1, <1>4 DEF LoadSymtab
  <2>2. CASE pc' # "panic"
    <3>1. sym \in DOMAIN file.sh
      BY <1>13 DEF LoadSymtab, EInv, TablesInv
    <3>2. file.sh[sym].size \in Nat
      BY <3>1, FileFacts
    <3>3. ~TooMany(file.sh[sym]) /\ file.sh[sym].entsize = SymWords
      BY <1>13, <2>2 DEF LoadSymtab
    <3>4. ~(file.sh[sym].size \div SymWords > MAX_USER_SYMS)
      BY <3>3 DEF TooMany
    <3>5. file.sh[sym].size < SymtabWords + SymWords
      <4>1. file.sh[sym].size \div SymWords \in Nat
        BY <3>2, ConstantFacts, DivMod
      <4>2. file.sh[sym].size \div SymWords <= MAX_USER_SYMS
        BY <3>4, <4>1, ConstantFacts
      <4> QED BY <3>2, <4>2, TableFits
    <3>6. file.sh[sym].size \notin Errors
      BY <3>2, <3>5, ConstantFacts DEF Errors
    <3>7. ~short => ~short'
      BY <1>13, <2>2, <3>3, <3>6 DEF LoadSymtab, Lacking, Complete
    <3>8. pc = "sym" /\ pc' = "entry"
      BY <1>13, <2>2 DEF LoadSymtab
    <3> QED BY <1>2, <3>7, <3>8 DEF EntryInv
  <2> QED BY <2>1, <2>2
<1>14. CASE SetEntry
  BY <1>14, <1>2 DEF SetEntry, EntryInv
<1>15. CASE Finished
  BY <1>15, <1>2 DEF Finished, vars, EntryInv
<1> QED
  BY <1>5, <1>6, <1>7, <1>8, <1>9, <1>10, <1>11, <1>12, <1>13, <1>14, <1>15
  DEF Next

\* The tables: each is read whole into its array, and reading the symbols
\* leaves the names alone when they are a whole number of entries.
LEMMA TablesInvStep == EInv /\ Next => TablesInv'
<1> SUFFICES ASSUME EInv, Next PROVE TablesInv'
  OBVIOUS
<1> TypeInv /\ TablesInv
  BY DEF EInv
<1>1. file' = file
  BY HostStays
<1>2. pc' = "panic" => TablesInv'
  BY DEF TablesInv, Before
<1>3. UNCHANGED <<sym, sym_count>> /\ pc \in Before \cup {"load"}
        /\ pc' \in Before \cup {"load", "find"}
        => TablesInv'
  BY DEF TablesInv, Before
<1> USE DEF Fail, args, tables
<1>4. CASE ParseArgs
  BY <1>4, <1>2, <1>3 DEF ParseArgs, Before
<1>5. CASE ShiftArgs
  BY <1>5, <1>2, <1>3 DEF ShiftArgs, Before
<1>6. CASE OpenAndInit
  BY <1>6, <1>2, <1>3 DEF OpenAndInit, Before
<1>7. CASE ElfLoad
  BY <1>7, <1>2, <1>3 DEF ElfLoad
<1>8. CASE ElfLoaded
  BY <1>8, <1>3 DEF ElfLoaded
<1>9. CASE FindSymtab
  <2>1. pc = "find" /\ sym = 0 /\ sym_count = 0 /\ sym_count' = sym_count
    BY <1>9 DEF FindSymtab, TablesInv
  <2>2. CASE pc' \in {"find", "entry"} /\ sym' = sym
    BY <2>1, <2>2 DEF TablesInv, Before
  <2>3. CASE pc' = "strhdr"
    <3>1. sym' \in DOMAIN file.sh
      BY <1>9, <2>3 DEF FindSymtab, HeaderRead
    <3>2. sym' # 0
      BY <3>1, FileFacts
    <3> QED BY <1>1, <2>3, <3>1, <3>2 DEF TablesInv, Before
  <2>4. (pc' \in {"find", "entry"} /\ sym' = sym) \/ pc' \in {"strhdr", "panic"}
    BY <1>9 DEF FindSymtab
  <2> QED BY <1>2, <2>2, <2>3, <2>4
<1>10. CASE ReadStrHeader
  <2>1. pc = "strhdr" /\ sym \in DOMAIN file.sh /\ sym # 0 /\ sym' = sym
    BY <1>10 DEF ReadStrHeader, TablesInv
  <2>2. CASE pc' = "str"
    <3>1. str' \in DOMAIN file.sh
      BY <1>10, <2>2 DEF ReadStrHeader, HeaderRead
    <3> QED BY <1>1, <2>1, <2>2, <3>1 DEF TablesInv, Before
  <2> QED BY <1>10, <1>2, <2>2 DEF ReadStrHeader
<1>11. CASE LoadStrtab
  <2>1. /\ pc = "str" /\ sym \in DOMAIN file.sh /\ sym # 0 /\ sym' = sym
        /\ str \in DOMAIN file.sh /\ str' = str
    BY <1>11 DEF LoadStrtab, TablesInv
  <2>2. CASE pc' # "panic"
    <3> DEFINE h == file.sh[str]
    <3>1. h.size \in Nat /\ h.off \in Nat /\ h.size <= MAX_USER_STRTAB
      BY <1>11, <2>1, <2>2, FileFacts, ConstantFacts DEF LoadStrtab
    <3>2. /\ strtab' = Stored(strtab, 0, h.off, h.size)
          /\ strtab_sz' = h.size /\ pc' = "sym"
      BY <1>11, <2>2 DEF LoadStrtab, Complete
    <3> HIDE DEF h
    <3>3. h.size \notin Errors /\ DOMAIN strtab = 0..(MAX_USER_STRTAB - 1)
      BY <3>1, ConstantFacts DEF Errors, TypeInv
    <3>4. ASSUME NEW a \in 0..(h.size - 1) PROVE strtab'[a] = h.off + a
      <4>1. a \in 0..(MAX_USER_STRTAB - 1) /\ a - 0 \in 0..(h.size - 1)
            /\ h.off + a - 0 = h.off + a
        BY <3>1, ConstantFacts
      <4> QED BY <3>2, <3>3, <4>1 DEF Stored
    <3>5. NamesLoaded'
      BY <1>1, <2>1, <3>1, <3>2, <3>4 DEF NamesLoaded, h
    <3> QED BY <1>1, <2>1, <3>2, <3>5 DEF TablesInv, Before
  <2> QED BY <1>2, <2>2
<1>12. CASE LoadSymtab
  <2>1. /\ pc = "sym" /\ sym \in DOMAIN file.sh /\ sym # 0 /\ sym' = sym
        /\ str \in DOMAIN file.sh /\ str' = str /\ strtab_sz' = strtab_sz
        /\ NamesLoaded
    BY <1>12 DEF LoadSymtab, TablesInv
  <2>2. CASE pc' # "panic"
    <3> DEFINE h == file.sh[sym]
    <3>1. h.size \in Nat /\ h.off \in Nat
      BY <2>1, FileFacts
    <3>2. ~TooMany(h) /\ h.entsize = SymWords
      BY <1>12, <2>2 DEF LoadSymtab
    <3>3. /\ symtab' = Stored(symtab, 0, h.off, h.size)
          /\ strtab' = Stored(strtab, -(SymtabWords + 1), h.off, h.size)
          /\ sym_count' = h.size \div SymWords /\ pc' = "entry"
      BY <1>12, <2>2, <3>2 DEF LoadSymtab, Complete
    <3>4. Whole' => h.size % SymWords = 0
      BY <1>1, <2>1 DEF Whole
    <3>5. ASSUME h.size % SymWords = 0
          PROVE  NamesLoaded' /\ SymbolsLoaded'
      <4> HIDE DEF h
      <4>1. h.size \div SymWords \in Nat /\ h.size \div SymWords <= MAX_USER_SYMS
        <5>1. h.size \div SymWords \in Nat
          BY <3>1, ConstantFacts, DivMod
        <5> QED BY <3>2, <5>1, ConstantFacts DEF TooMany
      <4>2. sym_count' * SymWords = h.size /\ h.size <= SymtabWords
        BY <3>1, <3>3, <3>5, <4>1, TableFits
      <4>3. h.size \notin Errors
        BY <3>1, <4>2, ConstantFacts DEF Errors
      <4>4. ASSUME NEW a \in 0..(h.size - 1)
            PROVE  a \in DOMAIN symtab' /\ symtab'[a] = h.off + a
        <5>1. a \in 0..(SymtabWords - 1) /\ a - 0 \in 0..(h.size - 1)
              /\ h.off + a - 0 = h.off + a
          BY <3>1, <4>2, ConstantFacts
        <5>2. DOMAIN symtab = 0..(SymtabWords - 1)
          BY DEF TypeInv
        <5> QED BY <3>3, <4>3, <5>1, <5>2 DEF Stored
      <4>5. strtab' = strtab
        <5>1. ASSUME NEW a \in 0..(MAX_USER_STRTAB - 1)
              PROVE  a - (-(SymtabWords + 1)) \notin 0..(h.size - 1)
          BY <3>1, <4>2, ConstantFacts
        <5>2. strtab \in [0..(MAX_USER_STRTAB - 1) -> Int]
          BY DEF TypeInv
        <5> QED BY <3>3, <5>1, <5>2 DEF Stored
      <4>6. NamesLoaded'
        BY <1>1, <2>1, <4>5 DEF NamesLoaded
      <4>7. SymbolsLoaded'
        BY <1>1, <2>1, <4>2, <4>4 DEF SymbolsLoaded, h
      <4> QED BY <4>6, <4>7
    <3> QED BY <2>1, <3>3, <3>4, <3>5 DEF TablesInv, Before
  <2> QED BY <1>2, <2>2
<1>13. CASE SetEntry
  BY <1>1, <1>13
  DEF SetEntry, TablesInv, Before, NamesLoaded, SymbolsLoaded, Whole
<1>14. CASE Finished
  BY <1>1, <1>14
  DEF Finished, vars, TablesInv, Before, NamesLoaded, SymbolsLoaded, Whole
<1> QED
  BY <1>4, <1>5, <1>6, <1>7, <1>8, <1>9, <1>10, <1>11, <1>12, <1>13, <1>14
  DEF Next

---------------------------------------------------------------------------
(* The theorems.                                                           *)

\* The invariant holds in every state the loader reaches.
THEOREM LoaderInvariant == Spec => []EInv
<1>1. EInv /\ Next => EInv'
  BY TypeInvStep, ArgsInvStep, LoadInvStep, EntryInvStep, TablesInvStep
  DEF EInv
<1>2. EInv /\ UNCHANGED vars => EInv'
  <2> SUFFICES ASSUME EInv, UNCHANGED vars PROVE EInv'
    OBVIOUS
  <2> USE DEF vars, args, tables, EInv
  <2>1. TypeInv'
    BY DEF TypeInv
  <2>2. ArgsInv'
    BY DEF ArgsInv, OpensApplication
  <2>3. LoadInv'
    BY DEF LoadInv, Accepted, SegmentRejected, Readable, Segments, Placed,
       Topmost, Holds, Free, InMem
  <2>4. EntryInv'
    BY DEF EntryInv, Readable, Segments
  <2>5. TablesInv'
    BY DEF TablesInv, NamesLoaded, SymbolsLoaded, Whole
  <2> QED BY <2>1, <2>2, <2>3, <2>4, <2>5
<1> QED BY <1>1, <1>2, InitEInv, PTL DEF Spec

\* Whatever segments a file has, overlapping ones too, each lies at its address
\* when the loader returns, and the rest of memory is untouched.
THEOREM LoaderPlacesSegments == Spec => []SegmentsInPlace
<1>1. EInv => SegmentsInPlace
  <2> SUFFICES ASSUME EInv, pc = "done", Readable, NEW a \in Addresses
               PROVE  /\ \A n \in Segments :
                           /\ a \in InFile(n)
                           /\ \A later \in Segments :
                                later > n => a \notin InMem(later)
                           => mem[a] = file.ph[n].off + a - file.ph[n].vaddr
                      /\ (\A n \in Segments : a \notin InMem(n)) => mem[a] = NONE
    BY DEF SegmentsInPlace
  <2>1. Accepted(file.phnum) /\ Placed(file.phnum) /\ TypeInv
    BY DEF EInv, LoadInv, After
  <2>2. a \in Int
    BY ConstantFacts DEF Addresses, Word
  <2>3. ASSUME NEW n \in Segments, a \in InFile(n),
               \A later \in Segments : later > n => a \notin InMem(later)
        PROVE  mem[a] = file.ph[n].off + a - file.ph[n].vaddr
    <3>1. /\ n \in 1..file.phnum /\ n \in DOMAIN file.ph /\ file.ph[n].load
          /\ file.ph[n].filesz <= file.ph[n].memsz
      BY <2>1, FileFacts DEF Segments, Accepted, SegmentRejected
    <3>2. a \in InMem(n)
      BY <2>1, <2>2, <2>3, <3>1, FileFacts DEF InFile, InMem
    <3>3. Topmost(a, n, file.phnum)
      BY <2>3, <3>1, <3>2 DEF Topmost, Segments
    <3> QED BY <2>1, <3>1, <3>3 DEF Placed, Holds
  <2>4. ASSUME \A n \in Segments : a \notin InMem(n) PROVE mem[a] = NONE
    BY <2>1, <2>4 DEF Placed, Free, Segments
  <2> QED BY <2>3, <2>4
<1> QED BY <1>1, LoaderInvariant, PTL

\* An application of which some read lacked words is never started.
THEOREM LoaderAllOrNothing == Spec => []NoPartialLoad
<1>1. EInv => NoPartialLoad
  BY DEF EInv, EntryInv, NoPartialLoad
<1> QED BY <1>1, LoaderInvariant, PTL

\* The symbols and names handed to sys_user_backtrace are the file's.
THEOREM LoaderSymbols == Spec => []SymbolsExact
<1>1. EInv => SymbolsExact
  BY DEF EInv, TablesInv, SymbolsExact, NamesLoaded, SymbolsLoaded, Whole
<1> QED BY <1>1, LoaderInvariant, PTL

\* The file opened is the first argument after the kernel.
THEOREM LoaderOpens == Spec => []OpensApplication
<1>1. EInv => OpensApplication
  BY DEF EInv, ArgsInv
<1> QED BY <1>1, LoaderInvariant, PTL

=============================================================================
