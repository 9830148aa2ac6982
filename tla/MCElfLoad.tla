----------------------------- MODULE MCElfLoad -----------------------------
(* Small files: every pair of the segments below, overlapping, empty, with  *)
(* a bss, past the end of the file or of memory, over a plain symbol table; *)
(* and every symbol table around the limits under one segment.              *)
EXTENDS ElfLoad

Seg(load, off, vaddr, filesz, memsz) ==
  [load |-> load, off |-> off, vaddr |-> vaddr, filesz |-> filesz,
   memsz |-> memsz]

MCSegments ==
  {Seg(TRUE, 0, 2, 2, 2), Seg(TRUE, 1, 3, 1, 3), Seg(TRUE, 5, 6, 1, 4),
   Seg(TRUE, 0, 14, 2, 2), Seg(TRUE, 2, 4, 2, 1), Seg(TRUE, 0, 9, 0, 0),
   Seg(TRUE, 0, 0, 1, 14), Seg(TRUE, 0, 0, 1, 15), Seg(FALSE, 0, 1, 2, 2)}

Sect(tab, off, size, link, entsize) ==
  [symtab |-> tab, off |-> off, size |-> size, link |-> link,
   entsize |-> entsize]

Plain == <<Sect(FALSE, 0, 1, 0, 0), Sect(TRUE, 0, 6, 3, 3),
           Sect(FALSE, 6, 2, 0, 0)>>

File(magic, ph, shnum, sh) ==
  [magic |-> magic, size |-> 10, entry |-> 4, phnum |-> Len(ph), ph |-> ph,
   shnum |-> shnum, sh |-> sh]

SegmentFiles ==
  {File(TRUE, <<p, q>>, 2, Plain) : p, q \in MCSegments}

SymbolFiles ==
  {File(TRUE, <<Seg(TRUE, 0, 2, 2, 2)>>, 2,
        <<Sect(TRUE, 1, size, link, ent), Sect(FALSE, 0, names, 0, 0)>>) :
     size \in {0, 3, 6, 7, 8, 9}, link \in {2, 3}, ent \in {0, 1, 3},
     names \in {0, 2, 3}}

MCFiles ==
  SegmentFiles \cup SymbolFiles
    \cup {File(FALSE, <<>>, 0, <<>>), File(TRUE, <<>>, 0, <<>>)}

MCCommandLines == {<<100>>, <<100, 104>>, <<100, 104, 108, 112>>}

=============================================================================
