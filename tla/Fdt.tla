-------------------------------- MODULE Fdt --------------------------------
(***************************************************************************)
(* Device discovery at boot (init_dtb in kernel/machine/minit.c): the walk *)
(* over the flattened device tree (spike_interface/dts_parse.c), run once  *)
(* with the callbacks of query_htif (spike_htif.c) and once with those of  *)
(* query_mem (spike_memory.c).  One step is one token.  The recursion of   *)
(* fdt_scan_helper is a stack of its frames; a token carries its decoded   *)
(* fields, and a property's value its cells, digits in base Cell.          *)
(***************************************************************************)
EXTENDS Integers, Sequences, FiniteSets, SequencesExt

CONSTANTS
  Cell,  \* values of one cell (2^32 in the code)
  Self,  \* the address of mem_done, in the kernel's own memory
  Blobs  \* bound: the device trees Spike may pass

MEMORY == <<1>>  \* the value "memory" of device_type
HTIF0  == <<2>>  \* the value "ucb,htif0" of compatible

\* How many nodes are open after the first n tokens.
DepthIn(toks, n) == Cardinality({j \in 1..n : toks[j].t = "BEGIN_NODE"})
                      - Cardinality({j \in 1..n : toks[j].t = "END_NODE"})

\* Tokens up to END, which never close more nodes than they have opened; a
\* property's value is in cells, and a cell count has one.
ASSUME FdtAssumption ==
  /\ Cell \in Nat /\ Cell > 4 /\ Self \in 0..(Cell * Cell - 1)
  /\ \A b \in Blobs :
       /\ Len(b.toks) \in Nat \ {0} /\ DOMAIN b.toks = 1..Len(b.toks)
       /\ \A n \in DOMAIN b.toks :
            /\ b.toks[n].t \in {"NOP", "PROP", "BEGIN_NODE", "END_NODE", "END"}
            /\ b.toks[n].t = "END" <=> n = Len(b.toks)
            /\ DepthIn(b.toks, n) >= 0
            /\ b.toks[n].t = "PROP" =>
                 /\ b.toks[n].val \in Seq(0..(Cell - 1))
                 /\ b.toks[n].name \in {"#address-cells", "#size-cells"} =>
                      b.toks[n].val # << >>

VARIABLES
  blob,    \* the device tree: is its header understood, and its tokens
  query,   \* whose callbacks run: "htif", "mem"; or how discovery ended
  lex,     \* the next token
  frames,  \* the activations of fdt_scan_helper: child and last
  scan,    \* struct mem_scan and struct htif_scan
  htif, g_mem_size,
  log      \* history: the calls of done

vars == <<blob, query, lex, frames, scan, htif, g_mem_size, log>>

Blank == [memory |-> FALSE, reg |-> << >>, hasReg |-> FALSE, whole |-> TRUE,
          compat |-> FALSE]

---------------------------------------------------------------------------
(* fdt_scan_helper.                                                        *)

\* A new activation: the default cell counts are set once, for all children.
Frame == [child |-> [pos |-> 0, address_cells |-> 2, size_cells |-> 1],
          last |-> FALSE]

top    == Len(frames)
token  == blob.toks[lex]
\* The node whose body the top activation reads; the first reads none.
inNode == top > 1
node   == frames[top - 1].child

\* The uint64 that fdt_get_address and fdt_get_size make of some cells.
Number(cells) == FoldLeft(LAMBDA r, c : (r * Cell + c) % (Cell * Cell), 0, cells)

\* The cells that fdt_get_address and fdt_get_size read: none for a count that
\* is negative, as one of half the values of a cell or more is in an int.
Taken(count) == IF count > 0 THEN count ELSE 0
EntryCells(up) == Taken(up.address_cells) + Taken(up.size_cells)

\* The regions in reg, by the parent's cell counts.
Regions(reg, up) ==
  LET k == EntryCells(up)
      a == Taken(up.address_cells)
  IN [n \in 1..(IF k = 0 THEN 0 ELSE Len(reg) \div k) |->
        [base |-> Number(SubSeq(reg, (n-1)*k + 1, (n-1)*k + a)),
         size |-> Number(SubSeq(reg, (n-1)*k + a + 1, n*k))]]

Holds(r) == r.base <= Self /\ Self <= (r.base + r.size) % (Cell * Cell)

Latest(S) == CHOOSE x \in S : \A y \in S : y <= x
Held(rs) == {n \in DOMAIN rs : Holds(rs[n])}

\* Mutant: the first region decides.
SizeOfFirst(rs, old) == IF 1 \in Held(rs) THEN rs[1].size ELSE old

\* The size of the last region that holds the kernel.
SizeOf(rs, old) == IF Held(rs) = {} THEN old ELSE rs[Latest(Held(rs))].size

\* A failed assertion: die calls poweroff, and poweroff begins with
\* assert(htif), so that without the interface it calls itself for ever.
Died == IF htif = 1 THEN "off" ELSE "recurse"

\* mem_done's loop over reg: it stays where it is when an entry has no cells,
\* and a partial last entry fails the last assertion.
MemLoop(up) ==
  LET k == EntryCells(up)
  IN /\ query' = IF k = 0 THEN "spin"
                 ELSE IF Len(scan.reg) % k # 0 THEN Died ELSE query
     /\ g_mem_size' = IF query' = query THEN SizeOf(Regions(scan.reg, up), g_mem_size)
                                        ELSE g_mem_size

\* The root's parent is a null pointer, which the loop follows.
MemDone ==
  \/ ~scan.memory /\ UNCHANGED <<query, g_mem_size>>
  \/ /\ scan.memory /\ ~(scan.hasReg /\ scan.whole)
     /\ query' = Died /\ UNCHANGED g_mem_size
  \/ /\ scan.memory /\ scan.hasReg /\ scan.whole
     /\ CASE scan.reg = << >> -> UNCHANGED <<query, g_mem_size>>
          [] scan.reg # << >> /\ top = 2 -> query' = "fault" /\ UNCHANGED g_mem_size
          [] OTHER -> MemLoop(frames[top - 2].child)

\* cb->done of the running query, with the node in hand.
Done ==
  /\ log' = Append(log, [query |-> query, pos |-> node.pos, scan |-> scan])
  /\ IF query = "htif"
     THEN /\ htif' = IF scan.compat THEN 1 ELSE htif
          /\ UNCHANGED <<query, g_mem_size>>
     ELSE MemDone /\ UNCHANGED htif

\* Mutant: done is called at the end of every node, children or not.
LastPropertyAlways == inNode

\* !last && node, before done
LastProperty == inNode /\ ~frames[top].last

DoneIfLast == IF LastProperty THEN Done ELSE UNCHANGED <<log, query, htif, g_mem_size>>

\* Mutant: a NOP is not stepped over.
AfterNopStuck == lex

AfterNop == lex + 1

\* The running walk reads one of these tokens.
Reads(kinds) == frames # << >> /\ query \in {"htif", "mem"} /\ token.t \in kinds

Nop ==
  /\ Reads({"NOP"})
  /\ lex' = AfterNop
  /\ UNCHANGED <<blob, query, frames, scan, htif, g_mem_size, log>>

\* mem_prop and htif_prop.
PropSeen(sc, p) ==
  [sc EXCEPT !.memory = @ \/ (p.name = "device_type" /\ p.val = MEMORY),
             !.reg    = IF p.name = "reg" THEN p.val ELSE @,
             !.hasReg = @ \/ p.name = "reg",
             !.whole  = IF p.name = "reg" THEN p.whole ELSE @,
             !.compat = @ \/ (p.name = "compatible" /\ p.val = HTIF0)]

\* A uint32 stored in an int.
AsInt(c) == IF 2 * c < Cell THEN c ELSE c - Cell

\* A property after a child fails the assertion.
Prop ==
  /\ Reads({"PROP"})
  /\ IF frames[top].last
     THEN query' = Died /\ UNCHANGED <<lex, frames, scan>>
     ELSE /\ frames' =
               CASE inNode /\ token.name = "#address-cells" ->
                      [frames EXCEPT ![top - 1].child.address_cells = AsInt(token.val[1])]
                 [] inNode /\ token.name = "#size-cells" ->
                      [frames EXCEPT ![top - 1].child.size_cells = AsInt(token.val[1])]
                 [] OTHER -> frames
          /\ scan' = PropSeen(scan, token)
          /\ lex' = lex + 1
          /\ UNCHANGED query
  /\ UNCHANGED <<blob, htif, g_mem_size, log>>

\* Mutant: the callbacks' state is not cleared for a new node.
OpenedKeeps == scan

\* mem_open and htif_open.
Opened == Blank

\* The node's last property was seen; the child is opened and entered.
BeginNode ==
  /\ Reads({"BEGIN_NODE"})
  /\ DoneIfLast
  /\ frames' = Append([frames EXCEPT ![top].last = TRUE, ![top].child.pos = lex],
                      Frame)
  /\ scan' = Opened
  /\ lex' = lex + 1
  /\ UNCHANGED blob

\* END_NODE returns past itself, anything else (END) stays for the caller.
AfterEnd == IF token.t = "END_NODE" THEN lex + 1 ELSE lex

EndNode ==
  /\ Reads({"END_NODE", "END"})
  /\ DoneIfLast
  /\ frames' = SubSeq(frames, 1, top - 1)
  /\ lex' = AfterEnd
  /\ UNCHANGED <<blob, scan>>

---------------------------------------------------------------------------
(* init_dtb: query_htif, then query_mem.                                   *)

\* fdt_scan: nothing is read of a blob it does not understand.
ScanStart == IF blob.understood THEN <<Frame>> ELSE << >>

\* query_htif returns, and query_mem starts.
QueryMem ==
  /\ query = "htif" /\ frames = << >>
  /\ query' = "mem" /\ frames' = ScanStart /\ lex' = 1 /\ g_mem_size' = 0
  /\ scan' = Blank
  /\ UNCHANGED <<blob, htif, log>>

\* assert(g_mem_size > 0)
QueryMemDone ==
  /\ query = "mem" /\ frames = << >>
  /\ query' = IF g_mem_size > 0 THEN "done" ELSE Died
  /\ UNCHANGED <<blob, lex, frames, scan, htif, g_mem_size, log>>

\* m_start goes on, poweroff has ended the simulation or calls itself for ever,
\* a null pointer was followed, mem_done loops for ever.
Ends == {"done", "off", "recurse", "fault", "spin"}
Ended == query \in Ends /\ UNCHANGED vars

Init ==
  /\ blob \in Blobs
  /\ query = "htif" /\ lex = 1 /\ scan = Blank
  /\ frames = ScanStart
  /\ htif = 0 /\ g_mem_size = 0 /\ log = << >>

Next == \/ Nop \/ Prop \/ BeginNode \/ EndNode
        \/ QueryMem \/ QueryMemDone \/ Ended

\* The hart never stops executing.
Spec == Init /\ [][Next]_vars /\ WF_vars(Next)

---------------------------------------------------------------------------
(* What the device tree says, read off its tokens.                         *)

Tokens == DOMAIN blob.toks
Is(n, kinds) == blob.toks[n].t \in kinds
Nodes == {n \in Tokens : Is(n, {"BEGIN_NODE"})}
Depth(n) == DepthIn(blob.toks, n)
Parents(p) == {q \in Nodes : /\ q < p /\ Depth(q) = Depth(p) - 1
                             /\ \A j \in q..p : Depth(j) >= Depth(q)}
\* A node's own properties: the ones before its first child and its end.
Own(p, name) == {n \in Tokens : /\ n > p /\ Is(n, {"PROP"})
                                /\ blob.toks[n].name = name
                                /\ \A j \in (p+1)..n : Is(j, {"PROP", "NOP"})}
OwnCells(p, name, default) ==
  IF Own(p, name) = {} THEN default ELSE blob.toks[Latest(Own(p, name))].val[1]
IsMemory(p) == \E n \in Own(p, "device_type") : blob.toks[n].val = MEMORY
IsHtif(p)   == \E n \in Own(p, "compatible") : blob.toks[n].val = HTIF0

\* The earlier children of the node's parent.
Siblings(p) == {q \in Nodes : /\ q < p /\ Depth(q) = Depth(p)
                              /\ \A j \in q..p : Depth(j) >= Depth(p) - 1}

\* The node does not leave out a cell count that a sibling before it declared.
CellsDeclared(p) ==
  \A name \in {"#address-cells", "#size-cells"} :
    Own(p, name) # {} \/ \A q \in Siblings(p) : Own(q, name) = {}

Cells(p) == [address_cells |-> OwnCells(p, "#address-cells", 2),
             size_cells    |-> OwnCells(p, "#size-cells", 1)]
OwnReg(p) == blob.toks[Latest(Own(p, "reg"))]
OwnRegions(p) == Regions(OwnReg(p).val, Cells(Latest(Parents(p))))

\* A complete memory node: under a parent whose cell counts an int holds, with
\* a reg of whole entries.
MemoryOK(p) ==
  /\ Parents(p) # {} /\ Own(p, "reg") # {} /\ OwnReg(p).whole
  /\ LET up == Cells(Latest(Parents(p)))
         k  == up.address_cells + up.size_cells
     IN /\ 2 * up.address_cells < Cell /\ 2 * up.size_cells < Cell
        /\ k > 0 /\ Len(OwnReg(p).val) % k = 0

\* Each node has its properties before its children.
PropertiesFirst ==
  \A n \in Tokens :
    Is(n, {"PROP"}) => \E p \in Nodes : n \in Own(p, blob.toks[n].name)

\* A device tree with complete memory nodes, and the kernel in a region of
\* memory, in none that is empty.
WellFormed ==
  /\ blob.understood /\ PropertiesFirst
  /\ \A p \in Nodes : IsMemory(p) =>
       MemoryOK(p) /\ \A n \in Held(OwnRegions(p)) : OwnRegions(p)[n].size > 0
  /\ \E p \in Nodes : IsMemory(p) /\ Held(OwnRegions(p)) # {}

\* A device tree as Spike builds it: no parent of a memory node leaves out a cell
\* count after a sibling that declares one (Spike's is the root, which declares
\* both and has no sibling).
Good ==
  /\ WellFormed
  /\ \A p \in Nodes : IsMemory(p) => CellsDeclared(Latest(Parents(p)))

---------------------------------------------------------------------------

\* The walk never reads past the END token; each query calls done once for a
\* node, when its last property was seen, and its callbacks then know that
\* node's properties and no other's; a walk that ends well has called it for
\* every node.
DoneSeesOwnNode ==
  /\ lex \in Tokens
  /\ \A n \in DOMAIN log :
       LET p == log[n].pos IN
       /\ log[n].scan.memory = IsMemory(p)
       /\ log[n].scan.compat = IsHtif(p)
       /\ log[n].scan.hasReg = (Own(p, "reg") # {})
       /\ log[n].scan.hasReg =>
            log[n].scan.reg = blob.toks[Latest(Own(p, "reg"))].val
       /\ \A k \in DOMAIN log : k # n /\ log[k].query = log[n].query
                                  => log[k].pos # p
  /\ query = "done" =>
       \A p \in Nodes, q \in {"htif", "mem"} :
         \E n \in DOMAIN log : log[n].query = q /\ log[n].pos = p

\* What discovery is for: boot goes on, g_mem_size is the size of a region that
\* holds the kernel, and htif says whether the tree has the interface.
Discovered ==
  /\ query = "done"
  /\ htif = 1 <=> \E p \in Nodes : IsHtif(p)
  /\ \E p \in Nodes : IsMemory(p) /\ \E n \in Held(OwnRegions(p)) :
                                       g_mem_size = OwnRegions(p)[n].size

\* Discovery accepts a device tree as Spike builds it, at whatever depth its
\* nodes are, whatever lies between them and whatever cell counts they declare.
DiscoveryExact == query \in Ends /\ Good => Discovered

\* A tree with the interface, properties before children, no memory at the root
\* and no node of an address without cells.
Usable ==
  /\ blob.understood /\ PropertiesFirst
  /\ \E p \in Nodes : IsHtif(p)
  /\ \A p \in Nodes : /\ IsMemory(p) => Parents(p) # {}
                      /\ AsInt(OwnCells(p, "#address-cells", 2)) > 0

\* Discovery of a usable tree, complete or not, ends in boot going on or in the
\* power being off: no token holds the walk up, no reg mem_done, and poweroff has
\* its interface by the time an assertion on the memory can fail.
Terminates == Usable => <>(query \in {"done", "off"})

=============================================================================
