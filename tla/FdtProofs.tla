------------------------------ MODULE FdtProofs ------------------------------
(***************************************************************************)
(* Proofs about module Fdt, for every device tree: the walk of             *)
(* fdt_scan_helper stays inside the tree and calls done once for every     *)
(* node, with that node's properties and no other's; and what mem_done and *)
(* htif_done make of them is what the tree says.                           *)
(***************************************************************************)
EXTENDS Fdt, FiniteSetTheorems, SequenceTheorems, WellFoundedInduction, TLAPS

\* A sequence, whatever its elements.
IsSeq(f) == Len(f) \in Nat /\ f = [i \in 1..Len(f) |-> f[i]]

Shape(fr) == /\ DOMAIN fr = {"child", "last"}
             /\ DOMAIN fr.child = {"pos", "address_cells", "size_cells"}

\* The properties of this name that the walk has passed since node p.
Seen(toks, p, l, name) ==
  {n \in (p + 1)..(l - 1) : toks[n].t = "PROP" /\ toks[n].name = name}

\* Query q has called done for node p.
Logged(lg, q, p) == \E n \in DOMAIN lg : lg[n].query = q /\ lg[n].pos = p

\* What done must be told of node p.
Entry(sc, p) ==
  /\ sc.memory \in BOOLEAN /\ sc.compat \in BOOLEAN /\ sc.hasReg \in BOOLEAN
  /\ sc.memory <=> IsMemory(p)
  /\ sc.compat <=> IsHtif(p)
  /\ sc.hasReg <=> Own(p, "reg") # {}
  /\ sc.hasReg => /\ sc.reg = blob.toks[Latest(Own(p, "reg"))].val
                  /\ sc.whole = blob.toks[Latest(Own(p, "reg"))].whole

Running == query \in {"htif", "mem"}

\* The ends other than boot going on.
Stops == {"off", "recurse", "fault", "spin"}

\* The position in the tree and the stack of activations agree.  Below the top
\* one, each has entered a child.
StackInv ==
  /\ blob \in Blobs /\ lex \in 1..Len(blob.toks)
  /\ query \in {"htif", "mem", "done"} \cup Stops
  /\ DOMAIN scan = {"memory", "reg", "hasReg", "whole", "compat"}
  /\ scan.memory \in BOOLEAN /\ scan.compat \in BOOLEAN /\ scan.hasReg \in BOOLEAN
  /\ IsSeq(frames) /\ \A i \in 1..Len(frames) : Shape(frames[i])
  /\ \A i \in 1..(Len(frames) - 1) : frames[i].last
  /\ ~blob.understood => frames = << >> /\ g_mem_size = 0
  /\ Running /\ blob.understood =>
       /\ frames = << >> => token.t = "END"
       /\ token.t # "END" => top = DepthIn(blob.toks, lex - 1) + 1

\* The callbacks know what node p says of itself before token l, and nothing
\* else.
Knows(sc, toks, p, l) ==
  /\ p \in 1..(l - 1) /\ toks[p].t = "BEGIN_NODE"
  /\ \A j \in (p + 1)..(l - 1) : toks[j].t \in {"PROP", "NOP"}
  /\ sc.memory <=> \E n \in Seen(toks, p, l, "device_type") : toks[n].val = MEMORY
  /\ sc.compat <=> \E n \in Seen(toks, p, l, "compatible") : toks[n].val = HTIF0
  /\ sc.hasReg <=> Seen(toks, p, l, "reg") # {}
  /\ sc.hasReg => \E n \in Seen(toks, p, l, "reg") :
                    /\ sc.reg = toks[n].val /\ sc.whole = toks[n].whole
                    /\ \A k \in Seen(toks, p, l, "reg") : k <= n

\* They know the node being read up to the current token.
ScanInv ==
  Running /\ LastProperty =>
    \A p : p = node.pos => Knows(scan, blob.toks, p, lex)

\* done has been called for the nodes passed, except for the one being read.
CoverInv ==
  /\ Running =>
       /\ \A p : Logged(log, query, p) => p \in 1..(lex - 1)
       /\ \A p \in 1..(lex - 1) :
            blob.toks[p].t = "BEGIN_NODE" =>
              \/ Logged(log, query, p)
              \/ LastProperty /\ p = node.pos
       /\ LastProperty => \A p : p = node.pos => ~Logged(log, query, p)
  /\ query = "htif" => \A p : ~Logged(log, "mem", p)
  /\ query \in {"mem", "done"} /\ blob.understood =>
       \A p \in Nodes : Logged(log, "htif", p)
  /\ query = "done" => blob.understood /\ \A p \in Nodes : Logged(log, "mem", p)

LogInv ==
  /\ IsSeq(log)
  /\ \A n \in 1..Len(log) : \A sc, p :
       sc = log[n].scan /\ p = log[n].pos => Entry(sc, p) /\ p \in Nodes
  /\ \A n, k \in 1..Len(log) :
       n # k /\ log[n].query = log[k].query => log[n].pos # log[k].pos

\* The invariant of the walk.
DInv == StackInv /\ ScanInv /\ CoverInv /\ LogInv

\* Node p is open at depth i.
OpenAt(toks, l, i, p) ==
  /\ p \in 1..(l - 1) /\ toks[p].t = "BEGIN_NODE" /\ DepthIn(toks, p) = i
  /\ \A j \in p..(l - 1) : DepthIn(toks, j) >= i

\* The children entered are the open nodes, and an activation that has entered
\* one is past the properties of its own node.
OpenInv ==
  Running =>
    /\ \A i \in 1..(Len(frames) - 1) :
         OpenAt(blob.toks, lex, i, frames[i].child.pos)
    /\ frames # << >> /\ frames[Len(frames)].last /\ token.t # "END" =>
         \A p \in 1..(lex - 1) : blob.toks[p].t = "BEGIN_NODE" =>
           \E j \in (p + 1)..(lex - 1) : blob.toks[j].t \notin {"PROP", "NOP"}

CellNames == {"#address-cells", "#size-cells"}
Count(child, name) ==
  IF name = "#address-cells" THEN child.address_cells ELSE child.size_cells
Default(name) == IF name = "#address-cells" THEN 2 ELSE 1

\* Node q is a child of the node still open at depth i - 1.
ChildAt(toks, l, i, q) ==
  /\ q \in 1..(l - 1) /\ toks[q].t = "BEGIN_NODE" /\ DepthIn(toks, q) = i
  /\ \A j \in q..(l - 1) : DepthIn(toks, j) >= i - 1

\* One of them has declared the count.
DeclaredAt(l, i, name) ==
  \E q : ChildAt(blob.toks, l, i, q) /\ Own(q, name) # {}

\* The cell counts of an activation's children are the default, unless one of
\* them declared others.
Inherited(name) ==
  \A i \in 1..Len(frames) :
    Count(frames[i].child, name) = Default(name) \/ DeclaredAt(lex, i, name)

\* Those of the node being read are the latest it declared.
Declares(name) ==
  LastProperty => \A p, s :
    p = node.pos /\ s = Seen(blob.toks, p, lex, name) /\ s # {} =>
      \E n \in s : /\ Count(node, name) = AsInt(blob.toks[n].val[1])
                   /\ \A k \in s : k <= n

\* Those of an open node further up are its own, unless it left out one that a
\* sibling before it declared.
Above(name) ==
  \A i \in 1..(Len(frames) - 1) : \A p :
    frames[i + 1].last /\ p = frames[i].child.pos /\ CellsDeclared(p) =>
      Count(frames[i].child, name) = AsInt(OwnCells(p, name, Default(name)))

CellsInv ==
  Running => \A name \in CellNames : Inherited(name) /\ Declares(name) /\ Above(name)

\* A memory node with a region that holds the kernel.
HoldsKernel(p) == IsMemory(p) /\ Held(OwnRegions(p)) # {}

\* htif tells of the nodes reported to query_htif, g_mem_size of those reported
\* to query_mem.
HtifTold == htif = 1 <=> \E p : Logged(log, "htif", p) /\ IsHtif(p)
Sized == \E p \in Nodes : IsMemory(p) /\ \E n \in Held(OwnRegions(p)) :
                                           g_mem_size = OwnRegions(p)[n].size
MemTold == (\E p : Logged(log, "mem", p) /\ HoldsKernel(p)) => Sized

\* In a good tree nothing fails, and the results are right so far.
ResultInv == Good => query \in {"htif", "mem", "done"} /\ HtifTold /\ MemTold

\* The inductive invariant.
GInv == DInv /\ OpenInv /\ CellsInv /\ ResultInv

---------------------------------------------------------------------------
(* Sequences, tokens and depth.                                            *)

LEMMA SeqLen ==
  ASSUME NEW S, NEW n \in Nat, NEW g \in [1..n -> S]
  PROVE  g \in Seq(S) /\ Len(g) = n
  OBVIOUS

LEMMA SeqAppend ==
  ASSUME NEW f, NEW e, IsSeq(f)
  PROVE  /\ IsSeq(Append(f, e)) /\ Len(Append(f, e)) = Len(f) + 1
         /\ DOMAIN f = 1..Len(f) /\ DOMAIN Append(f, e) = 1..(Len(f) + 1)
         /\ \A i \in 1..Len(f) : Append(f, e)[i] = f[i]
         /\ Append(f, e)[Len(f) + 1] = e
<1> DEFINE n == Len(f)
           S == {f[i] : i \in 1..n} \cup {e}
<1>1. n \in Nat /\ f \in [1..n -> S]
  BY DEF IsSeq
<1>2. f \in Seq(S)
  BY <1>1
<1>3. Append(f, e) \in Seq(S) /\ Len(Append(f, e)) = n + 1
  BY <1>2
<1>4. DOMAIN Append(f, e) = 1..(n + 1) /\ DOMAIN f = 1..n
  BY <1>1, <1>3
<1>5. /\ \A i \in 1..n : Append(f, e)[i] = f[i]
      /\ Append(f, e)[n + 1] = e
  BY <1>2
<1>6. IsSeq(Append(f, e))
  <2>1. n + 1 \in Nat
    BY <1>1
  <2>2. Append(f, e) \in [1..(n + 1) -> S]
    <3> HIDE DEF S
    <3>1. Append(f, e) \in [1..Len(Append(f, e)) -> S]
      BY <1>3, SeqDef, LenProperties
    <3> QED BY <1>3, <3>1
  <2> QED BY <1>3, <2>1, <2>2 DEF IsSeq
<1> QED BY <1>3, <1>4, <1>5, <1>6

LEMMA SeqFront ==
  ASSUME NEW f, IsSeq(f), Len(f) >= 1
  PROVE  LET g == SubSeq(f, 1, Len(f) - 1)
         IN  /\ IsSeq(g) /\ Len(g) = Len(f) - 1
             /\ \A i \in 1..(Len(f) - 1) : g[i] = f[i]
<1> DEFINE n == Len(f)
           S == {f[i] : i \in 1..n}
           g == SubSeq(f, 1, n - 1)
<1>1. n \in Nat /\ n - 1 \in Nat /\ f \in [1..n -> S]
  BY DEF IsSeq
<1>2. f \in Seq(S)
  <2> HIDE DEF S
  <2> QED BY <1>1, SeqDef
<1>3. g = [i \in 1..(n - 1) |-> f[i]]
  <2> HIDE DEF S
  <2> QED BY <1>1, <1>2
<1> HIDE DEF g
<1>4. g \in [1..(n - 1) -> S]
  <2>1. \A i \in 1..(n - 1) : f[i] \in S
    BY <1>1
  <2> HIDE DEF S
  <2> QED BY <1>3, <2>1
<1>5. g \in Seq(S) /\ Len(g) = n - 1
  <2> HIDE DEF S
  <2> QED BY <1>1, <1>4, SeqLen
<1>6. \A i \in 1..(n - 1) : g[i] = f[i]
  BY <1>3
<1>7. IsSeq(g)
  BY <1>1, <1>3, <1>4, <1>5 DEF IsSeq
<1> QED BY <1>5, <1>6, <1>7 DEF g

LEMMA SeqMade ==
  ASSUME NEW n \in Nat, NEW g, g = [i \in 1..n |-> g[i]]
  PROVE  IsSeq(g) /\ Len(g) = n
<1> DEFINE S == {g[i] : i \in 1..n}
<1>1. g \in [1..n -> S]
  <2>1. \A i \in 1..n : g[i] \in S
    OBVIOUS
  <2> HIDE DEF S
  <2> QED BY <2>1
<1>2. Len(g) = n
  <2> HIDE DEF S
  <2> QED BY <1>1, SeqLen
<1> QED BY <1>2 DEF IsSeq

\* An empty sequence has no elements.
LEMMA SeqEmpty == \A f : IsSeq(f) => (f = << >> <=> Len(f) = 0)
<1> SUFFICES ASSUME NEW f, IsSeq(f) PROVE f = << >> <=> Len(f) = 0
  OBVIOUS
<1>1. f = << >> => Len(f) = 0
  OBVIOUS
<1>2. Len(f) = 0 => f = << >>
  BY DEF IsSeq
<1> QED BY <1>1, <1>2

\* What a token does to the depth.
LEMMA DepthStep ==
  ASSUME NEW toks, NEW n \in Nat
  PROVE  /\ DepthIn(toks, n) \in Int /\ DepthIn(toks, 0) = 0
         /\ DepthIn(toks, n + 1) =
              IF toks[n + 1].t = "BEGIN_NODE" THEN DepthIn(toks, n) + 1
              ELSE IF toks[n + 1].t = "END_NODE" THEN DepthIn(toks, n) - 1
              ELSE DepthIn(toks, n)
<1> DEFINE Of(k, m) == {j \in 1..m : toks[j].t = k}
<1>1. \A k : /\ IsFiniteSet(Of(k, n)) /\ Cardinality(Of(k, n)) \in Nat
             /\ Cardinality(Of(k, n + 1)) =
                  IF toks[n + 1].t = k THEN Cardinality(Of(k, n)) + 1
                  ELSE Cardinality(Of(k, n))
  <2> SUFFICES ASSUME NEW k
               PROVE  /\ IsFiniteSet(Of(k, n)) /\ Cardinality(Of(k, n)) \in Nat
                      /\ Cardinality(Of(k, n + 1)) =
                           IF toks[n + 1].t = k THEN Cardinality(Of(k, n)) + 1
                           ELSE Cardinality(Of(k, n))
    OBVIOUS
  <2>1. IsFiniteSet(1..n) /\ Of(k, n) \in SUBSET (1..n)
    BY FS_Interval
  <2>2. IsFiniteSet(Of(k, n))
    BY <2>1, FS_Subset
  <2>3. Cardinality(Of(k, n)) \in Nat
    BY <2>2, FS_CardinalityType
  <2>4. CASE toks[n + 1].t = k
    <3>1. Of(k, n + 1) = Of(k, n) \cup {n + 1} /\ n + 1 \notin Of(k, n)
      BY <2>4
    <3> HIDE DEF Of
    <3>2. Cardinality(Of(k, n) \cup {n + 1}) = Cardinality(Of(k, n)) + 1
      BY <2>2, <3>1, FS_AddElement
    <3> QED BY <2>2, <2>3, <2>4, <3>1, <3>2
  <2>5. CASE toks[n + 1].t # k
    <3>1. Of(k, n + 1) = Of(k, n)
      BY <2>5
    <3> HIDE DEF Of
    <3> QED BY <2>2, <2>3, <2>5, <3>1
  <2> QED BY <2>4, <2>5
<1>2. \A k : Of(k, 0) = {}
  OBVIOUS
<1>3. \A m : DepthIn(toks, m) =
         Cardinality(Of("BEGIN_NODE", m)) - Cardinality(Of("END_NODE", m))
  BY DEF DepthIn
<1> HIDE DEF Of
<1>4. Cardinality({}) = 0
  BY FS_EmptySet
<1>5. DepthIn(toks, 0) = 0
  BY <1>2, <1>3, <1>4
<1>6. DepthIn(toks, n) \in Int
  BY <1>1, <1>3
<1>7. DepthIn(toks, n + 1) =
        IF toks[n + 1].t = "BEGIN_NODE" THEN DepthIn(toks, n) + 1
        ELSE IF toks[n + 1].t = "END_NODE" THEN DepthIn(toks, n) - 1
        ELSE DepthIn(toks, n)
  BY <1>1, <1>3
<1> QED BY <1>5, <1>6, <1>7

LEMMA OwnSeen ==
  ASSUME StackInv, NEW p \in 1..(lex - 1), NEW name,
         \A j \in (p + 1)..(lex - 1) : blob.toks[j].t \in {"PROP", "NOP"},
         token.t \notin {"PROP", "NOP"}
  PROVE  Own(p, name) = Seen(blob.toks, p, lex, name)
<1>1. /\ Tokens = 1..Len(blob.toks) /\ lex \in Tokens /\ Len(blob.toks) \in Nat
  BY FdtAssumption DEF StackInv, Tokens
<1>2. ASSUME NEW n \in Own(p, name) PROVE n \in Seen(blob.toks, p, lex, name)
  <2>1. /\ n \in Tokens /\ n > p /\ blob.toks[n].t = "PROP"
        /\ blob.toks[n].name = name
        /\ \A j \in (p + 1)..n : blob.toks[j].t \in {"PROP", "NOP"}
    BY DEF Own, Is
  <2>2. ~(lex <= n)
    BY <1>1, <2>1 DEF token
  <2> QED BY <1>1, <2>1, <2>2 DEF Seen
<1>3. ASSUME NEW n \in Seen(blob.toks, p, lex, name) PROVE n \in Own(p, name)
  <2>1. /\ n \in (p + 1)..(lex - 1) /\ blob.toks[n].t = "PROP"
        /\ blob.toks[n].name = name
    BY DEF Seen
  <2>2. n \in Tokens /\ n > p
    BY <1>1, <2>1
  <2>3. \A j \in (p + 1)..n : j \in (p + 1)..(lex - 1)
    BY <1>1, <2>1
  <2> QED BY <2>1, <2>2, <2>3 DEF Own, Is
<1> QED BY <1>2, <1>3

LEMMA TokenFacts ==
  ASSUME StackInv
  PROVE  /\ Len(blob.toks) \in Nat /\ lex \in Nat /\ lex >= 1 /\ lex - 1 \in Nat
         /\ token.t \in {"NOP", "PROP", "BEGIN_NODE", "END_NODE", "END"}
         /\ token.t = "END" <=> lex = Len(blob.toks)
         /\ token.t # "END" => lex + 1 \in 1..Len(blob.toks)
         /\ DepthIn(blob.toks, lex - 1) \in Int /\ DepthIn(blob.toks, lex) >= 0
         /\ DepthIn(blob.toks, lex) =
              IF token.t = "BEGIN_NODE" THEN DepthIn(blob.toks, lex - 1) + 1
              ELSE IF token.t = "END_NODE" THEN DepthIn(blob.toks, lex - 1) - 1
              ELSE DepthIn(blob.toks, lex - 1)
         /\ Nodes = {n \in 1..Len(blob.toks) : blob.toks[n].t = "BEGIN_NODE"}
         /\ Tokens = 1..Len(blob.toks)
<1>1. /\ Len(blob.toks) \in Nat /\ Tokens = 1..Len(blob.toks)
      /\ lex \in 1..Len(blob.toks)
      /\ token.t \in {"NOP", "PROP", "BEGIN_NODE", "END_NODE", "END"}
      /\ token.t = "END" <=> lex = Len(blob.toks)
      /\ DepthIn(blob.toks, lex) >= 0
  BY FdtAssumption DEF StackInv, Tokens, token
<1>2. lex \in Nat /\ lex >= 1 /\ lex - 1 \in Nat /\ (lex - 1) + 1 = lex
  BY <1>1
<1>3. /\ DepthIn(blob.toks, lex - 1) \in Int
      /\ DepthIn(blob.toks, lex) =
           IF token.t = "BEGIN_NODE" THEN DepthIn(blob.toks, lex - 1) + 1
           ELSE IF token.t = "END_NODE" THEN DepthIn(blob.toks, lex - 1) - 1
           ELSE DepthIn(blob.toks, lex - 1)
  BY <1>2, DepthStep DEF token
<1>4. Nodes = {n \in 1..Len(blob.toks) : blob.toks[n].t = "BEGIN_NODE"}
  BY <1>1 DEF Nodes, Is
<1>5. token.t # "END" => lex + 1 \in 1..Len(blob.toks)
  BY <1>1
<1> QED BY <1>1, <1>2, <1>3, <1>4, <1>5

\* The tree does not change.
LEMMA TreeKept ==
  ASSUME blob' = blob
  PROVE  Nodes' = Nodes /\ \A sc, p : Entry(sc, p) => Entry(sc, p)'
<1>1. Nodes' = Nodes /\ Tokens' = Tokens
  BY DEF Nodes, Tokens, Is
<1>2. \A p, name : Own(p, name)' = Own(p, name)
  BY <1>1 DEF Own, Is
<1>3. \A p : (IsMemory(p)' <=> IsMemory(p)) /\ (IsHtif(p)' <=> IsHtif(p))
  BY <1>2 DEF IsMemory, IsHtif
<1> QED BY <1>1, <1>2, <1>3 DEF Entry

\* When the last property of a node was seen, the callbacks know the node.
LEMMA ScanComplete ==
  ASSUME DInv, Running, LastProperty,
         token.t \in {"BEGIN_NODE", "END_NODE", "END"},
         NEW p, p = node.pos
  PROVE  Entry(scan, p) /\ p \in Nodes
<1>1. Knows(scan, blob.toks, p, lex)
  BY DEF DInv, ScanInv
<1>2. \A name : Own(p, name) = Seen(blob.toks, p, lex, name)
  BY <1>1, OwnSeen DEF DInv, Knows
<1>3. /\ scan.memory <=> IsMemory(p)
      /\ scan.compat <=> IsHtif(p)
  BY <1>1, <1>2 DEF Knows, IsMemory, IsHtif
<1>4. scan.hasReg <=> Own(p, "reg") # {}
  BY <1>1, <1>2 DEF Knows
<1>5. ASSUME scan.hasReg
      PROVE  /\ scan.reg = blob.toks[Latest(Own(p, "reg"))].val
             /\ scan.whole = blob.toks[Latest(Own(p, "reg"))].whole
  <2>1. PICK n \in Own(p, "reg") : /\ scan.reg = blob.toks[n].val
                                   /\ scan.whole = blob.toks[n].whole
                                   /\ \A k \in Own(p, "reg") : k <= n
    BY <1>1, <1>2, <1>5 DEF Knows
  <2>2. \A k \in Own(p, "reg") : k \in Int
    BY TokenFacts DEF DInv, Own
  <2>3. Latest(Own(p, "reg")) = n
    BY <2>1, <2>2 DEF Latest
  <2> QED BY <2>1, <2>3
<1>6. p \in Nodes
  BY <1>1, TokenFacts DEF DInv, StackInv, Knows
<1> QED BY <1>3, <1>4, <1>5, <1>6 DEF Entry, DInv, StackInv

\* One call of done, if it is due.
LEMMA DoneCall ==
  ASSUME DInv, Running, token.t \in {"BEGIN_NODE", "END_NODE", "END"}, DoneIfLast
  PROVE  /\ IsSeq(log')
         /\ \A n \in 1..Len(log') : \A sc, p :
              sc = log'[n].scan /\ p = log'[n].pos => Entry(sc, p) /\ p \in Nodes
         /\ \A n, k \in 1..Len(log') :
              n # k /\ log'[n].query = log'[k].query => log'[n].pos # log'[k].pos
         /\ query' = query \/ query' \in Stops
         /\ \A q, p : Logged(log', q, p) <=>
                        \/ Logged(log, q, p)
                        \/ LastProperty /\ q = query /\ p = node.pos
<1>1. /\ IsSeq(log)
      /\ \A n \in 1..Len(log) : \A sc, p :
           sc = log[n].scan /\ p = log[n].pos => Entry(sc, p) /\ p \in Nodes
      /\ \A n, k \in 1..Len(log) :
           n # k /\ log[n].query = log[k].query => log[n].pos # log[k].pos
  BY DEF DInv, LogInv
<1>2. CASE ~LastProperty
  BY <1>1, <1>2 DEF DoneIfLast
<1>3. CASE LastProperty
  <2> DEFINE e == [query |-> query, pos |-> node.pos, scan |-> scan]
  <2>1. Done
    BY <1>3 DEF DoneIfLast
  <2>2. log' = Append(log, e)
    BY <2>1 DEF Done
  <2>3. query' = query \/ query' \in Stops
    BY <2>1 DEF Done, MemDone, MemLoop, Died, Stops
  <2>4. e.query = query /\ e.pos = node.pos /\ e.scan = scan
    OBVIOUS
  <2>5. Entry(scan, node.pos) /\ node.pos \in Nodes
    BY <1>3, ScanComplete
  <2>6. ~Logged(log, query, node.pos)
    BY <1>3 DEF DInv, CoverInv
  <2> HIDE DEF e
  <2>7. /\ IsSeq(log') /\ Len(log') = Len(log) + 1 /\ Len(log) \in Nat
        /\ DOMAIN log = 1..Len(log) /\ DOMAIN log' = 1..(Len(log) + 1)
        /\ \A i \in 1..Len(log) : log'[i] = log[i]
        /\ log'[Len(log) + 1] = e
    BY <1>1, <2>2, SeqAppend DEF IsSeq
  <2>8. \A i \in 1..(Len(log) + 1) : i \in 1..Len(log) \/ i = Len(log) + 1
    BY <2>7
  <2>9. \A n \in 1..Len(log') : \A sc, p :
          sc = log'[n].scan /\ p = log'[n].pos => Entry(sc, p) /\ p \in Nodes
    BY <1>1, <2>4, <2>5, <2>7, <2>8
  <2>10. \A n \in 1..Len(log) : log[n].query = query => log[n].pos # node.pos
    BY <2>6, <2>7 DEF Logged
  <2>11. \A n, k \in 1..Len(log') :
           n # k /\ log'[n].query = log'[k].query => log'[n].pos # log'[k].pos
    BY <1>1, <2>4, <2>7, <2>8, <2>10
  <2>12. \A q, p : Logged(log', q, p) <=>
                     Logged(log, q, p) \/ (q = query /\ p = node.pos)
    BY <2>4, <2>7, <2>8 DEF Logged
  <2> QED BY <1>3, <2>3, <2>7, <2>9, <2>11, <2>12
<1> QED BY <1>2, <1>3

---------------------------------------------------------------------------
(* The steps of the walk.                                                  *)

\* Where the walk is, in the variables.
LEMMA Place ==
  /\ top = Len(frames) /\ top' = Len(frames')
  /\ LastProperty <=> Len(frames) > 1 /\ ~frames[Len(frames)].last
  /\ LastProperty' <=> Len(frames') > 1 /\ ~frames'[Len(frames')].last
  /\ node.pos = frames[Len(frames) - 1].child.pos
  /\ node'.pos = frames'[Len(frames') - 1].child.pos
  /\ token = blob.toks[lex] /\ token' = blob'.toks[lex']
BY DEF top, LastProperty, inNode, node, token

\* The log and the tree stay as they are.
LEMMA LogKept ==
  ASSUME LogInv, blob' = blob, log' = log
  PROVE  LogInv' /\ \A q, p : Logged(log', q, p) <=> Logged(log, q, p)
<1>1. Nodes' = Nodes /\ \A sc, p : Entry(sc, p) => Entry(sc, p)'
  BY TreeKept
<1>2. LogInv'
  BY <1>1 DEF LogInv
<1> QED BY <1>2

\* A walk that has stopped early promises nothing more.
LEMMA Stopped ==
  ASSUME query' \in Stops
  PROVE  ScanInv' /\ CoverInv'
BY DEF ScanInv, CoverInv, Running, Stops

\* A NOP or a property is passed: the walk is in the same node.
LEMMA Advance ==
  ASSUME DInv, Running, frames # << >>, token.t \in {"NOP", "PROP"},
         lex' = lex + 1, blob' = blob, log' = log, query' = query,
         IsSeq(frames'), Len(frames') = Len(frames), g_mem_size' = g_mem_size,
         \A i \in 1..Len(frames) :
           /\ Shape(frames'[i]) /\ frames'[i].last = frames[i].last
           /\ frames'[i].child.pos = frames[i].child.pos,
         DOMAIN scan' = {"memory", "reg", "hasReg", "whole", "compat"},
         scan'.memory \in BOOLEAN /\ scan'.compat \in BOOLEAN
           /\ scan'.hasReg \in BOOLEAN
  PROVE  /\ StackInv' /\ CoverInv' /\ LogInv' /\ (LastProperty' <=> LastProperty)
         /\ LastProperty => node'.pos = node.pos
<1>1. StackInv /\ CoverInv /\ LogInv
  BY DEF DInv
<1>2. /\ Len(blob.toks) \in Nat /\ lex \in Nat /\ lex >= 1
      /\ lex + 1 \in 1..Len(blob.toks)
      /\ DepthIn(blob.toks, lex - 1) \in Int
      /\ DepthIn(blob.toks, lex) = DepthIn(blob.toks, lex - 1)
      /\ Nodes' = Nodes
  BY <1>1, TokenFacts, TreeKept
<1>3. Len(frames) \in Nat /\ Len(frames) >= 1 /\ frames' # << >>
  BY <1>1, SeqEmpty DEF StackInv, IsSeq
<1>4. LastProperty' <=> LastProperty
  BY <1>3, Place
<1>5. LastProperty => node'.pos = node.pos
  BY <1>3, Place
<1>6. StackInv'
  <2>1. blob.understood /\ top = DepthIn(blob.toks, lex - 1) + 1
    BY <1>1 DEF StackInv
  <2>2. top' = DepthIn(blob'.toks, lex' - 1) + 1
    BY <1>2, <2>1, Place
  <2>3. \A i \in 1..(Len(frames') - 1) : frames'[i].last
    BY <1>1, <1>3 DEF StackInv
  <2> QED BY <1>1, <1>2, <1>3, <2>1, <2>2, <2>3 DEF StackInv
<1>7. LogInv' /\ \A q, p : Logged(log', q, p) <=> Logged(log, q, p)
  BY <1>1, LogKept
<1>8. CoverInv'
  <2>1. \A p \in 1..(lex' - 1) : p = lex \/ p \in 1..(lex - 1)
    BY <1>2
  <2>2. \A p \in 1..(lex - 1) : p \in 1..(lex' - 1)
    BY <1>2
  <2>3. blob.toks[lex].t # "BEGIN_NODE"
    BY Place
  <2>4. ASSUME NEW p \in 1..(lex' - 1), blob'.toks[p].t = "BEGIN_NODE"
        PROVE  Logged(log', query', p) \/ (LastProperty' /\ p = node'.pos)
    BY <1>1, <1>4, <1>5, <1>7, <2>1, <2>3, <2>4 DEF CoverInv
  <2>5. \A p : Logged(log', query', p) => p \in 1..(lex' - 1)
    BY <1>1, <1>7, <2>2 DEF CoverInv
  <2>6. LastProperty' => \A p : p = node'.pos => ~Logged(log', query', p)
    BY <1>1, <1>4, <1>5, <1>7 DEF CoverInv
  <2>7. query' = "htif" => \A p : ~Logged(log', "mem", p)
    BY <1>1, <1>7 DEF CoverInv
  <2>8. query' \in {"mem", "done"} /\ blob'.understood =>
          \A p \in Nodes' : Logged(log', "htif", p)
    BY <1>1, <1>2, <1>7 DEF CoverInv
  <2>9. query' # "done"
    BY DEF Running
  <2> QED BY <2>4, <2>5, <2>6, <2>7, <2>8, <2>9 DEF CoverInv
<1> QED BY <1>4, <1>5, <1>6, <1>7, <1>8

\* A NOP tells the callbacks nothing.
LEMMA KnowsNop ==
  ASSUME NEW sc, NEW toks, NEW p, NEW l \in Nat, Knows(sc, toks, p, l),
         toks[l].t = "NOP"
  PROVE  Knows(sc, toks, p, l + 1)
<1>1. p \in Nat /\ p < l /\ p \in 1..((l + 1) - 1)
  BY DEF Knows
<1>2. \A name : Seen(toks, p, l + 1, name) = Seen(toks, p, l, name)
  <2>1. (p + 1)..((l + 1) - 1) = ((p + 1)..(l - 1)) \cup {l}
    BY <1>1
  <2> QED BY <2>1 DEF Seen
<1>3. \A j \in (p + 1)..((l + 1) - 1) : j = l \/ j \in (p + 1)..(l - 1)
  BY <1>1
<1>4. \A j \in (p + 1)..((l + 1) - 1) : toks[j].t \in {"PROP", "NOP"}
  BY <1>3 DEF Knows
<1> QED BY <1>1, <1>2, <1>4 DEF Knows

\* mem_prop and htif_prop tell them the property just passed.
LEMMA KnowsProp ==
  ASSUME NEW sc, NEW toks, NEW p, NEW l \in Nat, Knows(sc, toks, p, l),
         toks[l].t = "PROP",
         DOMAIN sc = {"memory", "reg", "hasReg", "whole", "compat"},
         sc.memory \in BOOLEAN, sc.compat \in BOOLEAN, sc.hasReg \in BOOLEAN
  PROVE  Knows(PropSeen(sc, toks[l]), toks, p, l + 1)
<1> DEFINE t == toks[l]
           s == PropSeen(sc, t)
<1>1. p \in Nat /\ p < l /\ p \in 1..((l + 1) - 1) /\ toks[p].t = "BEGIN_NODE"
  BY DEF Knows
<1>2. \A name : /\ Seen(toks, p, l + 1, name) =
                     IF t.name = name THEN Seen(toks, p, l, name) \cup {l}
                     ELSE Seen(toks, p, l, name)
                /\ \A n \in Seen(toks, p, l, name) : n \in Nat /\ n < l
  <2>1. (p + 1)..((l + 1) - 1) = ((p + 1)..(l - 1)) \cup {l}
    BY <1>1
  <2> TAKE name
  <2>2. CASE t.name = name
    BY <1>1, <2>1, <2>2 DEF Seen
  <2>3. CASE t.name # name
    BY <1>1, <2>1, <2>3 DEF Seen
  <2> QED BY <2>2, <2>3
<1>3. \A j \in (p + 1)..((l + 1) - 1) : j = l \/ j \in (p + 1)..(l - 1)
  BY <1>1
<1>4. \A j \in (p + 1)..((l + 1) - 1) : toks[j].t \in {"PROP", "NOP"}
  BY <1>3 DEF Knows
<1>5. /\ s.memory <=> sc.memory \/ (t.name = "device_type" /\ t.val = MEMORY)
      /\ s.compat <=> sc.compat \/ (t.name = "compatible" /\ t.val = HTIF0)
      /\ s.hasReg <=> sc.hasReg \/ t.name = "reg"
      /\ s.reg = IF t.name = "reg" THEN t.val ELSE sc.reg
      /\ s.whole = IF t.name = "reg" THEN t.whole ELSE sc.whole
  BY DEF PropSeen
<1> HIDE DEF s
<1>6. s.memory <=> \E n \in Seen(toks, p, l + 1, "device_type") :
                     toks[n].val = MEMORY
  BY <1>2, <1>5 DEF Knows
<1>7. s.compat <=> \E n \in Seen(toks, p, l + 1, "compatible") :
                     toks[n].val = HTIF0
  BY <1>2, <1>5 DEF Knows
<1>8. s.hasReg <=> Seen(toks, p, l + 1, "reg") # {}
  BY <1>2, <1>5 DEF Knows
<1>9. ASSUME s.hasReg
      PROVE  \E n \in Seen(toks, p, l + 1, "reg") :
               /\ s.reg = toks[n].val /\ s.whole = toks[n].whole
               /\ \A k \in Seen(toks, p, l + 1, "reg") : k <= n
  <2>1. CASE t.name = "reg"
    <3>1. /\ l \in Seen(toks, p, l + 1, "reg") /\ s.reg = toks[l].val
          /\ s.whole = toks[l].whole
      BY <1>2, <1>5, <2>1
    <3>2. \A k \in Seen(toks, p, l + 1, "reg") : k <= l
      <4>1. \A k \in Seen(toks, p, l, "reg") : k \in Nat /\ k < l
        BY <1>2
      <4>2. Seen(toks, p, l + 1, "reg") = Seen(toks, p, l, "reg") \cup {l}
        BY <1>2, <2>1
      <4> QED BY <4>1, <4>2
    <3> QED BY <3>1, <3>2
  <2>2. CASE t.name # "reg"
    BY <1>2, <1>5, <1>9, <2>2 DEF Knows
  <2> QED BY <2>1, <2>2
<1>10. Knows(s, toks, p, l + 1)
  BY <1>1, <1>4, <1>6, <1>7, <1>8, <1>9 DEF Knows
<1> QED BY <1>10 DEF s

LEMMA NopStep == DInv /\ Nop => DInv'
<1> SUFFICES ASSUME DInv, Nop PROVE DInv'
  OBVIOUS
<1>1. /\ Running /\ frames # << >> /\ token.t = "NOP" /\ lex' = lex + 1
      /\ UNCHANGED <<blob, query, frames, scan, htif, g_mem_size, log>>
  BY DEF Nop, Reads, AfterNop, Running
<1>2. StackInv /\ ScanInv
  BY DEF DInv
<1>3. /\ StackInv' /\ CoverInv' /\ LogInv' /\ (LastProperty' <=> LastProperty)
      /\ LastProperty => node'.pos = node.pos
  BY <1>1, <1>2, Advance DEF StackInv
<1>4. ScanInv'
  <2>1. ASSUME LastProperty', NEW p, p = node'.pos
        PROVE  Knows(scan, blob.toks, p, lex + 1)
    <3>1. Knows(scan, blob.toks, p, lex)
      BY <1>1, <1>2, <1>3, <2>1 DEF ScanInv
    <3>2. lex \in Nat /\ blob.toks[lex].t = "NOP"
      BY <1>1, <1>2, TokenFacts, Place
    <3> QED BY <3>1, <3>2, KnowsNop
  <2> QED BY <1>1, <2>1 DEF ScanInv
<1> QED BY <1>3, <1>4 DEF DInv

\* A property changes the cell counts of the node being read, and nothing else.
LEMMA Updated ==
  ASSUME DInv, Prop, ~frames[top].last
  PROVE  /\ IsSeq(frames') /\ Len(frames') = Len(frames)
         /\ \A i \in 1..Len(frames) :
              /\ Shape(frames'[i]) /\ frames'[i].last = frames[i].last
              /\ frames'[i].child.pos = frames[i].child.pos
         /\ \A i \in 1..Len(frames) : i # Len(frames) - 1 => frames'[i] = frames[i]
         /\ Len(frames) > 1 => \A name \in CellNames :
              Count(frames'[Len(frames) - 1].child, name) =
                IF token.name = name THEN AsInt(token.val[1])
                ELSE Count(frames[Len(frames) - 1].child, name)
<1> DEFINE n == Len(frames)
           f == frames[n - 1]
<1>1. /\ IsSeq(frames) /\ top = n /\ n \in Nat /\ DOMAIN frames = 1..n
      /\ \A i \in 1..n : Shape(frames[i])
  BY DEF DInv, StackInv, IsSeq, top
<1>2. frames' = CASE n > 1 /\ token.name = "#address-cells" ->
                       [frames EXCEPT ![n - 1].child.address_cells = AsInt(token.val[1])]
                  [] n > 1 /\ token.name = "#size-cells" ->
                       [frames EXCEPT ![n - 1].child.size_cells = AsInt(token.val[1])]
                  [] OTHER -> frames
  BY <1>1 DEF Prop, inNode
<1>3. CASE ~(n > 1) \/ token.name \notin CellNames
  <2>1. frames' = frames
    BY <1>2, <1>3 DEF CellNames
  <2>2. n > 1 => \A name \in CellNames : token.name # name
    BY <1>3
  <2> QED BY <1>1, <2>1, <2>2
<1>4. CASE n > 1 /\ token.name \in CellNames
  <2>1. n - 1 \in 1..n /\ Shape(f)
    BY <1>1, <1>4
  <2>2. PICK e : /\ frames' = [frames EXCEPT ![n - 1] = e]
                 /\ \/ /\ token.name = "#address-cells"
                       /\ e = [f EXCEPT !.child.address_cells = AsInt(token.val[1])]
                    \/ /\ token.name = "#size-cells"
                       /\ e = [f EXCEPT !.child.size_cells = AsInt(token.val[1])]
    BY <1>2, <1>4 DEF CellNames
  <2>3. Shape(e) /\ e.last = f.last /\ e.child.pos = f.child.pos
    <3> HIDE DEF f
    <3>1. CASE e = [f EXCEPT !.child.address_cells = AsInt(token.val[1])]
      BY <2>1, <3>1 DEF Shape
    <3>2. CASE e = [f EXCEPT !.child.size_cells = AsInt(token.val[1])]
      BY <2>1, <3>2 DEF Shape
    <3> QED BY <2>2, <3>1, <3>2
  <2>4. \A name \in CellNames : Count(e.child, name) =
          IF token.name = name THEN AsInt(token.val[1]) ELSE Count(f.child, name)
    BY <2>1, <2>2 DEF Shape, Count, CellNames
  <2>5. /\ frames' = [i \in 1..n |-> frames'[i]]
        /\ \A i \in 1..n : frames'[i] = IF i = n - 1 THEN e ELSE frames[i]
    <3> HIDE DEF n
    <3> QED BY <1>1, <2>1, <2>2
  <2>6. IsSeq(frames') /\ Len(frames') = n
    BY <1>1, <2>5, SeqMade
  <2>7. frames'[n - 1] = e
    BY <2>1, <2>5
  <2> QED BY <1>1, <2>3, <2>4, <2>5, <2>6, <2>7
<1> QED BY <1>3, <1>4

LEMMA PropStep == DInv /\ Prop => DInv'
<1> SUFFICES ASSUME DInv, Prop PROVE DInv'
  OBVIOUS
<1>1. /\ Running /\ frames # << >> /\ token.t = "PROP"
      /\ UNCHANGED <<blob, htif, g_mem_size, log>>
  BY DEF Prop, Reads, Running
<1>2. StackInv /\ ScanInv /\ LogInv
  BY DEF DInv
<1>3. CASE frames[top].last
  <2>1. query' \in Stops /\ UNCHANGED <<lex, frames, scan>>
    BY <1>3 DEF Prop, Died, Stops
  <2>2. StackInv'
    BY <1>1, <1>2, <2>1 DEF StackInv, Running, Stops
  <2> QED BY <1>1, <1>2, <2>1, <2>2, Stopped, LogKept DEF DInv
<1>4. CASE ~frames[top].last
  <2>1. scan' = PropSeen(scan, token) /\ lex' = lex + 1 /\ query' = query
    BY <1>4 DEF Prop
  <2>2. /\ DOMAIN scan' = {"memory", "reg", "hasReg", "whole", "compat"}
        /\ scan'.memory \in BOOLEAN /\ scan'.compat \in BOOLEAN
        /\ scan'.hasReg \in BOOLEAN
    BY <1>2, <2>1 DEF PropSeen, StackInv
  <2>3. /\ IsSeq(frames') /\ Len(frames') = Len(frames)
        /\ \A i \in 1..Len(frames) :
             /\ Shape(frames'[i]) /\ frames'[i].last = frames[i].last
             /\ frames'[i].child.pos = frames[i].child.pos
    BY <1>4, Updated
  <2>4. /\ StackInv' /\ CoverInv' /\ LogInv' /\ (LastProperty' <=> LastProperty)
        /\ LastProperty => node'.pos = node.pos
    BY <1>1, <2>1, <2>2, <2>3, Advance
  <2>5. ScanInv'
    <3>1. ASSUME LastProperty', NEW p, p = node'.pos
          PROVE  Knows(scan', blob.toks, p, lex + 1)
      <4>1. Knows(scan, blob.toks, p, lex)
        BY <1>1, <1>2, <2>4, <3>1 DEF ScanInv
      <4>2. lex \in Nat /\ blob.toks[lex].t = "PROP"
        BY <1>1, <1>2, TokenFacts, Place
      <4>3. Knows(PropSeen(scan, blob.toks[lex]), blob.toks, p, lex + 1)
        BY <1>2, <4>1, <4>2, KnowsProp DEF StackInv
      <4> QED BY <2>1, <4>3, Place
    <3> QED BY <1>1, <2>1, <3>1 DEF ScanInv
  <2> QED BY <2>4, <2>5 DEF DInv
<1> QED BY <1>3, <1>4

\* done is called, if it is due, and the walk goes on at the next token.
LEMMA LogDone ==
  ASSUME DInv, Running, token.t \in {"BEGIN_NODE", "END_NODE", "END"},
         DoneIfLast, blob' = blob
  PROVE  LogInv'
<1>1. Nodes' = Nodes /\ \A sc, p : Entry(sc, p) => Entry(sc, p)'
  BY TreeKept
<1>2. /\ IsSeq(log')
      /\ \A n \in 1..Len(log') : \A sc, p :
           sc = log'[n].scan /\ p = log'[n].pos => Entry(sc, p) /\ p \in Nodes
      /\ \A n, k \in 1..Len(log') :
           n # k /\ log'[n].query = log'[k].query => log'[n].pos # log'[k].pos
  BY DoneCall
<1> QED BY <1>1, <1>2 DEF LogInv

\* After it, every node passed so far has been reported by this query.
LEMMA CoverDone ==
  ASSUME DInv, Running, token.t \in {"BEGIN_NODE", "END_NODE", "END"},
         DoneIfLast, query' = query
  PROVE  /\ \A p : Logged(log', query, p) => p \in 1..(lex - 1)
         /\ \A p \in 1..(lex - 1) :
              blob.toks[p].t = "BEGIN_NODE" => Logged(log', query, p)
         /\ query = "htif" => \A p : ~Logged(log', "mem", p)
         /\ \A p : Logged(log, "htif", p) => Logged(log', "htif", p)
<1>1. \A q, p : Logged(log', q, p) <=> \/ Logged(log, q, p)
                                       \/ LastProperty /\ q = query /\ p = node.pos
  BY DoneCall
<1>2. LastProperty => \A p : p = node.pos => p \in 1..(lex - 1)
  BY DEF DInv, ScanInv, Knows
<1>3. /\ \A p : Logged(log, query, p) => p \in 1..(lex - 1)
      /\ \A p \in 1..(lex - 1) :
           blob.toks[p].t = "BEGIN_NODE" =>
             Logged(log, query, p) \/ (LastProperty /\ p = node.pos)
      /\ query = "htif" => \A p : ~Logged(log, "mem", p)
  BY DEF DInv, CoverInv
<1> QED BY <1>1, <1>2, <1>3

\* The top activation has entered the child at lex, whose activation is new.
LEMMA Pushed ==
  ASSUME DInv, BeginNode
  PROVE  /\ IsSeq(frames') /\ Len(frames') = Len(frames) + 1
         /\ \A i \in 1..(Len(frames) - 1) : frames'[i] = frames[i]
         /\ Shape(frames'[Len(frames)]) /\ frames'[Len(frames)].last
         /\ frames'[Len(frames)].child.pos = lex
         /\ \A name : Count(frames'[Len(frames)].child, name)
                        = Count(frames[Len(frames)].child, name)
         /\ frames'[Len(frames) + 1] = Frame
<1> DEFINE n == Len(frames)
           f == frames[n]
           e == [f EXCEPT !.last = TRUE, !.child.pos = lex]
           u == [frames EXCEPT ![n] = e]
<1>1. IsSeq(frames) /\ DOMAIN frames = 1..n /\ n \in Nat /\ n >= 1 /\ n \in 1..n
  <2>1. frames # << >> /\ IsSeq(frames)
    BY DEF BeginNode, Reads, DInv, StackInv
  <2>2. n \in Nat /\ n # 0
    BY <2>1, SeqEmpty DEF IsSeq
  <2> QED BY <2>1, <2>2 DEF IsSeq
<1>2. Shape(f)
  BY <1>1 DEF DInv, StackInv
<1>3. /\ Shape(e) /\ e.last /\ e.child.pos = lex
      /\ \A name : Count(e.child, name) = Count(f.child, name)
  BY <1>2 DEF Shape, Count
<1>4. frames' = Append(u, Frame)
  BY DEF BeginNode, top
<1> HIDE DEF e
<1>5. /\ u = [i \in 1..n |-> u[i]] /\ u[n] = e
      /\ \A i \in 1..(n - 1) : u[i] = frames[i]
  <2> HIDE DEF n
  <2>1. \A i \in 1..(n - 1) : i \in 1..n /\ i # n
    BY <1>1
  <2>2. u = [i \in 1..n |-> u[i]]
    BY <1>1
  <2>3. u[n] = e
    BY <1>1
  <2>4. \A i \in 1..(n - 1) : u[i] = frames[i]
    BY <1>1, <2>1
  <2> QED BY <2>2, <2>3, <2>4
<1> HIDE DEF u
<1>6. IsSeq(u) /\ Len(u) = n
  BY <1>1, <1>5, SeqMade
<1>7. /\ IsSeq(frames') /\ Len(frames') = n + 1 /\ frames'[n + 1] = Frame
      /\ \A i \in 1..n : frames'[i] = u[i]
  BY <1>4, <1>6, SeqAppend
<1>8. frames'[n] = e /\ \A i \in 1..(n - 1) : frames'[i] = frames[i]
  <2> HIDE DEF n
  <2>1. \A i \in 1..(n - 1) : i \in 1..n
    BY <1>1
  <2>2. frames'[n] = u[n]
    BY <1>1, <1>7
  <2> QED BY <1>5, <1>7, <2>1, <2>2
<1> QED BY <1>3, <1>7, <1>8

LEMMA BeginStep == DInv /\ BeginNode => DInv'
<1> SUFFICES ASSUME DInv, BeginNode PROVE DInv'
  OBVIOUS
<1>1. /\ Running /\ frames # << >> /\ token.t = "BEGIN_NODE" /\ DoneIfLast
      /\ blob' = blob /\ lex' = lex + 1 /\ scan' = Blank
      /\ frames' = Append([frames EXCEPT ![top].last = TRUE,
                                         ![top].child.pos = lex], Frame)
  BY DEF BeginNode, Reads, Running, Opened
<1>2. StackInv /\ CoverInv
  BY DEF DInv
<1>3. /\ Len(blob.toks) \in Nat /\ lex \in Nat /\ lex >= 1
      /\ lex + 1 \in 1..Len(blob.toks)
      /\ DepthIn(blob.toks, lex - 1) \in Int
      /\ DepthIn(blob.toks, lex) = DepthIn(blob.toks, lex - 1) + 1
      /\ Nodes' = Nodes
  BY <1>1, <1>2, TokenFacts, TreeKept
<1>4. Len(frames) \in Nat /\ Len(frames) >= 1 /\ top = Len(frames)
  BY <1>1, <1>2, SeqEmpty DEF StackInv, IsSeq, top
<1>5. /\ IsSeq(frames') /\ Len(frames') = Len(frames) + 1
      /\ \A i \in 1..(Len(frames) - 1) : frames'[i] = frames[i]
      /\ Shape(frames'[Len(frames)]) /\ frames'[Len(frames)].last
      /\ frames'[Len(frames)].child.pos = lex
      /\ frames'[Len(frames) + 1] = Frame
  BY Pushed
<1>6. query' = query \/ query' \in Stops
  BY <1>1, DoneCall
<1>7. LogInv'
  BY <1>1, LogDone
<1>8. StackInv'
  <2>1. /\ DOMAIN scan' = {"memory", "reg", "hasReg", "whole", "compat"}
        /\ scan'.memory \in BOOLEAN /\ scan'.compat \in BOOLEAN
        /\ scan'.hasReg \in BOOLEAN
    BY <1>1 DEF Blank
  <2>2. \A i \in 1..(Len(frames) + 1) : \/ i \in 1..(Len(frames) - 1)
                                        \/ i = Len(frames)
                                        \/ i = Len(frames) + 1
    BY <1>4
  <2>3. Shape(Frame)
    BY DEF Shape, Frame
  <2>4. \A i \in 1..Len(frames') : Shape(frames'[i])
    BY <1>2, <1>4, <1>5, <2>2, <2>3 DEF StackInv
  <2>5. \A i \in 1..(Len(frames') - 1) : frames'[i].last
    BY <1>2, <1>4, <1>5 DEF StackInv
  <2>6. frames' # << >>
    BY <1>4, <1>5, SeqEmpty
  <2>7. blob.understood /\ top = DepthIn(blob.toks, lex - 1) + 1
    BY <1>1, <1>2 DEF StackInv
  <2>8. top' = DepthIn(blob'.toks, lex' - 1) + 1
    BY <1>1, <1>3, <1>4, <1>5, <2>7, Place
  <2>9. query' \in {"htif", "mem", "done"} \cup Stops
    BY <1>2, <1>6 DEF StackInv
  <2> QED BY <1>1, <1>2, <1>3, <1>5, <2>1, <2>4, <2>5, <2>6, <2>7, <2>8, <2>9
          DEF StackInv
<1>9. CASE query' \in Stops
  BY <1>7, <1>8, <1>9, Stopped DEF DInv
<1>10. CASE query' = query
  <2>1. LastProperty' /\ node'.pos = lex
    BY <1>4, <1>5, Place DEF Frame
  <2>2. ScanInv'
    <3>1. Knows(scan', blob'.toks, lex, lex')
      <4>1. lex \in 1..(lex' - 1) /\ (lex + 1)..(lex' - 1) = {}
        BY <1>1, <1>3
      <4>2. \A name : Seen(blob'.toks, lex, lex', name) = {}
        BY <4>1 DEF Seen
      <4>3. blob'.toks[lex].t = "BEGIN_NODE"
        BY <1>1, Place
      <4>4. ~scan'.memory /\ ~scan'.compat /\ ~scan'.hasReg
        BY <1>1 DEF Blank
      <4> QED BY <4>1, <4>2, <4>3, <4>4 DEF Knows
    <3> QED BY <2>1, <3>1 DEF ScanInv
  <2>3. /\ \A p : Logged(log', query, p) => p \in 1..(lex - 1)
        /\ \A p \in 1..(lex - 1) :
             blob.toks[p].t = "BEGIN_NODE" => Logged(log', query, p)
        /\ query = "htif" => \A p : ~Logged(log', "mem", p)
        /\ \A p : Logged(log, "htif", p) => Logged(log', "htif", p)
    BY <1>1, <1>10, CoverDone
  <2>4. CoverInv'
    <3>1. /\ \A p \in 1..(lex' - 1) : p = lex \/ p \in 1..(lex - 1)
          /\ \A p \in 1..(lex - 1) : p \in 1..(lex' - 1)
          /\ lex \notin 1..(lex - 1)
      BY <1>1, <1>3
    <3>2. query' # "done" /\ query' \in {"htif", "mem"}
      BY <1>1, <1>10 DEF Running
    <3>3. query' \in {"mem", "done"} /\ blob'.understood =>
            \A p \in Nodes' : Logged(log', "htif", p)
      BY <1>1, <1>2, <1>3, <1>10, <2>3 DEF CoverInv
    <3>4. \A p \in 1..(lex' - 1) : blob'.toks[p].t = "BEGIN_NODE" =>
            Logged(log', query', p) \/ (LastProperty' /\ p = node'.pos)
      BY <1>1, <1>10, <2>1, <2>3, <3>1
    <3>5. \A p : Logged(log', query', p) => p \in 1..(lex' - 1)
      BY <1>10, <2>3, <3>1
    <3>6. \A p : p = node'.pos => ~Logged(log', query', p)
      BY <1>10, <2>1, <2>3, <3>1
    <3> QED BY <1>10, <2>3, <3>2, <3>3, <3>4, <3>5, <3>6 DEF CoverInv
  <2> QED BY <1>7, <1>8, <2>2, <2>4 DEF DInv
<1> QED BY <1>6, <1>9, <1>10

LEMMA EndStep == DInv /\ EndNode => DInv'
<1> SUFFICES ASSUME DInv, EndNode PROVE DInv'
  OBVIOUS
<1>1. /\ Running /\ frames # << >> /\ token.t \in {"END_NODE", "END"}
      /\ DoneIfLast /\ UNCHANGED <<blob, scan>>
      /\ frames' = SubSeq(frames, 1, Len(frames) - 1)
      /\ lex' = IF token.t = "END_NODE" THEN lex + 1 ELSE lex
  BY DEF EndNode, Reads, Running, AfterEnd, top
<1>2. StackInv /\ CoverInv
  BY DEF DInv
<1>3. /\ Len(blob.toks) \in Nat /\ lex \in Nat /\ lex >= 1
      /\ token.t = "END_NODE" =>
           /\ lex + 1 \in 1..Len(blob.toks)
           /\ DepthIn(blob.toks, lex) = DepthIn(blob.toks, lex - 1) - 1
      /\ DepthIn(blob.toks, lex - 1) \in Int /\ DepthIn(blob.toks, lex) >= 0
      /\ Nodes' = Nodes
  BY <1>1, <1>2, TokenFacts, TreeKept
<1>4. Len(frames) \in Nat /\ Len(frames) >= 1 /\ top = Len(frames)
  BY <1>1, <1>2, SeqEmpty DEF StackInv, IsSeq, top
<1>5. /\ IsSeq(frames') /\ Len(frames') = Len(frames) - 1
      /\ \A i \in 1..(Len(frames) - 1) : frames'[i] = frames[i]
  BY <1>1, <1>2, <1>4, SeqFront DEF StackInv
<1>6. query' = query \/ query' \in Stops
  BY <1>1, DoneCall
<1>7. LogInv'
  BY <1>1, LogDone
<1>8. blob.understood
  BY <1>1, <1>2 DEF StackInv
<1>9. StackInv'
  <2>1. /\ \A i \in 1..Len(frames') : Shape(frames'[i])
        /\ \A i \in 1..(Len(frames') - 1) : frames'[i].last
    BY <1>2, <1>4, <1>5 DEF StackInv
  <2>2. query' \in {"htif", "mem", "done"} \cup Stops
    BY <1>2, <1>6 DEF StackInv
  <2>3. lex' \in 1..Len(blob'.toks)
    BY <1>1, <1>2, <1>3 DEF StackInv
  <2>4. /\ frames' = << >> => token'.t = "END"
        /\ token'.t # "END" => top' = DepthIn(blob'.toks, lex' - 1) + 1
    <3>1. CASE token.t = "END"
      BY <1>1, <3>1, Place
    <3>2. CASE token.t = "END_NODE"
      <4>1. top = DepthIn(blob.toks, lex - 1) + 1
        BY <1>1, <1>2, <1>8, <3>2 DEF StackInv
      <4>2. top' = DepthIn(blob'.toks, lex' - 1) + 1
        <5>1. lex' - 1 = lex /\ blob' = blob
          BY <1>1, <1>3, <3>2
        <5>2. top' = top - 1
          BY <1>4, <1>5, Place
        <5> QED BY <1>3, <1>4, <3>2, <4>1, <5>1, <5>2
      <4>3. frames' # << >>
        BY <1>3, <1>4, <1>5, <3>2, <4>1, SeqEmpty
      <4> QED BY <4>2, <4>3
    <3> QED BY <1>1, <3>1, <3>2
  <2> QED BY <1>1, <1>2, <1>5, <1>8, <2>1, <2>2, <2>3, <2>4 DEF StackInv
<1>10. CASE query' \in Stops
  BY <1>7, <1>9, <1>10, Stopped DEF DInv
<1>11. CASE query' = query
  <2>1. ~LastProperty'
    <3>1. Len(frames') > 1 => frames'[Len(frames')].last
      BY <1>2, <1>4, <1>5 DEF StackInv
    <3> QED BY <3>1, Place
  <2>2. ScanInv'
    BY <2>1 DEF ScanInv
  <2>3. /\ \A p : Logged(log', query, p) => p \in 1..(lex - 1)
        /\ \A p \in 1..(lex - 1) :
             blob.toks[p].t = "BEGIN_NODE" => Logged(log', query, p)
        /\ query = "htif" => \A p : ~Logged(log', "mem", p)
        /\ \A p : Logged(log, "htif", p) => Logged(log', "htif", p)
    BY <1>1, <1>11, CoverDone
  <2>4. CoverInv'
    <3>1. /\ \A p \in 1..(lex' - 1) : p = lex \/ p \in 1..(lex - 1)
          /\ \A p \in 1..(lex - 1) : p \in 1..(lex' - 1)
      BY <1>1, <1>3
    <3>2. query' # "done" /\ query' \in {"htif", "mem"}
      BY <1>1, <1>11 DEF Running
    <3>3. query' \in {"mem", "done"} /\ blob'.understood =>
            \A p \in Nodes' : Logged(log', "htif", p)
      BY <1>1, <1>2, <1>3, <1>11, <2>3 DEF CoverInv
    <3>4. \A p \in 1..(lex' - 1) : blob'.toks[p].t = "BEGIN_NODE" =>
            Logged(log', query', p)
      BY <1>1, <1>11, <2>3, <3>1, Place
    <3>5. \A p : Logged(log', query', p) => p \in 1..(lex' - 1)
      BY <1>11, <2>3, <3>1
    <3> QED BY <1>11, <2>1, <2>3, <3>2, <3>3, <3>4, <3>5 DEF CoverInv
  <2> QED BY <1>7, <1>9, <2>2, <2>4 DEF DInv
<1> QED BY <1>6, <1>10, <1>11

---------------------------------------------------------------------------
(* The two queries.                                                        *)

\* fdt_scan starts at the first token, with one activation or none.
LEMMA Started ==
  /\ IsSeq(ScanStart) /\ (\A i \in 1..Len(ScanStart) : Shape(ScanStart[i]))
  /\ Len(ScanStart) = IF blob.understood THEN 1 ELSE 0
  /\ ~blob.understood => ScanStart = << >>
<1>1. IsSeq(<< >>) /\ Len(<< >>) = 0
  BY DEF IsSeq
<1>2. IsSeq(<<Frame>>) /\ Len(<<Frame>>) = 1 /\ <<Frame>>[1] = Frame
  BY DEF IsSeq
<1>3. Shape(Frame)
  BY DEF Shape, Frame
<1>4. CASE blob.understood
  <2>1. ScanStart = <<Frame>>
    BY <1>4 DEF ScanStart
  <2>2. \A i \in 1..1 : i = 1
    OBVIOUS
  <2> QED BY <1>2, <1>3, <1>4, <2>1, <2>2
<1>5. CASE ~blob.understood
  <2>1. ScanStart = << >>
    BY <1>5 DEF ScanStart
  <2> QED BY <1>1, <1>5, <2>1
<1> QED BY <1>4, <1>5

\* A walk that has returned has been through the whole tree.
LEMMA Returned ==
  ASSUME DInv, Running, frames = << >>, blob.understood
  PROVE  \A p \in Nodes : Logged(log, query, p)
<1>1. token.t = "END"
  BY DEF DInv, StackInv
<1>2. /\ Len(blob.toks) \in Nat /\ lex = Len(blob.toks)
      /\ Nodes = {n \in 1..Len(blob.toks) : blob.toks[n].t = "BEGIN_NODE"}
  BY <1>1, TokenFacts DEF DInv
<1>3. ~LastProperty
  BY SeqEmpty, Place DEF DInv, StackInv
<1>4. \A p \in Nodes : p \in 1..(lex - 1) /\ blob.toks[p].t = "BEGIN_NODE"
  BY <1>1, <1>2, Place
<1> QED BY <1>3, <1>4 DEF DInv, CoverInv

LEMMA InitDInv == Init => DInv
<1> SUFFICES ASSUME Init PROVE DInv
  OBVIOUS
<1>1. /\ blob \in Blobs /\ query = "htif" /\ lex = 1 /\ scan = Blank
      /\ frames = ScanStart /\ g_mem_size = 0 /\ log = << >>
  BY DEF Init
<1>2. /\ DOMAIN scan = {"memory", "reg", "hasReg", "whole", "compat"}
      /\ scan.memory \in BOOLEAN /\ scan.compat \in BOOLEAN
      /\ scan.hasReg \in BOOLEAN
  BY <1>1 DEF Blank
<1>3. Len(blob.toks) \in Nat \ {0} /\ 1 \in 1..Len(blob.toks)
  BY <1>1, FdtAssumption
<1>4. DepthIn(blob.toks, lex - 1) = 0
  BY <1>1, DepthStep
<1>5. /\ IsSeq(frames) /\ (\A i \in 1..Len(frames) : Shape(frames[i]))
      /\ Len(frames) = IF blob.understood THEN 1 ELSE 0
      /\ ~blob.understood => frames = << >>
  BY <1>1, Started
<1>6. StackInv
  <2>1. \A i \in 1..(Len(frames) - 1) : frames[i].last
    BY <1>5
  <2>2. blob.understood => top = DepthIn(blob.toks, lex - 1) + 1
    BY <1>4, <1>5, Place
  <2>3. blob.understood => frames # << >>
    BY <1>5, SeqEmpty
  <2> QED BY <1>1, <1>2, <1>3, <1>5, <2>1, <2>2, <2>3 DEF StackInv
<1>7. ~LastProperty
  BY <1>5, Place
<1>8. \A q, p : ~Logged(log, q, p)
  BY <1>1 DEF Logged
<1>9. CoverInv
  <2>1. 1..(lex - 1) = {}
    BY <1>1
  <2> QED BY <1>1, <1>7, <1>8, <2>1 DEF CoverInv
<1>10. LogInv
  <2>1. Len(log) = 0 /\ IsSeq(log)
    BY <1>1 DEF IsSeq
  <2> QED BY <2>1 DEF LogInv
<1> QED BY <1>6, <1>7, <1>9, <1>10 DEF DInv, ScanInv

LEMMA QueryMemStep == DInv /\ QueryMem => DInv'
<1> SUFFICES ASSUME DInv, QueryMem PROVE DInv'
  OBVIOUS
<1>1. /\ query = "htif" /\ frames = << >> /\ query' = "mem" /\ lex' = 1
      /\ frames' = ScanStart /\ g_mem_size' = 0 /\ scan' = Blank
      /\ UNCHANGED <<blob, htif, log>>
  BY DEF QueryMem
<1>2. StackInv /\ CoverInv /\ LogInv
  BY DEF DInv
<1>3. /\ DOMAIN scan' = {"memory", "reg", "hasReg", "whole", "compat"}
      /\ scan'.memory \in BOOLEAN /\ scan'.compat \in BOOLEAN
      /\ scan'.hasReg \in BOOLEAN
  BY <1>1 DEF Blank
<1>4. blob' = blob /\ blob' \in Blobs /\ lex' \in 1..Len(blob'.toks)
  BY <1>1, <1>2, FdtAssumption DEF StackInv
<1>5. DepthIn(blob'.toks, lex' - 1) = 0
  BY <1>1, DepthStep
<1>6. /\ IsSeq(frames') /\ (\A i \in 1..Len(frames') : Shape(frames'[i]))
      /\ Len(frames') = IF blob'.understood THEN 1 ELSE 0
      /\ ~blob'.understood => frames' = << >>
  BY <1>1, Started
<1>7. StackInv'
  <2>1. \A i \in 1..(Len(frames') - 1) : frames'[i].last
    BY <1>6
  <2>2. blob'.understood => top' = DepthIn(blob'.toks, lex' - 1) + 1
    BY <1>5, <1>6, Place
  <2>3. blob'.understood => frames' # << >>
    BY <1>6, SeqEmpty
  <2> QED BY <1>1, <1>3, <1>4, <1>6, <2>1, <2>2, <2>3 DEF StackInv
<1>8. ~LastProperty'
  BY <1>6, Place
<1>9. /\ LogInv' /\ Nodes' = Nodes
      /\ \A q, p : Logged(log', q, p) <=> Logged(log, q, p)
  BY <1>1, <1>2, LogKept, TreeKept
<1>10. CoverInv'
  <2>1. 1..(lex' - 1) = {}
    BY <1>1
  <2>2. \A p : ~Logged(log', "mem", p)
    BY <1>1, <1>2, <1>9 DEF CoverInv
  <2>3. blob'.understood => \A p \in Nodes' : Logged(log', "htif", p)
    BY <1>1, <1>9, Returned DEF Running
  <2> QED BY <1>1, <1>8, <2>1, <2>2, <2>3 DEF CoverInv
<1> QED BY <1>7, <1>8, <1>9, <1>10 DEF DInv, ScanInv

LEMMA QueryMemDoneStep == DInv /\ QueryMemDone => DInv'
<1> SUFFICES ASSUME DInv, QueryMemDone PROVE DInv'
  OBVIOUS
<1>1. /\ query = "mem" /\ frames = << >>
      /\ query' = (IF g_mem_size > 0 THEN "done" ELSE Died)
      /\ UNCHANGED <<blob, lex, frames, scan, htif, g_mem_size, log>>
  BY DEF QueryMemDone
<1>2. StackInv /\ CoverInv /\ LogInv
  BY DEF DInv
<1>3. ~Running' /\ query' \in {"done"} \cup Stops
  BY <1>1 DEF Running, Died, Stops
<1>4. StackInv'
  BY <1>1, <1>2, <1>3 DEF StackInv, Stops
<1>5. /\ LogInv' /\ Nodes' = Nodes
      /\ \A q, p : Logged(log', q, p) <=> Logged(log, q, p)
  BY <1>1, <1>2, LogKept, TreeKept
<1>6. ASSUME query' = "done"
      PROVE  /\ blob'.understood /\ \A p \in Nodes' : Logged(log', "mem", p)
             /\ \A p \in Nodes' : Logged(log', "htif", p)
  <2>1. blob.understood
    <3>1. g_mem_size > 0
      BY <1>1, <1>6 DEF Died
    <3> QED BY <1>2, <3>1 DEF StackInv
  <2>2. \A p \in Nodes : Logged(log, "mem", p)
    BY <1>1, <2>1, Returned DEF Running
  <2>3. \A p \in Nodes : Logged(log, "htif", p)
    BY <1>1, <1>2, <2>1 DEF CoverInv
  <2> QED BY <1>1, <1>5, <2>1, <2>2, <2>3
<1>7. CoverInv'
  BY <1>3, <1>6 DEF CoverInv, Stops
<1> QED BY <1>3, <1>4, <1>5, <1>7 DEF DInv, ScanInv

LEMMA IdleStep == DInv /\ UNCHANGED vars => DInv'
<1> SUFFICES ASSUME DInv, UNCHANGED vars PROVE DInv'
  OBVIOUS
<1>1. UNCHANGED <<blob, query, lex, frames, scan, htif, g_mem_size, log>>
  BY DEF vars
<1>2. StackInv' /\ ScanInv'
  <2>1. /\ top' = top /\ token' = token /\ Running' = Running
        /\ node'.pos = node.pos /\ LastProperty' = LastProperty
    BY <1>1 DEF top, token, Running, node, LastProperty, inNode
  <2> QED BY <1>1, <2>1 DEF DInv, StackInv, ScanInv
<1>3. LogInv' /\ CoverInv'
  <2>1. /\ Running' = Running /\ node'.pos = node.pos
        /\ LastProperty' = LastProperty /\ Nodes' = Nodes
    BY <1>1, TreeKept DEF top, Running, node, LastProperty, inNode
  <2> QED BY <1>1, <2>1, LogKept DEF DInv, CoverInv
<1> QED BY <1>2, <1>3 DEF DInv

---------------------------------------------------------------------------
(* The latest of a set, and what the tree says.                            *)

\* A set of naturals has a least element, and a bounded one a greatest.
LEMMA Smallest ==
  ASSUME NEW T, T \subseteq Nat, T # {}
  PROVE  \E x \in T : \A y \in T : x <= y
<1>1. PICK x \in T : \A y \in T : ~(<<y, x>> \in OpToRel(<, Nat))
  BY NatLessThanWellFounded, WFMin
<1>2. OpToRel(<, Nat) = {ss \in Nat \X Nat : ss[1] < ss[2]}
  BY DEF OpToRel
<1>3. \A y \in T : ~(<<y, x>> \in {ss \in Nat \X Nat : ss[1] < ss[2]})
  BY <1>1, <1>2, Zenon
<1>4. ASSUME NEW y \in T PROVE x <= y
  <2>1. ~(<<y, x>> \in {ss \in Nat \X Nat : ss[1] < ss[2]})
    BY <1>3
  <2>2. <<y, x>> \in Nat \X Nat /\ <<y, x>>[1] = y /\ <<y, x>>[2] = x
    OBVIOUS
  <2>3. ~(y < x)
    BY <2>1, <2>2, Zenon
  <2> QED BY <2>3
<1> QED BY <1>4

LEMMA LatestIn ==
  ASSUME NEW m \in Nat, NEW T, T \subseteq 1..m, T # {}
  PROVE  Latest(T) \in T /\ \A y \in T : y <= Latest(T)
<1> DEFINE U == {n \in Nat : \A y \in T : y <= n}
<1>1. m \in U
  OBVIOUS
<1>2. PICK x \in U : \A y \in U : x <= y
  <2>1. U \subseteq Nat /\ U # {}
    BY <1>1
  <2> HIDE DEF U
  <2> QED BY <2>1, Smallest
<1>3. x \in T
  <2>1. SUFFICES ASSUME x \notin T PROVE FALSE
    OBVIOUS
  <2>2. \A y \in T : y \in Nat /\ y >= 1 /\ y <= x /\ y # x
    BY <2>1
  <2>3. x - 1 \in U
    <3>1. PICK z \in T : TRUE
      OBVIOUS
    <3>2. x \in Nat /\ x - 1 \in Nat
      BY <2>2, <3>1
    <3>3. \A y \in T : y <= x - 1
      BY <2>2, <3>2
    <3> QED BY <3>2, <3>3
  <2>4. x <= x - 1
    BY <1>2, <2>3
  <2> QED BY <2>4
<1>4. \E z \in T : \A y \in T : y <= z
  BY <1>3
<1> QED BY <1>4 DEF Latest

\* The latest of a set is one that no other exceeds.
LEMMA LatestIs ==
  ASSUME NEW T, NEW n \in T, T \subseteq Int, \A k \in T : k <= n
  PROVE  Latest(T) = n
<1>1. \A x \in T : (\A y \in T : y <= x) => x = n
  OBVIOUS
<1> QED BY <1>1 DEF Latest

\* The depth after each token of the tree.
LEMMA Depths ==
  ASSUME StackInv
  PROVE  \A n \in 1..Len(blob.toks) :
           /\ DepthIn(blob.toks, n) \in Int /\ DepthIn(blob.toks, n) >= 0
           /\ blob.toks[n].t = "BEGIN_NODE" =>
                /\ DepthIn(blob.toks, n - 1) \in Int
                /\ DepthIn(blob.toks, n) = DepthIn(blob.toks, n - 1) + 1
                /\ DepthIn(blob.toks, n) >= 1
                /\ n > 1 => DepthIn(blob.toks, n - 1) >= 0
<1>1. /\ Len(blob.toks) \in Nat
      /\ \A n \in 1..Len(blob.toks) : DepthIn(blob.toks, n) >= 0
  BY FdtAssumption DEF StackInv
<1>2. \A n \in Nat :
        /\ DepthIn(blob.toks, n) \in Int /\ DepthIn(blob.toks, 0) = 0
        /\ blob.toks[n + 1].t = "BEGIN_NODE" =>
             DepthIn(blob.toks, n + 1) = DepthIn(blob.toks, n) + 1
  BY DepthStep
<1>3. ASSUME NEW n \in 1..Len(blob.toks)
      PROVE  /\ DepthIn(blob.toks, n) \in Int /\ DepthIn(blob.toks, n) >= 0
             /\ blob.toks[n].t = "BEGIN_NODE" =>
                  /\ DepthIn(blob.toks, n - 1) \in Int
                  /\ DepthIn(blob.toks, n) = DepthIn(blob.toks, n - 1) + 1
                  /\ DepthIn(blob.toks, n) >= 1
                  /\ n > 1 => DepthIn(blob.toks, n - 1) >= 0
  <2>1. n \in Nat /\ n - 1 \in Nat /\ (n - 1) + 1 = n
    BY <1>1
  <2>2. /\ DepthIn(blob.toks, n) \in Int /\ DepthIn(blob.toks, n - 1) \in Int
        /\ DepthIn(blob.toks, 0) = 0
        /\ blob.toks[n].t = "BEGIN_NODE" =>
             DepthIn(blob.toks, n) = DepthIn(blob.toks, n - 1) + 1
    BY <1>2, <2>1
  <2>3. n > 1 => n - 1 \in 1..Len(blob.toks)
    BY <1>1
  <2>4. n = 1 => DepthIn(blob.toks, n - 1) = 0
    BY <2>2
  <2>5. DepthIn(blob.toks, n - 1) >= 0
    BY <1>1, <2>1, <2>2, <2>3, <2>4
  <2> QED BY <1>1, <2>2, <2>5
<1> QED BY <1>3

\* What the device tree says does not change.
LEMMA GoodKept ==
  ASSUME blob' = blob
  PROVE  /\ \A p, name : Own(p, name)' = Own(p, name)
         /\ \A p, name, d : OwnCells(p, name, d)' = OwnCells(p, name, d)
         /\ \A p : CellsDeclared(p)' <=> CellsDeclared(p)
         /\ \A p : HoldsKernel(p)' <=> HoldsKernel(p)
         /\ \A p : OwnRegions(p)' = OwnRegions(p)
         /\ \A p : IsMemory(p)' <=> IsMemory(p)
         /\ Good' <=> Good
<1>1. Nodes' = Nodes /\ Tokens' = Tokens
  BY DEF Nodes, Tokens, Is
<1>2. \A p, name : Own(p, name)' = Own(p, name)
  BY <1>1 DEF Own, Is
<1>3. \A p : IsMemory(p)' <=> IsMemory(p)
  BY <1>2 DEF IsMemory
<1>4. \A p, name, d : OwnCells(p, name, d)' = OwnCells(p, name, d)
  BY <1>2 DEF OwnCells
<1>5. \A p : CellsDeclared(p)' <=> CellsDeclared(p)
  BY <1>1, <1>2 DEF CellsDeclared, Siblings, Depth
<1>6. \A p : Parents(p)' = Parents(p)
  BY <1>1 DEF Parents, Depth
<1>7. \A p : Cells(p)' = Cells(p) /\ OwnReg(p)' = OwnReg(p)
  BY <1>2, <1>4 DEF Cells, OwnReg
<1>8. \A p : OwnRegions(p)' = OwnRegions(p)
  <2> TAKE p
  <2>1. OwnReg(p)' = OwnReg(p) /\ Parents(p)' = Parents(p)
    BY <1>6, <1>7
  <2>2. Cells(Latest(Parents(p)))' = Cells(Latest(Parents(p)))
    BY <1>7, <2>1
  <2> QED BY <2>1, <2>2 DEF OwnRegions
<1>9. \A p : HoldsKernel(p)' <=> HoldsKernel(p)
  BY <1>3, <1>8 DEF HoldsKernel
<1>10. \A p : MemoryOK(p)' <=> MemoryOK(p)
  <2> TAKE p
  <2>1. OwnReg(p)' = OwnReg(p) /\ Parents(p)' = Parents(p)
    BY <1>6, <1>7
  <2>2. Cells(Latest(Parents(p)))' = Cells(Latest(Parents(p)))
    BY <1>7, <2>1
  <2> QED BY <1>2, <2>1, <2>2 DEF MemoryOK
<1>11. WellFormed' <=> WellFormed
  BY <1>1, <1>2, <1>3, <1>8, <1>10 DEF WellFormed, PropertiesFirst, Is
<1>12. Good' <=> Good
  BY <1>1, <1>3, <1>5, <1>6, <1>11 DEF Good
<1> QED BY <1>2, <1>3, <1>4, <1>5, <1>8, <1>9, <1>12

---------------------------------------------------------------------------
(* The open nodes.                                                         *)

LEMMA OpenExtend ==
  ASSUME StackInv, NEW i \in Int, NEW p, OpenAt(blob.toks, lex, i, p),
         DepthIn(blob.toks, lex) >= i
  PROVE  OpenAt(blob.toks, lex + 1, i, p)
<1>1. lex \in Nat /\ p \in 1..(lex - 1)
  BY TokenFacts DEF OpenAt
<1>2. /\ p \in 1..((lex + 1) - 1)
      /\ \A j \in p..((lex + 1) - 1) : j = lex \/ j \in p..(lex - 1)
  BY <1>1
<1> QED BY <1>2 DEF OpenAt

\* Past one more token in the same activation.
LEMMA OpenAdvance ==
  ASSUME DInv, OpenInv, Running, frames # << >>, token.t \in {"NOP", "PROP"},
         lex' = lex + 1, blob' = blob, Len(frames') = Len(frames),
         \A i \in 1..Len(frames) : /\ frames'[i].last = frames[i].last
                                   /\ frames'[i].child.pos = frames[i].child.pos
  PROVE  OpenInv'
<1>1. StackInv /\ Len(frames) \in Nat /\ Len(frames) >= 1 /\ blob.understood
  BY SeqEmpty DEF DInv, StackInv, IsSeq
<1>2. /\ lex \in Nat /\ lex >= 1 /\ DepthIn(blob.toks, lex) \in Int
      /\ DepthIn(blob.toks, lex) = Len(frames) - 1
  <2>1. /\ DepthIn(blob.toks, lex) = DepthIn(blob.toks, lex - 1)
        /\ lex \in Nat /\ lex >= 1 /\ DepthIn(blob.toks, lex - 1) \in Int
    BY <1>1, TokenFacts
  <2>2. top = DepthIn(blob.toks, lex - 1) + 1 /\ top = Len(frames)
    BY <1>1, Place DEF StackInv
  <2> QED BY <1>1, <2>1, <2>2
<1>3. ASSUME NEW i \in 1..(Len(frames') - 1)
      PROVE  OpenAt(blob'.toks, lex', i, frames'[i].child.pos)
  <2>1. i \in 1..(Len(frames) - 1) /\ i \in 1..Len(frames) /\ i \in Int
    BY <1>1
  <2>2. OpenAt(blob.toks, lex, i, frames[i].child.pos)
    BY <2>1 DEF OpenInv
  <2>3. DepthIn(blob.toks, lex) >= i
    BY <1>1, <1>2, <2>1
  <2>4. OpenAt(blob.toks, lex + 1, i, frames[i].child.pos)
    BY <1>1, <2>1, <2>2, <2>3, OpenExtend
  <2> QED BY <2>1, <2>4
<1>4. ASSUME frames'[Len(frames')].last, NEW p \in 1..(lex' - 1),
             blob'.toks[p].t = "BEGIN_NODE"
      PROVE  \E j \in (p + 1)..(lex' - 1) : blob'.toks[j].t \notin {"PROP", "NOP"}
  <2>1. Len(frames) \in 1..Len(frames) /\ frames[Len(frames)].last
    BY <1>1, <1>4
  <2>2. p # lex
    BY <1>4, Place
  <2>3. p \in 1..(lex - 1)
    BY <1>2, <2>2
  <2>4. PICK j \in (p + 1)..(lex - 1) : blob.toks[j].t \notin {"PROP", "NOP"}
    BY <1>4, <2>1, <2>3 DEF OpenInv
  <2>5. j \in (p + 1)..(lex' - 1)
    BY <1>2, <2>3
  <2> QED BY <2>4, <2>5
<1> QED BY <1>3, <1>4 DEF OpenInv

LEMMA OpenBegin ==
  ASSUME DInv, OpenInv, BeginNode
  PROVE  OpenInv'
<1>1. /\ StackInv /\ token.t = "BEGIN_NODE" /\ blob' = blob /\ lex' = lex + 1
      /\ Running
  BY DEF BeginNode, Reads, DInv, Running
<1>2. Len(frames) \in Nat /\ Len(frames) >= 1
  BY SeqEmpty DEF DInv, StackInv, IsSeq, BeginNode, Reads
<1>3. /\ Len(frames') = Len(frames) + 1
      /\ \A i \in 1..(Len(frames) - 1) : frames'[i] = frames[i]
      /\ frames'[Len(frames)].child.pos = lex
      /\ frames'[Len(frames) + 1] = Frame
  BY Pushed
<1>4. blob.understood
  BY <1>1, <1>2, SeqEmpty DEF StackInv
<1>5. /\ lex \in Nat /\ lex >= 1 /\ DepthIn(blob.toks, lex) \in Int
      /\ DepthIn(blob.toks, lex) = Len(frames)
  BY <1>1, <1>2, <1>4, TokenFacts, Place DEF StackInv
<1>6. ASSUME NEW i \in 1..(Len(frames') - 1)
      PROVE  OpenAt(blob'.toks, lex', i, frames'[i].child.pos)
  <2>1. CASE i = Len(frames)
    <3>1. lex \in 1..(lex' - 1) /\ \A j \in lex..(lex' - 1) : j = lex
      BY <1>1, <1>5
    <3>2. blob'.toks[lex].t = "BEGIN_NODE"
      BY <1>1, Place
    <3> QED BY <1>1, <1>3, <1>5, <2>1, <3>1, <3>2 DEF OpenAt
  <2>2. CASE i # Len(frames)
    <3>1. i \in 1..(Len(frames) - 1) /\ i \in Int
      BY <1>2, <1>3, <2>2
    <3>2. OpenAt(blob.toks, lex, i, frames[i].child.pos)
      BY <1>1, <3>1 DEF OpenInv
    <3>3. DepthIn(blob.toks, lex) >= i
      BY <1>2, <1>5, <3>1
    <3>4. OpenAt(blob.toks, lex + 1, i, frames[i].child.pos)
      BY <1>1, <3>1, <3>2, <3>3, OpenExtend
    <3> QED BY <1>1, <1>3, <3>1, <3>4
  <2> QED BY <2>1, <2>2
<1>7. ~frames'[Len(frames')].last
  BY <1>3 DEF Frame
<1> QED BY <1>6, <1>7 DEF OpenInv

LEMMA OpenEnd ==
  ASSUME DInv, OpenInv, EndNode
  PROVE  OpenInv'
<1>1. /\ StackInv /\ token.t \in {"END_NODE", "END"} /\ blob' = blob /\ Running
      /\ frames' = SubSeq(frames, 1, Len(frames) - 1)
      /\ lex' = IF token.t = "END_NODE" THEN lex + 1 ELSE lex
  BY DEF EndNode, Reads, DInv, Running, AfterEnd, top
<1>2. Len(frames) \in Nat /\ Len(frames) >= 1 /\ IsSeq(frames)
  BY SeqEmpty DEF DInv, StackInv, IsSeq, EndNode, Reads
<1>3. /\ Len(frames') = Len(frames) - 1
      /\ \A i \in 1..(Len(frames) - 1) : frames'[i] = frames[i]
  BY <1>1, <1>2, SeqFront
<1>4. blob.understood
  BY <1>1, <1>2, SeqEmpty DEF StackInv
<1>5. ASSUME NEW i \in 1..(Len(frames') - 1)
      PROVE  /\ frames'[i] = frames[i] /\ i \in Int /\ i <= Len(frames) - 2
             /\ OpenAt(blob.toks, lex, i, frames[i].child.pos)
  <2>1. i \in 1..(Len(frames) - 1) /\ i \in Int /\ i <= Len(frames) - 2
    BY <1>2, <1>3
  <2> QED BY <1>1, <1>3, <2>1 DEF OpenInv
<1>6. CASE token.t = "END"
  <2>1. token'.t = "END" /\ lex' = lex
    BY <1>1, <1>6, Place
  <2> QED BY <1>1, <1>5, <2>1 DEF OpenInv
<1>7. CASE token.t = "END_NODE"
  <2>1. /\ lex \in Nat /\ lex >= 1 /\ DepthIn(blob.toks, lex) \in Int
        /\ DepthIn(blob.toks, lex) = Len(frames) - 2 /\ lex' = lex + 1
    BY <1>1, <1>2, <1>4, <1>7, TokenFacts, Place DEF StackInv
  <2>2. ASSUME NEW i \in 1..(Len(frames') - 1)
        PROVE  OpenAt(blob'.toks, lex', i, frames'[i].child.pos)
    <3>1. DepthIn(blob.toks, lex) >= i
      BY <1>2, <1>5, <2>1
    <3>2. OpenAt(blob.toks, lex + 1, i, frames[i].child.pos)
      BY <1>1, <1>5, <3>1, OpenExtend
    <3> QED BY <1>1, <1>5, <2>1, <3>2
  <2>3. ASSUME NEW p \in 1..(lex' - 1), blob'.toks[p].t = "BEGIN_NODE"
        PROVE  \E j \in (p + 1)..(lex' - 1) :
                 blob'.toks[j].t \notin {"PROP", "NOP"}
    <3>1. p # lex
      BY <1>1, <1>7, <2>3, Place
    <3>2. lex \in (p + 1)..(lex' - 1)
      BY <2>1, <3>1
    <3>3. blob'.toks[lex].t \notin {"PROP", "NOP"}
      BY <1>1, <1>7, Place
    <3> QED BY <3>2, <3>3
  <2> QED BY <2>2, <2>3 DEF OpenInv
<1> QED BY <1>1, <1>6, <1>7

---------------------------------------------------------------------------
(* The cell counts.                                                        *)

\* A property read before any child is one of the node's own.
LEMMA PropOwn ==
  ASSUME DInv, Running, LastProperty, token.t = "PROP"
  PROVE  /\ node.pos \in 1..(lex - 1) /\ blob.toks[node.pos].t = "BEGIN_NODE"
         /\ lex \in Own(node.pos, token.name)
<1>1. Knows(scan, blob.toks, node.pos, lex)
  BY DEF DInv, ScanInv
<1>2. /\ node.pos \in 1..(lex - 1) /\ blob.toks[node.pos].t = "BEGIN_NODE"
      /\ \A j \in (node.pos + 1)..(lex - 1) : blob.toks[j].t \in {"PROP", "NOP"}
  BY <1>1 DEF Knows
<1>3. lex \in Tokens /\ lex \in Nat /\ blob.toks[lex].t = "PROP"
  BY TokenFacts, Place DEF DInv, StackInv
<1>4. \A j \in (node.pos + 1)..lex : j = lex \/ j \in (node.pos + 1)..(lex - 1)
  BY <1>2, <1>3
<1>5. lex > node.pos
  BY <1>2, <1>3
<1>6. \A j \in (node.pos + 1)..lex : blob.toks[j].t \in {"PROP", "NOP"}
  BY <1>2, <1>3, <1>4
<1>7. lex \in Own(node.pos, token.name)
  BY <1>3, <1>5, <1>6, Place DEF Own, Is
<1> QED BY <1>2, <1>7

\* When its last property was seen, a node's counts are its own, unless it left
\* out one that a sibling before it declared.
LEMMA OwnDone ==
  ASSUME DInv, OpenInv, CellsInv, Running, LastProperty, CellsDeclared(node.pos),
         token.t \in {"BEGIN_NODE", "END_NODE", "END"}, NEW name \in CellNames
  PROVE  Count(node, name) = AsInt(OwnCells(node.pos, name, Default(name)))
<1> DEFINE p == node.pos
           m == Len(frames)
<1>1. Knows(scan, blob.toks, p, lex)
  BY DEF DInv, ScanInv
<1>2. /\ p \in 1..(lex - 1) /\ blob.toks[p].t = "BEGIN_NODE"
      /\ \A j \in (p + 1)..(lex - 1) : blob.toks[j].t \in {"PROP", "NOP"}
  BY <1>1 DEF Knows
<1>3. Own(p, name) = Seen(blob.toks, p, lex, name)
  BY <1>2, OwnSeen DEF DInv
<1>4. lex \in Nat /\ m \in Nat /\ m > 1 /\ StackInv
  BY TokenFacts, Place DEF DInv, StackInv, IsSeq
<1>5. CASE Own(p, name) # {}
  <2>1. PICK n \in Own(p, name) : /\ Count(node, name) = AsInt(blob.toks[n].val[1])
                                  /\ \A k \in Own(p, name) : k <= n
    BY <1>3, <1>5 DEF CellsInv, Declares
  <2>2. Own(p, name) \subseteq Int
    BY <1>4, TokenFacts DEF Own
  <2>3. Latest(Own(p, name)) = n
    BY <2>1, <2>2, LatestIs
  <2> QED BY <1>5, <2>1, <2>3 DEF OwnCells
<1>6. CASE Own(p, name) = {}
  <2>1. /\ p \in Nodes
        /\ \A q \in 1..(lex - 1) : blob.toks[q].t = "BEGIN_NODE" => q \in Nodes
    <3>1. 1..(lex - 1) \subseteq 1..Len(blob.toks)
      BY <1>4, TokenFacts DEF StackInv
    <3> QED BY <1>2, <1>4, <3>1, TokenFacts
  <2>2. m - 1 \in 1..m /\ m - 1 \in 1..(m - 1) /\ node = frames[m - 1].child
    BY <1>4 DEF node, top
  <2>3. DepthIn(blob.toks, p) = m - 1
    BY <2>2 DEF OpenInv, OpenAt
  <2>4. ~DeclaredAt(lex, m - 1, name)
    <3> SUFFICES ASSUME NEW q, ChildAt(blob.toks, lex, m - 1, q), Own(q, name) # {}
                 PROVE  FALSE
      BY DEF DeclaredAt
    <3>1. /\ q \in 1..(lex - 1) /\ blob.toks[q].t = "BEGIN_NODE"
          /\ DepthIn(blob.toks, q) = m - 1
          /\ \A j \in q..(lex - 1) : DepthIn(blob.toks, j) >= (m - 1) - 1
      BY DEF ChildAt
    <3>2. q \notin (p + 1)..(lex - 1)
      BY <1>2, <3>1
    <3>3. q < p
      BY <1>2, <1>4, <1>6, <3>1, <3>2
    <3>4. \A j \in q..p : j \in q..(lex - 1)
      BY <1>2, <1>4, <3>1
    <3>5. q \in Siblings(p)
      <4> HIDE DEF p, m
      <4> QED BY <2>1, <2>3, <3>1, <3>3, <3>4 DEF Siblings, Depth
    <3> QED BY <1>6, <3>5 DEF CellsDeclared, CellNames
  <2>5. Count(node, name) = Default(name)
    BY <2>2, <2>4 DEF CellsInv, Inherited
  <2>6. AsInt(Default(name)) = Default(name)
    BY FdtAssumption DEF AsInt, Default
  <2> QED BY <1>6, <2>5, <2>6 DEF OwnCells
<1> QED BY <1>5, <1>6

\* A count that a child declared is one still after a token inside the parent.
LEMMA Declared ==
  ASSUME StackInv, NEW i \in Int, NEW name, DeclaredAt(lex, i, name),
         DepthIn(blob.toks, lex) >= i - 1
  PROVE  DeclaredAt(lex + 1, i, name)
<1>1. PICK q : ChildAt(blob.toks, lex, i, q) /\ Own(q, name) # {}
  BY DEF DeclaredAt
<1>2. lex \in Nat /\ q \in 1..(lex - 1)
  BY <1>1, TokenFacts DEF ChildAt
<1>3. /\ q \in 1..((lex + 1) - 1)
      /\ \A j \in q..((lex + 1) - 1) : j = lex \/ j \in q..(lex - 1)
  BY <1>2
<1>4. ChildAt(blob.toks, lex + 1, i, q)
  BY <1>1, <1>3 DEF ChildAt
<1> QED BY <1>1, <1>4 DEF DeclaredAt

\* The depth after the current token.
LEMMA DepthNow ==
  ASSUME DInv, Running, frames # << >>, token.t # "END"
  PROVE  /\ StackInv /\ lex \in Nat /\ DepthIn(blob.toks, lex) \in Int
         /\ token.t \in {"NOP", "PROP"} => DepthIn(blob.toks, lex) = Len(frames) - 1
         /\ token.t = "BEGIN_NODE" => DepthIn(blob.toks, lex) = Len(frames)
         /\ token.t = "END_NODE" => DepthIn(blob.toks, lex) = Len(frames) - 2
<1>1. StackInv /\ Len(frames) \in Nat
  BY DEF DInv, StackInv, IsSeq
<1>2. blob.understood
  BY <1>1 DEF StackInv
<1>3. Len(frames) = DepthIn(blob.toks, lex - 1) + 1
  BY <1>1, <1>2, Place DEF StackInv
<1>4. /\ lex \in Nat /\ DepthIn(blob.toks, lex - 1) \in Int
      /\ token.t \in {"NOP", "PROP"} =>
           DepthIn(blob.toks, lex) = DepthIn(blob.toks, lex - 1)
      /\ token.t = "BEGIN_NODE" =>
           DepthIn(blob.toks, lex) = DepthIn(blob.toks, lex - 1) + 1
      /\ token.t = "END_NODE" =>
           DepthIn(blob.toks, lex) = DepthIn(blob.toks, lex - 1) - 1
  BY <1>1, TokenFacts
<1>5. token.t \in {"NOP", "PROP", "BEGIN_NODE", "END_NODE"}
  BY <1>1, TokenFacts
<1> QED BY <1>1, <1>3, <1>4, <1>5

LEMMA CellsNop ==
  ASSUME DInv, CellsInv, Nop
  PROVE  CellsInv'
<1>1. /\ Running /\ token.t = "NOP" /\ lex' = lex + 1
      /\ UNCHANGED <<blob, frames>> /\ frames # << >>
  BY DEF Nop, Reads, AfterNop, Running
<1>2. /\ \A p, name : Own(p, name)' = Own(p, name)
      /\ \A p, name, d : OwnCells(p, name, d)' = OwnCells(p, name, d)
      /\ \A p : CellsDeclared(p)' <=> CellsDeclared(p)
  BY <1>1, GoodKept
<1>3. lex \in Nat /\ lex' \in Nat /\ lex <= lex' /\ blob.toks[lex].t = "NOP"
  BY <1>1, TokenFacts, Place DEF DInv
<1>4. (LastProperty' <=> LastProperty) /\ node' = node
  BY <1>1 DEF LastProperty, inNode, top, node
<1>5. LastProperty => node.pos \in 1..(lex - 1)
  BY <1>1 DEF DInv, ScanInv, Knows
<1>6. LastProperty => \A name :
        Seen(blob.toks, node.pos, lex', name) = Seen(blob.toks, node.pos, lex, name)
  <2>1. LastProperty =>
          (node.pos + 1)..(lex' - 1) = ((node.pos + 1)..(lex - 1)) \cup {lex}
    BY <1>1, <1>3, <1>5
  <2> QED BY <1>3, <2>1 DEF Seen
<1>7. /\ StackInv /\ Len(frames) \in Nat /\ DepthIn(blob.toks, lex) \in Int
      /\ DepthIn(blob.toks, lex) = Len(frames) - 1
  BY <1>1, DepthNow DEF StackInv, IsSeq
<1>8. ASSUME NEW name \in CellNames
      PROVE  Inherited(name)' /\ Declares(name)' /\ Above(name)'
  <2>1. Inherited(name) /\ Declares(name) /\ Above(name)
    BY <1>1 DEF CellsInv
  <2>2. Inherited(name)'
    <3>1. \A i \in 1..Len(frames) : i \in Int /\ DepthIn(blob.toks, lex) >= i - 1
      BY <1>1, <1>7
    <3>2. \A i \in 1..Len(frames) :
            \/ Count(frames[i].child, name) = Default(name)
            \/ DeclaredAt(lex + 1, i, name)
      BY <1>7, <2>1, <3>1, Declared DEF Inherited
    <3> QED BY <1>1, <1>2, <3>2 DEF Inherited, DeclaredAt
  <2>3. Declares(name)'
    BY <1>1, <1>4, <1>6, <2>1 DEF Declares
  <2>4. Above(name)'
    BY <1>1, <1>2, <2>1 DEF Above
  <2> QED BY <2>2, <2>3, <2>4
<1> QED BY <1>8 DEF CellsInv

LEMMA CellsProp ==
  ASSUME DInv, OpenInv, CellsInv, Prop, ~frames[top].last
  PROVE  CellsInv'
<1>1. /\ Running /\ token.t = "PROP" /\ lex' = lex + 1 /\ blob' = blob
      /\ frames # << >>
  BY DEF Prop, Reads, Running
<1>2. /\ \A p, name : Own(p, name)' = Own(p, name)
      /\ \A p, name, d : OwnCells(p, name, d)' = OwnCells(p, name, d)
      /\ \A p : CellsDeclared(p)' <=> CellsDeclared(p)
  BY <1>1, GoodKept
<1>3. lex \in Nat /\ lex' \in Nat /\ lex <= lex' /\ blob.toks[lex].t = "PROP"
  BY <1>1, TokenFacts, Place DEF DInv
<1>4. Len(frames) \in Nat /\ Len(frames) >= 1
  BY <1>1, SeqEmpty DEF DInv, StackInv, IsSeq
<1>5. /\ Len(frames') = Len(frames)
      /\ \A i \in 1..Len(frames) :
           /\ frames'[i].last = frames[i].last
           /\ frames'[i].child.pos = frames[i].child.pos
      /\ \A i \in 1..Len(frames) : i # Len(frames) - 1 => frames'[i] = frames[i]
      /\ Len(frames) > 1 => \A name \in CellNames :
           Count(frames'[Len(frames) - 1].child, name) =
             IF token.name = name THEN AsInt(token.val[1])
             ELSE Count(frames[Len(frames) - 1].child, name)
  BY Updated
<1>6. LastProperty <=> Len(frames) > 1
  BY Place
<1>7. Len(frames) > 1 =>
        /\ LastProperty' /\ node'.pos = node.pos
        /\ node = frames[Len(frames) - 1].child
        /\ node' = frames'[Len(frames) - 1].child
        /\ Len(frames) - 1 \in 1..Len(frames)
  BY <1>4, <1>5, Place DEF node, top
<1>8. Len(frames) > 1 =>
        /\ node.pos \in 1..(lex - 1) /\ blob.toks[node.pos].t = "BEGIN_NODE"
        /\ lex \in Own(node.pos, token.name)
  BY <1>1, <1>6, PropOwn
<1>9. /\ StackInv /\ DepthIn(blob.toks, lex) \in Int
       /\ DepthIn(blob.toks, lex) = Len(frames) - 1
  BY <1>1, DepthNow
<1>10. ASSUME NEW name \in CellNames
      PROVE  Inherited(name)' /\ Declares(name)' /\ Above(name)'
  <2>1. Inherited(name) /\ Declares(name) /\ Above(name)
    BY <1>1 DEF CellsInv
  <2>2. Inherited(name)'
    <3>1. ASSUME NEW i \in 1..Len(frames)
          PROVE  \/ Count(frames'[i].child, name) = Default(name)
                 \/ DeclaredAt(lex + 1, i, name)
      <4>1. \/ Count(frames[i].child, name) = Default(name)
            \/ DeclaredAt(lex + 1, i, name)
        <5>1. i \in Int /\ DepthIn(blob.toks, lex) >= i - 1
          BY <1>4, <1>9
        <5> QED BY <1>9, <2>1, <5>1, Declared DEF Inherited
      <4>2. CASE i = Len(frames) - 1 /\ token.name = name
        <5>1. Len(frames) > 1
          BY <1>4, <4>2
        <5>2. OpenAt(blob.toks, lex, i, node.pos)
          <6>1. i \in 1..(Len(frames) - 1) /\ node.pos = frames[i].child.pos
            BY <1>4, <1>7, <4>2, <5>1
          <6> QED BY <1>1, <6>1 DEF OpenInv
        <5>3. /\ node.pos \in 1..((lex + 1) - 1) /\ DepthIn(blob.toks, node.pos) = i
              /\ \A j \in node.pos..((lex + 1) - 1) :
                   j = lex \/ j \in node.pos..(lex - 1)
          BY <1>3, <5>2 DEF OpenAt
        <5>4. \A j \in node.pos..(lex - 1) : DepthIn(blob.toks, j) >= i - 1
          <6>1. \A j \in node.pos..(lex - 1) :
                  j \in 1..Len(blob.toks) /\ DepthIn(blob.toks, j) >= i
            BY <1>3, <1>9, <5>2, TokenFacts DEF OpenAt, StackInv
          <6>2. \A j \in 1..Len(blob.toks) : DepthIn(blob.toks, j) \in Int
            BY <1>9, Depths
          <6> QED BY <6>1, <6>2
        <5>5. DepthIn(blob.toks, lex) >= i - 1
          BY <1>4, <1>9, <4>2
        <5>6. ChildAt(blob.toks, lex + 1, i, node.pos)
          BY <1>8, <5>1, <5>3, <5>4, <5>5 DEF ChildAt
        <5>7. Own(node.pos, name) # {}
          BY <1>8, <4>2, <5>1
        <5> QED BY <5>6, <5>7 DEF DeclaredAt
      <4>3. CASE i = Len(frames) - 1 /\ token.name # name
        <5>1. Len(frames) > 1
          BY <1>4, <4>3
        <5>2. Count(frames'[i].child, name) = Count(frames[i].child, name)
          BY <1>5, <4>3, <5>1
        <5> QED BY <4>1, <5>2
      <4>4. CASE i # Len(frames) - 1
        BY <1>5, <4>1, <4>4
      <4> QED BY <4>2, <4>3, <4>4
    <3> QED BY <1>1, <1>2, <1>5, <3>1 DEF Inherited, DeclaredAt
  <2>3. Declares(name)'
    <3> SUFFICES ASSUME Len(frames) > 1, Seen(blob.toks, node.pos, lex', name) # {}
                 PROVE  \E n \in Seen(blob.toks, node.pos, lex', name) :
                          /\ Count(node', name) = AsInt(blob.toks[n].val[1])
                          /\ \A k \in Seen(blob.toks, node.pos, lex', name) : k <= n
      BY <1>1, <1>5, <1>7, Place DEF Declares
    <3>1. /\ (node.pos + 1)..(lex' - 1) = ((node.pos + 1)..(lex - 1)) \cup {lex}
          /\ \A k \in (node.pos + 1)..(lex - 1) : k <= lex
      BY <1>1, <1>3, <1>8
    <3>2. CASE token.name = name
      <4>1. Count(node', name) = AsInt(blob.toks[lex].val[1])
        BY <1>5, <1>7, <3>2, Place
      <4>2. lex \in Seen(blob.toks, node.pos, lex', name)
        BY <1>3, <3>1, <3>2, Place DEF Seen
      <4>3. \A k \in Seen(blob.toks, node.pos, lex', name) : k <= lex
        <5>1. \A k \in Seen(blob.toks, node.pos, lex', name) :
                k \in ((node.pos + 1)..(lex - 1)) \cup {lex}
          BY <3>1 DEF Seen
        <5> QED BY <1>3, <3>1, <5>1
      <4> QED BY <4>1, <4>2, <4>3
    <3>3. CASE token.name # name
      <4>1. Count(node', name) = Count(node, name)
        BY <1>5, <1>7, <3>3
      <4>2. Seen(blob.toks, node.pos, lex', name) = Seen(blob.toks, node.pos, lex, name)
        BY <3>1, <3>3, Place DEF Seen
      <4>3. \E n \in Seen(blob.toks, node.pos, lex, name) :
              /\ Count(node, name) = AsInt(blob.toks[n].val[1])
              /\ \A k \in Seen(blob.toks, node.pos, lex, name) : k <= n
        BY <1>6, <2>1, <4>2 DEF Declares
      <4> QED BY <4>1, <4>2, <4>3
    <3> QED BY <3>2, <3>3
  <2>4. Above(name)'
    <3>1. ASSUME NEW i \in 1..(Len(frames) - 1), NEW p,
                 frames'[i + 1].last, p = frames'[i].child.pos, CellsDeclared(p)
          PROVE  Count(frames'[i].child, name) = AsInt(OwnCells(p, name, Default(name)))
      <4>1. i \in 1..Len(frames) /\ i + 1 \in 1..Len(frames)
        BY <1>4
      <4>2. frames[i + 1].last /\ i # Len(frames) - 1
        BY <1>4, <1>5, <3>1, <4>1 DEF top
      <4>3. frames'[i] = frames[i]
        BY <1>5, <4>1, <4>2
      <4> QED BY <2>1, <3>1, <4>2, <4>3 DEF Above
    <3> QED BY <1>2, <1>5, <3>1 DEF Above
  <2> QED BY <2>2, <2>3, <2>4
<1> QED BY <1>10 DEF CellsInv

LEMMA CellsBegin ==
  ASSUME DInv, OpenInv, CellsInv, BeginNode
  PROVE  CellsInv'
<1>1. /\ Running /\ token.t = "BEGIN_NODE" /\ lex' = lex + 1 /\ blob' = blob
      /\ frames # << >>
  BY DEF BeginNode, Reads, Running
<1>2. /\ \A p, name : Own(p, name)' = Own(p, name)
      /\ \A p, name, d : OwnCells(p, name, d)' = OwnCells(p, name, d)
      /\ \A p : CellsDeclared(p)' <=> CellsDeclared(p)
  BY <1>1, GoodKept
<1>3. lex \in Nat /\ lex' \in Nat /\ lex <= lex'
  BY <1>1, TokenFacts DEF DInv
<1>4. Len(frames) \in Nat /\ Len(frames) >= 1
  BY <1>1, SeqEmpty DEF DInv, StackInv, IsSeq
<1>5. /\ Len(frames') = Len(frames) + 1
      /\ \A i \in 1..(Len(frames) - 1) : frames'[i] = frames[i]
      /\ frames'[Len(frames)].child.pos = lex
      /\ \A name : Count(frames'[Len(frames)].child, name)
                     = Count(frames[Len(frames)].child, name)
      /\ frames'[Len(frames) + 1] = Frame
  BY Pushed
<1>6. \A name \in CellNames : Count(Frame.child, name) = Default(name)
  BY DEF Count, Default, Frame, CellNames
<1>7. node'.pos = lex
  BY <1>4, <1>5, Place
<1>8. /\ StackInv /\ DepthIn(blob.toks, lex) \in Int
      /\ DepthIn(blob.toks, lex) = Len(frames)
  BY <1>1, DepthNow
<1>9. ASSUME NEW name \in CellNames
      PROVE  Inherited(name)' /\ Declares(name)' /\ Above(name)'
  <2>1. Inherited(name) /\ Above(name)
    BY <1>1 DEF CellsInv
  <2>2. Inherited(name)'
    <3>1. ASSUME NEW i \in 1..(Len(frames) + 1)
          PROVE  \/ Count(frames'[i].child, name) = Default(name)
                 \/ DeclaredAt(lex + 1, i, name)
      <4>1. CASE i = Len(frames) + 1
        BY <1>5, <1>6, <4>1
      <4>2. CASE i # Len(frames) + 1
        <5>1. i \in 1..Len(frames) /\ (i \in 1..(Len(frames) - 1) \/ i = Len(frames))
          BY <1>4, <4>2
        <5>2. Count(frames'[i].child, name) = Count(frames[i].child, name)
          BY <1>5, <5>1
        <5>3. \/ Count(frames[i].child, name) = Default(name)
              \/ DeclaredAt(lex + 1, i, name)
          <6>1. i \in Int /\ DepthIn(blob.toks, lex) >= i - 1
            BY <1>4, <1>8, <5>1
          <6> QED BY <1>8, <2>1, <5>1, <6>1, Declared DEF Inherited
        <5> QED BY <5>2, <5>3
      <4> QED BY <4>1, <4>2
    <3> QED BY <1>1, <1>2, <1>5, <3>1 DEF Inherited, DeclaredAt
  <2>3. Declares(name)'
    <3>1. Seen(blob'.toks, lex, lex', name) = {}
      <4>1. (lex + 1)..(lex' - 1) = {}
        BY <1>1, <1>3
      <4> QED BY <4>1 DEF Seen
    <3> QED BY <1>7, <3>1 DEF Declares
  <2>4. Above(name)'
    <3>1. ASSUME NEW i \in 1..Len(frames), NEW p,
                 frames'[i + 1].last, p = frames'[i].child.pos, CellsDeclared(p)
          PROVE  Count(frames'[i].child, name) = AsInt(OwnCells(p, name, Default(name)))
      <4>1. i # Len(frames)
        BY <1>5, <3>1 DEF Frame
      <4>2. i \in 1..(Len(frames) - 1) /\ frames'[i] = frames[i]
        BY <1>4, <1>5, <4>1
      <4>3. CASE frames[i + 1].last
        BY <2>1, <3>1, <4>2, <4>3 DEF Above
      <4>4. CASE ~frames[i + 1].last
        <5>1. i + 1 = Len(frames)
          <6>1. i + 1 # Len(frames) => i + 1 \in 1..(Len(frames) - 1)
            BY <1>4, <4>2
          <6> QED BY <4>4, <6>1 DEF DInv, StackInv
        <5>2. LastProperty /\ node = frames[i].child
          BY <1>4, <4>2, <4>4, <5>1, Place DEF node, top
        <5> QED BY <1>1, <3>1, <4>2, <5>2, OwnDone
      <4> QED BY <4>3, <4>4
    <3> QED BY <1>2, <1>4, <1>5, <3>1 DEF Above
  <2> QED BY <2>2, <2>3, <2>4
<1> QED BY <1>9 DEF CellsInv

LEMMA CellsEnd ==
  ASSUME DInv, CellsInv, EndNode
  PROVE  CellsInv'
<1>1. /\ Running /\ frames # << >> /\ blob' = blob
      /\ frames' = SubSeq(frames, 1, Len(frames) - 1)
      /\ lex' = lex + 1 \/ lex' = lex
  BY DEF EndNode, Reads, Running, AfterEnd, top
<1>2. /\ \A p, name : Own(p, name)' = Own(p, name)
      /\ \A p, name, d : OwnCells(p, name, d)' = OwnCells(p, name, d)
      /\ \A p : CellsDeclared(p)' <=> CellsDeclared(p)
  BY <1>1, GoodKept
<1>3. lex \in Nat /\ lex' \in Nat /\ lex <= lex'
  BY <1>1, TokenFacts DEF DInv
<1>4. IsSeq(frames) /\ Len(frames) \in Nat /\ Len(frames) >= 1
  BY <1>1, SeqEmpty DEF DInv, StackInv, IsSeq
<1>5. /\ Len(frames') = Len(frames) - 1
      /\ \A i \in 1..(Len(frames) - 1) : frames'[i] = frames[i]
  BY <1>1, <1>4, SeqFront
<1>6. ~LastProperty'
  <2>1. Len(frames') > 1 => frames'[Len(frames')].last
    BY <1>4, <1>5 DEF DInv, StackInv
  <2> QED BY <2>1, Place
<1>7. ASSUME NEW name \in CellNames
      PROVE  Inherited(name)' /\ Declares(name)' /\ Above(name)'
  <2>1. Inherited(name) /\ Above(name)
    BY <1>1 DEF CellsInv
  <2>2. Inherited(name)'
    <3>1. ASSUME NEW i \in 1..(Len(frames) - 1)
          PROVE  \/ Count(frames'[i].child, name) = Default(name)
                 \/ DeclaredAt(lex', i, name)
      <4>1. i \in 1..Len(frames) /\ i \in Int /\ frames'[i] = frames[i]
        BY <1>4, <1>5
      <4>2. Count(frames[i].child, name) = Default(name) \/ DeclaredAt(lex, i, name)
        BY <2>1, <4>1 DEF Inherited
      <4>3. CASE lex' = lex
        BY <4>1, <4>2, <4>3
      <4>4. CASE lex' # lex
        <5>1. token.t = "END_NODE" /\ lex' = lex + 1
          BY <4>4 DEF EndNode, AfterEnd
        <5>2. /\ StackInv /\ DepthIn(blob.toks, lex) \in Int
              /\ DepthIn(blob.toks, lex) = Len(frames) - 2
          BY <1>1, <5>1, DepthNow
        <5>3. DepthIn(blob.toks, lex) >= i - 1
          BY <1>4, <5>2
        <5>4. DeclaredAt(lex, i, name) => DeclaredAt(lex + 1, i, name)
          BY <4>1, <5>2, <5>3, Declared
        <5> QED BY <4>1, <4>2, <5>1, <5>4
      <4> QED BY <4>3, <4>4
    <3> QED BY <1>1, <1>2, <1>5, <3>1 DEF Inherited, DeclaredAt
  <2>3. Declares(name)'
    BY <1>6 DEF Declares
  <2>4. Above(name)'
    <3>1. ASSUME NEW i \in 1..((Len(frames) - 1) - 1), NEW p,
                 frames'[i + 1].last, p = frames'[i].child.pos, CellsDeclared(p)
          PROVE  Count(frames'[i].child, name) = AsInt(OwnCells(p, name, Default(name)))
      <4>1. /\ i \in 1..(Len(frames) - 1) /\ i + 1 \in 1..(Len(frames) - 1)
        BY <1>4
      <4>2. frames'[i] = frames[i] /\ frames'[i + 1] = frames[i + 1]
        BY <1>5, <4>1
      <4> QED BY <2>1, <3>1, <4>1, <4>2 DEF Above
    <3> QED BY <1>2, <1>5, <3>1 DEF Above
  <2> QED BY <2>2, <2>3, <2>4
<1> QED BY <1>7 DEF CellsInv

\* At the start of a walk there is no open node, and the counts are the defaults.
LEMMA CellsStart ==
  ASSUME NEW fs, fs = ScanStart
  PROVE  /\ Len(fs) \in {0, 1}
         /\ \A i \in 1..Len(fs) : \A name \in CellNames :
              Count(fs[i].child, name) = Default(name)
         /\ \A i \in 1..Len(fs) : ~fs[i].last
<1>1. CASE ~blob.understood
  <2>1. fs = << >>
    BY <1>1 DEF ScanStart
  <2> QED BY <2>1
<1>2. CASE blob.understood
  <2>1. fs = <<Frame>> /\ Len(fs) = 1 /\ fs[1] = Frame
    BY <1>2 DEF ScanStart
  <2>2. \A name \in CellNames : Count(Frame.child, name) = Default(name)
    BY DEF Count, Default, Frame, CellNames
  <2>3. ~Frame.last
    BY DEF Frame
  <2>4. \A i \in 1..1 : i = 1
    OBVIOUS
  <2> QED BY <2>1, <2>2, <2>3, <2>4
<1> QED BY <1>1, <1>2

---------------------------------------------------------------------------
(* What done makes of a node.                                              *)

\* A cell count is a number of cells.
LEMMA CellsNat ==
  ASSUME StackInv, NEW p, NEW name \in CellNames
  PROVE  OwnCells(p, name, Default(name)) \in Nat
<1>1. CASE Own(p, name) = {}
  BY <1>1 DEF OwnCells, Default
<1>2. CASE Own(p, name) # {}
  <2> DEFINE n == Latest(Own(p, name))
  <2>1. Own(p, name) \subseteq 1..Len(blob.toks) /\ Len(blob.toks) \in Nat
    BY TokenFacts DEF Own
  <2>2. n \in Own(p, name)
    BY <1>2, <2>1, LatestIn
  <2>3. n \in DOMAIN blob.toks /\ blob.toks[n].t = "PROP" /\ blob.toks[n].name = name
    BY <2>2 DEF Own, Is, Tokens
  <2>4. blob.toks[n].val \in Seq(0..(Cell - 1)) /\ blob.toks[n].val # << >>
    BY <2>3, FdtAssumption DEF StackInv, CellNames
  <2>5. blob.toks[n].val[1] \in 0..(Cell - 1)
    <3> DEFINE v == blob.toks[n].val
               C == 0..(Cell - 1)
    <3>1. v \in Seq(C) /\ v # << >>
      BY <2>4
    <3> HIDE DEF v, C
    <3>2. v[1] \in C
      BY <3>1
    <3> QED BY <3>2 DEF v, C
  <2>6. blob.toks[n].val[1] \in Nat
    BY <2>5, FdtAssumption
  <2> QED BY <1>2, <2>6 DEF OwnCells
<1> QED BY <1>1, <1>2

\* The activation two below the top has entered the node's parent.
LEMMA ParentIs ==
  ASSUME DInv, OpenInv, Running, LastProperty, NEW p, p = node.pos,
         Parents(p) # {}
  PROVE  Len(frames) >= 3 /\ Latest(Parents(p)) = frames[Len(frames) - 2].child.pos
<1> DEFINE m == Len(frames)
           u == frames[m - 2].child.pos
           D(n) == DepthIn(blob.toks, n)
<1>1. StackInv /\ m \in Nat /\ m > 1 /\ p = frames[m - 1].child.pos
  BY Place DEF DInv, StackInv, IsSeq
<1> HIDE DEF m
<1>2. /\ lex \in 1..Len(blob.toks) /\ Len(blob.toks) \in Nat /\ lex \in Nat
      /\ Nodes = {n \in 1..Len(blob.toks) : blob.toks[n].t = "BEGIN_NODE"}
  BY <1>1, TokenFacts DEF StackInv
<1>3. \A n \in 1..Len(blob.toks) :
        /\ D(n) \in Int /\ D(n) >= 0
        /\ blob.toks[n].t = "BEGIN_NODE" =>
             D(n - 1) \in Int /\ D(n) = D(n - 1) + 1 /\ D(n) >= 1
  BY <1>1, Depths
<1>4. OpenAt(blob.toks, lex, m - 1, p)
  <2>1. m - 1 \in 1..(m - 1)
    BY <1>1
  <2> QED BY <1>1, <2>1 DEF OpenInv, m
<1>5. /\ p \in 1..(lex - 1) /\ D(p) = m - 1
      /\ \A j \in p..(lex - 1) : D(j) >= m - 1
  BY <1>4 DEF OpenAt
<1>6. \A q \in Parents(p) :
        /\ q \in 1..Len(blob.toks) /\ q < p /\ D(q) = D(p) - 1 /\ D(q) >= 1
        /\ D(q - 1) \in Int /\ D(q) = D(q - 1) + 1
  BY <1>2, <1>3 DEF Parents, Depth
<1>7. m >= 3
  <2>1. PICK q \in Parents(p) : TRUE
    OBVIOUS
  <2>2. D(q) = D(p) - 1 /\ D(q) >= 1 /\ D(q) \in Int
    BY <1>3, <1>6, <2>1
  <2> QED BY <1>1, <1>5, <2>2
<1>8. OpenAt(blob.toks, lex, m - 2, u)
  <2>1. m - 2 \in 1..(m - 1)
    BY <1>1, <1>7
  <2> QED BY <1>1, <2>1 DEF OpenInv, m
<1>9. /\ u \in 1..(lex - 1) /\ blob.toks[u].t = "BEGIN_NODE" /\ D(u) = m - 2
      /\ \A j \in u..(lex - 1) : D(j) >= m - 2
  BY <1>8 DEF OpenAt
<1> HIDE DEF u, D
<1>10. u < p
  <2>1. p <= u => u \in p..(lex - 1)
    BY <1>2, <1>5, <1>9
  <2>2. p <= u => D(u) >= m - 1
    BY <1>5, <2>1
  <2> QED BY <1>1, <1>5, <1>9, <2>2
<1>11. u \in Parents(p)
  <2>1. u \in Nodes
    BY <1>2, <1>9
  <2>2. \A j \in u..p : j \in u..(lex - 1)
    BY <1>2, <1>5, <1>9
  <2>3. \A j \in u..p : D(j) >= D(u)
    BY <1>9, <2>2
  <2>4. D(u) = D(p) - 1
    BY <1>1, <1>5, <1>9
  <2> QED BY <1>10, <2>1, <2>3, <2>4 DEF Parents, Depth, D
<1>12. ASSUME NEW q \in Parents(p) PROVE q <= u
  <2>1. SUFFICES ASSUME u < q PROVE FALSE
    BY <1>6, <1>9
  <2>2. q - 1 \in u..(lex - 1)
    <3>1. q \in Nat /\ q < p
      BY <1>2, <1>6
    <3>2. p \in Nat /\ u \in Nat /\ p <= lex - 1
      BY <1>2, <1>5, <1>9
    <3> QED BY <1>2, <2>1, <3>1, <3>2
  <2>3. D(q - 1) >= m - 2 /\ D(q) = m - 2
    BY <1>1, <1>5, <1>6, <1>9, <2>2
  <2>4. D(q - 1) \in Int /\ D(q) = D(q - 1) + 1
    BY <1>6
  <2> QED BY <1>1, <2>3, <2>4
<1>13. Parents(p) \subseteq Int
  BY <1>6
<1>14. Latest(Parents(p)) = u
  BY <1>11, <1>12, <1>13, LatestIs
<1> QED BY <1>7, <1>14 DEF m, u

\* The last region that holds the kernel decides.
LEMMA SizeHeld ==
  ASSUME NEW reg, NEW up, EntryCells(up) \in Nat \ {0},
         Len(reg) \in Nat, Held(Regions(reg, up)) # {}, NEW old
  PROVE  \E n \in Held(Regions(reg, up)) :
           SizeOf(Regions(reg, up), old) = Regions(reg, up)[n].size
<1> DEFINE k == EntryCells(up)
           rs == Regions(reg, up)
<1>1. DOMAIN rs = 1..(Len(reg) \div k)
  BY DEF Regions
<1>2. Len(reg) \div k \in Nat
  <2> HIDE DEF k
  <2>1. k \in Nat \ {0}
    BY DEF k
  <2> QED BY <2>1
<1>3. Held(rs) \subseteq 1..(Len(reg) \div k)
  BY <1>1 DEF Held
<1> HIDE DEF rs, k
<1>4. Latest(Held(rs)) \in Held(rs)
  BY <1>2, <1>3, LatestIn DEF rs
<1> QED BY <1>4 DEF SizeOf, rs

LEMMA NoRegions ==
  ASSUME NEW up, EntryCells(up) \in Nat \ {0}
  PROVE  Held(Regions(<< >>, up)) = {}
<1> DEFINE k == EntryCells(up)
<1>1. 0 \div k = 0
  <2> HIDE DEF k
  <2>1. k \in Nat \ {0}
    BY DEF k
  <2> QED BY <2>1
<1>2. DOMAIN Regions(<< >>, up) = 1..0
  BY <1>1 DEF Regions
<1> QED BY <1>2 DEF Held

\* Regions depends on the cell counts only.
LEMMA SameRegions ==
  ASSUME NEW reg, NEW u, NEW v, u.address_cells = v.address_cells,
         u.size_cells = v.size_cells
  PROVE  Regions(reg, u) = Regions(reg, v)
BY DEF Regions, EntryCells

\* mem_done on a memory node of a good tree.
LEMMA MemDoneGood ==
  ASSUME GInv, Good, query = "mem", LastProperty, MemDone,
         token.t \in {"BEGIN_NODE", "END_NODE", "END"}, NEW p, p = node.pos
  PROVE  /\ query' = query
         /\ HoldsKernel(p) => \E n \in Held(OwnRegions(p)) :
                                g_mem_size' = OwnRegions(p)[n].size
         /\ ~HoldsKernel(p) => g_mem_size' = g_mem_size
<1>1. DInv /\ OpenInv /\ CellsInv /\ Running /\ StackInv
  BY DEF GInv, Running, DInv
<1>2. Entry(scan, p) /\ p \in Nodes
  BY <1>1, ScanComplete
<1>3. CASE ~scan.memory
  <2>1. query' = query /\ g_mem_size' = g_mem_size
    BY <1>3 DEF MemDone
  <2>2. ~HoldsKernel(p)
    BY <1>2, <1>3 DEF Entry, HoldsKernel
  <2> QED BY <2>1, <2>2
<1>4. CASE scan.memory
  <2>1. IsMemory(p) /\ MemoryOK(p) /\ CellsDeclared(Latest(Parents(p)))
    BY <1>2, <1>4 DEF Entry, Good, WellFormed
  <2> DEFINE up == frames[Len(frames) - 2].child
             pa == Cells(Latest(Parents(p)))
             k  == pa.address_cells + pa.size_cells
  <2>2. /\ Parents(p) # {} /\ Own(p, "reg") # {} /\ OwnReg(p).whole
        /\ 2 * pa.address_cells < Cell /\ 2 * pa.size_cells < Cell
        /\ k > 0 /\ Len(OwnReg(p).val) % k = 0
    BY <2>1 DEF MemoryOK
  <2>3. scan.hasReg /\ scan.reg = OwnReg(p).val /\ scan.whole = OwnReg(p).whole
    BY <1>2, <2>2 DEF Entry, OwnReg
  <2>4. Len(frames) >= 3 /\ Latest(Parents(p)) = up.pos /\ Len(frames) \in Nat
    BY <1>1, <2>2, ParentIs DEF StackInv, IsSeq
  <2>5. top # 2 /\ scan.whole
    <3>1. top # 2
      <4> DEFINE m == Len(frames)
      <4>1. m \in Nat /\ m >= 3 /\ top = m
        BY <2>4, Place
      <4> HIDE DEF m
      <4> QED BY <4>1
    <3>2. scan.whole
      BY <2>2, <2>3
    <3> QED BY <3>1, <3>2
  <2>6. \A name \in CellNames :
          Count(up, name) = AsInt(OwnCells(up.pos, name, Default(name)))
    <3>1. /\ Len(frames) - 2 \in 1..(Len(frames) - 1)
          /\ (Len(frames) - 2) + 1 \in 1..(Len(frames) - 1)
      BY <2>4
    <3>2. frames[(Len(frames) - 2) + 1].last
      BY <1>1, <3>1 DEF StackInv
    <3>3. CellsDeclared(up.pos)
      BY <2>1, <2>4
    <3> QED BY <1>1, <3>1, <3>2, <3>3 DEF CellsInv, Above
  <2>7. /\ up.address_cells = AsInt(OwnCells(up.pos, "#address-cells", 2))
        /\ up.size_cells = AsInt(OwnCells(up.pos, "#size-cells", 1))
        /\ OwnCells(up.pos, "#address-cells", 2) \in Nat
        /\ OwnCells(up.pos, "#size-cells", 1) \in Nat
    <3>1. \A name \in CellNames : OwnCells(up.pos, name, Default(name)) \in Nat
      BY <1>1, CellsNat
    <3> HIDE DEF up
    <3> QED BY <2>6, <3>1 DEF CellNames, Count, Default
  <2>8. /\ up.address_cells = pa.address_cells /\ up.size_cells = pa.size_cells
        /\ pa.address_cells \in Nat /\ pa.size_cells \in Nat
    <3> HIDE DEF up
    <3>1. /\ pa.address_cells = OwnCells(up.pos, "#address-cells", 2)
          /\ pa.size_cells = OwnCells(up.pos, "#size-cells", 1)
      BY <2>4 DEF Cells
    <3> HIDE DEF pa
    <3> QED BY <2>2, <2>7, <3>1 DEF AsInt
  <2>9. /\ k \in Nat \ {0} /\ EntryCells(up) = k
    <3> HIDE DEF up, pa
    <3> QED BY <2>2, <2>8 DEF EntryCells, Taken
  <2> HIDE DEF up, pa, k
  <2>10. Regions(scan.reg, up) = OwnRegions(p)
    <3>1. Regions(scan.reg, up) = Regions(scan.reg, pa)
      BY <2>8, SameRegions
    <3> QED BY <2>3, <3>1 DEF OwnRegions, pa
  <2>11. IF scan.reg = << >> THEN UNCHANGED <<query, g_mem_size>>
                             ELSE MemLoop(frames[top - 2].child)
    BY <1>4, <2>3, <2>5 DEF MemDone
  <2>12. HoldsKernel(p) <=> Held(OwnRegions(p)) # {}
    BY <2>1 DEF HoldsKernel
  <2>13. CASE scan.reg = << >>
    <3>1. Held(Regions(<< >>, up)) = {}
      BY <2>9, NoRegions
    <3>2. Held(OwnRegions(p)) = {}
      BY <2>10, <2>13, <3>1
    <3> QED BY <2>11, <2>12, <2>13, <3>2
  <2>14. CASE scan.reg # << >>
    <3>1. MemLoop(up)
      BY <2>11, <2>14 DEF top, up
    <3>2. query' = IF k = 0 THEN "spin"
                   ELSE IF Len(scan.reg) % k # 0 THEN Died ELSE query
      BY <2>9, <3>1 DEF MemLoop
    <3>3. query' = query
      BY <2>2, <2>3, <2>9, <3>2 DEF k
    <3>4. g_mem_size' = SizeOf(OwnRegions(p), g_mem_size)
      BY <2>10, <3>1, <3>3 DEF MemLoop
    <3>5. CASE Held(OwnRegions(p)) = {}
      BY <2>12, <3>3, <3>4, <3>5 DEF SizeOf
    <3>6. CASE Held(OwnRegions(p)) # {}
      <4>1. Len(scan.reg) \in Nat
        <5> DEFINE n == Latest(Own(p, "reg"))
        <5>1. Own(p, "reg") \subseteq 1..Len(blob.toks) /\ Len(blob.toks) \in Nat
          BY <1>1, TokenFacts DEF Own
        <5>2. n \in Own(p, "reg")
          BY <2>2, <5>1, LatestIn
        <5>3. n \in DOMAIN blob.toks /\ blob.toks[n].t = "PROP"
          BY <5>2 DEF Own, Is, Tokens
        <5>4. blob.toks[n].val \in Seq(0..(Cell - 1))
          BY <1>1, <5>3, FdtAssumption DEF StackInv
        <5>5. Len(blob.toks[n].val) \in Nat
          BY <5>4, LenProperties
        <5> QED BY <2>3, <5>5 DEF OwnReg
      <4>2. EntryCells(up) \in Nat \ {0}
        BY <2>9
      <4>3. \E n \in Held(Regions(scan.reg, up)) :
              SizeOf(Regions(scan.reg, up), g_mem_size) = Regions(scan.reg, up)[n].size
        BY <2>10, <3>6, <4>1, <4>2, SizeHeld
      <4> QED BY <2>10, <2>12, <3>3, <3>4, <3>6, <4>3
    <3> QED BY <3>5, <3>6
  <2> QED BY <2>13, <2>14
<1> QED BY <1>3, <1>4

\* A call of done, if it is due, keeps the results of a good tree right.
LEMMA ResultDone ==
  ASSUME GInv, Running, token.t \in {"BEGIN_NODE", "END_NODE", "END"}, DoneIfLast,
         blob' = blob
  PROVE  ResultInv'
<1> SUFFICES ASSUME Good
             PROVE  query' \in {"htif", "mem", "done"} /\ HtifTold' /\ MemTold'
  BY GoodKept DEF ResultInv
<1>1. DInv /\ query \in {"htif", "mem", "done"} /\ HtifTold /\ MemTold
  BY DEF GInv, ResultInv
<1>2. /\ \A p : HoldsKernel(p)' <=> HoldsKernel(p)
      /\ \A p : OwnRegions(p)' = OwnRegions(p)
      /\ \A p : IsMemory(p)' <=> IsMemory(p)
      /\ \A p : IsHtif(p)' <=> IsHtif(p)
      /\ Nodes' = Nodes
  <2>1. Nodes' = Nodes /\ \A p, name : Own(p, name)' = Own(p, name)
    BY GoodKept, TreeKept
  <2>2. \A p : IsHtif(p)' <=> IsHtif(p)
    BY <2>1 DEF IsHtif
  <2> QED BY <2>1, <2>2, GoodKept
<1>3. \A q, p : Logged(log', q, p) <=> \/ Logged(log, q, p)
                                       \/ LastProperty /\ q = query /\ p = node.pos
  BY <1>1, DoneCall
<1>4. g_mem_size' = g_mem_size => (Sized' <=> Sized)
  BY <1>2 DEF Sized
<1>5. CASE ~LastProperty
  <2>1. UNCHANGED <<query, htif, g_mem_size>>
    BY <1>5 DEF DoneIfLast
  <2> QED BY <1>1, <1>2, <1>3, <1>4, <1>5, <2>1 DEF HtifTold, MemTold
<1>6. CASE LastProperty
  <2>1. Done
    BY <1>6 DEF DoneIfLast
  <2>2. Entry(scan, node.pos) /\ node.pos \in Nodes
    BY <1>1, <1>6, ScanComplete
  <2>3. CASE query = "htif"
    <3>1. htif' = (IF scan.compat THEN 1 ELSE htif) /\ UNCHANGED <<query, g_mem_size>>
      BY <2>1, <2>3 DEF Done
    <3>2. scan.compat <=> IsHtif(node.pos)
      BY <2>2 DEF Entry
    <3>3. HtifTold'
      BY <1>1, <1>2, <1>3, <1>6, <2>3, <3>1, <3>2 DEF HtifTold
    <3>4. MemTold'
      BY <1>1, <1>2, <1>3, <1>4, <2>3, <3>1 DEF MemTold
    <3> QED BY <1>1, <3>1, <3>3, <3>4
  <2>4. CASE query = "mem"
    <3>1. MemDone /\ htif' = htif
      BY <2>1, <2>4 DEF Done
    <3>2. /\ query' = query
          /\ HoldsKernel(node.pos) => \E n \in Held(OwnRegions(node.pos)) :
                                        g_mem_size' = OwnRegions(node.pos)[n].size
          /\ ~HoldsKernel(node.pos) => g_mem_size' = g_mem_size
      BY <1>6, <2>4, <3>1, MemDoneGood
    <3>3. HtifTold'
      BY <1>1, <1>2, <1>3, <2>4, <3>1 DEF HtifTold
    <3>4. HoldsKernel(node.pos) => Sized'
      BY <1>2, <2>2, <3>2 DEF Sized, HoldsKernel
    <3>5. MemTold'
      BY <1>1, <1>2, <1>3, <1>4, <3>2, <3>4 DEF MemTold
    <3> QED BY <1>1, <3>2, <3>3, <3>5
  <2> QED BY <2>3, <2>4 DEF Running
<1> QED BY <1>5, <1>6

---------------------------------------------------------------------------
(* The steps, once more.                                                   *)

\* Steps that leave the results alone.
LEMMA ResultKept ==
  ASSUME ResultInv, UNCHANGED <<blob, query, htif, g_mem_size, log>>
  PROVE  ResultInv'
<1>1. /\ \A p : HoldsKernel(p)' <=> HoldsKernel(p)
      /\ \A p : OwnRegions(p)' = OwnRegions(p)
      /\ \A p : IsMemory(p)' <=> IsMemory(p)
      /\ \A p, name : Own(p, name)' = Own(p, name)
      /\ (Good' <=> Good) /\ Nodes' = Nodes
  BY GoodKept, TreeKept
<1>2. \A p : IsHtif(p)' <=> IsHtif(p)
  BY <1>1 DEF IsHtif
<1>3. Sized' <=> Sized
  BY <1>1 DEF Sized
<1>4. (HtifTold' <=> HtifTold) /\ (MemTold' <=> MemTold)
  BY <1>1, <1>2, <1>3 DEF HtifTold, MemTold
<1> QED BY <1>1, <1>4 DEF ResultInv

\* The walk stops early only in a tree that is not good.
LEMMA StoppedCells ==
  ASSUME query' \notin {"htif", "mem"}
  PROVE  OpenInv' /\ CellsInv'
BY DEF OpenInv, CellsInv, Running

LEMMA NopGood == GInv /\ Nop => GInv'
<1> SUFFICES ASSUME GInv, Nop PROVE GInv'
  OBVIOUS
<1>1. /\ Running /\ frames # << >> /\ token.t = "NOP" /\ lex' = lex + 1
      /\ UNCHANGED <<blob, query, frames, scan, htif, g_mem_size, log>>
  BY DEF Nop, Reads, AfterNop, Running
<1>2. DInv /\ OpenInv /\ CellsInv /\ ResultInv
  BY DEF GInv
<1>3. DInv' /\ CellsInv' /\ ResultInv'
  BY <1>1, <1>2, NopStep, CellsNop, ResultKept
<1>4. OpenInv'
  BY <1>1, <1>2, OpenAdvance
<1> QED BY <1>3, <1>4 DEF GInv

LEMMA PropGood == GInv /\ Prop => GInv'
<1> SUFFICES ASSUME GInv, Prop PROVE GInv'
  OBVIOUS
<1>1. /\ Running /\ frames # << >> /\ token.t = "PROP"
      /\ UNCHANGED <<blob, htif, g_mem_size, log>>
  BY DEF Prop, Reads, Running
<1>2. DInv /\ OpenInv /\ CellsInv /\ ResultInv /\ StackInv
  BY DEF GInv, DInv
<1>3. DInv'
  BY <1>2, PropStep
<1>4. CASE frames[top].last
  <2>1. query' \notin {"htif", "mem"}
    BY <1>4 DEF Prop, Died
  <2>2. ~Good
    <3>1. SUFFICES ASSUME Good PROVE FALSE
      OBVIOUS
    <3>2. /\ lex \in Tokens /\ lex \in Nat /\ Len(blob.toks) \in Nat
          /\ Tokens = 1..Len(blob.toks)
      BY <1>2, TokenFacts DEF StackInv
    <3>3. blob.toks[lex].t = "PROP"
      BY <1>1, Place
    <3>4. PICK p \in Nodes : lex \in Own(p, blob.toks[lex].name)
      BY <3>1, <3>2, <3>3 DEF Good, WellFormed, PropertiesFirst, Is
    <3>5. /\ p < lex /\ \A j \in (p + 1)..lex : blob.toks[j].t \in {"PROP", "NOP"}
      BY <3>4 DEF Own, Is
    <3>6. p \in 1..(lex - 1) /\ blob.toks[p].t = "BEGIN_NODE"
      BY <1>2, <3>2, <3>4, <3>5, TokenFacts
    <3>7. PICK j \in (p + 1)..(lex - 1) : blob.toks[j].t \notin {"PROP", "NOP"}
      BY <1>1, <1>2, <1>4, <3>6 DEF OpenInv, top
    <3>8. j \in (p + 1)..lex
      BY <3>2, <3>6
    <3> QED BY <3>5, <3>7, <3>8
  <2>3. ResultInv'
    BY <1>1, <2>2, GoodKept DEF ResultInv
  <2>4. OpenInv' /\ CellsInv'
    BY <2>1, StoppedCells
  <2> QED BY <1>3, <2>3, <2>4 DEF GInv
<1>5. CASE ~frames[top].last
  <2>1. lex' = lex + 1 /\ query' = query
    BY <1>5 DEF Prop
  <2>2. /\ Len(frames') = Len(frames)
        /\ \A i \in 1..Len(frames) : /\ frames'[i].last = frames[i].last
                                     /\ frames'[i].child.pos = frames[i].child.pos
    BY <1>2, <1>5, Updated
  <2>3. OpenInv'
    BY <1>1, <1>2, <2>1, <2>2, OpenAdvance
  <2>4. CellsInv' /\ ResultInv'
    BY <1>1, <1>2, <1>5, <2>1, CellsProp, ResultKept
  <2> QED BY <1>3, <2>3, <2>4 DEF GInv
<1> QED BY <1>4, <1>5

LEMMA BeginGood == GInv /\ BeginNode => GInv'
<1> SUFFICES ASSUME GInv, BeginNode PROVE GInv'
  OBVIOUS
<1>1. Running /\ token.t = "BEGIN_NODE" /\ DoneIfLast /\ blob' = blob
  BY DEF BeginNode, Reads, Running
<1>2. DInv /\ OpenInv /\ CellsInv
  BY DEF GInv
<1> QED BY <1>1, <1>2, BeginStep, OpenBegin, CellsBegin, ResultDone DEF GInv

LEMMA EndGood == GInv /\ EndNode => GInv'
<1> SUFFICES ASSUME GInv, EndNode PROVE GInv'
  OBVIOUS
<1>1. Running /\ token.t \in {"END_NODE", "END"} /\ DoneIfLast /\ blob' = blob
  BY DEF EndNode, Reads, Running
<1>2. DInv /\ OpenInv /\ CellsInv
  BY DEF GInv
<1> QED BY <1>1, <1>2, EndStep, OpenEnd, CellsEnd, ResultDone DEF GInv

\* A walk that starts has no open node and the default counts.
LEMMA OpenStart ==
  ASSUME frames' = ScanStart, blob' = blob
  PROVE  OpenInv' /\ CellsInv'
<1>1. /\ Len(frames') \in {0, 1}
      /\ \A i \in 1..Len(frames') : \A name \in CellNames :
           Count(frames'[i].child, name) = Default(name)
      /\ \A i \in 1..Len(frames') : ~frames'[i].last
  BY CellsStart
<1>2. 1..(Len(frames') - 1) = {}
  BY <1>1
<1>3. frames' # << >> => ~frames'[Len(frames')].last
  <2>1. IsSeq(frames')
    BY Started
  <2>2. frames' # << >> => Len(frames') \in 1..Len(frames')
    BY <1>1, <2>1, SeqEmpty
  <2> QED BY <1>1, <2>2
<1>4. OpenInv'
  BY <1>2, <1>3 DEF OpenInv
<1>5. ~LastProperty'
  BY <1>1, Place
<1>6. \A name \in CellNames : Inherited(name)' /\ Declares(name)' /\ Above(name)'
  BY <1>1, <1>2, <1>5 DEF Inherited, Declares, Above
<1> QED BY <1>4, <1>6 DEF CellsInv

LEMMA QueryMemGood == GInv /\ QueryMem => GInv'
<1> SUFFICES ASSUME GInv, QueryMem PROVE GInv'
  OBVIOUS
<1>1. /\ query = "htif" /\ query' = "mem" /\ frames' = ScanStart
      /\ UNCHANGED <<blob, htif, log>>
  BY DEF QueryMem
<1>2. DInv /\ ResultInv
  BY DEF GInv
<1>3. DInv' /\ OpenInv' /\ CellsInv'
  BY <1>1, <1>2, QueryMemStep, OpenStart
<1>4. ResultInv'
  <2>1. (Good' <=> Good) /\ \A p, name : Own(p, name)' = Own(p, name)
    BY <1>1, GoodKept
  <2>2. \A p : IsHtif(p)' <=> IsHtif(p)
    BY <1>1, <2>1 DEF IsHtif
  <2>3. Good => HtifTold'
    BY <1>1, <1>2, <2>2 DEF ResultInv, HtifTold
  <2>4. MemTold'
    <3>1. \A p : ~Logged(log, "mem", p)
      BY <1>1, <1>2 DEF DInv, CoverInv
    <3> QED BY <1>1, <3>1 DEF MemTold
  <2> QED BY <1>1, <2>1, <2>3, <2>4 DEF ResultInv
<1> QED BY <1>3, <1>4 DEF GInv

LEMMA QueryMemDoneGood == GInv /\ QueryMemDone => GInv'
<1> SUFFICES ASSUME GInv, QueryMemDone PROVE GInv'
  OBVIOUS
<1>1. /\ query = "mem" /\ frames = << >>
      /\ query' = (IF g_mem_size > 0 THEN "done" ELSE Died)
      /\ UNCHANGED <<blob, lex, frames, scan, htif, g_mem_size, log>>
  BY DEF QueryMemDone
<1>2. DInv /\ ResultInv
  BY DEF GInv
<1>3. DInv' /\ OpenInv' /\ CellsInv'
  BY <1>1, <1>2, QueryMemDoneStep, StoppedCells DEF Died
<1>4. ASSUME Good PROVE g_mem_size > 0
  <2>1. blob.understood
    BY <1>4 DEF Good, WellFormed
  <2>2. \A p \in Nodes : Logged(log, "mem", p)
    BY <1>1, <1>2, <2>1, Returned DEF Running
  <2>3. \E p \in Nodes : HoldsKernel(p)
    BY <1>4 DEF Good, WellFormed, HoldsKernel
  <2>4. Sized
    BY <1>2, <1>4, <2>2, <2>3 DEF ResultInv, MemTold
  <2> QED BY <1>4, <2>4 DEF Sized, Good, WellFormed
<1>5. ResultInv'
  <2>1. /\ \A p : HoldsKernel(p)' <=> HoldsKernel(p)
        /\ \A p : OwnRegions(p)' = OwnRegions(p)
        /\ \A p : IsMemory(p)' <=> IsMemory(p)
        /\ \A p, name : Own(p, name)' = Own(p, name)
        /\ (Good' <=> Good) /\ Nodes' = Nodes
    BY <1>1, GoodKept, TreeKept
  <2>2. \A p : IsHtif(p)' <=> IsHtif(p)
    BY <1>1, <2>1 DEF IsHtif
  <2>3. Sized' <=> Sized
    BY <1>1, <2>1 DEF Sized
  <2>4. (HtifTold' <=> HtifTold) /\ (MemTold' <=> MemTold)
    BY <1>1, <2>1, <2>2, <2>3 DEF HtifTold, MemTold
  <2> QED BY <1>1, <1>2, <1>4, <2>1, <2>4 DEF ResultInv
<1> QED BY <1>3, <1>5 DEF GInv

LEMMA IdleGood == GInv /\ UNCHANGED vars => GInv'
<1> SUFFICES ASSUME GInv, UNCHANGED vars PROVE GInv'
  OBVIOUS
<1>1. UNCHANGED <<blob, query, lex, frames, scan, htif, g_mem_size, log>>
  BY DEF vars
<1>2. DInv /\ OpenInv /\ CellsInv /\ ResultInv
  BY DEF GInv
<1>3. DInv' /\ ResultInv'
  BY <1>1, <1>2, IdleStep, ResultKept
<1>4. /\ Running' = Running /\ token' = token /\ node' = node
      /\ LastProperty' = LastProperty
  BY <1>1 DEF Running, token, node, LastProperty, inNode, top
<1>5. OpenInv'
  BY <1>1, <1>2, <1>4 DEF OpenInv
<1>6. /\ \A p, name : Own(p, name)' = Own(p, name)
      /\ \A p, name, d : OwnCells(p, name, d)' = OwnCells(p, name, d)
      /\ \A p : CellsDeclared(p)' <=> CellsDeclared(p)
  BY <1>1, GoodKept
<1>7. \A name \in CellNames : /\ Inherited(name) => Inherited(name)'
                              /\ Declares(name) => Declares(name)'
                              /\ Above(name) => Above(name)'
  BY <1>1, <1>4, <1>6 DEF Inherited, DeclaredAt, Declares, Above
<1>8. CellsInv'
  BY <1>2, <1>4, <1>7 DEF CellsInv
<1> QED BY <1>3, <1>5, <1>8 DEF GInv

LEMMA InitGood == Init => GInv
<1> SUFFICES ASSUME Init PROVE GInv
  OBVIOUS
<1>1. /\ query = "htif" /\ frames = ScanStart /\ log = << >> /\ htif = 0
  BY DEF Init
<1>2. /\ Len(frames) \in {0, 1}
      /\ \A i \in 1..Len(frames) : \A name \in CellNames :
           Count(frames[i].child, name) = Default(name)
      /\ \A i \in 1..Len(frames) : ~frames[i].last
  BY <1>1, CellsStart
<1>3. 1..(Len(frames) - 1) = {}
  BY <1>2
<1>4. frames # << >> => ~frames[Len(frames)].last
  <2>1. IsSeq(frames)
    BY <1>1, Started
  <2>2. frames # << >> => Len(frames) \in 1..Len(frames)
    BY <1>2, <2>1, SeqEmpty
  <2> QED BY <1>2, <2>2
<1>5. OpenInv
  BY <1>3, <1>4 DEF OpenInv
<1>6. ~LastProperty
  BY <1>2, Place
<1>7. CellsInv
  BY <1>2, <1>3, <1>6 DEF CellsInv, Inherited, Declares, Above
<1>8. \A q, p : ~Logged(log, q, p)
  BY <1>1 DEF Logged
<1>9. ResultInv
  BY <1>1, <1>8 DEF ResultInv, HtifTold, MemTold
<1> QED BY <1>5, <1>7, <1>9, InitDInv DEF GInv

---------------------------------------------------------------------------

\* For every device tree whose tokens end in END and nest, the position, the
\* activations of fdt_scan_helper, the callbacks' state and the calls of done
\* agree: DInv is inductive.
THEOREM DiscoveryInvariant == Spec => []DInv
<1>1. DInv /\ [Next]_vars => DInv'
  BY NopStep, PropStep, BeginStep, EndStep, QueryMemStep, QueryMemDoneStep,
     IdleStep DEF Next, Ended
<1> QED BY <1>1, InitDInv, PTL DEF Spec

\* The walk never reads past END; each query calls done once for a node, with
\* that node's own properties and no other's, and a discovery that ends well has
\* called it for every node.
THEOREM DoneOwnNode == Spec => []DoneSeesOwnNode
<1>1. DInv => DoneSeesOwnNode
  <2> SUFFICES ASSUME DInv PROVE DoneSeesOwnNode
    OBVIOUS
  <2>1. lex \in Tokens
    BY TokenFacts DEF DInv, StackInv
  <2>2. /\ DOMAIN log = 1..Len(log)
        /\ \A n \in 1..Len(log) : \A sc, p :
             sc = log[n].scan /\ p = log[n].pos => Entry(sc, p) /\ p \in Nodes
        /\ \A n, k \in 1..Len(log) :
             n # k /\ log[n].query = log[k].query => log[n].pos # log[k].pos
    BY DEF DInv, LogInv, IsSeq
  <2>3. query = "done" =>
          \A p \in Nodes, q \in {"htif", "mem"} : Logged(log, q, p)
    BY DEF DInv, CoverInv
  <2>4. ASSUME NEW n \in DOMAIN log
        PROVE  LET sc == log[n].scan
                   p  == log[n].pos
               IN  /\ sc.memory = IsMemory(p)
                   /\ sc.compat = IsHtif(p)
                   /\ sc.hasReg = (Own(p, "reg") # {})
                   /\ sc.hasReg => sc.reg = blob.toks[Latest(Own(p, "reg"))].val
    <3> DEFINE sc == log[n].scan
               p  == log[n].pos
    <3>1. Entry(sc, p)
      BY <2>2
    <3> HIDE DEF sc, p
    <3>2. sc.memory = IsMemory(p)
      <4>1. IsMemory(p) \in BOOLEAN
        BY DEF IsMemory
      <4> QED BY <3>1, <4>1 DEF Entry
    <3>3. sc.compat = IsHtif(p)
      <4>1. IsHtif(p) \in BOOLEAN
        BY DEF IsHtif
      <4> QED BY <3>1, <4>1 DEF Entry
    <3>4. sc.hasReg = (Own(p, "reg") # {})
      BY <3>1 DEF Entry
    <3>5. sc.hasReg => sc.reg = blob.toks[Latest(Own(p, "reg"))].val
      BY <3>1 DEF Entry
    <3> QED BY <3>2, <3>3, <3>4, <3>5 DEF sc, p
  <2> QED BY <2>1, <2>2, <2>3, <2>4 DEF DoneSeesOwnNode, Logged
<1> QED BY <1>1, DiscoveryInvariant, PTL

\* For every such device tree, the open nodes and their cell counts are those of
\* the tree, and in one as Spike builds it no assertion has failed and the results
\* are right so far: GInv is inductive.
THEOREM DiscoveryGood == Spec => []GInv
<1>1. GInv /\ [Next]_vars => GInv'
  BY NopGood, PropGood, BeginGood, EndGood, QueryMemGood, QueryMemDoneGood,
     IdleGood DEF Next, Ended
<1> QED BY <1>1, InitGood, PTL DEF Spec

\* Discovery accepts every device tree as Spike builds it, at whatever depth its
\* nodes are: no assertion fails, g_mem_size is the size of a region that holds the
\* kernel, and htif says whether the tree has the interface.
THEOREM DiscoveryCorrect == Spec => []DiscoveryExact
<1>1. GInv => DiscoveryExact
  <2> SUFFICES ASSUME GInv, Good, query \in Ends
               PROVE  /\ query = "done"
                      /\ htif = 1 <=> \E p \in Nodes : IsHtif(p)
                      /\ Sized
    BY DEF DiscoveryExact, Discovered, Sized
  <2>1. query = "done" /\ HtifTold /\ MemTold
    BY DEF GInv, ResultInv, Ends
  <2>2. \A q \in {"htif", "mem"} : \A p \in Nodes : Logged(log, q, p)
    BY <2>1 DEF GInv, DInv, CoverInv
  <2>3. \A p : Logged(log, "htif", p) => p \in Nodes
    BY DEF GInv, DInv, LogInv, Logged, IsSeq
  <2>4. htif = 1 <=> \E p \in Nodes : IsHtif(p)
    BY <2>1, <2>2, <2>3 DEF HtifTold
  <2>5. \E p \in Nodes : HoldsKernel(p)
    BY DEF Good, WellFormed, HoldsKernel
  <2>6. Sized
    BY <2>1, <2>2, <2>5 DEF MemTold
  <2> QED BY <2>1, <2>4, <2>6
<1> QED BY <1>1, DiscoveryGood, PTL

=============================================================================
