------------------------------- MODULE MCFdt -------------------------------
(* Device trees with up to two subtrees under the root: memory with one or  *)
(* two regions, incomplete memory, the interface, a bus with memory of its  *)
(* own, the CPUs with their smaller cell counts; Spike's own; and damaged   *)
(* streams.                                                                 *)
EXTENDS Fdt

P(name, val) == <<[t |-> "PROP", name |-> name, val |-> val, whole |-> TRUE]>>
Ragged(name, val) == <<[t |-> "PROP", name |-> name, val |-> val, whole |-> FALSE]>>
T(kind) == <<[t |-> kind]>>
Node(props, kids) == T("BEGIN_NODE") \o props \o kids \o T("END_NODE")
CellProps(a, s) == P("#address-cells", <<a>>) \o P("#size-cells", <<s>>)
IsMem == P("device_type", MEMORY)

\* The kernel is at 9 = <<1, 1>>; 8 = <<1, 0>> is the base of its memory.
Mem22   == Node(IsMem \o P("reg", <<1, 0, 0, 3>>), <<>>)
Mem11   == Node(P("reg", <<6, 3, 0, 1>>) \o IsMem, <<>>)
Mem21x2 == Node(IsMem \o P("reg", <<3, 0, 1, 1, 0, 3>>), <<>>)
Empty21 == Node(IsMem \o P("reg", <<1, 1, 0>>), <<>>)
NoReg   == Node(IsMem, <<>>)
NoCells == Node(IsMem \o P("reg", <<>>), <<>>)
RaggedM == Node(IsMem \o Ragged("reg", <<1, 0, 0, 3>>), <<>>)
Htif    == Node(P("compatible", HTIF0), <<>>)
Cpus    == Node(CellProps(1, 0), T("NOP") \o Node(P("reg", <<0>>), Htif))
Bus     == Node(CellProps(2, 1), Mem21x2)
Plain   == Node(P("device_type", <<0>>), Mem21x2)
Late    == Node(<<>>, Htif \o P("reg", <<1>>))

Subtrees == {<<>>, T("NOP"), Mem22, Mem11, Mem21x2, Empty21, NoReg, RaggedM, Htif, Cpus,
             Bus, Plain, Late, NoCells}
\* A count of 7 is -1 in an int.
RootProps == {<<>>, CellProps(2, 2), CellProps(0, 0), CellProps(7, 1), CellProps(2, 7),
              IsMem, IsMem \o P("reg", <<1, 0, 3>>), P("#address-cells", <<1>>)}

\* The root declares two cells for both, the CPUs one and none; memory, with a
\* reg of two and two, follows the CPUs and declares none.
SpikeTree ==
  Node(CellProps(2, 2) \o P("compatible", <<0>>),
       Node(CellProps(1, 0), Node(P("device_type", <<0>>) \o P("reg", <<0>>), <<>>))
         \o Mem22
         \o Node(CellProps(2, 2), Node(P("reg", <<0, 2, 0, 1>>), <<>>))
         \o Htif)

Trees == {SpikeTree} \cup {Node(r, x \o y) : r \in RootProps, x, y \in Subtrees}

MCBlobs ==
  {[understood |-> TRUE, toks |-> t \o T("END")] : t \in Trees}
  \cup {[understood |-> FALSE, toks |-> T("END")],
        [understood |-> TRUE, toks |-> T("BEGIN_NODE") \o Mem21x2 \o T("END")]}

=============================================================================
