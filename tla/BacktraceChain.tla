--------------------------- MODULE BacktraceChain ---------------------------
(***************************************************************************)
(* The backtrace syscall on the stack of an application that made calls:   *)
(* main, then the functions of chain, the last of which called             *)
(* print_backtrace.  The layout of a frame is the compiler's               *)
(* (-fno-omit-frame-pointer): the return address at fp - 1, the caller's   *)
(* frame pointer at fp - 2; do_user_call calls nothing, so it saves only   *)
(* the frame pointer, at fp - 1.  The application may then have damaged a  *)
(* few words of its stack and its frame pointer.                           *)
(***************************************************************************)
EXTENDS Backtrace, FiniteSets

CONSTANTS
  Functions,     \* bound: the application's functions besides main
  MaxCalls,      \* bound: calls between main and print_backtrace
  FrameSizes,    \* bound: words per frame
  MaxDamage,     \* bound: words overwritten
  Damage         \* bound: what they are overwritten with

SymbolOf(f) == CHOOSE i \in DOMAIN Symtab : Symtab[i].name = f

\* A return address inside f.
InFunction(f) == Symtab[SymbolOf(f)].value + 1

\* A frame has at least the two words that a prologue saves, the frames fit on
\* the stack, and the linker gave each function code and a symbol of its own.
ASSUME ChainAssumption ==
  /\ Functions \subseteq {Symtab[i].name : i \in DOMAIN Symtab}
                           \ (Hidden \cup {"main", NoName})
  /\ Damage \subseteq Words /\ MaxDamage \in Nat /\ MaxCalls \in Nat
  /\ \A z \in FrameSizes : z \in Nat /\ z >= 2 /\ (MaxCalls + 3) * z < USER_STACK
  /\ \E i \in DOMAIN Symtab : Symtab[i].name = "main"
  /\ \A f \in Functions \cup {"main"}, i \in DOMAIN Symtab :
       Covers(Symtab[i], InFunction(f)) <=> i = SymbolOf(f)

VARIABLES chain, size, damaged
chainVars == <<chain, size, damaged>>

\* The functions on the stack, main first.
Called == <<"main">> \o chain \o <<"print_backtrace", "do_user_call">>
FP(i) == USER_STACK - (i - 1) * size

\* What the prologues of the functions wrote; the rest of a frame is not looked
\* at, and word by word zero.
StackWord(a) ==
  LET n == Len(Called)
      i == CHOOSE j \in 1..n : FP(j) - size <= a /\ a < FP(j)
  IN IF a < FP(n) - size \/ i = 1 THEN 0
     ELSE IF i = n THEN (IF a = FP(i) - 1 THEN FP(i - 1) ELSE 0)
     ELSE IF a = FP(i) - 1 THEN InFunction(Called[i - 1])
     ELSE IF a = FP(i) - 2 THEN FP(i - 1)
     ELSE 0

ChainInit ==
  /\ \E n \in 0..MaxCalls : chain \in [1..n -> Functions]
  /\ size \in FrameSizes
  /\ sp = FP(Len(Called)) - size
  /\ \E D \in SUBSET (1..(USER_STACK - 1)) :
       /\ Cardinality(D) <= MaxDamage
       /\ \E w \in [D -> Damage], r \in Damage \cup {FP(Len(Called))} :
            /\ stack = [a \in 1..(USER_STACK - 1) |->
                          IF a \in D THEN w[a] ELSE StackWord(a)]
            /\ s0 = r
            /\ damaged = (D # {} \/ r # FP(Len(Called)))
  /\ max_depth \in Depths
  /\ Begin

ChainNext == Next /\ UNCHANGED chainVars

ChainSpec == /\ ChainInit /\ [][ChainNext]_<<vars, chainVars>>
             /\ WF_<<vars, chainVars>>(ChainNext)

\* The innermost calls first, at most max_depth of them, main not among them.
Callers ==
  LET n == IF max_depth < Len(chain) THEN max_depth ELSE Len(chain)
  IN [i \in 1..n |-> Line(chain[Len(chain) + 1 - i], 0)]

\* The syscall prints the functions that led to print_backtrace, each once per
\* call (recursion included), in order, and nothing else.
PrintsCallers == pc = "done" /\ ~damaged => printed = Callers

=============================================================================
