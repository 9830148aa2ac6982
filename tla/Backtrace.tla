----------------------------- MODULE Backtrace -----------------------------
(***************************************************************************)
(* The backtrace syscall (sys_user_backtrace and find_symbol_name in       *)
(* kernel/syscall.c): a walk along the chain of frame pointers that the    *)
(* application's calls leave on its stack.  Addresses count 8-byte words,  *)
(* so frame_view[-1] is word fp - 1.  One step is the part before the loop *)
(* or one iteration of it.  The stack does not change during a syscall.    *)
(***************************************************************************)
EXTENDS Integers, Sequences

CONSTANTS
  Wrap,          \* one more than the largest address: a uint64 wraps there
  USER_STACK,    \* the word above the stack
  Symtab,        \* the symbols load_user_symbols has read, a sequence
  Words,         \* bound: the values a word of the stack may have
  StackTops,     \* bound: stack pointers at the ecall
  Depths         \* bound: max_depth arguments

\* A symbol: is its type STT_FUNC, does its name lie inside strtab?
Symbols == [func : BOOLEAN, value : 0..(Wrap - 1), size : 0..(Wrap - 1),
            inStrtab : BOOLEAN, name : STRING]

ASSUME BacktraceAssumption ==
  /\ Wrap \in Nat \ {0} /\ USER_STACK \in Nat /\ StackTops \subseteq Nat
  /\ Words \subseteq Nat /\ Depths \subseteq Nat
  /\ Symtab \in Seq(Symbols)

\* Word 0 is below every stack pointer.
Stacks == [1..(USER_STACK - 1) -> Words]

---------------------------------------------------------------------------
(* find_symbol_name.                                                       *)

\* A symbol of size 0 covers 4 bytes, here and below one word; one whose limit
\* wraps covers nothing.
Covers(sym, vaddr) ==
  /\ sym.func /\ sym.value # 0
  /\ vaddr >= sym.value
  /\ vaddr < (sym.value + (IF sym.size # 0 THEN sym.size ELSE 1)) % Wrap
  /\ sym.inStrtab

NoName == "NULL"

\* The name of the first symbol that covers the address.
find_symbol_name(vaddr) ==
  LET hits == {i \in DOMAIN Symtab : Covers(Symtab[i], vaddr)}
  IN IF hits = {} THEN NoName
     ELSE Symtab[CHOOSE i \in hits : \A j \in hits : i <= j].name

---------------------------------------------------------------------------

VARIABLES
  stack,       \* the application's stack
  sp, s0,      \* its registers, from the trapframe
  max_depth,   \* the argument
  pc,          \* "start", "loop" or "done"
  fp,          \* current_fp
  count,       \* lines printed
  printed,     \* what they show: names, or addresses without a symbol
  accessed     \* history: the words read

args == <<stack, sp, s0, max_depth>>
vars == <<stack, sp, s0, max_depth, pc, fp, count, printed, accessed>>

\* A line of output: sprint of the name or of the address.
Line(name, addr) == [name |-> name, addr |-> IF name = NoName THEN addr ELSE 0]

\* The system functions that are skipped.
Hidden == {"print_backtrace", "do_user_call"}

\* Mutants: the walk may go down; USER_STACK itself counts as inside.
FollowsDown(f, low) == f # 0 /\ f < USER_STACK
FollowsTop(f, low) == f # 0 /\ f > low /\ f <= USER_STACK

\* fp may be followed from low: it is above it and inside the stack.
Follows(f, low) == f # 0 /\ f > low /\ f < USER_STACK

\* Mutant: the word below the frame pointer is not looked for.
AboveSpAlways(a) == TRUE

\* &frame_view[..] > sp
AboveSp(a) == a > sp

\* Mutant: the walk starts at do_user_call's own frame.
OldFpOwn == s0

\* do_user_call saves no return address, and its caller's frame pointer there.
OldFp == stack[s0 - 1]

\* Up to the loop: to the frame of do_user_call's caller.
Start ==
  /\ pc = "start"
  /\ IF max_depth # 0 /\ Follows(s0, sp) /\ AboveSp(s0 - 1)
     THEN /\ accessed' = accessed \cup {s0 - 1}
          /\ IF Follows(OldFp, s0) THEN fp' = OldFp /\ pc' = "loop"
                                   ELSE pc' = "done" /\ UNCHANGED fp
     ELSE pc' = "done" /\ UNCHANGED <<accessed, fp>>
  /\ UNCHANGED <<args, count, printed>>

\* Mutant: one line too many.
EnoughLate == count > max_depth

Enough == count >= max_depth

\* The loop ends: at the limit, outside the stack, at a null return address or
\* in main.
LoopEnds ==
  \/ fp = 0 \/ Enough
  \/ fp <= sp \/ fp >= USER_STACK \/ fp - 1 <= sp
  \/ stack[fp - 1] = 0
  \/ find_symbol_name(stack[fp - 1]) = "main"

Break ==
  /\ pc = "loop" /\ LoopEnds
  /\ accessed' = IF fp # 0 /\ count < max_depth /\ fp < USER_STACK /\ fp - 1 > sp
                 THEN accessed \cup {fp - 1} ELSE accessed
  /\ pc' = "done"
  /\ UNCHANGED <<args, fp, count, printed>>

\* A whole iteration: print the caller unless it is hidden, go one frame up.
Iterate ==
  /\ pc = "loop" /\ ~LoopEnds
  /\ LET ra == stack[fp - 1]
         name == find_symbol_name(ra)
     IN IF name \in Hidden
        THEN UNCHANGED <<printed, count>>
        ELSE printed' = Append(printed, Line(name, ra)) /\ count' = count + 1
  /\ IF fp - 2 > sp
     THEN /\ accessed' = accessed \cup {fp - 1, fp - 2}
          /\ IF Follows(stack[fp - 2], fp)
             THEN fp' = stack[fp - 2] /\ UNCHANGED pc
             ELSE pc' = "done" /\ UNCHANGED fp
     ELSE /\ accessed' = accessed \cup {fp - 1}
          /\ pc' = "done" /\ UNCHANGED fp
  /\ UNCHANGED args

\* The result has been returned.
Returned == pc = "done" /\ UNCHANGED vars

Begin ==
  /\ pc = "start" /\ fp = 0 /\ count = 0 /\ printed = <<>> /\ accessed = {}

\* Any stack contents and registers: the application may have damaged them.
Init ==
  /\ stack \in Stacks /\ sp \in StackTops /\ s0 \in Words
  /\ max_depth \in Depths
  /\ Begin

Next == Start \/ Break \/ Iterate \/ Returned

Spec == Init /\ [][Next]_vars
FairSpec == Spec /\ WF_vars(Next)

---------------------------------------------------------------------------

\* current_fp is null or below USER_STACK whatever word it was read from.
TypeOK ==
  /\ stack \in Stacks /\ sp \in Nat /\ s0 \in Words /\ max_depth \in Nat
  /\ pc \in {"start", "loop", "done"} /\ count \in Nat
  /\ fp \in Nat /\ (fp = 0 \/ fp < USER_STACK)
  /\ accessed \subseteq Int

\* Whatever the application left in its registers and on its stack, the kernel
\* reads only words of the live part of the stack.
ReadsInStack == \A a \in accessed : sp < a /\ a < USER_STACK

\* It never prints more than max_depth lines, and returns how many it printed.
CountExact == count = Len(printed) /\ count <= max_depth

\* The syscall returns, also on a cycle of frame pointers: the walk goes up.
Terminates == <>(pc = "done")

=============================================================================
