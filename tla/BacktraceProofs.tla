--------------------------- MODULE BacktraceProofs ---------------------------
(***************************************************************************)
(* Proofs about modules Backtrace and BacktraceChain.  For every stack,    *)
(* register contents, symbol table and max_depth, the walk of              *)
(* sys_user_backtrace reads only the live stack and counts its lines       *)
(* exactly; on the stack that a chain of calls leaves, it prints those     *)
(* calls.                                                                  *)
(***************************************************************************)
EXTENDS BacktraceChain, TLAPS

\* printed is a sequence of n lines.
IsLines(p, n) == p = [i \in 1..n |-> p[i]]

\* The bounds that the checks before the loop, and at its end, establish.
WalkInv ==
  /\ pc = "start" => fp = 0
  /\ pc = "loop" => fp > sp

LinesInv == IsLines(printed, count) /\ count <= max_depth

BInv == TypeOK /\ WalkInv /\ LinesInv /\ ReadsInStack

USE DEF AboveSp, OldFp, Enough

---------------------------------------------------------------------------
(* Lemmas about the operators of the model.                                *)

\* One more line.
LEMMA AppendLines ==
  ASSUME NEW n \in Nat, NEW p, NEW e, IsLines(p, n)
  PROVE  /\ Len(p) = n /\ IsLines(Append(p, e), n + 1)
         /\ \A i \in 1..n : Append(p, e)[i] = p[i]
         /\ Append(p, e)[n + 1] = e
<1> DEFINE S == {p[i] : i \in 1..n} \cup {e}
<1>1. p \in [1..n -> S]
  BY DEF IsLines
<1>2. p \in Seq(S)
  BY <1>1
<1>3. Len(p) = n
  BY <1>1, <1>2
<1>4. Append(p, e) \in Seq(S) /\ Len(Append(p, e)) = n + 1
  BY <1>2, <1>3
<1>5. DOMAIN Append(p, e) = 1..(n + 1)
  BY <1>4
<1>6. /\ \A i \in 1..n : Append(p, e)[i] = p[i]
      /\ Append(p, e)[n + 1] = e
  BY <1>2, <1>3
<1> QED BY <1>3, <1>4, <1>5, <1>6 DEF IsLines

\* A word that may be followed from low is a word of the stack above low.
LEMMA FollowsBounds ==
  ASSUME NEW f \in Nat, NEW low \in Nat, Follows(f, low)
  PROVE  f > low /\ f < USER_STACK /\ f \in 1..(USER_STACK - 1)
  BY BacktraceAssumption DEF Follows

\* Reading the stack above sp gives one of its words.
LEMMA StackRead ==
  ASSUME TypeOK, NEW a \in Int, sp < a, a < USER_STACK
  PROVE  stack[a] \in Words /\ stack[a] \in Nat
<1>1. a \in 1..(USER_STACK - 1)
  BY BacktraceAssumption DEF TypeOK
<1>2. stack \in [1..(USER_STACK - 1) -> Words]
  BY DEF TypeOK, Stacks
<1> QED BY <1>1, <1>2, BacktraceAssumption

---------------------------------------------------------------------------
(* The invariant, action by action.                                        *)

\* Up to the loop: two reads at most, both checked.
LEMMA StartStep == BInv /\ Start => BInv'
<1> SUFFICES ASSUME BInv, Start PROVE BInv'
  OBVIOUS
<1> USE BacktraceAssumption
<1>1. pc = "start" /\ fp = 0 /\ UNCHANGED <<args, count, printed>>
  BY DEF BInv, WalkInv, Start
<1>2. CASE max_depth # 0 /\ Follows(s0, sp) /\ s0 - 1 > sp
  <2>1. s0 \in Nat /\ sp \in Nat /\ s0 - 1 \in Int /\ s0 - 1 < USER_STACK
    BY <1>2, FollowsBounds DEF BInv, TypeOK
  <2>2. stack[s0 - 1] \in Nat
    BY <1>2, <2>1, StackRead DEF BInv
  <2>3. accessed' = accessed \cup {s0 - 1}
    BY <1>2 DEF Start
  <2>4. CASE Follows(stack[s0 - 1], s0)
    <3>1. fp' = stack[s0 - 1] /\ pc' = "loop"
      BY <1>2, <2>4 DEF Start
    <3>2. fp' \in Nat /\ fp' > sp' /\ fp' < USER_STACK
      BY <1>1, <1>2, <2>1, <2>2, <2>4, <3>1, FollowsBounds DEF args, Follows
    <3> QED
      BY <1>1, <1>2, <2>1, <2>3, <3>1, <3>2
      DEF BInv, TypeOK, WalkInv, LinesInv, ReadsInStack, args
  <2>5. CASE ~Follows(stack[s0 - 1], s0)
    BY <1>1, <1>2, <2>1, <2>3, <2>5
    DEF Start, BInv, TypeOK, WalkInv, LinesInv, ReadsInStack, args
  <2> QED BY <2>4, <2>5
<1>3. CASE ~(max_depth # 0 /\ Follows(s0, sp) /\ s0 - 1 > sp)
  BY <1>1, <1>3
  DEF Start, BInv, TypeOK, WalkInv, LinesInv, ReadsInStack, args
<1> QED BY <1>2, <1>3

\* The end of the loop reads the return address only below its checks.
LEMMA BreakStep == BInv /\ Break => BInv'
<1> SUFFICES ASSUME BInv, Break PROVE BInv'
  OBVIOUS
<1>1. pc' = "done" /\ UNCHANGED <<args, fp, count, printed>>
  BY DEF Break
<1>2. \A a \in accessed' : a \in Int /\ sp < a /\ a < USER_STACK
  BY BacktraceAssumption DEF Break, BInv, TypeOK, ReadsInStack
<1> QED
  BY <1>1, <1>2 DEF BInv, TypeOK, WalkInv, LinesInv, ReadsInStack, args

\* An iteration: inside the stack, one line at most, and below the limit.
LEMMA IterateStep == BInv /\ Iterate => BInv'
<1> SUFFICES ASSUME BInv, Iterate PROVE BInv'
  OBVIOUS
<1> USE BacktraceAssumption
<1>1. /\ pc = "loop" /\ UNCHANGED args
      /\ fp \in Nat /\ sp \in Nat /\ count \in Nat /\ max_depth \in Nat
      /\ fp - 1 > sp /\ fp < USER_STACK /\ count < max_depth
  BY DEF BInv, TypeOK, Iterate, LoopEnds
<1>2. LinesInv' /\ count' \in Nat
  <2>1. \/ UNCHANGED <<printed, count>>
        \/ \E e : printed' = Append(printed, e) /\ count' = count + 1
    BY DEF Iterate
  <2>2. CASE UNCHANGED <<printed, count>>
    BY <1>1, <2>2 DEF BInv, LinesInv, args
  <2>3. ASSUME NEW e, printed' = Append(printed, e), count' = count + 1
        PROVE  LinesInv' /\ count' \in Nat
    <3>1. IsLines(printed', count')
      BY <1>1, <2>3, AppendLines DEF BInv, LinesInv
    <3> QED BY <1>1, <2>3, <3>1 DEF LinesInv, args
  <2> QED BY <2>1, <2>2, <2>3
<1>3. CASE fp - 2 > sp
  <2>1. stack[fp - 2] \in Nat
    BY <1>1, <1>3, StackRead DEF BInv
  <2>2. accessed' = accessed \cup {fp - 1, fp - 2}
    BY <1>3 DEF Iterate
  <2>3. CASE Follows(stack[fp - 2], fp)
    <3>1. fp' = stack[fp - 2] /\ pc' = pc
      BY <1>3, <2>3 DEF Iterate
    <3>2. fp' \in Nat /\ fp' > sp' /\ fp' < USER_STACK
      BY <1>1, <2>1, <2>3, <3>1, FollowsBounds DEF args
    <3> QED
      BY <1>1, <1>2, <1>3, <2>2, <3>1, <3>2
      DEF BInv, TypeOK, WalkInv, ReadsInStack, args
  <2>4. CASE ~Follows(stack[fp - 2], fp)
    BY <1>1, <1>2, <1>3, <2>2, <2>4
    DEF Iterate, BInv, TypeOK, WalkInv, ReadsInStack, args
  <2> QED BY <2>3, <2>4
<1>4. CASE ~(fp - 2 > sp)
  <2>1. accessed' = accessed \cup {fp - 1} /\ pc' = "done" /\ UNCHANGED fp
    BY <1>4 DEF Iterate
  <2> QED
    BY <1>1, <1>2, <2>1 DEF BInv, TypeOK, WalkInv, ReadsInStack, args
<1> QED BY <1>3, <1>4

---------------------------------------------------------------------------
(* The theorems.                                                           *)

\* The invariant holds throughout every call of sys_user_backtrace.
THEOREM BacktraceInvariance == Spec => []BInv
<1>1. Init => BInv
  BY BacktraceAssumption
  DEF Init, Begin, BInv, TypeOK, WalkInv, LinesInv, IsLines, ReadsInStack
<1>2. BInv /\ [Next]_vars => BInv'
  <2> SUFFICES ASSUME BInv, [Next]_vars PROVE BInv'
    OBVIOUS
  <2>1. CASE Start BY <2>1, StartStep
  <2>2. CASE Break BY <2>2, BreakStep
  <2>3. CASE Iterate BY <2>3, IterateStep
  <2>4. CASE UNCHANGED vars
    BY <2>4
    DEF vars, BInv, TypeOK, WalkInv, LinesInv, IsLines, ReadsInStack
  <2> QED BY <2>1, <2>2, <2>3, <2>4 DEF Next, Returned
<1> QED BY <1>1, <1>2, PTL DEF Spec

\* current_fp never leaves the range that the checks on next_fp and old_fp
\* allow.
THEOREM BacktraceTypes == Spec => []TypeOK
<1>1. BInv => TypeOK
  BY DEF BInv
<1> QED BY <1>1, BacktraceInvariance, PTL

\* Whatever the application left in s0 and on its stack, frame_view is read
\* only strictly between its sp and USER_STACK.
THEOREM WalkStaysInStack == Spec => []ReadsInStack
<1>1. BInv => ReadsInStack
  BY DEF BInv
<1> QED BY <1>1, BacktraceInvariance, PTL

\* The result of the syscall is the number of lines printed, max_depth at most.
THEOREM LinesCounted == Spec => []CountExact
<1>1. BInv => CountExact
  BY AppendLines DEF BInv, TypeOK, LinesInv, CountExact
<1> QED BY <1>1, BacktraceInvariance, PTL

---------------------------------------------------------------------------
(* The stack that a chain of calls leaves (module BacktraceChain).         *)

\* A return address inside a function is found to be in that function.
LEMMA Resolves ==
  ASSUME NEW f \in Functions \cup {"main"}
  PROVE  /\ find_symbol_name(InFunction(f)) = f
         /\ InFunction(f) \in Nat /\ InFunction(f) # 0
<1> DEFINE x == SymbolOf(f)
<1>1. \E i \in DOMAIN Symtab : Symtab[i].name = f
  BY ChainAssumption
<1>2. x \in DOMAIN Symtab /\ Symtab[x].name = f
  BY <1>1 DEF SymbolOf
<1>3. x \in Nat /\ Symtab[x] \in Symbols
  BY <1>2, BacktraceAssumption
<1>4. {i \in DOMAIN Symtab : Covers(Symtab[i], InFunction(f))} = {x}
  BY <1>2, ChainAssumption
<1>5. (CHOOSE i \in {x} : \A j \in {x} : i <= j) = x
  <2> HIDE DEF x
  <2> QED BY <1>3
<1>6. find_symbol_name(InFunction(f)) = f
  <2> HIDE DEF x
  <2> QED BY <1>2, <1>4, <1>5 DEF find_symbol_name
<1>7. InFunction(f) \in Nat /\ InFunction(f) # 0
  BY <1>3 DEF InFunction, Symbols
<1> QED BY <1>6, <1>7

\* Products of frame numbers and frame sizes.
LEMMA Products ==
  ASSUME NEW z \in Nat, NEW j \in Nat, NEW k \in Nat, j <= k
  PROVE  /\ j * z \in Nat /\ k * z \in Nat /\ j * z <= k * z
         /\ (j + 1) * z = j * z + z
<1>1. /\ k - j \in Nat /\ k * z = j * z + (k - j) * z
      /\ j * z \in Nat /\ k * z \in Nat /\ (k - j) * z \in Nat
  OBVIOUS
<1>2. (j + 1) * z = j * z + z
  OBVIOUS
<1> QED BY <1>1, <1>2

\* The frames lie below each other, all of them on the stack.
LEMMA FrameFacts ==
  ASSUME size \in FrameSizes, NEW n \in Nat, n <= MaxCalls + 3
  PROVE  /\ size \in Nat /\ size >= 2 /\ FP(1) = USER_STACK
         /\ \A i \in 1..n : FP(i) \in Int /\ FP(i) - size > 0 /\ FP(i) <= USER_STACK
         /\ \A i \in 2..n : FP(i - 1) = FP(i) + size
         /\ \A i, j \in 1..n : i < j => FP(j) + size <= FP(i)
<1>1. /\ size \in Nat /\ size >= 2 /\ (MaxCalls + 3) * size < USER_STACK
      /\ USER_STACK \in Nat /\ MaxCalls \in Nat
  BY ChainAssumption, BacktraceAssumption
<1>2. n * size \in Nat /\ n * size < USER_STACK
  <2>1. MaxCalls + 3 \in Nat
    BY <1>1
  <2>2. n * size \in Nat /\ (MaxCalls + 3) * size \in Nat
        /\ n * size <= (MaxCalls + 3) * size
    BY <1>1, <2>1, Products
  <2> QED BY <1>1, <2>2
<1>3. FP(1) = USER_STACK
  BY <1>1 DEF FP
<1>4. ASSUME NEW i \in 1..n
      PROVE  FP(i) \in Int /\ FP(i) - size > 0 /\ FP(i) <= USER_STACK
  <2>1. i - 1 \in Nat /\ i \in Nat /\ i <= n /\ (i - 1) + 1 = i /\ i - 1 <= i
    OBVIOUS
  <2>2. (i - 1) * size \in Nat /\ i * size = (i - 1) * size + size
    BY <1>1, <2>1, Products
  <2>3. i * size \in Nat /\ i * size <= n * size
    BY <1>1, <2>1, Products
  <2>4. FP(i) = USER_STACK - (i - 1) * size
    BY DEF FP
  <2> QED BY <1>1, <1>2, <2>2, <2>3, <2>4
<1>5. ASSUME NEW i \in 2..n PROVE FP(i - 1) = FP(i) + size
  <2>1. i - 2 \in Nat /\ i - 1 \in Nat /\ (i - 2) + 1 = i - 1 /\ i - 2 <= i - 1
        /\ (i - 1) - 1 = i - 2
    OBVIOUS
  <2>2. (i - 2) * size \in Nat /\ (i - 1) * size = (i - 2) * size + size
    BY <1>1, <2>1, Products
  <2>3. FP(i) = USER_STACK - (i - 1) * size /\ FP(i - 1) = USER_STACK - (i - 2) * size
    BY <2>1 DEF FP
  <2> QED BY <1>1, <2>2, <2>3
<1>6. ASSUME NEW i \in 1..n, NEW j \in 1..n, i < j
      PROVE  FP(j) + size <= FP(i)
  <2>1. i - 1 \in Nat /\ j - 1 \in Nat /\ i \in Nat /\ i <= j - 1 /\ (i - 1) + 1 = i
        /\ i - 1 <= i
    BY <1>6
  <2>2. (i - 1) * size \in Nat /\ i * size = (i - 1) * size + size
    BY <1>1, <2>1, Products
  <2>3. (j - 1) * size \in Nat /\ i * size <= (j - 1) * size
    BY <1>1, <2>1, Products
  <2>4. FP(i) = USER_STACK - (i - 1) * size /\ FP(j) = USER_STACK - (j - 1) * size
    BY DEF FP
  <2> QED BY <1>1, <2>2, <2>3, <2>4
<1> QED BY <1>1, <1>3, <1>4, <1>5, <1>6

\* What the application's calls have left: the frames on the stack, if nothing
\* was damaged.
Frames(n) ==
  /\ n = Len(chain) + 3 /\ s0 = FP(n) /\ sp = FP(n) - size
  /\ stack[FP(n) - 1] = FP(n - 1)
  /\ \A i \in 2..(n - 1) : /\ stack[FP(i) - 1] = InFunction(Called[i - 1])
                           /\ stack[FP(i) - 2] = FP(i - 1)

StackInv ==
  /\ chain \in Seq(Functions) /\ Len(chain) <= MaxCalls
  /\ size \in FrameSizes /\ max_depth \in Nat
  /\ ~damaged => \E n \in Nat : Frames(n)

\* How far the walk has come: k is the frame that current_fp points to, the
\* functions above it have been printed.
PrintInv ==
  ~damaged =>
    /\ count \in Nat /\ count <= max_depth /\ count <= Len(chain)
    /\ IsLines(printed, count)
    /\ \A i \in 1..count : printed[i] = Line(chain[Len(chain) + 1 - i], 0)
    /\ pc = "start" => count = 0
    /\ pc = "loop" => \E k \in Nat : k = Len(chain) + 2 - count /\ fp = FP(k)
    /\ pc = "done" => count = max_depth \/ count = Len(chain)

\* The functions on the stack.
LEMMA CalledIs ==
  ASSUME chain \in Seq(Functions)
  PROVE  /\ Len(chain) \in Nat /\ Len(Called) = Len(chain) + 3
         /\ Called[1] = "main"
         /\ \A i \in 1..Len(chain) : /\ chain[i] \in Functions
                                     /\ Called[i + 1] = chain[i]
<1> DEFINE S == Functions \cup {"main", "print_backtrace", "do_user_call"}
           p == <<"main">>
           e == <<"print_backtrace", "do_user_call">>
           pc1 == p \o chain
<1>1. p \in Seq(S) /\ e \in Seq(S) /\ chain \in Seq(S)
  OBVIOUS
<1>2. Len(p) = 1 /\ p[1] = "main" /\ Len(e) = 2
  OBVIOUS
<1>3. Called = pc1 \o e
  BY DEF Called
<1>4. /\ Len(chain) \in Nat
      /\ \A i \in 1..Len(chain) : chain[i] \in Functions
  OBVIOUS
<1> HIDE DEF p, e, S
<1>5. pc1 \in Seq(S)
  BY <1>1
<1>6. /\ Len(pc1) = Len(p) + Len(chain)
      /\ \A i \in 1..Len(p) : pc1[i] = p[i]
      /\ \A i \in 1..Len(chain) : pc1[Len(p) + i] = chain[i]
  BY <1>1
<1> HIDE DEF pc1
<1> DEFINE all == pc1 \o e
<1>7. /\ Len(all) = Len(pc1) + Len(e)
      /\ \A i \in 1..Len(pc1) : all[i] = pc1[i]
  BY <1>1, <1>5
<1> HIDE DEF all
<1>8. Called = all
  BY <1>3 DEF all
<1>9. \A i \in 1..Len(chain) : all[i + 1] = chain[i]
  <2> SUFFICES ASSUME NEW i \in 1..Len(chain) PROVE all[i + 1] = chain[i]
    OBVIOUS
  <2>1. i + 1 = 1 + i /\ 1 + i \in 1..Len(pc1)
    BY <1>2, <1>4, <1>6
  <2> QED BY <1>2, <1>6, <1>7, <2>1
<1> QED BY <1>2, <1>4, <1>6, <1>7, <1>8, <1>9

\* The prologues' words, read back.
LEMMA StackWords ==
  ASSUME chain \in Seq(Functions), Len(chain) <= MaxCalls, size \in FrameSizes
  PROVE  LET n == Len(chain) + 3 IN
         /\ StackWord(FP(n) - 1) = FP(n - 1)
         /\ \A i \in 2..(n - 1) :
              /\ StackWord(FP(i) - 1) = InFunction(Called[i - 1])
              /\ StackWord(FP(i) - 2) = FP(i - 1)
<1> DEFINE n == Len(chain) + 3
           Of(a) == CHOOSE j \in 1..n : FP(j) - size <= a /\ a < FP(j)
<1>1. n \in Nat /\ n >= 3 /\ n <= MaxCalls + 3 /\ Len(Called) = n
  BY CalledIs, ChainAssumption
<1> HIDE DEF n
<1>2. /\ size \in Nat /\ size >= 2
      /\ \A i \in 1..n : FP(i) \in Int
      /\ \A i, j \in 1..n : i < j => FP(j) + size <= FP(i)
  BY <1>1, FrameFacts
<1>3. ASSUME NEW i \in 1..n, NEW a \in Int, FP(i) - size <= a, a < FP(i)
      PROVE  Of(a) = i
  <2>1. ASSUME NEW j \in 1..n, FP(j) - size <= a, a < FP(j) PROVE j = i
    <3>1. ~(i < j) /\ ~(j < i)
      <4>1. FP(i) \in Int /\ FP(j) \in Int
        BY <1>2
      <4>2. i < j => FP(j) + size <= FP(i)
        BY <1>2
      <4>3. j < i => FP(i) + size <= FP(j)
        BY <1>2
      <4> QED BY <1>2, <1>3, <2>1, <4>1, <4>2, <4>3
    <3> QED BY <1>1, <3>1
  <2> QED BY <1>3, <2>1
<1>4. ASSUME NEW i \in 2..n, NEW a \in {FP(i) - 1, FP(i) - 2}
      PROVE  /\ Of(a) = i /\ ~(a < FP(n) - size)
             /\ i # n => (a = FP(i) - 2 => a # FP(i) - 1)
  <2>1. i \in 1..n /\ n \in 1..n /\ (i = n \/ i < n)
    BY <1>1
  <2>2. FP(i) \in Int /\ FP(n) \in Int /\ (i < n => FP(n) + size <= FP(i))
    BY <1>2, <2>1
  <2>3. FP(n) <= FP(i)
    BY <1>2, <2>1, <2>2
  <2>4. FP(i) - size <= a /\ a < FP(i) /\ a \in Int
    BY <1>2, <2>2
  <2> QED BY <1>2, <1>3, <2>1, <2>2, <2>3, <2>4
<1>5. \A a : StackWord(a) =
        IF a < FP(n) - size \/ Of(a) = 1 THEN 0
        ELSE IF Of(a) = n THEN (IF a = FP(Of(a)) - 1 THEN FP(Of(a) - 1) ELSE 0)
        ELSE IF a = FP(Of(a)) - 1 THEN InFunction(Called[Of(a) - 1])
        ELSE IF a = FP(Of(a)) - 2 THEN FP(Of(a) - 1)
        ELSE 0
  BY <1>1 DEF StackWord
<1> HIDE DEF Of
<1>6. StackWord(FP(n) - 1) = FP(n - 1)
  <2>1. Of(FP(n) - 1) = n /\ ~(FP(n) - 1 < FP(n) - size) /\ n # 1
    BY <1>1, <1>4
  <2> QED BY <1>5, <2>1
<1>7. ASSUME NEW i \in 2..(n - 1)
      PROVE  /\ StackWord(FP(i) - 1) = InFunction(Called[i - 1])
             /\ StackWord(FP(i) - 2) = FP(i - 1)
  <2>1. i \in 2..n /\ i # n /\ i # 1
    BY <1>1
  <2>2. /\ Of(FP(i) - 1) = i /\ ~(FP(i) - 1 < FP(n) - size)
        /\ Of(FP(i) - 2) = i /\ ~(FP(i) - 2 < FP(n) - size)
        /\ FP(i) - 2 # FP(i) - 1
    BY <1>4, <2>1
  <2> QED BY <1>5, <2>1, <2>2
<1> QED BY <1>6, <1>7 DEF n

\* The application has made its calls.
LEMMA ChainStart == ChainInit => StackInv /\ PrintInv
<1> SUFFICES ASSUME ChainInit PROVE StackInv /\ PrintInv
  OBVIOUS
<1>1. /\ chain \in Seq(Functions) /\ Len(chain) <= MaxCalls /\ Len(chain) \in Nat
      /\ size \in FrameSizes /\ max_depth \in Nat
  <2>1. PICK n \in 0..MaxCalls : chain \in [1..n -> Functions]
    BY DEF ChainInit
  <2>2. n \in Nat /\ n <= MaxCalls
    BY ChainAssumption, <2>1
  <2>3. chain \in Seq(Functions) /\ Len(chain) = n
    BY <2>1, <2>2
  <2> QED BY <2>2, <2>3, BacktraceAssumption DEF ChainInit
<1> DEFINE n == Len(chain) + 3
<1>2. n \in Nat /\ n <= MaxCalls + 3 /\ n >= 3 /\ Len(Called) = n
  BY <1>1, CalledIs, ChainAssumption
<1>3. /\ StackWord(FP(n) - 1) = FP(n - 1)
      /\ \A i \in 2..(n - 1) : /\ StackWord(FP(i) - 1) = InFunction(Called[i - 1])
                               /\ StackWord(FP(i) - 2) = FP(i - 1)
  BY <1>1, StackWords
<1>4. n = Len(chain) + 3
  OBVIOUS
<1> HIDE DEF n
<1>5. ASSUME ~damaged PROVE Frames(n)
  <2>1. PICK D \in SUBSET (1..(USER_STACK - 1)) :
          \E w \in [D -> Damage], r \in Damage \cup {FP(n)} :
            /\ stack = [a \in 1..(USER_STACK - 1) |->
                          IF a \in D THEN w[a] ELSE StackWord(a)]
            /\ s0 = r
            /\ damaged = (D # {} \/ r # FP(n))
    BY <1>2 DEF ChainInit
  <2>2. D = {} /\ s0 = FP(n)
    BY <1>5, <2>1
  <2>3. stack = [a \in 1..(USER_STACK - 1) |-> StackWord(a)]
    BY <2>1, <2>2
  <2>4. sp = FP(n) - size
    BY <1>2 DEF ChainInit
  <2>5. /\ size \in Nat /\ size >= 2 /\ FP(1) = USER_STACK
        /\ \A i \in 1..n : FP(i) \in Int /\ FP(i) - size > 0
        /\ \A i, j \in 1..n : i < j => FP(j) + size <= FP(i)
    BY <1>1, <1>2, FrameFacts
  <2>6. ASSUME NEW i \in 2..n
        PROVE  FP(i) - 1 \in 1..(USER_STACK - 1) /\ FP(i) - 2 \in 1..(USER_STACK - 1)
    <3>1. i \in 1..n /\ 1 \in 1..n /\ 1 < i
      BY <1>2
    <3>2. FP(i) \in Int /\ FP(i) - size > 0 /\ FP(i) + size <= USER_STACK
      BY <2>5, <3>1
    <3> QED BY <2>5, <3>2, BacktraceAssumption
  <2>7. stack[FP(n) - 1] = FP(n - 1)
    BY <1>2, <1>3, <2>3, <2>6
  <2>8. ASSUME NEW i \in 2..(n - 1)
        PROVE  /\ stack[FP(i) - 1] = InFunction(Called[i - 1])
               /\ stack[FP(i) - 2] = FP(i - 1)
    <3>1. i \in 2..n
      BY <1>2
    <3> QED BY <1>3, <2>3, <2>6, <3>1
  <2> QED BY <1>4, <2>2, <2>4, <2>7, <2>8 DEF Frames
<1>6. StackInv
  BY <1>1, <1>2, <1>5 DEF StackInv
<1>7. PrintInv
  BY <1>1 DEF ChainInit, Begin, PrintInv, IsLines
<1> QED BY <1>6, <1>7

\* The walk at frame k: it can be read, and leads to the function that called
\* the one the frame belongs to.
LEMMA AtFrame ==
  ASSUME StackInv, ~damaged, NEW n \in Nat, Frames(n), NEW k \in 2..(n - 1),
         fp = FP(k)
  PROVE  /\ sp \in Int /\ fp \in Int /\ fp # 0 /\ fp > sp /\ fp < USER_STACK
         /\ fp - 1 > sp /\ fp - 2 > sp
         /\ Called[k - 1] \in Functions \cup {"main"}
         /\ Called[k - 1] = "main" <=> k = 2
         /\ k > 2 => k - 2 \in 1..Len(chain) /\ Called[k - 1] = chain[k - 2]
         /\ stack[fp - 1] # 0 /\ find_symbol_name(stack[fp - 1]) = Called[k - 1]
         /\ stack[fp - 2] = FP(k - 1)
         /\ k > 2 => Follows(FP(k - 1), fp)
<1>1. /\ chain \in Seq(Functions) /\ size \in FrameSizes /\ Len(chain) \in Nat
      /\ n = Len(chain) + 3 /\ n <= MaxCalls + 3 /\ sp = FP(n) - size
  BY ChainAssumption DEF StackInv, Frames
<1>2. /\ k \in 1..n /\ n \in 1..n /\ 1 \in 1..n /\ k < n /\ 1 < k /\ k \in 2..n
      /\ k > 2 => k - 1 \in 1..n /\ 1 < k - 1
  BY <1>1
<1>3. /\ size \in Nat /\ size >= 2 /\ FP(1) = USER_STACK
      /\ \A i \in 1..n : FP(i) \in Int /\ FP(i) - size > 0 /\ FP(i) <= USER_STACK
      /\ \A i \in 2..n : FP(i - 1) = FP(i) + size
      /\ \A i, j \in 1..n : i < j => FP(j) + size <= FP(i)
  BY <1>1, FrameFacts
<1>4. /\ FP(k) \in Int /\ FP(n) \in Int /\ FP(n) - size > 0
      /\ FP(n) + size <= FP(k) /\ FP(k) + size <= USER_STACK
      /\ FP(k - 1) = FP(k) + size
      /\ k > 2 => FP(k - 1) + size <= USER_STACK
  BY <1>2, <1>3
<1>5. /\ sp \in Int /\ fp \in Int /\ fp # 0 /\ fp > sp /\ fp < USER_STACK
      /\ fp - 1 > sp /\ fp - 2 > sp
  <2>1. USER_STACK \in Nat /\ size \in Nat /\ size >= 2
    BY <1>3, BacktraceAssumption
  <2>2. FP(n) \in Int /\ FP(k) \in Int /\ fp = FP(k) /\ sp = FP(n) - size
        /\ FP(n) - size > 0 /\ FP(n) + size <= FP(k) /\ FP(k) + size <= USER_STACK
    BY <1>1, <1>4
  <2> QED BY <2>1, <2>2
<1>6. k > 2 => Follows(FP(k - 1), fp)
  <2>1. USER_STACK \in Nat /\ size \in Nat /\ size >= 2
    BY <1>3, BacktraceAssumption
  <2>2. FP(k) \in Int /\ FP(k) > 0 /\ fp = FP(k)
    BY <1>2, <1>3, <1>4, <2>1
  <2>3. k > 2 => FP(k - 1) > fp /\ FP(k - 1) < USER_STACK /\ FP(k - 1) # 0
    BY <1>4, <2>1, <2>2
  <2> QED BY <2>3 DEF Follows
<1>7. /\ stack[fp - 1] = InFunction(Called[k - 1]) /\ stack[fp - 2] = FP(k - 1)
  BY DEF Frames
<1>8. k > 2 => k - 2 \in 1..Len(chain) /\ Called[k - 1] = chain[k - 2]
               /\ chain[k - 2] \in Functions
  <2>1. k > 2 => k - 2 \in 1..Len(chain) /\ (k - 2) + 1 = k - 1
    BY <1>1
  <2> QED BY <1>1, <2>1, CalledIs
<1>9. k = 2 => Called[k - 1] = "main"
  BY <1>1, CalledIs
<1>10. k = 2 \/ k > 2
  BY <1>2
<1>11. "main" \notin Functions
  BY ChainAssumption
<1>12. Called[k - 1] \in Functions \cup {"main"}
  BY <1>8, <1>9, <1>10
<1>13. stack[fp - 1] # 0 /\ find_symbol_name(stack[fp - 1]) = Called[k - 1]
  BY <1>7, <1>12, Resolves
<1> QED BY <1>5, <1>6, <1>7, <1>8, <1>9, <1>10, <1>11, <1>12, <1>13

\* The steps keep the application's state.
LEMMA KeptStack ==
  ASSUME StackInv, UNCHANGED <<args, chainVars>>
  PROVE  StackInv' /\ \A k : FP(k)' = FP(k)
<1>1. UNCHANGED <<stack, sp, s0, max_depth, chain, size, damaged>>
  BY DEF args, chainVars
<1>2. \A k : FP(k)' = FP(k)
  BY <1>1 DEF FP
<1>3. Called' = Called
  BY <1>1 DEF Called
<1>4. \A n : Frames(n) => Frames(n)'
  BY <1>1, <1>2, <1>3 DEF Frames
<1>5. StackInv'
  BY <1>1, <1>4 DEF StackInv
<1> QED BY <1>2, <1>5

\* To the frame of do_user_call's caller, print_backtrace.
LEMMA ChainStartStep ==
  ASSUME StackInv, PrintInv, Start, UNCHANGED chainVars
  PROVE  PrintInv'
<1> SUFFICES ASSUME ~damaged PROVE PrintInv'
  BY DEF PrintInv, chainVars
<1>1. PICK n \in Nat : Frames(n)
  BY DEF StackInv
<1>2. /\ chain \in Seq(Functions) /\ size \in FrameSizes /\ Len(chain) \in Nat
      /\ n = Len(chain) + 3 /\ n <= MaxCalls + 3 /\ sp = FP(n) - size /\ s0 = FP(n)
      /\ stack[s0 - 1] = FP(n - 1) /\ max_depth \in Nat
  BY <1>1, ChainAssumption DEF StackInv, Frames
<1>3. /\ size \in Nat /\ size >= 2 /\ FP(1) = USER_STACK
      /\ \A i \in 1..n : FP(i) \in Int /\ FP(i) - size > 0 /\ FP(i) <= USER_STACK
      /\ \A i \in 2..n : FP(i - 1) = FP(i) + size
      /\ \A i, j \in 1..n : i < j => FP(j) + size <= FP(i)
  BY <1>2, FrameFacts
<1>4. n \in 1..n /\ n - 1 \in 1..n /\ 1 \in 1..n /\ 1 < n - 1 /\ 1 < n /\ n \in 2..n
  BY <1>2
<1>5. /\ FP(n) \in Int /\ FP(n) - size > 0 /\ FP(n - 1) = FP(n) + size
      /\ FP(n - 1) + size <= USER_STACK
  BY <1>3, <1>4
<1>6. Follows(s0, sp) /\ s0 - 1 > sp /\ Follows(stack[s0 - 1], s0)
  BY <1>2, <1>3, <1>5, BacktraceAssumption DEF Follows
<1>7. /\ pc = "start" /\ UNCHANGED <<args, count, printed, chain, size, damaged>>
      /\ IF max_depth # 0 THEN fp' = FP(n - 1) /\ pc' = "loop" ELSE pc' = "done"
  BY <1>2, <1>6 DEF Start, chainVars
<1>8. /\ count = 0 /\ IsLines(printed, 0) /\ UNCHANGED max_depth
      /\ \A k : FP(k)' = FP(k)
  BY <1>7, KeptStack DEF PrintInv, args, chainVars
<1>9. n - 1 = Len(chain) + 2 - 0 /\ n - 1 \in Nat
  BY <1>2
<1> QED BY <1>2, <1>7, <1>8, <1>9 DEF PrintInv

\* The walk ends at the limit or in main's frame, not before.
LEMMA ChainBreakStep ==
  ASSUME StackInv, PrintInv, Break, UNCHANGED chainVars
  PROVE  PrintInv'
<1> SUFFICES ASSUME ~damaged PROVE PrintInv'
  BY DEF PrintInv, chainVars
<1>1. PICK n \in Nat : Frames(n)
  BY DEF StackInv
<1>2. PICK k \in Nat : k = Len(chain) + 2 - count /\ fp = FP(k)
  BY DEF PrintInv, Break
<1>3. /\ Len(chain) \in Nat /\ n = Len(chain) + 3 /\ count \in Nat
      /\ count <= Len(chain) /\ count <= max_depth /\ max_depth \in Nat
  BY <1>1 DEF StackInv, Frames, PrintInv
<1>4. k \in 2..(n - 1)
  BY <1>2, <1>3
<1>5. /\ fp # 0 /\ fp > sp /\ fp < USER_STACK /\ fp - 1 > sp /\ sp \in Int
      /\ fp \in Int /\ stack[fp - 1] # 0
      /\ find_symbol_name(stack[fp - 1]) = "main" <=> k = 2
  BY <1>1, <1>2, <1>4, AtFrame
<1>6. count >= max_depth \/ k = 2
  BY <1>5, BacktraceAssumption DEF Break, LoopEnds
<1>7. count = max_depth \/ count = Len(chain)
  BY <1>2, <1>3, <1>6
<1>8. pc' = "done" /\ UNCHANGED <<count, printed, chain, damaged, max_depth>>
  BY DEF Break, args, chainVars
<1> QED BY <1>3, <1>7, <1>8 DEF PrintInv

\* One more caller.
LEMMA ChainIterateStep ==
  ASSUME StackInv, PrintInv, Iterate, UNCHANGED chainVars
  PROVE  PrintInv'
<1> SUFFICES ASSUME ~damaged PROVE PrintInv'
  BY DEF PrintInv, chainVars
<1>1. PICK n \in Nat : Frames(n)
  BY DEF StackInv
<1>2. PICK k \in Nat : k = Len(chain) + 2 - count /\ fp = FP(k)
  BY DEF PrintInv, Iterate
<1>3. /\ Len(chain) \in Nat /\ n = Len(chain) + 3 /\ count \in Nat
      /\ count <= Len(chain) /\ count <= max_depth /\ max_depth \in Nat
  BY <1>1 DEF StackInv, Frames, PrintInv
<1>4. k \in 2..(n - 1)
  BY <1>2, <1>3
<1> DEFINE ra == stack[fp - 1]
           f == Called[k - 1]
<1>5. find_symbol_name(ra) = f /\ (f = "main" <=> k = 2)
      /\ f \in Functions \cup {"main"}
  BY <1>1, <1>2, <1>4, AtFrame
<1>6. k > 2 /\ f # "main" /\ f \in Functions /\ ~(count >= max_depth)
  BY <1>4, <1>5 DEF Iterate, LoopEnds
<1>7. /\ k - 2 \in 1..Len(chain) /\ f = chain[k - 2] /\ fp - 2 > sp
      /\ stack[fp - 2] = FP(k - 1) /\ Follows(FP(k - 1), fp)
  BY <1>1, <1>2, <1>4, <1>6, AtFrame
<1>8. f \notin Hidden /\ f # NoName
  BY <1>6, ChainAssumption
<1>9. Line(f, ra) = Line(chain[k - 2], 0)
  BY <1>7, <1>8 DEF Line
<1>10. /\ printed' = Append(printed, Line(f, ra)) /\ count' = count + 1
       /\ fp' = FP(k - 1) /\ pc' = "loop" /\ UNCHANGED <<args, chainVars>>
  BY <1>5, <1>7, <1>8 DEF Iterate
<1>11. UNCHANGED <<chain, damaged, max_depth>> /\ FP(k - 1)' = FP(k - 1)
  <2>1. UNCHANGED <<chain, damaged, max_depth, size>>
    BY <1>10 DEF args, chainVars
  <2> QED BY <2>1, <1>10, KeptStack
<1>12. IsLines(printed, count)
       /\ \A i \in 1..count : printed[i] = Line(chain[Len(chain) + 1 - i], 0)
  BY DEF PrintInv
<1>13. /\ IsLines(printed', count + 1)
       /\ \A i \in 1..count : printed'[i] = printed[i]
       /\ printed'[count + 1] = Line(f, ra)
  <2> HIDE DEF ra, f
  <2> QED BY <1>3, <1>10, <1>12, AppendLines
<1>14. \A i \in 1..(count + 1) : printed'[i] = Line(chain[Len(chain) + 1 - i], 0)
  <2> SUFFICES ASSUME NEW i \in 1..(count + 1)
               PROVE  printed'[i] = Line(chain[Len(chain) + 1 - i], 0)
    OBVIOUS
  <2>1. CASE i \in 1..count
    BY <1>12, <1>13, <2>1
  <2>2. CASE i = count + 1
    <3>1. Len(chain) + 1 - i = k - 2
      BY <1>2, <1>3, <2>2
    <3> QED BY <1>9, <1>13, <2>2, <3>1
  <2> QED BY <1>3, <2>1, <2>2
<1>15. count + 1 <= max_depth /\ count + 1 <= Len(chain) /\ count + 1 \in Nat
       /\ k - 1 = Len(chain) + 2 - (count + 1) /\ k - 1 \in Nat
  BY <1>2, <1>3, <1>6, <1>7
<1> QED BY <1>10, <1>11, <1>13, <1>14, <1>15 DEF PrintInv

\* The backtrace of an application that left its stack alone shows its calls:
\* every function between main and print_backtrace once per activation, the
\* innermost first, max_depth of them at most, whatever the functions, the size
\* of their frames and the number of calls.
THEOREM BacktraceExact == ChainSpec => []PrintsCallers
<1>1. ChainInit => StackInv /\ PrintInv
  BY ChainStart
<1>2. StackInv /\ PrintInv /\ [ChainNext]_<<vars, chainVars>> => (StackInv /\ PrintInv)'
  <2> SUFFICES ASSUME StackInv, PrintInv, [ChainNext]_<<vars, chainVars>>
               PROVE  StackInv' /\ PrintInv'
    OBVIOUS
  <2>1. UNCHANGED args /\ UNCHANGED chainVars
    BY DEF ChainNext, Next, Start, Break, Iterate, Returned, vars, args
  <2>2. StackInv' /\ \A k : FP(k)' = FP(k)
    BY <2>1, KeptStack
  <2>3. CASE Start
    BY <2>1, <2>2, <2>3, ChainStartStep
  <2>4. CASE Break
    BY <2>1, <2>2, <2>4, ChainBreakStep
  <2>5. CASE Iterate
    BY <2>1, <2>2, <2>5, ChainIterateStep
  <2>6. CASE UNCHANGED vars
    BY <2>1, <2>2, <2>6 DEF PrintInv, vars, chainVars
  <2> QED BY <2>2, <2>3, <2>4, <2>5, <2>6 DEF ChainNext, Next, Returned
<1>3. StackInv /\ PrintInv => PrintsCallers
  <2> SUFFICES ASSUME StackInv, PrintInv, pc = "done", ~damaged
               PROVE  printed = Callers
    BY DEF PrintsCallers
  <2>1. /\ count \in Nat /\ count <= max_depth /\ count <= Len(chain)
        /\ max_depth \in Nat /\ Len(chain) \in Nat
        /\ count = max_depth \/ count = Len(chain)
        /\ printed = [i \in 1..count |-> printed[i]]
        /\ \A i \in 1..count : printed[i] = Line(chain[Len(chain) + 1 - i], 0)
    BY DEF StackInv, PrintInv, IsLines
  <2>2. (IF max_depth < Len(chain) THEN max_depth ELSE Len(chain)) = count
    BY <2>1
  <2>3. Callers = [i \in 1..count |-> Line(chain[Len(chain) + 1 - i], 0)]
    BY <2>2 DEF Callers
  <2> QED BY <2>1, <2>3
<1> QED BY <1>1, <1>2, <1>3, PTL DEF ChainSpec

=============================================================================
